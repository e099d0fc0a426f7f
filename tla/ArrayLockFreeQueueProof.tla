---------------------- MODULE ArrayLockFreeQueueProof -----------------------
(***************************************************************************)
(* For any number of producers and consumers, any ring size and any number *)
(* of calls: what is consumed is exactly what was reserved, in order, and  *)
(* the ring never overwrites an unread element.                            *)
(*                                                                         *)
(* The inductive invariant says what each thread may rely on between two   *)
(* of its steps although the indices it loaded can be stale.               *)
(***************************************************************************)
EXTENDS ArrayLockFreeQueue, SequenceTheorems, FiniteSetTheorems, TLAPS

\* The histories are as long as the indices say.
Lengths ==
    /\ Len(log) = m_writeIndex
    /\ Len(out) = m_readIndex

\* The indices a producer loaded never run ahead, and if m_writeIndex has
\* not moved since then the room that was seen is still there.
EnqueueView ==
    \A p \in Producers :
        /\ pc[p] \in {"loadRead", "casWrite"} => curW[p] <= m_writeIndex
        /\ pc[p] = "casWrite" =>
              /\ curR[p] <= m_readIndex
              /\ (curW[p] = m_writeIndex => curW[p] + 1 - curR[p] < QSize)

\* A reserved index belongs to one producer until it is published.
Reserved(p) == pc[p] \in {"store", "commit"}

Ownership ==
    /\ \A p \in Producers : Reserved(p) =>
          /\ m_maximumReadIndex <= curW[p]
          /\ curW[p] < m_writeIndex
          /\ log[curW[p] + 1] = Element(p)
    /\ \A p \in Producers : pc[p] = "commit" =>
          m_thequeue[countToIndex(curW[p])] = Element(p)
    /\ \A p, q \in Producers :
          Reserved(p) /\ Reserved(q) /\ p # q => curW[p] # curW[q]

\* What a consumer read is worth something only while m_readIndex has not
\* moved, which is what its CAS tests.
DequeueView ==
    \A c \in Consumers :
        /\ pc[c] \in {"loadMax", "read", "casRead"} => curR[c] <= m_readIndex
        /\ pc[c] \in {"read", "casRead"} =>
              (curR[c] = m_readIndex => m_readIndex < m_maximumReadIndex)
        /\ pc[c] = "casRead" =>
              (curR[c] = m_readIndex => data[c] = log[m_readIndex + 1])

IndInv ==
    /\ TypeOK
    /\ Lengths
    /\ OneSlotFree
    /\ EnqueueView
    /\ Ownership
    /\ PublishedIntact
    /\ DequeueView
    /\ ConsumedInReservationOrder

-----------------------------------------------------------------------------
(* Arithmetic of the ring *)

\* countToIndex yields a slot.
LEMMA IndexIsSlot ==
    ASSUME NEW i \in Nat
    PROVE  countToIndex(i) \in Slots
  BY QSizeAssumption DEF countToIndex, Slots

\* A multiple of the ring size that is smaller than it is zero.
LEMMA SmallMultiple ==
    ASSUME NEW k \in Int, QSize * k < QSize, QSize * k > 0
    PROVE  FALSE
  <1>1. k > 0  BY QSizeAssumption
  <1>2. QSize * k >= QSize  BY <1>1, QSizeAssumption
  <1> QED  BY <1>2, QSizeAssumption

\* Indices less than a ring apart fall into different slots.
LEMMA NearIndicesDiffer ==
    ASSUME NEW i \in Nat, NEW j \in Nat, i < j, j - i < QSize
    PROVE  countToIndex(i) # countToIndex(j)
  <1> SUFFICES ASSUME i % QSize = j % QSize PROVE FALSE
    BY DEF countToIndex
  <1>1. /\ i = QSize * (i \div QSize) + (i % QSize)
        /\ j = QSize * (j \div QSize) + (j % QSize)
        /\ i \div QSize \in Int /\ j \div QSize \in Int
    BY QSizeAssumption
  <1>2. PICK k \in Int : k = (j \div QSize) - (i \div QSize)
    BY <1>1
  <1>3. j - i = QSize * k
    BY <1>1, <1>2, QSizeAssumption
  <1> QED  BY <1>3, SmallMultiple

\* Indices exactly one ring apart fall into the same slot.
LEMMA OneLapSameSlot ==
    ASSUME NEW i \in Nat
    PROVE  countToIndex(i + QSize) = countToIndex(i)
  <1> DEFINE j == i + QSize
  <1>1. /\ i = QSize * (i \div QSize) + (i % QSize)
        /\ j = QSize * (j \div QSize) + (j % QSize)
        /\ i \div QSize \in Int /\ j \div QSize \in Int
        /\ i % QSize \in Slots /\ j % QSize \in Slots
    BY QSizeAssumption DEF Slots
  <1>2. PICK k \in Int : k = (j \div QSize) - (i \div QSize) - 1
    BY <1>1
  <1>3. PICK l \in Int : l = 0 - k
    OBVIOUS
  <1>4. QSize * k = (i % QSize) - (j % QSize) /\ QSize * l = (j % QSize) - (i % QSize)
    BY <1>1, <1>2, <1>3, QSizeAssumption
  <1>5. QSize * k < QSize /\ QSize * l < QSize
    BY <1>1, <1>4, QSizeAssumption DEF Slots
  <1>6. ~(QSize * k > 0) /\ ~(QSize * l > 0)
    BY <1>5, SmallMultiple
  <1> QED  BY <1>1, <1>4, <1>6, QSizeAssumption DEF countToIndex, Slots

\* What the history variables rely on: Append keeps what was there.
LEMMA AppendFacts ==
    ASSUME NEW S, NEW s \in Seq(S), NEW e \in S
    PROVE  /\ Append(s, e) \in Seq(S)
           /\ Len(Append(s, e)) = Len(s) + 1
           /\ \A i \in 1 .. Len(s) : Append(s, e)[i] = s[i]
           /\ Append(s, e)[Len(s) + 1] = e
  OBVIOUS

-----------------------------------------------------------------------------
(* The invariant is inductive *)

\* The initial state satisfies the invariant.
LEMMA InitInd == Init => IndInv
  BY QSizeAssumption, CountModAssumption, ThreadsAssumption
  DEF Init, IndInv, TypeOK, Lengths, OneSlotFree, EnqueueView, Ownership, PublishedIntact,
      DequeueView, ConsumedInReservationOrder, Threads, ProducerPC, ConsumerPC, Reserved, Slots

\* A reservation adds the producer's element at the end of the history.
LEMMA ReserveExtendsLog ==
    ASSUME IndInv, NEW p \in Producers, EnqueueReserve(p), CASSucceeds(m_writeIndex, curW[p])
    PROVE  /\ log' \in Seq(Elements)
           /\ Len(log') = Len(log) + 1
           /\ \A i \in 1 .. Len(log) : log'[i] = log[i]
           /\ log'[Len(log) + 1] = Element(p)
           /\ m_writeIndex' = m_writeIndex + 1 /\ out' = out /\ m_readIndex' = m_readIndex
  <1>1. Element(p) \in Elements /\ log \in Seq(Elements)
    BY DEF IndInv, TypeOK, Element, Elements
  <1>2. log' = Append(log, Element(p)) /\ m_writeIndex' = m_writeIndex + 1
        /\ out' = out /\ m_readIndex' = m_readIndex
    BY DEF EnqueueReserve
  <1> QED  BY <1>1, <1>2, AppendFacts

\* A fresh load of m_writeIndex cannot be ahead of it.
LEMMA EnqueueLoadWriteInd ==
    ASSUME IndInv, NEW p \in Producers, EnqueueLoadWrite(p)
    PROVE  IndInv'
  <1> USE ThreadsAssumption, QSizeAssumption, CountModAssumption
      DEF IndInv, EnqueueLoadWrite, Goto, shared, history
  <1>1. TypeOK'
    BY DEF TypeOK, ProducerPC, ConsumerPC, Threads
  <1>2. Lengths'
    BY DEF TypeOK, Lengths
  <1>3. OneSlotFree'
    BY DEF TypeOK, OneSlotFree
  <1>4. EnqueueView'
    BY DEF TypeOK, EnqueueView, Threads
  <1>5. Ownership'
    BY DEF TypeOK, Ownership, Reserved, Element, Threads
  <1>6. PublishedIntact'
    BY DEF TypeOK, PublishedIntact
  <1>7. DequeueView'
    BY DEF TypeOK, DequeueView, Threads
  <1>8. ConsumedInReservationOrder'
    BY DEF TypeOK, ConsumedInReservationOrder
  <1> QED  BY <1>1, <1>2, <1>3, <1>4, <1>5, <1>6, <1>7, <1>8

\* The test for fullness: the room it finds is judged against a fresh m_readIndex.
LEMMA EnqueueLoadReadInd ==
    ASSUME IndInv, NEW p \in Producers, EnqueueLoadRead(p)
    PROVE  IndInv'
  <1> USE ThreadsAssumption, QSizeAssumption, CountModAssumption
      DEF IndInv, EnqueueLoadRead, Goto, shared, history
  <1>1. TypeOK'
    <2>1. pc' \in [Threads -> ProducerPC \cup ConsumerPC] /\ pc'[p] \in {"idle", "casWrite"}
      BY DEF TypeOK, Threads, ProducerPC
    <2> QED  BY <2>1 DEF TypeOK, ProducerPC, ConsumerPC, Threads
  <1>2. Lengths'
    BY DEF TypeOK, Lengths
  <1>3. OneSlotFree'
    BY DEF TypeOK, OneSlotFree
  <1>4. EnqueueView'
    <2>1. ASSUME NEW q \in Producers, q # p, pc'[q] = "casWrite"
          PROVE  pc[q] = "casWrite" /\ curR'[q] = curR[q]
      BY <2>1 DEF TypeOK, Threads
    <2>2. ASSUME pc'[p] = "casWrite", curW[p] = m_writeIndex
          PROVE  curW[p] + 1 - m_readIndex < QSize
      <3>1. ~LooksFull(curW[p], m_readIndex)
        BY <2>2 DEF TypeOK, Threads
      <3>2. curW[p] + 1 - m_readIndex # QSize
        <4> SUFFICES ASSUME curW[p] + 1 = m_readIndex + QSize PROVE FALSE
          BY DEF TypeOK
        <4>1. countToIndex(m_readIndex + QSize) = countToIndex(m_readIndex)
          BY OneLapSameSlot DEF TypeOK
        <4> QED  BY <3>1, <4>1 DEF LooksFull
      <3> QED  BY <2>2, <3>2 DEF TypeOK, OneSlotFree
    <2> QED  BY <2>1, <2>2 DEF TypeOK, EnqueueView, Threads
  <1>5. Ownership'
    BY DEF TypeOK, Ownership, Reserved, Element, Threads
  <1>6. PublishedIntact'
    BY DEF TypeOK, PublishedIntact
  <1>7. DequeueView'
    BY DEF TypeOK, DequeueView, Threads
  <1>8. ConsumedInReservationOrder'
    BY DEF TypeOK, ConsumedInReservationOrder
  <1> QED  BY <1>1, <1>2, <1>3, <1>4, <1>5, <1>6, <1>7, <1>8

\* The reserving CAS: if m_writeIndex has not moved, the slot was free and is now p's alone.
LEMMA EnqueueReserveInd ==
    ASSUME IndInv, NEW p \in Producers, EnqueueReserve(p)
    PROVE  IndInv'
  <1> USE ThreadsAssumption, QSizeAssumption, CountModAssumption
      DEF IndInv, EnqueueReserve, Goto, shared, history
  <1>1. TypeOK'
    <2>1. CASE CASSucceeds(m_writeIndex, curW[p])
      <3>1. log' \in Seq(Elements)
        BY <2>1, ReserveExtendsLog
      <3>2. m_writeIndex' \in Nat /\ curW' = curW /\ pc' = [pc EXCEPT ![p] = "store"]
        BY <2>1 DEF TypeOK
      <3> QED  BY <3>1, <3>2 DEF TypeOK, ProducerPC, ConsumerPC, Threads
    <2>2. CASE ~CASSucceeds(m_writeIndex, curW[p])
      BY <2>2 DEF TypeOK, ProducerPC, ConsumerPC, Threads
    <2> QED  BY <2>1, <2>2
  <1>2. Lengths'
    <2>1. CASE CASSucceeds(m_writeIndex, curW[p])
      BY <2>1, ReserveExtendsLog DEF Lengths
    <2>2. CASE ~CASSucceeds(m_writeIndex, curW[p])
      BY <2>2 DEF Lengths
    <2> QED  BY <2>1, <2>2
  <1>3. OneSlotFree'
    <2>1. CASE CASSucceeds(m_writeIndex, curW[p])
      <3>1. curW[p] = m_writeIndex /\ curR[p] <= m_readIndex /\ curW[p] + 1 - curR[p] < QSize
        BY <2>1 DEF EnqueueView, CASSucceeds
      <3>2. m_writeIndex' = m_writeIndex + 1
        BY <2>1
      <3>3. curR[p] \in Nat
        BY DEF TypeOK, Threads
      <3> QED  BY <3>1, <3>2, <3>3 DEF TypeOK, OneSlotFree
    <2>2. CASE ~CASSucceeds(m_writeIndex, curW[p])
      BY <2>2 DEF OneSlotFree
    <2> QED  BY <2>1, <2>2
  <1>4. EnqueueView'
    <2>1. CASE CASSucceeds(m_writeIndex, curW[p])
      <3>1. \A q \in Producers : q # p => pc'[q] = pc[q] /\ curW'[q] = curW[q]
        BY <2>1 DEF TypeOK, Threads
      <3>2. pc'[p] = "store" /\ m_writeIndex' = m_writeIndex + 1
        BY <2>1 DEF TypeOK, Threads
      <3>3. ASSUME NEW q \in Producers, pc[q] = "casWrite"
            PROVE  curW[q] # m_writeIndex + 1
        BY <3>3 DEF TypeOK, EnqueueView
      <3>4. m_writeIndex \in Nat /\ \A q \in Producers : curW[q] \in Nat
        BY DEF TypeOK
      <3>5. UNCHANGED <<curR, m_readIndex>> /\ curW' = curW
        BY <2>1
      <3> HIDE DEF EnqueueReserve
      <3> QED  BY <3>1, <3>2, <3>3, <3>4, <3>5 DEF EnqueueView
    <2>2. CASE ~CASSucceeds(m_writeIndex, curW[p])
      <3>1. \A q \in Producers : q # p => pc'[q] = pc[q] /\ curW'[q] = curW[q]
        BY <2>2 DEF TypeOK, Threads
      <3>2. pc'[p] = "loadRead" /\ curW'[p] = m_writeIndex /\ m_writeIndex' = m_writeIndex
        BY <2>2 DEF TypeOK, Threads
      <3>3. UNCHANGED <<curR, m_readIndex>> /\ m_writeIndex \in Nat
        BY <2>2 DEF TypeOK
      <3> HIDE DEF EnqueueReserve
      <3> QED  BY <3>1, <3>2, <3>3 DEF EnqueueView
    <2> QED  BY <2>1, <2>2
  <1>5. Ownership'
    <2>1. CASE CASSucceeds(m_writeIndex, curW[p])
      <3>0. /\ \A i \in 1 .. m_writeIndex : log'[i] = log[i]
            /\ log'[m_writeIndex + 1] = Element(p)
        BY <2>1, ReserveExtendsLog DEF Lengths
      <3>1. \A q \in Producers : q # p => pc'[q] = pc[q] /\ curW'[q] = curW[q]
        BY <2>1 DEF TypeOK, Threads
      <3>2. /\ pc'[p] = "store" /\ curW' = curW /\ curW[p] = m_writeIndex
            /\ m_writeIndex' = m_writeIndex + 1
        BY <2>1 DEF TypeOK, Threads, CASSucceeds
      <3>3. \A q \in Producers : Element(q)' = Element(q)
        BY DEF Element
      <3>4. \A q \in Producers : q # p /\ Reserved(q)' => Reserved(q)
        BY <3>1 DEF Reserved
      <3>5. ASSUME NEW q \in Producers, Reserved(q)
            PROVE  curW[q] + 1 \in 1 .. m_writeIndex
        BY <3>5 DEF TypeOK, Ownership
      <3>6. ASSUME NEW q \in Producers, Reserved(q)'
            PROVE  /\ m_maximumReadIndex <= curW[q]
                   /\ curW[q] < m_writeIndex + 1
                   /\ log'[curW[q] + 1] = Element(q)
        <4>1. CASE q = p
          BY <4>1, <3>0, <3>2 DEF TypeOK, OneSlotFree
        <4>2. CASE q # p
          <5>1. /\ m_maximumReadIndex <= curW[q] /\ curW[q] < m_writeIndex
                /\ log[curW[q] + 1] = Element(q) /\ curW[q] + 1 \in 1 .. m_writeIndex
            BY <4>2, <3>6, <3>4, <3>5 DEF Ownership
          <5> QED  BY <5>1, <3>0 DEF TypeOK
        <4> QED  BY <4>1, <4>2
      <3>7. \A q \in Producers : pc'[q] = "commit" => pc[q] = "commit"
        BY <3>1, <3>2
      <3>8. ASSUME NEW q \in Producers, NEW r \in Producers, Reserved(q)', Reserved(r)', q # r
            PROVE  curW[q] # curW[r]
        <4>1. CASE q # p /\ r # p
          BY <4>1, <3>4, <3>8 DEF Ownership
        <4>2. CASE q = p \/ r = p
          BY <4>2, <3>2, <3>4, <3>5, <3>8 DEF TypeOK
        <4> QED  BY <4>1, <4>2
      <3> QED  BY <3>2, <3>3, <3>6, <3>7, <3>8 DEF Ownership
    <2>2. CASE ~CASSucceeds(m_writeIndex, curW[p])
      <3>1. \A q \in Producers : q # p => pc'[q] = pc[q] /\ curW'[q] = curW[q]
        BY <2>2 DEF TypeOK, Threads
      <3>2. pc'[p] = "loadRead" /\ UNCHANGED <<m_writeIndex, log>>
        BY <2>2 DEF TypeOK, Threads
      <3>3. \A q \in Producers : Reserved(q)' => Reserved(q) /\ q # p
        BY <3>1, <3>2 DEF Reserved
      <3> QED  BY <3>1, <3>2, <3>3 DEF Ownership, Element, Reserved
    <2> QED  BY <2>1, <2>2
  <1>6. PublishedIntact'
    <2>1. CASE CASSucceeds(m_writeIndex, curW[p])
      <3>0. /\ \A i \in 1 .. m_writeIndex : log'[i] = log[i]
            /\ log'[m_writeIndex + 1] = Element(p)
        BY <2>1, ReserveExtendsLog DEF Lengths
      <3> QED  BY <3>0 DEF TypeOK, PublishedIntact, OneSlotFree
    <2>2. CASE ~CASSucceeds(m_writeIndex, curW[p])
      BY <2>2 DEF TypeOK, PublishedIntact
    <2> QED  BY <2>1, <2>2
  <1>7. DequeueView'
    <2>1. CASE CASSucceeds(m_writeIndex, curW[p])
      <3>0. /\ \A i \in 1 .. m_writeIndex : log'[i] = log[i]
            /\ log'[m_writeIndex + 1] = Element(p)
        BY <2>1, ReserveExtendsLog DEF Lengths
      <3>1. \A c \in Consumers : pc'[c] = pc[c]
        BY <2>1 DEF TypeOK, Threads
      <3>2. m_readIndex < m_maximumReadIndex => log'[m_readIndex + 1] = log[m_readIndex + 1]
        BY <3>0 DEF TypeOK, OneSlotFree
      <3> QED  BY <3>1, <3>2 DEF DequeueView
    <2>2. CASE ~CASSucceeds(m_writeIndex, curW[p])
      BY <2>2 DEF TypeOK, DequeueView, Threads
    <2> QED  BY <2>1, <2>2
  <1>8. ConsumedInReservationOrder'
    <2>1. CASE CASSucceeds(m_writeIndex, curW[p])
      <3>1. Len(log') = Len(log) + 1 /\ \A i \in 1 .. Len(log) : log'[i] = log[i]
        BY <2>1, ReserveExtendsLog
      <3>2. Len(log) \in Nat /\ Len(out) \in Nat
        BY DEF TypeOK
      <3> QED  BY <3>1, <3>2 DEF ConsumedInReservationOrder
    <2>2. CASE ~CASSucceeds(m_writeIndex, curW[p])
      BY <2>2 DEF ConsumedInReservationOrder
    <2> QED  BY <2>1, <2>2
  <1> QED  BY <1>1, <1>2, <1>3, <1>4, <1>5, <1>6, <1>7, <1>8

\* The store hits a slot that is neither published nor reserved by anyone else.
LEMMA EnqueueStoreInd ==
    ASSUME IndInv, NEW p \in Producers, EnqueueStore(p)
    PROVE  IndInv'
  <1> USE ThreadsAssumption, QSizeAssumption, CountModAssumption
      DEF IndInv, EnqueueStore, Goto, shared, history
  <1>1. TypeOK'
    <2>1. Element(p) \in Elements
      BY DEF TypeOK, Element, Elements
    <2>2. m_thequeue' \in [Slots -> Elements \cup {NoElement}]
      BY <2>1 DEF TypeOK
    <2> QED  BY <2>2 DEF TypeOK, ProducerPC, ConsumerPC, Threads
  <1>2. Lengths'
    BY DEF TypeOK, Lengths
  <1>3. OneSlotFree'
    BY DEF TypeOK, OneSlotFree
  <1>4. EnqueueView'
    BY DEF TypeOK, EnqueueView, Threads
  <1>5. Ownership'
    <2>1. Reserved(p) /\ \A q \in Producers : Reserved(q)' => Reserved(q)
      BY DEF TypeOK, Reserved, Threads
    <2>2. \A q \in Producers : Element(q)' = Element(q)
      BY DEF Element
    <2>3. ASSUME NEW q \in Producers, pc'[q] = "commit"
          PROVE  m_thequeue'[countToIndex(curW[q])] = Element(q)
      <3>1. CASE q = p
        BY <3>1, IndexIsSlot DEF TypeOK
      <3>2. CASE q # p
        <4>1. pc[q] = "commit" /\ Reserved(q)
          BY <2>3, <3>2 DEF TypeOK, Reserved, Threads
        <4>2. /\ curW[q] # curW[p]
              /\ curW[p] - curW[q] < QSize /\ curW[q] - curW[p] < QSize
          BY <2>1, <3>2, <4>1 DEF TypeOK, Ownership, OneSlotFree
        <4>3. countToIndex(curW[q]) # countToIndex(curW[p])
          BY <4>2, NearIndicesDiffer DEF TypeOK
        <4>4. m_thequeue[countToIndex(curW[q])] = Element(q)
          BY <4>1 DEF Ownership
        <4> QED  BY <4>3, <4>4, IndexIsSlot DEF TypeOK
      <3> QED  BY <3>1, <3>2
    <2> QED  BY <2>1, <2>2, <2>3 DEF Ownership
  <1>6. PublishedIntact'
    <2> SUFFICES ASSUME NEW i \in m_readIndex .. m_maximumReadIndex - 1
                 PROVE  m_thequeue'[countToIndex(i)] = log[i + 1]
      BY DEF PublishedIntact
    <2>1. i \in Nat /\ i < curW[p] /\ curW[p] - i < QSize
      BY DEF TypeOK, Ownership, OneSlotFree, Reserved
    <2>2. countToIndex(i) # countToIndex(curW[p])
      BY <2>1, NearIndicesDiffer DEF TypeOK
    <2>3. m_thequeue'[countToIndex(i)] = m_thequeue[countToIndex(i)]
      BY <2>1, <2>2, IndexIsSlot DEF TypeOK
    <2> QED  BY <2>3 DEF PublishedIntact
  <1>7. DequeueView'
    BY DEF TypeOK, DequeueView, Threads
  <1>8. ConsumedInReservationOrder'
    BY DEF TypeOK, ConsumedInReservationOrder
  <1> QED  BY <1>1, <1>2, <1>3, <1>4, <1>5, <1>6, <1>7, <1>8

\* The publishing CAS makes visible exactly the slot p stored to.
LEMMA EnqueueCommitInd ==
    ASSUME IndInv, NEW p \in Producers, EnqueueCommit(p)
    PROVE  IndInv'
  <1> USE ThreadsAssumption, QSizeAssumption, CountModAssumption
      DEF IndInv, EnqueueCommit, Goto, shared, history
  <1>1. TypeOK'
    BY DEF TypeOK, ProducerPC, ConsumerPC, Threads
  <1>2. Lengths'
    BY DEF TypeOK, Lengths
  <1>3. OneSlotFree'
    BY DEF TypeOK, OneSlotFree, Ownership, Reserved, CASSucceeds
  <1>4. EnqueueView'
    BY DEF TypeOK, EnqueueView, Threads
  <1>5. Ownership'
    <2>1. Reserved(p) /\ \A q \in Producers : Reserved(q)' => Reserved(q) /\ q # p /\ pc'[q] = pc[q]
      BY DEF TypeOK, Reserved, Threads
    <2>2. \A q \in Producers : Element(q)' = Element(q)
      BY DEF Element
    <2>3. ASSUME NEW q \in Producers, Reserved(q)'
          PROVE  m_maximumReadIndex' <= curW[q]
      BY <2>1, <2>3 DEF TypeOK, Ownership, CASSucceeds
    <2>4. ASSUME NEW q \in Producers, pc'[q] = "commit"
          PROVE  pc[q] = "commit"
      BY <2>4 DEF TypeOK, Threads
    <2> QED  BY <2>1, <2>2, <2>3, <2>4 DEF Ownership
  <1>6. PublishedIntact'
    <2>1. m_thequeue[countToIndex(m_maximumReadIndex)] = log[m_maximumReadIndex + 1]
      BY DEF Ownership, Reserved, CASSucceeds
    <2>2. \A i \in m_readIndex .. m_maximumReadIndex' - 1 :
            i \in m_readIndex .. m_maximumReadIndex - 1 \/ i = m_maximumReadIndex
      BY DEF TypeOK
    <2> QED  BY <2>1, <2>2 DEF PublishedIntact
  <1>7. DequeueView'
    BY DEF TypeOK, DequeueView, Threads
  <1>8. ConsumedInReservationOrder'
    BY DEF TypeOK, ConsumedInReservationOrder
  <1> QED  BY <1>1, <1>2, <1>3, <1>4, <1>5, <1>6, <1>7, <1>8

\* Counting touches nothing but m_count.
LEMMA EnqueueCountInd ==
    ASSUME IndInv, NEW p \in Producers, EnqueueCount(p)
    PROVE  IndInv'
  <1> USE ThreadsAssumption, QSizeAssumption, CountModAssumption
      DEF IndInv, EnqueueCount, Goto, shared, history
  <1>1. TypeOK'
    BY DEF TypeOK, ProducerPC, ConsumerPC, Threads
  <1>2. Lengths'
    BY DEF TypeOK, Lengths
  <1>3. OneSlotFree'
    BY DEF TypeOK, OneSlotFree
  <1>4. EnqueueView'
    BY DEF TypeOK, EnqueueView, Threads
  <1>5. Ownership'
    BY DEF TypeOK, Ownership, Reserved, Element, Threads
  <1>6. PublishedIntact'
    BY DEF TypeOK, PublishedIntact
  <1>7. DequeueView'
    BY DEF TypeOK, DequeueView, Threads
  <1>8. ConsumedInReservationOrder'
    BY DEF TypeOK, ConsumedInReservationOrder
  <1> QED  BY <1>1, <1>2, <1>3, <1>4, <1>5, <1>6, <1>7, <1>8

\* A fresh load of m_readIndex cannot be ahead of it.
LEMMA DequeueLoadReadInd ==
    ASSUME IndInv, NEW c \in Consumers, DequeueLoadRead(c)
    PROVE  IndInv'
  <1> USE ThreadsAssumption, QSizeAssumption, CountModAssumption
      DEF IndInv, DequeueLoadRead, Goto, shared, history
  <1>1. TypeOK'
    BY DEF TypeOK, ProducerPC, ConsumerPC, Threads
  <1>2. Lengths'
    BY DEF TypeOK, Lengths
  <1>3. OneSlotFree'
    BY DEF TypeOK, OneSlotFree
  <1>4. EnqueueView'
    BY DEF TypeOK, EnqueueView, Threads
  <1>5. Ownership'
    BY DEF TypeOK, Ownership, Reserved, Element, Threads
  <1>6. PublishedIntact'
    BY DEF TypeOK, PublishedIntact
  <1>7. DequeueView'
    BY DEF TypeOK, DequeueView, Threads
  <1>8. ConsumedInReservationOrder'
    BY DEF TypeOK, ConsumedInReservationOrder
  <1> QED  BY <1>1, <1>2, <1>3, <1>4, <1>5, <1>6, <1>7, <1>8

\* The test for emptiness: if m_readIndex has not moved, the slot is published.
LEMMA DequeueLoadMaxInd ==
    ASSUME IndInv, NEW c \in Consumers, DequeueLoadMax(c)
    PROVE  IndInv'
  <1> USE ThreadsAssumption, QSizeAssumption, CountModAssumption
      DEF IndInv, DequeueLoadMax, Goto, shared, history
  <1>1. TypeOK'
    BY DEF TypeOK, ProducerPC, ConsumerPC, Threads
  <1>2. Lengths'
    BY DEF TypeOK, Lengths
  <1>3. OneSlotFree'
    BY DEF TypeOK, OneSlotFree
  <1>4. EnqueueView'
    BY DEF TypeOK, EnqueueView, Threads
  <1>5. Ownership'
    BY DEF TypeOK, Ownership, Reserved, Element, Threads
  <1>6. PublishedIntact'
    BY DEF TypeOK, PublishedIntact
  <1>7. DequeueView'
    <2>1. ASSUME pc'[c] = "read", curR[c] = m_readIndex
          PROVE  m_readIndex < m_maximumReadIndex
      <3>1. ~LooksEmpty(curR[c], m_maximumReadIndex)
        BY <2>1 DEF TypeOK, Threads
      <3> QED  BY <2>1, <3>1 DEF TypeOK, OneSlotFree, LooksEmpty
    <2>2. pc'[c] \in {"read", "idle"}
      BY DEF TypeOK, Threads
    <2> QED  BY <2>1, <2>2 DEF TypeOK, DequeueView, Threads
  <1>8. ConsumedInReservationOrder'
    BY DEF TypeOK, ConsumedInReservationOrder
  <1> QED  BY <1>1, <1>2, <1>3, <1>4, <1>5, <1>6, <1>7, <1>8

\* The slot read before the claim holds the oldest element, if m_readIndex has not moved.
LEMMA DequeueReadInd ==
    ASSUME IndInv, NEW c \in Consumers, DequeueRead(c)
    PROVE  IndInv'
  <1> USE ThreadsAssumption, QSizeAssumption, CountModAssumption
      DEF IndInv, DequeueRead, Goto, shared, history
  <1>1. TypeOK'
    <2>1. m_thequeue[countToIndex(curR[c])] \in Elements \cup {NoElement}
      BY IndexIsSlot DEF TypeOK, Threads
    <2> QED  BY <2>1 DEF TypeOK, ProducerPC, ConsumerPC, Threads
  <1>2. Lengths'
    BY DEF TypeOK, Lengths
  <1>3. OneSlotFree'
    BY DEF TypeOK, OneSlotFree
  <1>4. EnqueueView'
    BY DEF TypeOK, EnqueueView, Threads
  <1>5. Ownership'
    BY DEF TypeOK, Ownership, Reserved, Element, Threads
  <1>6. PublishedIntact'
    BY DEF TypeOK, PublishedIntact
  <1>7. DequeueView'
    <2>1. ASSUME curR[c] = m_readIndex
          PROVE  m_readIndex < m_maximumReadIndex /\ data'[c] = log[m_readIndex + 1]
      <3>1. m_readIndex \in m_readIndex .. m_maximumReadIndex - 1
        BY <2>1 DEF TypeOK, DequeueView
      <3> QED  BY <2>1, <3>1 DEF TypeOK, PublishedIntact
    <2> QED  BY <2>1 DEF TypeOK, DequeueView, Threads
  <1>8. ConsumedInReservationOrder'
    BY DEF TypeOK, ConsumedInReservationOrder
  <1> QED  BY <1>1, <1>2, <1>3, <1>4, <1>5, <1>6, <1>7, <1>8

\* The claiming CAS succeeds only if what was read is still the oldest element.
LEMMA DequeueClaimInd ==
    ASSUME IndInv, NEW c \in Consumers, DequeueClaim(c)
    PROVE  IndInv'
  <1> USE ThreadsAssumption, QSizeAssumption, CountModAssumption
      DEF IndInv, DequeueClaim, Goto, shared, history
  <1>1. TypeOK'
    <2>1. CASE CASSucceeds(m_readIndex, curR[c])
      <3>1. out' = Append(out, data[c]) /\ data[c] \in Elements \cup {NoElement}
            /\ out \in Seq(Elements \cup {NoElement})
        BY <2>1 DEF TypeOK
      <3>2. /\ out' \in Seq(Elements \cup {NoElement})
            /\ Len(out') = Len(out) + 1
            /\ \A i \in 1 .. Len(out) : out'[i] = out[i]
            /\ out'[Len(out) + 1] = data[c]
        BY <3>1, AppendFacts
      <3>3. m_readIndex' \in Nat /\ curR' = curR /\ pc' = [pc EXCEPT ![c] = "count"]
        BY <2>1 DEF TypeOK
      <3> QED  BY <3>2, <3>3 DEF TypeOK, ProducerPC, ConsumerPC, Threads
    <2>2. CASE ~CASSucceeds(m_readIndex, curR[c])
      BY <2>2 DEF TypeOK, ProducerPC, ConsumerPC, Threads
    <2> QED  BY <2>1, <2>2
  <1>2. Lengths'
    BY DEF TypeOK, Lengths
  <1>3. OneSlotFree'
    <2>1. CASE CASSucceeds(m_readIndex, curR[c])
      BY <2>1 DEF TypeOK, OneSlotFree, DequeueView, CASSucceeds
    <2>2. CASE ~CASSucceeds(m_readIndex, curR[c])
      BY <2>2 DEF OneSlotFree
    <2> QED  BY <2>1, <2>2
  <1>4. EnqueueView'
    BY DEF TypeOK, EnqueueView, Threads
  <1>5. Ownership'
    BY DEF TypeOK, Ownership, Reserved, Element, Threads
  <1>6. PublishedIntact'
    BY DEF TypeOK, PublishedIntact
  <1>7. DequeueView'
    <2>1. CASE CASSucceeds(m_readIndex, curR[c])
      <3>1. curR[c] = m_readIndex
        BY <2>1 DEF CASSucceeds
      <3>2. ASSUME NEW d \in Consumers, pc'[d] \in {"loadMax", "read", "casRead"}
            PROVE  d # c /\ pc'[d] = pc[d]
        BY <2>1, <3>2 DEF TypeOK, Threads
      <3>3. ASSUME NEW d \in Consumers
            PROVE  pc[d] \in {"read", "casRead"} => curR[d] <= m_readIndex
        BY DEF TypeOK, DequeueView
      <3> QED  BY <2>1, <3>1, <3>2, <3>3 DEF TypeOK, DequeueView, Threads
    <2>2. CASE ~CASSucceeds(m_readIndex, curR[c])
      BY <2>2 DEF TypeOK, DequeueView, Threads
    <2> QED  BY <2>1, <2>2
  <1>8. ConsumedInReservationOrder'
    <2>1. CASE CASSucceeds(m_readIndex, curR[c])
      <3>1. out' = Append(out, data[c]) /\ data[c] \in Elements \cup {NoElement}
            /\ out \in Seq(Elements \cup {NoElement})
        BY <2>1 DEF TypeOK
      <3>2. /\ out' \in Seq(Elements \cup {NoElement})
            /\ Len(out') = Len(out) + 1
            /\ \A i \in 1 .. Len(out) : out'[i] = out[i]
            /\ out'[Len(out) + 1] = data[c]
        BY <3>1, AppendFacts
      <3>3. data[c] = log[m_readIndex + 1] /\ m_readIndex + 1 <= Len(log)
        BY <2>1 DEF TypeOK, DequeueView, CASSucceeds, OneSlotFree, Lengths
      <3>4. Len(out) \in Nat /\ Len(out) = m_readIndex
        BY DEF TypeOK, Lengths
      <3> QED  BY <3>2, <3>3, <3>4 DEF ConsumedInReservationOrder
    <2>2. CASE ~CASSucceeds(m_readIndex, curR[c])
      BY <2>2 DEF ConsumedInReservationOrder
    <2> QED  BY <2>1, <2>2
  <1> QED  BY <1>1, <1>2, <1>3, <1>4, <1>5, <1>6, <1>7, <1>8

\* Counting touches nothing but m_count.
LEMMA DequeueCountInd ==
    ASSUME IndInv, NEW c \in Consumers, DequeueCount(c)
    PROVE  IndInv'
  <1> USE ThreadsAssumption, QSizeAssumption, CountModAssumption
      DEF IndInv, DequeueCount, Goto, shared, history
  <1>1. TypeOK'
    BY DEF TypeOK, ProducerPC, ConsumerPC, Threads
  <1>2. Lengths'
    BY DEF TypeOK, Lengths
  <1>3. OneSlotFree'
    BY DEF TypeOK, OneSlotFree
  <1>4. EnqueueView'
    BY DEF TypeOK, EnqueueView, Threads
  <1>5. Ownership'
    BY DEF TypeOK, Ownership, Reserved, Element, Threads
  <1>6. PublishedIntact'
    BY DEF TypeOK, PublishedIntact
  <1>7. DequeueView'
    BY DEF TypeOK, DequeueView, Threads
  <1>8. ConsumedInReservationOrder'
    BY DEF TypeOK, ConsumedInReservationOrder
  <1> QED  BY <1>1, <1>2, <1>3, <1>4, <1>5, <1>6, <1>7, <1>8

-----------------------------------------------------------------------------
\* Every step of every thread preserves the invariant.
LEMMA NextInd == IndInv /\ [Next]_vars => IndInv'
  <1> SUFFICES ASSUME IndInv, [Next]_vars PROVE IndInv'
    OBVIOUS
  <1>1. ASSUME NEW p \in Producers, Enqueue(p) PROVE IndInv'
    BY <1>1, EnqueueLoadWriteInd, EnqueueLoadReadInd, EnqueueReserveInd, EnqueueStoreInd,
       EnqueueCommitInd, EnqueueCountInd DEF Enqueue
  <1>2. ASSUME NEW c \in Consumers, Dequeue(c) PROVE IndInv'
    BY <1>2, DequeueLoadReadInd, DequeueLoadMaxInd, DequeueReadInd, DequeueClaimInd,
       DequeueCountInd DEF Dequeue
  <1>3. ASSUME UNCHANGED vars PROVE IndInv'
    BY <1>3 DEF vars, IndInv, TypeOK, Lengths, OneSlotFree, EnqueueView, Ownership,
       PublishedIntact, DequeueView, ConsumedInReservationOrder, Reserved, Element
  <1> QED  BY <1>1, <1>2, <1>3 DEF Next

\* The invariant holds of every reachable state, for every number of
\* threads, ring size and number of calls.
THEOREM InductiveInvariant == Spec => []IndInv
  BY InitInd, NextInd, PTL DEF Spec

\* Every index, slot and local variable keeps its type; in particular
\* m_count stays within the width of its word.
THEOREM TypeCorrect == Spec => []TypeOK
  <1>1. IndInv => TypeOK  BY DEF IndInv
  <1> QED  BY <1>1, InductiveInvariant, PTL

\* Successful dequeues return the elements in the order in which the
\* producers' CAS on m_writeIndex reserved their slots, each exactly once.
THEOREM NothingLostOrDuplicated == Spec => []ConsumedInReservationOrder
  <1>1. IndInv => ConsumedInReservationOrder  BY DEF IndInv
  <1> QED  BY <1>1, InductiveInvariant, PTL

\* An element stays in its slot from its publication to its consumption.
THEOREM NoOverwrite == Spec => []PublishedIntact
  <1>1. IndInv => PublishedIntact  BY DEF IndInv
  <1> QED  BY <1>1, InductiveInvariant, PTL

\* The three indices stay in order and less than a ring apart.
THEOREM RingBounded == Spec => []OneSlotFree
  <1>1. IndInv => OneSlotFree  BY DEF IndInv
  <1> QED  BY <1>1, InductiveInvariant, PTL

-----------------------------------------------------------------------------
(* m_count *)

\* The threads of S that moved an index and have not changed m_count yet.
Late(S) == {t \in S : pc[t] = "count"}

\* Up to the width of its word m_count is behind by the producers that are late
\* and ahead by the consumers that are.
Lag == m_count + Cardinality(Late(Producers)) - Cardinality(Late(Consumers))
           - (m_maximumReadIndex - m_readIndex)

CountLags == Lag % CountMod = 0

\* A number is 0 modulo CountMod exactly when it is a multiple of it.
LEMMA Multiple ==
    ASSUME NEW x \in Int
    PROVE  x % CountMod = 0 <=> \E k \in Int : x = CountMod * k
  <1>1. /\ x = CountMod * (x \div CountMod) + (x % CountMod)
        /\ x \div CountMod \in Int /\ x % CountMod \in 0 .. CountMod - 1
    BY CountModAssumption, QSizeAssumption
  <1>2. ASSUME NEW k \in Int, x = CountMod * k PROVE x % CountMod = 0
    <2>1. PICK d \in Int : d = k - (x \div CountMod)
      BY <1>1
    <2>2. x % CountMod = CountMod * d
      BY <1>1, <1>2, <2>1, CountModAssumption, QSizeAssumption
    <2>3. CountMod * d < CountMod /\ CountMod * d >= 0
      BY <1>1, <2>2, CountModAssumption, QSizeAssumption
    <2>4. ~(d > 0) /\ ~(d < 0)
      BY <2>3, CountModAssumption, QSizeAssumption
    <2> QED
      BY <2>2, <2>4, CountModAssumption, QSizeAssumption
  <1>3. ASSUME x % CountMod = 0 PROVE \E k \in Int : x = CountMod * k
    <2>1. x \div CountMod \in Int /\ x = CountMod * (x \div CountMod)
      BY <1>1, <1>3, CountModAssumption
    <2> QED
      BY <2>1
  <1> QED
    BY <1>2, <1>3

\* Counting up or down modulo CountMod changes a number by one, up to a multiple.
LEMMA CountStep ==
    ASSUME NEW n \in 0 .. CountMod - 1
    PROVE  /\ (n + 1) % CountMod = n + 1 \/ (n + 1) % CountMod = n + 1 - CountMod
           /\ (n - 1) % CountMod = n - 1 \/ (n - 1) % CountMod = n - 1 + CountMod
  <1>1. ASSUME NEW x \in Int, x >= 0, x < CountMod PROVE x % CountMod = x
    BY <1>1, CountModAssumption, QSizeAssumption
  <1>2. CountMod % CountMod = 0
    <2>1. CountMod \in Int /\ CountMod = CountMod * 1
      BY CountModAssumption
    <2> QED
      BY <2>1, Multiple
  <1>3. (-1) % CountMod = CountMod - 1
    <2> DEFINE d == (-1) \div CountMod
               m == (-1) % CountMod
    <2>1. -1 = CountMod * d + m /\ d \in Int /\ m \in 0 .. CountMod - 1
      BY CountModAssumption, QSizeAssumption
    <2> HIDE DEF d, m
    <2>2. ~(d >= 0) /\ ~(d < -1)
      BY <2>1, CountModAssumption, QSizeAssumption
    <2>3. d = -1
      BY <2>1, <2>2
    <2>4. m = CountMod - 1
      BY <2>1, <2>3, CountModAssumption
    <2> QED
      BY <2>4 DEF m
  <1> QED
    BY <1>1, <1>2, <1>3, CountModAssumption, QSizeAssumption

\* A thread that moves on within S is counted in, counted out, or neither.
LEMMA LateStep ==
    ASSUME TypeOK, NEW S, IsFiniteSet(S), S \subseteq Threads, NEW t \in Threads, NEW label,
           Goto(t, label)
    PROVE  /\ Cardinality(Late(S)) \in Nat
           /\ t \notin S \/ (pc[t] # "count" /\ label # "count")
                 => Cardinality(Late(S)') = Cardinality(Late(S))
           /\ t \in S /\ pc[t] # "count" /\ label = "count"
                 => Cardinality(Late(S)') = Cardinality(Late(S)) + 1
           /\ t \in S /\ pc[t] = "count" /\ label # "count"
                 => Cardinality(Late(S)') = Cardinality(Late(S)) - 1
  <1>1. IsFiniteSet(Late(S))
    <2>1. Late(S) \subseteq S
      BY DEF Late
    <2> QED
      BY <2>1, FS_Subset
  <1>2. pc'[t] = label /\ \A u \in S : u # t => pc'[u] = pc[u]
    BY DEF TypeOK, Goto
  <1>3. /\ t \notin S \/ (pc[t] # "count" /\ label # "count") => Late(S)' = Late(S)
        /\ t \in S /\ pc[t] # "count" /\ label = "count" =>
              t \notin Late(S) /\ Late(S)' = Late(S) \cup {t}
        /\ t \in S /\ pc[t] = "count" /\ label # "count" =>
              t \in Late(S) /\ Late(S)' = Late(S) \ {t}
    BY <1>2 DEF Late
  <1> QED
    BY <1>1, <1>3, FS_CardinalityType, FS_AddElement, FS_RemoveElement

\* Lag may only change by CountMod.
LEMMA LagStep ==
    ASSUME CountLags, Lag \in Int, Lag' = Lag \/ Lag' = Lag + CountMod \/ Lag' = Lag - CountMod
    PROVE  CountLags'
  <1>1. PICK k \in Int : Lag = CountMod * k
    BY Multiple DEF CountLags, Lag
  <1>2. \E l \in Int : Lag' = CountMod * l
    <2>1. CASE Lag' = Lag
      BY <1>1, <2>1
    <2>2. CASE Lag' = Lag + CountMod
      <3>1. k + 1 \in Int /\ Lag' = CountMod * (k + 1)
        BY <1>1, <2>2, CountModAssumption
      <3> QED  BY <3>1
    <2>3. CASE Lag' = Lag - CountMod
      <3>1. k - 1 \in Int /\ Lag' = CountMod * (k - 1)
        BY <1>1, <2>3, CountModAssumption
      <3> QED  BY <3>1
    <2> QED  BY <2>1, <2>2, <2>3
  <1>3. Lag' \in Int
    BY CountModAssumption
  <1>4. Lag' % CountMod = 0
    BY <1>2, <1>3, Multiple
  <1> QED
    BY <1>4 DEF CountLags, Lag

\* A producer is late from its publishing CAS to its increment.
LEMMA EnqueueLags ==
    ASSUME IndInv, CountLags, NEW p \in Producers, Enqueue(p)
    PROVE  CountLags'
  <1> DEFINE P == Cardinality(Late(Producers))
             C == Cardinality(Late(Consumers))
  <1>1. /\ p \in Threads /\ p \notin Consumers
        /\ Producers \subseteq Threads /\ Consumers \subseteq Threads
    BY ThreadsAssumption DEF Threads
  <1>2. /\ m_count \in 0 .. CountMod - 1 /\ CountMod \in Nat
        /\ m_maximumReadIndex \in Nat /\ m_readIndex \in Nat
    BY CountModAssumption DEF IndInv, TypeOK
  <1>3. ASSUME NEW label, Goto(p, label)
        PROVE  /\ P \in Nat /\ C \in Nat /\ C' = C
               /\ pc[p] # "count" /\ label # "count" => P' = P
               /\ pc[p] # "count" /\ label = "count" => P' = P + 1
               /\ pc[p] = "count" /\ label # "count" => P' = P - 1
    BY <1>1, <1>3, LateStep, FiniteAssumption DEF IndInv
  <1> HIDE DEF P, C
  <1>4. Lag = m_count + P - C - (m_maximumReadIndex - m_readIndex)
        /\ Lag' = m_count' + P' - C' - (m_maximumReadIndex' - m_readIndex')
    BY DEF Lag, P, C
  <1>5. CASE EnqueueLoadWrite(p) \/ EnqueueLoadRead(p) \/ EnqueueReserve(p) \/ EnqueueStore(p)
    <2>1. PICK label : Goto(p, label) /\ label # "count"
      BY <1>5 DEF EnqueueLoadWrite, EnqueueLoadRead, EnqueueReserve, EnqueueStore
    <2>2. pc[p] # "count" /\ UNCHANGED <<m_count, m_maximumReadIndex, m_readIndex>>
      BY <1>5 DEF EnqueueLoadWrite, EnqueueLoadRead, EnqueueReserve, EnqueueStore, shared
    <2>3. Lag' = Lag /\ Lag \in Int
      BY <1>2, <1>3, <1>4, <2>1, <2>2
    <2> QED  BY <2>3, LagStep
  <1>6. CASE EnqueueCommit(p)
    <2>1. /\ Goto(p, "count") /\ pc[p] # "count" /\ UNCHANGED <<m_count, m_readIndex>>
          /\ m_maximumReadIndex' = m_maximumReadIndex + 1
      BY <1>6 DEF EnqueueCommit
    <2>2. Lag' = Lag /\ Lag \in Int
      BY <1>2, <1>3, <1>4, <2>1
    <2> QED  BY <2>2, LagStep
  <1>7. CASE EnqueueCount(p)
    <2>1. /\ Goto(p, "idle") /\ pc[p] = "count" /\ UNCHANGED <<m_maximumReadIndex, m_readIndex>>
          /\ m_count' = m_count + 1 \/ m_count' = m_count + 1 - CountMod
      BY <1>2, <1>7, CountStep DEF EnqueueCount
    <2>2. Lag \in Int /\ (Lag' = Lag \/ Lag' = Lag - CountMod)
      BY <1>2, <1>3, <1>4, <2>1
    <2> QED  BY <2>2, LagStep
  <1> QED  BY <1>5, <1>6, <1>7 DEF Enqueue

\* A consumer is late from its claiming CAS to its decrement.
LEMMA DequeueLags ==
    ASSUME IndInv, CountLags, NEW c \in Consumers, Dequeue(c)
    PROVE  CountLags'
  <1> DEFINE P == Cardinality(Late(Producers))
             C == Cardinality(Late(Consumers))
  <1>1. /\ c \in Threads /\ c \notin Producers
        /\ Producers \subseteq Threads /\ Consumers \subseteq Threads
    BY ThreadsAssumption DEF Threads
  <1>2. /\ m_count \in 0 .. CountMod - 1 /\ CountMod \in Nat
        /\ m_maximumReadIndex \in Nat /\ m_readIndex \in Nat
    BY CountModAssumption DEF IndInv, TypeOK
  <1>3. ASSUME NEW label, Goto(c, label)
        PROVE  /\ P \in Nat /\ C \in Nat /\ P' = P
               /\ pc[c] # "count" /\ label # "count" => C' = C
               /\ pc[c] # "count" /\ label = "count" => C' = C + 1
               /\ pc[c] = "count" /\ label # "count" => C' = C - 1
    BY <1>1, <1>3, LateStep, FiniteAssumption DEF IndInv
  <1> HIDE DEF P, C
  <1>4. Lag = m_count + P - C - (m_maximumReadIndex - m_readIndex)
        /\ Lag' = m_count' + P' - C' - (m_maximumReadIndex' - m_readIndex')
    BY DEF Lag, P, C
  <1>5. CASE /\ DequeueLoadRead(c) \/ DequeueLoadMax(c) \/ DequeueRead(c) \/ DequeueClaim(c)
             /\ UNCHANGED m_readIndex
    <2>1. PICK label : Goto(c, label) /\ label # "count"
      BY <1>2, <1>5 DEF DequeueLoadRead, DequeueLoadMax, DequeueRead, DequeueClaim
    <2>2. pc[c] # "count" /\ UNCHANGED <<m_count, m_maximumReadIndex>>
      BY <1>5 DEF DequeueLoadRead, DequeueLoadMax, DequeueRead, DequeueClaim, shared
    <2>3. Lag' = Lag /\ Lag \in Int
      BY <1>2, <1>3, <1>4, <1>5, <2>1, <2>2
    <2> QED  BY <2>3, LagStep
  <1>6. CASE DequeueClaim(c) /\ m_readIndex' # m_readIndex
    <2>1. /\ Goto(c, "count") /\ pc[c] # "count" /\ UNCHANGED <<m_count, m_maximumReadIndex>>
          /\ m_readIndex' = m_readIndex + 1
      BY <1>6 DEF DequeueClaim
    <2>2. Lag' = Lag /\ Lag \in Int
      BY <1>2, <1>3, <1>4, <2>1
    <2> QED  BY <2>2, LagStep
  <1>7. CASE DequeueCount(c)
    <2>1. /\ Goto(c, "idle") /\ pc[c] = "count" /\ UNCHANGED <<m_maximumReadIndex, m_readIndex>>
          /\ m_count' = m_count - 1 \/ m_count' = m_count - 1 + CountMod
      BY <1>2, <1>7, CountStep DEF DequeueCount
    <2>2. Lag \in Int /\ (Lag' = Lag \/ Lag' = Lag + CountMod)
      BY <1>2, <1>3, <1>4, <2>1
    <2> QED  BY <2>2, LagStep
  <1> QED  BY <1>5, <1>6, <1>7 DEF Dequeue, DequeueLoadRead, DequeueLoadMax, DequeueRead, shared

LEMMA CountLagsInd == IndInv /\ CountLags /\ [Next]_vars => CountLags'
  <1>1. UNCHANGED vars => (CountLags <=> CountLags')
    BY DEF vars, CountLags, Lag, Late
  <1> QED
    BY <1>1, EnqueueLags, DequeueLags DEF Next

\* Whenever no call is between its CAS and its AtomicAdd or AtomicSub, m_count
\* is the number of published elements, however often it passed below zero.
THEOREM CountExact == Spec => []CountExactWhenQuiet
  <1>1. Init => CountLags
    <2> SUFFICES ASSUME Init PROVE CountLags
      OBVIOUS
    <2>1. Late(Producers) = {} /\ Late(Consumers) = {}
      BY DEF Init, Late, Threads
    <2>2. 0 % CountMod = 0
      BY CountModAssumption, QSizeAssumption
    <2> QED
      BY <2>1, <2>2, FS_EmptySet DEF Init, CountLags, Lag
  <1>2. IndInv /\ CountLags => CountExactWhenQuiet
    <2> SUFFICES ASSUME IndInv, CountLags, \A t \in Threads : pc[t] # "count"
                 PROVE  m_count = (m_maximumReadIndex - m_readIndex) % CountMod
      BY DEF CountExactWhenQuiet
    <2> DEFINE d == m_maximumReadIndex - m_readIndex
    <2>1. Late(Producers) = {} /\ Late(Consumers) = {}
      BY DEF Late, Threads
    <2>2. m_count \in 0 .. CountMod - 1 /\ d \in 0 .. QSize - 1
      BY QSizeAssumption DEF IndInv, TypeOK, OneSlotFree
    <2> HIDE DEF d
    <2>3. (m_count - d) % CountMod = 0
      <3>1. Cardinality(Late(Producers)) = 0 /\ Cardinality(Late(Consumers)) = 0
        BY <2>1, FS_EmptySet
      <3>2. m_count + 0 - 0 - d = m_count - d
        BY <2>2, QSizeAssumption
      <3> QED
        BY <3>1, <3>2 DEF CountLags, Lag, d
    <2>4. PICK k \in Int : m_count - d = CountMod * k
      <3>1. m_count - d \in Int
        BY <2>2, QSizeAssumption, CountModAssumption
      <3> QED
        BY <2>3, <3>1, Multiple
    <2>5. ~(k > 0) /\ ~(k < 0)
      BY <2>2, <2>4, QSizeAssumption, CountModAssumption
    <2>6. m_count = d
      BY <2>2, <2>4, <2>5, QSizeAssumption, CountModAssumption
    <2>7. d % CountMod = d
      BY <2>2, QSizeAssumption, CountModAssumption
    <2> QED
      BY <2>6, <2>7 DEF d
  <1> QED
    BY <1>1, <1>2, CountLagsInd, InductiveInvariant, PTL DEF Spec

-----------------------------------------------------------------------------
(* The ring implements the abstract queue *)

\* A window of a sequence: its length and its elements.
LEMMA WindowFacts ==
    ASSUME NEW S, NEW s \in Seq(S), NEW r \in Nat, NEW m \in Nat, r <= m, m <= Len(s)
    PROVE  /\ SubSeq(s, r + 1, m) \in Seq(S)
           /\ Len(SubSeq(s, r + 1, m)) = m - r
           /\ \A i \in 1 .. m - r : SubSeq(s, r + 1, m)[i] = s[r + i]
  <1>1. \A i \in r + 1 .. m : s[i] \in S
    OBVIOUS
  <1>2. r + 1 \in Int /\ m \in Int
    OBVIOUS
  <1>3. /\ SubSeq(s, r + 1, m) \in Seq(S)
        /\ Len(SubSeq(s, r + 1, m)) = IF r + 1 <= m THEN m - (r + 1) + 1 ELSE 0
        /\ \A i \in 1 .. m - (r + 1) + 1 : SubSeq(s, r + 1, m)[i] = s[r + 1 + i - 1]
    BY <1>1, <1>2, SubSeqProperties
  <1>4. m - (r + 1) + 1 = m - r /\ \A i \in 1 .. m - r : r + 1 + i - 1 = r + i
    OBVIOUS
  <1>5. Len(SubSeq(s, r + 1, m)) = m - r
    BY <1>3
  <1> QED  BY <1>3, <1>4, <1>5

\* A window depends only on the part of the sequence it shows.
LEMMA SameWindow ==
    ASSUME NEW S, NEW s \in Seq(S), NEW t \in Seq(S), NEW r \in Nat, NEW m \in Nat,
           r <= m, m <= Len(s), m <= Len(t), \A i \in 1 .. m : s[i] = t[i]
    PROVE  SubSeq(s, r + 1, m) = SubSeq(t, r + 1, m)
  <1>1. /\ SubSeq(s, r + 1, m) \in Seq(S) /\ Len(SubSeq(s, r + 1, m)) = m - r
        /\ \A i \in 1 .. m - r : SubSeq(s, r + 1, m)[i] = s[r + i]
    BY WindowFacts
  <1>2. /\ SubSeq(t, r + 1, m) \in Seq(S) /\ Len(SubSeq(t, r + 1, m)) = m - r
        /\ \A i \in 1 .. m - r : SubSeq(t, r + 1, m)[i] = t[r + i]
    BY WindowFacts
  <1>3. \A i \in 1 .. m - r : r + i \in 1 .. m
    OBVIOUS
  <1>4. \A i \in 1 .. m - r : SubSeq(s, r + 1, m)[i] = SubSeq(t, r + 1, m)[i]
    BY <1>1, <1>2, <1>3
  <1> QED  BY <1>1, <1>2, <1>4, SeqEqual

\* What the invariant says of the window m_readIndex .. m_maximumReadIndex.
LEMMA WindowInside ==
    ASSUME IndInv
    PROVE  /\ log \in Seq(Elements) /\ Len(log) = m_writeIndex /\ Len(log) \in Nat
           /\ m_readIndex \in Nat /\ m_maximumReadIndex \in Nat
           /\ m_readIndex <= m_maximumReadIndex /\ m_maximumReadIndex <= Len(log)
  BY DEF IndInv, TypeOK, OneSlotFree, Lengths

\* An empty ring with empty histories is an empty queue.
LEMMA RefinesInit == Init => Fifo!Init
  BY SubSeqEmpty DEF Init, Fifo!Init

\* Reserving a slot adds to the history beyond the window: a stuttering step.
LEMMA ReserveRefines ==
    ASSUME IndInv, NEW p \in Producers, EnqueueReserve(p)
    PROVE  UNCHANGED Fifo!fifoVars
  <1>1. CASE CASSucceeds(m_writeIndex, curW[p])
    <2>1. /\ m_readIndex' = m_readIndex /\ m_maximumReadIndex' = m_maximumReadIndex
          /\ out' = out
          /\ log' \in Seq(Elements) /\ Len(log') = Len(log) + 1
          /\ \A i \in 1 .. Len(log) : log'[i] = log[i]
      BY <1>1, ReserveExtendsLog DEF EnqueueReserve
    <2>2. /\ m_maximumReadIndex <= Len(log')
          /\ \A i \in 1 .. m_maximumReadIndex : log[i] = log'[i]
      BY <2>1, WindowInside
    <2>3. SubSeq(log, m_readIndex + 1, m_maximumReadIndex)
            = SubSeq(log', m_readIndex + 1, m_maximumReadIndex)
      BY <2>1, <2>2, WindowInside, SameWindow
    <2> QED  BY <2>1, <2>3 DEF Fifo!fifoVars
  <1>2. CASE ~CASSucceeds(m_writeIndex, curW[p])
    BY <1>2 DEF EnqueueReserve, Fifo!fifoVars
  <1> QED  BY <1>1, <1>2

\* The publishing CAS publishes one element.
LEMMA CommitRefines ==
    ASSUME IndInv, NEW p \in Producers, EnqueueCommit(p)
    PROVE  Fifo!Publish
  <1> DEFINE r == m_readIndex
             m == m_maximumReadIndex
             q == SubSeq(log, r + 1, m)
             n == SubSeq(log, r + 1, m + 1)
  <1>1. /\ log' = log /\ out' = out /\ m_readIndex' = r /\ m_maximumReadIndex' = m + 1
    BY DEF EnqueueCommit, history
  <1>2. m + 1 <= Len(log) /\ m + 1 \in Nat /\ r <= m + 1
    BY WindowInside DEF IndInv, TypeOK, Ownership, Reserved, Lengths, EnqueueCommit, CASSucceeds
  <1>3. /\ q \in Seq(Elements) /\ Len(q) = m - r
        /\ \A i \in 1 .. m - r : q[i] = log[r + i]
    BY WindowInside, WindowFacts
  <1>4. /\ n \in Seq(Elements) /\ Len(n) = m + 1 - r
        /\ \A i \in 1 .. m + 1 - r : n[i] = log[r + i]
    BY <1>2, WindowInside, WindowFacts
  <1> HIDE DEF q, n
  <1>5. SubSeq(n, 1, Len(q)) = q
    <2>1. Len(q) \in Nat /\ 0 <= Len(q) /\ Len(q) <= Len(n)
      BY <1>2, <1>3, <1>4, WindowInside
    <2>2. /\ SubSeq(n, 0 + 1, Len(q)) \in Seq(Elements)
          /\ Len(SubSeq(n, 0 + 1, Len(q))) = Len(q) - 0
          /\ \A i \in 1 .. Len(q) - 0 : SubSeq(n, 0 + 1, Len(q))[i] = n[0 + i]
      BY <1>4, <2>1, WindowFacts
    <2>3. /\ SubSeq(n, 1, Len(q)) \in Seq(Elements)
          /\ Len(SubSeq(n, 1, Len(q))) = Len(q)
          /\ \A i \in 1 .. Len(q) : SubSeq(n, 1, Len(q))[i] = n[i]
      BY <2>1, <2>2
    <2>4. \A i \in 1 .. m - r : i \in 1 .. m + 1 - r
      BY WindowInside
    <2>5. \A i \in 1 .. Len(q) : n[i] = q[i]
      BY <1>3, <1>4, <2>4
    <2> QED  BY <1>3, <2>3, <2>5, SeqEqual
  <1>6. Len(n) > Len(q)
    BY <1>3, <1>4, WindowInside
  <1>7. \A i \in Len(q) + 1 .. Len(n) : n[i] \in Elements
    BY <1>3, <1>4, <1>6, WindowInside
  <1> QED  BY <1>1, <1>5, <1>6, <1>7 DEF Fifo!Publish, q, n

\* The claiming CAS receives the oldest published element.
LEMMA ClaimRefines ==
    ASSUME IndInv, NEW c \in Consumers, DequeueClaim(c)
    PROVE  Fifo!Next \/ UNCHANGED Fifo!fifoVars
  <1>1. CASE CASSucceeds(m_readIndex, curR[c])
    <2>1. /\ log' = log /\ m_readIndex' = m_readIndex + 1
          /\ m_maximumReadIndex' = m_maximumReadIndex /\ out' = Append(out, data[c])
      BY <1>1 DEF DequeueClaim
    <2>2. m_readIndex < m_maximumReadIndex /\ data[c] = log[m_readIndex + 1]
      BY <1>1 DEF IndInv, DequeueView, DequeueClaim, CASSucceeds
    <2>3. /\ m_readIndex + 1 \in 1 .. Len(log)
          /\ m_maximumReadIndex \in m_readIndex + 1 .. Len(log)
      BY <2>2, WindowInside
    <2>4. /\ Head(SubSeq(log, m_readIndex + 1, m_maximumReadIndex)) = log[m_readIndex + 1]
          /\ Tail(SubSeq(log, m_readIndex + 1, m_maximumReadIndex))
               = SubSeq(log, m_readIndex + 1 + 1, m_maximumReadIndex)
      BY <2>3, WindowInside, HeadTailOfSubSeq
    <2>5. SubSeq(log, m_readIndex + 1, m_maximumReadIndex) # <<>>
      <3>1. Len(SubSeq(log, m_readIndex + 1, m_maximumReadIndex)) = m_maximumReadIndex - m_readIndex
        BY WindowInside, WindowFacts
      <3>2. m_maximumReadIndex - m_readIndex # 0
        BY <2>2, WindowInside
      <3>3. Len(<<>>) = 0
        OBVIOUS
      <3> QED  BY <3>1, <3>2, <3>3
    <2> QED  BY <2>1, <2>2, <2>4, <2>5 DEF Fifo!Next, Fifo!Receive
  <1>2. CASE ~CASSucceeds(m_readIndex, curR[c])
    BY <1>2 DEF DequeueClaim, Fifo!fifoVars
  <1> QED  BY <1>1, <1>2

\* Every step of the ring is a step of the abstract queue or leaves it alone.
LEMMA RefinesNext == IndInv /\ [Next]_vars => [Fifo!Next]_(Fifo!fifoVars)
  <1> SUFFICES ASSUME IndInv, [Next]_vars PROVE [Fifo!Next]_(Fifo!fifoVars)
    OBVIOUS
  <1>1. ASSUME NEW p \in Producers, Enqueue(p) PROVE Fifo!Next \/ UNCHANGED Fifo!fifoVars
    <2>1. CASE EnqueueReserve(p)
      BY <2>1, ReserveRefines
    <2>2. CASE EnqueueCommit(p)
      BY <2>2, CommitRefines DEF Fifo!Next
    <2>3. CASE EnqueueLoadWrite(p) \/ EnqueueLoadRead(p) \/ EnqueueStore(p) \/ EnqueueCount(p)
      BY <2>3 DEF EnqueueLoadWrite, EnqueueLoadRead, EnqueueStore, EnqueueCount, shared,
         history, Fifo!fifoVars
    <2> QED  BY <1>1, <2>1, <2>2, <2>3 DEF Enqueue
  <1>2. ASSUME NEW c \in Consumers, Dequeue(c) PROVE Fifo!Next \/ UNCHANGED Fifo!fifoVars
    <2>1. CASE DequeueClaim(c)
      BY <2>1, ClaimRefines
    <2>2. CASE DequeueLoadRead(c) \/ DequeueLoadMax(c) \/ DequeueRead(c) \/ DequeueCount(c)
      BY <2>2 DEF DequeueLoadRead, DequeueLoadMax, DequeueRead, DequeueCount, shared,
         history, Fifo!fifoVars
    <2> QED  BY <1>2, <2>1, <2>2 DEF Dequeue
  <1>3. ASSUME UNCHANGED vars PROVE UNCHANGED Fifo!fifoVars
    BY <1>3 DEF vars, Fifo!fifoVars
  <1> QED  BY <1>1, <1>2, <1>3 DEF Next

\* ArrayLockFreeQueue implements the first-in first-out queue: enqueue takes
\* effect at the CAS on m_maximumReadIndex, dequeue at the CAS on m_readIndex.
THEOREM Linearizable == Spec => ImplementsFifo
  BY InductiveInvariant, RefinesInit, RefinesNext, PTL DEF Spec, ImplementsFifo, Fifo!Spec

=============================================================================
