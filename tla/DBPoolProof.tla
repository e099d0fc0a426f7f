---------------------------- MODULE DBPoolProof -----------------------------
(***************************************************************************)
(* For any number of clients, any limit and any set of connections: a      *)
(* connection has one holder, the count of connections is exact, and no    *)
(* free connection goes unannounced to a client that waits.                *)
(***************************************************************************)
EXTENDS DBPool, SequenceTheorems, FiniteSetTheorems, TLAPS

\* The pool is released exactly when it is told to give up, and then nobody
\* starts to wait.
Released ==
    /\ m_abort_request <=> state = "destroyed"
    /\ m_abort_request => \A c \in Clients : pc[c] # "wait"

\* Before CDBPool::Init has succeeded nothing is in the pool and nobody uses it.
NotStarted ==
    state \in {"new", "failed"} =>
        /\ m_free_list = <<>> /\ m_used_list = {} /\ alive = {}
        /\ m_db_cur_conn_cnt = MIN_DB_CONN_CNT
        /\ \A c \in Clients : pc[c] = "idle"

\* The free list holds nothing twice, not even the NULL that a client released.
FreeOnce ==
    \A i, j \in 1 .. Len(m_free_list) : m_free_list[i] = m_free_list[j] => i = j

\* A connection that a client uses is on the used list, not on the free list,
\* and no other client uses it.
UsedByOne ==
    \A c \in Clients : pc[c] = "using" /\ pConn[c] # NULL =>
        /\ pConn[c] \notin ElementsOf(m_free_list)
        /\ state = "ready" => pConn[c] \in m_used_list
        /\ \A d \in Clients : pc[d] = "using" /\ pConn[d] = pConn[c] => d = c

ConnInv ==
    /\ TypeOK
    /\ Released
    /\ NotStarted
    /\ FreeOnce
    /\ UsedByOne
    /\ CountExact

-----------------------------------------------------------------------------
(* The lists *)

\* What Tail and Append do to the elements of a list.
LEMMA TailElements ==
  ASSUME NEW S, NEW list \in Seq(S), list # <<>>,
         \A i, j \in 1 .. Len(list) : list[i] = list[j] => i = j
  PROVE  /\ Head(list) \in S /\ Tail(list) \in Seq(S)
         /\ Len(Tail(list)) = Len(list) - 1
         /\ Head(list) \in ElementsOf(list)
         /\ ElementsOf(Tail(list)) = ElementsOf(list) \ {Head(list)}
         /\ \A i, j \in 1 .. Len(Tail(list)) : Tail(list)[i] = Tail(list)[j] => i = j
  <1> DEFINE t == Tail(list)
  <1>1. /\ Len(list) \in Nat \ {0}
        /\ Head(list) = list[1]
        /\ Head(list) \in S
        /\ t \in Seq(S)
        /\ Len(t) = Len(list) - 1
        /\ \A i \in 1 .. Len(t) : t[i] = list[i+1]
    BY HeadTailProperties, EmptySeq
  <1> HIDE DEF t
  <1>2. ElementsOf(t) \subseteq ElementsOf(list) \ {list[1]}
    <2> SUFFICES ASSUME NEW i \in 1 .. Len(t)
                 PROVE  t[i] \in ElementsOf(list) /\ t[i] # list[1]
      BY DEF ElementsOf
    <2>1. i + 1 \in 1 .. Len(list) /\ i + 1 # 1
      BY <1>1
    <2> QED
      BY <1>1, <2>1 DEF ElementsOf
  <1>3. ElementsOf(list) \ {list[1]} \subseteq ElementsOf(t)
    <2> SUFFICES ASSUME NEW i \in 1 .. Len(list), list[i] # list[1]
                 PROVE  list[i] \in ElementsOf(t)
      BY DEF ElementsOf
    <2>1. i - 1 \in 1 .. Len(t) /\ (i - 1) + 1 = i
      BY <1>1
    <2>2. t[i-1] = list[i]
      BY <1>1, <2>1
    <2> QED
      BY <2>1, <2>2 DEF ElementsOf
  <1>4. \A i, j \in 1 .. Len(t) : t[i] = t[j] => i = j
    <2> SUFFICES ASSUME NEW i \in 1 .. Len(t), NEW j \in 1 .. Len(t), t[i] = t[j]
                 PROVE  i = j
      OBVIOUS
    <2>1. i + 1 \in 1 .. Len(list) /\ j + 1 \in 1 .. Len(list)
      BY <1>1
    <2>2. i + 1 = j + 1
      BY <1>1, <2>1
    <2> QED
      BY <2>2
  <1> QED
    BY <1>1, <1>2, <1>3, <1>4 DEF ElementsOf, t

LEMMA AppendElements ==
  ASSUME NEW S, NEW list \in Seq(S), NEW x \in S, x \notin ElementsOf(list),
         \A i, j \in 1 .. Len(list) : list[i] = list[j] => i = j
  PROVE  /\ Append(list, x) \in Seq(S)
         /\ Len(Append(list, x)) = Len(list) + 1
         /\ ElementsOf(Append(list, x)) = ElementsOf(list) \cup {x}
         /\ \A i, j \in 1 .. Len(Append(list, x)) :
               Append(list, x)[i] = Append(list, x)[j] => i = j
  <1> DEFINE t == Append(list, x)
  <1>1. /\ Len(list) \in Nat
        /\ t \in Seq(S)
        /\ Len(t) = Len(list) + 1
        /\ \A i \in 1 .. Len(list) : t[i] = list[i]
        /\ t[Len(t)] = x
    BY AppendProperties, LenProperties
  <1> HIDE DEF t
  <1>2. \A i \in 1 .. Len(t) : i \in 1 .. Len(list) \/ i = Len(t)
    BY <1>1
  <1>3. \A i \in 1 .. Len(list) : i \in 1 .. Len(t) /\ Len(t) \in 1 .. Len(t)
    BY <1>1
  <1>4. Len(t) \in 1 .. Len(t)
    BY <1>1
  <1>5. ElementsOf(t) = ElementsOf(list) \cup {x}
    BY <1>1, <1>2, <1>3, <1>4 DEF ElementsOf
  <1>6. \A i, j \in 1 .. Len(t) : t[i] = t[j] => i = j
    BY <1>1, <1>2 DEF ElementsOf
  <1> QED
    BY <1>1, <1>5, <1>6 DEF t

-----------------------------------------------------------------------------
(* Each step preserves ConnInv *)

LEMMA InitInv == Init => ConnInv
  <1> SUFFICES ASSUME Init PROVE ConnInv
    OBVIOUS
  <1>1. m_free_list \in Seq(Pointers) /\ m_db_cur_conn_cnt \in 0 .. MaxConn
    BY MaxConnAssumption DEF Init, MIN_DB_CONN_CNT
  <1>2. timed \in [Clients -> BOOLEAN] /\ m_abort_request \in BOOLEAN
    BY Zenon DEF Init
  <1>3. TypeOK
    BY <1>1, <1>2 DEF Init, TypeOK, Pointers
  <1> QED
    BY <1>3 DEF Init, ConnInv, Released, NotStarted, FreeOnce, UsedByOne, CountExact

\* The first connection.
LEMMA InitSucceedsInv == ConnInv /\ InitSucceeds => ConnInv'
  <1> SUFFICES ASSUME ConnInv, InitSucceeds PROVE ConnInv'
    OBVIOUS
  <1> USE DEF ConnInv, InitSucceeds
  <1>1. PICK x \in Conns : alive' = {x} /\ m_free_list' = <<x>>
    OBVIOUS
  <1>2. /\ m_free_list' \in Seq(Pointers) /\ Len(m_free_list') = 1
        /\ m_free_list'[1] = x /\ ElementsOf(m_free_list') = {x}
    BY <1>1 DEF ElementsOf, Pointers
  <1>3. TypeOK'
    BY <1>1, <1>2 DEF TypeOK
  <1>4. Released' /\ NotStarted' /\ UsedByOne'
    BY DEF Released, NotStarted, UsedByOne
  <1>5. FreeOnce'
    BY <1>2 DEF FreeOnce
  <1>6. CountExact'
    <2>1. m_used_list' = {} /\ m_db_cur_conn_cnt' = 1
      BY DEF NotStarted, MIN_DB_CONN_CNT
    <2>2. Cardinality(alive') = 1
      BY <1>1, FS_Singleton
    <2> QED
      BY <1>1, <1>2, <2>1, <2>2, NullAssumption, MaxConnAssumption
         DEF CountExact, MIN_DB_CONN_CNT
  <1> QED
    BY <1>3, <1>4, <1>5, <1>6

LEMMA InitFailsInv == ConnInv /\ (InitFails \/ UNCHANGED vars) => ConnInv'
  BY DEF ConnInv, InitFails, vars, TypeOK, Released, NotStarted, FreeOnce, UsedByOne,
         CountExact, ElementsOf

\* A client gets the first connection of the free list.
LEMMA HandFreeInv ==
  ASSUME ConnInv, NEW c \in Clients, pc[c] # "using", state = "ready",
         m_free_list # <<>>, Hand(c, m_free_list), timed' \in [Clients -> BOOLEAN],
         UNCHANGED <<m_db_cur_conn_cnt, m_abort_request, alive, state>>
  PROVE  ConnInv'
  <1> USE DEF ConnInv
  <1> DEFINE x == Head(m_free_list)
  <1>1. /\ x \in Pointers
        /\ m_free_list' \in Seq(Pointers)
        /\ x \in ElementsOf(m_free_list)
        /\ ElementsOf(m_free_list') = ElementsOf(m_free_list) \ {x}
        /\ FreeOnce'
    <2>1. m_free_list \in Seq(Pointers) /\ m_free_list' = Tail(m_free_list)
      BY DEF TypeOK, Hand
    <2> QED
      BY <2>1, TailElements DEF FreeOnce
  <1>2. /\ m_used_list' = m_used_list \cup {x}
        /\ pConn' = [pConn EXCEPT ![c] = x]
        /\ pc' = [pc EXCEPT ![c] = "using"]
    BY DEF Hand
  <1> HIDE DEF x
  <1>3. TypeOK'
    BY <1>1, <1>2 DEF TypeOK
  <1>4. Released' /\ NotStarted'
    BY <1>2 DEF TypeOK, Released, NotStarted
  <1>5. UsedByOne'
    BY <1>1, <1>2 DEF TypeOK, UsedByOne
  <1>6. CountExact'
    BY <1>1, <1>2 DEF CountExact
  <1> QED
    BY <1>1, <1>3, <1>4, <1>5, <1>6

\* A client gets nothing.
LEMMA ReturnNullInv ==
  ASSUME ConnInv, NEW c \in Clients, state \in {"ready", "destroyed"},
         ReturnNull(c), timed' \in [Clients -> BOOLEAN],
         UNCHANGED <<m_db_cur_conn_cnt, m_abort_request, alive, state>>
  PROVE  ConnInv'
  <1> USE DEF ConnInv, ReturnNull
  <1>1. TypeOK'
    BY DEF TypeOK, Pointers
  <1>2. Released' /\ NotStarted' /\ FreeOnce' /\ CountExact'
    BY DEF TypeOK, Released, NotStarted, FreeOnce, CountExact, ElementsOf
  <1>3. UsedByOne'
    BY DEF TypeOK, UsedByOne, ElementsOf
  <1> QED
    BY <1>1, <1>2, <1>3

\* A connection is made for the client: its address is not in use, and the
\* limit still holds.
LEMMA ConnectInv ==
  ASSUME ConnInv, NEW c \in Clients, pc[c] # "using", state = "ready",
         m_free_list = <<>>, m_db_cur_conn_cnt < MaxConn, Connect(c),
         timed' \in [Clients -> BOOLEAN], UNCHANGED <<m_abort_request, state>>
  PROVE  ConnInv'
  <1>1. CASE ReturnNull(c) /\ UNCHANGED <<m_db_cur_conn_cnt, alive>>
    BY <1>1, ReturnNullInv
  <1>2. ASSUME NEW x \in Conns \ alive,
               alive' = alive \cup {x},
               m_db_cur_conn_cnt' = m_db_cur_conn_cnt + 1,
               Hand(c, <<x>>)
        PROVE  ConnInv'
    <2> USE <1>2 DEF ConnInv
    <2>1. /\ m_free_list' = <<>> /\ Len(m_free_list') = 0
          /\ m_used_list' = m_used_list \cup {x}
          /\ pConn' = [pConn EXCEPT ![c] = x]
          /\ pc' = [pc EXCEPT ![c] = "using"]
      BY DEF Hand
    <2>2. ElementsOf(m_free_list) = {} /\ ElementsOf(m_free_list') = {}
      BY <2>1 DEF ElementsOf
    <2>3. x \notin m_used_list /\ x # NULL
      BY NullAssumption DEF CountExact
    <2>4. TypeOK'
      BY <2>1, MaxConnAssumption DEF TypeOK, Pointers
    <2>5. Released' /\ NotStarted'
      BY <2>1 DEF TypeOK, Released, NotStarted
    <2>6. FreeOnce'
      BY <2>1 DEF FreeOnce
    <2>7. UsedByOne'
      BY <2>1, <2>2, <2>3 DEF TypeOK, UsedByOne
    <2>8. CountExact'
      <3>1. IsFiniteSet(alive)
        BY ConnsAssumption, FS_Subset DEF TypeOK
      <3>2. Cardinality(alive') = Cardinality(alive) + 1
        BY <3>1, FS_AddElement
      <3> QED
        BY <2>1, <2>2, <2>3, <2>4, <3>2 DEF CountExact, TypeOK
    <2> QED
      BY <2>4, <2>5, <2>6, <2>7, <2>8
  <1> QED
    BY <1>1, <1>2 DEF Connect

\* A client starts to wait, or goes on.
LEMMA WaitInv ==
  ASSUME ConnInv, NEW c \in Clients, state = "ready", pc' = [pc EXCEPT ![c] = "wait"],
         timed' \in [Clients -> BOOLEAN], UNCHANGED <<pool, pConn>>
  PROVE  ConnInv'
  <1> USE DEF ConnInv, pool
  <1>1. TypeOK'
    BY DEF TypeOK
  <1>2. Released' /\ NotStarted' /\ FreeOnce' /\ CountExact'
    BY DEF TypeOK, Released, NotStarted, FreeOnce, CountExact, ElementsOf
  <1>3. UsedByOne'
    BY DEF TypeOK, UsedByOne, ElementsOf
  <1> QED
    BY <1>1, <1>2, <1>3

LEMMA GetDBConnInv ==
  ASSUME ConnInv, NEW c \in Clients, NEW timeout \in BOOLEAN, GetDBConn(c, timeout)
  PROVE  ConnInv'
  <1> USE DEF GetDBConn
  <1>1. timed' \in [Clients -> BOOLEAN]
    BY DEF ConnInv, TypeOK
  <1>2. m_abort_request \in BOOLEAN /\ (~m_abort_request => state = "ready")
    BY DEF ConnInv, TypeOK, Released
  <1>3. CASE m_abort_request
    BY <1>1, <1>3, ReturnNullInv
  <1>4. CASE ~m_abort_request /\ m_free_list # <<>>
    BY <1>1, <1>2, <1>4, HandFreeInv
  <1>5. CASE /\ ~m_abort_request /\ pc' = [pc EXCEPT ![c] = "wait"]
             /\ UNCHANGED <<m_free_list, m_used_list, m_db_cur_conn_cnt, alive, pConn>>
    <2>1. UNCHANGED <<pool, pConn>>
      BY <1>5 DEF pool
    <2> QED
      BY <1>1, <1>2, <1>5, <2>1, WaitInv
  <1>6. CASE ~m_abort_request /\ m_free_list = <<>> /\ m_db_cur_conn_cnt < MaxConn
    BY <1>1, <1>2, <1>6, ConnectInv, MaxConnAssumption DEF ConnInv, TypeOK
  <1> QED
    BY <1>2, <1>3, <1>4, <1>5, <1>6, MaxConnAssumption DEF ConnInv, TypeOK

LEMMA WaitEndsInv ==
  ASSUME ConnInv, NEW c \in Clients, pc[c] \in {"wait", "notified"}, WaitEnds(c)
  PROVE  ConnInv'
  <1> USE DEF WaitEnds
  <1>1. timed' \in [Clients -> BOOLEAN] /\ pc[c] # "using" /\ pc[c] # "idle"
    BY DEF ConnInv, TypeOK
  <1>2. state \in {"ready", "destroyed"} /\ m_abort_request \in BOOLEAN
        /\ (~m_abort_request => state = "ready")
    BY <1>1 DEF ConnInv, TypeOK, NotStarted, Released
  <1>3. CASE m_free_list = <<>> \/ m_abort_request
    BY <1>1, <1>2, <1>3, ReturnNullInv
  <1>4. CASE ~(m_free_list = <<>> \/ m_abort_request)
    BY <1>1, <1>2, <1>4, HandFreeInv
  <1> QED
    BY <1>3, <1>4

LEMMA WaitNotifiedInv ==
  ASSUME ConnInv, NEW c \in Clients, WaitNotified(c) PROVE ConnInv'
  <1> USE DEF WaitNotified
  <1>1. CASE WaitEnds(c)
    BY <1>1, WaitEndsInv
  <1>2. CASE ~m_abort_request /\ pc' = [pc EXCEPT ![c] = "wait"] /\ UNCHANGED <<pool, timed, pConn>>
    <2>1. state = "ready" /\ timed' \in [Clients -> BOOLEAN]
      BY <1>2 DEF ConnInv, TypeOK, Released, NotStarted
    <2> QED
      BY <1>2, <2>1, WaitInv
  <1> QED
    BY <1>1, <1>2

\* A client gives back what it got.  A connection is not on the free list; NULL
\* may be, and is put there once.
LEMMA RelDBConnInv ==
  ASSUME ConnInv, NEW c \in Clients, RelDBConn(c) PROVE ConnInv'
  <1> USE DEF ConnInv
  <1> DEFINE x == pConn[c]
             others == [pc EXCEPT ![c] = "idle"]
  <1>1. /\ pc[c] = "using" /\ x \in Pointers
        /\ pConn' = [pConn EXCEPT ![c] = NULL]
        /\ UNCHANGED <<m_db_cur_conn_cnt, m_abort_request, alive, state, timed>>
    BY DEF RelDBConn, GiveBack, TypeOK
  <1>2. state \in {"ready", "destroyed"}
    BY <1>1 DEF TypeOK, NotStarted
  <1>3. /\ pc' \in [Clients -> {"idle", "wait", "notified", "using"}]
        /\ pc'[c] = "idle"
        /\ \A d \in Clients : pc'[d] = "using" => d # c /\ pc[d] = "using" /\ pConn'[d] = pConn[d]
        /\ \A d \in Clients : pc'[d] = "wait" => pc[d] = "wait"
    <2>1. CASE pc' = others
      BY <1>1, <2>1 DEF TypeOK
    <2>2. CASE \E d \in Clients : IsWaiting(d) /\ pc' = [others EXCEPT ![d] = "notified"]
      BY <1>1, <2>2 DEF TypeOK, IsWaiting
    <2> QED
      BY <2>1, <2>2 DEF RelDBConn, GiveBack, NotifyOne
  <1>4. Released' /\ NotStarted'
    BY <1>1, <1>2, <1>3 DEF Released, NotStarted
  <1>5. CASE x \in ElementsOf(m_free_list)
    <2>1. UNCHANGED <<m_free_list, m_used_list>>
      BY <1>5 DEF RelDBConn, GiveBack
    <2>2. TypeOK'
      BY <1>1, <1>3, <2>1 DEF TypeOK, Pointers
    <2>3. FreeOnce' /\ CountExact'
      BY <1>1, <2>1 DEF FreeOnce, CountExact, ElementsOf
    <2>4. UsedByOne'
      BY <1>1, <1>3, <2>1 DEF UsedByOne, ElementsOf
    <2> QED
      BY <1>4, <2>2, <2>3, <2>4
  <1>6. CASE x \notin ElementsOf(m_free_list)
    <2>1. /\ m_used_list' = m_used_list \ {x}
          /\ m_free_list' = Append(m_free_list, x)
      BY <1>6 DEF RelDBConn, GiveBack
    <2>2. /\ m_free_list' \in Seq(Pointers)
          /\ ElementsOf(m_free_list') = ElementsOf(m_free_list) \cup {x}
          /\ FreeOnce'
      BY <1>1, <1>6, <2>1, AppendElements DEF TypeOK, FreeOnce
    <2>3. TypeOK'
      BY <1>1, <1>3, <2>1, <2>2 DEF TypeOK, Pointers
    <2>4. UsedByOne'
      BY <1>1, <1>3, <2>1, <2>2 DEF UsedByOne
    <2>5. CountExact'
      BY <1>1, <2>1, <2>2 DEF CountExact, UsedByOne
    <2> QED
      BY <1>4, <2>2, <2>3, <2>4, <2>5
  <1> QED
    BY <1>5, <1>6

LEMMA DestroyInv == ConnInv /\ Destroy => ConnInv'
  <1> SUFFICES ASSUME ConnInv, Destroy PROVE ConnInv'
    OBVIOUS
  <1> USE DEF ConnInv, Destroy
  <1>1. TypeOK'
    BY DEF TypeOK, IsWaiting
  <1>2. Released' /\ NotStarted' /\ CountExact'
    BY DEF TypeOK, Released, NotStarted, CountExact, IsWaiting
  <1>3. FreeOnce'
    BY DEF FreeOnce
  <1>4. ElementsOf(m_free_list') = {}
    BY DEF ElementsOf
  <1>5. UsedByOne'
    BY <1>4 DEF TypeOK, UsedByOne, IsWaiting
  <1> QED
    BY <1>1, <1>2, <1>3, <1>5

LEMMA NextInv == ConnInv /\ [Next]_vars => ConnInv'
  BY InitSucceedsInv, InitFailsInv, DestroyInv, GetDBConnInv, WaitNotifiedInv, WaitEndsInv,
     RelDBConnInv DEF Next, Unused, Client, WaitTimesOut

\* ConnInv is an invariant of the pool.
THEOREM Inductive == Spec => []ConnInv
  <1> QED
    BY InitInv, NextInv, PTL DEF Spec

\* A connection has one holder, a client that uses it or the free list, and the
\* count on which GetDBConn's limit rests is the number of connections there are.
THEOREM Sound == Spec => []ConnectionsSound
  <1>1. ConnInv => OneHolder
    <2> SUFFICES ASSUME ConnInv, NEW x \in Conns
                 PROVE  /\ \A c, d \in Clients : Holds(c, x) /\ Holds(d, x) => c = d
                        /\ \A c \in Clients : Holds(c, x) => x \notin ElementsOf(m_free_list)
                        /\ Cardinality({i \in 1 .. Len(m_free_list) : m_free_list[i] = x}) <= 1
      BY DEF OneHolder
    <2> DEFINE At == {i \in 1 .. Len(m_free_list) : m_free_list[i] = x}
    <2>1. x # NULL
      BY NullAssumption
    <2>2. \A c \in Clients : Holds(c, x) =>
             x \notin ElementsOf(m_free_list) /\ \A d \in Clients : Holds(d, x) => c = d
      BY <2>1 DEF ConnInv, UsedByOne, Holds
    <2>3. At = {} \/ \E i \in 1 .. Len(m_free_list) : At = {i}
      BY DEF ConnInv, FreeOnce
    <2>4. Cardinality(At) <= 1
      <3> HIDE DEF At
      <3>1. CASE At = {}
        <4>1. Cardinality(At) = 0
          BY <3>1, FS_EmptySet
        <4> QED
          BY <4>1
      <3>2. CASE \E i \in 1 .. Len(m_free_list) : At = {i}
        <4>1. Cardinality(At) = 1
          BY <3>2, FS_Singleton
        <4> QED
          BY <4>1
      <3> QED
        BY <2>3, <3>1, <3>2
    <2> QED
      BY <2>2, <2>4
  <1>2. ConnInv => ConnectionsSound
    BY <1>1 DEF ConnInv, ConnectionsSound
  <1> QED
    BY <1>2, Inductive, PTL

-----------------------------------------------------------------------------
(* Notifications *)

Notified == {c \in Clients : pc[c] = "notified"}

\* A client that gets the first free connection leaves as many notified clients
\* as there are connections left, whether it was itself notified or not.
LEMMA HandKeeps ==
  ASSUME ConnInv, NoLostNotification, NEW c \in Clients,
         m_free_list # <<>>, Hand(c, m_free_list)
  PROVE  NoLostNotification'
  <1>1. Len(m_free_list') = Len(m_free_list) - 1 /\ pc' = [pc EXCEPT ![c] = "using"]
        /\ Len(m_free_list) \in Nat
    BY HeadTailProperties, LenProperties DEF Hand, ConnInv, TypeOK
  <1>2. Notified' = Notified \ {c}
    BY <1>1 DEF Notified, ConnInv, TypeOK
  <1>3. IsFiniteSet(Notified)
    BY ClientsAssumption, FS_Subset DEF Notified
  <1>4. /\ Cardinality(Notified) \in Nat
        /\ Cardinality(Notified \ {c}) =
              IF c \in Notified THEN Cardinality(Notified) - 1 ELSE Cardinality(Notified)
    BY <1>3, FS_RemoveElement, FS_CardinalityType
  <1>5. (\E d \in Clients : IsWaiting(d))' => \E d \in Clients : IsWaiting(d)
    BY <1>1 DEF IsWaiting, ConnInv, TypeOK
  <1>6. Cardinality(Notified') \in Int /\ Cardinality(Notified') >= Cardinality(Notified) - 1
    BY <1>2, <1>4
  <1> QED
    BY <1>1, <1>4, <1>5, <1>6 DEF NoLostNotification, Notified

\* Where the free list stays, or becomes, empty.
LEMMA EmptyKeeps ==
  ASSUME ConnInv, m_free_list' = <<>>, pc' \in [Clients -> {"idle", "wait", "notified", "using"}]
  PROVE  NoLostNotification'
  <1>1. IsFiniteSet(Notified')
    BY ClientsAssumption, FS_Subset DEF Notified
  <1>2. Cardinality(Notified') \in Nat
    BY <1>1, FS_CardinalityType
  <1> QED
    BY <1>2 DEF NoLostNotification, Notified

\* A released pool has no waiting clients.
LEMMA ReleasedKeeps ==
  ASSUME ConnInv', m_abort_request' PROVE NoLostNotification'
  BY DEF ConnInv, Released, NoLostNotification, IsWaiting

\* A connection given back is announced to one client more, if any waits.
LEMMA RelDBConnKeeps ==
  ASSUME ConnInv, NoLostNotification, NEW c \in Clients, RelDBConn(c)
  PROVE  NoLostNotification'
  <1> DEFINE others == [pc EXCEPT ![c] = "idle"]
  <1>1. pc[c] = "using"
    BY DEF RelDBConn
  <1>2. CASE pc' = others /\ UNCHANGED m_free_list
    <2>1. Notified' = Notified /\ ((\E d \in Clients : IsWaiting(d))' <=> \E d \in Clients : IsWaiting(d))
      BY <1>1, <1>2 DEF Notified, IsWaiting, ConnInv, TypeOK
    <2> QED
      BY <1>2, <2>1 DEF NoLostNotification, Notified
  <1>3. CASE pc' = others /\ \A d \in Clients : ~IsWaiting(d)
    BY <1>1, <1>3 DEF NoLostNotification, IsWaiting, ConnInv, TypeOK
  <1>4. ASSUME NEW d \in Clients, IsWaiting(d), pc' = [others EXCEPT ![d] = "notified"],
               m_free_list' = Append(m_free_list, pConn[c])
        PROVE  NoLostNotification'
    <2>1. Notified' = Notified \cup {d} /\ d \notin Notified
      BY <1>1, <1>4 DEF Notified, IsWaiting, ConnInv, TypeOK
    <2>2. IsFiniteSet(Notified)
      BY ClientsAssumption, FS_Subset DEF Notified
    <2>3. Cardinality(Notified') = Cardinality(Notified) + 1 /\ Cardinality(Notified) \in Nat
      BY <2>1, <2>2, FS_AddElement, FS_CardinalityType
    <2>4. Len(m_free_list') = Len(m_free_list) + 1 /\ Len(m_free_list) \in Nat
      BY <1>4, AppendProperties, LenProperties DEF ConnInv, TypeOK
    <2>5. Len(m_free_list) <= Cardinality(Notified)
      BY <1>4 DEF NoLostNotification, Notified
    <2> QED
      BY <2>3, <2>4, <2>5 DEF NoLostNotification, Notified
  <1> QED
    BY <1>2, <1>3, <1>4 DEF RelDBConn, GiveBack, NotifyOne

LEMMA WaitEndsKeeps ==
  ASSUME ConnInv, ConnInv', NoLostNotification, NEW c \in Clients, WaitEnds(c)
  PROVE  NoLostNotification'
  <1> USE DEF WaitEnds
  <1>1. pc' \in [Clients -> {"idle", "wait", "notified", "using"}] /\ m_abort_request \in BOOLEAN
    BY DEF ConnInv, TypeOK
  <1>2. CASE m_abort_request
    BY <1>2, ReleasedKeeps
  <1>3. CASE m_free_list = <<>> /\ ~m_abort_request
    BY <1>1, <1>3, EmptyKeeps DEF ReturnNull
  <1>4. CASE m_free_list # <<>> /\ ~m_abort_request
    BY <1>4, HandKeeps
  <1> QED
    BY <1>1, <1>2, <1>3, <1>4

\* A client never keeps waiting for want of a notification, also when time-outs
\* race notifications: the wake-ups under way are enough for the free connections.
THEOREM Notifications == Spec => []NoLostNotification
  <1>1. Init => NoLostNotification
    BY DEF Init, NoLostNotification, IsWaiting
  <1>2. ConnInv /\ ConnInv' /\ NoLostNotification /\ [Next]_vars => NoLostNotification'
    <2> SUFFICES ASSUME ConnInv, ConnInv', NoLostNotification, [Next]_vars
                 PROVE  NoLostNotification'
      OBVIOUS
    <2>0. pc' \in [Clients -> {"idle", "wait", "notified", "using"}] /\ m_abort_request \in BOOLEAN
      BY DEF ConnInv, TypeOK
    <2>1. CASE InitSucceeds \/ InitFails
      BY <2>1 DEF InitSucceeds, InitFails, ConnInv, NotStarted, NoLostNotification, IsWaiting
    <2>2. CASE Destroy
      BY <2>2, <2>0, EmptyKeeps DEF Destroy
    <2>3. ASSUME NEW c \in Clients, NEW timeout \in BOOLEAN, GetDBConn(c, timeout)
          PROVE  NoLostNotification'
      <3> USE <2>3 DEF GetDBConn
      <3>1. CASE m_abort_request
        BY <3>1, ReleasedKeeps
      <3>2. CASE ~m_abort_request /\ m_free_list # <<>>
        BY <3>2, HandKeeps
      <3>3. CASE ~m_abort_request /\ m_free_list = <<>>
        <4>1. m_free_list' = <<>>
          BY <3>3 DEF Connect, ReturnNull, Hand
        <4> QED
          BY <2>0, <4>1, EmptyKeeps
      <3> QED
        BY <2>0, <3>1, <3>2, <3>3
    <2>4. ASSUME NEW c \in Clients, WaitNotified(c) PROVE NoLostNotification'
      <3>1. CASE WaitEnds(c)
        BY <3>1, WaitEndsKeeps
      <3>2. CASE m_free_list = <<>> /\ UNCHANGED pool
        BY <2>0, <3>2, EmptyKeeps DEF pool
      <3> QED
        BY <2>4, <3>1, <3>2 DEF WaitNotified
    <2>5. ASSUME NEW c \in Clients, WaitTimesOut(c) PROVE NoLostNotification'
      BY <2>5, WaitEndsKeeps DEF WaitTimesOut
    <2>6. CASE UNCHANGED vars
      BY <2>6 DEF vars, NoLostNotification, IsWaiting
    <2> QED
      BY <2>1, <2>2, <2>3, <2>4, <2>5, <2>6, RelDBConnKeeps DEF Next, Unused, Client
  <1> QED
    BY <1>1, <1>2, Inductive, PTL DEF Spec
=============================================================================
