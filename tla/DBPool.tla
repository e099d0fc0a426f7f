------------------------------- MODULE DBPool -------------------------------
(***************************************************************************)
(* CDBPool of 6.4mysql_connect_pool: a pool of database connections with   *)
(* a free list and a used list under m_mutex, and client threads that get  *)
(* a connection, wait for one with or without a time-out, and give it      *)
(* back.  CDBConn::Init either connects or fails.                          *)
(*                                                                         *)
(* Nothing blocks while holding m_mutex except the waits on m_cond_var,    *)
(* which release it: what lies between lock and wait or unlock is a step.  *)
(* A wait tests its predicate again each time it is notified.              *)
(***************************************************************************)
EXTENDS Integers, Sequences, FiniteSets

CONSTANTS
    Clients,        \* threads that use the pool
    Conns,          \* addresses of CDBConn objects
    MaxConn,        \* m_db_max_conn_cnt
    NULL

MIN_DB_CONN_CNT == 1

ASSUME ClientsAssumption == IsFiniteSet(Clients)
ASSUME MaxConnAssumption == MaxConn \in Nat /\ MaxConn >= MIN_DB_CONN_CNT
ASSUME ConnsAssumption == IsFiniteSet(Conns) /\ Cardinality(Conns) >= MaxConn
ASSUME NullAssumption == NULL \notin Conns

VARIABLES
    m_free_list,
    m_used_list,    \* what is on it: it is only pushed to, and remove takes every copy
    m_db_cur_conn_cnt,
    m_abort_request,
    alive,          \* connections constructed and not deleted
    state,          \* of the pool object: "new", "ready", "failed", "destroyed"
    pc,             \* of each client
    timed,          \* the client's call has a time-out
    pConn           \* what the client's last GetDBConn returned

pool == <<m_free_list, m_used_list, m_db_cur_conn_cnt, m_abort_request, alive, state>>
vars == <<m_free_list, m_used_list, m_db_cur_conn_cnt, m_abort_request, alive, state,
          pc, timed, pConn>>

Pointers == Conns \cup {NULL}

TypeOK ==
    /\ m_free_list \in Seq(Pointers)
    /\ m_used_list \subseteq Pointers
    /\ m_db_cur_conn_cnt \in 0 .. MaxConn
    /\ m_abort_request \in BOOLEAN
    /\ alive \subseteq Conns
    /\ state \in {"new", "ready", "failed", "destroyed"}
    /\ pc \in [Clients -> {"idle", "wait", "notified", "using"}]
    /\ timed \in [Clients -> BOOLEAN]
    /\ pConn \in [Clients -> Pointers]

ElementsOf(list) == {list[i] : i \in 1 .. Len(list)}
IsWaiting(c) == pc[c] = "wait"

Init ==
    /\ m_free_list = <<>> /\ m_used_list = {}
    /\ m_db_cur_conn_cnt = MIN_DB_CONN_CNT
    /\ m_abort_request = FALSE
    /\ alive = {}
    /\ state = "new"
    /\ pc = [c \in Clients |-> "idle"]
    /\ timed = [c \in Clients |-> FALSE]
    /\ pConn = [c \in Clients |-> NULL]

-----------------------------------------------------------------------------
\* CDBPool::Init connects MIN_DB_CONN_CNT times; the owner gives up on the
\* pool when that fails.
InitSucceeds ==
    /\ state = "new"
    /\ \E x \in Conns :
          /\ alive' = {x}
          /\ m_free_list' = <<x>>
    /\ state' = "ready"
    /\ UNCHANGED <<m_used_list, m_db_cur_conn_cnt, m_abort_request, pc, timed, pConn>>

InitFails ==
    /\ state = "new"
    /\ state' = "failed"
    /\ UNCHANGED <<m_free_list, m_used_list, m_db_cur_conn_cnt, m_abort_request, alive,
                   pc, timed, pConn>>

-----------------------------------------------------------------------------
(* GetDBConn *)

\* The connection at the front of a list goes to the client.
Hand(c, list) ==
    /\ m_free_list' = Tail(list)
    /\ m_used_list' = m_used_list \cup {Head(list)}
    /\ pConn' = [pConn EXCEPT ![c] = Head(list)]
    /\ pc' = [pc EXCEPT ![c] = "using"]

ReturnNull(c) ==
    /\ pConn' = [pConn EXCEPT ![c] = NULL]
    /\ pc' = [pc EXCEPT ![c] = "using"]
    /\ UNCHANGED <<m_free_list, m_used_list>>

\* Faulty variants: an attempt that fails is counted, or is uncounted.
ConnectCountsFailure(c) ==
    /\ m_db_cur_conn_cnt' = m_db_cur_conn_cnt + 1
    /\ \/ /\ ReturnNull(c)
          /\ UNCHANGED alive
       \/ \E x \in Conns \ alive :
             /\ alive' = alive \cup {x}
             /\ Hand(c, <<x>>)

\* Below the limit a connection is made: CDBConn::Init fails and NULL is
\* returned, or the new connection passes through the free list to the client.
Connect(c) ==
    \/ /\ ReturnNull(c)
       /\ UNCHANGED <<m_db_cur_conn_cnt, alive>>
    \/ \E x \in Conns \ alive :
          /\ alive' = alive \cup {x}
          /\ m_db_cur_conn_cnt' = m_db_cur_conn_cnt + 1
          /\ Hand(c, <<x>>)

\* From the lock to the return or to the wait.
GetDBConn(c, timeout) ==
    /\ state \in {"ready", "destroyed"}
    /\ pc[c] = "idle"
    /\ timed' = [timed EXCEPT ![c] = timeout]
    /\ \/ /\ m_abort_request
          /\ ReturnNull(c)
          /\ UNCHANGED <<m_db_cur_conn_cnt, alive>>
       \/ /\ ~m_abort_request /\ m_free_list # <<>>
          /\ Hand(c, m_free_list)
          /\ UNCHANGED <<m_db_cur_conn_cnt, alive>>
       \/ /\ ~m_abort_request /\ m_free_list = <<>>
          /\ m_db_cur_conn_cnt >= MaxConn
          /\ pc' = [pc EXCEPT ![c] = "wait"]
          /\ UNCHANGED <<m_free_list, m_used_list, m_db_cur_conn_cnt, alive, pConn>>
       \/ /\ ~m_abort_request /\ m_free_list = <<>>
          /\ m_db_cur_conn_cnt < MaxConn
          /\ Connect(c)
    /\ UNCHANGED <<m_abort_request, state>>

\* The end of both kinds of wait: nothing for it if the list is empty (the
\* timed wait returns NULL at once) or the pool is being released.
WaitEnds(c) ==
    /\ IF m_free_list = <<>> \/ m_abort_request
         THEN ReturnNull(c)
         ELSE Hand(c, m_free_list)
    /\ UNCHANGED <<m_db_cur_conn_cnt, m_abort_request, alive, state, timed>>

WaitNotified(c) ==
    /\ pc[c] = "notified"
    /\ \/ /\ m_free_list # <<>> \/ m_abort_request
          /\ WaitEnds(c)
       \/ /\ m_free_list = <<>> /\ ~m_abort_request
          /\ pc' = [pc EXCEPT ![c] = "wait"]
          /\ UNCHANGED <<pool, timed, pConn>>

\* wait_for runs out; its predicate is still tested one last time.
WaitTimesOut(c) ==
    /\ pc[c] \in {"wait", "notified"}
    /\ timed[c]
    /\ WaitEnds(c)

-----------------------------------------------------------------------------
(* RelDBConn *)

\* notify_one wakes one waiting client, if there is one.
NotifyOne(others) ==
    \/ /\ \A c \in Clients : ~IsWaiting(c)
       /\ pc' = others
    \/ \E c \in Clients :
       /\ IsWaiting(c)
       /\ pc' = [others EXCEPT ![c] = "notified"]

\* Faulty variant: clients are notified only if the free list was empty.
GiveBackNotifiesFirst(x, others) ==
    /\ IF x \in ElementsOf(m_free_list)
         THEN /\ pc' = others
              /\ UNCHANGED <<m_free_list, m_used_list>>
         ELSE /\ m_used_list' = m_used_list \ {x}
              /\ m_free_list' = Append(m_free_list, x)
              /\ IF m_free_list = <<>> THEN NotifyOne(others) ELSE pc' = others
    /\ UNCHANGED <<m_db_cur_conn_cnt, m_abort_request, alive, state, timed>>

\* x goes to the free list unless it is already there; others is the new pc
\* of the clients but for the one that is notified.
GiveBack(x, others) ==
    /\ IF x \in ElementsOf(m_free_list)
         THEN /\ pc' = others
              /\ UNCHANGED <<m_free_list, m_used_list>>
         ELSE /\ m_used_list' = m_used_list \ {x}
              /\ m_free_list' = Append(m_free_list, x)
              /\ NotifyOne(others)
    /\ UNCHANGED <<m_db_cur_conn_cnt, m_abort_request, alive, state, timed>>

\* As in the test program, a client releases whatever GetDBConn returned.
RelDBConn(c) ==
    /\ pc[c] = "using"
    /\ GiveBack(pConn[c], [pc EXCEPT ![c] = "idle"])
    /\ pConn' = [pConn EXCEPT ![c] = NULL]

\* Faulty variant: the waiting clients are notified but not told to give up.
DestroyWithoutAbort ==
    /\ state = "ready"
    /\ pc' = [c \in Clients |-> IF IsWaiting(c) THEN "notified" ELSE pc[c]]
    /\ alive' = alive \ ElementsOf(m_free_list)
    /\ m_free_list' = <<>>
    /\ state' = "destroyed"
    /\ UNCHANGED <<m_used_list, m_db_cur_conn_cnt, m_abort_request, timed, pConn>>

\* ~CDBPool: every waiting client is notified, the free connections are
\* deleted.  Connections in use are not, and clients that still run use the
\* object after its end, which is undefined; here they find it as it was left.
Destroy ==
    /\ state = "ready"
    /\ m_abort_request' = TRUE
    /\ pc' = [c \in Clients |-> IF IsWaiting(c) THEN "notified" ELSE pc[c]]
    /\ alive' = alive \ ElementsOf(m_free_list)
    /\ m_free_list' = <<>>
    /\ state' = "destroyed"
    /\ UNCHANGED <<m_used_list, m_db_cur_conn_cnt, timed, pConn>>

-----------------------------------------------------------------------------
Client(c) ==
    \/ \E timeout \in BOOLEAN : GetDBConn(c, timeout)
    \/ WaitNotified(c) \/ WaitTimesOut(c) \/ RelDBConn(c)

\* A pool that could not be initialised is not used.
Unused == state = "failed" /\ UNCHANGED vars

Next ==
    \/ InitSucceeds \/ InitFails \/ Destroy \/ Unused
    \/ \E c \in Clients : Client(c)

Spec == Init /\ [][Next]_vars

\* A client that has a connection gives it back, a notified one runs, and a
\* time-out passes; nobody has to ask for a connection.
FairSpec ==
    /\ Spec
    /\ \A c \in Clients :
          /\ WF_vars(WaitNotified(c)) /\ WF_vars(WaitTimesOut(c))
          /\ WF_vars(RelDBConn(c))

-----------------------------------------------------------------------------
(* Properties *)

Holds(c, x) == pc[c] = "using" /\ pConn[c] = x

\* A connection has one holder: a client that uses it or the free list, once.
OneHolder ==
    \A x \in Conns :
        /\ \A c, d \in Clients : Holds(c, x) /\ Holds(d, x) => c = d
        /\ \A c \in Clients : Holds(c, x) => x \notin ElementsOf(m_free_list)
        /\ Cardinality({i \in 1 .. Len(m_free_list) : m_free_list[i] = x}) <= 1

\* The count of connections, on which the limit rests, is the number there
\* are, whatever the outcome of the connection attempts, and the lists
\* account for each of them.
CountExact ==
    state = "ready" =>
        /\ m_db_cur_conn_cnt = Cardinality(alive)
        /\ alive = (ElementsOf(m_free_list) \cup m_used_list) \ {NULL}
        /\ m_db_cur_conn_cnt <= MaxConn

\* A client never keeps waiting for want of a notification: if one waits
\* unnotified, at least as many are notified as there are free connections.
NoLostNotification ==
    (\E c \in Clients : IsWaiting(c)) =>
        Len(m_free_list) <= Cardinality({c \in Clients : pc[c] = "notified"})

\* When the pool is released every waiting client returns.
ReleaseEndsWaits ==
    \A c \in Clients :
        (state = "destroyed" /\ pc[c] \in {"wait", "notified"}) ~> (pc[c] = "using")

\* Connections have one holder and are counted exactly by GetDBConn and RelDBConn.
ConnectionsSound == TypeOK /\ OneHolder /\ CountExact
=============================================================================
