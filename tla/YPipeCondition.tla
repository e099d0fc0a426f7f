--------------------------- MODULE YPipeCondition ---------------------------
(***************************************************************************)
(* The pipe as the test program of 7.3cas_queue uses it: a producer that   *)
(* writes and flushes one item after the other and notifies a condition    *)
(* variable when flush says that the reader sleeps, and a consumer that    *)
(* waits on it when read finds nothing.                                    *)
(*                                                                         *)
(* wait releases the mutex and blocks in one step; notify_one wakes the    *)
(* consumer only if it is waiting by then.  Spurious wake-ups, which the   *)
(* library permits but never promises, are left out.                       *)
(***************************************************************************)
EXTENDS YPipe

VARIABLES
    ypipe_mutex_,   \* the thread that holds the mutex, or "none"
    ppc,            \* yqueue_producer_thread_condition
    cpc             \* yqueue_consumer_thread_condition

threadVars == <<ypipe_mutex_, ppc, cpc>>
allVars == <<vars, threadVars>>

ConditionInit ==
    /\ Init
    /\ ypipe_mutex_ = "none"
    /\ ppc = "write" /\ cpc = "read"

-----------------------------------------------------------------------------
Lock(t) == ypipe_mutex_ = "none" /\ ypipe_mutex_' = t
Unlock(t) == ypipe_mutex_ = t /\ ypipe_mutex_' = "none"

\* The loop ends after s_queue_item_num items.
LoopOrEnd == IF writes = MaxWrites THEN "lastLock" ELSE "write"

ProducerWrite ==
    /\ ppc = "write"
    /\ write(FALSE)
    /\ ppc' = "flush"
    /\ UNCHANGED <<ypipe_mutex_, cpc>>

ProducerFlush ==
    /\ ppc = "flush"
    /\ flush
    /\ ppc' = IF wpc' = "set" THEN "flush" ELSE LoopOrEnd
    /\ UNCHANGED <<ypipe_mutex_, cpc>>

ProducerFlushAsleep ==
    /\ ppc = "flush"
    /\ flushAsleep
    /\ ppc' = "lock"
    /\ UNCHANGED <<ypipe_mutex_, cpc>>

ProducerLock ==
    /\ ppc \in {"lock", "lastLock"}
    /\ Lock("producer")
    /\ ppc' = IF ppc = "lock" THEN "notify" ELSE "lastNotify"
    /\ UNCHANGED <<vars, cpc>>

\* notify_one, and the mutex is released at the end of the block.
ProducerNotify ==
    /\ ppc \in {"notify", "lastNotify"}
    /\ Unlock("producer")
    /\ cpc' = IF cpc = "waiting" THEN "woken" ELSE cpc
    /\ ppc' = IF ppc = "notify" THEN LoopOrEnd ELSE "done"
    /\ UNCHANGED vars

Producer ==
    ProducerWrite \/ ProducerFlush \/ ProducerFlushAsleep \/ ProducerLock \/ ProducerNotify

-----------------------------------------------------------------------------
\* The loop ends once s_count_pop, the number of items read, is reached.
ReadOrEnd(n) == IF n >= MaxWrites THEN "done" ELSE "read"

ConsumerCheckRead ==
    /\ cpc = "read"
    /\ check_read
    /\ cpc' = IF rpc' = "pop" THEN "reading" ELSE "lock"
    /\ UNCHANGED <<ypipe_mutex_, ppc>>

ConsumerRead ==
    /\ cpc = "reading"
    /\ read
    /\ cpc' = ReadOrEnd(Len(out'))
    /\ UNCHANGED <<ypipe_mutex_, ppc>>

ConsumerLock ==
    /\ cpc = "lock"
    /\ Lock("consumer")
    /\ cpc' = "wait"
    /\ UNCHANGED <<vars, ppc>>

ConsumerWait ==
    /\ cpc = "wait"
    /\ Unlock("consumer")
    /\ cpc' = "waiting"
    /\ UNCHANGED <<vars, ppc>>

\* A woken wait takes the mutex again, and the block releases it.
ConsumerWoken ==
    /\ cpc = "woken"
    /\ ypipe_mutex_ = "none"
    /\ cpc' = ReadOrEnd(Len(out))
    /\ UNCHANGED <<vars, ypipe_mutex_, ppc>>

Consumer ==
    ConsumerCheckRead \/ ConsumerRead \/ ConsumerLock \/ ConsumerWait \/ ConsumerWoken

-----------------------------------------------------------------------------
Finished == ppc = "done" /\ cpc = "done" /\ UNCHANGED allVars

ConditionNext == Producer \/ Consumer \/ Finished

ConditionSpec == ConditionInit /\ [][ConditionNext]_allVars

FairConditionSpec ==
    ConditionSpec /\ WF_allVars(Producer) /\ WF_allVars(Consumer)

\* The consumer is not left waiting: it reads every item the producer sent.
ConsumerFinishes == <>(cpc = "done")
=============================================================================
