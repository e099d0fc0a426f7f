------------------------ MODULE MCArrayLockFreeQueue ------------------------
(* Model-checking instance of ArrayLockFreeQueue and of the invariant its  *)
(* proof rests on.                                                         *)
EXTENDS ArrayLockFreeQueueProof
=============================================================================
