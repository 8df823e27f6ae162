---------------------------- MODULE MCTaskQueue -----------------------------
(***************************************************************************)
(* TaskQueue with two producers of two tasks each: a push can meet the     *)
(* worker at every point of its loops, a second push or a stop can come    *)
(* between the critical section and the notification of the first.         *)
(***************************************************************************)
EXTENDS TaskQueue

CONSTANTS p1, p2

MCProducers == {p1, p2}
=============================================================================
