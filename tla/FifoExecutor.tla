---------------------------- MODULE FifoExecutor ----------------------------
(***************************************************************************)
(* What TaskQueue<T> promises: the tasks are processed one at a time, in   *)
(* the order in which they were accepted, each once; none is started after *)
(* the queue was stopped; and as long as it is not stopped, every accepted *)
(* task is eventually started, provided that the tasks before it end.      *)
(***************************************************************************)
EXTENDS Sequences

CONSTANT Tasks

VARIABLES
    pending,    \* accepted tasks that were not started yet
    running,    \* { } or {the task that is being processed}
    stopped     \* the queue was told to stop

fvars == <<pending, running, stopped>>

FInit ==
    /\ pending = <<>>
    /\ running = {}
    /\ stopped = FALSE

Accept(t) ==
    /\ pending' = Append(pending, t)
    /\ UNCHANGED <<running, stopped>>

Start ==
    /\ ~stopped
    /\ running = {}
    /\ pending # <<>>
    /\ running' = {Head(pending)}
    /\ pending' = Tail(pending)
    /\ UNCHANGED stopped

End ==
    /\ running # {}
    /\ running' = {}
    /\ UNCHANGED <<pending, stopped>>

Stop ==
    /\ stopped' = TRUE
    /\ UNCHANGED <<pending, running>>

FNext == (\E t \in Tasks : Accept(t)) \/ Start \/ End \/ Stop

FSafeSpec == FInit /\ [][FNext]_fvars

FSpec == FSafeSpec /\ WF_fvars(Start)

=============================================================================
