----------------------------- MODULE TaskQueue ------------------------------
(***************************************************************************)
(* TaskQueue<T>: a queue filled by any thread and emptied by one worker.   *)
(*                                                                         *)
(* Every step is one critical section of m_taskQueueMutex, or one of the   *)
(* things the code does outside: a push or a stop notifies the condition   *)
(* variable after it has released the mutex, the worker reads              *)
(* m_runWorkerThread without it in the outer loop, and processes a task    *)
(* without it.                                                             *)
(*                                                                         *)
(* The owner is the thread that destroys the queue, with or without a call *)
(* of stopQueue() before.  As C++ demands, nobody is inside or calls       *)
(* another method once the destructor has begun; after stopQueue() pushing *)
(* is allowed.                                                             *)
(***************************************************************************)
EXTENDS Naturals, Sequences

CONSTANTS
    Producers,    \* threads that call pushToQueue()
    MaxPushes     \* how often each of them does

ASSUME MaxPushesAssumption == MaxPushes \in Nat

VARIABLES
    queue,        \* m_taskQueue
    taskPushed,   \* m_taskPushed
    runWorker,    \* m_runWorkerThread
    worker,       \* worker: "outer", "lock", "waiting", "processing", "relock", "ended"
    task,         \* { } or {the task the worker processes}
    producer,     \* producer -> "idle" or "notify"
    pushes,       \* producer -> pushes done
    owner         \* "using", "notifyStop", "stopped", "notifyDestroy", "joining", "gone"

vars == <<queue, taskPushed, runWorker, worker, task, producer, pushes, owner>>

Tasks == Producers \X (1 .. MaxPushes)

Init ==
    /\ queue = <<>>
    /\ taskPushed = FALSE
    /\ runWorker = TRUE
    /\ worker = "outer"
    /\ task = {}
    /\ producer = [p \in Producers |-> "idle"]
    /\ pushes = [p \in Producers |-> 0]
    /\ owner = "using"

-----------------------------------------------------------------------------
(* Producers and owner.                                                    *)

\* The part of pushToQueue() under the mutex.
Push(p) ==
    /\ owner \in {"using", "notifyStop", "stopped"}
    /\ producer[p] = "idle"
    /\ pushes[p] < MaxPushes
    /\ queue' = Append(queue, <<p, pushes[p] + 1>>)
    /\ taskPushed' = TRUE
    /\ pushes' = [pushes EXCEPT ![p] = @ + 1]
    /\ producer' = [producer EXCEPT ![p] = "notify"]
    /\ UNCHANGED <<runWorker, worker, task, owner>>

\* notify_all(): a worker in wait() has to take the mutex and look again; one
\* that is not waiting does not notice.
Notified == IF worker = "waiting" THEN "lock" ELSE worker

PushNotifies(p) ==
    /\ producer[p] = "notify"
    /\ producer' = [producer EXCEPT ![p] = "idle"]
    /\ worker' = Notified
    /\ UNCHANGED <<queue, taskPushed, runWorker, task, pushes, owner>>

\* (mutant) the worker is told to end but not to look
MutTellToStop == runWorker' = FALSE /\ UNCHANGED taskPushed

\* What stopQueue() and the destructor do under the mutex.
TellToStop ==
    /\ runWorker' = FALSE
    /\ taskPushed' = TRUE

StopQueue ==
    /\ owner = "using"
    /\ TellToStop
    /\ owner' = "notifyStop"
    /\ UNCHANGED <<queue, worker, task, producer, pushes>>

StopNotifies ==
    /\ owner = "notifyStop"
    /\ owner' = "stopped"
    /\ worker' = Notified
    /\ UNCHANGED <<queue, taskPushed, runWorker, task, producer, pushes>>

Destroy ==
    /\ owner \in {"using", "stopped"}
    /\ \A p \in Producers : producer[p] = "idle"
    /\ TellToStop
    /\ owner' = "notifyDestroy"
    /\ UNCHANGED <<queue, worker, task, producer, pushes>>

DestroyNotifies ==
    /\ owner = "notifyDestroy"
    /\ owner' = "joining"
    /\ worker' = Notified
    /\ UNCHANGED <<queue, taskPushed, runWorker, task, producer, pushes>>

Join ==
    /\ owner = "joining"
    /\ worker = "ended"
    /\ owner' = "gone"
    /\ UNCHANGED <<queue, taskPushed, runWorker, worker, task, producer, pushes>>

-----------------------------------------------------------------------------
(* The worker.                                                             *)

\* The outer loop reads m_runWorkerThread without the mutex: once it has been
\* cleared, the worker may read either value.
OuterLoop ==
    /\ worker = "outer"
    /\ \/ worker' = "lock"
       \/ ~runWorker /\ worker' = "ended"
    /\ UNCHANGED <<queue, taskPushed, runWorker, task, producer, pushes, owner>>

\* The inner loop, holding the mutex: take a task, or give up the mutex and go
\* back to the outer loop, or end.  When the inner loop ends because of the
\* flag, the outer one does too.
InnerLoop ==
    \/ /\ ~runWorker
       /\ worker' = "ended"
       /\ UNCHANGED <<queue, task>>
    \/ /\ runWorker
       /\ queue # <<>>
       /\ task' = {Head(queue)}
       /\ queue' = Tail(queue)
       /\ worker' = "processing"
    \/ /\ runWorker
       /\ queue = <<>>
       /\ worker' = "outer"
       /\ UNCHANGED <<queue, task>>

\* (mutant) wait() without a predicate
MutBlock ==
    /\ worker = "lock"
    /\ worker' = "waiting"
    /\ UNCHANGED <<queue, taskPushed, runWorker, task, producer, pushes, owner>>

\* wait() with its predicate false: the worker gives up the mutex and blocks.
Block ==
    /\ worker = "lock"
    /\ ~taskPushed
    /\ worker' = "waiting"
    /\ UNCHANGED <<queue, taskPushed, runWorker, task, producer, pushes, owner>>

Proceed ==
    /\ worker = "lock"
    /\ taskPushed
    /\ taskPushed' = FALSE
    /\ InnerLoop
    /\ UNCHANGED <<runWorker, producer, pushes, owner>>

SpuriousWakeup ==
    /\ worker = "waiting"
    /\ worker' = "lock"
    /\ UNCHANGED <<queue, taskPushed, runWorker, task, producer, pushes, owner>>

\* (mutant) the worker's copy of the task outlives the iteration
MutTaskEnds ==
    /\ worker = "processing"
    /\ worker' = "relock"
    /\ UNCHANGED <<queue, taskPushed, runWorker, task, producer, pushes, owner>>

\* m_processTaskFunc returns.
TaskEnds ==
    /\ worker = "processing"
    /\ task' = {}
    /\ worker' = "relock"
    /\ UNCHANGED <<queue, taskPushed, runWorker, producer, pushes, owner>>

\* (mutant) one task for each wake-up
MutRelock ==
    /\ worker = "relock"
    /\ worker' = "outer"
    /\ UNCHANGED <<queue, taskPushed, runWorker, task, producer, pushes, owner>>

Relock ==
    /\ worker = "relock"
    /\ InnerLoop
    /\ UNCHANGED <<taskPushed, runWorker, producer, pushes, owner>>

\* Destroyed: not a deadlock.
Gone == owner = "gone" /\ UNCHANGED vars

Worker == OuterLoop \/ Block \/ Proceed \/ TaskEnds \/ Relock
Owner == StopQueue \/ StopNotifies \/ Destroy \/ DestroyNotifies \/ Join
Producer(p) == Push(p) \/ PushNotifies(p)

Next ==
    \/ Worker
    \/ SpuriousWakeup
    \/ Owner
    \/ \E p \in Producers : Producer(p)
    \/ Gone

Spec == Init /\ [][Next]_vars

\* The threads are scheduled and every task ends.  Nobody has to push, stop or
\* destroy, but who has begun a push, a stop or the destructor goes on.
Fairness ==
    /\ WF_vars(Worker)
    /\ WF_vars(StopNotifies \/ DestroyNotifies \/ Join)
    /\ \A p \in Producers : WF_vars(PushNotifies(p))

FairSpec == Spec /\ Fairness

-----------------------------------------------------------------------------
(* Properties.                                                             *)

\* Type invariant of the queue, its flags and the threads; the worker holds a
\* task exactly while it processes it.
TypeOK ==
    /\ queue \in Seq(Tasks)
    /\ taskPushed \in BOOLEAN
    /\ runWorker \in BOOLEAN
    /\ worker \in {"outer", "lock", "waiting", "processing", "relock", "ended"}
    /\ task \in SUBSET Tasks
    /\ task # {} <=> worker = "processing"
    /\ producer \in [Producers -> {"idle", "notify"}]
    /\ pushes \in [Producers -> 0 .. MaxPushes]
    /\ owner \in {"using", "notifyStop", "stopped", "notifyDestroy", "joining", "gone"}

AboutToNotify ==
    \/ \E p \in Producers : producer[p] = "notify"
    \/ owner \in {"notifyStop", "notifyDestroy"}

\* The worker is never left asleep: while it is blocked in wait() and there is
\* a task for it, or it was told to stop, somebody is still about to notify it,
\* although TaskQueue.h:81-82 and 60-61 notify after the mutex is released and
\* TaskQueue.h:123 forgets the push before the queue is looked at.
NoLostWakeup ==
    worker = "waiting" /\ (queue # <<>> \/ ~runWorker) => AboutToNotify

\* The steps that are left to a worker that was told to stop.
WorkerLeft ==
    CASE worker \in {"outer", "waiting", "processing"} -> 2
      [] worker \in {"lock", "relock"} -> 1
      [] worker = "ended" -> 0

\* A worker that was told to stop gets nearer to its end with every step, wherever
\* it was: it neither goes to sleep again nor starts another task, although it reads
\* the flag of TaskQueue.h:117 without the mutex and may still find it set.
StoppedWorkerEnds ==
    [][~runWorker /\ worker' # worker => WorkerLeft' < WorkerLeft]_vars

Fifo == INSTANCE FifoExecutor WITH
    Tasks   <- Tasks,
    pending <- queue,
    running <- task,
    stopped <- ~runWorker

\* TaskQueue implements FifoExecutor, its liveness included: TaskQueue.h:29-30,
\* "asynchronous processing of incoming tasks [...] in FIFO way".
ImplementsFifo == Fifo!FSpec

\* A destructor that has begun returns: the worker notices that it has to end
\* wherever it is (TaskQueue.h:54-65), provided that the running task ends.
DestructorReturns == (owner = "notifyDestroy") ~> (owner = "gone")

=============================================================================
