-------------------------- MODULE TaskQueueProofs ---------------------------
(***************************************************************************)
(* Proofs about TaskQueue, for any set of producers and any number of      *)
(* pushes: its type invariant, that no wake-up is lost, that a worker told *)
(* to stop ends after two steps, and that the queue's steps are steps of   *)
(* FifoExecutor.                                                           *)
(***************************************************************************)
EXTENDS TaskQueue, TLAPS

\* The two flags stay Boolean.
LEMMA FlagsTyped ==
    ASSUME taskPushed \in BOOLEAN, runWorker \in BOOLEAN, [Next]_vars
    PROVE  taskPushed' \in BOOLEAN /\ runWorker' \in BOOLEAN
<1>1. CASE Worker \/ SpuriousWakeup
  BY <1>1, Zenon DEF Worker, SpuriousWakeup, OuterLoop, Block, Proceed, TaskEnds,
                     Relock
<1>2. CASE Owner
  BY <1>2, Zenon DEF Owner, StopQueue, StopNotifies, Destroy, DestroyNotifies, Join,
                     TellToStop
<1>3. CASE \E p \in Producers : Producer(p)
  BY <1>3, Zenon DEF Producer, Push, PushNotifies
<1>4. CASE Gone \/ UNCHANGED vars
  BY <1>4, Zenon DEF Gone, vars
<1> QED
  BY <1>1, <1>2, <1>3, <1>4 DEF Next

\* Everything else that the type invariant says.
ThreadsTypeOK ==
    /\ queue \in Seq(Tasks)
    /\ worker \in {"outer", "lock", "waiting", "processing", "relock", "ended"}
    /\ task \in SUBSET Tasks
    /\ task # {} <=> worker = "processing"
    /\ producer \in [Producers -> {"idle", "notify"}]
    /\ pushes \in [Producers -> 0 .. MaxPushes]
    /\ owner \in {"using", "notifyStop", "stopped", "notifyDestroy", "joining", "gone"}

LEMMA InnerLoopTyped ==
    ASSUME ThreadsTypeOK, InnerLoop
    PROVE  /\ queue' \in Seq(Tasks)
           /\ worker' \in {"outer", "processing", "ended"}
           /\ worker # "processing" => task' \in SUBSET Tasks
           /\ worker # "processing" => (task' # {} <=> worker' = "processing")
<1>1. CASE queue # <<>> /\ runWorker
  <2>1. Head(queue) \in Tasks /\ Tail(queue) \in Seq(Tasks)
    BY <1>1 DEF ThreadsTypeOK
  <2>2. task' = {Head(queue)} /\ queue' = Tail(queue) /\ worker' = "processing"
    BY <1>1 DEF InnerLoop
  <2> QED
    BY <2>1, <2>2
<1>2. CASE ~(queue # <<>> /\ runWorker)
  <2>1. UNCHANGED <<queue, task>> /\ worker' \in {"outer", "ended"}
    BY <1>2 DEF InnerLoop
  <2> QED
    BY <2>1 DEF ThreadsTypeOK
<1> QED
  BY <1>1, <1>2

LEMMA ThreadsTyped ==
    ASSUME ThreadsTypeOK, [Next]_vars
    PROVE  ThreadsTypeOK'
<1> USE MaxPushesAssumption DEF ThreadsTypeOK
<1>1. CASE OuterLoop
  BY <1>1 DEF OuterLoop
<1>2. CASE Block
  BY <1>2 DEF Block
<1>3. CASE Proceed
  BY <1>3, InnerLoopTyped DEF Proceed
<1>4. CASE TaskEnds
  BY <1>4 DEF TaskEnds
<1>5. CASE Relock
  BY <1>5, InnerLoopTyped DEF Relock
<1>6. CASE SpuriousWakeup
  BY <1>6 DEF SpuriousWakeup
<1>7. CASE Owner
  BY <1>7 DEF Owner, StopQueue, StopNotifies, Destroy, DestroyNotifies, Join, Notified
<1>8. ASSUME NEW p \in Producers, Producer(p)
      PROVE  ThreadsTypeOK'
  <2>1. CASE Push(p)
    <3>1. pushes[p] + 1 \in 1 .. MaxPushes
      BY <2>1 DEF Push
    <3>2. <<p, pushes[p] + 1>> \in Tasks
      BY <3>1 DEF Tasks
    <3> QED
      BY <2>1, <3>1, <3>2 DEF Push
  <2>2. CASE PushNotifies(p)
    BY <2>2 DEF PushNotifies, Notified
  <2> QED
    BY <1>8, <2>1, <2>2 DEF Producer
<1>9. CASE Gone \/ UNCHANGED vars
  BY <1>9 DEF Gone, vars
<1> QED
  BY <1>1, <1>2, <1>3, <1>4, <1>5, <1>6, <1>7, <1>8, <1>9 DEF Next, Worker

\* TypeOK holds in every state of TaskQueue.h:43-139, for any number of
\* producers and pushes.
THEOREM TypeCorrect == Spec => []TypeOK
<1> DEFINE FlagsTypeOK == taskPushed \in BOOLEAN /\ runWorker \in BOOLEAN
<1>1. Init => FlagsTypeOK
  BY Zenon DEF Init
<1>2. Init => ThreadsTypeOK
  BY MaxPushesAssumption DEF Init, ThreadsTypeOK
<1>3. FlagsTypeOK /\ [Next]_vars => FlagsTypeOK'
  BY FlagsTyped
<1>4. ThreadsTypeOK /\ [Next]_vars => ThreadsTypeOK'
  BY ThreadsTyped
<1>5. FlagsTypeOK /\ ThreadsTypeOK => TypeOK
  BY Zenon DEF ThreadsTypeOK, TypeOK
<1> HIDE DEF FlagsTypeOK
<1> QED
  BY <1>1, <1>2, <1>3, <1>4, <1>5, PTL DEF Spec

-----------------------------------------------------------------------------
(* No lost wake-up.  By itself NoLostWakeup is not inductive: it says       *)
(* nothing of the worker while it is on its way to wait().  The invariant   *)
(* says that something to do shows in m_taskPushed unless the worker will   *)
(* look at the queue again anyway, and that a worker blocked with the flag  *)
(* set is going to be notified.                                             *)

FlagShowsWork ==
    queue # <<>> \/ ~runWorker
        => taskPushed \/ worker \in {"processing", "relock", "ended"}

FlaggedIsNotified == worker = "waiting" /\ taskPushed => AboutToNotify

WakeupInv == FlagShowsWork /\ FlaggedIsNotified

LEMMA WakeupInductive ==
    ASSUME TypeOK, WakeupInv, [Next]_vars
    PROVE  WakeupInv'
<1> USE DEF WakeupInv, FlagShowsWork, FlaggedIsNotified
<1>1. CASE OuterLoop
  BY <1>1 DEF OuterLoop
<1>2. CASE Block
  BY <1>2 DEF Block
<1>3. CASE Proceed
  BY <1>3 DEF Proceed, InnerLoop
<1>4. CASE TaskEnds
  BY <1>4 DEF TaskEnds
<1>5. CASE Relock
  BY <1>5 DEF Relock, InnerLoop
<1>6. CASE SpuriousWakeup
  BY <1>6 DEF SpuriousWakeup
<1>7. CASE Owner
  <2>1. CASE StopQueue \/ Destroy
    <3>1. taskPushed' /\ AboutToNotify'
      BY <2>1 DEF StopQueue, Destroy, TellToStop, AboutToNotify
    <3> QED
      BY <3>1
  <2>2. CASE StopNotifies \/ DestroyNotifies
    <3>1. worker' # "waiting"
      BY <2>2 DEF StopNotifies, DestroyNotifies, Notified
    <3>2. FlagShowsWork'
      BY <2>2 DEF StopNotifies, DestroyNotifies, Notified
    <3> QED
      BY <3>1, <3>2
  <2>3. CASE Join
    BY <2>3 DEF Join
  <2> QED
    BY <1>7, <2>1, <2>2, <2>3 DEF Owner
<1>8. ASSUME NEW p \in Producers, Producer(p)
      PROVE  WakeupInv'
  <2>1. CASE Push(p)
    <3>1. producer'[p] = "notify"
      BY <2>1 DEF Push, TypeOK
    <3>2. taskPushed' /\ AboutToNotify'
      BY <2>1, <3>1 DEF Push, AboutToNotify
    <3> QED
      BY <3>2
  <2>2. CASE PushNotifies(p)
    BY <2>2 DEF PushNotifies, Notified
  <2> QED
    BY <1>8, <2>1, <2>2 DEF Producer
<1>9. CASE Gone \/ UNCHANGED vars
  BY <1>9 DEF Gone, vars, AboutToNotify
<1> QED
  BY <1>1, <1>2, <1>3, <1>4, <1>5, <1>6, <1>7, <1>8, <1>9 DEF Next, Worker

\* The worker never sleeps through a push or a stop, whatever the order in
\* which the mutex is taken, the notification sent and the flag cleared
\* (TaskQueue.h:73-97, 117-137).
THEOREM WakeupNeverLost == Spec => []NoLostWakeup
<1>1. Init => WakeupInv
  BY DEF Init, WakeupInv, FlagShowsWork, FlaggedIsNotified
<1>2. TypeOK /\ WakeupInv /\ [Next]_vars => WakeupInv'
  BY WakeupInductive
<1>3. WakeupInv => NoLostWakeup
  BY DEF WakeupInv, FlagShowsWork, FlaggedIsNotified, NoLostWakeup
<1> QED
  BY TypeCorrect, <1>1, <1>2, <1>3, PTL DEF Spec

-----------------------------------------------------------------------------
(* The end of the worker.                                                   *)

LEMMA WorkerLeftAt ==
    /\ worker \in {"outer", "waiting", "processing"} => WorkerLeft = 2
    /\ worker \in {"lock", "relock"} => WorkerLeft = 1
    /\ worker = "ended" => WorkerLeft = 0
    /\ worker' \in {"lock", "relock"} => WorkerLeft' = 1
    /\ worker' = "ended" => WorkerLeft' = 0
  BY DEF WorkerLeft

\* A stop shows in m_taskPushed as long as the worker can still go to sleep.
LEMMA StoppedStep ==
    ASSUME FlagShowsWork, Next, ~runWorker, worker' # worker
    PROVE  WorkerLeft' < WorkerLeft
<1> USE WorkerLeftAt
<1>1. CASE OuterLoop
  <2>1. worker = "outer" /\ worker' \in {"lock", "ended"}
    BY <1>1 DEF OuterLoop
  <2> QED
    BY <2>1
<1>2. CASE Block
  BY <1>2 DEF Block, FlagShowsWork
<1>3. CASE Proceed \/ Relock
  <2>1. worker \in {"lock", "relock"} /\ worker' = "ended"
    BY <1>3 DEF Proceed, Relock, InnerLoop
  <2> QED
    BY <2>1
<1>4. CASE TaskEnds
  <2>1. worker = "processing" /\ worker' = "relock"
    BY <1>4 DEF TaskEnds
  <2> QED
    BY <2>1
<1>5. CASE SpuriousWakeup
  <2>1. worker = "waiting" /\ worker' = "lock"
    BY <1>5 DEF SpuriousWakeup
  <2> QED
    BY <2>1
<1>6. CASE worker' = Notified
  <2>1. worker = "waiting" /\ worker' = "lock"
    BY <1>6 DEF Notified
  <2> QED
    BY <2>1
<1>7. CASE Owner \/ \E p \in Producers : Producer(p)
  BY <1>6, <1>7 DEF Owner, StopQueue, StopNotifies, Destroy, DestroyNotifies, Join,
                    Producer, Push, PushNotifies
<1>8. CASE Gone
  BY <1>8 DEF Gone, vars
<1> QED
  BY <1>1, <1>2, <1>3, <1>4, <1>5, <1>7, <1>8 DEF Next, Worker

\* After stopQueue() or in the destructor the worker ends within two steps from
\* wherever it is, and starts no other task on the way (TaskQueue.h:54-65, 117-137).
THEOREM StopReachesWorker == Spec => StoppedWorkerEnds
<1>1. Init => WakeupInv
  BY DEF Init, WakeupInv, FlagShowsWork, FlaggedIsNotified
<1>2. TypeOK /\ WakeupInv /\ [Next]_vars => WakeupInv'
  BY WakeupInductive
<1>3. WakeupInv /\ [Next]_vars
        => [~runWorker /\ worker' # worker => WorkerLeft' < WorkerLeft]_vars
  BY StoppedStep DEF WakeupInv
<1> QED
  BY TypeCorrect, <1>1, <1>2, <1>3, PTL DEF Spec, StoppedWorkerEnds

-----------------------------------------------------------------------------
(* TaskQueue implements the safety part of FifoExecutor.                    *)

LEMMA InnerLoopRefines ==
    ASSUME InnerLoop, task = {}, UNCHANGED runWorker
    PROVE  [Fifo!FNext]_Fifo!fvars
<1>1. CASE queue # <<>> /\ runWorker
  <2>1. task' = {Head(queue)} /\ queue' = Tail(queue)
    BY <1>1 DEF InnerLoop
  <2>2. Fifo!Start
    BY <1>1, <2>1, Zenon DEF Fifo!Start
  <2> QED
    BY <2>2 DEF Fifo!FNext
<1>2. CASE ~(queue # <<>> /\ runWorker)
  <2>1. UNCHANGED <<queue, task>>
    BY <1>2 DEF InnerLoop
  <2> QED
    BY <2>1, Zenon DEF Fifo!fvars
<1> QED
  BY <1>1, <1>2

LEMMA StepRefines ==
    ASSUME TypeOK, [Next]_vars
    PROVE  [Fifo!FNext]_Fifo!fvars
<1>1. CASE UNCHANGED <<queue, task, runWorker>>
  BY <1>1, Zenon DEF Fifo!fvars
<1>2. CASE Proceed \/ Relock
  <2>1. InnerLoop /\ task = {} /\ UNCHANGED runWorker
    BY <1>2 DEF Proceed, Relock, TypeOK
  <2> QED
    BY <2>1, InnerLoopRefines
<1>3. CASE TaskEnds
  <2>1. Fifo!End
    BY <1>3, Zenon DEF TaskEnds, TypeOK, Fifo!End
  <2> QED
    BY <2>1 DEF Fifo!FNext
<1>4. CASE StopQueue \/ Destroy
  <2>1. Fifo!Stop
    BY <1>4, Zenon DEF StopQueue, Destroy, TellToStop, Fifo!Stop
  <2> QED
    BY <2>1 DEF Fifo!FNext
<1>5. ASSUME NEW p \in Producers, Push(p)
      PROVE  [Fifo!FNext]_Fifo!fvars
  <2>1. <<p, pushes[p] + 1>> \in Tasks
    BY <1>5, MaxPushesAssumption DEF Push, TypeOK, Tasks
  <2>2. Fifo!Accept(<<p, pushes[p] + 1>>)
    BY <1>5, Zenon DEF Push, Fifo!Accept
  <2> QED
    BY <2>1, <2>2 DEF Fifo!FNext
<1>6. CASE OuterLoop \/ Block \/ SpuriousWakeup \/ StopNotifies \/ DestroyNotifies \/ Join
  BY <1>6, <1>1 DEF OuterLoop, Block, SpuriousWakeup, StopNotifies, DestroyNotifies, Join
<1>7. ASSUME NEW p \in Producers, PushNotifies(p)
      PROVE  [Fifo!FNext]_Fifo!fvars
  BY <1>7, <1>1 DEF PushNotifies
<1>8. CASE Gone \/ UNCHANGED vars
  BY <1>8, <1>1 DEF Gone, vars
<1> QED
  BY <1>2, <1>3, <1>4, <1>5, <1>6, <1>7, <1>8 DEF Next, Worker, Owner, Producer

\* Every behaviour of the queue is one of FifoExecutor: tasks are started in
\* the order of their pushes, one at a time, each once, and none after a stop
\* (TaskQueue.h:29-30, 125-137).
THEOREM FifoOrder == Spec => Fifo!FSafeSpec
<1>1. Init => Fifo!FInit
  BY Zenon DEF Init, Fifo!FInit
<1>2. TypeOK /\ [Next]_vars => [Fifo!FNext]_Fifo!fvars
  BY StepRefines
<1> QED
  BY TypeCorrect, <1>1, <1>2, PTL DEF Spec, Fifo!FSafeSpec

=============================================================================
