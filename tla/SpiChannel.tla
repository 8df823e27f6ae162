----------------------------- MODULE SpiChannel -----------------------------
(***************************************************************************)
(* IqrfSpiChannel: one SPI bus that the callers of sendTo() write to and   *)
(* the listening thread reads from, under m_commMutex, and a TaskQueue     *)
(* whose worker hands what was read to the registered handler.             *)
(*                                                                         *)
(* Both waits on m_commCondition have a timeout and no predicate, so that  *)
(* they may end at any time, whoever was notified: a wait is the absence   *)
(* of the thread from m_commMutex, and no notification is recorded.  The   *)
(* queue is a FifoExecutor, which TaskQueue implements.                    *)
(***************************************************************************)
EXTENDS Integers, Sequences, FiniteSets

CONSTANTS
    Sends,          \* the calls of sendTo(), each with a message of its own
    ATTEMPTS,       \* 8 in the code
    MaxIncoming,    \* bound: messages from the device
    MaxFaults,      \* bound: SPI calls of the listening thread that fail
    MaxQueries      \* bound: calls of getState()

ASSUME SpiAssumption ==
    /\ Sends \cap {"listener", "query", "free"} = {}
    /\ ATTEMPTS \in Nat \ {0}
    /\ MaxIncoming \in Nat
    /\ MaxFaults \in Nat
    /\ MaxQueries \in Nat

Incoming == 1 .. MaxIncoming

VARIABLES
    call,       \* send -> "idle", "trying", "deciding", "waiting", "returned"
    attempt,    \* send -> attempts begun
    out,        \* the sends the bus has accepted, in order
    commMutex,  \* owner of m_commMutex: a send, "listener", "query" or "free"
    status,     \* what the owner of m_commMutex has read from the bus
    listener,   \* "waiting", "deciding", "pushing", "testing", "stopped"
    rx,         \* m_rx while it is pushed: << >> or <<message>>
    device,     \* messages ready in the device
    produced,   \* number of messages the device has had
    faults,     \* SPI calls that may still fail
    queries,    \* calls of getState() to come
    queue,      \* m_receiveMessageQueue
    running,    \* { } or {the message its worker is handing over}
    stopped,    \* m_receiveMessageQueue was told to stop
    handler,    \* whether m_receiveFromFunc holds a function
    tested,     \* what the worker has seen of it
    seen,       \* messages its worker has taken, in order
    terminated, \* an empty function was called, and std::terminate()
    owner       \* "using", "joining", "gone": the thread that destroys the channel

sendVars == <<call, attempt, out>>
busVars == <<commMutex, status>>
listenVars == <<listener, rx>>
deviceVars == <<device, produced>>
readVars == <<listenVars, deviceVars, faults>>
queueVars == <<queue, running, stopped>>
handVars == <<handler, tested, seen, terminated>>
workerVars == <<queueVars, handVars>>
restVars == <<queries, workerVars, owner>>
otherVars == <<readVars, restVars>>      \* than those of the senders and the bus
vars == <<sendVars, busVars, otherVars>>

Queue == INSTANCE FifoExecutor WITH
    Tasks <- Incoming, pending <- queue, running <- running, stopped <- stopped

\* What is on its way from the device to the worker, and the channel as a queue of it.
OnTheWay == (queue \o rx) \o device

Reception == INSTANCE FifoExecutor WITH
    Tasks <- Incoming, pending <- OnTheWay, running <- running, stopped <- stopped

Init ==
    /\ call = [s \in Sends |-> "idle"]
    /\ attempt = [s \in Sends |-> 0]
    /\ out = <<>>
    /\ commMutex = "free"
    /\ status = "none"
    /\ listener = "testing"
    /\ rx = <<>>
    /\ device = <<>>
    /\ produced = 0
    /\ faults = MaxFaults
    /\ queries = MaxQueries
    /\ Queue!FInit
    /\ handler = FALSE
    /\ tested = FALSE
    /\ seen = <<>>
    /\ terminated = FALSE
    /\ owner = "using"

-----------------------------------------------------------------------------
(* The bus.                                                                *)

\* (mutant) the mutex is not taken
MutReadStatus(t) ==
    /\ commMutex' = t
    /\ status' \in {IF device = <<>> THEN "ready" ELSE "data", "failed"}

\* spi_iqrf_getSPIStatus() by the thread t, which takes m_commMutex before it.
ReadStatus(t) ==
    /\ commMutex = "free"
    /\ commMutex' = t
    /\ \/ status' = IF device = <<>> THEN "ready" ELSE "data"
       \/ device = <<>> /\ status' = "busy"
       \/ status' = "failed"

\* The owner of m_commMutex gives it back, and its variable status ends.
Release ==
    /\ commMutex' = "free"
    /\ status' = "none"

\* Data become ready in the device.
Produce ==
    /\ produced < MaxIncoming
    /\ produced' = produced + 1
    /\ device' = Append(device, produced')
    /\ UNCHANGED <<sendVars, busVars, listenVars, faults, restVars>>

\* getState(): two readings in one critical section, and no other effect.
QueryBegins ==
    /\ owner = "using"
    /\ queries > 0
    /\ queries' = queries - 1
    /\ ReadStatus("query")
    /\ UNCHANGED <<sendVars, readVars, workerVars, owner>>

QueryEnds ==
    /\ commMutex = "query"
    /\ Release
    /\ UNCHANGED <<sendVars, otherVars>>

-----------------------------------------------------------------------------
(* sendTo().                                                               *)

SendBegins(s) ==
    /\ owner = "using"
    /\ call[s] = "idle"
    /\ call' = [call EXCEPT ![s] = "trying"]
    /\ UNCHANGED <<attempt, out, busVars, otherVars>>

SendAttempts(s) ==
    /\ call[s] = "trying"
    /\ attempt[s] < ATTEMPTS
    /\ ReadStatus(s)
    /\ call' = [call EXCEPT ![s] = "deciding"]
    /\ attempt' = [attempt EXCEPT ![s] = @ + 1]
    /\ UNCHANGED <<out, otherVars>>

\* (mutant) the loop goes on after a successful write
MutSendWrites(s) ==
    /\ call[s] = "deciding"
    /\ status = "ready"
    /\ out' = Append(out, s)
    /\ call' = [call EXCEPT ![s] = "trying"]
    /\ Release
    /\ UNCHANGED <<attempt, otherVars>>

SendWrites(s) ==
    /\ call[s] = "deciding"
    /\ status = "ready"
    /\ out' = Append(out, s)
    /\ call' = [call EXCEPT ![s] = "returned"]
    /\ Release
    /\ UNCHANGED <<attempt, otherVars>>

\* The bus is busy, the write or the reading of the status has failed: the next
\* attempt follows at once.  After a failed reading the variable status is not
\* initialized: the code may also find data ready in it.
SendRetries(s) ==
    /\ call[s] = "deciding"
    /\ status \in {"ready", "busy", "failed"}
    /\ call' = [call EXCEPT ![s] = "trying"]
    /\ Release
    /\ UNCHANGED <<attempt, out, otherVars>>

\* (mutant) an attempt that meets data is not counted
MutSendPostpones(s) ==
    /\ call[s] = "deciding"
    /\ status \in {"data", "failed"}
    /\ call' = [call EXCEPT ![s] = "waiting"]
    /\ attempt' = [attempt EXCEPT ![s] = @ - 1]
    /\ Release
    /\ UNCHANGED <<out, otherVars>>

\* Data are ready: the listening thread is notified and given the mutex.
SendPostpones(s) ==
    /\ call[s] = "deciding"
    /\ status \in {"data", "failed"}
    /\ call' = [call EXCEPT ![s] = "waiting"]
    /\ Release
    /\ UNCHANGED <<attempt, out, otherVars>>

\* wait_for() ends: the mutex is taken and given back before the next attempt.
SendResumes(s) ==
    /\ call[s] = "waiting"
    /\ commMutex = "free"
    /\ call' = [call EXCEPT ![s] = "trying"]
    /\ UNCHANGED <<attempt, out, busVars, otherVars>>

\* All attempts were made: the message is dropped and the caller is not told.
SendDrops(s) ==
    /\ call[s] = "trying"
    /\ attempt[s] = ATTEMPTS
    /\ call' = [call EXCEPT ![s] = "returned"]
    /\ UNCHANGED <<attempt, out, busVars, otherVars>>

-----------------------------------------------------------------------------
(* listen().                                                               *)

\* (mutant) the thread never looks whether it should end
MutListenLoops ==
    /\ listener = "testing"
    /\ listener' = "waiting"
    /\ UNCHANGED <<sendVars, busVars, rx, deviceVars, faults, restVars>>

\* The test of m_runListenThread, which the destructor clears.
ListenLoops ==
    /\ listener = "testing"
    /\ listener' = IF owner = "using" THEN "waiting" ELSE "stopped"
    /\ UNCHANGED <<sendVars, busVars, rx, deviceVars, faults, restVars>>

ListenWakes ==
    /\ listener = "waiting"
    /\ ReadStatus("listener")
    /\ faults' = IF status' = "failed" THEN faults - 1 ELSE faults
    /\ faults' >= 0
    /\ listener' = "deciding"
    /\ UNCHANGED <<sendVars, rx, deviceVars, restVars>>

\* (mutant) what a failed read has left in the buffer is pushed, too
MutListenReadFails ==
    /\ listener = "deciding"
    /\ status = "data"
    /\ faults > 0
    /\ faults' = faults - 1
    /\ rx' = <<Head(device)>>
    /\ listener' = "pushing"
    /\ Release
    /\ UNCHANGED <<sendVars, deviceVars, restVars>>

ListenReadFails ==
    /\ listener = "deciding"
    /\ status = "data"
    /\ faults > 0
    /\ faults' = faults - 1
    /\ listener' = "testing"
    /\ Release
    /\ UNCHANGED <<sendVars, rx, deviceVars, restVars>>

ListenReads ==
    /\ listener = "deciding"
    /\ status = "data"
    /\ rx' = <<Head(device)>>
    /\ device' = Tail(device)
    /\ listener' = "pushing"
    /\ Release
    /\ UNCHANGED <<sendVars, produced, faults, restVars>>

\* (mutant) a failed reading of the status ends the thread
MutListenIdles ==
    /\ listener = "deciding"
    /\ status # "data"
    /\ listener' = IF status = "failed" THEN "stopped" ELSE "testing"
    /\ Release
    /\ UNCHANGED <<sendVars, rx, deviceVars, faults, restVars>>

ListenIdles ==
    /\ listener = "deciding"
    /\ status # "data"
    /\ listener' = "testing"
    /\ Release
    /\ UNCHANGED <<sendVars, rx, deviceVars, faults, restVars>>

\* m_commMutex is not held any more.
ListenPushes ==
    /\ listener = "pushing"
    /\ Queue!Accept(rx[1])
    /\ rx' = <<>>
    /\ listener' = "testing"
    /\ UNCHANGED <<sendVars, busVars, deviceVars, faults, queries, handVars, owner>>

-----------------------------------------------------------------------------
(* The worker of the queue, and the handler.                               *)

\* The function given to the queue tests the handler ...
WorkerTests ==
    /\ Queue!Start
    /\ tested' = handler
    /\ seen' = Append(seen, Head(queue))
    /\ UNCHANGED <<sendVars, busVars, readVars, queries, handler, terminated, owner>>

\* ... and calls it without a lock: another thread may have emptied it.
WorkerHandsOver ==
    /\ Queue!End
    /\ terminated' = (tested /\ ~handler)
    /\ tested' = FALSE
    /\ UNCHANGED <<sendVars, busVars, readVars, queries, handler, seen, owner>>

Register ==
    /\ owner = "using"
    /\ handler' = TRUE
    /\ UNCHANGED <<sendVars, busVars, readVars, queries, queueVars, tested, seen, terminated, owner>>

Unregister ==
    /\ owner = "using"
    /\ handler' = FALSE
    /\ UNCHANGED <<sendVars, busVars, readVars, queries, queueVars, tested, seen, terminated, owner>>

-----------------------------------------------------------------------------
(* The destructor.  Nobody is inside a method when it begins.  It does not *)
(* touch the queue, whose worker goes on.                                  *)

DestructorBegins ==
    /\ owner = "using"
    /\ \A s \in Sends : call[s] \in {"idle", "returned"}
    /\ commMutex # "query"
    /\ owner' = "joining"
    /\ UNCHANGED <<sendVars, busVars, readVars, queries, workerVars>>

\* (mutant) the listening thread is detached
MutDestructorJoins ==
    /\ owner = "joining"
    /\ owner' = "gone"
    /\ UNCHANGED <<sendVars, busVars, readVars, queries, workerVars>>

DestructorJoins ==
    /\ owner = "joining"
    /\ listener = "stopped"
    /\ owner' = "gone"
    /\ UNCHANGED <<sendVars, busVars, readVars, queries, workerVars>>

-----------------------------------------------------------------------------

SendSteps(s) ==
    \/ SendBegins(s) \/ SendAttempts(s) \/ SendWrites(s) \/ SendRetries(s)
    \/ SendPostpones(s) \/ SendResumes(s) \/ SendDrops(s)

Next ==
    /\ ~terminated
    /\ \/ \E s \in Sends : SendSteps(s)
       \/ Produce \/ QueryBegins \/ QueryEnds
       \/ ListenLoops \/ ListenWakes \/ ListenReadFails \/ ListenReads \/ ListenIdles
       \/ ListenPushes
       \/ WorkerTests \/ WorkerHandsOver \/ Register \/ Unregister
       \/ DestructorBegins \/ DestructorJoins

Spec == Init /\ [][Next]_vars

\* A thread that waits for m_commMutex gets it when it is free again and again;
\* otherwise every thread goes on when it can.  Nobody has to call a method, and
\* the device owes nothing.  The reader's faults are limited.
Fairness ==
    /\ \A s \in Sends : SF_vars(~terminated /\ call[s] # "idle" /\ SendSteps(s))
    /\ SF_vars(~terminated /\ ListenWakes)
    /\ WF_vars(~terminated /\ (ListenLoops \/ ListenReads \/ ListenIdles
                                 \/ ListenPushes))
    /\ WF_vars(~terminated /\ (QueryEnds \/ DestructorJoins))
    /\ WF_vars(~terminated /\ (WorkerTests \/ WorkerHandsOver))

FairSpec == Spec /\ Fairness

-----------------------------------------------------------------------------
(* Properties.                                                             *)

\* Types, and m_commMutex: it is taken exactly as long as one thread is between
\* reading the status and acting on it, so that the status is that thread's own.
TypeOK ==
    /\ call \in [Sends -> {"idle", "trying", "deciding", "waiting", "returned"}]
    /\ attempt \in [Sends -> 0 .. ATTEMPTS]
    /\ out \in Seq(Sends)
    /\ commMutex \in Sends \cup {"listener", "query", "free"}
    /\ status \in {"none", "ready", "busy", "data", "failed"}
    /\ listener \in {"waiting", "deciding", "pushing", "testing", "stopped"}
    /\ rx \in Seq(Incoming)
    /\ device \in Seq(Incoming)
    /\ produced \in 0 .. MaxIncoming
    /\ faults \in 0 .. MaxFaults
    /\ queries \in 0 .. MaxQueries
    /\ queue \in Seq(Incoming)
    /\ running \subseteq Incoming
    /\ stopped \in BOOLEAN /\ handler \in BOOLEAN /\ tested \in BOOLEAN
    /\ terminated \in BOOLEAN
    /\ seen \in Seq(Incoming)
    /\ owner \in {"using", "joining", "gone"}
    /\ \A s \in Sends : call[s] = "deciding" <=> commMutex = s
    /\ listener = "deciding" <=> commMutex = "listener"
    /\ listener = "pushing" <=> rx # <<>>

\* sendTo() writes its message at most once, in spite of its retries, and gives
\* up only after the last of its attempts: one that has returned with attempts
\* left has written.
SentOnceOrDropped ==
    /\ \A i, j \in 1 .. Len(out) : out[i] = out[j] => i = j
    /\ \A s \in Sends :
        IF \E i \in 1 .. Len(out) : out[i] = s
        THEN call[s] = "returned"
        ELSE call[s] = "returned" => attempt[s] = ATTEMPTS

\* What the device had ready is, in its order and each message once, what the
\* worker has taken, what is queued, what listen() is about to push, and what is
\* left in the device, across failed reads and the gap between read and push.
NothingLost ==
    seen \o queue \o rx \o device = [i \in 1 .. produced |-> i]

\* Once the destructor has returned nothing is written to the bus or pushed to
\* the queue any more: the threads that use the channel's memory have ended,
\* except for the queue's worker, which is left what it had.
QuietWhenGone ==
    [][owner = "gone" => out' = out /\ Len(queue') <= Len(queue)]_vars

\* The bus, m_commMutex, the listening thread, m_rx and the queue together are one
\* queue: a message enters it when the device has it ready, and whatever the threads
\* do with it, fail to read or put off, shows only when the worker starts the oldest.
ReceivesInOrder == Reception!FSafeSpec

\* A bound for the steps that are left to a call of sendTo().
Remaining(s) ==
    CASE call[s] = "idle" -> 3 * ATTEMPTS + 2
      [] call[s] = "trying" -> 3 * (ATTEMPTS - attempt[s]) + 1
      [] call[s] = "deciding" -> 3 * (ATTEMPTS - attempt[s]) + 3
      [] call[s] = "waiting" -> 3 * (ATTEMPTS - attempt[s]) + 2
      [] OTHER -> 0

\* Each step of sendTo() brings it nearer to its return, whatever the bus answers
\* and whoever else uses the bus: no retry and no pause for the listening thread
\* starts the loop anew.
SendGetsNearer ==
    [][\A s \in Sends :
        \/ UNCHANGED <<call[s], attempt[s]>>
        \/ Remaining(s)' \in Nat /\ Remaining(s)' < Remaining(s)]_vars

\* sendTo() returns, whatever the bus answers.
SendReturns ==
    \A s \in Sends : call[s] = "trying" ~> call[s] = "returned" \/ terminated

\* What the device has ready reaches the worker of the queue, past callers that
\* compete for the bus, as long as the channel exists.
Received ==
    \A m \in Incoming :
        produced >= m ~> \/ \E i \in 1 .. Len(seen) : seen[i] = m
                         \/ owner # "using" \/ terminated

\* The destructor comes to its end wherever it meets the listening thread.
DestructorReturns == owner = "joining" ~> owner = "gone" \/ terminated
=============================================================================
