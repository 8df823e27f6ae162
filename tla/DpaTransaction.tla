--------------------------- MODULE DpaTransaction ---------------------------
(***************************************************************************)
(* One DpaTransaction2 and the threads that meet at its mutex and          *)
(* condition variable:                                                     *)
(*                                                                         *)
(*   executor  the worker thread of the handler's queue, in execute()      *)
(*   user      the thread that calls get()                                 *)
(*   receiver  the channel's thread, in processReceivedMessage()           *)
(*   aborter   whoever calls abort()                                       *)
(*                                                                         *)
(* Every step is what one thread does between taking and releasing         *)
(* m_conditionVariableMutex.  execute() keeps the mutex while it calls the *)
(* sender, so nothing else can happen while exec = "sending".  wait_for()  *)
(* has no predicate and takes the mutex again before it looks at the       *)
(* clock: the wait counts as expired when the deadline has passed by then, *)
(* whatever woke the thread.                                               *)
(*                                                                         *)
(* The device, the channel and the passage of time are the environment.    *)
(***************************************************************************)
EXTENDS DpaTransactionObject

CONSTANTS
    RequestSet,       \* the requests considered, a subset of Requests
    UserTimeouts,     \* timeouts the user may pass (negative: default)
    DefaultErrors,    \* errors a transaction may be created with, or TRN_OK
    Refusals,         \* errors the handler may impose on execute()
    Estimates,        \* durations the estimate functions may return
    ResponseCodes,    \* response codes of the device
    MaxStale,         \* messages left over from earlier, similar transactions
    MaxSpurious,      \* spurious wake-ups of the executor
    MayAbort,         \* whether abort() is called
    MayFailToSend,    \* whether the sender may throw
    Horizon           \* the clocks kept for the properties stop here

ASSUME TransactionAssumption ==
    /\ RequestSet \subseteq Requests
    /\ UserTimeouts \subseteq Int
    /\ DefaultErrors \subseteq Int
    /\ Refusals \subseteq Int \ {TRN_OK}
    /\ Estimates \subseteq Nat \ {0}
    /\ ResponseCodes \subseteq Nat
    /\ MaxStale \in Nat
    /\ MaxSpurious \in Nat
    /\ MayAbort \in BOOLEAN
    /\ MayFailToSend \in BOOLEAN
    /\ Horizon \in Nat
    /\ DefaultTimeout <= Horizon
    /\ BondTimeout <= Horizon
    /\ \A u \in UserTimeouts : u <= Horizon

VARIABLES
    tran,       \* the transaction object
    exec,       \* executor: "idle", "sending", "waiting", "woken", "done"
    timer,      \* time left until the deadline of the executor's wait
    user,       \* user: "idle", "awaitStart", "awaitFinish", "returned"
    device,     \* the addressed device: "silent", "asked", "confirmed", "answered"
    stale,      \* left-over messages that may still arrive
    spurious,   \* spurious wake-ups that may still happen
    sinceSent,  \* time since the request was sent, up to Horizon
    quiet,      \* time since a message was last accepted (or the request sent)
    aborted     \* abort() was called

vars == <<tran, exec, timer, user, device, stale, spurious, sinceSent,
          quiet, aborted>>

Messages == Message(Estimates, ResponseCodes)

Init ==
    /\ \E req \in RequestSet, asked \in UserTimeouts, err \in DefaultErrors :
          tran = Construct(req, asked, err)
    /\ exec = "idle"
    /\ timer = 0
    /\ user = "idle"
    /\ device = "silent"
    /\ stale = MaxStale
    /\ spurious = MaxSpurious
    /\ sinceSent = 0
    /\ quiet = 0
    /\ aborted = FALSE

MutexFree == exec # "sending"

-----------------------------------------------------------------------------
(* The executor.                                                           *)

\* execute() with TRN_OK: the state is set before the sender is called.
\* m_expectedDurationMs keeps the value it has.
ExecuteSend ==
    /\ exec = "idle"
    /\ tran.defaultError = TRN_OK
    /\ tran' = Sent(tran)
    /\ exec' = "sending"
    /\ UNCHANGED <<timer, user, device, stale, spurious, sinceSent, quiet,
                   aborted>>

\* execute() with an error, its own or the handler's: it ends at once.
ExecuteRefuse ==
    /\ exec = "idle"
    /\ \E err \in Refusals \cup ({tran.defaultError} \ {TRN_OK}) :
          tran' = Evaluated([tran EXCEPT !.defaultError = err, !.expected = 0,
                                         !.state = "kDefaultError"], FALSE)
    /\ exec' = "done"
    /\ UNCHANGED <<timer, user, device, stale, spurious, sinceSent, quiet,
                   aborted>>

\* The sender returns and execute() starts to wait.
SendReturns ==
    /\ exec = "sending"
    /\ exec' = "waiting"
    /\ timer' = tran.expected
    /\ device' = "asked"
    /\ UNCHANGED <<tran, user, stale, spurious, sinceSent, quiet, aborted>>

\* The sender throws: execute() ends without waiting.
SendFails ==
    /\ MayFailToSend
    /\ exec = "sending"
    /\ tran' = Evaluated([tran EXCEPT !.expected = 0,
                                      !.state = "kInterfaceError"], FALSE)
    /\ exec' = "done"
    /\ UNCHANGED <<timer, user, device, stale, spurious, sinceSent, quiet,
                   aborted>>

SpuriousWakeup ==
    /\ exec = "waiting"
    /\ spurious > 0
    /\ exec' = "woken"
    /\ spurious' = spurious - 1
    /\ UNCHANGED <<tran, timer, user, device, stale, sinceSent, quiet, aborted>>

WaitOver == exec = "woken" \/ (exec = "waiting" /\ timer = 0)

\* The wait is over and the mutex held again.  A transaction that goes on
\* waiting starts a new wait of the full expected duration.
Evaluate ==
    /\ WaitOver
    /\ tran' = Evaluated(tran, timer = 0)
    /\ exec' = IF tran'.finish THEN "done" ELSE "waiting"
    /\ timer' = IF tran'.finish THEN timer ELSE tran.expected
    /\ UNCHANGED <<user, device, stale, spurious, sinceSent, quiet, aborted>>

-----------------------------------------------------------------------------
(* The receiver and the aborter.                                           *)

\* (mutant) the executor is not notified of a message or an abort
MutWoken == exec

\* notify_all() wakes the executor, which then has to take the mutex.
Woken == IF exec = "waiting" THEN "woken" ELSE exec

Receive(m) ==
    /\ MutexFree
    /\ tran' = ProcessReceivedMessage(tran, m)
    /\ IF Accepts(tran, m)
       THEN exec' = Woken /\ quiet' = 0
       ELSE UNCHANGED <<exec, quiet>>
    /\ UNCHANGED <<timer, user, spurious, sinceSent, aborted>>

\* The device answers as DPA says: a node confirms and then responds, a
\* broadcast is only confirmed, the coordinator only responds.
DeviceConfirms ==
    /\ device = "asked"
    /\ tran.addr # "coordinator"
    /\ \E m \in Messages : m.kind = "confirmation" /\ m.matches /\ Receive(m)
    /\ device' = "confirmed"
    /\ UNCHANGED stale

DeviceResponds ==
    /\ device \in {"asked", "confirmed"}
    /\ tran.addr # "broadcast"
    /\ \E m \in Messages : m.kind = "response" /\ m.matches /\ Receive(m)
    /\ device' = "answered"
    /\ UNCHANGED stale

\* Anything else the channel delivers while this transaction is pending,
\* from before execute() on: late answers to an earlier transaction with the
\* same address and command, duplicates, and messages that do not match.
StaleMessage ==
    /\ stale > 0
    /\ stale' = stale - 1
    /\ \E m \in Messages : Receive(m)
    /\ UNCHANGED device

Abort ==
    /\ MayAbort
    /\ MutexFree
    /\ ~aborted
    /\ tran' = Aborted(tran)
    /\ aborted' = TRUE
    /\ exec' = Woken
    /\ UNCHANGED <<timer, user, device, stale, spurious, sinceSent, quiet>>

-----------------------------------------------------------------------------
(* The user in get().                                                      *)

\* Only an infinite transaction is first waited for to start.
GetCall ==
    /\ MutexFree
    /\ user = "idle"
    /\ user' = IF tran.infinite THEN "awaitStart" ELSE "awaitFinish"
    /\ UNCHANGED <<tran, exec, timer, device, stale, spurious, sinceSent, quiet,
                   aborted>>

\* The first wait ends when the transaction has started or when it times
\* out; in both cases get() goes on, so when that happens does not matter.
GetStartWaitOver ==
    /\ MutexFree
    /\ user = "awaitStart"
    /\ user' = "awaitFinish"
    /\ UNCHANGED <<tran, exec, timer, device, stale, spurious, sinceSent, quiet,
                   aborted>>

GetReturn ==
    /\ MutexFree
    /\ user = "awaitFinish"
    /\ tran.finish
    /\ user' = "returned"
    /\ UNCHANGED <<tran, exec, timer, device, stale, spurious, sinceSent, quiet,
                   aborted>>

-----------------------------------------------------------------------------
(* Time.  It passes while the executor waits or, woken, for the mutex.     *)

Tock(clock) == IF clock < Horizon THEN clock + 1 ELSE clock

Tick ==
    /\ exec \in {"waiting", "woken"}
    /\ timer > 0
    /\ timer' = timer - 1
    /\ sinceSent' = Tock(sinceSent)
    /\ quiet' = Tock(quiet)
    /\ UNCHANGED <<tran, exec, user, device, stale, spurious, aborted>>

\* Everything is over: not a deadlock.
Over ==
    /\ exec = "done"
    /\ user = "returned"
    /\ UNCHANGED vars

Executor == ExecuteSend \/ ExecuteRefuse \/ SendReturns \/ SendFails \/ Evaluate
User == GetCall \/ GetStartWaitOver \/ GetReturn
Environment == \/ DeviceConfirms \/ DeviceResponds \/ StaleMessage \/ Abort
               \/ SpuriousWakeup \/ Tick

Next == Executor \/ User \/ Environment \/ Over

Spec == Init /\ [][Next]_vars

\* The executor's and the user's threads are scheduled, the sender returns or
\* throws, and time passes.  Nothing is assumed of the queue that has to get
\* to this transaction (ExecuteSend, ExecuteRefuse), of the device or of the
\* aborter.
Fairness ==
    /\ WF_vars(SendReturns \/ SendFails)
    /\ WF_vars(Evaluate)
    /\ WF_vars(Tick)
    /\ WF_vars(GetStartWaitOver)
    /\ WF_vars(GetReturn)

FairSpec == Spec /\ Fairness

-----------------------------------------------------------------------------
(* Safety.                                                                 *)

Transactions == Objects(ResponseCodes)

\* Type invariant: every field and every thread has one of the values the
\* code can give it; the clocks stay within their bounds.
TypeOK ==
    /\ tran \in Transactions
    /\ exec \in {"idle", "sending", "waiting", "woken", "done"}
    /\ timer \in Nat
    /\ user \in {"idle", "awaitStart", "awaitFinish", "returned"}
    /\ device \in {"silent", "asked", "confirmed", "answered"}
    /\ stale \in 0 .. MaxStale
    /\ spurious \in 0 .. MaxSpurious
    /\ sinceSent \in 0 .. Horizon
    /\ quiet \in 0 .. Horizon
    /\ aborted \in BOOLEAN

TimedOut ==
    /\ tran.finish
    /\ tran.defaultError = TRN_OK
    /\ tran.errorCode = TRN_ERROR_TIMEOUT

\* How long a request may at least count on being waited for.
Patience == IF tran.addr = "coordinator" THEN tran.userTimeout ELSE DefaultTimeout

\* A timeout of a transaction that heard no response is never reported before
\* the default timeout (for the coordinator: the user's) has passed since the
\* request was sent, whatever confirmations, stale messages, aborts and wakeups
\* came in between: DpaTransaction2.cpp:264-271 restarts the whole wait each time.
TimeoutNotEarly == TimedOut /\ ~tran.responded => sinceSent >= Patience

\* With a device that answers in order and nothing stale on the channel, a
\* response that was recorded is never thrown away by a timeout, although the
\* deadline of the executor's wait may pass while the response is processed.
NoTimeoutAfterResponse == TimedOut => ~tran.responded

\* A wait that nothing disturbed ends the transaction only when the whole
\* expected duration has passed since the last message: whoever changes
\* m_expectedDurationMs (DpaTransaction2.cpp:409, 413, 446) also wakes the wait
\* that was begun with the old one.
UndisturbedWaitIsFull ==
    [][exec = "waiting" /\ ~tran.finish /\ tran'.finish => quiet >= tran.expected]_vars

\* The executor does not sleep on a result: the waits have no predicate
\* (DpaTransaction2.cpp:266), so that a message or an abort that nobody told it of would be
\* noticed only at the deadline.  While it waits unwoken, a look at the state
\* would send it back to wait.
NothingMissed == exec = "waiting" => ~Evaluated(tran, FALSE).finish

\* What may still happen from outside, and where the executor is.
DeviceLeft ==
    CASE device = "silent" -> 3 [] device = "asked" -> 2
      [] device = "confirmed" -> 1 [] device = "answered" -> 0

EventsLeft == stale + spurious + (IF aborted THEN 0 ELSE 1) + DeviceLeft

ExecutorLeft ==
    CASE exec = "idle" -> 4 [] exec = "sending" -> 3 [] exec = "woken" -> 2
      [] exec = "waiting" -> 1 [] exec = "done" -> 0

Nearer ==
    \/ EventsLeft' < EventsLeft
    \/ EventsLeft' = EventsLeft /\ ExecutorLeft' < ExecutorLeft
    \/ EventsLeft' = EventsLeft /\ ExecutorLeft' = ExecutorLeft /\ timer' < timer

\* execute() does not go round in circles (DpaTransaction2.cpp:260-334): each
\* of its steps, each message and each tick brings it nearer its end, although
\* wakeups restart the whole wait.  Only an infinite transaction that has no
\* answer begins an expired wait again without getting nearer.
EveryStepCounts ==
    [][<<tran, exec, timer>>' # <<tran, exec, timer>> =>
          \/ Nearer
          \/ tran.infinite /\ tran.state \in AwaitingAnswer /\ exec = "waiting" /\ timer = 0]_vars

\* The transaction implements what it promises to its user: the request is
\* out from the moment the sender returns, the verdict is in the result object
\* from m_finish on, and the user has it when get() returns.
PhaseOf ==
    IF user = "returned" THEN "collected"
    ELSE IF tran.finish THEN "decided"
    ELSE IF exec \in {"idle", "sending"} THEN "created"
    ELSE "running"

ResponseOf == IF tran.responded THEN {tran.responseCode} ELSE {}
VerdictOf == IF tran.finish THEN {GetErrorCode(tran)} ELSE {}
IsBroadcast == tran.addr = "broadcast"

Contract == INSTANCE TransactionContract WITH
    ResponseCodes <- ResponseCodes,
    Refusals      <- Refusals \cup (DefaultErrors \ {TRN_OK}) \cup {TRN_ERROR_IFACE},
    phase         <- PhaseOf,
    confirmed     <- tran.confirmed,
    response      <- ResponseOf,
    aborted       <- aborted,
    verdict       <- VerdictOf,
    broadcast     <- IsBroadcast,
    infinite      <- tran.infinite

\* DpaTransaction2 implements TransactionContract: one verdict, decided once,
\* backed by an answer, an abort, the end of a finite wait or a refusal, with
\* nothing heard added to the result after the decision
\* (DpaTransaction2.cpp:336-342 against 354-356 and 204).
ImplementsContract == Contract!CSpec

-----------------------------------------------------------------------------
(* Liveness.                                                               *)

Started == exec # "idle"

\* A transaction that was started and may time out gives get() its result
\* (DpaTransaction2.cpp:258-342, 200-204): no wake-up, message or abort that
\* comes at the wrong moment leaves the executor or the user waiting for ever.
FiniteReturns == (Started /\ ~tran.infinite /\ user # "idle") ~> user = "returned"

\* A transaction that waits for ever (Discovery, SmartConnect, AuthorizeBond,
\* FRC) still ends once its response is recorded (DpaTransaction2.cpp:426-456).
ResponseEnds == (Started /\ tran.responded) ~> tran.finish

\* An abort of a started transaction ends it, an infinite one too
\* (DpaTransaction2.cpp:163-167, 320-322).
AbortEnds == (Started /\ tran.state = "kAborted") ~> tran.finish

-----------------------------------------------------------------------------
(* What a comment says and the code does not do: it is violated, and the   *)
(* run that shows it is a finding.                                         *)

\* IDpaTransaction2.h:67, "abort the transaction immediately": the abort of a
\* started transaction is not undone by a message that the receiver processes
\* before the executor has noticed.
AbortNotOverwritten ==
    [][tran.state = "kAborted" /\ Started /\ ~tran.finish
        => tran'.state = "kAborted"]_vars
=============================================================================
