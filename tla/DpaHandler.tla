----------------------------- MODULE DpaHandler -----------------------------
(***************************************************************************)
(* DpaHandler2: its queue of transactions, the transaction that is pending *)
(* and the threads around them:                                            *)
(*                                                                         *)
(*   users     executeDpaTransaction(), get() and abort()                  *)
(*   worker    the thread of the queue: it publishes a transaction as      *)
(*             m_pendingTransaction, looks how many are behind it, and     *)
(*             executes it                                                 *)
(*   receiver  the channel's thread in ResponseMessageHandler()            *)
(*   owner     the thread that destroys the handler                        *)
(*                                                                         *)
(* The queue is a FifoExecutor, which TaskQueue implements.  The objects   *)
(* are the records of DpaTransactionObject.  When a deadline passes does   *)
(* not matter here: it may pass at any time of a wait (DpaTransaction has  *)
(* the clocks).  m_pendingTransaction is not protected: whoever uses it    *)
(* reads it first and takes the mutex of what it found later.              *)
(***************************************************************************)
EXTENDS DpaTransactionObject, Sequences

CONSTANTS
    Ids,              \* the transactions
    Keys,             \* address, peripheral and command of a request
    Request,          \* transaction -> its request and how it was asked for
    QUEUE_MAX_LEN,
    ResponseCodes,    \* response codes of the device
    MayAbort,         \* transactions abort() may be called on
    MayFailToSend,    \* whether the channel may throw
    MayDestroy,       \* whether the handler may be destroyed
    EarlyMessages     \* answers to requests of an earlier run of the program

ASSUME HandlerAssumption ==
    /\ Request \in [Ids -> [req : Requests, key : Keys, user : Int, err : Int,
                            empty : BOOLEAN]]
    /\ QUEUE_MAX_LEN \in Nat \ {0}
    /\ ResponseCodes \subseteq Nat
    /\ MayAbort \subseteq Ids
    /\ MayFailToSend \in BOOLEAN
    /\ MayDestroy \in BOOLEAN
    /\ EarlyMessages \in Nat

VARIABLES
    queue,      \* the transactions in m_dpaTransactionQueue
    running,    \* { } or {the transaction the worker processes}
    stopped,    \* the queue was told to stop
    worker,     \* "free", "measuring", "accepted", "refused", "sending",
                \* "waiting", "woken"
    late,       \* the deadline of the worker's wait has passed
    tran,       \* transaction -> object
    pending,    \* m_pendingTransaction: { } (null) or {transaction}
    receiver,   \* { } or {the message in ResponseMessageHandler() and its target}
    device,     \* transaction -> "silent", "asked", "confirmed", "answered"
    early,      \* answers of an earlier run that may still arrive
    user,       \* transaction -> "idle", "submitted", "returned"
    aborted,    \* transactions whose abort() was called
    owner,      \* "using", "aborting", "stopping", "joining", "gone"
    victim      \* what the destructor found pending: { } or {transaction}

queueVars == <<queue, running, stopped>>
workerVars == <<worker, late>>
outside == <<receiver, device, early>>
usersVars == <<user, aborted>>
ownerVars == <<owner, victim>>
vars == <<queueVars, workerVars, tran, pending, outside, usersVars, ownerVars>>

Queue == INSTANCE FifoExecutor WITH
    Tasks <- Ids, pending <- queue, running <- running, stopped <- stopped

Init ==
    /\ Queue!FInit
    /\ worker = "free"
    /\ late = FALSE
    /\ tran = [i \in Ids |-> Construct(Request[i].req, Request[i].user, Request[i].err)]
    /\ pending = {}
    /\ receiver = {}
    /\ device = [i \in Ids |-> "silent"]
    /\ early = EarlyMessages
    /\ user = [i \in Ids |-> "idle"]
    /\ aborted = {}
    /\ owner = "using"
    /\ victim = {}

\* execute() keeps the mutex of its transaction while it sends.
MutexFree(i) == ~(running = {i} /\ worker = "sending")

\* notify_all() on the condition variable of a transaction.
WokenBy(i) == IF running = {i} /\ worker = "waiting" THEN "woken" ELSE worker

-----------------------------------------------------------------------------
(* Users.                                                                  *)

\* executeDpaTransaction(): an empty request is not queued.
Submit(i) ==
    /\ owner = "using"
    /\ user[i] = "idle"
    /\ user' = [user EXCEPT ![i] = "submitted"]
    /\ IF Request[i].empty THEN UNCHANGED queueVars ELSE Queue!Accept(i)
    /\ UNCHANGED <<workerVars, tran, pending, outside, aborted, ownerVars>>

Abort(i) ==
    /\ i \in MayAbort \ aborted
    /\ user[i] = "submitted"
    /\ MutexFree(i)
    /\ tran' = [tran EXCEPT ![i] = Aborted(@)]
    /\ aborted' = aborted \cup {i}
    /\ worker' = WokenBy(i)
    /\ UNCHANGED <<queueVars, late, pending, outside, user, ownerVars>>

\* get(): its first wait, of an infinite transaction, ends by itself.
GetReturn(i) ==
    /\ user[i] = "submitted"
    /\ MutexFree(i)
    /\ tran[i].finish
    /\ user' = [user EXCEPT ![i] = "returned"]
    /\ UNCHANGED <<queueVars, workerVars, tran, pending, outside, aborted, 
                  ownerVars>>

-----------------------------------------------------------------------------
(* The worker: the function given to the queue, and execute().             *)

\* (mutant) the transaction that is taken is not published
MutTake ==
    /\ Queue!Start
    /\ worker' = "measuring"
    /\ UNCHANGED <<late, tran, pending, outside, usersVars, ownerVars>>

\* The worker takes a transaction and publishes it as m_pendingTransaction.
Take ==
    /\ Queue!Start
    /\ pending' = running'
    /\ worker' = "measuring"
    /\ UNCHANGED <<late, tran, outside, usersVars, ownerVars>>

Measure ==
    /\ worker = "measuring"
    /\ worker' = IF Len(queue) < QUEUE_MAX_LEN THEN "accepted" ELSE "refused"
    /\ UNCHANGED <<queueVars, late, tran, pending, outside, usersVars, ownerVars>>

\* (mutant) the worker goes on as if it were still waiting
MutDecide(i, decided) ==
    /\ tran' = [tran EXCEPT ![i] = decided]
    /\ Queue!End
    /\ late' = FALSE
    /\ UNCHANGED worker

\* execute() ends with its transaction finished, and the worker is free.
Decide(i, decided) ==
    /\ tran' = [tran EXCEPT ![i] = decided]
    /\ Queue!End
    /\ worker' = "free"
    /\ late' = FALSE

ExecuteSend(i) ==
    /\ running = {i}
    /\ worker = "accepted"
    /\ tran[i].defaultError = TRN_OK
    /\ tran' = [tran EXCEPT ![i] = Sent(@)]
    /\ worker' = "sending"
    /\ UNCHANGED <<queueVars, late, pending, outside, usersVars, ownerVars>>

\* The error execute() is called with: the transaction's own, or queue full.
Refusal(i) ==
    IF worker = "refused" THEN TRN_ERROR_IFACE_QUEUE_FULL ELSE tran[i].defaultError

\* (mutant) a transaction that is refused is only dropped
MutExecuteRefused(i) ==
    /\ running = {i}
    /\ worker \in {"accepted", "refused"} /\ Refusal(i) # TRN_OK
    /\ Decide(i, tran[i])
    /\ UNCHANGED <<pending, outside, usersVars, ownerVars>>

ExecuteRefused(i) ==
    /\ running = {i}
    /\ worker \in {"accepted", "refused"} /\ Refusal(i) # TRN_OK
    /\ Decide(i, Evaluated([tran[i] EXCEPT !.defaultError = Refusal(i),
                                           !.expected = 0,
                                           !.state = "kDefaultError"], FALSE))
    /\ UNCHANGED <<pending, outside, usersVars, ownerVars>>

\* sendRequest() returns, whether the channel has sent the request or not: it
\* catches the channel's exception.  execute() begins to wait.
SendReturns(i) ==
    /\ running = {i}
    /\ worker = "sending"
    /\ worker' = "waiting"
    /\ \/ device' = [device EXCEPT ![i] = "asked"]
       \/ MayFailToSend /\ UNCHANGED device
    /\ UNCHANGED <<queueVars, late, tran, pending, receiver, early, usersVars, ownerVars>>

DeadlinePasses ==
    /\ worker \in {"waiting", "woken"}
    /\ ~late
    /\ late' = TRUE
    /\ UNCHANGED <<queueVars, worker, tran, pending, outside, usersVars, ownerVars>>

Evaluate(i) ==
    /\ running = {i}
    /\ worker = "woken" \/ (worker = "waiting" /\ late)
    /\ LET next == Evaluated(tran[i], late)
       IN  \/ next.finish /\ Decide(i, next)
           \/ ~next.finish /\ worker' = "waiting" /\ late' = FALSE
              /\ UNCHANGED <<tran, queueVars>>
    /\ UNCHANGED <<pending, outside, usersVars, ownerVars>>

-----------------------------------------------------------------------------
(* Device and receiver.                                                    *)

\* ResponseMessageHandler() reads m_pendingTransaction.
Deliver(kind, key) ==
    /\ receiver = {}
    /\ owner # "gone"
    /\ \E code \in ResponseCodes :
          receiver' = {[target |-> pending, kind |-> kind, key |-> key, code |-> code]}
    /\ UNCHANGED <<queueVars, workerVars, tran, pending, usersVars, ownerVars>>

Confirm(i) ==
    /\ device[i] = "asked"
    /\ ~ToCoordinator(Request[i].req)
    /\ Deliver("confirmation", Request[i].key)
    /\ device' = [device EXCEPT ![i] = "confirmed"]
    /\ UNCHANGED early

\* An answer may come at any time after the request: before the confirmation
\* gets through, or when the next transactions are pending.
Respond(i) ==
    /\ device[i] \in {"asked", "confirmed"}
    /\ Request[i].req.addr # "broadcast"
    /\ Deliver("response", Request[i].key)
    /\ device' = [device EXCEPT ![i] = "answered"]
    /\ UNCHANGED early

EarlyMessage ==
    /\ early > 0
    /\ \E key \in Keys : Deliver("response", key)
    /\ early' = early - 1
    /\ UNCHANGED device

AsMessage(d, i) ==
    [kind |-> d.kind, matches |-> d.key = Request[i].key, estimate |-> 1, code |-> d.code]

\* processReceivedMessage() of the transaction that was pending when it was
\* read; an exception is caught.  Without one the code is undefined.
Process(i) ==
    \E d \in receiver :
        /\ d.target = {i}
        /\ MutexFree(i)
        /\ tran' = [tran EXCEPT ![i] = ProcessReceivedMessage(@, AsMessage(d, i))]
        /\ worker' = IF Accepts(tran[i], AsMessage(d, i)) THEN WokenBy(i) ELSE worker
        /\ receiver' = {}
        /\ UNCHANGED <<queueVars, late, pending, device, early, usersVars, 
                      ownerVars>>

-----------------------------------------------------------------------------
(* The destructor.                                                         *)

DestructorLooks ==
    /\ MayDestroy
    /\ owner = "using"
    /\ victim' = pending
    /\ owner' = IF pending = {} THEN "stopping" ELSE "aborting"
    /\ UNCHANGED <<queueVars, workerVars, tran, pending, outside, usersVars>>

DestructorAborts(i) ==
    /\ owner = "aborting"
    /\ victim = {i}
    /\ MutexFree(i)
    /\ tran' = [tran EXCEPT ![i] = Aborted(@)]
    /\ worker' = WokenBy(i)
    /\ aborted' = aborted \cup {i}
    /\ owner' = "stopping"
    /\ UNCHANGED <<queueVars, late, pending, outside, user,  victim>>

\* (mutant) neither stopQueue() nor the queue's destructor tells the worker
MutDestructorStops ==
    /\ owner = "stopping"
    /\ owner' = "joining"
    /\ UNCHANGED <<queueVars, workerVars, tran, pending, outside, usersVars,  victim>>

\* stopQueue(), and the same flag once more in the queue's destructor.
DestructorStops ==
    /\ owner = "stopping"
    /\ Queue!Stop
    /\ owner' = "joining"
    /\ UNCHANGED <<workerVars, tran, pending, outside, usersVars,  victim>>

\* The queue's destructor joins the worker.
DestructorJoins ==
    /\ owner = "joining"
    /\ stopped
    /\ running = {}
    /\ owner' = "gone"
    /\ UNCHANGED <<queueVars, workerVars, tran, pending, outside, usersVars,  victim>>

\* The handler is gone, or only users of empty requests are left, who wait for
\* ever: nothing else can happen.
Over ==
    /\ \/ owner = "gone"
       \/ \A i \in Ids : user[i] = (IF Request[i].empty THEN "submitted" ELSE "returned")
    /\ UNCHANGED vars

-----------------------------------------------------------------------------

Worker ==
    \/ Take
    \/ Measure
    \/ \E i \in Ids : ExecuteSend(i) \/ ExecuteRefused(i) \/ SendReturns(i) \/ Evaluate(i)

Destructor ==
    \/ \E i \in Ids : DestructorAborts(i)
    \/ DestructorStops
    \/ DestructorJoins

Next ==
    \/ \E i \in Ids : Submit(i) \/ Abort(i) \/ GetReturn(i)
    \/ Worker
    \/ DeadlinePasses
    \/ \E i \in Ids : Confirm(i) \/ Respond(i) \/ Process(i)
    \/ EarlyMessage
    \/ DestructorLooks
    \/ Destructor
    \/ Over

Spec == Init /\ [][Next]_vars

\* The worker is scheduled, deadlines pass, the receiver gets its mutex, users
\* call get(), and a destructor that has begun goes on.  Nobody has to submit,
\* abort, answer or destroy.
Fairness ==
    /\ WF_vars(Worker)
    /\ WF_vars(DeadlinePasses)
    /\ WF_vars(Destructor)
    /\ \A i \in Ids : WF_vars(Process(i)) /\ WF_vars(GetReturn(i))

FairSpec == Spec /\ Fairness

-----------------------------------------------------------------------------
(* What makes the handler correct.                                         *)

Deliveries ==
    [target : SUBSET Ids, kind : {"confirmation", "response"}, key : Keys,
     code : ResponseCodes]

Transactions == Objects(ResponseCodes)

\* Type invariant; the worker is free exactly when it processes nothing, and
\* what it processes is pending.
TypeOK ==
    /\ queue \in Seq(Ids)
    /\ running \in SUBSET Ids
    /\ stopped \in BOOLEAN
    /\ worker \in {"free", "measuring", "accepted", "refused", "sending", "waiting", "woken"}
    /\ running = {} <=> worker = "free"
    /\ late \in BOOLEAN
    /\ tran \in [Ids -> Transactions]
    /\ pending \in SUBSET Ids
    /\ running # {} => pending = running
    /\ receiver \in SUBSET Deliveries
    /\ device \in [Ids -> {"silent", "asked", "confirmed", "answered"}]
    /\ early \in 0 .. EarlyMessages
    /\ user \in [Ids -> {"idle", "submitted", "returned"}]
    /\ aborted \in SUBSET Ids
    /\ owner \in {"using", "aborting", "stopping", "joining", "gone"}
    /\ victim \in SUBSET Ids

\* A response is recorded only in a transaction whose own request, or an equal
\* one executed before, in this run of the program or an earlier one, the device
\* has answered, however late the receiver gets to the transaction it found
\* pending (DpaHandler2.cpp:119).
AnswersMatch ==
    \A i \in Ids : tran[i].responded =>
        early < EarlyMessages \/ \E j \in Ids :
            /\ Request[j].key = Request[i].key
            /\ device[j] = "answered"
            /\ j = i \/ tran[j].finish

\* As long as no two requests are equal, a transaction whose response was
\* recorded ends with the code of the response, or as aborted by a user or the
\* destructor; neither a timeout, a refusal, nor a message of its neighbours in
\* the queue replaces it.
ResponseWins ==
    \A i \in Ids : tran[i].finish /\ tran[i].responded =>
        \/ GetErrorCode(tran[i]) = tran[i].responseCode
        \/ i \in aborted /\ GetErrorCode(tran[i]) = TRN_ERROR_ABORTED

\* ResponseMessageHandler() calls through m_pendingTransaction without a test
\* (DpaHandler2.cpp:119).  It is null only for answers to an earlier run of the
\* program: an answer to one of the handler's own requests, however early it
\* comes or late it is processed, finds a transaction.
NullOnlyEarly == \A d \in receiver : d.target = {} => early < EarlyMessages

\* A transaction that was handed in and has no verdict yet is in the queue or
\* executing: a refusal, an abort, an error it was created with or the
\* destructor never makes the worker drop it (DpaHandler2.cpp:43-53), which its
\* user would wait for in get().
NoneForgotten ==
    \A i \in Ids : user[i] = "submitted" /\ ~Request[i].empty /\ ~tran[i].finish
                     => running = {i} \/ \E k \in 1 .. Len(queue) : queue[k] = i

\* Once the handler is destroyed its worker neither takes, executes nor
\* publishes anything: what users and the receiver still do to the objects they
\* hold does not wake it (DpaHandler2.cpp:74-84).
QuietWhenGone == [][owner = "gone" => UNCHANGED <<queueVars, workerVars, pending>>]_vars

PhaseOf(i) ==
    IF user[i] = "returned" THEN "collected"
    ELSE IF tran[i].finish THEN "decided"
    ELSE IF running = {i} /\ worker \in {"waiting", "woken"} THEN "running"
    ELSE "created"

Contract(i) == INSTANCE TransactionContract WITH
    ResponseCodes <- ResponseCodes,
    Refusals      <- {TRN_ERROR_IFACE_QUEUE_FULL, Request[i].err} \ {TRN_OK},
    phase         <- PhaseOf(i),
    confirmed     <- tran[i].confirmed,
    response      <- IF tran[i].responded THEN {tran[i].responseCode} ELSE {},
    aborted       <- i \in aborted,
    verdict       <- IF tran[i].finish THEN {GetErrorCode(tran[i])} ELSE {},
    broadcast     <- tran[i].addr = "broadcast",
    infinite      <- tran[i].infinite

\* The promise of one transaction holds of each of them in the handler, with
\* the others before, behind and instead of it on the channel: the conjunction
\* of Contract(i)!CSpec.
KeepsContracts ==
    /\ \A i \in Ids : Contract(i)!CInit
    /\ [][\A i \in Ids : [Contract(i)!CNext]_(Contract(i)!cvars)]_vars

\* Without infinite transactions every user of a request that is not empty gets
\* a result as long as nobody destroys the handler: each transaction before his ends, and his own is
\* executed or refused (DpaHandler2.cpp:43-53).
Served ==
    \A i \in Ids : (user[i] = "submitted" /\ ~Request[i].empty)
                     ~> (user[i] = "returned" \/ owner # "using")

\* DpaHandler2.cpp:76, "kill DpaTransaction if any": a destructor that has begun
\* gets through to the end, whatever is executing or queued.
DestructorReturns == (owner \in {"aborting", "stopping"}) ~> (owner = "gone")

-----------------------------------------------------------------------------
(* What a comment says and the code does not do.                           *)

\* DpaTransaction2.cpp:44-45, "If the function is not invoked in time required
\* by user, the transaction timer expires and this situation is reported": a
\* user of a finite transaction gets a result, whatever is in front of it.
BusyReported ==
    \A i \in Ids : (user[i] = "submitted" /\ ~tran[i].infinite /\ ~Request[i].empty)
                     ~> (user[i] = "returned")
=============================================================================
