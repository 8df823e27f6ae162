------------------------ MODULE DpaTransactionObject ------------------------
(***************************************************************************)
(* The C++ object DpaTransaction2 together with the DpaTransactionResult2  *)
(* it owns, as a record, and every method that changes it as an operator   *)
(* from the record before to the record after.  Each operator stands for   *)
(* code that runs under m_conditionVariableMutex, so the modules that give *)
(* the threads (DpaTransaction) use it as one atomic step.                 *)
(*                                                                         *)
(* Data is reduced to what the control flow distinguishes: a request is    *)
(* the class of its address and the class of its command; a message is its *)
(* direction, whether address, peripheral and command match the request,   *)
(* the duration the estimate functions would return for it, and its        *)
(* response code.  Times are small numbers instead of milliseconds.        *)
(***************************************************************************)
EXTENDS Integers

CONSTANTS
    DefaultTimeout,   \* m_defaultTimeout of the handler
    BondTimeout       \* BOND_TIMEOUT_MS

ASSUME TimeoutAssumption ==
    /\ DefaultTimeout \in Nat \ {0}
    /\ BondTimeout \in Nat \ {0}

-----------------------------------------------------------------------------
(* Error codes and states, named as in the source.                         *)

TRN_OK == 0
TRN_ERROR_TIMEOUT == -1
TRN_ERROR_IFACE_QUEUE_FULL == -2
TRN_ERROR_ABORTED == -3
TRN_ERROR_IFACE == -4

INFINITE_TIMEOUT == 0

States == {"kCreated", "kSent", "kSentCoordinator", "kConfirmation",
           "kConfirmationBroadcast", "kReceivedResponse", "kProcessed",
           "kTimeout", "kAborted", "kInterfaceError", "kDefaultError"}

\* States in which the loop of execute() goes on waiting for an answer and
\* those in which it only lets the estimated duration pass.
AwaitingAnswer == {"kSent", "kSentCoordinator", "kConfirmation"}
Settling == {"kConfirmationBroadcast", "kReceivedResponse"}

-----------------------------------------------------------------------------
(* Requests: the low byte of NADR is the coordinator's, the broadcast      *)
(* address or a node's; PNUM and PCMD matter only at the coordinator.      *)
(*   long   Discovery, SmartConnect, AuthorizeBond, FRC Send (Selective)   *)
(*   bond   BondNode                                                       *)
(*   short  any other command of PNUM_COORDINATOR or PNUM_FRC              *)
(*   other  a command of any other peripheral                              *)

Addresses == {"coordinator", "node", "broadcast"}
Commands == {"long", "bond", "short", "other"}
Requests == [addr : Addresses, cmd : Commands]

ToCoordinator(req) == req.addr = "coordinator"

IsInfinite(req, user) ==
    /\ ToCoordinator(req)
    /\ \/ user < INFINITE_TIMEOUT /\ req.cmd = "long"
       \/ user = INFINITE_TIMEOUT /\ req.cmd \notin {"bond", "short"}

\* (mutant) a negative timeout is not replaced by the default
MutRequiredTimeout(req, user) ==
    IF ToCoordinator(req) /\ req.cmd = "bond" /\ user < INFINITE_TIMEOUT
    THEN BondTimeout
    ELSE IF user >= INFINITE_TIMEOUT /\ user < DefaultTimeout THEN DefaultTimeout
    ELSE user

\* The user's timeout after the checks of the constructor (m_userTimeoutMs).
RequiredTimeout(req, user) ==
    IF ToCoordinator(req) /\ req.cmd = "bond" /\ user < INFINITE_TIMEOUT
    THEN BondTimeout
    ELSE IF user < DefaultTimeout THEN DefaultTimeout ELSE user

\* m_expectedDurationMs before anything is heard: a longer user timeout
\* counts only for requests the coordinator itself answers.
InitialExpected(req, user) ==
    IF ToCoordinator(req) THEN RequiredTimeout(req, user) ELSE DefaultTimeout

\* The objects that can exist, given the response codes of the device.
Objects(ResponseCodes) ==
    [addr : Addresses, cmd : Commands,
     infinite : BOOLEAN, userTimeout : Nat, expected : Nat,
     state : States, finish : BOOLEAN, defaultError : Int, errorCode : Int,
     confirmed : BOOLEAN, responded : BOOLEAN, responseCode : ResponseCodes \cup {TRN_OK}]

Construct(req, user, err) ==
    [addr         |-> req.addr,
     cmd          |-> req.cmd,
     infinite     |-> IsInfinite(req, user),
     userTimeout  |-> RequiredTimeout(req, user),
     expected     |-> InitialExpected(req, user),
     state        |-> "kCreated",
     finish       |-> FALSE,
     defaultError |-> err,
     errorCode    |-> TRN_ERROR_ABORTED,
     confirmed    |-> FALSE,
     responded    |-> FALSE,
     responseCode |-> TRN_OK]

-----------------------------------------------------------------------------
(* processReceivedMessage().                                               *)

Message(Estimates, ResponseCodes) ==
    [kind     : {"request", "confirmation", "response"},
     matches  : BOOLEAN,
     estimate : Estimates,
     code     : ResponseCodes]

\* (mutant) a finished transaction still takes messages
MutAccepts(t, m) == m.kind \in {"confirmation", "response"} /\ m.matches

\* (mutant) an answer to any request is taken
MutAcceptsAny(t, m) == ~t.finish /\ m.kind \in {"confirmation", "response"}

\* A message that is not accepted returns early or throws std::logic_error,
\* which the handler catches: either way the object does not change.
Accepts(t, m) ==
    /\ ~t.finish
    /\ m.kind \in {"confirmation", "response"}
    /\ m.matches

\* (mutant) an estimate shorter than the user's timeout is taken
MutAfterConfirmation(t, m) ==
    [t EXCEPT !.state = IF t.addr = "broadcast" THEN "kConfirmationBroadcast"
                                                ELSE "kConfirmation",
              !.expected = m.estimate,
              !.confirmed = TRUE]

AfterConfirmation(t, m) ==
    [t EXCEPT
        !.state = IF t.addr = "broadcast" THEN "kConfirmationBroadcast"
                                          ELSE "kConfirmation",
        !.expected = IF m.estimate = 0 THEN @
                     ELSE IF m.estimate >= t.userTimeout THEN m.estimate
                     ELSE t.userTimeout,
        !.confirmed = TRUE]

\* A response to a coordinator request, or of an infinite transaction, ends
\* the transaction; any other starts the wait for the network to settle.
Settles(t) == t.state # "kSentCoordinator" /\ ~t.infinite

\* (mutant) the response is recorded, but the state does not show it
MutAfterResponse(t, m) == [t EXCEPT !.responded = TRUE, !.responseCode = m.code]

AfterResponse(t, m) ==
    [t EXCEPT
        !.state = IF Settles(t) /\ m.estimate > 0 THEN "kReceivedResponse"
                                                  ELSE "kProcessed",
        !.expected = IF Settles(t) THEN m.estimate ELSE @,
        !.responded = TRUE,
        !.responseCode = m.code]

ProcessReceivedMessage(t, m) ==
    IF ~Accepts(t, m) THEN t
    ELSE IF m.kind = "confirmation" THEN AfterConfirmation(t, m)
    ELSE AfterResponse(t, m)

-----------------------------------------------------------------------------
(* execute() and abort().                                                  *)

Sent(t) ==
    [t EXCEPT !.state = IF t.addr = "coordinator" THEN "kSentCoordinator"
                                                  ELSE "kSent"]

\* setErrorCode() and m_finish = true: a success takes over the code of the
\* response, which is TRN_OK while there is none.
Finish(t, err) ==
    [t EXCEPT !.errorCode = IF err = TRN_OK THEN t.responseCode ELSE err,
              !.finish = TRUE]

\* (mutant) every wait that expires is a timeout
MutExpiredState(t) ==
    IF t.state \in AwaitingAnswer \cup Settling /\ ~t.infinite THEN "kTimeout"
    ELSE t.state
\* (mutant) a confirmed transaction is not timed out any more
MutExpiredConfirmed(t) ==
    IF t.state \in AwaitingAnswer \ {"kConfirmation"} /\ ~t.infinite THEN "kTimeout"
    ELSE IF t.state \in Settling THEN "kProcessed"
    ELSE t.state

\* The state the evaluation of an expired wait moves to.
ExpiredState(t) ==
    IF t.state \in AwaitingAnswer /\ ~t.infinite THEN "kTimeout"
    ELSE IF t.state \in Settling THEN "kProcessed"
    ELSE t.state

ErrorOfState(t) ==
    CASE t.state = "kProcessed"    -> TRN_OK
      [] t.state = "kTimeout"      -> TRN_ERROR_TIMEOUT
      [] t.state = "kAborted"      -> TRN_ERROR_ABORTED
      [] t.state = "kDefaultError" -> t.defaultError
      [] OTHER                     -> TRN_ERROR_IFACE

\* (mutant) the loop does not know that an abort is final
MutUnfinished == AwaitingAnswer \cup Settling \cup {"kAborted"}

\* The states in which the loop of execute() goes on.
Unfinished == AwaitingAnswer \cup Settling

\* One pass of the loop: the transaction after it, finished or still waiting.
Evaluated(t, expired) ==
    LET next == [t EXCEPT !.state = IF expired THEN ExpiredState(t) ELSE @]
    IN  IF next.state \in Unfinished
        THEN t ELSE Finish(next, ErrorOfState(next))

Aborted(t) == [t EXCEPT !.state = "kAborted"]

\* DpaTransactionResult2::getErrorCode()
GetErrorCode(t) == IF t.errorCode # TRN_OK THEN t.errorCode ELSE t.responseCode

=============================================================================
