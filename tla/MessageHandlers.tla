-------------------------- MODULE MessageHandlers ---------------------------
(***************************************************************************)
(* The receiving side of DpaHandler2: ResponseMessageHandler(), called by  *)
(* the channel's thread with raw data, the table of any-message handlers   *)
(* and the asynchronous message handler, each under its mutex, and the     *)
(* result of the pending transaction.                                      *)
(*                                                                         *)
(* A service is a part of the user's program with a function of its own    *)
(* for each kind of message and a thread that registers them.  The         *)
(* functions are the user's: they return, throw, or call the handler back. *)
(* A registration is one critical section and one step; the receiver holds *)
(* the mutexes for longer.  Which transaction is pending, and when it is   *)
(* decided, is the matter of DpaHandler and DpaTransaction: here it is one *)
(* transaction whose request every answer matches.                         *)
(***************************************************************************)
EXTENDS DpaTransactionResult, FiniteSets

CONSTANTS
    Services,       \* users of the handler, each with its serviceId
    Raw,            \* what the channel may deliver
    Verdicts,       \* error codes execute() may decide on
    MaxMessages,    \* bound: messages delivered
    MaxCalls,       \* bound: registrations and their opposites by the services
    MaxMischief     \* bound: functions that throw or call the handler back

ASSUME MessageHandlersAssumption ==
    /\ Raw \subseteq RawMessages
    /\ Verdicts \subseteq ErrorCodes
    /\ {MaxMessages, MaxCalls, MaxMischief} \subseteq Nat

AnyCalls == {"registerAny", "unregisterAny"}
AsyncCalls == {"registerAsync", "unregisterAsync"}
Calls == AnyCalls \cup AsyncCalls

\* The places where the receiver waits for ever: for a mutex of its own thread, or
\* in processAnyMessage() for m_asyncMessageMutex that an exception left locked.
Stuck == {"stuckAny", "stuckAsync", "stuckOnLeft"}

VARIABLES
    at,         \* the receiver: "away", "entering", "any", "entersAsync", "async",
                \* "processing", or Stuck
    raw,        \* the data ResponseMessageHandler() was called with
    msg,        \* receivedMessage
    todo,       \* services whose function the loop of processAnyMessage() owes
    calling,    \* { } or {the service whose function is running}
    messages,   \* messages that may still come
    anyTable,   \* m_anyMessageHandlerMap: the services in it
    asyncFun,   \* m_asyncMessageHandler: { } or {the service}
    asyncLeft,  \* an exception left m_asyncMessageMutex locked
    call,       \* service -> what its thread is calling, or "none"
    calls,      \* calls the services may still make
    mischief,   \* functions that may still misbehave
    result,     \* the result of the pending transaction
    decided     \* its m_finish

receiverVars == <<at, raw, msg, todo, calling, messages>>
tableVars == <<anyTable, asyncFun, asyncLeft>>
serviceVars == <<call, calls>>
resultVars == <<result, decided>>
handlersVars == <<receiverVars, tableVars, serviceVars, mischief, resultVars>>

HandlersInit ==
    /\ at = "away"
    /\ raw = Empty
    /\ msg = Empty
    /\ todo = {}
    /\ calling = {}
    /\ messages = MaxMessages
    /\ anyTable = {}
    /\ asyncFun = {}
    /\ asyncLeft = FALSE
    /\ call = [s \in Services |-> "none"]
    /\ calls = MaxCalls
    /\ mischief = MaxMischief
    /\ result = NewResult
    /\ decided = FALSE

\* The receiver holds m_anyMessageMutex in its loop, m_asyncMessageMutex while it
\* calls, and the latter for ever once an exception has passed its unlock().
AnyHeld == at \in {"any", "stuckAny", "stuckOnLeft"}
AsyncHeld == asyncLeft \/ at \in {"async", "stuckAsync"}

-----------------------------------------------------------------------------
(* ResponseMessageHandler().                                               *)

\* It returns, or an exception leaves it: its local variables end.
Leaves ==
    /\ at' = "away"
    /\ raw' = Empty
    /\ msg' = Empty

\* Without data, or with data that FillFromResponse() refuses, it returns at once.
Receive(d) ==
    /\ at = "away"
    /\ messages > 0
    /\ messages' = messages - 1
    /\ IF d.length = 0 \/ FillRefuses(d)
       THEN UNCHANGED <<at, raw, msg>>
       ELSE /\ at' = "entering"
            /\ raw' = d
            /\ msg' = DataToBuffer(Empty, d)
    /\ UNCHANGED <<todo, calling, tableVars, serviceVars, mischief, resultVars>>

LockAny ==
    /\ at = "entering"
    /\ at' = "any"
    /\ todo' = anyTable
    /\ UNCHANGED <<raw, msg, calling, messages, tableVars, serviceVars, mischief,
                   resultVars>>

CallAny(s) ==
    /\ at = "any"
    /\ calling = {}
    /\ s \in todo
    /\ calling' = {s}
    /\ todo' = todo \ {s}
    /\ UNCHANGED <<at, raw, msg, messages, tableVars, serviceVars, mischief, resultVars>>

\* (mutant) the loop does not advance
MutAnyReturns ==
    /\ at = "any"
    /\ calling # {}
    /\ calling' = {}
    /\ todo' = todo \cup calling
    /\ UNCHANGED <<at, raw, msg, messages, tableVars, serviceVars, mischief, resultVars>>

AnyReturns ==
    /\ at = "any"
    /\ calling # {}
    /\ calling' = {}
    /\ UNCHANGED <<at, raw, msg, todo, messages, tableVars, serviceVars, mischief,
                   resultVars>>

\* (mutant) the flag in the response code is not looked at
MutIsAsynchronous(m) == MessageDirection(m) = "kRequest"

\* Requests, and responses that nobody has asked for.
IsAsynchronous(m) ==
    \/ MessageDirection(m) = "kRequest"
    \/ MessageDirection(m) = "kResponse" /\ HasFlag(m.code)

\* (mutant) the mutex is given back before the last function has returned
MutUnlockAny ==
    /\ at = "any"
    /\ todo = {}
    /\ at' = IF IsAsynchronous(msg) THEN "entersAsync" ELSE "processing"
    /\ UNCHANGED <<raw, msg, todo, calling, messages, tableVars, serviceVars, mischief,
                   resultVars>>

UnlockAny ==
    /\ at = "any"
    /\ todo = {} /\ calling = {}
    /\ at' = IF IsAsynchronous(msg) THEN "entersAsync" ELSE "processing"
    /\ UNCHANGED <<raw, msg, todo, calling, messages, tableVars, serviceVars, mischief,
                   resultVars>>

LockAsync ==
    /\ at = "entersAsync"
    /\ ~AsyncHeld
    /\ IF asyncFun = {} THEN Leaves ELSE at' = "async" /\ UNCHANGED <<raw, msg>>
    /\ calling' = asyncFun
    /\ UNCHANGED <<todo, messages, tableVars, serviceVars, mischief, resultVars>>

AsyncReturns ==
    /\ at = "async"
    /\ Leaves
    /\ calling' = {}
    /\ UNCHANGED <<todo, messages, tableVars, serviceVars, mischief, resultVars>>

\* processReceivedMessage() of the pending transaction: the message is made anew
\* from the data, an undecided transaction puts it into its result, and what is
\* neither a confirmation nor a response is refused with an exception.
Process ==
    /\ at = "processing"
    /\ Leaves
    /\ LET m == Constructed(raw, 0)
           direction == MessageDirection(m)
       IN  result' = CASE ~decided /\ direction = "kConfirmation" -> SetConfirmation(result, m)
                       [] ~decided /\ direction = "kResponse" -> SetResponse(result, m)
                       [] OTHER -> result
    /\ UNCHANGED <<todo, calling, messages, tableVars, serviceVars, mischief, decided>>

-----------------------------------------------------------------------------
(* Functions that do not just return.                                      *)

\* The exception leaves ResponseMessageHandler() and goes to the channel.  The
\* lock_guard of processAnyMessage() gives its mutex back; the unlock() of
\* processAsynchronousMessage() is skipped.
Throws ==
    /\ calling # {}
    /\ at \in {"any", "async"}
    /\ mischief > 0
    /\ mischief' = mischief - 1
    /\ Leaves
    /\ asyncLeft' = (asyncLeft \/ at = "async")
    /\ todo' = {}
    /\ calling' = {}
    /\ UNCHANGED <<messages, anyTable, asyncFun, serviceVars, resultVars>>

\* A function registers or unregisters one of its own kind: it waits for a mutex
\* that its own thread holds.
CallsBackOwn ==
    /\ calling # {}
    /\ at \in {"any", "async"}
    /\ mischief > 0
    /\ mischief' = mischief - 1
    /\ at' = IF at = "any" THEN "stuckAny" ELSE "stuckAsync"
    /\ UNCHANGED <<raw, msg, todo, calling, messages, tableVars, serviceVars, resultVars>>

\* (mutant) unregistration without the mutex
MutChanges(s, op) ==
    /\ op \in {"registerAny"} => ~AnyHeld
    /\ op \in {"registerAsync"} => ~AsyncHeld
    /\ anyTable' = CASE op = "registerAny" -> anyTable \cup {s}
                     [] op = "unregisterAny" -> anyTable \ {s}
                     [] OTHER -> anyTable
    /\ asyncFun' = CASE op = "registerAsync" -> {s}
                     [] op = "unregisterAsync" -> {}
                     [] OTHER -> asyncFun
    /\ UNCHANGED asyncLeft

\* The critical section of a (un)registration.  A second registration for any
\* message is refused with an exception; there is one asynchronous handler for
\* all, which anybody replaces or removes.
Changes(s, op) ==
    /\ op \in {"registerAny", "unregisterAny"} => ~AnyHeld
    /\ op \in {"registerAsync", "unregisterAsync"} => ~AsyncHeld
    /\ anyTable' = CASE op = "registerAny" -> anyTable \cup {s}
                     [] op = "unregisterAny" -> anyTable \ {s}
                     [] OTHER -> anyTable
    /\ asyncFun' = CASE op = "registerAsync" -> {s}
                     [] op = "unregisterAsync" -> {}
                     [] OTHER -> asyncFun
    /\ UNCHANGED asyncLeft

\* A function registers or unregisters one of the other kind.  It goes on after
\* that, unless it needs m_asyncMessageMutex and an exception has left it locked:
\* then it waits for ever, and the loop around it keeps m_anyMessageMutex.
CallsBackOther(s, op) ==
    /\ calling = {s}
    /\ mischief > 0
    /\ mischief' = mischief - 1
    /\ \/ at = "any" /\ op \in AsyncCalls
       \/ at = "async" /\ op \in AnyCalls
    /\ \/ Changes(s, op) /\ UNCHANGED at
       \/ at = "any" /\ AsyncHeld /\ at' = "stuckOnLeft" /\ UNCHANGED tableVars
    /\ UNCHANGED <<raw, msg, todo, calling, messages, serviceVars, resultVars>>

-----------------------------------------------------------------------------
(* Services, and the executor of the transaction.                          *)

BeginCall(s, op) ==
    /\ call[s] = "none"
    /\ calls > 0
    /\ call' = [call EXCEPT ![s] = op]
    /\ calls' = calls - 1
    /\ UNCHANGED <<receiverVars, tableVars, mischief, resultVars>>

\* (mutant) a second registration waits for the end of the first
MutEndCall(s) ==
    /\ call[s] # "none"
    /\ call[s] = "registerAny" => s \notin anyTable
    /\ Changes(s, call[s])
    /\ call' = [call EXCEPT ![s] = "none"]
    /\ UNCHANGED <<receiverVars, calls, mischief, resultVars>>

EndCall(s) ==
    /\ call[s] # "none"
    /\ Changes(s, call[s])
    /\ call' = [call EXCEPT ![s] = "none"]
    /\ UNCHANGED <<receiverVars, calls, mischief, resultVars>>

\* The end of execute(): a success has been confirmed or responded to.
Decide(code) ==
    /\ ~decided
    /\ code = TRN_OK => result.isConfirmed \/ result.isResponded
    /\ decided' = TRUE
    /\ result' = SetErrorCode(result, code)
    /\ UNCHANGED <<receiverVars, tableVars, serviceVars, mischief>>

\* Steps of the receiver inside ResponseMessageHandler().
ReceiverGoesOn ==
    \/ LockAny \/ (\E s \in Services : CallAny(s)) \/ AnyReturns \/ UnlockAny
    \/ LockAsync \/ AsyncReturns \/ Process

OthersStep ==
    \/ Throws \/ CallsBackOwn
    \/ \E s \in Services : (\E op \in Calls : CallsBackOther(s, op) \/ BeginCall(s, op))
                           \/ EndCall(s)
    \/ \E code \in Verdicts : Decide(code)

HandlersNext == ReceiverGoesOn \/ OthersStep \/ \E d \in Raw : Receive(d)

HandlersSpec == HandlersInit /\ [][HandlersNext]_handlersVars

\* The receiver's thread goes on, and a service that waits for a mutex gets it
\* when it is free again and again.  Nothing has to be called, to be received or
\* to be decided.
HandlersFairness ==
    /\ WF_handlersVars(ReceiverGoesOn)
    /\ \A s \in Services : SF_handlersVars(EndCall(s))

-----------------------------------------------------------------------------
(* Properties.                                                             *)

\* Types, and what the receiver's place says about its loop and its calls.
TypeOK ==
    /\ at \in {"away", "entering", "any", "entersAsync", "async", "processing"} \cup Stuck
    /\ raw \in RawMessages
    /\ msg \in DpaMessages
    /\ todo \subseteq Services
    /\ calling \subseteq Services
    /\ messages \in 0 .. MaxMessages
    /\ anyTable \subseteq Services
    /\ asyncFun \subseteq Services
    /\ asyncLeft \in BOOLEAN
    /\ call \in [Services -> Calls \cup {"none"}]
    /\ calls \in 0 .. MaxCalls
    /\ mischief \in 0 .. MaxMischief
    /\ result \in Results
    /\ decided \in BOOLEAN
    /\ at \notin {"any", "async"} \cup Stuck => calling = {}
    /\ ~AnyHeld => todo = {}
    /\ at = "stuckOnLeft" => asyncLeft

\* A function runs only while it is registered: once an unregistration has
\* returned, the service's function neither runs nor is called for the message
\* that is being processed, and may be taken down.
CalledIsRegistered ==
    /\ AnyHeld => calling \cup todo \subseteq anyTable
    /\ at \in {"async", "stuckAsync"} => calling = asyncFun

\* The message is parsed twice: the objects that the asynchronous handler and the
\* transaction make of the data agree with the one it was routed by, and do not
\* contain a length that was never set.
SecondParseAgrees ==
    at # "away" => \A garbage \in {-1, 0, 65} : Constructed(raw, garbage) = msg

\* Only confirmations and answers get into the result: never a request or a
\* response that nobody has asked for, and the response code is that of the
\* response that is stored with it.
ResultFits ==
    /\ result.isConfirmed => MessageDirection(result.confirmation) = "kConfirmation"
    /\ result.isResponded =>
        /\ MessageDirection(result.response) = "kResponse"
        /\ ~HasFlag(result.response.code)
        /\ result.responseCode = result.response.code
    /\ ~result.isResponded => result.responseCode = TRN_OK

\* The text of a decided result is the text of its code: getErrorString() reads
\* one of the two codes, getErrorCode() both.
StringFitsCode ==
    decided => GetErrorString(result) = ErrorText(GetErrorCode(result))

\* A call of a service returns.  A call about any messages is blocked only by a
\* function of that kind that has called back: its own kind, or the other one after
\* an exception has left that one's mutex locked.  A call about the asynchronous
\* handler is blocked only by such an exception, or by an asynchronous handler that
\* has called back its own kind.
BlockedFor(s) ==
    \/ call[s] \in AnyCalls /\ at \in {"stuckAny", "stuckOnLeft"}
    \/ call[s] \in AsyncCalls /\ (at = "stuckAsync" \/ asyncLeft)
CallsReturn == \A s \in Services : call[s] # "none" ~> call[s] = "none" \/ BlockedFor(s)

\* ResponseMessageHandler() returns or throws, past any number of registrations,
\* unless a function in it has called back and waits for ever, or the mutex of the
\* asynchronous handler was left locked and the message needs it.
ReceiverReturns ==
    at = "entering" ~> \/ at = "away" \/ at \in Stuck
                       \/ at = "entersAsync" /\ asyncLeft

\* The part of ResponseMessageHandler() that is still ahead, and within the loop of
\* processAnyMessage() the functions that are still due and the one that is running.
Stage ==
    CASE at = "entering" -> 4
      [] at = "any" -> 3
      [] at = "entersAsync" -> 2
      [] at \in {"async", "processing"} -> 1
      [] OTHER -> 0

Owed == 2 * Cardinality(todo) + Cardinality(calling)

Nearer == Stage' < Stage \/ (Stage' = Stage /\ Owed' \in Nat /\ Owed' < Owed)

\* Every step of the receiver brings it nearer to its return.  What the services and
\* the functions do, register in the middle of the loop, unregister, throw or call
\* back, never gives it more to do for the message it is processing.
ReceiverGetsNearer ==
    [][/\ ReceiverGoesOn => Nearer
       /\ at # "away" => Nearer \/ UNCHANGED <<at, todo, calling>>]_handlersVars

\* Each way to block somebody for ever costs a function that misbehaved: a mutex
\* left locked costs one, a wait for the own thread another one, and a wait inside
\* processAnyMessage() for the mutex that was left costs both.
OnlyMischiefBlocks ==
    /\ at = "stuckOnLeft" => asyncLeft
    /\ (IF asyncLeft THEN 1 ELSE 0) + (IF at \in Stuck THEN 1 ELSE 0) <= MaxMischief - mischief
=============================================================================
