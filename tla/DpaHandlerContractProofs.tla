---------------------- MODULE DpaHandlerContractProofs ----------------------
(***************************************************************************)
(* What the handler's users can rely on: every transaction keeps the       *)
(* promise of TransactionContract with the others around it, and a         *)
(* response that was recorded wins.  Both look at one transaction at a     *)
(* time: what a step of the handler does to it.                            *)
(***************************************************************************)
EXTENDS DpaHandlerProofs

-----------------------------------------------------------------------------
(* What one step does to one transaction.                                  *)

\* Where the worker is with the transaction i.
Position(i) == IF running = {i} THEN worker ELSE "elsewhere"

Executing == {"sending", "waiting", "woken"}

\* The object stays as it is.
LeftAlone(i) ==
    /\ tran'[i] = tran[i]
    /\ i \in aborted' <=> i \in aborted
    /\ \/ Position(i)' = Position(i)
       \/ Position(i) = "sending" /\ Position(i)' = "waiting"
       \/ Position(i) \in {"waiting", "woken"} /\ Position(i)' \in {"waiting", "woken"}
       \/ Position(i) \notin Executing /\ Position(i)' \notin Executing
    /\ user'[i] = "returned" => user[i] = "returned" \/ tran[i].finish

\* The worker goes on, or is woken.
Disturbs(i) ==
    /\ Position(i) # "sending"
    /\ Position(i)' = Position(i) \/ (Position(i) = "waiting" /\ Position(i)' = "woken")

IsAborted(i) ==
    /\ tran'[i] = Aborted(tran[i])
    /\ i \in aborted'
    /\ user' = user
    /\ Disturbs(i)

IsSent(i) ==
    /\ Position(i) = "accepted" /\ Position(i)' = "sending"
    /\ tran'[i] = Sent(tran[i])
    /\ UNCHANGED usersVars

IsRefused(i) ==
    /\ Position(i) \in {"accepted", "refused"} /\ Position(i)' = "elsewhere"
    /\ Refusal(i) # TRN_OK
    /\ tran'[i] = Evaluated([tran[i] EXCEPT !.defaultError = Refusal(i), !.expected = 0,
                                            !.state = "kDefaultError"], FALSE)
    /\ UNCHANGED usersVars

IsDecided(i) ==
    /\ Position(i) \in {"waiting", "woken"} /\ Position(i)' = "elsewhere"
    /\ tran'[i] = Evaluated(tran[i], late)
    /\ tran'[i].finish
    /\ UNCHANGED usersVars

IsAnswered(i) ==
    /\ \E d \in receiver :
          d.target = {i} /\ tran'[i] = ProcessReceivedMessage(tran[i], AsMessage(d, i))
    /\ UNCHANGED usersVars
    /\ Disturbs(i)

LEMMA WorkerStepOf ==
    ASSUME TypeOK, NEW i \in Ids, Worker
    PROVE  LeftAlone(i) \/ IsSent(i) \/ IsRefused(i) \/ IsDecided(i)
<1>1. tran \in [Ids -> Transactions] /\ (running = {} <=> worker = "free")
  BY Zenon DEF TypeOK
<1>2. CASE Take
  <2>1. /\ running = {} /\ worker' = "measuring" /\ tran' = tran /\ UNCHANGED usersVars
    BY <1>2, Zenon DEF Take, Queue!Start
  <2> QED
    BY <2>1 DEF LeftAlone, Position, Executing, usersVars
<1>3. CASE Measure
  <2>1. /\ worker = "measuring" /\ worker' \in {"accepted", "refused"}
        /\ running' = running /\ tran' = tran /\ UNCHANGED usersVars
    BY <1>3 DEF Measure, queueVars
  <2> QED
    BY <2>1 DEF LeftAlone, Position, Executing, usersVars
<1>4. ASSUME NEW j \in Ids, ExecuteSend(j)
      PROVE  LeftAlone(i) \/ IsSent(i)
  <2>1. /\ running = {j} /\ running' = {j} /\ worker = "accepted" /\ worker' = "sending"
        /\ tran' = [tran EXCEPT ![j] = Sent(tran[j])] /\ UNCHANGED usersVars
    BY <1>4 DEF ExecuteSend, queueVars
  <2>2. CASE i = j
    BY <1>1, <2>1, <2>2 DEF IsSent, Position
  <2>3. CASE i # j
    BY <1>1, <2>1, <2>3 DEF LeftAlone, Position, usersVars
  <2> QED
    BY <2>2, <2>3
<1>5. ASSUME NEW j \in Ids, ExecuteRefused(j)
      PROVE  LeftAlone(i) \/ IsRefused(i)
  <2>1. /\ running = {j} /\ running' = {} /\ worker \in {"accepted", "refused"}
        /\ Refusal(j) # TRN_OK
        /\ tran' = [tran EXCEPT ![j] =
              Evaluated([tran[j] EXCEPT !.defaultError = Refusal(j), !.expected = 0,
                                        !.state = "kDefaultError"], FALSE)]
        /\ UNCHANGED usersVars
    BY <1>5, Zenon DEF ExecuteRefused, Decide, Queue!End
  <2>2. CASE i = j
    BY <1>1, <2>1, <2>2 DEF IsRefused, Position
  <2>3. CASE i # j
    BY <1>1, <2>1, <2>3 DEF LeftAlone, Position, usersVars
  <2> QED
    BY <2>2, <2>3
<1>6. ASSUME NEW j \in Ids, SendReturns(j)
      PROVE  LeftAlone(i)
  <2>1. /\ running = {j} /\ running' = {j} /\ worker = "sending" /\ worker' = "waiting"
        /\ tran' = tran /\ UNCHANGED usersVars
    BY <1>6, Zenon DEF SendReturns, queueVars
  <2> QED
    BY <2>1 DEF LeftAlone, Position, usersVars
<1>7. ASSUME NEW j \in Ids, Evaluate(j)
      PROVE  LeftAlone(i) \/ IsDecided(i)
  <2>1. /\ running = {j} /\ worker \in {"waiting", "woken"} /\ UNCHANGED usersVars
    BY <1>7 DEF Evaluate
  <2>2. CASE worker' = "waiting" /\ tran' = tran /\ running' = running
    BY <2>1, <2>2 DEF LeftAlone, Position, usersVars
  <2>3. CASE /\ Evaluated(tran[j], late).finish /\ running' = {}
             /\ tran' = [tran EXCEPT ![j] = Evaluated(tran[j], late)]
    <3>1. CASE i = j
      BY <1>1, <2>1, <2>3, <3>1 DEF IsDecided, Position
    <3>2. CASE i # j
      BY <1>1, <2>1, <2>3, <3>2 DEF LeftAlone, Position, usersVars
    <3> QED
      BY <3>1, <3>2
  <2> QED
    BY <1>7, <2>2, <2>3, Zenon DEF Evaluate, Decide, Queue!End, queueVars
<1> QED
  BY <1>2, <1>3, <1>4, <1>5, <1>6, <1>7 DEF Worker

LEMMA StepOf ==
    ASSUME TypeOK, NEW i \in Ids, [Next]_vars
    PROVE  \/ LeftAlone(i) \/ IsAborted(i) \/ IsSent(i) \/ IsRefused(i)
           \/ IsDecided(i) \/ IsAnswered(i)
<1>1. /\ tran \in [Ids -> Transactions]
      /\ user \in [Ids -> {"idle", "submitted", "returned"}]
  BY Zenon DEF TypeOK
<1>2. CASE Worker
  BY <1>2, WorkerStepOf
<1>3. ASSUME NEW j \in Ids, Submit(j)
      PROVE  LeftAlone(i)
  <2>1. /\ user' = [user EXCEPT ![j] = "submitted"] /\ running' = running
        /\ UNCHANGED <<workerVars, tran, aborted>>
    BY <1>3, Zenon DEF Submit, Queue!Accept, queueVars
  <2> QED
    BY <1>1, <2>1 DEF LeftAlone, Position, workerVars
<1>4. ASSUME NEW j \in Ids, GetReturn(j)
      PROVE  LeftAlone(i)
  <2>1. /\ user' = [user EXCEPT ![j] = "returned"] /\ tran[j].finish
        /\ UNCHANGED <<running, worker, tran, aborted>>
    BY <1>4, Zenon DEF GetReturn, queueVars, workerVars
  <2> QED
    BY <1>1, <2>1 DEF LeftAlone, Position
<1>5. ASSUME NEW j \in Ids, Abort(j) \/ DestructorAborts(j)
      PROVE  LeftAlone(i) \/ IsAborted(i)
  <2>1. /\ tran' = [tran EXCEPT ![j] = Aborted(tran[j])] /\ aborted' = aborted \cup {j}
        /\ MutexFree(j) /\ worker' = WokenBy(j) /\ UNCHANGED <<running, user>>
    BY <1>5, Zenon DEF Abort, DestructorAborts, queueVars
  <2>2. CASE i = j
    BY <1>1, <2>1, <2>2 DEF IsAborted, Disturbs, Position, MutexFree, WokenBy
  <2>3. CASE i # j
    BY <1>1, <2>1, <2>3 DEF LeftAlone, Position, WokenBy
  <2> QED
    BY <2>2, <2>3
<1>6. ASSUME NEW j \in Ids, Process(j)
      PROVE  LeftAlone(i) \/ IsAnswered(i)
  <2>1. PICK d \in receiver :
           /\ d.target = {j} /\ MutexFree(j)
           /\ tran' = [tran EXCEPT ![j] = ProcessReceivedMessage(tran[j], AsMessage(d, j))]
           /\ worker' \in {worker, WokenBy(j)}
           /\ UNCHANGED <<running, usersVars>>
    BY <1>6 DEF Process, queueVars
  <2>2. CASE i = j
    <3>1. Disturbs(i)
      BY <2>1, <2>2 DEF Disturbs, Position, MutexFree, WokenBy
    <3>2. tran'[i] = ProcessReceivedMessage(tran[i], AsMessage(d, i))
      BY <1>1, <2>1, <2>2
    <3> QED
      BY <2>1, <2>2, <3>1, <3>2 DEF IsAnswered
  <2>3. CASE i # j
    BY <1>1, <2>1, <2>3 DEF LeftAlone, Position, WokenBy, usersVars
  <2> QED
    BY <2>2, <2>3
<1>7. CASE EarlyMessage \/ \E j \in Ids : Confirm(j) \/ Respond(j)
  <2>1. UNCHANGED <<running, worker, tran, usersVars>>
    BY <1>7, Zenon DEF EarlyMessage, Confirm, Respond, Deliver, queueVars, workerVars
  <2> QED
    BY <2>1 DEF LeftAlone, Position, usersVars
<1>8. CASE \/ DeadlinePasses \/ DestructorLooks \/ DestructorStops \/ DestructorJoins
          \/ Over \/ UNCHANGED vars
  <2>1. UNCHANGED <<running, worker, tran, usersVars>>
    BY <1>8, Zenon DEF DeadlinePasses, DestructorLooks, DestructorStops, DestructorJoins,
                       Over, Queue!Stop, vars, queueVars, workerVars
  <2> QED
    BY <2>1 DEF LeftAlone, Position, usersVars
<1> QED
  BY <1>2, <1>3, <1>4, <1>5, <1>6, <1>7, <1>8 DEF Next, Destructor

-----------------------------------------------------------------------------
(* What the object of a transaction says about what happened.              *)

Supported(i) ==
    /\ tran[i].state \in AwaitingAnswer \cup Settling \cup {"kProcessed", "kAborted"}
    /\ tran[i].state \in {"kReceivedResponse", "kProcessed"} => tran[i].responded
    /\ tran[i].state = "kConfirmationBroadcast"
          => tran[i].confirmed /\ tran[i].addr = "broadcast"
    /\ tran[i].state = "kAborted" => i \in aborted

ObjectInv(i) ==
    /\ ~tran[i].responded => tran[i].responseCode = TRN_OK
    /\ user[i] = "returned" => tran[i].finish
    /\ ~tran[i].finish => tran[i].defaultError = Request[i].err
    /\ Position(i) = "sending" => tran[i].state \in {"kSent", "kSentCoordinator"}
    /\ Position(i) \in {"waiting", "woken"} => Supported(i)

ObjectsInv == \A i \in Ids : ObjectInv(i)

LEMMA ConstructedEffect ==
    ASSUME Init, NEW i \in Ids
    PROVE  /\ tran[i].finish = FALSE
           /\ tran[i].confirmed = FALSE
           /\ tran[i].responded = FALSE
           /\ tran[i].responseCode = TRN_OK
           /\ tran[i].defaultError = Request[i].err
<1>1. tran[i] = Construct(Request[i].req, Request[i].user, Request[i].err)
  BY DEF Init
<1> QED
  BY <1>1 DEF Construct

LEMMA ObjectsInit == Init => ObjectsInv
<1> SUFFICES ASSUME Init, NEW i \in Ids PROVE ObjectInv(i)
  BY Zenon DEF ObjectsInv
<1>1. Position(i) = "elsewhere" /\ user[i] = "idle"
  BY DEF Init, Queue!FInit, Position
<1> QED
  BY <1>1, ConstructedEffect DEF ObjectInv

\* The transaction the worker is with is not decided.
LEMMA NotDecided ==
    ASSUME TypeOK, OnceInv, NEW i \in Ids, Position(i) # "elsewhere"
    PROVE  ~tran[i].finish
  BY DEF Position, OnceInv

LEMMA AbortedEffect ==
    ASSUME TypeOK, NEW i \in Ids, IsAborted(i)
    PROVE  /\ SameRequest(tran[i], tran'[i])
           /\ SameAnswers(tran[i], tran'[i])
           /\ tran'[i].defaultError = tran[i].defaultError
           /\ tran'[i].finish = tran[i].finish
           /\ tran'[i].errorCode = tran[i].errorCode
           /\ tran'[i].state = "kAborted"
<1>1. tran[i] \in Transactions /\ tran'[i] = Aborted(tran[i])
  BY DEF TypeOK, IsAborted
<1> QED
  BY <1>1, Zenon DEF Aborted, Transactions, Objects, SameRequest, SameAnswers

LEMMA SentEffect ==
    ASSUME TypeOK, NEW i \in Ids, IsSent(i)
    PROVE  /\ SameRequest(tran[i], tran'[i])
           /\ SameAnswers(tran[i], tran'[i])
           /\ tran'[i].defaultError = tran[i].defaultError
           /\ tran'[i].finish = tran[i].finish
           /\ tran'[i].state \in {"kSent", "kSentCoordinator"}
<1>1. tran[i] \in Transactions /\ tran'[i] = Sent(tran[i])
  BY DEF TypeOK, IsSent
<1> QED
  BY <1>1, Zenon DEF Sent, Transactions, Objects, SameRequest, SameAnswers

LEMMA RefusalEffect ==
    ASSUME TypeOK, OnceInv, ObjectsInv, NEW i \in Ids, IsRefused(i)
    PROVE  /\ SameRequest(tran[i], tran'[i])
           /\ SameAnswers(tran[i], tran'[i])
           /\ tran'[i].finish = TRUE
           /\ tran'[i].errorCode = Refusal(i)
           /\ Refusal(i) \in {TRN_ERROR_IFACE_QUEUE_FULL, Request[i].err} \ {TRN_OK}
<1> DEFINE t == [tran[i] EXCEPT !.defaultError = Refusal(i), !.expected = 0,
                                !.state = "kDefaultError"]
<1>1. tran[i] \in Transactions /\ tran'[i] = Evaluated(t, FALSE) /\ Refusal(i) # TRN_OK
  BY DEF TypeOK, IsRefused
<1>2. ~tran[i].finish
  BY NotDecided DEF IsRefused
<1>3. Refusal(i) \in {TRN_ERROR_IFACE_QUEUE_FULL, Request[i].err} \ {TRN_OK}
  BY <1>1, <1>2 DEF Refusal, ObjectsInv, ObjectInv
<1>4. Refusal(i) \in Int
  BY <1>3, HandlerAssumption DEF TRN_ERROR_IFACE_QUEUE_FULL
<1>5. t \in Transactions
  BY <1>1, <1>4, Zenon DEF Transactions, Objects, States
<1>6. /\ SameRequest(tran[i], t) /\ SameAnswers(tran[i], t)
      /\ t.defaultError = Refusal(i) /\ t.state = "kDefaultError"
  BY <1>1, Zenon DEF Transactions, Objects, SameRequest, SameAnswers
<1>7. /\ SameRequest(t, tran'[i]) /\ SameAnswers(t, tran'[i])
      /\ tran'[i].finish = TRUE /\ tran'[i].errorCode = Refusal(i)
  <2> HIDE DEF t
  <2> QED
    BY <1>1, <1>5, <1>6, RefusedEffect DEF Transactions
<1> QED
  BY <1>3, <1>6, <1>7, Zenon DEF SameRequest, SameAnswers

LEMMA DecisionEffect ==
    ASSUME TypeOK, OnceInv, ObjectsInv, NEW i \in Ids, IsDecided(i)
    PROVE  /\ SameRequest(tran[i], tran'[i])
           /\ SameAnswers(tran[i], tran'[i])
           /\ tran'[i].finish = TRUE
           /\ Ended(tran[i], tran'[i], late)
<1>1. /\ tran[i] \in Objects(ResponseCodes) /\ late \in BOOLEAN
      /\ tran'[i] = Evaluated(tran[i], late) /\ tran'[i].finish
  BY DEF TypeOK, Transactions, IsDecided
<1>2. ~tran[i].finish
  BY NotDecided DEF IsDecided
<1>3. tran[i].state \in AwaitingAnswer \cup Settling \cup {"kProcessed", "kAborted"}
  BY DEF ObjectsInv, ObjectInv, Supported, IsDecided
<1> QED
  BY <1>1, <1>2, <1>3, EvaluatedEffect

LEMMA AnswerEffect ==
    ASSUME TypeOK, NEW i \in Ids, IsAnswered(i)
    PROVE  \/ tran'[i] = tran[i]
           \/ \E d \in receiver :
                 /\ d.target = {i}
                 /\ d.key = Request[i].key
                 /\ SameRequest(tran[i], tran'[i])
                 /\ tran'[i].defaultError = tran[i].defaultError
                 /\ tran[i].finish = FALSE
                 /\ tran'[i].finish = FALSE
                 /\ \/ d.kind = "confirmation" /\ Confirmed(tran[i], tran'[i])
                    \/ d.kind = "response" /\ Responded(tran[i], tran'[i], d.code)
<1>1. PICK d \in receiver :
         d.target = {i} /\ tran'[i] = ProcessReceivedMessage(tran[i], AsMessage(d, i))
  BY DEF IsAnswered
<1> DEFINE m == AsMessage(d, i)
<1>2. tran[i] \in Objects(ResponseCodes) /\ d \in Deliveries
  BY DEF TypeOK, Transactions
<1>3. m.estimate = 1 /\ m.code = d.code /\ m.kind = d.kind
      /\ (m.matches <=> d.key = Request[i].key)
  BY DEF AsMessage
<1> HIDE DEF m
<1>4. CASE tran'[i] = tran[i]
  BY <1>4
<1>5. CASE tran'[i] # tran[i]
  <2>1. tran'[i] = ProcessReceivedMessage(tran[i], m)
    BY <1>1 DEF m
  <2>2. /\ SameRequest(tran[i], tran'[i])
        /\ tran'[i].defaultError = tran[i].defaultError
        /\ ~tran[i].finish /\ tran'[i].finish = tran[i].finish
        /\ Confirmed(tran[i], tran'[i]) \/ Responded(tran[i], tran'[i], m.code)
    <3>1. m.estimate \in Nat \ {0}
      BY <1>3
    <3> QED
      BY <1>2, <1>5, <2>1, <3>1, ReceivedEffect
  <2>3. Accepts(tran[i], m)
    BY <1>5, <2>1 DEF ProcessReceivedMessage
  <2>4. tran[i].finish = FALSE
    BY <1>2, <2>2, Zenon DEF Objects
  <2>5. CASE d.kind = "confirmation"
    <3>1. tran'[i] = AfterConfirmation(tran[i], m)
      BY <1>3, <2>1, <2>3, <2>5 DEF ProcessReceivedMessage
    <3>2. tran'[i].state \notin {"kReceivedResponse", "kProcessed"}
      BY <1>2, <3>1 DEF AfterConfirmation, Objects
    <3> QED
      BY <1>1, <1>3, <2>2, <2>3, <2>4, <2>5, <3>2 DEF Responded, Accepts
  <2>6. CASE d.kind = "response"
    <3>1. tran'[i] = AfterResponse(tran[i], m)
      BY <1>3, <2>1, <2>3, <2>6 DEF ProcessReceivedMessage
    <3>2. tran'[i].state \notin {"kConfirmationBroadcast", "kConfirmation"}
      BY <1>2, <3>1 DEF AfterResponse, Objects
    <3> QED
      BY <1>1, <1>3, <2>2, <2>3, <2>4, <2>6, <3>2 DEF Confirmed, Accepts
  <2> QED
    BY <1>2, <2>5, <2>6 DEF Deliveries
<1> QED
  BY <1>4, <1>5

LEMMA ObjectsStep ==
    ASSUME TypeOK, OnceInv, ObjectsInv, [Next]_vars
    PROVE  ObjectsInv'
<1> SUFFICES ASSUME NEW i \in Ids PROVE ObjectInv(i)'
  BY Zenon DEF ObjectsInv
<1>1. ObjectInv(i)
  BY DEF ObjectsInv
<1>2. CASE LeftAlone(i)
  BY <1>1, <1>2 DEF LeftAlone, ObjectInv, Supported, AwaitingAnswer, Executing
<1>3. CASE IsAborted(i)
  <2>1. Supported(i)'
    BY <1>3, AbortedEffect DEF IsAborted, Supported
  <2> QED
    BY <1>1, <1>3, <2>1, AbortedEffect DEF IsAborted, Disturbs, ObjectInv, SameAnswers
<1>4. CASE IsSent(i)
  BY <1>1, <1>4, SentEffect DEF IsSent, ObjectInv, SameAnswers, usersVars
<1>5. CASE IsRefused(i)
  BY <1>1, <1>5, RefusalEffect DEF IsRefused, ObjectInv, SameAnswers
<1>6. CASE IsDecided(i)
  BY <1>1, <1>6, DecisionEffect DEF IsDecided, ObjectInv, SameAnswers
<1>7. CASE IsAnswered(i)
  <2>1. CASE tran'[i] = tran[i]
    BY <1>1, <1>7, <2>1 DEF IsAnswered, Disturbs, ObjectInv, Supported, usersVars
  <2>2. CASE tran'[i] # tran[i]
    <3>1. PICK d \in receiver :
             /\ SameRequest(tran[i], tran'[i])
             /\ tran'[i].defaultError = tran[i].defaultError
             /\ tran[i].finish = FALSE /\ tran'[i].finish = FALSE
             /\ Confirmed(tran[i], tran'[i]) \/ Responded(tran[i], tran'[i], d.code)
      BY <1>7, <2>2, AnswerEffect
    <3>2. Supported(i)'
      BY <3>1 DEF Supported, Confirmed, Responded, SameRequest, AwaitingAnswer, Settling
    <3>3. ~tran'[i].responded => tran'[i].responseCode = TRN_OK
      BY <1>1, <3>1 DEF ObjectInv, Confirmed, Responded
    <3> QED
      BY <1>1, <1>7, <3>1, <3>2, <3>3 DEF IsAnswered, Disturbs, ObjectInv, usersVars
  <2> QED
    BY <2>1, <2>2
<1> QED
  BY <1>2, <1>3, <1>4, <1>5, <1>6, <1>7, StepOf

\* What is needed of every transaction is an invariant of the handler.
THEOREM ObjectsAgree == Spec => []ObjectsInv
<1>1. Init => ObjectsInv
  BY ObjectsInit
<1>2. TypeOK /\ OnceInv /\ ObjectsInv /\ [Next]_vars => ObjectsInv'
  BY ObjectsStep
<1> QED
  BY <1>1, <1>2, TypeCorrect, ExecutedOnce, PTL DEF Spec

-----------------------------------------------------------------------------
(* Every transaction keeps its contract.                                   *)

LEMMA ContractStutter ==
    ASSUME NEW i \in Ids, PhaseOf(i)' = PhaseOf(i),
           SameAnswers(tran[i], tran'[i]), SameRequest(tran[i], tran'[i]),
           IF tran[i].finish
           THEN tran'[i].finish /\ tran'[i].errorCode = tran[i].errorCode
           ELSE ~tran'[i].finish,
           i \in aborted' <=> i \in aborted
    PROVE  [Contract(i)!CNext]_(Contract(i)!cvars)
<1>1. Contract(i)!cvars' = Contract(i)!cvars
  BY DEF Contract!cvars, SameAnswers, SameRequest, GetErrorCode
<1>2. UNCHANGED Contract(i)!cvars
  BY <1>1
<1> QED
  BY <1>2

LEMMA ReturnedStays ==
    ASSUME TypeOK, NEW i \in Ids, [Next]_vars, user[i] = "returned"
    PROVE  user'[i] = "returned"
<1>1. user \in [Ids -> {"idle", "submitted", "returned"}]
  BY Zenon DEF TypeOK
<1>2. CASE \E j \in Ids : Submit(j) \/ GetReturn(j)
  BY <1>1, <1>2 DEF Submit, GetReturn
<1>3. CASE \E j \in Ids : Abort(j) \/ Process(j) \/ DestructorAborts(j)
  BY <1>3, Zenon DEF Abort, Process, DestructorAborts, usersVars
<1>4. CASE Worker
  BY <1>4, Zenon DEF Worker, Take, Measure, ExecuteSend, ExecuteRefused, SendReturns,
                     Evaluate, usersVars
<1>5. CASE EarlyMessage \/ \E j \in Ids : Confirm(j) \/ Respond(j)
  BY <1>5, Zenon DEF EarlyMessage, Confirm, Respond, Deliver, usersVars
<1>6. CASE \/ DeadlinePasses \/ DestructorLooks \/ DestructorStops \/ DestructorJoins
          \/ Over \/ UNCHANGED vars
  BY <1>6, Zenon DEF DeadlinePasses, DestructorLooks, DestructorStops, DestructorJoins,
                     Over, vars, usersVars
<1> QED
  BY <1>2, <1>3, <1>4, <1>5, <1>6, Zenon DEF Next, Destructor

LEMMA LeftAloneKeeps ==
    ASSUME TypeOK, OnceInv, ObjectsInv, NEW i \in Ids, [Next]_vars, LeftAlone(i)
    PROVE  [Contract(i)!CNext]_(Contract(i)!cvars)
<1>1. tran'[i] = tran[i] /\ (i \in aborted' <=> i \in aborted)
  BY DEF LeftAlone
<1>2. CASE PhaseOf(i)' = PhaseOf(i)
  BY <1>1, <1>2, ContractStutter DEF SameAnswers, SameRequest
<1>3. CASE user'[i] = "returned" /\ user[i] # "returned"
  <2>1. PhaseOf(i) = "decided" /\ PhaseOf(i)' = "collected"
    BY <1>3 DEF LeftAlone, PhaseOf
  <2>2. Contract(i)!Collect
    BY <1>1, <2>1 DEF Contract!Collect
  <2> QED
    BY <2>2 DEF Contract!CNext
<1>4. CASE user'[i] # "returned" /\ PhaseOf(i)' # PhaseOf(i)
  <2>1. user[i] # "returned"
    BY <1>1, <1>4, ReturnedStays
  <2>2. ~tran[i].finish
    BY <1>1, <1>4, <2>1 DEF PhaseOf
  <2>3. Position(i) = "sending" /\ Position(i)' = "waiting"
    BY <1>1, <1>4, <2>1, <2>2 DEF LeftAlone, PhaseOf, Position, Executing
  <2>4. PhaseOf(i) = "created" /\ PhaseOf(i)' = "running"
    BY <1>1, <1>4, <2>1, <2>2, <2>3 DEF PhaseOf, Position
  <2>5. Contract(i)!Begin
    BY <1>1, <2>4 DEF Contract!Begin
  <2> QED
    BY <2>5 DEF Contract!CNext
<1> QED
  BY <1>1, <1>2, <1>3, <1>4 DEF PhaseOf

LEMMA AbortKeeps ==
    ASSUME TypeOK, OnceInv, ObjectsInv, NEW i \in Ids, IsAborted(i)
    PROVE  [Contract(i)!CNext]_(Contract(i)!cvars)
<1>1. /\ SameAnswers(tran[i], tran'[i]) /\ SameRequest(tran[i], tran'[i])
      /\ tran'[i].finish = tran[i].finish /\ tran'[i].errorCode = tran[i].errorCode
  BY AbortedEffect
<1>2. PhaseOf(i)' = PhaseOf(i)
  BY <1>1 DEF IsAborted, Disturbs, PhaseOf, Position
<1>3. i \in aborted'
  BY DEF IsAborted
<1>4. Contract(i)!AskAbort
  BY <1>1, <1>2, <1>3 DEF Contract!AskAbort, SameAnswers, SameRequest, GetErrorCode
<1> QED
  BY <1>4 DEF Contract!CNext

LEMMA SendKeeps ==
    ASSUME TypeOK, OnceInv, ObjectsInv, NEW i \in Ids, IsSent(i)
    PROVE  [Contract(i)!CNext]_(Contract(i)!cvars)
<1>1. ~tran[i].finish /\ user[i] # "returned"
  BY NotDecided DEF IsSent, ObjectsInv, ObjectInv
<1>2. /\ SameAnswers(tran[i], tran'[i]) /\ SameRequest(tran[i], tran'[i])
      /\ tran'[i].finish = tran[i].finish
  BY SentEffect
<1>3. PhaseOf(i)' = PhaseOf(i)
  BY <1>1, <1>2 DEF IsSent, PhaseOf, Position, usersVars
<1> QED
  BY <1>1, <1>2, <1>3, ContractStutter DEF IsSent, usersVars

\* A decision of the worker is one of the contract.
LEMMA DecideKeeps ==
    ASSUME NEW i \in Ids, NEW v, ~tran[i].finish, user[i] # "returned",
           UNCHANGED usersVars,
           SameAnswers(tran[i], tran'[i]), SameRequest(tran[i], tran'[i]),
           tran'[i].finish = TRUE, GetErrorCode(tran'[i]) = v,
           \/ /\ PhaseOf(i) = "created"
              /\ v \in {TRN_ERROR_IFACE_QUEUE_FULL, Request[i].err} \ {TRN_OK}
           \/ PhaseOf(i) = "running" /\ Contract(i)!Justified(v),
           v \in ResponseCodes \cup ({TRN_ERROR_IFACE_QUEUE_FULL, Request[i].err} \ {TRN_OK})
                   \cup {0, -1, -3}
    PROVE  [Contract(i)!CNext]_(Contract(i)!cvars)
<1>1. PhaseOf(i)' = "decided"
  BY DEF PhaseOf, usersVars
<1>2. Contract(i)!Decide(v)
  BY <1>1 DEF Contract!Decide, SameAnswers, SameRequest, usersVars
<1> QED
  BY <1>2 DEF Contract!CNext

LEMMA RefusalKeeps ==
    ASSUME TypeOK, OnceInv, ObjectsInv, NEW i \in Ids, IsRefused(i)
    PROVE  [Contract(i)!CNext]_(Contract(i)!cvars)
<1>1. ~tran[i].finish /\ user[i] # "returned" /\ UNCHANGED usersVars
  BY NotDecided DEF IsRefused, ObjectsInv, ObjectInv
<1>2. PhaseOf(i) = "created"
  BY <1>1 DEF IsRefused, PhaseOf, Position
<1>3. GetErrorCode(tran'[i]) = Refusal(i)
  BY RefusalEffect DEF GetErrorCode
<1> QED
  BY <1>1, <1>2, <1>3, RefusalEffect, DecideKeeps

LEMMA DecisionKeeps ==
    ASSUME TypeOK, OnceInv, ObjectsInv, NEW i \in Ids, IsDecided(i)
    PROVE  [Contract(i)!CNext]_(Contract(i)!cvars)
<1>1. ~tran[i].finish /\ user[i] # "returned" /\ UNCHANGED usersVars
  BY NotDecided DEF IsDecided, ObjectsInv, ObjectInv
<1>2. PhaseOf(i) = "running"
  BY <1>1 DEF IsDecided, PhaseOf, Position
<1>3. Supported(i) /\ (~tran[i].responded => tran[i].responseCode = TRN_OK)
  BY DEF IsDecided, ObjectsInv, ObjectInv
<1>4. /\ SameAnswers(tran[i], tran'[i]) /\ SameRequest(tran[i], tran'[i])
      /\ tran'[i].finish = TRUE /\ Ended(tran[i], tran'[i], late)
  BY DecisionEffect
<1>5. tran[i].responseCode \in ResponseCodes \cup {0}
  BY DEF TypeOK, Transactions, Objects, TRN_OK
<1> DEFINE v == GetErrorCode(tran'[i])
<1>6. CASE tran'[i].errorCode = tran[i].responseCode
           /\ tran[i].state \in Settling \cup {"kProcessed"}
  <2>1. v = tran[i].responseCode
    BY <1>4, <1>6 DEF GetErrorCode, SameAnswers
  <2>2. \/ tran[i].responded
        \/ ~tran[i].responded /\ tran[i].confirmed /\ tran[i].addr = "broadcast"
    BY <1>3, <1>6 DEF Supported, Settling
  <2>3. Contract(i)!Justified(v)
    BY <1>3, <2>1, <2>2 DEF Contract!Justified, TRN_OK
  <2> HIDE DEF v
  <2> QED
    BY <1>1, <1>2, <1>4, <1>5, <2>1, <2>3, DecideKeeps DEF v
<1>7. CASE tran'[i].errorCode = TRN_ERROR_TIMEOUT /\ ~tran[i].infinite
  <2>1. v = -1
    BY <1>7 DEF GetErrorCode, TRN_ERROR_TIMEOUT, TRN_OK
  <2>2. Contract(i)!Justified(v)
    BY <1>7, <2>1 DEF Contract!Justified
  <2> HIDE DEF v
  <2> QED
    BY <1>1, <1>2, <1>4, <2>1, <2>2, DecideKeeps DEF v
<1>8. CASE tran'[i].errorCode = TRN_ERROR_ABORTED /\ tran[i].state = "kAborted"
  <2>1. v = -3
    BY <1>8 DEF GetErrorCode, TRN_ERROR_ABORTED, TRN_OK
  <2>2. Contract(i)!Justified(v)
    BY <1>3, <1>8, <2>1 DEF Contract!Justified, Supported
  <2> HIDE DEF v
  <2> QED
    BY <1>1, <1>2, <1>4, <2>1, <2>2, DecideKeeps DEF v
<1> QED
  BY <1>4, <1>6, <1>7, <1>8 DEF Ended

LEMMA AnswerKeeps ==
    ASSUME TypeOK, OnceInv, ObjectsInv, NEW i \in Ids, IsAnswered(i)
    PROVE  [Contract(i)!CNext]_(Contract(i)!cvars)
<1>1. tran'[i].finish = tran[i].finish => PhaseOf(i)' = PhaseOf(i)
  BY DEF IsAnswered, Disturbs, PhaseOf, Position, usersVars
<1>2. UNCHANGED usersVars
  BY DEF IsAnswered
<1>3. CASE tran'[i] = tran[i]
  BY <1>1, <1>2, <1>3, ContractStutter DEF SameAnswers, SameRequest, usersVars
<1>4. CASE tran'[i] # tran[i]
  <2>1. PICK d \in receiver :
           /\ SameRequest(tran[i], tran'[i])
           /\ tran[i].finish = FALSE /\ tran'[i].finish = FALSE
           /\ Confirmed(tran[i], tran'[i]) \/ Responded(tran[i], tran'[i], d.code)
    BY <1>4, AnswerEffect
  <2>2. d.code \in ResponseCodes
    BY DEF TypeOK, Deliveries
  <2>3. PhaseOf(i)' = PhaseOf(i) /\ PhaseOf(i) \in {"created", "running"}
    BY <1>1, <2>1 DEF PhaseOf, ObjectsInv, ObjectInv
  <2>4. CASE Confirmed(tran[i], tran'[i])
    <3>1. Contract(i)!HearConfirmation
      BY <1>2, <2>1, <2>3, <2>4
      DEF Contract!HearConfirmation, Contract!Undecided, Confirmed, SameRequest, usersVars
    <3> QED
      BY <3>1 DEF Contract!CNext
  <2>5. CASE Responded(tran[i], tran'[i], d.code)
    <3>1. Contract(i)!HearResponse(d.code)
      BY <1>2, <2>1, <2>3, <2>5
      DEF Contract!HearResponse, Contract!Undecided, Responded, SameRequest, usersVars
    <3> QED
      BY <2>2, <3>1 DEF Contract!CNext
  <2> QED
    BY <2>1, <2>4, <2>5
<1> QED
  BY <1>3, <1>4

\* Each transaction keeps the promise of TransactionContract, with the others
\* in the queue, the messages for them, and the destructor
\* (DpaHandler2.cpp:43-53, 74-80, 117-146 and DpaTransaction2.cpp:163-467).
THEOREM ContractsKept == Spec => KeepsContracts
<1>1. Init => \A i \in Ids : Contract(i)!CInit
  <2> SUFFICES ASSUME Init, NEW i \in Ids PROVE Contract(i)!CInit
    OBVIOUS
  <2>1. PhaseOf(i) = "created" /\ i \notin aborted
    BY ConstructedEffect DEF Init, Queue!FInit, PhaseOf
  <2>2. tran[i].infinite \in BOOLEAN
    BY InitTyped DEF TypeOK, Transactions, Objects
  <2>3. tran[i].finish = FALSE /\ tran[i].confirmed = FALSE /\ tran[i].responded = FALSE
    BY ConstructedEffect, Zenon
  <2>4. (i \in aborted) = FALSE
    BY <2>1
  <2>5. (tran[i].addr = "broadcast") \in BOOLEAN
    OBVIOUS
  <2> QED
    BY <2>1, <2>2, <2>3, <2>4, <2>5, Zenon DEF Contract!CInit
<1>2. TypeOK /\ OnceInv /\ ObjectsInv /\ [Next]_vars
        => [\A i \in Ids : [Contract(i)!CNext]_(Contract(i)!cvars)]_vars
  <2> SUFFICES ASSUME TypeOK, OnceInv, ObjectsInv, [Next]_vars, NEW i \in Ids
               PROVE  [Contract(i)!CNext]_(Contract(i)!cvars)
    OBVIOUS
  <2> QED
    BY StepOf, LeftAloneKeeps, AbortKeeps, SendKeeps, RefusalKeeps, DecisionKeeps,
       AnswerKeeps
<1> QED
  BY <1>1, <1>2, TypeCorrect, ExecutedOnce, ObjectsAgree, PTL DEF Spec, KeepsContracts

-----------------------------------------------------------------------------
(* A response wins.  When no two requests are equal and nothing comes from *)
(* an earlier run, a response is the device's last word to its transaction *)
(* and finds it waiting; from then on it does not await an answer.         *)

DifferentRequests == \A i, j \in Ids : Request[i].key = Request[j].key => i = j

\* A confirmation is on its way only while its response is not.
ConfirmationsInv ==
    \A d \in receiver, i \in Ids :
        d.kind = "confirmation" /\ d.key = Request[i].key => device[i] = "confirmed"

AwaitsNoMore(i) ==
    Position(i) \in {"waiting", "woken"} /\ tran[i].responded
        => tran[i].state \notin AwaitingAnswer

ResponseStands(i) ==
    tran[i].finish /\ tran[i].responded =>
        \/ GetErrorCode(tran[i]) = tran[i].responseCode
        \/ i \in aborted /\ GetErrorCode(tran[i]) = TRN_ERROR_ABORTED

WinsInv ==
    /\ AskedInv
    /\ ConfirmationsInv
    /\ \A i \in Ids : AwaitsNoMore(i) /\ ResponseStands(i)

LEMMA WinsInit == Init => WinsInv
<1> SUFFICES ASSUME Init PROVE WinsInv
  OBVIOUS
<1>1. AskedInv
  BY AnswersInit DEF AnswersInv
<1>2. ConfirmationsInv
  BY DEF Init, ConfirmationsInv
<1>3. \A i \in Ids : AwaitsNoMore(i) /\ ResponseStands(i)
  BY ConstructedEffect DEF AwaitsNoMore, ResponseStands
<1> QED
  BY <1>1, <1>2, <1>3 DEF WinsInv

LEMMA RespondedIsAnswered ==
    ASSUME DifferentRequests, EarlyMessages = 0, TypeOK, AnswersMatch,
           NEW i \in Ids, tran[i].responded
    PROVE  device[i] = "answered"
<1>1. ~(early < EarlyMessages)
  BY DEF TypeOK
<1> QED
  BY <1>1 DEF AnswersMatch, DifferentRequests

\* A response finds its transaction waiting, or ended.
LEMMA RespondedIsRunning ==
    ASSUME DifferentRequests, EarlyMessages = 0, TypeOK, AnswersMatch, AskedInv,
           NEW i \in Ids, tran[i].responded
    PROVE  tran[i].finish \/ Position(i) \in {"waiting", "woken"}
<1>1. device[i] # "silent"
  BY RespondedIsAnswered
<1> QED
  BY <1>1 DEF AskedInv, Position

LEMMA ConfirmationsStep ==
    ASSUME DifferentRequests, TypeOK, OnceInv, AskedInv, ConfirmationsInv, [Next]_vars
    PROVE  ConfirmationsInv'
<1> SUFFICES ASSUME NEW d \in receiver', NEW i \in Ids, d.kind = "confirmation",
                    d.key = Request[i].key
             PROVE  device'[i] = "confirmed"
  BY Zenon DEF ConfirmationsInv
<1>1. device \in [Ids -> {"silent", "asked", "confirmed", "answered"}]
  BY Zenon DEF TypeOK
<1>2. CASE \E j \in Ids : Confirm(j)
  <2>1. PICK j \in Ids : Confirm(j)
    BY <1>2
  <2>2. d.key = Request[j].key /\ device' = [device EXCEPT ![j] = "confirmed"]
    BY <2>1 DEF Confirm, Deliver
  <2>3. i = j
    BY <2>2 DEF DifferentRequests
  <2> QED
    BY <1>1, <2>2, <2>3
<1>3. CASE EarlyMessage \/ \E j \in Ids : Respond(j)
  BY <1>3 DEF EarlyMessage, Respond, Deliver
<1>4. CASE \E j \in Ids : Process(j)
  BY <1>4, Zenon DEF Process
<1>5. CASE \E j \in Ids : SendReturns(j)
  <2>1. PICK j \in Ids : SendReturns(j)
    BY <1>5
  <2>2. /\ running = {j} /\ worker = "sending" /\ receiver' = receiver
        /\ device' = device \/ device' = [device EXCEPT ![j] = "asked"]
    BY <2>1, Zenon DEF SendReturns
  <2>3. device[i] = "confirmed"
    BY <2>2 DEF ConfirmationsInv
  <2>4. device[j] = "silent"
    BY <2>2 DEF OnceInv, AskedInv
  <2> QED
    BY <1>1, <2>2, <2>3, <2>4
<1>6. CASE UNCHANGED outside
  BY <1>6, Zenon DEF outside, ConfirmationsInv
<1> QED
  BY <1>2, <1>3, <1>4, <1>5, <1>6, OutsideUnchanged

LEMMA ResponseStandsStep ==
    ASSUME DifferentRequests, EarlyMessages = 0, TypeOK, OnceInv, ObjectsInv,
           AnswersMatch, WinsInv, [Next]_vars, NEW i \in Ids
    PROVE  AwaitsNoMore(i)' /\ ResponseStands(i)'
<1>1. AwaitsNoMore(i) /\ ResponseStands(i) /\ AskedInv /\ ConfirmationsInv
  BY DEF WinsInv
<1>2. tran[i].responded /\ ~tran[i].finish => Position(i) \in {"waiting", "woken"}
  BY <1>1, RespondedIsRunning
<1>3. Position(i) # "elsewhere" => ~tran[i].finish
  BY NotDecided
<1>4. CASE LeftAlone(i)
  <2>1. Position(i)' \in {"waiting", "woken"} /\ tran[i].responded
          => Position(i) \in {"waiting", "woken"}
    BY <1>2, <1>3, <1>4 DEF LeftAlone, Executing
  <2> QED
    BY <1>1, <1>4, <2>1 DEF LeftAlone, AwaitsNoMore, ResponseStands
<1>5. CASE IsAborted(i)
  <2>1. AwaitsNoMore(i)'
    BY <1>5, AbortedEffect DEF AwaitsNoMore, AwaitingAnswer
  <2>2. ResponseStands(i)'
    BY <1>1, <1>5, AbortedEffect DEF IsAborted, ResponseStands, SameAnswers, GetErrorCode
  <2> QED
    BY <2>1, <2>2
<1>6. CASE IsSent(i)
  <2>1. ~tran'[i].finish /\ Position(i)' = "sending"
    BY <1>3, <1>6, SentEffect DEF IsSent
  <2> QED
    BY <2>1 DEF AwaitsNoMore, ResponseStands
<1>7. CASE IsRefused(i)
  <2>1. ~tran[i].responded
    BY <1>2, <1>3, <1>7 DEF IsRefused
  <2>2. ~tran'[i].responded
    BY <1>7, <2>1, RefusalEffect DEF SameAnswers
  <2> QED
    BY <2>2 DEF AwaitsNoMore, ResponseStands
<1>8. CASE IsDecided(i)
  <2>1. Position(i)' = "elsewhere" /\ aborted' = aborted
    BY <1>8 DEF IsDecided, usersVars
  <2>2. SameAnswers(tran[i], tran'[i]) /\ Ended(tran[i], tran'[i], late)
    BY <1>8, DecisionEffect
  <2>3. /\ tran[i].responded => tran[i].state \notin AwaitingAnswer
        /\ tran[i].state = "kAborted" => i \in aborted
    BY <1>1, <1>8 DEF IsDecided, AwaitsNoMore, ObjectsInv, ObjectInv, Supported
  <2>4. ResponseStands(i)'
    BY <2>1, <2>2, <2>3
    DEF ResponseStands, SameAnswers, Ended, GetErrorCode, TRN_ERROR_ABORTED, TRN_OK
  <2> QED
    BY <2>1, <2>4 DEF AwaitsNoMore
<1>9. CASE IsAnswered(i)
  <2>1. CASE tran'[i] = tran[i]
    BY <1>1, <1>9, <2>1
    DEF IsAnswered, Disturbs, AwaitsNoMore, ResponseStands, usersVars
  <2>2. CASE tran'[i] # tran[i]
    <3>1. PICK d \in receiver :
             /\ d.key = Request[i].key
             /\ tran'[i].finish = FALSE
             /\ \/ d.kind = "confirmation" /\ Confirmed(tran[i], tran'[i])
                \/ d.kind = "response" /\ Responded(tran[i], tran'[i], d.code)
      BY <1>9, <2>2, AnswerEffect
    <3>2. CASE d.kind = "confirmation" /\ Confirmed(tran[i], tran'[i])
      <4>1. device[i] = "confirmed"
        BY <1>1, <3>1, <3>2 DEF ConfirmationsInv
      <4>2. ~tran[i].responded
        BY <4>1, RespondedIsAnswered
      <4> QED
        BY <3>2, <4>2 DEF Confirmed, AwaitsNoMore, ResponseStands
    <3>3. CASE Responded(tran[i], tran'[i], d.code)
      BY <3>1, <3>3 DEF Responded, AwaitsNoMore, ResponseStands, AwaitingAnswer
    <3> QED
      BY <3>1, <3>2, <3>3
  <2> QED
    BY <2>1, <2>2
<1> QED
  BY <1>4, <1>5, <1>6, <1>7, <1>8, <1>9, StepOf

\* When no two requests are equal and nothing is left over from an earlier run
\* of the program, a recorded response decides its transaction, unless it was
\* aborted: no timeout, refusal or message of a neighbour replaces it
\* (DpaHandler2.cpp:43-53 and 117-124, DpaTransaction2.cpp:269-342).
THEOREM ResponseDecides ==
    ASSUME DifferentRequests, EarlyMessages = 0
    PROVE  Spec => []ResponseWins
<1>1. Init => WinsInv
  BY WinsInit
<1>2. TypeOK /\ OnceInv /\ ObjectsInv /\ AnswersMatch /\ WinsInv /\ [Next]_vars => WinsInv'
  <2> SUFFICES ASSUME TypeOK, OnceInv, ObjectsInv, AnswersMatch, WinsInv, [Next]_vars
               PROVE  WinsInv'
    OBVIOUS
  <2>1. AskedInv' /\ ConfirmationsInv'
    BY AskedStep, ConfirmationsStep DEF WinsInv
  <2>2. \A i \in Ids : AwaitsNoMore(i)' /\ ResponseStands(i)'
    BY ResponseStandsStep
  <2> QED
    BY <2>1, <2>2, Zenon DEF WinsInv
<1>3. WinsInv => ResponseWins
  BY Zenon DEF WinsInv, ResponseStands, ResponseWins
<1> QED
  BY <1>1, <1>2, <1>3, TypeCorrect, ExecutedOnce, ObjectsAgree, AnswersFit, PTL DEF Spec

-----------------------------------------------------------------------------
(* Nothing that was handed in is dropped.                                  *)

LEMMA WorkerLets ==
    ASSUME TypeOK, [Next]_vars, NEW i \in Ids, running = {i}, running' # {i}
    PROVE  IsRefused(i) \/ IsDecided(i)
<1>1. CASE Worker
  <2>1. ~Take
    BY DEF Take, Queue!Start
  <2>2. ~Measure /\ \A j \in Ids : ~ExecuteSend(j) /\ ~SendReturns(j)
    BY DEF Measure, ExecuteSend, SendReturns, queueVars
  <2>3. PICK j \in Ids : ExecuteRefused(j) \/ Evaluate(j)
    BY <1>1, <2>1, <2>2 DEF Worker
  <2>4. j = i /\ tran \in [Ids -> Transactions]
    BY <2>3, Zenon DEF ExecuteRefused, Evaluate, TypeOK
  <2>5. running' = {} /\ UNCHANGED usersVars
    BY <2>3, <2>4 DEF ExecuteRefused, Evaluate, Decide, Queue!End, queueVars
  <2>6. CASE ExecuteRefused(i)
    BY <2>4, <2>5, <2>6 DEF ExecuteRefused, Decide, IsRefused, Position
  <2>7. CASE Evaluate(i)
    <3>1. /\ worker \in {"waiting", "woken"}
          /\ Evaluated(tran[i], late).finish
          /\ tran' = [tran EXCEPT ![i] = Evaluated(tran[i], late)]
      BY <2>5, <2>7 DEF Evaluate, Decide, queueVars
    <3> QED
      BY <2>4, <2>5, <3>1 DEF IsDecided, Position
  <2> QED
    BY <2>3, <2>4, <2>6, <2>7
<1>2. CASE UNCHANGED running
  BY <1>2
<1>3. Worker \/ UNCHANGED running
  <2>1. CASE DeadlinePasses \/ EarlyMessage \/ DestructorLooks \/ Over \/ UNCHANGED vars
    BY <2>1, Zenon DEF DeadlinePasses, EarlyMessage, DestructorLooks, Over, Deliver, vars,
                       queueVars
  <2>2. CASE DestructorStops \/ DestructorJoins \/ \E j \in Ids : DestructorAborts(j)
    BY <2>2, Zenon DEF DestructorStops, DestructorJoins, DestructorAborts, Queue!Stop, queueVars
  <2>3. CASE \E j \in Ids : Submit(j) \/ Abort(j) \/ GetReturn(j)
    BY <2>3, Zenon DEF Submit, Abort, GetReturn, Queue!Accept, queueVars
  <2>4. CASE \E j \in Ids : Confirm(j) \/ Respond(j) \/ Process(j)
    BY <2>4, Zenon DEF Confirm, Respond, Process, Deliver, queueVars
  <2> QED
    BY <2>1, <2>2, <2>3, <2>4 DEF Next, Destructor
<1> QED
  BY <1>1, <1>2, <1>3

\* Who is queued stays queued or is taken.
LEMMA QueuedStays ==
    ASSUME TypeOK, [Next]_vars, NEW i \in Ids, NEW k \in 1 .. Len(queue), queue[k] = i
    PROVE  running' = {i} \/ \E l \in 1 .. Len(queue') : queue'[l] = i
<1>1. queue \in Seq(Ids) /\ Len(queue) \in Nat
  BY DEF TypeOK
<1>2. CASE \E j \in Ids : Queue!Accept(j)
  <2>1. PICK j \in Ids : queue' = Append(queue, j)
    BY <1>2 DEF Queue!Accept
  <2>2. Len(queue') = Len(queue) + 1 /\ queue'[k] = i
    BY <1>1, <2>1
  <2> QED
    BY <1>1, <2>2
<1>3. CASE Queue!Start
  <2>1. queue # <<>> /\ running' = {Head(queue)} /\ queue' = Tail(queue)
    BY <1>3 DEF Queue!Start
  <2>2. /\ Head(queue) = queue[1]
        /\ Len(queue') = Len(queue) - 1
        /\ \A l \in 1 .. Len(queue') : queue'[l] = queue[l + 1]
    BY <1>1, <2>1
  <2>3. CASE k = 1
    BY <2>1, <2>2, <2>3
  <2>4. CASE k # 1
    <3>1. k - 1 \in 1 .. Len(queue') /\ (k - 1) + 1 = k
      BY <1>1, <2>2, <2>4
    <3> QED
      BY <2>2, <3>1
  <2> QED
    BY <2>3, <2>4
<1>4. CASE Queue!End \/ Queue!Stop \/ UNCHANGED queueVars
  BY <1>4 DEF Queue!End, Queue!Stop, queueVars
<1> QED
  BY <1>2, <1>3, <1>4, QueueStep

\* Who hands in is queued.
LEMMA SubmittedIsQueued ==
    ASSUME TypeOK, [Next]_vars, NEW i \in Ids, user[i] # "submitted",
           user'[i] = "submitted", ~Request[i].empty
    PROVE  \E l \in 1 .. Len(queue') : queue'[l] = i
<1>1. queue \in Seq(Ids) /\ user \in [Ids -> {"idle", "submitted", "returned"}]
  BY Zenon DEF TypeOK
<1>2. \E j \in Ids : Submit(j)
  <2>2. user' # user
    BY <1>1
  <2>3. CASE DeadlinePasses \/ EarlyMessage \/ DestructorLooks \/ Over \/ UNCHANGED vars
    BY <2>2, <2>3, Zenon DEF DeadlinePasses, EarlyMessage, DestructorLooks, Over, Deliver,
                             vars, usersVars
  <2>4. CASE DestructorStops \/ DestructorJoins \/ \E j \in Ids : DestructorAborts(j)
    BY <2>2, <2>4, Zenon DEF DestructorStops, DestructorJoins, DestructorAborts, usersVars
  <2>5. CASE \E j \in Ids : Abort(j)
    BY <2>2, <2>5, Zenon DEF Abort
  <2>6. CASE \E j \in Ids : GetReturn(j)
    BY <1>1, <2>6 DEF GetReturn
  <2>7. CASE \E j \in Ids : Confirm(j) \/ Respond(j) \/ Process(j)
    BY <2>2, <2>7, Zenon DEF Confirm, Respond, Process, Deliver, usersVars
  <2>8. CASE Take \/ Measure
    BY <2>2, <2>8, Zenon DEF Take, Measure, usersVars
  <2>9. CASE \E j \in Ids : \/ ExecuteSend(j) \/ ExecuteRefused(j) \/ SendReturns(j)
                           \/ Evaluate(j)
    BY <2>2, <2>9, Zenon DEF ExecuteSend, ExecuteRefused, SendReturns, Evaluate, usersVars
  <2> QED
    BY <2>3, <2>4, <2>5, <2>6, <2>7, <2>8, <2>9 DEF Next, Worker, Destructor
<1>3. PICK j \in Ids : Submit(j)
  BY <1>2
<1>4. j = i
  BY <1>1, <1>3 DEF Submit
<1>5. queue' = Append(queue, i)
  BY <1>3, <1>4 DEF Submit, Queue!Accept
<1>6. Len(queue) \in Nat /\ Len(queue') = Len(queue) + 1 /\ queue'[Len(queue) + 1] = i
  BY <1>1, <1>5
<1> QED
  BY <1>6

LEMMA ForgottenStep ==
    ASSUME TypeOK, OnceInv, ObjectsInv, NoneForgotten, [Next]_vars
    PROVE  NoneForgotten'
<1> SUFFICES ASSUME NEW i \in Ids, user'[i] = "submitted", ~Request[i].empty,
                    ~tran'[i].finish
             PROVE  running' = {i} \/ \E k \in 1 .. Len(queue') : queue'[k] = i
  BY Zenon DEF NoneForgotten
<1>1. ~tran[i].finish
  BY FinishStays
<1>2. CASE user[i] # "submitted"
  BY <1>2, SubmittedIsQueued
<1>3. CASE user[i] = "submitted" /\ running = {i}
  <2>1. CASE running' # {i}
    <3>1. tran'[i].finish = TRUE
      BY <1>3, <2>1, WorkerLets, RefusalEffect, DecisionEffect
    <3> QED
      BY <3>1
  <2> QED
    BY <2>1
<1>4. CASE user[i] = "submitted" /\ \E k \in 1 .. Len(queue) : queue[k] = i
  BY <1>4, QueuedStays
<1> QED
  BY <1>1, <1>2, <1>3, <1>4 DEF NoneForgotten

\* A transaction that was handed in is queued or executing until it has its
\* verdict, whatever happens to it or around it (DpaHandler2.cpp:43-53, 152;
\* DpaTransaction2.cpp:212-343): what Served rests on apart from fairness.
THEOREM NothingDropped == Spec => []NoneForgotten
<1>1. Init => NoneForgotten
  <2> SUFFICES ASSUME Init, NEW i \in Ids PROVE user[i] # "submitted"
    BY DEF NoneForgotten
  <2> QED
    BY DEF Init
<1>2. TypeOK /\ OnceInv /\ ObjectsInv /\ NoneForgotten /\ [Next]_vars => NoneForgotten'
  BY ForgottenStep
<1> QED
  BY <1>1, <1>2, TypeCorrect, ExecutedOnce, ObjectsAgree, PTL DEF Spec

=============================================================================
