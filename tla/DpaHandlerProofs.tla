--------------------------- MODULE DpaHandlerProofs ---------------------------
(***************************************************************************)
(* Proofs about DpaHandler, for any set of transactions and requests, any  *)
(* length of the queue and any number of answers of an earlier run.        *)
(***************************************************************************)
EXTENDS DpaHandler, DpaTransactionObjectProofs, TLAPS

-----------------------------------------------------------------------------
(* Type correctness, one part of the state at a time.                      *)

QueueTypeOK ==
    /\ queue \in Seq(Ids)
    /\ running \in SUBSET Ids
    /\ stopped \in BOOLEAN

WorkerTypeOK ==
    /\ worker \in {"free", "measuring", "accepted", "refused", "sending", "waiting", "woken"}
    /\ running = {} <=> worker = "free"
    /\ late \in BOOLEAN
    /\ pending \in SUBSET Ids
    /\ running # {} => pending = running

OutsideTypeOK ==
    /\ receiver \in SUBSET Deliveries
    /\ device \in [Ids -> {"silent", "asked", "confirmed", "answered"}]
    /\ early \in 0 .. EarlyMessages

OthersTypeOK ==
    /\ user \in [Ids -> {"idle", "submitted", "returned"}]
    /\ aborted \in SUBSET Ids
    /\ owner \in {"using", "aborting", "stopping", "joining", "gone"}
    /\ victim \in SUBSET Ids

LEMMA TypeOKParts ==
    TypeOK <=> /\ QueueTypeOK
               /\ WorkerTypeOK
               /\ tran \in [Ids -> Transactions]
               /\ OutsideTypeOK
               /\ OthersTypeOK
  BY Zenon DEF TypeOK, QueueTypeOK, WorkerTypeOK, OutsideTypeOK, OthersTypeOK

LEMMA InitTyped == Init => TypeOK
<1> SUFFICES ASSUME Init PROVE TypeOK
  OBVIOUS
<1>1. QueueTypeOK /\ WorkerTypeOK
  <2>1. queue = <<>> /\ running = {} /\ stopped = FALSE
    BY DEF Init, Queue!FInit
  <2>2. QueueTypeOK
    <3>1. <<>> \in Seq(Ids)
      OBVIOUS
    <3> QED
      BY <2>1, <3>1, Zenon DEF QueueTypeOK
  <2>3. worker = "free" /\ late = FALSE /\ pending = {}
    BY DEF Init
  <2>4. WorkerTypeOK
    BY <2>1, <2>3, Zenon DEF WorkerTypeOK
  <2> QED
    BY <2>2, <2>4
<1>2. tran \in [Ids -> Transactions]
  <2>1. ASSUME NEW i \in Ids
        PROVE  Construct(Request[i].req, Request[i].user, Request[i].err) \in Transactions
    <3>1. Request[i].req \in Requests /\ Request[i].user \in Int /\ Request[i].err \in Int
      BY HandlerAssumption
    <3> QED
      BY <3>1, ConstructTyped DEF Transactions
  <2> QED
    BY <2>1, Zenon DEF Init
<1>3. OutsideTypeOK /\ OthersTypeOK
  BY HandlerAssumption DEF Init, OutsideTypeOK, OthersTypeOK
<1> QED
  BY <1>1, <1>2, <1>3, TypeOKParts

\* The queue changes as FifoExecutor says.
LEMMA QueueStep ==
    ASSUME [Next]_vars
    PROVE  \/ \E i \in Ids : Queue!Accept(i)
           \/ Queue!Start
           \/ Queue!End
           \/ Queue!Stop
           \/ UNCHANGED queueVars
<1>1. CASE \E i \in Ids : Submit(i)
  BY <1>1, Zenon DEF Submit
<1>2. CASE Take
  BY <1>2, Zenon DEF Take
<1>3. CASE \E i \in Ids : ExecuteRefused(i) \/ Evaluate(i)
  BY <1>3, Zenon DEF ExecuteRefused, Evaluate, Decide, queueVars
<1>4. CASE DestructorStops
  BY <1>4, Zenon DEF DestructorStops
<1>5. CASE Measure \/ \E i \in Ids : ExecuteSend(i) \/ SendReturns(i)
  BY <1>5, Zenon DEF Measure, ExecuteSend, SendReturns
<1>6. CASE \E i \in Ids : Abort(i) \/ GetReturn(i) \/ Process(i) \/ DestructorAborts(i)
  BY <1>6, Zenon DEF Abort, GetReturn, Process, DestructorAborts
<1>7. CASE EarlyMessage \/ \E i \in Ids : Confirm(i) \/ Respond(i)
  BY <1>7, Zenon DEF EarlyMessage, Confirm, Respond, Deliver
<1>8. CASE DeadlinePasses \/ DestructorLooks \/ DestructorJoins
  BY <1>8, Zenon DEF DeadlinePasses, DestructorLooks, DestructorJoins
<1>9. CASE Over \/ UNCHANGED vars
  BY <1>9, Zenon DEF Over, vars, queueVars
<1> QED
  BY <1>1, <1>2, <1>3, <1>4, <1>5, <1>6, <1>7, <1>8, <1>9, Zenon
  DEF Next, Worker, Destructor

LEMMA QueueStepTyped ==
    ASSUME QueueTypeOK, [Next]_vars
    PROVE  QueueTypeOK'
<1>1. CASE \E i \in Ids : Queue!Accept(i)
  BY <1>1 DEF QueueTypeOK, Queue!Accept
<1>2. CASE Queue!Start
  <2>1. Head(queue) \in Ids /\ Tail(queue) \in Seq(Ids)
    BY <1>2 DEF QueueTypeOK, Queue!Start
  <2> QED
    BY <1>2, <2>1 DEF QueueTypeOK, Queue!Start
<1>3. CASE Queue!End \/ Queue!Stop \/ UNCHANGED queueVars
  BY <1>3 DEF QueueTypeOK, Queue!End, Queue!Stop, queueVars
<1> QED
  BY <1>1, <1>2, <1>3, QueueStep

LEMMA WorkerStepTyped ==
    ASSUME QueueTypeOK, WorkerTypeOK, [Next]_vars
    PROVE  WorkerTypeOK'
<1> USE DEF QueueTypeOK, WorkerTypeOK
<1>1. CASE \E i \in Ids : Submit(i) \/ GetReturn(i)
  BY <1>1 DEF Submit, GetReturn, Queue!Accept, queueVars, workerVars
<1>2. CASE \E i \in Ids : Abort(i) \/ Process(i) \/ DestructorAborts(i)
  BY <1>2 DEF Abort, Process, DestructorAborts, WokenBy, queueVars
<1>3. CASE Take
  <2>1. Head(queue) \in Ids
    BY <1>3 DEF Take, Queue!Start
  <2> QED
    BY <1>3, <2>1 DEF Take, Queue!Start
<1>4. CASE Measure
  BY <1>4 DEF Measure, queueVars
<1>5. CASE \E i \in Ids : ExecuteSend(i) \/ SendReturns(i)
  BY <1>5 DEF ExecuteSend, SendReturns, queueVars
<1>6. CASE \E i \in Ids : ExecuteRefused(i)
  BY <1>6 DEF ExecuteRefused, Decide, Queue!End
<1>7. CASE \E i \in Ids : Evaluate(i)
  BY <1>7 DEF Evaluate, Decide, Queue!End, queueVars
<1>8. CASE DeadlinePasses
  BY <1>8 DEF DeadlinePasses, queueVars
<1>9. CASE EarlyMessage \/ \E i \in Ids : Confirm(i) \/ Respond(i)
  BY <1>9 DEF EarlyMessage, Confirm, Respond, Deliver, queueVars, workerVars
<1>10. CASE DestructorLooks \/ DestructorStops \/ DestructorJoins \/ Over \/ UNCHANGED vars
  BY <1>10 DEF DestructorLooks, DestructorStops, DestructorJoins, Over, Queue!Stop,
               queueVars, workerVars, vars
<1> QED
  BY <1>1, <1>2, <1>3, <1>4, <1>5, <1>6, <1>7, <1>8, <1>9, <1>10
  DEF Next, Worker, Destructor

\* What the receiver brings is a message of the object.
LEMMA MessageTyped ==
    ASSUME NEW d \in Deliveries, NEW i \in Ids
    PROVE  AsMessage(d, i) \in Message({1}, ResponseCodes)
  BY Zenon DEF AsMessage, Message, Deliveries

\* Every step changes at most one object, by one of the methods.
LEMMA ObjectStep ==
    ASSUME receiver \in SUBSET Deliveries, [Next]_vars
    PROVE  \/ UNCHANGED tran
           \/ \E i \in Ids : \E t :
                 /\ tran' = [tran EXCEPT ![i] = t]
                 /\ \/ t = Sent(tran[i])
                    \/ t = Aborted(tran[i])
                    \/ ExecuteRefused(i) /\ t = Evaluated(
                          [tran[i] EXCEPT !.defaultError = Refusal(i), !.expected = 0,
                                          !.state = "kDefaultError"], FALSE)
                    \/ t = Evaluated(tran[i], late)
                    \/ \E d \in receiver :
                          /\ d.target = {i}
                          /\ t = ProcessReceivedMessage(tran[i], AsMessage(d, i))
<1>1. CASE \E i \in Ids : Abort(i) \/ DestructorAborts(i)
  BY <1>1, Zenon DEF Abort, DestructorAborts
<1>2. CASE \E i \in Ids : ExecuteSend(i)
  BY <1>2, Zenon DEF ExecuteSend
<1>3. CASE \E i \in Ids : ExecuteRefused(i)
  BY <1>3, Zenon DEF ExecuteRefused, Decide
<1>4. CASE \E i \in Ids : Evaluate(i)
  BY <1>4, Zenon DEF Evaluate, Decide
<1>5. CASE \E i \in Ids : Process(i)
  BY <1>5, Zenon DEF Process
<1>6. CASE \E i \in Ids : Submit(i) \/ GetReturn(i) \/ SendReturns(i)
  BY <1>6, Zenon DEF Submit, GetReturn, SendReturns
<1>7. CASE EarlyMessage \/ \E i \in Ids : Confirm(i) \/ Respond(i)
  BY <1>7, Zenon DEF EarlyMessage, Confirm, Respond, Deliver
<1>8. CASE Take \/ Measure \/ DeadlinePasses
  BY <1>8, Zenon DEF Take, Measure, DeadlinePasses
<1>9. CASE DestructorLooks \/ DestructorStops \/ DestructorJoins \/ Over \/ UNCHANGED vars
  BY <1>9, Zenon DEF DestructorLooks, DestructorStops, DestructorJoins, Over, vars
<1> QED
  BY <1>1, <1>2, <1>3, <1>4, <1>5, <1>6, <1>7, <1>8, <1>9, Zenon
  DEF Next, Worker, Destructor

LEMMA ObjectStepTyped ==
    ASSUME tran \in [Ids -> Transactions], late \in BOOLEAN,
           receiver \in SUBSET Deliveries, [Next]_vars
    PROVE  tran' \in [Ids -> Transactions]
<1>1. ResponseCodes \subseteq Nat
  BY HandlerAssumption
<1>2. CASE UNCHANGED tran
  BY <1>2
<1>3. ASSUME NEW i \in Ids, NEW t, tran' = [tran EXCEPT ![i] = t], t \in Transactions
      PROVE  tran' \in [Ids -> Transactions]
  BY <1>3
<1>4. ASSUME NEW i \in Ids
      PROVE  /\ Sent(tran[i]) \in Transactions
             /\ Aborted(tran[i]) \in Transactions
             /\ Evaluated(tran[i], late) \in Transactions
  <2>1. tran[i] \in Objects(ResponseCodes)
    BY DEF Transactions
  <2> QED
    BY <1>1, <2>1, SentTyped, AbortedTyped, EvaluatedTyped DEF Transactions
<1>5. ASSUME NEW i \in Ids
      PROVE  Evaluated([tran[i] EXCEPT !.defaultError = Refusal(i), !.expected = 0,
                                       !.state = "kDefaultError"], FALSE) \in Transactions
  <2>1. Refusal(i) \in Int
    BY DEF Refusal, Transactions, Objects, TRN_ERROR_IFACE_QUEUE_FULL
  <2>2. [tran[i] EXCEPT !.defaultError = Refusal(i), !.expected = 0,
                        !.state = "kDefaultError"] \in Objects(ResponseCodes)
    BY <2>1 DEF Transactions, Objects, States
  <2> QED
    BY <1>1, <2>2, EvaluatedTyped DEF Transactions
<1>6. ASSUME NEW i \in Ids, NEW d \in receiver
      PROVE  ProcessReceivedMessage(tran[i], AsMessage(d, i)) \in Transactions
  <2>1. AsMessage(d, i) \in Message({1}, ResponseCodes)
    BY MessageTyped
  <2>2. tran[i] \in Objects(ResponseCodes)
    BY DEF Transactions
  <2>3. {1} \subseteq Nat \ {0}
    OBVIOUS
  <2> QED
    BY <1>1, <2>1, <2>2, <2>3, ReceivedTyped DEF Transactions
<1> QED
  BY <1>2, <1>3, <1>4, <1>5, <1>6, ObjectStep

\* Who changes what is outside the handler.
LEMMA OutsideUnchanged ==
    ASSUME [Next]_vars
    PROVE  \/ \E i \in Ids : Confirm(i) \/ Respond(i)
           \/ EarlyMessage
           \/ \E i \in Ids : Process(i)
           \/ \E i \in Ids : SendReturns(i)
           \/ UNCHANGED outside
<1>1. CASE \E i \in Ids : Submit(i) \/ Abort(i) \/ GetReturn(i)
  BY <1>1, Zenon DEF Submit, Abort, GetReturn
<1>2. CASE \E i \in Ids : ExecuteSend(i) \/ ExecuteRefused(i) \/ Evaluate(i)
  BY <1>2, Zenon DEF ExecuteSend, ExecuteRefused, Evaluate
<1>3. CASE Take \/ Measure \/ DeadlinePasses
  BY <1>3, Zenon DEF Take, Measure, DeadlinePasses
<1>4. CASE \/ \E i \in Ids : DestructorAborts(i)
          \/ DestructorLooks \/ DestructorStops \/ DestructorJoins
  BY <1>4, Zenon DEF DestructorAborts, DestructorLooks, DestructorStops, DestructorJoins
<1>5. CASE Over \/ UNCHANGED vars
  BY <1>5, Zenon DEF Over, vars, outside
<1> QED
  BY <1>1, <1>2, <1>3, <1>4, <1>5, Zenon DEF Next, Worker, Destructor

LEMMA OutsideStepTyped ==
    ASSUME OutsideTypeOK, pending \in SUBSET Ids, [Next]_vars
    PROVE  OutsideTypeOK'
<1> USE DEF OutsideTypeOK
<1>1. ASSUME NEW kind \in {"confirmation", "response"}, NEW key \in Keys, Deliver(kind, key)
      PROVE  receiver' \in SUBSET Deliveries
  BY <1>1 DEF Deliver, Deliveries
<1>2. CASE \E i \in Ids : Confirm(i) \/ Respond(i)
  <2>1. PICK i \in Ids : Confirm(i) \/ Respond(i)
    BY <1>2
  <2>2. Request[i].key \in Keys
    BY HandlerAssumption
  <2>3. receiver' \in SUBSET Deliveries
    BY <1>1, <2>1, <2>2 DEF Confirm, Respond
  <2>4. device' \in [Ids -> {"silent", "asked", "confirmed", "answered"}] /\ UNCHANGED early
    BY <2>1 DEF Confirm, Respond
  <2> QED
    BY <2>3, <2>4
<1>3. CASE EarlyMessage
  <2>1. receiver' \in SUBSET Deliveries
    BY <1>1, <1>3 DEF EarlyMessage
  <2>2. early' \in 0 .. EarlyMessages /\ UNCHANGED device
    BY <1>3, HandlerAssumption DEF EarlyMessage
  <2> QED
    BY <2>1, <2>2
<1>4. CASE \E i \in Ids : Process(i)
  BY <1>4, Zenon DEF Process
<1>5. CASE \E i \in Ids : SendReturns(i)
  BY <1>5 DEF SendReturns
<1>6. CASE UNCHANGED outside
  BY <1>6, Zenon DEF outside
<1> QED
  BY <1>2, <1>3, <1>4, <1>5, <1>6, OutsideUnchanged

LEMMA OthersStepTyped ==
    ASSUME OthersTypeOK, pending \in SUBSET Ids, [Next]_vars
    PROVE  OthersTypeOK'
<1> USE DEF OthersTypeOK
<1>1. CASE \E i \in Ids : Submit(i) \/ GetReturn(i)
  BY <1>1 DEF Submit, GetReturn, ownerVars
<1>2. CASE \E i \in Ids : Abort(i) \/ DestructorAborts(i)
  BY <1>2 DEF Abort, DestructorAborts, ownerVars
<1>3. CASE \E i \in Ids : SendReturns(i)
  BY <1>3 DEF SendReturns, usersVars, ownerVars
<1>4. CASE DestructorLooks \/ DestructorStops \/ DestructorJoins
  BY <1>4 DEF DestructorLooks, DestructorStops, DestructorJoins, usersVars
<1>5. CASE \E i \in Ids : ExecuteSend(i) \/ ExecuteRefused(i) \/ Evaluate(i) \/ Process(i)
  BY <1>5, Zenon DEF ExecuteSend, ExecuteRefused, Evaluate, Process, usersVars, ownerVars
<1>6. CASE EarlyMessage \/ \E i \in Ids : Confirm(i) \/ Respond(i)
  BY <1>6, Zenon DEF EarlyMessage, Confirm, Respond, Deliver, usersVars, ownerVars
<1>7. CASE Take \/ Measure \/ DeadlinePasses \/ Over \/ UNCHANGED vars
  BY <1>7, Zenon DEF Take, Measure, DeadlinePasses, Over, usersVars, ownerVars, vars
<1> QED
  BY <1>1, <1>2, <1>3, <1>4, <1>5, <1>6, <1>7, Zenon DEF Next, Worker, Destructor

\* TypeOK is an invariant of the handler; with it, the worker processes what is
\* pending and nothing else (DpaHandler2.cpp:43-53).
THEOREM TypeCorrect == Spec => []TypeOK
<1>1. Init => TypeOK
  BY InitTyped
<1>2. TypeOK /\ [Next]_vars => TypeOK'
  <2> SUFFICES ASSUME TypeOK, [Next]_vars PROVE TypeOK'
    OBVIOUS
  <2>1. /\ QueueTypeOK
        /\ WorkerTypeOK
        /\ tran \in [Ids -> Transactions]
        /\ OutsideTypeOK
        /\ OthersTypeOK
    BY TypeOKParts
  <2>2. QueueTypeOK' /\ WorkerTypeOK'
    BY <2>1, QueueStepTyped, WorkerStepTyped
  <2>3. (tran \in [Ids -> Transactions])'
    BY <2>1, ObjectStepTyped DEF WorkerTypeOK, OutsideTypeOK
  <2>4. OutsideTypeOK' /\ OthersTypeOK'
    BY <2>1, OutsideStepTyped, OthersStepTyped DEF WorkerTypeOK
  <2> QED
    BY <2>2, <2>3, <2>4, Zenon
    DEF TypeOK, QueueTypeOK, WorkerTypeOK, OutsideTypeOK, OthersTypeOK
<1> QED
  BY <1>1, <1>2, PTL DEF Spec

-----------------------------------------------------------------------------
(* Every transaction is executed at most once, and only a transaction that *)
(* is executing or has ended has asked the device.                         *)

OnceInv ==
    /\ \A k \in 1 .. Len(queue) :
          user[queue[k]] # "idle" /\ ~tran[queue[k]].finish /\ queue[k] \notin running
    /\ \A k, l \in 1 .. Len(queue) : queue[k] = queue[l] => k = l
    /\ \A i \in running : running = {i} /\ user[i] # "idle" /\ ~tran[i].finish
    /\ \A i \in Ids : tran[i].finish => user[i] # "idle"

AskedInv ==
    \A j \in Ids : device[j] # "silent" =>
        tran[j].finish \/ (running = {j} /\ worker \in {"waiting", "woken"})

\* Somebody has asked for what the receiver brings to the transaction i.
Backed(i, key) ==
    \/ early < EarlyMessages
    \/ \E j \in Ids :
          /\ Request[j].key = key
          /\ device[j] = "answered"
          /\ j = i \/ tran[j].finish

ReceivedInv ==
    \A d \in receiver, i \in Ids :
        d.target = {i} /\ d.kind = "response" => Backed(i, d.key)

AnswersInv == OnceInv /\ AskedInv /\ ReceivedInv /\ AnswersMatch

LEMMA AnswersInit == Init => AnswersInv
<1> SUFFICES ASSUME Init PROVE AnswersInv
  OBVIOUS
<1>1. /\ queue = <<>> /\ running = {} /\ receiver = {}
      /\ \A i \in Ids : device[i] = "silent"
      /\ \A i \in Ids : tran[i].finish = FALSE /\ tran[i].responded = FALSE
  BY DEF Init, Queue!FInit, Construct
<1>2. OnceInv
  BY <1>1 DEF OnceInv
<1>3. AskedInv /\ ReceivedInv /\ AnswersMatch
  BY <1>1, Zenon DEF AskedInv, ReceivedInv, AnswersMatch
<1> QED
  BY <1>2, <1>3 DEF AnswersInv

\* The methods that do not end a transaction, and those that do.
LEMMA GoesOn ==
    ASSUME NEW t \in Transactions, NEW m \in Message({1}, ResponseCodes)
    PROVE  /\ Sent(t).finish = t.finish
           /\ Sent(t).responded = t.responded
           /\ Aborted(t).finish = t.finish
           /\ Aborted(t).responded = t.responded
           /\ ProcessReceivedMessage(t, m).finish = t.finish
           /\ ProcessReceivedMessage(t, m).responded
                 => t.responded \/ (m.matches /\ m.kind = "response")
<1>1. /\ Sent(t).finish = t.finish
      /\ Sent(t).responded = t.responded
      /\ Aborted(t).finish = t.finish
      /\ Aborted(t).responded = t.responded
  BY Zenon DEF Sent, Aborted, Transactions, Objects
<1>2. /\ AfterConfirmation(t, m).finish = t.finish
      /\ AfterConfirmation(t, m).responded = t.responded
      /\ AfterResponse(t, m).finish = t.finish
  BY Zenon DEF AfterConfirmation, AfterResponse, Transactions, Objects
<1>3. /\ ProcessReceivedMessage(t, m).finish = t.finish
      /\ ProcessReceivedMessage(t, m).responded
            => t.responded \/ (m.matches /\ m.kind = "response")
  BY <1>2 DEF ProcessReceivedMessage, Accepts
<1> QED
  BY <1>1, <1>3

LEMMA Ends ==
    ASSUME NEW t \in Transactions, NEW expired \in BOOLEAN
    PROVE  /\ Evaluated(t, expired).responded = t.responded
           /\ Evaluated(t, expired).finish = t.finish \/ Evaluated(t, expired).finish = TRUE
           /\ t.state = "kDefaultError" => Evaluated(t, expired).finish = TRUE
<1> DEFINE next == [t EXCEPT !.state = IF expired THEN ExpiredState(t) ELSE @]
<1>1. /\ next.responded = t.responded
      /\ next \in [addr : Addresses, cmd : Commands,
           infinite : BOOLEAN, userTimeout : Nat, expected : Nat,
           state : {next.state}, finish : BOOLEAN, defaultError : Int, errorCode : Int,
           confirmed : BOOLEAN, responded : BOOLEAN,
           responseCode : ResponseCodes \cup {TRN_OK}]
  BY DEF Transactions, Objects
<1>2. /\ Finish(next, ErrorOfState(next)).finish = TRUE
      /\ Finish(next, ErrorOfState(next)).responded = t.responded
  BY <1>1, Zenon DEF Finish
<1>3. t.state = "kDefaultError" => next.state \notin Unfinished
  BY DEF ExpiredState, Unfinished, AwaitingAnswer, Settling, Transactions, Objects
<1>4. Evaluated(t, expired) = IF next.state \in Unfinished
                              THEN t ELSE Finish(next, ErrorOfState(next))
  BY Zenon DEF Evaluated
<1> HIDE DEF next
<1> QED
  BY <1>2, <1>3, <1>4

\* Only the transaction that is executing ends, and the worker with it.
FinishKept(j) ==
    \/ tran'[j].finish = tran[j].finish
    \/ running = {j} /\ running' = {} /\ tran'[j].finish

LEMMA FinishStep ==
    ASSUME TypeOK, [Next]_vars, NEW j \in Ids
    PROVE  FinishKept(j)
<1>1. /\ tran \in [Ids -> Transactions] /\ late \in BOOLEAN
      /\ receiver \in SUBSET Deliveries
  BY Zenon DEF TypeOK
<1>2. CASE \E i \in Ids : Abort(i) \/ DestructorAborts(i) \/ ExecuteSend(i) \/ Process(i)
  <2>1. PICK i \in Ids : Abort(i) \/ DestructorAborts(i) \/ ExecuteSend(i) \/ Process(i)
    BY <1>2
  <2>2. PICK t : /\ tran' = [tran EXCEPT ![i] = t]
                 /\ \/ t = Aborted(tran[i])
                    \/ t = Sent(tran[i])
                    \/ \E d \in receiver : t = ProcessReceivedMessage(tran[i], AsMessage(d, i))
    BY <2>1, Zenon DEF Abort, DestructorAborts, ExecuteSend, Process
  <2>3. t.finish = tran[i].finish
    <3>1. CASE t = Aborted(tran[i]) \/ t = Sent(tran[i])
      BY <1>1, <3>1, Zenon DEF Aborted, Sent, Transactions, Objects
    <3>2. CASE \E d \in receiver : t = ProcessReceivedMessage(tran[i], AsMessage(d, i))
      <4>1. PICK d \in receiver : t = ProcessReceivedMessage(tran[i], AsMessage(d, i))
        BY <3>2
      <4>2. AsMessage(d, i) \in Message({1}, ResponseCodes)
        BY <1>1, <4>1, MessageTyped
      <4> QED
        BY <1>1, <4>1, <4>2, GoesOn
    <3> QED
      BY <2>2, <3>1, <3>2
  <2> QED
    BY <1>1, <2>2, <2>3 DEF FinishKept
<1>3. CASE \E i \in Ids : ExecuteRefused(i)
  <2>1. PICK i \in Ids : ExecuteRefused(i)
    BY <1>3
  <2> DEFINE t == [tran[i] EXCEPT !.defaultError = Refusal(i), !.expected = 0,
                                  !.state = "kDefaultError"]
  <2>2. Refusal(i) \in Int
    BY <1>1 DEF Refusal, Transactions, Objects, TRN_ERROR_IFACE_QUEUE_FULL
  <2>3. t \in Transactions /\ t.state = "kDefaultError"
    BY <1>1, <2>2 DEF Transactions, Objects, States
  <2>4. Evaluated(t, FALSE).finish = TRUE
    BY <2>3, Ends
  <2>5. /\ running = {i} /\ running' = {}
        /\ tran' = [tran EXCEPT ![i] = Evaluated(t, FALSE)]
    BY <2>1, Zenon DEF ExecuteRefused, Decide, Queue!End
  <2> HIDE DEF t
  <2> QED
    BY <1>1, <2>4, <2>5 DEF FinishKept
<1>4. CASE \E i \in Ids : Evaluate(i)
  <2>1. PICK i \in Ids : Evaluate(i)
    BY <1>4
  <2>2. CASE /\ running = {i} /\ running' = {}
             /\ Evaluated(tran[i], late).finish
             /\ tran' = [tran EXCEPT ![i] = Evaluated(tran[i], late)]
    BY <1>1, <2>2 DEF FinishKept
  <2>3. CASE UNCHANGED tran
    BY <2>3 DEF FinishKept
  <2> QED
    BY <2>1, <2>2, <2>3, Zenon DEF Evaluate, Decide, Queue!End
<1>5. CASE UNCHANGED tran
  BY <1>5 DEF FinishKept
<1>6. \/ \E i \in Ids : Abort(i) \/ DestructorAborts(i) \/ ExecuteSend(i) \/ Process(i)
      \/ \E i \in Ids : ExecuteRefused(i)
      \/ \E i \in Ids : Evaluate(i)
      \/ UNCHANGED tran
  <2>1. CASE \E i \in Ids : Submit(i) \/ GetReturn(i) \/ SendReturns(i)
    BY <2>1, Zenon DEF Submit, GetReturn, SendReturns
  <2>2. CASE EarlyMessage \/ \E i \in Ids : Confirm(i) \/ Respond(i)
    BY <2>2, Zenon DEF EarlyMessage, Confirm, Respond, Deliver
  <2>3. CASE Take \/ Measure \/ DeadlinePasses
    BY <2>3, Zenon DEF Take, Measure, DeadlinePasses
  <2>4. CASE DestructorLooks \/ DestructorStops \/ DestructorJoins \/ Over \/ UNCHANGED vars
    BY <2>4, Zenon DEF DestructorLooks, DestructorStops, DestructorJoins, Over, vars
  <2> QED
    BY <2>1, <2>2, <2>3, <2>4, Zenon DEF Next, Worker, Destructor
<1> QED
  BY <1>2, <1>3, <1>4, <1>5, <1>6

\* A response is recorded only by the receiver, and only if it matches.
LEMMA RespondedStep ==
    ASSUME TypeOK, [Next]_vars, NEW j \in Ids, tran'[j].responded, ~tran[j].responded
    PROVE  \E d \in receiver :
              d.target = {j} /\ d.kind = "response" /\ d.key = Request[j].key
<1>1. /\ tran \in [Ids -> Transactions] /\ late \in BOOLEAN
      /\ receiver \in SUBSET Deliveries
  BY Zenon DEF TypeOK
<1>2. PICK t : /\ tran' = [tran EXCEPT ![j] = t]
               /\ \/ t = Sent(tran[j])
                  \/ t = Aborted(tran[j])
                  \/ t = Evaluated([tran[j] EXCEPT !.defaultError = Refusal(j),
                                      !.expected = 0, !.state = "kDefaultError"], FALSE)
                  \/ t = Evaluated(tran[j], late)
                  \/ \E d \in receiver :
                        d.target = {j} /\ t = ProcessReceivedMessage(tran[j], AsMessage(d, j))
  <2>1. PICK i \in Ids : \E t :
               /\ tran' = [tran EXCEPT ![i] = t]
               /\ \/ t = Sent(tran[i])
                  \/ t = Aborted(tran[i])
                  \/ t = Evaluated([tran[i] EXCEPT !.defaultError = Refusal(i),
                                      !.expected = 0, !.state = "kDefaultError"], FALSE)
                  \/ t = Evaluated(tran[i], late)
                  \/ \E d \in receiver :
                        d.target = {i} /\ t = ProcessReceivedMessage(tran[i], AsMessage(d, i))
    BY <1>1, ObjectStep, Zenon
  <2>2. i = j
    <3>1. PICK t : tran' = [tran EXCEPT ![i] = t]
      BY <2>1
    <3> QED
      BY <1>1, <3>1
  <2> QED
    BY <2>1, <2>2, Zenon
<1>3. t.responded /\ ~tran[j].responded /\ tran[j] \in Transactions
  BY <1>1, <1>2
<1>4. ~Sent(tran[j]).responded /\ ~Aborted(tran[j]).responded
  BY <1>3, Zenon DEF Sent, Aborted, Transactions, Objects
<1>5. ~Evaluated(tran[j], late).responded
  BY <1>1, <1>3, Ends
<1>6. ~Evaluated([tran[j] EXCEPT !.defaultError = Refusal(j),
                    !.expected = 0, !.state = "kDefaultError"], FALSE).responded
  <2> DEFINE u == [tran[j] EXCEPT !.defaultError = Refusal(j), !.expected = 0,
                                  !.state = "kDefaultError"]
  <2>1. Refusal(j) \in Int
    BY <1>3 DEF Refusal, Transactions, Objects, TRN_ERROR_IFACE_QUEUE_FULL
  <2>2. u \in Transactions /\ u.responded = tran[j].responded
    BY <1>3, <2>1 DEF Transactions, Objects, States
  <2>3. Evaluated(u, FALSE).responded = u.responded
    BY <2>2, Ends
  <2> QED
    BY <1>3, <2>2, <2>3
<1>7. PICK d \in receiver :
         d.target = {j} /\ t = ProcessReceivedMessage(tran[j], AsMessage(d, j))
  BY <1>2, <1>3, <1>4, <1>5, <1>6, Zenon
<1>8. AsMessage(d, j) \in Message({1}, ResponseCodes)
  BY <1>1, <1>7, MessageTyped
<1>9. AsMessage(d, j).matches /\ AsMessage(d, j).kind = "response"
  BY <1>3, <1>7, <1>8, GoesOn
<1> QED
  BY <1>7, <1>9, Zenon DEF AsMessage

LEMMA UserStep ==
    ASSUME TypeOK, [Next]_vars, NEW j \in Ids, user[j] # "idle"
    PROVE  user'[j] # "idle"
<1>1. user \in [Ids -> {"idle", "submitted", "returned"}]
  BY Zenon DEF TypeOK
<1>2. CASE \E i \in Ids : Submit(i) \/ GetReturn(i)
  BY <1>1, <1>2 DEF Submit, GetReturn
<1>3. CASE \E i \in Ids : Abort(i) \/ Process(i) \/ DestructorAborts(i) \/ SendReturns(i)
  BY <1>3, Zenon DEF Abort, Process, DestructorAborts, SendReturns, usersVars
<1>4. CASE \E i \in Ids : ExecuteSend(i) \/ ExecuteRefused(i) \/ Evaluate(i)
  BY <1>4, Zenon DEF ExecuteSend, ExecuteRefused, Evaluate, usersVars
<1>5. CASE EarlyMessage \/ \E i \in Ids : Confirm(i) \/ Respond(i)
  BY <1>5, Zenon DEF EarlyMessage, Confirm, Respond, Deliver, usersVars
<1>6. CASE Take \/ Measure \/ DeadlinePasses
  BY <1>6, Zenon DEF Take, Measure, DeadlinePasses, usersVars
<1>7. CASE DestructorLooks \/ DestructorStops \/ DestructorJoins \/ Over \/ UNCHANGED vars
  BY <1>7, Zenon DEF DestructorLooks, DestructorStops, DestructorJoins, Over, vars, usersVars
<1> QED
  BY <1>2, <1>3, <1>4, <1>5, <1>6, <1>7, Zenon DEF Next, Worker, Destructor

\* A step that only ends what is executing, or does not touch the queue at all.
LEMMA OnceKept ==
    ASSUME TypeOK, OnceInv, [Next]_vars, queue' = queue, running' \in {running, {}}
    PROVE  OnceInv'
<1>1. queue \in Seq(Ids) /\ running \in SUBSET Ids
  BY Zenon DEF TypeOK
<1>2. \A k \in 1 .. Len(queue) : queue[k] \in Ids
  BY <1>1
<1>3. \A j \in Ids : FinishKept(j)
  BY FinishStep
<1>4. \A j \in Ids : user[j] # "idle" => user'[j] # "idle"
  BY UserStep
<1>5. ASSUME NEW k \in 1 .. Len(queue)
      PROVE  user'[queue[k]] # "idle" /\ ~tran'[queue[k]].finish /\ queue[k] \notin running'
  <2>1. user[queue[k]] # "idle" /\ ~tran[queue[k]].finish /\ queue[k] \notin running
    BY DEF OnceInv
  <2>2. queue[k] \in Ids
    BY <1>2
  <2> QED
    BY <1>3, <1>4, <2>1, <2>2 DEF FinishKept
<1>6. ASSUME NEW i \in running'
      PROVE  running' = {i} /\ user'[i] # "idle" /\ ~tran'[i].finish
  BY <1>1, <1>3, <1>4 DEF OnceInv, FinishKept
<1>7. ASSUME NEW i \in Ids, tran'[i].finish
      PROVE  user'[i] # "idle"
  <2>1. CASE tran[i].finish
    BY <1>4, <2>1 DEF OnceInv
  <2>2. CASE ~tran[i].finish
    <3>1. i \in running
      BY <1>3, <1>7, <2>2 DEF FinishKept
    <3> QED
      BY <1>4, <3>1 DEF OnceInv
  <2> QED
    BY <2>1, <2>2
<1>8. \A k, l \in 1 .. Len(queue) : queue[k] = queue[l] => k = l
  BY DEF OnceInv
<1> QED
  BY <1>5, <1>6, <1>7, <1>8, Zenon DEF OnceInv

LEMMA OnceSubmit ==
    ASSUME TypeOK, OnceInv, NEW i \in Ids, Submit(i), Queue!Accept(i)
    PROVE  OnceInv'
<1>1. /\ queue \in Seq(Ids) /\ running \in SUBSET Ids
      /\ user \in [Ids -> {"idle", "submitted", "returned"}]
  BY Zenon DEF TypeOK
<1>2. /\ queue' = Append(queue, i) /\ running' = running /\ tran' = tran
      /\ user[i] = "idle" /\ user' = [user EXCEPT ![i] = "submitted"]
  BY Zenon DEF Submit, Queue!Accept
<1>3. i \notin running /\ ~tran[i].finish
  BY <1>2 DEF OnceInv
<1>4. \A k \in 1 .. Len(queue) : queue[k] # i
  BY <1>2 DEF OnceInv
<1>5. /\ Len(queue') = Len(queue) + 1
      /\ \A k \in 1 .. Len(queue) : queue'[k] = queue[k]
      /\ queue'[Len(queue) + 1] = i
      /\ Len(queue) \in Nat
      /\ \A k \in 1 .. Len(queue) : queue[k] \in Ids
  BY <1>1, <1>2
<1>6. \A j \in Ids : user[j] # "idle" => user'[j] # "idle"
  BY <1>1, <1>2
<1>7. \A k \in 1 .. Len(queue') :
        user'[queue'[k]] # "idle" /\ ~tran'[queue'[k]].finish /\ queue'[k] \notin running'
  <2> TAKE k \in 1 .. Len(queue')
  <2>1. CASE k = Len(queue) + 1
    BY <1>1, <1>2, <1>3, <1>5, <2>1
  <2>2. CASE k \in 1 .. Len(queue)
    BY <1>2, <1>5, <1>6, <2>2 DEF OnceInv
  <2> QED
    BY <1>5, <2>1, <2>2
<1>8. \A k, l \in 1 .. Len(queue') : queue'[k] = queue'[l] => k = l
  BY <1>4, <1>5 DEF OnceInv
<1>9. \A j \in running' : running' = {j} /\ user'[j] # "idle" /\ ~tran'[j].finish
  BY <1>1, <1>2, <1>6 DEF OnceInv
<1>10. \A j \in Ids : tran'[j].finish => user'[j] # "idle"
  BY <1>2, <1>6 DEF OnceInv
<1> QED
  BY <1>7, <1>8, <1>9, <1>10, Zenon DEF OnceInv

LEMMA OnceTake ==
    ASSUME TypeOK, OnceInv, Take
    PROVE  OnceInv'
<1>1. queue \in Seq(Ids)
  BY Zenon DEF TypeOK
<1>2. /\ queue # <<>> /\ running' = {Head(queue)} /\ queue' = Tail(queue)
      /\ tran' = tran /\ user' = user
  BY Zenon DEF Take, Queue!Start, usersVars
<1>3. /\ Len(queue) \in Nat \ {0}
      /\ Head(queue) = queue[1]
      /\ Len(queue') = Len(queue) - 1
      /\ \A k \in 1 .. Len(queue') : queue'[k] = queue[k + 1]
  BY <1>1, <1>2
<1>4. \A k \in 1 .. Len(queue') : k + 1 \in 1 .. Len(queue)
  BY <1>3
<1>5. \A k \in 1 .. Len(queue') :
        user'[queue'[k]] # "idle" /\ ~tran'[queue'[k]].finish /\ queue'[k] \notin running'
  <2> TAKE k \in 1 .. Len(queue')
  <2>1. user[queue[k + 1]] # "idle" /\ ~tran[queue[k + 1]].finish
    BY <1>4 DEF OnceInv
  <2>2. queue[k + 1] # queue[1]
    BY <1>3, <1>4 DEF OnceInv
  <2> QED
    BY <1>2, <1>3, <2>1, <2>2
<1>6. \A k, l \in 1 .. Len(queue') : queue'[k] = queue'[l] => k = l
  BY <1>3, <1>4 DEF OnceInv
<1>7. \A j \in running' : running' = {j} /\ user'[j] # "idle" /\ ~tran'[j].finish
  BY <1>2, <1>3 DEF OnceInv
<1>8. \A j \in Ids : tran'[j].finish => user'[j] # "idle"
  BY <1>2 DEF OnceInv
<1> QED
  BY <1>5, <1>6, <1>7, <1>8, Zenon DEF OnceInv

LEMMA OnceStep ==
    ASSUME TypeOK, OnceInv, [Next]_vars
    PROVE  OnceInv'
<1>1. CASE \E i \in Ids : Submit(i) /\ Queue!Accept(i)
  BY <1>1, OnceSubmit
<1>2. CASE Take
  BY <1>2, OnceTake
<1>3. CASE queue' = queue /\ running' \in {running, {}}
  BY <1>3, OnceKept
<1>4. \/ \E i \in Ids : Submit(i) /\ Queue!Accept(i)
      \/ Take
      \/ queue' = queue /\ running' \in {running, {}}
  <2>1. CASE \E i \in Ids : Submit(i)
    BY <2>1, Zenon DEF Submit, queueVars
  <2>2. CASE \E i \in Ids : ExecuteRefused(i) \/ Evaluate(i)
    BY <2>2, Zenon DEF ExecuteRefused, Evaluate, Decide, Queue!End, queueVars
  <2>3. CASE DestructorStops
    BY <2>3, Zenon DEF DestructorStops, Queue!Stop
  <2>4. CASE Measure \/ \E i \in Ids : ExecuteSend(i) \/ SendReturns(i)
    BY <2>4, Zenon DEF Measure, ExecuteSend, SendReturns, queueVars
  <2>5. CASE \E i \in Ids : Abort(i) \/ GetReturn(i) \/ Process(i) \/ DestructorAborts(i)
    BY <2>5, Zenon DEF Abort, GetReturn, Process, DestructorAborts, queueVars
  <2>6. CASE EarlyMessage \/ \E i \in Ids : Confirm(i) \/ Respond(i)
    BY <2>6, Zenon DEF EarlyMessage, Confirm, Respond, Deliver, queueVars
  <2>7. CASE DeadlinePasses \/ DestructorLooks \/ DestructorJoins
    BY <2>7, Zenon DEF DeadlinePasses, DestructorLooks, DestructorJoins, queueVars
  <2>8. CASE Over \/ UNCHANGED vars
    BY <2>8, Zenon DEF Over, vars, queueVars
  <2> QED
    BY <2>1, <2>2, <2>3, <2>4, <2>5, <2>6, <2>7, <2>8, Zenon DEF Next, Worker, Destructor
<1> QED
  BY <1>1, <1>2, <1>3, <1>4

LEMMA FinishStays ==
    ASSUME TypeOK, [Next]_vars, NEW j \in Ids, tran[j].finish
    PROVE  tran'[j].finish
  BY FinishStep DEF FinishKept

\* A request is sent once, so what the device has done about it is not undone.
LEMMA DeviceStep ==
    ASSUME TypeOK, OnceInv, AskedInv, [Next]_vars, NEW j \in Ids
    PROVE  /\ device[j] = "answered" => device'[j] = "answered"
           /\ device'[j] # "silent" => \/ device[j] # "silent"
                                       \/ running' = {j} /\ worker' = "waiting"
<1>1. device \in [Ids -> {"silent", "asked", "confirmed", "answered"}]
  BY Zenon DEF TypeOK
<1>2. CASE \E i \in Ids : Confirm(i) \/ Respond(i)
  BY <1>1, <1>2 DEF Confirm, Respond
<1>3. CASE \E i \in Ids : SendReturns(i)
  <2>1. PICK i \in Ids : SendReturns(i)
    BY <1>3
  <2>2. running = {i} /\ worker = "sending" /\ worker' = "waiting" /\ running' = running
    BY <2>1, Zenon DEF SendReturns, queueVars
  <2>3. device[i] = "silent"
    BY <2>2 DEF OnceInv, AskedInv
  <2>4. device' = device \/ device' = [device EXCEPT ![i] = "asked"]
    BY <2>1, Zenon DEF SendReturns
  <2> QED
    BY <1>1, <2>2, <2>3, <2>4
<1>4. CASE EarlyMessage \/ \E i \in Ids : Process(i)
  BY <1>4, Zenon DEF EarlyMessage, Process
<1>5. CASE UNCHANGED outside
  BY <1>5, Zenon DEF outside
<1> QED
  BY <1>2, <1>3, <1>4, <1>5, OutsideUnchanged

\* While a transaction waits, it goes on waiting or ends.
LEMMA WaitStep ==
    ASSUME TypeOK, [Next]_vars, NEW j \in Ids, running = {j}, worker \in {"waiting", "woken"}
    PROVE  tran'[j].finish \/ (running' = {j} /\ worker' \in {"waiting", "woken"})
<1>1. tran \in [Ids -> Transactions]
  BY Zenon DEF TypeOK
<1>2. CASE \E i \in Ids : Evaluate(i)
  <2>1. PICK i \in Ids : Evaluate(i)
    BY <1>2
  <2>2. i = j
    BY <2>1 DEF Evaluate
  <2>3. CASE /\ Evaluated(tran[i], late).finish
             /\ tran' = [tran EXCEPT ![i] = Evaluated(tran[i], late)]
    BY <1>1, <2>2, <2>3
  <2>4. CASE running' = running /\ worker' = "waiting"
    BY <2>4
  <2> QED
    BY <2>1, <2>3, <2>4, Zenon DEF Evaluate, Decide, queueVars
<1>3. CASE \E i \in Ids : Abort(i) \/ Process(i) \/ DestructorAborts(i)
  BY <1>3 DEF Abort, Process, DestructorAborts, WokenBy, queueVars
<1>4. CASE \E i \in Ids : Submit(i) \/ GetReturn(i)
  BY <1>4, Zenon DEF Submit, GetReturn, Queue!Accept, queueVars, workerVars
<1>5. CASE \E i \in Ids : Confirm(i) \/ Respond(i)
  BY <1>5, Zenon DEF Confirm, Respond, Deliver, queueVars, workerVars
<1>6. CASE EarlyMessage \/ DeadlinePasses
  BY <1>6, Zenon DEF EarlyMessage, Deliver, DeadlinePasses, queueVars, workerVars
<1>7. CASE DestructorLooks \/ DestructorStops \/ DestructorJoins \/ Over \/ UNCHANGED vars
  BY <1>7, Zenon DEF DestructorLooks, DestructorStops, DestructorJoins, Over, Queue!Stop,
                     queueVars, workerVars, vars
<1>8. ~Take /\ ~Measure
  BY DEF Take, Measure, Queue!Start
<1>9. ASSUME NEW i \in Ids
      PROVE  ~ExecuteSend(i) /\ ~ExecuteRefused(i) /\ ~SendReturns(i)
  BY DEF ExecuteSend, ExecuteRefused, SendReturns
<1> QED
  BY <1>2, <1>3, <1>4, <1>5, <1>6, <1>7, <1>8, <1>9, Zenon DEF Next, Worker, Destructor

LEMMA AskedStep ==
    ASSUME TypeOK, OnceInv, AskedInv, [Next]_vars
    PROVE  AskedInv'
<1> SUFFICES ASSUME NEW j \in Ids, device'[j] # "silent"
             PROVE  tran'[j].finish \/ (running' = {j} /\ worker' \in {"waiting", "woken"})
  BY Zenon DEF AskedInv
<1>1. CASE device[j] = "silent"
  BY <1>1, DeviceStep
<1>2. CASE device[j] # "silent" /\ tran[j].finish
  BY <1>2, FinishStays
<1>3. CASE device[j] # "silent" /\ ~tran[j].finish
  BY <1>3, WaitStep DEF AskedInv
<1> QED
  BY <1>1, <1>2, <1>3

LEMMA BackedKept ==
    ASSUME TypeOK, OnceInv, AskedInv, [Next]_vars, NEW i \in Ids, NEW key, Backed(i, key)
    PROVE  Backed(i, key)'
<1>1. CASE early < EarlyMessages
  <2>1. early \in Nat
    BY HandlerAssumption DEF TypeOK
  <2>2. early' \in {early, early - 1}
    <3>1. CASE EarlyMessage
      BY <3>1 DEF EarlyMessage
    <3>2. CASE \E k \in Ids : Confirm(k) \/ Respond(k) \/ Process(k) \/ SendReturns(k)
      BY <3>2, Zenon DEF Confirm, Respond, Process, SendReturns
    <3>3. CASE UNCHANGED outside
      BY <3>3, Zenon DEF outside
    <3> QED
      BY <3>1, <3>2, <3>3, OutsideUnchanged
  <2> QED
    BY <1>1, <2>1, <2>2, HandlerAssumption DEF Backed
<1>2. ASSUME NEW j \in Ids, Request[j].key = key, device[j] = "answered",
             j = i \/ tran[j].finish
      PROVE  Backed(i, key)'
  BY <1>2, DeviceStep, FinishStays DEF Backed
<1> QED
  BY <1>1, <1>2, Zenon DEF Backed

LEMMA ReceivedStep ==
    ASSUME TypeOK, OnceInv, AskedInv, ReceivedInv, [Next]_vars
    PROVE  ReceivedInv'
<1> SUFFICES ASSUME NEW d \in receiver', NEW i \in Ids, d.target = {i}, d.kind = "response"
             PROVE  Backed(i, d.key)'
  BY Zenon DEF ReceivedInv
<1>1. CASE d \in receiver
  BY <1>1, BackedKept DEF ReceivedInv
<1>2. CASE \E j \in Ids : Respond(j)
  <2>1. PICK j \in Ids : Respond(j)
    BY <1>2
  <2>2. d.target = pending /\ d.key = Request[j].key
    BY <2>1 DEF Respond, Deliver
  <2>3. device[j] # "silent" /\ device' = [device EXCEPT ![j] = "answered"]
    BY <2>1 DEF Respond
  <2>4. device'[j] = "answered"
    BY <2>3 DEF TypeOK
  <2>5. tran[j].finish \/ running = {j}
    BY <2>3 DEF AskedInv
  <2>6. tran[j].finish \/ j = i
    <3>1. running # {} => pending = running
      BY Zenon DEF TypeOK
    <3> QED
      BY <2>2, <2>5, <3>1
  <2>7. tran'[j].finish \/ j = i
    BY <2>6, FinishStays
  <2> QED
    BY <2>2, <2>4, <2>7, Zenon DEF Backed
<1>3. CASE \E j \in Ids : Confirm(j)
  BY <1>3 DEF Confirm, Deliver
<1>4. CASE EarlyMessage
  <2>1. early' < EarlyMessages
    BY <1>4, HandlerAssumption DEF EarlyMessage, TypeOK
  <2> QED
    BY <2>1 DEF Backed
<1>5. CASE \E j \in Ids : Process(j)
  BY <1>5, Zenon DEF Process
<1>6. CASE (\E j \in Ids : SendReturns(j)) \/ UNCHANGED outside
  BY <1>1, <1>6, Zenon DEF SendReturns, outside
<1> QED
  BY <1>2, <1>3, <1>4, <1>5, <1>6, OutsideUnchanged

\* A response is recorded only where the device has answered an equal request
\* (DpaHandler2.cpp:117-124, DpaTransaction2.cpp:346-378).
THEOREM AnswersFit == Spec => []AnswersMatch
<1>1. Init => AnswersInv
  BY AnswersInit
<1>2. TypeOK /\ AnswersInv /\ [Next]_vars => AnswersInv'
  <2> SUFFICES ASSUME TypeOK, AnswersInv, [Next]_vars PROVE AnswersInv'
    OBVIOUS
  <2>1. OnceInv /\ AskedInv /\ ReceivedInv
    BY DEF AnswersInv
  <2>2. OnceInv'
    BY <2>1, OnceStep
  <2>3. AskedInv'
    BY <2>1, AskedStep
  <2>4. ReceivedInv'
    BY <2>1, ReceivedStep
  <2>5. ASSUME NEW i \in Ids, tran'[i].responded
        PROVE  Backed(i, Request[i].key)'
    <3>1. Backed(i, Request[i].key)
      <4>1. CASE tran[i].responded
        BY <4>1 DEF AnswersInv, AnswersMatch, Backed
      <4>2. CASE ~tran[i].responded
        BY <2>1, <2>5, <4>2, RespondedStep DEF ReceivedInv
      <4> QED
        BY <4>1, <4>2
    <3> QED
      BY <2>1, <3>1, BackedKept
  <2>6. AnswersMatch'
    BY <2>5, Zenon DEF AnswersMatch, Backed
  <2> QED
    BY <2>2, <2>3, <2>4, <2>6, Zenon DEF AnswersInv
<1>3. AnswersInv => AnswersMatch
  BY DEF AnswersInv
<1> QED
  BY <1>1, <1>2, <1>3, TypeCorrect, PTL DEF Spec

\* The worker executes each transaction at most once (TaskQueue.h:127-134,
\* DpaHandler2.cpp:43-53): what was executed is decided, and never queued again.
THEOREM ExecutedOnce == Spec => []OnceInv
<1>1. Init => OnceInv
  BY AnswersInit DEF AnswersInv
<1>2. TypeOK /\ OnceInv /\ [Next]_vars => OnceInv'
  BY OnceStep
<1> QED
  BY <1>1, <1>2, TypeCorrect, PTL DEF Spec

-----------------------------------------------------------------------------
(* The queue is the FifoExecutor that TaskQueue implements.                *)

\* Whatever else the handler's threads do, they use the queue as FifoExecutor
\* allows: transactions are executed one at a time in the order in which they
\* were handed in, and none is taken after stopQueue() (DpaHandler2.cpp:43-53,
\* 82-83, 152).
THEOREM QueueIsFifo == Spec => Queue!FSafeSpec
<1>1. Init => Queue!FInit
  BY Zenon DEF Init
<1>2. [Next]_vars => [Queue!FNext]_(Queue!fvars)
  BY QueueStep, Zenon DEF Queue!FNext, Queue!fvars, queueVars
<1> QED
  BY <1>1, <1>2, PTL DEF Spec, Queue!FSafeSpec

-----------------------------------------------------------------------------
(* The null pointer.                                                       *)

LEMMA PendingStep ==
    ASSUME [Next]_vars, pending # {}
    PROVE  pending' # {}
<1>1. CASE Take
  BY <1>1 DEF Take, Queue!Start
<1>2. CASE Measure \/ DeadlinePasses \/ EarlyMessage \/ DestructorLooks
  BY <1>2, Zenon DEF Measure, DeadlinePasses, EarlyMessage, DestructorLooks, Deliver
<1>3. CASE DestructorStops \/ DestructorJoins \/ Over \/ UNCHANGED vars
  BY <1>3, Zenon DEF DestructorStops, DestructorJoins, Over, vars
<1>4. CASE \E i \in Ids : Submit(i) \/ Abort(i) \/ GetReturn(i) \/ DestructorAborts(i)
  BY <1>4, Zenon DEF Submit, Abort, GetReturn, DestructorAborts
<1>5. CASE \E i \in Ids : \/ ExecuteSend(i) \/ ExecuteRefused(i) \/ SendReturns(i)
                         \/ Evaluate(i)
  BY <1>5, Zenon DEF ExecuteSend, ExecuteRefused, SendReturns, Evaluate
<1>6. CASE \E i \in Ids : Confirm(i) \/ Respond(i) \/ Process(i)
  BY <1>6, Zenon DEF Confirm, Respond, Process, Deliver
<1> QED
  BY <1>1, <1>2, <1>3, <1>4, <1>5, <1>6 DEF Next, Worker, Destructor

\* A device that was asked was asked by a transaction that was published.
PendingInv ==
    /\ \A i \in Ids : device[i] # "silent" => pending # {}
    /\ NullOnlyEarly

LEMMA PendingInductive ==
    ASSUME TypeOK, TypeOK', OnceInv, AskedInv, PendingInv, [Next]_vars
    PROVE  PendingInv'
<1>1. ASSUME NEW i \in Ids, device'[i] # "silent"
      PROVE  pending' # {}
  <2>1. CASE device[i] # "silent"
    BY <2>1, PendingStep DEF PendingInv
  <2>2. CASE device[i] = "silent"
    <3>1. running' = {i}
      BY <1>1, <2>2, DeviceStep
    <3> QED
      BY <3>1, Zenon DEF TypeOK
  <2> QED
    BY <2>1, <2>2
<1>2. early \in 0 .. EarlyMessages
  BY Zenon DEF TypeOK
<1>3. NullOnlyEarly'
  <2>1. CASE EarlyMessage
    <3>1. early > 0 /\ early' = early - 1
      BY <2>1 DEF EarlyMessage
    <3>2. early' < EarlyMessages
      BY <1>2, <3>1, HandlerAssumption
    <3> QED
      BY <3>2 DEF NullOnlyEarly
  <2>2. CASE \E i \in Ids : Confirm(i) \/ Respond(i)
    <3>1. PICK i \in Ids : Confirm(i) \/ Respond(i)
      BY <2>2
    <3>2. device[i] # "silent"
      BY <3>1 DEF Confirm, Respond
    <3>3. pending # {}
      BY <3>2 DEF PendingInv
    <3>4. \A d \in receiver' : d.target = pending
      BY <3>1 DEF Confirm, Respond, Deliver
    <3> QED
      BY <3>3, <3>4 DEF NullOnlyEarly
  <2>3. CASE \E i \in Ids : Process(i)
    <3>1. receiver' = {}
      BY <2>3, Zenon DEF Process
    <3> QED
      BY <3>1 DEF NullOnlyEarly
  <2>4. CASE (\E i \in Ids : SendReturns(i)) \/ UNCHANGED outside
    <3>1. receiver' = receiver /\ early' = early
      BY <2>4, Zenon DEF SendReturns, outside
    <3> QED
      BY <3>1 DEF PendingInv, NullOnlyEarly
  <2> QED
    BY <2>1, <2>2, <2>3, <2>4, OutsideUnchanged
<1> QED
  BY <1>1, <1>3 DEF PendingInv

\* Only answers to an earlier run of the program can meet a null
\* m_pendingTransaction (DpaHandler2.cpp:119).
THEOREM AnswersFindTransaction == Spec => []NullOnlyEarly
<1>1. Init => PendingInv
  BY DEF Init, PendingInv, NullOnlyEarly
<1>2. Init => AnswersInv
  BY AnswersInit
<1>3. Init => AskedInv
  BY <1>2 DEF AnswersInv
<1>4. TypeOK /\ OnceInv /\ AskedInv /\ [Next]_vars => AskedInv'
  BY AskedStep
<1>5. TypeOK /\ TypeOK' /\ OnceInv /\ AskedInv /\ PendingInv /\ [Next]_vars => PendingInv'
  BY PendingInductive
<1>6. PendingInv => NullOnlyEarly
  BY DEF PendingInv
<1> QED
  BY <1>1, <1>3, <1>4, <1>5, <1>6, TypeCorrect, ExecutedOnce, PTL DEF Spec

-----------------------------------------------------------------------------
(* The end of the worker.                                                  *)

OwnerInv ==
    /\ owner \in {"joining", "gone"} => stopped
    /\ owner = "gone" => running = {}

LEMMA OwnerStep ==
    ASSUME [Next]_vars
    PROVE  \/ UNCHANGED owner
           \/ owner' \in {"aborting", "stopping"} /\ owner # "gone"
           \/ DestructorStops \/ DestructorJoins
<1>1. CASE Take \/ Measure \/ DeadlinePasses \/ EarlyMessage
  BY <1>1, Zenon DEF Take, Measure, DeadlinePasses, EarlyMessage, Deliver, ownerVars
<1>2. CASE DestructorLooks \/ \E i \in Ids : DestructorAborts(i)
  BY <1>2 DEF DestructorLooks, DestructorAborts
<1>3. CASE Over \/ UNCHANGED vars
  BY <1>3, Zenon DEF Over, vars, ownerVars
<1>4. CASE \E i \in Ids : Submit(i) \/ Abort(i) \/ GetReturn(i)
  BY <1>4, Zenon DEF Submit, Abort, GetReturn, ownerVars
<1>5. CASE \E i \in Ids : \/ ExecuteSend(i) \/ ExecuteRefused(i) \/ SendReturns(i)
                         \/ Evaluate(i)
  BY <1>5, Zenon DEF ExecuteSend, ExecuteRefused, SendReturns, Evaluate, ownerVars
<1>6. CASE \E i \in Ids : Confirm(i) \/ Respond(i) \/ Process(i)
  BY <1>6, Zenon DEF Confirm, Respond, Process, Deliver, ownerVars
<1> QED
  BY <1>1, <1>2, <1>3, <1>4, <1>5, <1>6 DEF Next, Worker, Destructor

LEMMA OwnerInductive ==
    ASSUME OwnerInv, [Next]_vars
    PROVE  OwnerInv'
<1>1. stopped => stopped'
  BY QueueStep DEF Queue!Accept, Queue!Start, Queue!End, Queue!Stop, queueVars
<1>2. stopped /\ running = {} => running' = {}
  BY QueueStep DEF Queue!Accept, Queue!Start, Queue!End, Queue!Stop, queueVars
<1>3. CASE UNCHANGED owner \/ owner' \in {"aborting", "stopping"}
  BY <1>1, <1>2, <1>3 DEF OwnerInv
<1>4. CASE DestructorStops
  BY <1>4 DEF DestructorStops, Queue!Stop, OwnerInv
<1>5. CASE DestructorJoins
  BY <1>5 DEF DestructorJoins, queueVars, OwnerInv
<1> QED
  BY <1>3, <1>4, <1>5, OwnerStep

LEMMA QuietStep ==
    ASSUME TypeOK, OwnerInv, [Next]_vars, owner = "gone"
    PROVE  UNCHANGED <<queueVars, workerVars, pending>>
<1>1. stopped /\ running = {} /\ worker = "free"
  BY Zenon DEF OwnerInv, TypeOK
<1>2. ~Take /\ ~Measure /\ ~DeadlinePasses
  BY <1>1 DEF Take, Queue!Start, Measure, DeadlinePasses
<1>3. \A i \in Ids : ~ExecuteSend(i) /\ ~ExecuteRefused(i) /\ ~SendReturns(i) /\ ~Evaluate(i)
  BY <1>1 DEF ExecuteSend, ExecuteRefused, SendReturns, Evaluate
<1>4. \A i \in Ids : ~Submit(i) /\ ~Confirm(i) /\ ~Respond(i)
  BY DEF Submit, Confirm, Respond, Deliver
<1>5. ~EarlyMessage /\ ~DestructorLooks /\ ~DestructorStops /\ ~DestructorJoins
  BY DEF EarlyMessage, Deliver, DestructorLooks, DestructorStops, DestructorJoins
<1>6. \A i \in Ids : WokenBy(i) = worker
  BY <1>1 DEF WokenBy
<1>7. CASE \E i \in Ids : Abort(i) \/ Process(i) \/ DestructorAborts(i)
  <2>1. worker' = worker /\ UNCHANGED <<queueVars, late, pending>>
    BY <1>6, <1>7 DEF Abort, Process, DestructorAborts
  <2> QED
    BY <2>1, Zenon DEF workerVars
<1>8. CASE (\E i \in Ids : GetReturn(i)) \/ Over \/ UNCHANGED vars
  BY <1>8, Zenon DEF GetReturn, Over, vars
<1> QED
  BY <1>2, <1>3, <1>4, <1>5, <1>7, <1>8, Zenon DEF Next, Worker, Destructor

\* After the destructor has joined it, the worker does nothing any more, and
\* nothing wakes it (DpaHandler2.cpp:82-83).
THEOREM WorkerEndsFirst == Spec => QuietWhenGone
<1>1. Init => OwnerInv
  BY DEF Init, OwnerInv
<1>2. OwnerInv /\ [Next]_vars => OwnerInv'
  BY OwnerInductive
<1>3. TypeOK /\ OwnerInv /\ [Next]_vars
        => [owner = "gone" => UNCHANGED <<queueVars, workerVars, pending>>]_vars
  BY QuietStep
<1> QED
  BY <1>1, <1>2, <1>3, TypeCorrect, PTL DEF Spec, QuietWhenGone

=============================================================================
