------------------------ MODULE DpaTransactionProofs ------------------------
(***************************************************************************)
(* Proofs about DpaTransaction, for every set of requests, user timeouts,  *)
(* estimates and response codes, and any number of stale messages and      *)
(* spurious wake-ups.                                                      *)
(***************************************************************************)
EXTENDS DpaTransaction, DpaTransactionObjectProofs, TLAPS

-----------------------------------------------------------------------------
(* Type correctness.                                                       *)

\* The parts of TypeOK other than the transaction and the abort flag.
ThreadsTypeOK ==
    /\ exec \in {"idle", "sending", "waiting", "woken", "done"}
    /\ timer \in Nat
    /\ user \in {"idle", "awaitStart", "awaitFinish", "returned"}
    /\ device \in {"silent", "asked", "confirmed", "answered"}
    /\ stale \in 0 .. MaxStale
    /\ spurious \in 0 .. MaxSpurious
    /\ sinceSent \in 0 .. Horizon
    /\ quiet \in 0 .. Horizon

LEMMA TypeOKParts ==
    TypeOK <=> tran \in Transactions /\ ThreadsTypeOK /\ aborted \in BOOLEAN
  BY Zenon DEF TypeOK, ThreadsTypeOK

LEMMA InitTyped == Init => TypeOK
<1> SUFFICES ASSUME Init PROVE TypeOK
  OBVIOUS
<1>1. tran \in Transactions
  <2>1. PICK req \in RequestSet, asked \in UserTimeouts, err \in DefaultErrors :
           tran = Construct(req, asked, err)
    BY DEF Init
  <2>2. req \in Requests /\ err \in Int /\ asked \in Int
    BY <2>1, TransactionAssumption
  <2> QED
    BY <2>1, <2>2, ConstructTyped DEF Transactions
<1>2. ThreadsTypeOK
  BY TransactionAssumption DEF Init, ThreadsTypeOK
<1>3. aborted \in BOOLEAN
  BY Zenon DEF Init
<1> QED
  BY <1>1, <1>2, <1>3, TypeOKParts

LEMMA TransactionStepTyped ==
    ASSUME tran \in Transactions, ThreadsTypeOK, [Next]_vars
    PROVE  tran' \in Transactions
<1>1. CASE ExecuteSend
  BY <1>1, SentTyped, TransactionAssumption DEF ExecuteSend, Transactions
<1>2. CASE ExecuteRefuse
  <2>1. PICK err \in Refusals \cup ({tran.defaultError} \ {TRN_OK}) :
           tran' = Evaluated([tran EXCEPT !.defaultError = err, !.expected = 0,
                                          !.state = "kDefaultError"], FALSE)
    BY <1>2 DEF ExecuteRefuse
  <2>2. err \in Int
    BY <2>1, TransactionAssumption DEF Transactions, Objects
  <2>3. [tran EXCEPT !.defaultError = err, !.expected = 0, !.state = "kDefaultError"]
          \in Transactions
    BY <2>2 DEF Transactions, Objects, States
  <2> QED
    BY <2>1, <2>3, EvaluatedTyped, TransactionAssumption DEF Transactions
<1>3. CASE SendFails
  <2>1. [tran EXCEPT !.expected = 0, !.state = "kInterfaceError"] \in Transactions
    BY DEF Transactions, Objects, States
  <2> QED
    BY <1>3, <2>1, EvaluatedTyped, TransactionAssumption DEF SendFails, Transactions
<1>4. CASE Evaluate
  <2>1. (timer = 0) \in BOOLEAN
    OBVIOUS
  <2> QED
    BY <1>4, <2>1, EvaluatedTyped, TransactionAssumption DEF Evaluate, Transactions
<1>5. CASE DeviceConfirms \/ DeviceResponds \/ StaleMessage
  <2>1. PICK m \in Messages : Receive(m)
    BY <1>5 DEF DeviceConfirms, DeviceResponds, StaleMessage
  <2> QED
    BY <2>1, ReceivedTyped, TransactionAssumption DEF Receive, Messages, Transactions
<1>6. CASE Abort
  BY <1>6, AbortedTyped, TransactionAssumption DEF Abort, Transactions
<1>7. CASE UNCHANGED tran
  BY <1>7
<1> QED
  BY <1>1, <1>2, <1>3, <1>4, <1>5, <1>6, <1>7
  DEF Next, Executor, User, Environment, Over, vars, SendReturns, GetCall,
      GetStartWaitOver, GetReturn, SpuriousWakeup, Tick

LEMMA ThreadsStepTyped ==
    ASSUME tran \in Transactions, ThreadsTypeOK, [Next]_vars
    PROVE  ThreadsTypeOK'
<1> USE DEF ThreadsTypeOK
<1>1. tran.expected \in Nat
  BY DEF Transactions, Objects
<1>2. CASE ExecuteSend \/ ExecuteRefuse \/ SendReturns \/ SendFails
  BY <1>1, <1>2 DEF ExecuteSend, ExecuteRefuse, SendReturns, SendFails
<1>3. CASE Evaluate
  BY <1>1, <1>3 DEF Evaluate
<1>4. CASE SpuriousWakeup
  BY <1>4, TransactionAssumption DEF SpuriousWakeup
<1>5. CASE DeviceConfirms \/ DeviceResponds \/ StaleMessage
  <2>1. PICK m \in Messages : Receive(m)
    BY <1>5 DEF DeviceConfirms, DeviceResponds, StaleMessage
  <2>2. /\ exec' \in {exec, "woken"}
        /\ quiet' \in {0, quiet}
        /\ UNCHANGED <<timer, user, spurious, sinceSent>>
    BY <2>1 DEF Receive, Woken
  <2>3. stale' \in 0 .. MaxStale
    BY <1>5, TransactionAssumption DEF DeviceConfirms, DeviceResponds, StaleMessage
  <2>4. device' \in {device, "confirmed", "answered"}
    BY <1>5 DEF DeviceConfirms, DeviceResponds, StaleMessage
  <2> QED
    BY <2>2, <2>3, <2>4, TransactionAssumption
<1>6. CASE Abort
  BY <1>6 DEF Abort, Woken
<1>7. CASE User
  BY <1>7 DEF User, GetCall, GetStartWaitOver, GetReturn
<1>8. CASE Tick
  BY <1>8, TransactionAssumption DEF Tick, Tock
<1>9. CASE Over \/ UNCHANGED vars
  BY <1>9 DEF Over, vars
<1> QED
  BY <1>2, <1>3, <1>4, <1>5, <1>6, <1>7, <1>8, <1>9 DEF Next, Executor, Environment

LEMMA AbortStepTyped ==
    ASSUME aborted \in BOOLEAN, [Next]_vars
    PROVE  aborted' \in BOOLEAN
<1>1. CASE Executor
  BY <1>1, Zenon DEF Executor, ExecuteSend, ExecuteRefuse, SendReturns, SendFails, Evaluate
<1>2. CASE User
  BY <1>2, Zenon DEF User, GetCall, GetStartWaitOver, GetReturn
<1>3. CASE Environment
  BY <1>3, Zenon DEF Environment, DeviceConfirms, DeviceResponds, StaleMessage, Receive,
                     Abort, SpuriousWakeup, Tick
<1>4. CASE Over \/ UNCHANGED vars
  BY <1>4, Zenon DEF Over, vars
<1> QED
  BY <1>1, <1>2, <1>3, <1>4 DEF Next

\* TypeOK is an invariant of the transaction and its threads
\* (DpaTransaction2.cpp:51-467).
THEOREM TypeCorrect == Spec => []TypeOK
<1>1. Init => TypeOK
  BY InitTyped
<1>2. TypeOK /\ [Next]_vars => TypeOK'
  <2> SUFFICES ASSUME TypeOK, [Next]_vars PROVE TypeOK'
    OBVIOUS
  <2>1. tran \in Transactions /\ ThreadsTypeOK /\ aborted \in BOOLEAN
    BY TypeOKParts
  <2>2. tran' \in Transactions
    BY <2>1, TransactionStepTyped
  <2>3. ThreadsTypeOK'
    BY <2>1, ThreadsStepTyped
  <2>4. aborted' \in BOOLEAN
    BY <2>1, AbortStepTyped
  <2> QED
    BY <2>2, <2>3, <2>4, Zenon DEF TypeOK, ThreadsTypeOK
<1> QED
  BY <1>1, <1>2, PTL DEF Spec

-----------------------------------------------------------------------------
(* The invariant behind the verdict: while the transaction is not decided, *)
(* its state says no more than what was heard or done.  TransactionContract *)
(* follows from it, step by step.                                          *)

ThreadsAgree ==
    /\ tran.finish <=> exec = "done"
    /\ user = "returned" => tran.finish
    /\ exec = "idle" => tran.defaultError \in DefaultErrors
    /\ exec \in {"sending", "waiting", "woken"} => tran.defaultError = TRN_OK
    /\ exec = "sending" => tran.state \in {"kSent", "kSentCoordinator"}

Undecided == exec \in {"waiting", "woken"}

StateIsBacked ==
    /\ tran.state \in AwaitingAnswer \cup Settling \cup {"kProcessed", "kAborted"}
    /\ tran.state \in {"kReceivedResponse", "kProcessed"} => tran.responded
    /\ tran.state = "kConfirmationBroadcast"
          => tran.confirmed /\ tran.addr = "broadcast"
    /\ tran.state = "kAborted" => aborted

EvidenceInv ==
    /\ ThreadsAgree
    /\ ~tran.responded => tran.responseCode = TRN_OK
    /\ Undecided => StateIsBacked

LEMMA EvidenceInit == Init => EvidenceInv
<1> SUFFICES ASSUME Init PROVE EvidenceInv
  OBVIOUS
<1>1. PICK req \in RequestSet, asked \in UserTimeouts, err \in DefaultErrors :
         tran = Construct(req, asked, err)
  BY DEF Init
<1>2. /\ tran.finish = FALSE
      /\ tran.responseCode = TRN_OK
      /\ tran.defaultError \in DefaultErrors
  BY <1>1, Zenon DEF Construct
<1>3. exec = "idle" /\ user = "idle"
  BY DEF Init
<1> QED
  BY <1>2, <1>3 DEF EvidenceInv, ThreadsAgree, Undecided

\* The steps of the executor, each with what it makes of the object.
LEMMA SendEffect ==
    ASSUME TypeOK, ExecuteSend
    PROVE  /\ SameRequest(tran, tran')
           /\ SameAnswers(tran, tran')
           /\ tran'.defaultError = tran.defaultError
           /\ tran'.finish = tran.finish
           /\ tran'.expected = tran.expected
           /\ tran'.state \in {"kSent", "kSentCoordinator"}
<1>1. tran' = Sent(tran) /\ tran \in Transactions
  BY DEF ExecuteSend, TypeOK
<1> QED
  BY <1>1, Zenon DEF Sent, Transactions, Objects, SameRequest, SameAnswers

LEMMA RefuseEffect ==
    ASSUME TypeOK, EvidenceInv, ExecuteRefuse
    PROVE  /\ SameRequest(tran, tran')
           /\ SameAnswers(tran, tran')
           /\ tran'.finish = TRUE
           /\ tran'.defaultError # TRN_OK
           /\ tran'.errorCode = tran'.defaultError
           /\ tran'.defaultError \in Refusals \cup (DefaultErrors \ {TRN_OK})
<1>1. PICK err \in Refusals \cup ({tran.defaultError} \ {TRN_OK}) :
         tran' = Evaluated([tran EXCEPT !.defaultError = err, !.expected = 0,
                                        !.state = "kDefaultError"], FALSE)
  BY DEF ExecuteRefuse
<1> DEFINE t == [tran EXCEPT !.defaultError = err, !.expected = 0,
                             !.state = "kDefaultError"]
<1>2. err \in Refusals \cup (DefaultErrors \ {TRN_OK}) /\ err # TRN_OK
  BY TransactionAssumption DEF ExecuteRefuse, EvidenceInv, ThreadsAgree
<1>3. err \in Int
  BY <1>2, TransactionAssumption
<1>4. tran \in Transactions
  BY DEF TypeOK
<1>5. t \in Transactions
  BY <1>3, <1>4, Zenon DEF Transactions, Objects, States
<1>6. /\ SameRequest(tran, t)
      /\ SameAnswers(tran, t)
      /\ t.defaultError = err
      /\ t.state = "kDefaultError"
  BY <1>4, Zenon DEF Transactions, Objects, SameRequest, SameAnswers
<1>7. /\ SameRequest(t, tran')
      /\ SameAnswers(t, tran')
      /\ tran'.defaultError = err
      /\ tran'.finish = TRUE
      /\ tran'.errorCode = err
  <2> HIDE DEF t
  <2> QED
    BY <1>1, <1>2, <1>5, <1>6, RefusedEffect DEF t, Transactions
<1> QED
  BY <1>2, <1>6, <1>7, Zenon DEF SameRequest, SameAnswers

LEMMA SendFailsEffect ==
    ASSUME TypeOK, SendFails
    PROVE  /\ SameRequest(tran, tran')
           /\ SameAnswers(tran, tran')
           /\ tran'.finish = TRUE
           /\ tran'.defaultError = tran.defaultError
           /\ tran'.errorCode = TRN_ERROR_IFACE
<1> DEFINE t == [tran EXCEPT !.expected = 0, !.state = "kInterfaceError"]
<1>1. tran' = Evaluated(t, FALSE) /\ tran \in Transactions
  BY DEF SendFails, TypeOK
<1>2. t \in Transactions
  BY <1>1 DEF Transactions, Objects, States
<1>3. /\ SameRequest(tran, t)
      /\ SameAnswers(tran, t)
      /\ t.defaultError = tran.defaultError
      /\ t.state = "kInterfaceError"
  BY <1>1, Zenon DEF Transactions, Objects, SameRequest, SameAnswers
<1>4. /\ SameRequest(t, tran')
      /\ SameAnswers(t, tran')
      /\ tran'.defaultError = t.defaultError
      /\ tran'.finish = TRUE
      /\ tran'.errorCode = TRN_ERROR_IFACE
  <2> HIDE DEF t
  <2> QED
    BY <1>1, <1>2, <1>3, RefusedEffect, TransactionAssumption DEF Transactions
<1> QED
  BY <1>3, <1>4, Zenon DEF SameRequest, SameAnswers

LEMMA EvaluateEffect ==
    ASSUME TypeOK, EvidenceInv, Evaluate
    PROVE  \/ UNCHANGED tran /\ exec' = "waiting" /\ timer' = tran.expected
           \/ /\ SameRequest(tran, tran')
              /\ SameAnswers(tran, tran')
              /\ tran'.defaultError = tran.defaultError
              /\ tran'.finish = TRUE
              /\ exec' = "done"
              /\ Ended(tran, tran', timer = 0)
<1>1. /\ tran' = Evaluated(tran, timer = 0)
      /\ (timer = 0) \in BOOLEAN
      /\ tran \in Transactions
  BY DEF Evaluate, TypeOK
<1>2. Undecided /\ StateIsBacked /\ ~tran.finish
  BY DEF Evaluate, WaitOver, Undecided, EvidenceInv, ThreadsAgree
<1>3. CASE tran' = tran
  BY <1>2, <1>3 DEF Evaluate
<1>4. CASE tran' # tran
  <2>1. /\ SameRequest(tran, tran')
        /\ SameAnswers(tran, tran')
        /\ tran'.defaultError = tran.defaultError
        /\ tran'.finish = TRUE
        /\ Ended(tran, tran', timer = 0)
    BY <1>1, <1>2, <1>4, EvaluatedEffect, TransactionAssumption
    DEF StateIsBacked, Transactions
  <2> QED
    BY <2>1 DEF Evaluate
<1> QED
  BY <1>3, <1>4

\* The steps of the receiver.
LEMMA ReceiveEffect ==
    ASSUME TypeOK, EvidenceInv, NEW m \in Messages, Receive(m)
    PROVE  /\ exec # "sending"
           /\ UNCHANGED <<timer, user, sinceSent, aborted>>
           /\ exec' \in {exec, "woken"}
           /\ exec' # exec => exec = "waiting"
           /\ \/ UNCHANGED tran
              \/ /\ SameRequest(tran, tran')
                 /\ tran'.defaultError = tran.defaultError
                 /\ exec # "done"
                 /\ tran'.finish = FALSE
                 /\ Confirmed(tran, tran') \/ Responded(tran, tran', m.code)
<1>1. tran \in Transactions /\ tran' = ProcessReceivedMessage(tran, m)
  BY DEF TypeOK, Receive
<1>2. \/ UNCHANGED tran
      \/ /\ SameRequest(tran, tran')
         /\ tran'.defaultError = tran.defaultError
         /\ exec # "done"
         /\ tran'.finish = FALSE
         /\ Confirmed(tran, tran') \/ Responded(tran, tran', m.code)
  <2>1. CASE tran' = tran
    BY <2>1
  <2>2. CASE tran' # tran
    <3>1. /\ SameRequest(tran, tran')
          /\ tran'.defaultError = tran.defaultError
          /\ ~tran.finish
          /\ tran'.finish = tran.finish
          /\ Confirmed(tran, tran') \/ Responded(tran, tran', m.code)
      <4>1. /\ tran \in Objects(ResponseCodes)
            /\ m.estimate \in Nat \ {0}
        BY <1>1, TransactionAssumption DEF Messages, Message, Transactions
      <4> QED
        BY <1>1, <2>2, <4>1, ReceivedEffect
    <3>2. tran.finish = FALSE
      BY <1>1, <3>1, Zenon DEF Transactions, Objects
    <3> QED
      BY <3>1, <3>2, Zenon DEF EvidenceInv, ThreadsAgree
  <2> QED
    BY <2>1, <2>2
<1> QED
  BY <1>2 DEF Receive, MutexFree, Woken

LEMMA AbortEffect ==
    ASSUME TypeOK, Abort
    PROVE  /\ SameRequest(tran, tran')
           /\ SameAnswers(tran, tran')
           /\ tran'.defaultError = tran.defaultError
           /\ tran'.finish = tran.finish
           /\ tran'.expected = tran.expected
           /\ tran'.errorCode = tran.errorCode
           /\ tran'.state = "kAborted"
           /\ exec # "sending"
           /\ exec' \in {exec, "woken"}
           /\ exec' # exec => exec = "waiting"
           /\ aborted'
<1>1. tran \in Transactions /\ tran' = Aborted(tran)
  BY DEF TypeOK, Abort
<1>2. aborted' /\ exec # "sending" /\ exec' = Woken
  BY DEF Abort, MutexFree
<1>3. /\ SameRequest(tran, tran')
      /\ SameAnswers(tran, tran')
      /\ tran'.defaultError = tran.defaultError
      /\ tran'.finish = tran.finish
      /\ tran'.expected = tran.expected
      /\ tran'.errorCode = tran.errorCode
      /\ tran'.state = "kAborted"
  BY <1>1, Zenon DEF Aborted, Transactions, Objects, SameRequest, SameAnswers
<1> QED
  BY <1>2, <1>3 DEF Woken

-----------------------------------------------------------------------------
(* The invariant is inductive.                                             *)

\* What the steps have in common that leave the object alone.
LEMMA StutterEvidence ==
    ASSUME EvidenceInv, UNCHANGED <<tran, aborted>>,
           \/ UNCHANGED exec
           \/ exec \in {"waiting", "woken"} /\ exec' \in {"waiting", "woken"},
           user' = "returned" => user = "returned" \/ tran.finish
    PROVE  EvidenceInv'
  BY DEF EvidenceInv, ThreadsAgree, Undecided, StateIsBacked

LEMMA EvidenceInductive ==
    ASSUME TypeOK, EvidenceInv, [Next]_vars
    PROVE  EvidenceInv'
<1>1. CASE ExecuteSend
  <2>1. exec = "idle" /\ exec' = "sending" /\ UNCHANGED user /\ tran.defaultError = TRN_OK
    BY <1>1 DEF ExecuteSend
  <2> QED
    BY <1>1, <2>1, SendEffect DEF EvidenceInv, ThreadsAgree, Undecided, SameAnswers
<1>2. CASE ExecuteRefuse
  <2>1. exec' = "done" /\ UNCHANGED user
    BY <1>2 DEF ExecuteRefuse
  <2> QED
    BY <1>2, <2>1, RefuseEffect DEF EvidenceInv, ThreadsAgree, Undecided, SameAnswers
<1>3. CASE SendReturns
  <2>1. exec = "sending" /\ exec' = "waiting" /\ UNCHANGED <<tran, user, aborted>>
    BY <1>3 DEF SendReturns
  <2> QED
    BY <2>1 DEF EvidenceInv, ThreadsAgree, Undecided, StateIsBacked, AwaitingAnswer
<1>4. CASE SendFails
  <2>1. exec' = "done" /\ UNCHANGED user
    BY <1>4 DEF SendFails
  <2> QED
    BY <1>4, <2>1, SendFailsEffect
    DEF EvidenceInv, ThreadsAgree, Undecided, SameAnswers
<1>5. CASE Evaluate
  <2>1. exec \in {"waiting", "woken"} /\ UNCHANGED <<user, aborted>>
    BY <1>5 DEF Evaluate, WaitOver
  <2>2. CASE UNCHANGED tran /\ exec' = "waiting"
    BY <2>1, <2>2, StutterEvidence
  <2>3. CASE exec' = "done" /\ tran'.finish = TRUE /\ SameAnswers(tran, tran')
    BY <2>1, <2>3 DEF EvidenceInv, ThreadsAgree, Undecided, SameAnswers
  <2> QED
    BY <1>5, <2>2, <2>3, EvaluateEffect
<1>6. CASE DeviceConfirms \/ DeviceResponds \/ StaleMessage
  <2>1. PICK m \in Messages : Receive(m)
    BY <1>6 DEF DeviceConfirms, DeviceResponds, StaleMessage
  <2>2. /\ exec # "sending"
        /\ UNCHANGED <<user, aborted>>
        /\ exec' \in {exec, "woken"}
        /\ exec' # exec => exec = "waiting"
    BY <2>1, ReceiveEffect
  <2>3. CASE UNCHANGED tran
    BY <2>2, <2>3, StutterEvidence
  <2>4. CASE /\ SameRequest(tran, tran')
             /\ tran'.defaultError = tran.defaultError
             /\ exec # "done"
             /\ tran'.finish = FALSE
             /\ Confirmed(tran, tran')
    <3>1. ThreadsAgree'
      BY <2>2, <2>4 DEF EvidenceInv, ThreadsAgree
    <3>2. StateIsBacked'
      BY <2>4 DEF Confirmed, StateIsBacked, SameRequest, AwaitingAnswer, Settling
    <3>3. ~tran'.responded => tran'.responseCode = TRN_OK
      BY <2>4 DEF Confirmed, EvidenceInv
    <3> QED
      BY <3>1, <3>2, <3>3 DEF EvidenceInv
  <2>5. CASE /\ SameRequest(tran, tran')
             /\ tran'.defaultError = tran.defaultError
             /\ exec # "done"
             /\ tran'.finish = FALSE
             /\ Responded(tran, tran', m.code)
    <3>1. ThreadsAgree'
      BY <2>2, <2>5 DEF EvidenceInv, ThreadsAgree
    <3>2. StateIsBacked'
      BY <2>5 DEF Responded, StateIsBacked, Settling
    <3> QED
      BY <2>5, <3>1, <3>2 DEF EvidenceInv, Responded
  <2> QED
    BY <2>1, <2>3, <2>4, <2>5, ReceiveEffect
<1>7. CASE Abort
  <2>1. UNCHANGED user
    BY <1>7 DEF Abort
  <2>2. ThreadsAgree'
    BY <1>7, <2>1, AbortEffect DEF EvidenceInv, ThreadsAgree
  <2>3. StateIsBacked'
    BY <1>7, AbortEffect DEF StateIsBacked
  <2>4. ~tran'.responded => tran'.responseCode = TRN_OK
    BY <1>7, AbortEffect DEF SameAnswers, EvidenceInv
  <2> QED
    BY <2>2, <2>3, <2>4 DEF EvidenceInv
<1>8. CASE User \/ SpuriousWakeup \/ Tick \/ Over \/ UNCHANGED vars
  <2>1. /\ UNCHANGED <<tran, aborted>>
        /\ \/ UNCHANGED exec
           \/ exec \in {"waiting", "woken"} /\ exec' \in {"waiting", "woken"}
        /\ user' = "returned" => user = "returned" \/ tran.finish
    BY <1>8 DEF User, GetCall, GetStartWaitOver, GetReturn, SpuriousWakeup, Tick, Over, vars
  <2> QED
    BY <2>1, StutterEvidence
<1> QED
  BY <1>1, <1>2, <1>3, <1>4, <1>5, <1>6, <1>7, <1>8 DEF Next, Executor, Environment

\* The verdict and the answers in the result agree with what happened.
THEOREM VerdictIsBacked == Spec => []EvidenceInv
<1>1. Init => EvidenceInv
  BY EvidenceInit
<1>2. TypeOK /\ EvidenceInv /\ [Next]_vars => EvidenceInv'
  BY EvidenceInductive
<1> QED
  BY TypeCorrect, <1>1, <1>2, PTL DEF Spec

-----------------------------------------------------------------------------
(* DpaTransaction implements TransactionContract.                          *)

\* What a step that does not touch the answers leaves of the abstract state.
SameEvidence ==
    /\ ResponseOf' = ResponseOf
    /\ tran'.confirmed = tran.confirmed
    /\ IsBroadcast' = IsBroadcast
    /\ tran'.infinite = tran.infinite

LEMMA EvidenceKept ==
    ASSUME SameRequest(tran, tran'), SameAnswers(tran, tran')
    PROVE  SameEvidence
  BY Zenon DEF SameRequest, SameAnswers, SameEvidence, ResponseOf, IsBroadcast

LEMMA AbstractStutter ==
    ASSUME SameEvidence, PhaseOf' = PhaseOf, VerdictOf' = VerdictOf, aborted' = aborted
    PROVE  [Contract!CNext]_Contract!cvars
<1>1. UNCHANGED Contract!cvars
  BY Zenon DEF SameEvidence, Contract!cvars
<1> QED
  BY <1>1

\* A decision of the concrete transaction is one of the contract.
LEMMA AbstractDecide ==
    ASSUME NEW v, SameEvidence, UNCHANGED <<aborted, user>>,
           tran'.finish = TRUE, GetErrorCode(tran') = v, user # "returned",
           \/ /\ PhaseOf = "created"
              /\ v \in Refusals \cup (DefaultErrors \ {TRN_OK}) \cup {TRN_ERROR_IFACE}
           \/ PhaseOf = "running" /\ Contract!Justified(v),
           v \in ResponseCodes \cup (Refusals \cup (DefaultErrors \ {TRN_OK})
                     \cup {TRN_ERROR_IFACE}) \cup {0, -1, -3}
    PROVE  [Contract!CNext]_Contract!cvars
<1>1. PhaseOf' = "decided"
  BY DEF PhaseOf
<1>2. VerdictOf' = {v}
  BY DEF VerdictOf
<1>3. Contract!Decide(v)
  BY <1>1, <1>2, Zenon DEF Contract!Decide, SameEvidence
<1> QED
  BY <1>3 DEF Contract!CNext

LEMMA VerdictOfRefusal ==
    ASSUME NEW u, NEW v, u.errorCode = v, v # TRN_OK
    PROVE  GetErrorCode(u) = v
  BY DEF GetErrorCode

LEMMA RefusalRefines ==
    ASSUME TypeOK, EvidenceInv, ExecuteRefuse \/ SendFails
    PROVE  [Contract!CNext]_Contract!cvars
<1>1. /\ exec \in {"idle", "sending"}
      /\ UNCHANGED <<aborted, user>>
  BY DEF ExecuteRefuse, SendFails
<1>2. ~tran.finish /\ user # "returned"
  BY <1>1 DEF EvidenceInv, ThreadsAgree
<1>3. PhaseOf = "created"
  BY <1>1, <1>2 DEF PhaseOf
<1>4. CASE ExecuteRefuse
  <2>1. SameEvidence
    BY <1>4, RefuseEffect, EvidenceKept
  <2>2. GetErrorCode(tran') = tran'.defaultError
    BY <1>4, RefuseEffect, VerdictOfRefusal
  <2>3. tran'.finish = TRUE
    BY <1>4, RefuseEffect
  <2>4. tran'.defaultError \in Refusals \cup (DefaultErrors \ {TRN_OK})
    BY <1>4, RefuseEffect
  <2> QED
    BY <1>1, <1>2, <1>3, <2>1, <2>2, <2>3, <2>4, AbstractDecide
<1>5. CASE SendFails
  <2>1. SameEvidence
    BY <1>5, SendFailsEffect, EvidenceKept
  <2>2. TRN_ERROR_IFACE # TRN_OK
    BY DEF TRN_ERROR_IFACE, TRN_OK
  <2>3. GetErrorCode(tran') = TRN_ERROR_IFACE
    BY <1>5, <2>2, SendFailsEffect, VerdictOfRefusal
  <2>4. tran'.finish = TRUE
    BY <1>5, SendFailsEffect
  <2> QED
    BY <1>1, <1>2, <1>3, <2>1, <2>3, <2>4, AbstractDecide
<1> QED
  BY <1>4, <1>5

LEMMA EvaluateRefines ==
    ASSUME TypeOK, EvidenceInv, Evaluate
    PROVE  [Contract!CNext]_Contract!cvars
<1>1. /\ exec \in {"waiting", "woken"}
      /\ UNCHANGED <<aborted, user>>
  BY DEF Evaluate, WaitOver
<1>2. ~tran.finish /\ user # "returned" /\ StateIsBacked
  BY <1>1 DEF EvidenceInv, ThreadsAgree, Undecided
<1>3. PhaseOf = "running"
  BY <1>1, <1>2 DEF PhaseOf
<1>4. CASE UNCHANGED tran /\ exec' = "waiting"
  <2>1. SameEvidence /\ VerdictOf' = VerdictOf
    BY <1>4, Zenon DEF SameEvidence, ResponseOf, IsBroadcast, VerdictOf
  <2>2. PhaseOf' = PhaseOf
    BY <1>1, <1>2, <1>4 DEF PhaseOf
  <2> QED
    BY <1>1, <2>1, <2>2, AbstractStutter
<1>5. CASE /\ SameRequest(tran, tran')
           /\ SameAnswers(tran, tran')
           /\ tran'.finish = TRUE
           /\ Ended(tran, tran', timer = 0)
  <2>1. SameEvidence
    BY <1>5, EvidenceKept
  <2>2. CASE tran'.errorCode = tran.responseCode
             /\ tran.state \in {"kProcessed", "kConfirmationBroadcast", "kReceivedResponse"}
    <3>1. GetErrorCode(tran') = tran.responseCode
      BY <1>5, <2>2 DEF GetErrorCode, SameAnswers
    <3>2. CASE tran.responded
      <4>1. Contract!Justified(tran.responseCode)
        BY <3>2 DEF Contract!Justified, ResponseOf
      <4>2. tran.responseCode \in ResponseCodes \cup {0}
        BY DEF TypeOK, Transactions, Objects, TRN_OK
      <4> QED
        BY <1>1, <1>2, <1>3, <1>5, <2>1, <3>1, <4>1, <4>2, AbstractDecide
    <3>3. CASE ~tran.responded
      <4>1. tran.responseCode = 0 /\ ResponseOf = {}
        BY <3>3 DEF EvidenceInv, TRN_OK, ResponseOf
      <4>2. tran.confirmed /\ IsBroadcast
        BY <1>2, <2>2, <3>3 DEF StateIsBacked, IsBroadcast
      <4>3. Contract!Justified(0)
        BY <4>1, <4>2 DEF Contract!Justified
      <4> QED
        BY <1>1, <1>2, <1>3, <1>5, <2>1, <3>1, <4>1, <4>3, AbstractDecide
    <3> QED
      BY <3>2, <3>3
  <2>3. CASE ~tran.infinite /\ tran'.errorCode = TRN_ERROR_TIMEOUT
    <3>1. GetErrorCode(tran') = -1
      BY <2>3, VerdictOfRefusal DEF TRN_ERROR_TIMEOUT, TRN_OK
    <3>2. Contract!Justified(-1)
      BY <2>3 DEF Contract!Justified
    <3> QED
      BY <1>1, <1>2, <1>3, <1>5, <2>1, <3>1, <3>2, AbstractDecide
  <2>4. CASE tran.state = "kAborted" /\ tran'.errorCode = TRN_ERROR_ABORTED
    <3>1. GetErrorCode(tran') = -3
      BY <2>4, VerdictOfRefusal DEF TRN_ERROR_ABORTED, TRN_OK
    <3>2. Contract!Justified(-3)
      BY <1>2, <2>4 DEF Contract!Justified, StateIsBacked
    <3> QED
      BY <1>1, <1>2, <1>3, <1>5, <2>1, <3>1, <3>2, AbstractDecide
  <2> QED
    BY <1>5, <2>2, <2>3, <2>4 DEF Ended, Settling
<1> QED
  BY <1>4, <1>5, EvaluateEffect

LEMMA ReceiveRefines ==
    ASSUME TypeOK, EvidenceInv, NEW m \in Messages, Receive(m)
    PROVE  [Contract!CNext]_Contract!cvars
<1>1. /\ exec # "sending"
      /\ UNCHANGED <<user, aborted>>
      /\ exec' \in {exec, "woken"}
      /\ exec' # exec => exec = "waiting"
  BY ReceiveEffect
<1>2. CASE UNCHANGED tran
  <2>1. SameEvidence /\ VerdictOf' = VerdictOf
    BY <1>2, Zenon DEF SameEvidence, ResponseOf, IsBroadcast, VerdictOf
  <2>2. PhaseOf' = PhaseOf
    BY <1>1, <1>2 DEF PhaseOf
  <2> QED
    BY <1>1, <2>1, <2>2, AbstractStutter
<1>3. CASE /\ SameRequest(tran, tran')
           /\ exec # "done"
           /\ tran'.finish = FALSE
           /\ Confirmed(tran, tran') \/ Responded(tran, tran', m.code)
  <2>1. ~tran.finish /\ user # "returned" /\ ~tran'.finish /\ user' # "returned"
    BY <1>1, <1>3 DEF EvidenceInv, ThreadsAgree
  <2>2. PhaseOf' = PhaseOf /\ PhaseOf \in {"created", "running"}
    BY <1>1, <2>1 DEF PhaseOf
  <2>3. VerdictOf' = VerdictOf
    BY <2>1 DEF VerdictOf
  <2>4. IsBroadcast' = IsBroadcast /\ tran'.infinite = tran.infinite
    BY <1>3, Zenon DEF SameRequest, IsBroadcast
  <2>5. CASE Confirmed(tran, tran')
    <3>1. ResponseOf' = ResponseOf /\ tran'.confirmed = TRUE
      BY <2>5, Zenon DEF Confirmed, ResponseOf
    <3>2. Contract!HearConfirmation
      BY <1>1, <2>2, <2>3, <2>4, <3>1, Zenon
      DEF Contract!HearConfirmation, Contract!Undecided
    <3> QED
      BY <3>2 DEF Contract!CNext
  <2>6. CASE Responded(tran, tran', m.code)
    <3>1. ResponseOf' = {m.code} /\ tran'.confirmed = tran.confirmed
      BY <2>6, Zenon DEF Responded, ResponseOf
    <3>2. Contract!HearResponse(m.code)
      BY <1>1, <2>2, <2>3, <2>4, <3>1, Zenon
      DEF Contract!HearResponse, Contract!Undecided
    <3>3. m.code \in ResponseCodes
      BY DEF Messages, Message
    <3> QED
      BY <3>2, <3>3 DEF Contract!CNext
  <2> QED
    BY <1>3, <2>5, <2>6
<1> QED
  BY <1>2, <1>3, ReceiveEffect

LEMMA AbortRefines ==
    ASSUME TypeOK, EvidenceInv, Abort
    PROVE  [Contract!CNext]_Contract!cvars
<1>1. SameEvidence
  BY AbortEffect, EvidenceKept
<1>2. /\ tran'.finish = tran.finish
      /\ tran'.errorCode = tran.errorCode
      /\ tran'.responseCode = tran.responseCode
  BY AbortEffect DEF SameAnswers
<1>3. VerdictOf' = VerdictOf
  BY <1>2 DEF VerdictOf, GetErrorCode
<1>4. PhaseOf' = PhaseOf
  <2>1. UNCHANGED user /\ exec' = Woken /\ exec # "sending"
    BY DEF Abort, MutexFree
  <2> QED
    BY <1>2, <2>1 DEF PhaseOf, Woken
<1>5. aborted' = TRUE
  BY Zenon DEF Abort
<1>6. Contract!AskAbort
  BY <1>1, <1>3, <1>4, <1>5, Zenon DEF Contract!AskAbort, SameEvidence
<1> QED
  BY <1>6 DEF Contract!CNext

LEMMA StepRefines ==
    ASSUME TypeOK, EvidenceInv, [Next]_vars
    PROVE  [Contract!CNext]_Contract!cvars
<1>1. CASE UNCHANGED tran
  <2>1. SameEvidence /\ VerdictOf' = VerdictOf
    BY <1>1, Zenon DEF SameEvidence, ResponseOf, IsBroadcast, VerdictOf
  <2>2. CASE SendReturns
    <3>1. ~tran.finish /\ user # "returned" /\ exec = "sending"
      BY <2>2 DEF SendReturns, EvidenceInv, ThreadsAgree
    <3>2. PhaseOf = "created" /\ PhaseOf' = "running" /\ UNCHANGED aborted
      BY <1>1, <2>2, <3>1 DEF SendReturns, PhaseOf
    <3>3. Contract!Begin
      BY <2>1, <3>2, Zenon DEF Contract!Begin, SameEvidence
    <3> QED
      BY <3>3 DEF Contract!CNext
  <2>3. CASE GetReturn
    <3>1. PhaseOf = "decided" /\ PhaseOf' = "collected" /\ UNCHANGED aborted
      BY <2>3 DEF GetReturn, PhaseOf
    <3>2. Contract!Collect
      BY <2>1, <3>1, Zenon DEF Contract!Collect, SameEvidence
    <3> QED
      BY <3>2 DEF Contract!CNext
  <2>4. CASE GetCall \/ GetStartWaitOver \/ SpuriousWakeup \/ Tick \/ Over \/ UNCHANGED vars
    <3>1. PhaseOf' = PhaseOf /\ UNCHANGED aborted
      BY <1>1, <2>4
      DEF GetCall, GetStartWaitOver, SpuriousWakeup, Tick, Over, vars, PhaseOf
    <3> QED
      BY <2>1, <3>1, AbstractStutter
  <2>5. CASE \E m \in Messages : Receive(m)
    BY <2>5, ReceiveRefines
  <2>6. CASE ExecuteSend \/ ExecuteRefuse \/ SendFails \/ Evaluate \/ Abort
    <3>1. CASE ExecuteSend
      <4>1. PhaseOf' = PhaseOf /\ UNCHANGED aborted
        BY <1>1, <3>1 DEF ExecuteSend, PhaseOf
      <4> QED
        BY <2>1, <4>1, AbstractStutter
    <3> QED
      BY <2>6, <3>1, RefusalRefines, EvaluateRefines, AbortRefines
  <2> QED
    BY <2>2, <2>3, <2>4, <2>5, <2>6
    DEF Next, Executor, User, Environment, DeviceConfirms, DeviceResponds, StaleMessage
<1>2. CASE ExecuteSend
  <2>1. SameEvidence /\ tran'.finish = tran.finish
    BY <1>2, SendEffect, EvidenceKept
  <2>2. ~tran.finish /\ exec = "idle" /\ exec' = "sending" /\ UNCHANGED <<user, aborted>>
    BY <1>2 DEF ExecuteSend, EvidenceInv, ThreadsAgree
  <2>3. PhaseOf' = PhaseOf /\ VerdictOf' = VerdictOf
    BY <2>1, <2>2 DEF PhaseOf, VerdictOf
  <2> QED
    BY <2>1, <2>2, <2>3, AbstractStutter
<1>3. CASE ExecuteRefuse \/ SendFails
  BY <1>3, RefusalRefines
<1>4. CASE Evaluate
  BY <1>4, EvaluateRefines
<1>5. CASE \E m \in Messages : Receive(m)
  BY <1>5, ReceiveRefines
<1>6. CASE Abort
  BY <1>6, AbortRefines
<1> QED
  BY <1>1, <1>2, <1>3, <1>4, <1>5, <1>6
  DEF Next, Executor, User, Environment, Over, vars, DeviceConfirms, DeviceResponds,
      StaleMessage, SendReturns, GetCall, GetStartWaitOver, GetReturn, SpuriousWakeup, Tick

LEMMA InitRefines == Init => Contract!CInit
<1> SUFFICES ASSUME Init PROVE Contract!CInit
  OBVIOUS
<1>1. PICK req \in RequestSet, asked \in UserTimeouts, err \in DefaultErrors :
         tran = Construct(req, asked, err)
  BY DEF Init
<1>2. /\ tran.finish = FALSE
      /\ tran.confirmed = FALSE
      /\ tran.responded = FALSE
      /\ tran.infinite \in BOOLEAN
  BY <1>1, Zenon DEF Construct, IsInfinite
<1>3. exec = "idle" /\ user = "idle" /\ aborted = FALSE
  BY Zenon DEF Init
<1>4. PhaseOf = "created" /\ ResponseOf = {} /\ VerdictOf = {}
  BY <1>2, <1>3 DEF PhaseOf, ResponseOf, VerdictOf
<1>5. IsBroadcast \in BOOLEAN
  BY Zenon DEF IsBroadcast
<1> QED
  BY <1>2, <1>3, <1>4, <1>5, Zenon DEF Contract!CInit

\* Every behaviour of the transaction and its threads keeps the promise of
\* TransactionContract (DpaTransaction2.cpp:163-467).
THEOREM ContractImplemented == Spec => ImplementsContract
<1>1. Init => Contract!CInit
  BY InitRefines
<1>2. TypeOK /\ EvidenceInv /\ [Next]_vars => [Contract!CNext]_Contract!cvars
  BY StepRefines
<1> QED
  BY TypeCorrect, VerdictIsBacked, <1>1, <1>2, PTL
  DEF Spec, ImplementsContract, Contract!CSpec

-----------------------------------------------------------------------------
(* No early timeout.  While nothing but confirmations was heard, the       *)
(* expected duration is at least the patience, and what is left of the     *)
(* executor's wait makes up for what is missing of it since the send.      *)

PatienceInv ==
    /\ tran.addr # "coordinator" => tran.userTimeout >= DefaultTimeout
    /\ Patience <= Horizon
    /\ exec # "done" /\ ~tran.responded => tran.expected >= Patience
    /\ Undecided /\ ~tran.responded
          => sinceSent + timer >= Patience \/ sinceSent >= Patience
    /\ TimeoutNotEarly

LEMMA PatienceInit == Init => PatienceInv
<1> SUFFICES ASSUME Init PROVE PatienceInv
  OBVIOUS
<1>1. PICK req \in RequestSet, asked \in UserTimeouts, err \in DefaultErrors :
         tran = Construct(req, asked, err)
  BY DEF Init
<1>2. asked \in Int /\ asked <= Horizon /\ Horizon \in Nat
  BY <1>1, TransactionAssumption
<1>3. /\ tran.addr = req.addr
      /\ tran.userTimeout = RequiredTimeout(req, asked)
      /\ tran.expected = InitialExpected(req, asked)
      /\ tran.finish = FALSE
  BY <1>1, Zenon DEF Construct
<1>4. /\ RequiredTimeout(req, asked) <= Horizon
      /\ DefaultTimeout <= Horizon
  BY <1>2, TimeoutAssumption, TransactionAssumption DEF RequiredTimeout
<1>5. req.addr # "coordinator" => RequiredTimeout(req, asked) >= DefaultTimeout
  BY <1>2, TimeoutAssumption DEF RequiredTimeout, ToCoordinator
<1>6. RequiredTimeout(req, asked) \in Int /\ DefaultTimeout \in Int
  BY <1>2, TimeoutAssumption DEF RequiredTimeout
<1>7. tran.expected = Patience
  BY <1>3 DEF Patience, InitialExpected, ToCoordinator
<1>8. Patience \in Int /\ Patience <= Horizon
  BY <1>3, <1>4, <1>6 DEF Patience
<1>9. exec = "idle" /\ ~TimedOut
  BY <1>3 DEF Init, TimedOut
<1> QED
  BY <1>3, <1>5, <1>7, <1>8, <1>9 DEF PatienceInv, Undecided, TimeoutNotEarly

LEMMA PatienceKept ==
    ASSUME SameRequest(tran, tran')
    PROVE  Patience' = Patience
  BY DEF SameRequest, Patience

\* The steps that do not decide, and after which the expected duration is
\* either what it was or at least the user's timeout.
LEMMA PatienceUndecided ==
    ASSUME PatienceInv, SameRequest(tran, tran'), ~tran'.finish,
           tran'.responded \/ (~tran.responded /\ exec # "done"),
           tran.responded => tran'.responded,
           Patience \in Int,
           tran'.expected \in Int, tran'.userTimeout \in Int,
           \/ tran'.expected = tran.expected
           \/ tran'.expected >= tran.userTimeout
           \/ tran'.responded,
           Undecided' /\ ~tran'.responded
              => sinceSent' + timer' >= Patience \/ sinceSent' >= Patience
    PROVE  PatienceInv'
<1>1. Patience' = Patience
  BY PatienceKept
<1>2. tran'.addr # "coordinator" => tran'.userTimeout >= DefaultTimeout
  BY DEF PatienceInv, SameRequest
<1>3. tran.userTimeout >= Patience
  BY DEF PatienceInv, Patience, SameRequest
<1>4. ~tran'.responded => tran'.expected >= Patience
  BY <1>3 DEF PatienceInv, SameRequest
<1>5. TimeoutNotEarly'
  BY DEF TimeoutNotEarly, TimedOut
<1> QED
  BY <1>1, <1>2, <1>4, <1>5 DEF PatienceInv

\* Once the executor is done, only the state of the object still changes.
LEMMA PatienceDone ==
    ASSUME PatienceInv, exec' = "done", SameRequest(tran, tran'),
           SameAnswers(tran, tran'), Patience \in Int,
           TimedOut' /\ ~tran.responded => sinceSent' >= Patience
    PROVE  PatienceInv'
<1>1. Patience' = Patience
  BY PatienceKept
<1>2. TimeoutNotEarly'
  BY <1>1 DEF TimeoutNotEarly, SameAnswers
<1> QED
  BY <1>1, <1>2 DEF PatienceInv, Undecided, SameRequest

LEMMA PatienceInductive ==
    ASSUME TypeOK, TypeOK', EvidenceInv, EvidenceInv', PatienceInv, [Next]_vars
    PROVE  PatienceInv'
<1>1. /\ tran.expected \in Nat /\ tran.userTimeout \in Nat
      /\ tran'.expected \in Nat /\ tran'.userTimeout \in Nat
      /\ timer \in Nat /\ sinceSent \in Nat /\ Horizon \in Nat
  BY TransactionAssumption DEF TypeOK, Transactions, Objects
<1>2. Patience \in Int
  BY <1>1, TimeoutAssumption DEF Patience
<1>3. exec # "done" <=> ~tran.finish
  BY DEF EvidenceInv, ThreadsAgree
<1>4. CASE ExecuteSend
  <2>1. exec = "idle" /\ exec' = "sending"
    BY <1>4 DEF ExecuteSend
  <2>2. ~tran'.finish
    BY <1>3, <1>4, <2>1, SendEffect
  <2> QED
    BY <1>1, <1>2, <1>4, <2>1, <2>2, SendEffect, PatienceUndecided
    DEF Undecided, SameAnswers
<1>5. CASE ExecuteRefuse
  <2>1. exec' = "done"
    BY <1>5 DEF ExecuteRefuse
  <2>2. ~TimedOut'
    BY <1>5, RefuseEffect DEF TimedOut
  <2> QED
    BY <1>2, <1>5, <2>1, <2>2, RefuseEffect, PatienceDone
<1>6. CASE SendReturns
  <2>1. exec = "sending" /\ UNCHANGED tran /\ timer' = tran.expected /\ UNCHANGED sinceSent
    BY <1>6 DEF SendReturns
  <2>2. ~tran.responded => sinceSent' + timer' >= Patience
    BY <1>1, <1>2, <2>1 DEF PatienceInv
  <2> QED
    BY <1>1, <1>2, <1>3, <2>1, <2>2, PatienceUndecided DEF SameRequest
<1>7. CASE SendFails
  <2>1. exec' = "done"
    BY <1>7 DEF SendFails
  <2>2. ~TimedOut'
    BY <1>7, SendFailsEffect DEF TimedOut, TRN_ERROR_IFACE, TRN_ERROR_TIMEOUT
  <2> QED
    BY <1>2, <1>7, <2>1, <2>2, SendFailsEffect, PatienceDone
<1>8. CASE Evaluate
  <2>1. Undecided /\ UNCHANGED sinceSent
    BY <1>8 DEF Evaluate, WaitOver, Undecided
  <2>2. CASE UNCHANGED tran /\ exec' = "waiting" /\ timer' = tran.expected
    <3>1. exec # "done"
      BY <2>1 DEF Undecided
    <3>2. ~tran.responded => sinceSent' + timer' >= Patience
      BY <1>1, <1>2, <2>1, <2>2, <3>1 DEF PatienceInv
    <3> QED
      BY <1>1, <1>2, <1>3, <2>2, <3>1, <3>2, PatienceUndecided DEF SameRequest
  <2>3. CASE /\ SameRequest(tran, tran')
             /\ SameAnswers(tran, tran')
             /\ exec' = "done"
             /\ Ended(tran, tran', timer = 0)
    <3>1. tran.responseCode # TRN_ERROR_TIMEOUT
      <4>1. tran.responseCode \in ResponseCodes \cup {TRN_OK}
        BY DEF TypeOK, Transactions, Objects
      <4>2. CASE tran.responseCode \in ResponseCodes
        BY <4>2, TransactionAssumption DEF TRN_ERROR_TIMEOUT
      <4>3. CASE tran.responseCode = TRN_OK
        BY <4>3 DEF TRN_OK, TRN_ERROR_TIMEOUT
      <4> QED
        BY <4>1, <4>2, <4>3
    <3>2. TimedOut' => timer = 0
      BY <2>3, <3>1 DEF TimedOut, Ended, TRN_ERROR_TIMEOUT, TRN_ERROR_ABORTED
    <3>3. TimedOut' /\ ~tran.responded => sinceSent' >= Patience
      BY <1>1, <1>2, <2>1, <3>2 DEF PatienceInv
    <3> QED
      BY <1>2, <2>3, <3>3, PatienceDone
  <2> QED
    BY <1>8, <2>2, <2>3, EvaluateEffect
<1>9. CASE \E m \in Messages : Receive(m)
  <2>1. PICK m \in Messages : Receive(m)
    BY <1>9
  <2>2. /\ UNCHANGED <<timer, sinceSent>>
        /\ exec' \in {exec, "woken"}
        /\ exec' # exec => exec = "waiting"
    BY <2>1, ReceiveEffect
  <2>3. Undecided' => Undecided
    BY <2>2 DEF Undecided
  <2>4. CASE UNCHANGED tran
    BY <2>2, <2>3, <2>4, <1>3
    DEF PatienceInv, Patience, TimeoutNotEarly, TimedOut, Undecided
  <2>5. CASE /\ SameRequest(tran, tran')
             /\ exec # "done"
             /\ tran'.finish = FALSE
             /\ Confirmed(tran, tran')
    <3>1. ~tran'.responded => ~tran.responded
      BY <2>5 DEF Confirmed
    <3>2. Undecided' /\ ~tran'.responded
            => sinceSent' + timer' >= Patience \/ sinceSent' >= Patience
      BY <2>2, <2>3, <3>1 DEF PatienceInv
    <3> QED
      BY <1>1, <1>2, <2>5, <3>2, PatienceUndecided DEF Confirmed
  <2>6. CASE /\ SameRequest(tran, tran')
             /\ exec # "done"
             /\ tran'.finish = FALSE
             /\ Responded(tran, tran', m.code)
    BY <1>1, <1>2, <2>6, PatienceUndecided DEF Responded
  <2> QED
    BY <2>1, <2>4, <2>5, <2>6, ReceiveEffect
<1>10. CASE Abort
  <2>1. UNCHANGED <<timer, sinceSent>>
    BY <1>10 DEF Abort
  <2>2. CASE exec = "done"
    <3>1. exec' = "done"
      BY <1>10, <2>2, AbortEffect
    <3>2. TimedOut' => TimedOut
      BY <1>10, AbortEffect DEF TimedOut
    <3>3. TimedOut' /\ ~tran.responded => sinceSent' >= Patience
      BY <2>1, <3>2 DEF PatienceInv, TimeoutNotEarly
    <3> QED
      BY <1>2, <1>10, <3>1, <3>3, AbortEffect, PatienceDone
  <2>3. CASE exec # "done"
    <3>1. ~tran'.finish /\ (Undecided' => Undecided)
      BY <1>3, <1>10, <2>3, AbortEffect DEF Undecided
    <3>2. tran'.responded = tran.responded /\ tran'.expected = tran.expected
      BY <1>10, AbortEffect DEF SameAnswers
    <3>3. Undecided' /\ ~tran'.responded
            => sinceSent' + timer' >= Patience \/ sinceSent' >= Patience
      BY <2>1, <3>1, <3>2 DEF PatienceInv
    <3> QED
      BY <1>1, <1>2, <1>10, <2>3, <3>1, <3>2, <3>3, AbortEffect, PatienceUndecided
  <2> QED
    BY <2>2, <2>3
<1>11. CASE Tick
  <2>1. /\ Undecided /\ UNCHANGED <<tran, exec>>
        /\ timer > 0 /\ timer' = timer - 1 /\ sinceSent' = Tock(sinceSent)
    BY <1>11 DEF Tick, Undecided
  <2>2. exec # "done"
    BY <2>1 DEF Undecided
  <2>3. ~tran.responded
          => sinceSent' + timer' >= Patience \/ sinceSent' >= Patience
    BY <1>1, <1>2, <2>1 DEF PatienceInv, Tock
  <2> QED
    BY <1>1, <1>2, <1>3, <2>1, <2>2, <2>3, PatienceUndecided DEF SameRequest
<1>12. CASE User \/ SpuriousWakeup \/ Over \/ UNCHANGED vars
  <2>1. /\ UNCHANGED <<tran, timer, sinceSent>>
        /\ \/ UNCHANGED exec
           \/ exec \in {"waiting", "woken"} /\ exec' \in {"waiting", "woken"}
    BY <1>12 DEF User, GetCall, GetStartWaitOver, GetReturn, SpuriousWakeup, Over, vars
  <2> QED
    BY <2>1 DEF PatienceInv, Patience, TimeoutNotEarly, TimedOut, Undecided
<1> QED
  BY <1>4, <1>5, <1>6, <1>7, <1>8, <1>9, <1>10, <1>11, <1>12
  DEF Next, Executor, Environment, DeviceConfirms, DeviceResponds, StaleMessage

\* A timeout without any response is not reported before the default timeout,
\* or the user's for the coordinator, has passed since the request was sent,
\* whatever woke the executor in between (DpaTransaction2.cpp:258-333).
THEOREM NoEarlyTimeout == Spec => []TimeoutNotEarly
<1>1. Init => PatienceInv
  BY PatienceInit
<1>2. TypeOK /\ TypeOK' /\ EvidenceInv /\ EvidenceInv' /\ PatienceInv /\ [Next]_vars
        => PatienceInv'
  BY PatienceInductive
<1>3. PatienceInv => TimeoutNotEarly
  BY DEF PatienceInv
<1> QED
  BY TypeCorrect, VerdictIsBacked, <1>1, <1>2, <1>3, PTL DEF Spec

-----------------------------------------------------------------------------
(* A recorded response is not lost.  Without left-over messages only the   *)
(* device answers, a response is its last word, and from then on the       *)
(* transaction does not await an answer any more.                          *)

AnsweredInv ==
    /\ stale = 0
    /\ exec \in {"idle", "sending"} => device = "silent"
    /\ tran.responded => device = "answered"
    /\ Undecided /\ tran.responded => tran.state \notin AwaitingAnswer
    /\ NoTimeoutAfterResponse

LEMMA AnsweredInit ==
    ASSUME MaxStale = 0, Init
    PROVE  AnsweredInv
<1>1. PICK req \in RequestSet, asked \in UserTimeouts, err \in DefaultErrors :
         tran = Construct(req, asked, err)
  BY DEF Init
<1>2. tran.responded = FALSE
  BY <1>1, Zenon DEF Construct
<1>3. exec = "idle" /\ device = "silent" /\ stale = 0
  BY DEF Init
<1> QED
  BY <1>2, <1>3 DEF AnsweredInv, NoTimeoutAfterResponse

\* The steps of the device's messages: all there are when nothing is stale.
LEMMA DeviceKeepsAnswered ==
    ASSUME TypeOK, EvidenceInv, AnsweredInv, DeviceConfirms \/ DeviceResponds
    PROVE  AnsweredInv'
<1>1. PICK m \in Messages : Receive(m)
  BY DEF DeviceConfirms, DeviceResponds
<1>2. /\ UNCHANGED stale
      /\ device \in {"asked", "confirmed"}
      /\ device' \in {"confirmed", "answered"}
      /\ DeviceResponds => device' = "answered"
  BY DEF DeviceConfirms, DeviceResponds
<1>3. exec \notin {"idle", "sending"} /\ ~tran.responded
  BY <1>2 DEF AnsweredInv
<1>4. exec' \in {exec, "woken"}
  BY <1>1, ReceiveEffect
<1>5. CASE ~tran'.responded
  BY <1>2, <1>3, <1>4, <1>5 DEF AnsweredInv, NoTimeoutAfterResponse
<1>6. CASE tran'.responded
  <2>1. tran'.finish = FALSE /\ Responded(tran, tran', m.code)
    BY <1>1, <1>3, <1>6, ReceiveEffect DEF Confirmed
  <2>2. DeviceResponds
    <3>1. CASE DeviceConfirms
      <4>1. PICK c \in Messages : c.kind = "confirmation" /\ Receive(c)
        BY <3>1 DEF DeviceConfirms
      <4>2. tran' = tran \/ tran' = AfterConfirmation(tran, c)
        BY <4>1 DEF Receive, ProcessReceivedMessage
      <4>3. AfterConfirmation(tran, c).responded = tran.responded
        BY Zenon DEF AfterConfirmation, TypeOK, Transactions, Objects
      <4> QED
        BY <1>3, <1>6, <4>2, <4>3
    <3> QED
      BY <3>1
  <2>3. ~TimedOut'
    BY <2>1 DEF TimedOut
  <2>4. tran'.state \notin AwaitingAnswer
    BY <2>1 DEF Responded, AwaitingAnswer
  <2> QED
    BY <1>2, <1>3, <1>4, <2>2, <2>3, <2>4 DEF AnsweredInv, NoTimeoutAfterResponse
<1> QED
  BY <1>5, <1>6

\* A verdict is a timeout only of a transaction that still awaited an answer.
LEMMA EvaluateKeepsAnswered ==
    ASSUME TypeOK, EvidenceInv, AnsweredInv, Evaluate
    PROVE  AnsweredInv'
<1>1. Undecided /\ UNCHANGED <<device, stale>>
  BY DEF Evaluate, WaitOver, Undecided
<1>2. CASE UNCHANGED tran /\ exec' = "waiting"
  BY <1>1, <1>2 DEF AnsweredInv, NoTimeoutAfterResponse, TimedOut, Undecided
<1>3. CASE /\ SameAnswers(tran, tran')
           /\ exec' = "done"
           /\ Ended(tran, tran', timer = 0)
  <2>1. tran.responseCode # TRN_ERROR_TIMEOUT
    <3>1. tran.responseCode \in ResponseCodes \cup {TRN_OK}
      BY DEF TypeOK, Transactions, Objects
    <3> QED
      BY <3>1, TransactionAssumption DEF TRN_OK, TRN_ERROR_TIMEOUT
  <2>2. TimedOut' => tran.state \in AwaitingAnswer
    BY <1>3, <2>1 DEF TimedOut, Ended, TRN_ERROR_TIMEOUT, TRN_ERROR_ABORTED
  <2>3. NoTimeoutAfterResponse'
    BY <1>1, <1>3, <2>2 DEF AnsweredInv, NoTimeoutAfterResponse, SameAnswers
  <2> QED
    BY <1>1, <1>3, <2>3 DEF AnsweredInv, Undecided, SameAnswers
<1> QED
  BY <1>2, <1>3, EvaluateEffect

LEMMA AnsweredInductive ==
    ASSUME TypeOK, EvidenceInv, AnsweredInv, [Next]_vars
    PROVE  AnsweredInv'
<1>1. CASE ExecuteSend
  <2>1. exec = "idle" /\ exec' = "sending" /\ UNCHANGED <<device, stale>>
    BY <1>1 DEF ExecuteSend
  <2>2. ~tran'.responded
    BY <1>1, <2>1, SendEffect DEF AnsweredInv, SameAnswers
  <2> QED
    BY <2>1, <2>2 DEF AnsweredInv, NoTimeoutAfterResponse
<1>2. CASE ExecuteRefuse \/ SendFails
  <2>1. exec \in {"idle", "sending"} /\ exec' = "done" /\ UNCHANGED <<device, stale>>
    BY <1>2 DEF ExecuteRefuse, SendFails
  <2>2. ~tran'.responded
    BY <1>2, <2>1, RefuseEffect, SendFailsEffect DEF AnsweredInv, SameAnswers
  <2> QED
    BY <2>1, <2>2 DEF AnsweredInv, NoTimeoutAfterResponse
<1>3. CASE SendReturns
  <2>1. /\ exec = "sending" /\ exec' = "waiting" /\ UNCHANGED <<tran, stale>>
    BY <1>3 DEF SendReturns
  <2>2. ~tran.responded
    BY <2>1 DEF AnsweredInv
  <2> QED
    BY <2>1, <2>2 DEF AnsweredInv, NoTimeoutAfterResponse
<1>4. CASE Evaluate
  BY <1>4, EvaluateKeepsAnswered
<1>5. CASE DeviceConfirms \/ DeviceResponds
  BY <1>5, DeviceKeepsAnswered
<1>6. CASE StaleMessage
  BY <1>6 DEF StaleMessage, AnsweredInv
<1>7. CASE Abort
  <2>1. UNCHANGED <<device, stale>> /\ exec' \in {exec, "woken"} /\ (exec' # exec => exec = "waiting")
    BY <1>7, AbortEffect DEF Abort
  <2>2. tran'.responded = tran.responded /\ tran'.state = "kAborted"
    BY <1>7, AbortEffect DEF SameAnswers
  <2>3. TimedOut' => TimedOut
    BY <1>7, AbortEffect DEF TimedOut
  <2> QED
    BY <2>1, <2>2, <2>3 DEF AnsweredInv, NoTimeoutAfterResponse, AwaitingAnswer
<1>8. CASE User \/ SpuriousWakeup \/ Tick \/ Over \/ UNCHANGED vars
  <2>1. /\ UNCHANGED <<tran, device>>
        /\ \/ UNCHANGED exec
           \/ exec \in {"waiting", "woken"} /\ exec' \in {"waiting", "woken"}
        /\ UNCHANGED stale
    BY <1>8 DEF User, GetCall, GetStartWaitOver, GetReturn, SpuriousWakeup, Tick, Over, vars
  <2> QED
    BY <2>1 DEF AnsweredInv, NoTimeoutAfterResponse, TimedOut, Undecided
<1> QED
  BY <1>1, <1>2, <1>3, <1>4, <1>5, <1>6, <1>7, <1>8 DEF Next, Executor, Environment

\* When nothing is left over from earlier transactions, a transaction whose
\* response was recorded does not end as a timeout, whenever its deadline
\* passes (DpaTransaction2.cpp:269-309 against 426-456).
THEOREM ResponseIsKept ==
    ASSUME MaxStale = 0
    PROVE  Spec => []NoTimeoutAfterResponse
<1>1. Init => AnsweredInv
  BY AnsweredInit
<1>2. TypeOK /\ EvidenceInv /\ AnsweredInv /\ [Next]_vars => AnsweredInv'
  BY AnsweredInductive
<1>3. AnsweredInv => NoTimeoutAfterResponse
  BY DEF AnsweredInv
<1> QED
  BY TypeCorrect, VerdictIsBacked, <1>1, <1>2, <1>3, PTL DEF Spec

-----------------------------------------------------------------------------
(* An undisturbed wait is a full one.  What is left of a wait and what has *)
(* passed since the last message make up the expected duration, which the  *)
(* clocks can count.                                                       *)

ClocksReach == \A e \in Estimates : e <= Horizon

WaitInv ==
    /\ tran.userTimeout <= Horizon
    /\ exec # "done" => tran.expected <= Horizon
    /\ exec = "waiting"
          => quiet + timer >= tran.expected \/ quiet >= tran.expected

LEMMA WaitInit == Init => WaitInv
<1> SUFFICES ASSUME Init PROVE WaitInv
  OBVIOUS
<1>1. PICK req \in RequestSet, asked \in UserTimeouts, err \in DefaultErrors :
         tran = Construct(req, asked, err)
  BY DEF Init
<1>2. /\ tran.userTimeout = RequiredTimeout(req, asked)
      /\ tran.expected = InitialExpected(req, asked)
  BY <1>1, Zenon DEF Construct
<1>3. RequiredTimeout(req, asked) <= Horizon /\ DefaultTimeout <= Horizon
  BY <1>1, TimeoutAssumption, TransactionAssumption DEF RequiredTimeout
<1>4. exec = "idle"
  BY DEF Init
<1> QED
  BY <1>2, <1>3, <1>4 DEF WaitInv, InitialExpected

\* A message leaves the expected duration, or makes it the user's timeout or
\* the estimate.
LEMMA ReceivedExpected ==
    ASSUME tran \in Transactions, NEW m \in Messages, Receive(m)
    PROVE  tran'.expected \in {tran.expected, tran.userTimeout, m.estimate}
<1>1. tran' \in {tran, AfterConfirmation(tran, m), AfterResponse(tran, m)}
  BY DEF Receive, ProcessReceivedMessage
<1>2. AfterConfirmation(tran, m).expected
        \in {tran.expected, tran.userTimeout, m.estimate}
  BY DEF AfterConfirmation, Transactions, Objects
<1>3. AfterResponse(tran, m).expected \in {tran.expected, m.estimate}
  BY DEF AfterResponse, Transactions, Objects
<1> QED
  BY <1>1, <1>2, <1>3

LEMMA WaitInductive ==
    ASSUME ClocksReach, TypeOK, TypeOK', EvidenceInv, WaitInv, [Next]_vars
    PROVE  WaitInv'
<1>1. /\ tran.expected \in Nat /\ tran.userTimeout \in Nat
      /\ timer \in Nat /\ quiet \in 0 .. Horizon /\ Horizon \in Nat
      /\ tran'.expected \in Nat /\ quiet' \in 0 .. Horizon
  BY TransactionAssumption DEF TypeOK, Transactions, Objects
<1>2. CASE ExecuteSend
  <2>1. exec = "idle" /\ exec' = "sending"
    BY <1>2 DEF ExecuteSend
  <2> QED
    BY <1>2, <2>1, SendEffect DEF WaitInv, SameRequest
<1>3. CASE ExecuteRefuse \/ SendFails
  <2>1. exec' = "done" /\ SameRequest(tran, tran')
    BY <1>3, RefuseEffect, SendFailsEffect DEF ExecuteRefuse, SendFails
  <2> QED
    BY <2>1 DEF WaitInv, SameRequest
<1>4. CASE SendReturns
  BY <1>1, <1>4 DEF SendReturns, WaitInv
<1>5. CASE Evaluate
  <2>1. exec # "done" /\ UNCHANGED quiet
    BY <1>5 DEF Evaluate, WaitOver
  <2>2. CASE UNCHANGED tran /\ exec' = "waiting" /\ timer' = tran.expected
    BY <1>1, <2>1, <2>2 DEF WaitInv
  <2>3. CASE exec' = "done" /\ SameRequest(tran, tran')
    BY <2>3 DEF WaitInv, SameRequest
  <2> QED
    BY <1>5, <2>2, <2>3, EvaluateEffect
<1>6. CASE DeviceConfirms \/ DeviceResponds \/ StaleMessage
  <2>1. PICK m \in Messages : Receive(m)
    BY <1>6 DEF DeviceConfirms, DeviceResponds, StaleMessage
  <2>2. m.estimate <= Horizon /\ m.estimate \in Nat
    BY TransactionAssumption DEF ClocksReach, Messages, Message
  <2>3. tran'.userTimeout = tran.userTimeout
    BY <2>1, ReceiveEffect DEF SameRequest
  <2>4. exec # "done" => tran'.expected <= Horizon
    BY <1>1, <2>1, <2>2, ReceivedExpected DEF WaitInv, TypeOK
  <2>5. exec' = "waiting" => UNCHANGED <<tran, exec, timer, quiet>>
    BY <2>1 DEF Receive, ProcessReceivedMessage, Woken
  <2>6. exec' \in {exec, "woken"} /\ (exec' # exec => exec = "waiting")
    BY <2>1, ReceiveEffect
  <2> QED
    BY <2>3, <2>4, <2>5, <2>6 DEF WaitInv
<1>7. CASE Abort
  <2>1. exec' # "waiting" /\ (exec' # "done" => exec # "done")
    BY <1>7 DEF Abort, Woken
  <2> QED
    BY <1>7, <2>1, AbortEffect DEF WaitInv, SameRequest
<1>8. CASE Tick
  <2>1. /\ UNCHANGED <<tran, exec>> /\ timer > 0
        /\ timer' = timer - 1 /\ quiet' = Tock(quiet) /\ exec # "done"
    BY <1>8 DEF Tick
  <2> QED
    BY <1>1, <2>1 DEF WaitInv, Tock
<1>9. CASE User \/ SpuriousWakeup \/ Over \/ UNCHANGED vars
  <2>1. /\ UNCHANGED <<tran, timer, quiet>>
        /\ UNCHANGED exec \/ (exec = "waiting" /\ exec' = "woken")
    BY <1>9 DEF User, GetCall, GetStartWaitOver, GetReturn, SpuriousWakeup, Over, vars
  <2> QED
    BY <2>1 DEF WaitInv
<1> QED
  BY <1>2, <1>3, <1>4, <1>5, <1>6, <1>7, <1>8, <1>9 DEF Next, Executor, Environment

\* Only the executor's evaluation ends a transaction whose wait it is in.
LEMMA UndisturbedStep ==
    ASSUME TypeOK, EvidenceInv, WaitInv, [Next]_vars,
           exec = "waiting", ~tran.finish, tran'.finish
    PROVE  quiet >= tran.expected
<1>1. CASE Evaluate
  <2>1. timer = 0
    BY <1>1 DEF Evaluate, WaitOver
  <2>2. tran.expected \in Nat /\ quiet \in Nat
    BY TransactionAssumption DEF TypeOK, Transactions, Objects
  <2> QED
    BY <2>1, <2>2 DEF WaitInv
<1>2. CASE \E m \in Messages : Receive(m)
  BY <1>2, ReceiveEffect
<1>3. CASE Abort
  BY <1>3, AbortEffect
<1>4. ~(ExecuteSend \/ ExecuteRefuse \/ SendReturns \/ SendFails)
  BY DEF ExecuteSend, ExecuteRefuse, SendReturns, SendFails
<1>5. CASE User \/ SpuriousWakeup \/ Tick \/ Over \/ UNCHANGED vars
  BY <1>5 DEF User, GetCall, GetStartWaitOver, GetReturn, SpuriousWakeup, Tick, Over, vars
<1> QED
  BY <1>1, <1>2, <1>3, <1>4, <1>5
  DEF Next, Executor, Environment, DeviceConfirms, DeviceResponds, StaleMessage

\* With clocks that count as far as every estimate, a wait that nothing
\* disturbs ends the transaction only after the whole expected duration,
\* although m_expectedDurationMs may change while the executor waits
\* (DpaTransaction2.cpp:264-271 with 409, 413 and 446).
THEOREM WaitIsFull ==
    ASSUME ClocksReach
    PROVE  Spec => UndisturbedWaitIsFull
<1>1. Init => WaitInv
  BY WaitInit
<1>2. TypeOK /\ TypeOK' /\ EvidenceInv /\ WaitInv /\ [Next]_vars => WaitInv'
  BY WaitInductive
<1>3. TypeOK /\ EvidenceInv /\ WaitInv /\ [Next]_vars
        => [exec = "waiting" /\ ~tran.finish /\ tran'.finish
              => quiet >= tran.expected]_vars
  BY UndisturbedStep
<1> QED
  BY TypeCorrect, VerdictIsBacked, <1>1, <1>2, <1>3, PTL DEF Spec, UndisturbedWaitIsFull

-----------------------------------------------------------------------------
(* The executor sleeps only on a transaction that has to wait, and every   *)
(* step brings it nearer its end.                                          *)

SleepInv ==
    /\ exec = "waiting" => tran.state \in Unfinished
    /\ exec \in {"idle", "sending"} => device = "silent"

\* An evaluation that does not end the transaction has found it waiting.
LEMMA EvaluateRests ==
    ASSUME TypeOK, EvidenceInv, Evaluate, exec' # "done"
    PROVE  /\ UNCHANGED tran
           /\ exec' = "waiting"
           /\ tran.state \in Unfinished
           /\ timer = 0 => ExpiredState(tran) \in Unfinished
<1>1. /\ tran \in Objects(ResponseCodes)
      /\ ~tran.finish
      /\ tran' = Evaluated(tran, timer = 0)
      /\ ~tran'.finish
  BY DEF Evaluate, WaitOver, EvidenceInv, ThreadsAgree, TypeOK, Transactions
<1>2. exec' = "waiting"
  BY <1>1 DEF Evaluate
<1>3. /\ UNCHANGED tran
      /\ (IF timer = 0 THEN ExpiredState(tran) ELSE tran.state) \in Unfinished
  <2>1. (timer = 0) \in BOOLEAN
    OBVIOUS
  <2> QED
    BY <1>1, <2>1, EvaluationGoesOn, TransactionAssumption
<1>4. ExpiredState(tran) \in Unfinished => tran.state \in Unfinished
  BY DEF ExpiredState, Unfinished, AwaitingAnswer, Settling
<1> QED
  BY <1>2, <1>3, <1>4

LEMMA SleepInductive ==
    ASSUME TypeOK, EvidenceInv, SleepInv, [Next]_vars
    PROVE  SleepInv'
<1>1. CASE ExecuteSend \/ ExecuteRefuse \/ SendFails
  BY <1>1 DEF ExecuteSend, ExecuteRefuse, SendFails, SleepInv
<1>2. CASE SendReturns
  BY <1>2 DEF SendReturns, SleepInv, EvidenceInv, ThreadsAgree, Unfinished, AwaitingAnswer
<1>3. CASE Evaluate
  <2>1. exec' \in {"done", "waiting"}
    BY <1>3 DEF Evaluate
  <2> QED
    BY <1>3, <2>1, EvaluateRests DEF SleepInv
<1>4. CASE DeviceConfirms \/ DeviceResponds \/ StaleMessage
  <2>1. PICK m \in Messages : Receive(m)
    BY <1>4 DEF DeviceConfirms, DeviceResponds, StaleMessage
  <2>2. /\ exec' = "waiting" => UNCHANGED <<tran, exec>>
        /\ exec' \in {exec, "woken"}
    BY <2>1 DEF Receive, ProcessReceivedMessage, Woken
  <2>3. device \in {"asked", "confirmed"} \/ UNCHANGED device
    BY <1>4 DEF DeviceConfirms, DeviceResponds, StaleMessage
  <2> QED
    BY <2>2, <2>3 DEF SleepInv
<1>5. CASE Abort
  BY <1>5 DEF Abort, Woken, SleepInv
<1>6. CASE User \/ SpuriousWakeup \/ Tick \/ Over \/ UNCHANGED vars
  <2>1. UNCHANGED <<tran, device>> /\ (exec' = exec \/ exec' = "woken")
    BY <1>6 DEF User, GetCall, GetStartWaitOver, GetReturn, SpuriousWakeup, Tick, Over, vars
  <2> QED
    BY <2>1 DEF SleepInv
<1> QED
  BY <1>1, <1>2, <1>3, <1>4, <1>5, <1>6 DEF Next, Executor, Environment

LEMMA SleepInvariant == Spec => []SleepInv
<1>1. Init => SleepInv
  BY DEF Init, SleepInv
<1>2. TypeOK /\ EvidenceInv /\ SleepInv /\ [Next]_vars => SleepInv'
  BY SleepInductive
<1> QED
  BY TypeCorrect, VerdictIsBacked, <1>1, <1>2, PTL DEF Spec

\* No message and no abort is left unnoticed until the deadline: whenever the
\* executor sleeps, a look at the state would send it back to sleep
\* (DpaTransaction2.cpp:266, a wait without a predicate).
THEOREM SleepsRightly == Spec => []NothingMissed
<1>1. TypeOK /\ EvidenceInv /\ SleepInv => NothingMissed
  <2> SUFFICES ASSUME TypeOK, EvidenceInv, SleepInv, exec = "waiting"
               PROVE  ~Evaluated(tran, FALSE).finish
    BY DEF NothingMissed
  <2>1. tran \in Objects(ResponseCodes) /\ ~tran.finish /\ tran.state \in Unfinished
    BY DEF TypeOK, Transactions, EvidenceInv, ThreadsAgree, SleepInv
  <2> QED
    BY <2>1, EvaluationGoesOn, TransactionAssumption
<1> QED
  BY TypeCorrect, VerdictIsBacked, SleepInvariant, <1>1, PTL

\* The events that are left are numbers; one that happens is not left.
LEMMA EventsCounted ==
    ASSUME TypeOK, TypeOK'
    PROVE  /\ EventsLeft \in Int /\ EventsLeft' \in Int
           /\ UNCHANGED <<stale, spurious, aborted, device>> => EventsLeft' = EventsLeft
<1>1. DeviceLeft \in Int /\ DeviceLeft' \in Int
  BY DEF TypeOK, DeviceLeft
<1>2. /\ stale \in Int /\ stale' \in Int
      /\ spurious \in Int /\ spurious' \in Int
  BY TransactionAssumption DEF TypeOK
<1>3. EventsLeft \in Int /\ EventsLeft' \in Int
  BY <1>1, <1>2 DEF EventsLeft
<1>4. UNCHANGED device => DeviceLeft' = DeviceLeft
  BY DEF DeviceLeft
<1>5. UNCHANGED <<stale, spurious, aborted, device>> => EventsLeft' = EventsLeft
  BY <1>4 DEF EventsLeft
<1> QED
  BY <1>3, <1>5

LEMMA LessInOne ==
    ASSUME NEW a \in Int, NEW b \in Int, NEW c \in Int, NEW d \in Int
    PROVE  /\ \A less \in Int : less < a => less + b + c + d < a + b + c + d
           /\ \A less \in Int : less < b => a + less + c + d < a + b + c + d
           /\ \A less \in Int : less < c => a + b + less + d < a + b + c + d
           /\ \A less \in Int : less < d => a + b + c + less < a + b + c + d
  OBVIOUS

LEMMA EventHappens ==
    ASSUME TypeOK, TypeOK',
           \/ /\ UNCHANGED <<stale, spurious, aborted>>
              /\ \/ device = "silent" /\ device' = "asked"
                 \/ device = "asked" /\ device' \in {"confirmed", "answered"}
                 \/ device = "confirmed" /\ device' = "answered"
           \/ stale' = stale - 1 /\ UNCHANGED <<spurious, aborted, device>>
           \/ spurious' = spurious - 1 /\ UNCHANGED <<stale, aborted, device>>
           \/ ~aborted /\ aborted' /\ UNCHANGED <<stale, spurious, device>>
    PROVE  EventsLeft' < EventsLeft
<1> DEFINE abortLeft == IF aborted THEN 0 ELSE 1
<1>1. /\ stale \in Int /\ spurious \in Int /\ stale' \in Int /\ spurious' \in Int
      /\ DeviceLeft \in Int /\ DeviceLeft' \in Int
      /\ abortLeft \in Int /\ abortLeft' \in Int
  BY TransactionAssumption DEF TypeOK, DeviceLeft
<1>2. /\ EventsLeft = stale + spurious + abortLeft + DeviceLeft
      /\ EventsLeft' = stale' + spurious' + abortLeft' + DeviceLeft'
  BY DEF EventsLeft
<1>3. UNCHANGED device => DeviceLeft' = DeviceLeft
  BY DEF DeviceLeft
<1>4. aborted' = aborted => abortLeft' = abortLeft
  <2>1. aborted' = aborted => (aborted' <=> aborted)
    BY SMT DEF TypeOK
  <2>2. (aborted' <=> aborted) => abortLeft' = abortLeft
    BY Zenon
  <2> QED
    BY <2>1, <2>2
<1>5. ~aborted /\ aborted' => abortLeft' < abortLeft
  BY SMT
<1> HIDE DEF abortLeft
<1>6. CASE UNCHANGED <<stale, spurious, aborted>> /\ device' # device
  <2>1. DeviceLeft' < DeviceLeft
    BY <1>6 DEF DeviceLeft
  <2>2. UNCHANGED <<stale, spurious, abortLeft>>
    BY <1>4, <1>6
  <2> QED
    BY <1>1, <1>2, <2>1, <2>2, LessInOne, Zenon
<1>7. CASE stale' = stale - 1 /\ UNCHANGED <<spurious, aborted, device>>
  <2>1. stale' < stale
    BY <1>1, <1>7
  <2>2. UNCHANGED <<spurious, abortLeft, DeviceLeft>>
    BY <1>3, <1>4, <1>7
  <2> QED
    BY <1>1, <1>2, <2>1, <2>2, LessInOne, Zenon
<1>8. CASE spurious' = spurious - 1 /\ UNCHANGED <<stale, aborted, device>>
  <2>1. spurious' < spurious
    BY <1>1, <1>8
  <2>2. UNCHANGED <<stale, abortLeft, DeviceLeft>>
    BY <1>3, <1>4, <1>8
  <2> QED
    BY <1>1, <1>2, <2>1, <2>2, LessInOne, Zenon
<1>9. CASE ~aborted /\ aborted' /\ UNCHANGED <<stale, spurious, device>>
  <2>1. abortLeft' < abortLeft
    BY <1>5, <1>9
  <2>2. UNCHANGED <<stale, spurious, DeviceLeft>>
    BY <1>3, <1>9
  <2> QED
    BY <1>1, <1>2, <2>1, <2>2, LessInOne, Zenon
<1> QED
  BY <1>6, <1>7, <1>8, <1>9

LEMMA StepCounts ==
    ASSUME TypeOK, TypeOK', EvidenceInv, SleepInv, [Next]_vars,
           <<tran, exec, timer>>' # <<tran, exec, timer>>
    PROVE  \/ Nearer
           \/ tran.infinite /\ tran.state \in AwaitingAnswer /\ exec = "waiting" /\ timer = 0
<1>1. CASE ExecuteSend \/ ExecuteRefuse \/ SendFails
  <2>1. /\ UNCHANGED <<stale, spurious, aborted, device>>
        /\ exec \in {"idle", "sending"} /\ exec' \in {"sending", "done"} /\ exec' # exec
    BY <1>1 DEF ExecuteSend, ExecuteRefuse, SendFails
  <2>2. ExecutorLeft' < ExecutorLeft
    BY <2>1 DEF ExecutorLeft
  <2> QED
    BY <2>1, <2>2, EventsCounted DEF Nearer
<1>2. CASE SendReturns
  <2>1. /\ UNCHANGED <<stale, spurious, aborted>>
        /\ device = "silent" /\ device' = "asked"
    BY <1>2 DEF SendReturns, SleepInv
  <2> QED
    BY <2>1, EventHappens DEF Nearer
<1>3. CASE Evaluate
  <2>1. UNCHANGED <<stale, spurious, aborted, device>>
    BY <1>3 DEF Evaluate
  <2>2. EventsLeft' = EventsLeft
    BY <2>1, EventsCounted
  <2>3. exec = "woken" \/ (exec = "waiting" /\ timer = 0)
    BY <1>3 DEF Evaluate, WaitOver
  <2>4. CASE exec = "woken" \/ exec' = "done"
    <3>1. exec' \in {"done", "waiting"}
      BY <1>3 DEF Evaluate
    <3>2. ExecutorLeft' < ExecutorLeft
      BY <2>3, <2>4, <3>1 DEF ExecutorLeft
    <3> QED
      BY <2>2, <3>2 DEF Nearer
  <2>5. CASE exec = "waiting" /\ exec' # "done"
    <3>1. tran.state \in Unfinished /\ ExpiredState(tran) \in Unfinished
      BY <1>3, <2>3, <2>5, EvaluateRests
    <3> QED
      BY <2>3, <2>5, <3>1, ExpiryEnds
  <2> QED
    BY <2>3, <2>4, <2>5
<1>4. CASE DeviceConfirms \/ DeviceResponds
  <2>1. /\ UNCHANGED <<stale, spurious, aborted>>
        /\ \/ device = "asked" /\ device' \in {"confirmed", "answered"}
           \/ device = "confirmed" /\ device' = "answered"
    BY <1>4 DEF DeviceConfirms, DeviceResponds, Receive
  <2> QED
    BY <2>1, EventHappens DEF Nearer
<1>5. CASE StaleMessage \/ Abort \/ SpuriousWakeup
  <2>1. \/ stale' = stale - 1 /\ UNCHANGED <<spurious, aborted, device>>
        \/ spurious' = spurious - 1 /\ UNCHANGED <<stale, aborted, device>>
        \/ ~aborted /\ aborted' /\ UNCHANGED <<stale, spurious, device>>
    BY <1>5 DEF StaleMessage, Abort, SpuriousWakeup, Receive
  <2> QED
    BY <2>1, EventHappens DEF Nearer
<1>6. CASE Tick
  <2>1. /\ UNCHANGED <<stale, spurious, aborted, device, exec>>
        /\ timer' = timer - 1
    BY <1>6 DEF Tick
  <2>2. timer' < timer
    BY <2>1 DEF TypeOK
  <2>3. ExecutorLeft' = ExecutorLeft
    BY <2>1 DEF ExecutorLeft
  <2> QED
    BY <2>1, <2>2, <2>3, EventsCounted DEF Nearer
<1>7. CASE User \/ Over \/ UNCHANGED vars
  BY <1>7 DEF User, GetCall, GetStartWaitOver, GetReturn, Over, vars
<1> QED
  BY <1>1, <1>2, <1>3, <1>4, <1>5, <1>6, <1>7 DEF Next, Executor, Environment

\* However messages, aborts, wakeups and deadlines interleave, execute() makes
\* finitely many steps (DpaTransaction2.cpp:260-334), unless the transaction is
\* infinite and has no answer: what FiniteReturns, ResponseEnds and AbortEnds
\* rest on apart from the scheduler's fairness.
THEOREM NoEndlessLoop == Spec => EveryStepCounts
<1>1. TypeOK /\ TypeOK' /\ EvidenceInv /\ SleepInv /\ [Next]_vars
        => [<<tran, exec, timer>>' # <<tran, exec, timer>> =>
              \/ Nearer
              \/ /\ tran.infinite
                 /\ tran.state \in AwaitingAnswer
                 /\ exec = "waiting"
                 /\ timer = 0]_vars
  BY StepCounts
<1> QED
  BY TypeCorrect, VerdictIsBacked, SleepInvariant, <1>1, PTL DEF Spec, EveryStepCounts

=============================================================================
