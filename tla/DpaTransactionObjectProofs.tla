--------------------- MODULE DpaTransactionObjectProofs ---------------------
(***************************************************************************)
(* Lemmas about the methods of DpaTransaction2 as DpaTransactionObject has *)
(* them, for any set of response codes and estimates: what they make of an *)
(* object is an object, and which of its fields they change.               *)
(***************************************************************************)
EXTENDS DpaTransactionObject, TLAPS

-----------------------------------------------------------------------------
(* What the methods of the object make of a transaction is a transaction.  *)

LEMMA CodeIsInt ==
    ASSUME NEW Codes, Codes \subseteq Nat, NEW c \in Codes \cup {TRN_OK}
    PROVE  c \in Int
<1>1. CASE c \in Codes
  BY <1>1
<1>2. CASE c = TRN_OK
  BY <1>2 DEF TRN_OK
<1> QED
  BY <1>1, <1>2

LEMMA ConstructTyped ==
    ASSUME NEW Codes, NEW req \in Requests, NEW usr \in Int, NEW err \in Int
    PROVE  Construct(req, usr, err) \in Objects(Codes)
<1>1. RequiredTimeout(req, usr) \in Nat
  BY TimeoutAssumption DEF RequiredTimeout
<1>2. InitialExpected(req, usr) \in Nat
  BY <1>1, TimeoutAssumption DEF InitialExpected
<1>3. IsInfinite(req, usr) \in BOOLEAN
  BY Zenon DEF IsInfinite
<1>4. req.addr \in Addresses /\ req.cmd \in Commands
  BY DEF Requests
<1>5. "kCreated" \in States /\ TRN_ERROR_ABORTED \in Int
  BY DEF States, TRN_ERROR_ABORTED
<1> QED
  BY <1>1, <1>2, <1>3, <1>4, <1>5, Zenon DEF Construct, Objects

LEMMA SentTyped ==
    ASSUME NEW Codes, Codes \subseteq Nat, NEW t \in Objects(Codes)
    PROVE  Sent(t) \in Objects(Codes)
  BY DEF Sent, Objects, States

LEMMA AbortedTyped ==
    ASSUME NEW Codes, Codes \subseteq Nat, NEW t \in Objects(Codes)
    PROVE  Aborted(t) \in Objects(Codes)
  BY DEF Aborted, Objects, States

LEMMA ReceivedTyped ==
    ASSUME NEW Codes, Codes \subseteq Nat, NEW t \in Objects(Codes),
           NEW Estimates, Estimates \subseteq Nat \ {0},
           NEW m \in Message(Estimates, Codes)
    PROVE  ProcessReceivedMessage(t, m) \in Objects(Codes)
<1>1. m.estimate \in Nat /\ m.code \in Codes
  BY DEF Message
<1>2. AfterConfirmation(t, m) \in Objects(Codes)
  BY <1>1, Zenon DEF AfterConfirmation, Objects, States
<1>3. AfterResponse(t, m) \in Objects(Codes)
  BY <1>1, Zenon DEF AfterResponse, Objects, States
<1> QED
  BY <1>2, <1>3 DEF ProcessReceivedMessage

LEMMA FinishTyped ==
    ASSUME NEW Codes, Codes \subseteq Nat, NEW t \in Objects(Codes), NEW err \in Int
    PROVE  Finish(t, err) \in Objects(Codes)
<1>1. t.responseCode \in Int
  BY CodeIsInt DEF Objects
<1> QED
  BY <1>1, Zenon DEF Finish, Objects

LEMMA EvaluatedTyped ==
    ASSUME NEW Codes, Codes \subseteq Nat, NEW t \in Objects(Codes), NEW expired \in BOOLEAN
    PROVE  Evaluated(t, expired) \in Objects(Codes)
<1> DEFINE next == [t EXCEPT !.state = IF expired THEN ExpiredState(t) ELSE @]
<1>1. next \in Objects(Codes)
  BY DEF ExpiredState, Objects, States
<1>2. ErrorOfState(next) \in Int
  BY <1>1 DEF ErrorOfState, Objects, TRN_OK, TRN_ERROR_TIMEOUT, TRN_ERROR_ABORTED,
              TRN_ERROR_IFACE
<1>3. Finish(next, ErrorOfState(next)) \in Objects(Codes)
  BY <1>1, <1>2, FinishTyped
<1> QED
  BY <1>3 DEF Evaluated

-----------------------------------------------------------------------------
(* What the methods of the object do, field by field.                      *)

SameRequest(t, u) ==
    /\ u.addr = t.addr
    /\ u.infinite = t.infinite
    /\ u.userTimeout = t.userTimeout

SameAnswers(t, u) ==
    /\ u.confirmed = t.confirmed
    /\ u.responded = t.responded
    /\ u.responseCode = t.responseCode

Confirmed(t, u) ==
    /\ u.confirmed = TRUE
    /\ u.responded = t.responded
    /\ u.responseCode = t.responseCode
    /\ u.state = IF t.addr = "broadcast" THEN "kConfirmationBroadcast"
                                         ELSE "kConfirmation"
    /\ u.expected >= t.userTimeout

Responded(t, u, code) ==
    /\ u.responded = TRUE
    /\ u.responseCode = code
    /\ u.confirmed = t.confirmed
    /\ u.state \in {"kReceivedResponse", "kProcessed"}

LEMMA ReceivedEffect ==
    ASSUME NEW Codes, NEW t \in Objects(Codes), NEW m, m.estimate \in Nat \ {0},
           NEW u, u = ProcessReceivedMessage(t, m), u # t
    PROVE  /\ SameRequest(t, u)
           /\ u.defaultError = t.defaultError
           /\ ~t.finish
           /\ u.finish = t.finish
           /\ Confirmed(t, u) \/ Responded(t, u, m.code)
<1>1. Accepts(t, m)
  BY DEF ProcessReceivedMessage
<1>2. ~t.finish
  BY <1>1 DEF Accepts
<1>3. CASE m.kind = "confirmation"
  <2>1. u = AfterConfirmation(t, m)
    BY <1>1, <1>3 DEF ProcessReceivedMessage
  <2>2. m.estimate \in Nat \ {0}
    OBVIOUS
  <2>3. t.userTimeout \in Nat
    BY DEF Objects
  <2>4. u.expected >= t.userTimeout
    BY <2>1, <2>2, <2>3 DEF AfterConfirmation, Objects
  <2>5. /\ SameRequest(t, u)
        /\ u.defaultError = t.defaultError
        /\ u.finish = t.finish
    BY <2>1, Zenon DEF AfterConfirmation, Objects, SameRequest
  <2>6. Confirmed(t, u)
    BY <2>1, <2>4, Zenon DEF AfterConfirmation, Objects, Confirmed
  <2> QED
    BY <1>2, <2>5, <2>6
<1>4. CASE m.kind # "confirmation"
  <2>1. u = AfterResponse(t, m)
    BY <1>1, <1>4 DEF ProcessReceivedMessage
  <2>2. /\ SameRequest(t, u)
        /\ u.defaultError = t.defaultError
        /\ u.finish = t.finish
    BY <2>1, Zenon DEF AfterResponse, Objects, SameRequest
  <2>3. Responded(t, u, m.code)
    BY <2>1, Zenon DEF AfterResponse, Objects, Responded
  <2> QED
    BY <1>2, <2>2, <2>3
<1> QED
  BY <1>3, <1>4

\* How an evaluation can end a transaction.
Ended(t, u, expired) ==
    \/ t.state = "kProcessed" /\ u.errorCode = t.responseCode
    \/ t.state \in Settling /\ expired /\ u.errorCode = t.responseCode
    \/ /\ t.state \in AwaitingAnswer
       /\ expired
       /\ ~t.infinite
       /\ u.errorCode = TRN_ERROR_TIMEOUT
    \/ t.state = "kAborted" /\ u.errorCode = TRN_ERROR_ABORTED

LEMMA EvaluatedEffect ==
    ASSUME NEW Codes, NEW t \in Objects(Codes),
           NEW expired \in BOOLEAN, NEW u,
           u = Evaluated(t, expired), u # t,
           t.state \in AwaitingAnswer \cup Settling \cup {"kProcessed", "kAborted"}
    PROVE  /\ SameRequest(t, u)
           /\ SameAnswers(t, u)
           /\ u.defaultError = t.defaultError
           /\ u.finish = TRUE
           /\ Ended(t, u, expired)
<1> DEFINE after == IF expired THEN ExpiredState(t) ELSE t.state
           next == [t EXCEPT !.state = after]
           err == ErrorOfState(next)
<1>1. u = Finish(next, err) /\ after \notin Unfinished
  <2>1. next = [t EXCEPT !.state = IF expired THEN ExpiredState(t) ELSE @]
    BY Zenon
  <2>2. next.state = after
    BY DEF Objects
  <2> QED
    BY <2>1, <2>2 DEF Evaluated
<1>2. /\ next.state = after
      /\ SameRequest(t, next)
      /\ SameAnswers(t, next)
      /\ next.defaultError = t.defaultError
  BY Zenon DEF Objects, SameRequest, SameAnswers
<1>3. /\ SameRequest(t, u)
      /\ SameAnswers(t, u)
      /\ u.defaultError = t.defaultError
      /\ u.finish = TRUE
  BY <1>1, Zenon DEF Finish, Objects, SameRequest, SameAnswers
<1>4. u.errorCode = IF err = TRN_OK THEN t.responseCode ELSE err
  BY <1>1, Zenon DEF Finish, Objects
<1>5. Ended(t, u, expired)
  <2>1. CASE after = "kProcessed"
    <3>1. u.errorCode = t.responseCode
      BY <1>2, <1>4, <2>1 DEF ErrorOfState
    <3>2. t.state = "kProcessed" \/ (expired /\ t.state \in Settling)
      BY <2>1 DEF ExpiredState, Unfinished, AwaitingAnswer, Settling
    <3> QED
      BY <3>1, <3>2 DEF Ended
  <2>2. CASE after = "kTimeout"
    <3>1. u.errorCode = TRN_ERROR_TIMEOUT
      BY <1>2, <1>4, <2>2 DEF ErrorOfState, TRN_ERROR_TIMEOUT, TRN_OK
    <3>2. expired /\ t.state \in AwaitingAnswer /\ ~t.infinite
      BY <2>2 DEF ExpiredState, AwaitingAnswer, Settling
    <3> QED
      BY <3>1, <3>2 DEF Ended
  <2>3. CASE after = "kAborted"
    <3>1. u.errorCode = TRN_ERROR_ABORTED
      BY <1>2, <1>4, <2>3 DEF ErrorOfState, TRN_ERROR_ABORTED, TRN_OK
    <3>2. t.state = "kAborted"
      BY <2>3 DEF ExpiredState, AwaitingAnswer, Settling
    <3> QED
      BY <3>1, <3>2 DEF Ended
  <2>4. after \in {"kProcessed", "kTimeout", "kAborted"}
    BY <1>1 DEF ExpiredState, Unfinished, AwaitingAnswer, Settling
  <2> QED
    BY <2>1, <2>2, <2>3, <2>4
<1> QED
  BY <1>3, <1>5

\* An error that is known before anything is awaited becomes the verdict.
LEMMA RefusedEffect ==
    ASSUME NEW Codes, NEW t \in Objects(Codes),
           NEW u, u = Evaluated(t, FALSE),
           t.state \in {"kDefaultError", "kInterfaceError"},
           t.defaultError # TRN_OK \/ t.state = "kInterfaceError"
    PROVE  /\ SameRequest(t, u)
           /\ SameAnswers(t, u)
           /\ u.defaultError = t.defaultError
           /\ u.finish = TRUE
           /\ u.errorCode = IF t.state = "kDefaultError" THEN t.defaultError
                                                         ELSE TRN_ERROR_IFACE
<1> DEFINE err == ErrorOfState(t)
<1>1. [t EXCEPT !.state = t.state] = t
  BY Zenon DEF Objects
<1>2. u = Finish(t, err)
  BY <1>1 DEF Evaluated, Unfinished, AwaitingAnswer, Settling
<1>3. /\ SameRequest(t, u)
      /\ SameAnswers(t, u)
      /\ u.defaultError = t.defaultError
      /\ u.finish = TRUE
  BY <1>2, Zenon DEF Finish, Objects, SameRequest, SameAnswers
<1>4. u.errorCode = IF err = TRN_OK THEN t.responseCode ELSE err
  BY <1>2, Zenon DEF Finish, Objects
<1>5. err = IF t.state = "kDefaultError" THEN t.defaultError ELSE TRN_ERROR_IFACE
  BY DEF ErrorOfState
<1>6. TRN_ERROR_IFACE # TRN_OK
  BY DEF TRN_ERROR_IFACE, TRN_OK
<1> QED
  BY <1>3, <1>4, <1>5, <1>6

\* The loop of execute() goes on, with the object as it is, exactly in the
\* states that wait for something.
LEMMA EvaluationGoesOn ==
    ASSUME NEW Codes, NEW t \in Objects(Codes), ~t.finish, NEW expired \in BOOLEAN
    PROVE  /\ Evaluated(t, expired).finish
                <=> (IF expired THEN ExpiredState(t) ELSE t.state) \notin Unfinished
           /\ ~Evaluated(t, expired).finish => Evaluated(t, expired) = t
<1> DEFINE after == IF expired THEN ExpiredState(t) ELSE t.state
           next == [t EXCEPT !.state = after]
<1>1. next = [t EXCEPT !.state = IF expired THEN ExpiredState(t) ELSE @]
  BY Zenon
<1>2. next.state = after
  BY DEF Objects
<1>3. Finish(next, ErrorOfState(next)).finish = TRUE
  BY Zenon DEF Finish, Objects
<1>4. CASE after \in Unfinished
  BY <1>1, <1>2, <1>4 DEF Evaluated
<1>5. CASE after \notin Unfinished
  <2>1. Evaluated(t, expired) = Finish(next, ErrorOfState(next))
    BY <1>1, <1>2, <1>5 DEF Evaluated
  <2> QED
    BY <1>3, <1>5, <2>1
<1> QED
  BY <1>4, <1>5

\* A wait that expires in one of them ends it, unless it may last for ever.
LEMMA ExpiryEnds ==
    ASSUME NEW t, t.state \in Unfinished, ExpiredState(t) \in Unfinished
    PROVE  t.infinite /\ t.state \in AwaitingAnswer
  BY DEF ExpiredState, Unfinished, AwaitingAnswer, Settling

=============================================================================
