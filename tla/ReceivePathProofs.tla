------------------------- MODULE ReceivePathProofs --------------------------
(***************************************************************************)
(* Proofs about ReceivePath, for any services, any data that a channel may *)
(* deliver and any number of messages and calls.                           *)
(*                                                                         *)
(* The steps of the composition are steps of MessageHandlers and of        *)
(* CdcChannel, or leave them alone; what holds of the parts holds of the   *)
(* whole.  The invariant of MessageHandlers has four parts: types, the     *)
(* functions and their tables, the data and the message made of them, and  *)
(* the result.                                                             *)
(***************************************************************************)
EXTENDS ReceivePath, SequenceTheorems, FiniteSetTheorems, TLAPS

-----------------------------------------------------------------------------
(* Messages.                                                               *)

\* A length that is not 0 is the only thing that stays of the data's length.
LEMMA Parsed ==
    ASSUME NEW raw_ \in RawMessages, ~FillRefuses(raw_), NEW garbage
    PROVE  /\ Constructed(raw_, garbage) = DataToBuffer(Empty, raw_)
           /\ DataToBuffer(Empty, raw_) \in DpaMessages
           /\ Copied(DataToBuffer(Empty, raw_)) = DataToBuffer(Empty, raw_)
<1> DEFINE n == Uint8(raw_.length)
<1>1. n \in 1 .. kMaxDpaMessageSize
  BY DEF RawMessages, FillRefuses, Uint8, kMaxDpaMessageSize
<1>2. raw_.command \in Bytes /\ raw_.code \in Bytes
  BY DEF RawMessages
<1> HIDE DEF n
<1>3. Constructed(raw_, garbage) = DataToBuffer(Empty, raw_)
  BY <1>1 DEF Constructed, DataToBuffer, Empty, n, kMaxDpaMessageSize
<1>4. DataToBuffer(Empty, raw_)
        = [length |-> n,
           command |-> IF n > kCommandIndex THEN raw_.command ELSE 0,
           code |-> IF n > kStatusCodeIndex THEN raw_.code ELSE 0]
  BY <1>1 DEF DataToBuffer, Empty, n, kMaxDpaMessageSize
<1>5. DataToBuffer(Empty, raw_) \in DpaMessages
  BY <1>1, <1>2, <1>4 DEF DpaMessages, Bytes, kMaxDpaMessageSize
<1>6. Copied(DataToBuffer(Empty, raw_)) = DataToBuffer(Empty, raw_)
  BY <1>4 DEF Copied
<1> QED
  BY <1>3, <1>5, <1>6

LEMMA EmptyTyped == Empty \in DpaMessages /\ Empty \in RawMessages
  BY DEF Empty, DpaMessages, RawMessages, Bytes, kMaxDpaMessageSize

LEMMA ResponsesHaveData ==
    ASSUME NEW m \in DpaMessages, MessageDirection(m) = "kResponse"
    PROVE  m.length > 0
  BY DEF MessageDirection, HasResponseFlag, DpaMessages, kCommandIndex

-----------------------------------------------------------------------------
(* The parts of the invariant.                                             *)

Places == {"away", "entering", "any", "entersAsync", "async", "processing"} \cup Stuck

\* The functions, and the tables they are called from.
CallsInv ==
    /\ at \in Places
    /\ todo \subseteq Services
    /\ calling \subseteq Services
    /\ anyTable \subseteq Services
    /\ asyncFun \subseteq Services
    /\ call \in [Services -> Calls \cup {"none"}]
    /\ at \notin {"any", "async"} \cup Stuck => calling = {}
    /\ ~AnyHeld => todo = {}
    /\ CalledIsRegistered

\* Inside ResponseMessageHandler() the data can be parsed, and the message was
\* made of them; what goes to the transaction is not asynchronous.
DataInv ==
    /\ raw \in RawMessages
    /\ msg \in DpaMessages
    /\ at # "away" => ~FillRefuses(raw) /\ msg = DataToBuffer(Empty, raw)
    /\ at = "processing" => ~IsAsynchronous(msg)

\* A decided success has no error of the device behind it.
ResultInv ==
    /\ result \in Results
    /\ ResultFits
    /\ decided /\ result.errorCode = TRN_OK => result.responseCode = TRN_OK

CountersInv ==
    /\ messages \in 0 .. MaxMessages
    /\ calls \in 0 .. MaxCalls
    /\ mischief \in 0 .. MaxMischief
    /\ decided \in BOOLEAN
    /\ asyncLeft \in BOOLEAN
    /\ at = "stuckOnLeft" => asyncLeft

HandlersInv == CallsInv /\ DataInv /\ ResultInv /\ CountersInv

LEMMA HandlersInvInitially == HandlersInit => HandlersInv
<1> SUFFICES ASSUME HandlersInit
             PROVE  HandlersInv
  OBVIOUS
<1> USE DEF HandlersInit
<1>1. CallsInv
  BY DEF CallsInv, Places, CalledIsRegistered, AnyHeld
<1>2. DataInv
  BY EmptyTyped DEF DataInv
<1>3. ResultInv
  <2>1. NewResult \in Results
    BY EmptyTyped DEF NewResult, Results, ErrorCodes, Bytes, TRN_OK, TRN_ERROR_ABORTED
  <2> QED
    BY <2>1 DEF ResultInv, ResultFits, NewResult, TRN_OK, TRN_ERROR_ABORTED
<1>4. CountersInv
  <2>1. MaxMessages \in Nat /\ MaxCalls \in Nat /\ MaxMischief \in Nat
    BY MessageHandlersAssumption
  <2>2. decided \in BOOLEAN /\ asyncLeft \in BOOLEAN /\ at # "stuckOnLeft"
    BY Zenon
  <2> QED
    BY <2>1, <2>2 DEF CountersInv
<1> QED
  BY <1>1, <1>2, <1>3, <1>4 DEF HandlersInv

LEMMA CountersKept ==
    ASSUME CountersInv, [HandlersNext]_handlersVars
    PROVE  CountersInv'
<1> USE MessageHandlersAssumption
    DEF CountersInv, receiverVars, tableVars, serviceVars, resultVars
<1>1. ASSUME NEW d \in Raw, Receive(d)
      PROVE  CountersInv'
  BY <1>1 DEF Receive
<1>2. CASE ReceiverGoesOn
  <2>1. UNCHANGED <<messages, calls, mischief, decided, asyncLeft>>
    BY <1>2, Zenon DEF ReceiverGoesOn, LockAny, CallAny, AnyReturns, UnlockAny, LockAsync,
                       AsyncReturns, Process
  <2>2. at' # "stuckOnLeft"
    BY <1>2 DEF ReceiverGoesOn, LockAny, CallAny, AnyReturns, UnlockAny, LockAsync,
                AsyncReturns, Process, Leaves
  <2> QED
    BY <2>1, <2>2
<1>3. CASE Throws
  <2>1. asyncLeft' \in BOOLEAN
    BY <1>3, Zenon DEF Throws
  <2> QED
    BY <1>3, <2>1 DEF Throws, Leaves
<1>4. CASE CallsBackOwn
  BY <1>4 DEF CallsBackOwn
<1>5. ASSUME NEW s \in Services, NEW op \in Calls, CallsBackOther(s, op) \/ BeginCall(s, op)
      PROVE  CountersInv'
  <2>1. CASE CallsBackOther(s, op)
    <3>1. /\ mischief > 0 /\ mischief' = mischief - 1
          /\ UNCHANGED <<messages, calls, decided, asyncLeft>>
      BY <2>1, Zenon DEF CallsBackOther, Changes
    <3>2. at' = "stuckOnLeft" => asyncLeft
      BY <2>1 DEF CallsBackOther, AsyncHeld
    <3> QED
      BY <3>1, <3>2
  <2>2. CASE BeginCall(s, op)
    BY <2>2 DEF BeginCall
  <2> QED
    BY <1>5, <2>1, <2>2
<1>6. ASSUME NEW s \in Services, EndCall(s)
      PROVE  CountersInv'
  BY <1>6 DEF EndCall, Changes
<1>7. ASSUME NEW code \in Verdicts, Decide(code)
      PROVE  CountersInv'
  BY <1>7 DEF Decide
<1>8. CASE UNCHANGED handlersVars
  BY <1>8 DEF handlersVars
<1> QED
  BY <1>1, <1>2, <1>3, <1>4, <1>5, <1>6, <1>7, <1>8 DEF HandlersNext, OthersStep

-----------------------------------------------------------------------------
(* The functions and their tables.                                         *)

\* A change under a mutex that the receiver does not hold.
LEMMA ChangesKeepCalls ==
    ASSUME CallsInv, NEW s \in Services, NEW op \in Calls, Changes(s, op),
           UNCHANGED <<at, todo, calling>>
    PROVE  /\ anyTable' \subseteq Services /\ asyncFun' \subseteq Services
           /\ CalledIsRegistered'
<1>1. anyTable' \subseteq Services /\ asyncFun' \subseteq Services
  BY DEF Changes, CallsInv
<1>2. AnyHeld => anyTable' = anyTable
  BY DEF Changes
<1>3. at \in {"async", "stuckAsync"} => asyncFun' = asyncFun
  BY DEF Changes, AsyncHeld
<1> QED
  BY <1>1, <1>2, <1>3 DEF CallsInv, CalledIsRegistered, AnyHeld

\* The receiver begins to wait for ever where it is.
LEMMA SticksKeepsCalls ==
    ASSUME CallsInv, UNCHANGED <<todo, calling, anyTable, asyncFun, call>>,
           \/ at = "any" /\ at' \in {"stuckAny", "stuckOnLeft"}
           \/ at = "async" /\ at' = "stuckAsync"
    PROVE  CallsInv'
  BY DEF CallsInv, CalledIsRegistered, AnyHeld, Places, Stuck

LEMMA ReceiverKeepsCalls ==
    ASSUME CallsInv, ReceiverGoesOn
    PROVE  CallsInv'
<1> USE DEF CallsInv, CalledIsRegistered, AnyHeld, Places, Stuck, tableVars, serviceVars
<1>1. CASE LockAny
  BY <1>1 DEF LockAny
<1>2. ASSUME NEW s \in Services, CallAny(s)
      PROVE  CallsInv'
  BY <1>2 DEF CallAny
<1>3. CASE AnyReturns
  BY <1>3 DEF AnyReturns
<1>4. CASE UnlockAny
  BY <1>4 DEF UnlockAny
<1>5. CASE LockAsync
  BY <1>5 DEF LockAsync, Leaves
<1>6. CASE AsyncReturns
  BY <1>6 DEF AsyncReturns, Leaves
<1>7. CASE Process
  BY <1>7 DEF Process, Leaves
<1> QED
  BY <1>1, <1>2, <1>3, <1>4, <1>5, <1>6, <1>7 DEF ReceiverGoesOn

LEMMA CallsKept ==
    ASSUME CallsInv, [HandlersNext]_handlersVars
    PROVE  CallsInv'
<1> USE DEF CallsInv, receiverVars
<1>1. ASSUME NEW d \in Raw, Receive(d)
      PROVE  CallsInv'
  BY <1>1 DEF Receive, CalledIsRegistered, AnyHeld, Places, Stuck, tableVars, serviceVars
<1>2. CASE Throws
  BY <1>2 DEF Throws, Leaves, CalledIsRegistered, AnyHeld, Places, Stuck, serviceVars
<1>3. CASE CallsBackOwn
  BY <1>3, SticksKeepsCalls DEF CallsBackOwn, tableVars, serviceVars
<1>4. ASSUME NEW s \in Services, NEW op \in Calls, CallsBackOther(s, op)
      PROVE  CallsInv'
  <2>1. UNCHANGED <<todo, calling, call>>
    BY <1>4 DEF CallsBackOther, serviceVars
  <2>2. CASE Changes(s, op) /\ UNCHANGED at
    <3>1. /\ anyTable' \subseteq Services /\ asyncFun' \subseteq Services
          /\ CalledIsRegistered'
      BY <2>1, <2>2, ChangesKeepCalls
    <3> QED
      BY <2>1, <2>2, <3>1 DEF AnyHeld
  <2>3. CASE at = "any" /\ at' = "stuckOnLeft" /\ UNCHANGED tableVars
    BY <2>1, <2>3, SticksKeepsCalls DEF tableVars
  <2> QED
    BY <1>4, <2>2, <2>3 DEF CallsBackOther
<1>5. ASSUME NEW s \in Services, NEW op \in Calls, BeginCall(s, op)
      PROVE  CallsInv'
  BY <1>5 DEF BeginCall, CalledIsRegistered, AnyHeld, tableVars
<1>6. ASSUME NEW s \in Services, EndCall(s)
      PROVE  CallsInv'
  <2>1. /\ call[s] \in Calls /\ Changes(s, call[s])
        /\ call' = [call EXCEPT ![s] = "none"] /\ UNCHANGED <<at, todo, calling>>
    BY <1>6 DEF EndCall
  <2>2. /\ anyTable' \subseteq Services /\ asyncFun' \subseteq Services
        /\ CalledIsRegistered'
    BY <2>1, ChangesKeepCalls
  <2> QED
    BY <2>1, <2>2 DEF AnyHeld
<1>7. ASSUME NEW code \in Verdicts, Decide(code)
      PROVE  CallsInv'
  BY <1>7 DEF Decide, CalledIsRegistered, AnyHeld, tableVars, serviceVars
<1>8. CASE UNCHANGED handlersVars
  BY <1>8 DEF handlersVars, CalledIsRegistered, AnyHeld, tableVars, serviceVars
<1> QED
  BY <1>1, <1>2, <1>3, <1>4, <1>5, <1>6, <1>7, <1>8, ReceiverKeepsCalls
  DEF HandlersNext, OthersStep

-----------------------------------------------------------------------------
(* The data, and the result.                                               *)

LEMMA DataKept ==
    ASSUME CallsInv, DataInv, [HandlersNext]_handlersVars
    PROVE  DataInv'
<1> USE DEF DataInv
<1>1. ASSUME NEW d \in Raw, Receive(d)
      PROVE  DataInv'
  <2>1. CASE d.length = 0 \/ FillRefuses(d)
    BY <1>1, <2>1 DEF Receive
  <2>2. CASE ~(d.length = 0 \/ FillRefuses(d))
    <3>1. /\ d \in RawMessages /\ ~FillRefuses(d)
          /\ raw' = d /\ msg' = DataToBuffer(Empty, d) /\ at' = "entering"
      BY <1>1, <2>2, MessageHandlersAssumption DEF Receive
    <3>2. msg' \in DpaMessages
      BY <3>1, Parsed
    <3> QED
      BY <3>1, <3>2
  <2> QED
    BY <2>1, <2>2
<1>2. ASSUME Leaves
      PROVE  DataInv'
  BY <1>2, EmptyTyped DEF Leaves
<1>3. ASSUME UNCHANGED <<raw, msg>>, at' = "away" => at = "away",
             at # "away", at' = "processing" => ~IsAsynchronous(msg)
      PROVE  DataInv'
  BY <1>3
<1>4. CASE LockAny \/ (\E s \in Services : CallAny(s)) \/ AnyReturns
  BY <1>4 DEF LockAny, CallAny, AnyReturns
<1>5. CASE UnlockAny
  BY <1>5 DEF UnlockAny
<1>6. CASE LockAsync
  BY <1>2, <1>6 DEF LockAsync
<1>7. CASE AsyncReturns \/ Process \/ Throws
  BY <1>2, <1>7 DEF AsyncReturns, Process, Throws
<1>8. CASE CallsBackOwn
  BY <1>8 DEF CallsBackOwn
<1>9. CASE UNCHANGED <<at, raw, msg>>
  BY <1>9
<1>10. CASE \E s \in Services : (\E op \in Calls : CallsBackOther(s, op) \/ BeginCall(s, op))
                               \/ EndCall(s)
  <2>1. \/ UNCHANGED <<at, raw, msg>>
        \/ at = "any" /\ at' = "stuckOnLeft" /\ UNCHANGED <<raw, msg>>
    BY <1>10, Zenon DEF CallsBackOther, BeginCall, EndCall, receiverVars
  <2> QED
    BY <1>3, <1>9, <2>1
<1>11. CASE (\E code \in Verdicts : Decide(code)) \/ UNCHANGED handlersVars
  BY <1>9, <1>11 DEF Decide, receiverVars, handlersVars
<1> QED
  BY <1>1, <1>4, <1>5, <1>6, <1>7, <1>8, <1>10, <1>11
  DEF HandlersNext, ReceiverGoesOn, OthersStep

LEMMA ProcessKeepsResult ==
    ASSUME DataInv, ResultInv, Process
    PROVE  ResultInv'
<1> DEFINE m == Constructed(raw, 0)
<1>1. /\ m = msg /\ Copied(msg) = msg /\ msg \in DpaMessages
      /\ ~IsAsynchronous(msg) /\ decided' = decided
  BY Parsed DEF DataInv, Process
<1>2. \/ result' = result
      \/ /\ ~decided /\ MessageDirection(m) = "kConfirmation"
         /\ result' = SetConfirmation(result, m)
      \/ /\ ~decided /\ MessageDirection(m) = "kResponse"
         /\ result' = SetResponse(result, m)
  BY DEF Process
<1> HIDE DEF m
<1>3. CASE result' = result
  BY <1>1, <1>3 DEF ResultInv, ResultFits
<1>4. CASE /\ ~decided /\ MessageDirection(m) = "kConfirmation"
           /\ result' = SetConfirmation(result, m)
  <2>1. result' = [result EXCEPT !.confirmation = msg, !.isConfirmed = TRUE]
    BY <1>1, <1>4 DEF SetConfirmation
  <2>2. result' \in Results
    BY <1>1, <2>1 DEF ResultInv, Results
  <2>3. ResultFits'
    BY <1>1, <1>4, <2>1 DEF ResultInv, ResultFits, Results
  <2> QED
    BY <1>1, <1>4, <2>2, <2>3 DEF ResultInv
<1>5. CASE /\ ~decided /\ MessageDirection(m) = "kResponse"
           /\ result' = SetResponse(result, m)
  <2>1. msg.length > 0 /\ ~HasFlag(msg.code) /\ msg.code \in Bytes
    BY <1>1, <1>5, ResponsesHaveData DEF IsAsynchronous, DpaMessages
  <2>2. result' = [result EXCEPT !.response = msg, !.responseCode = msg.code,
                                 !.isResponded = TRUE]
    BY <1>1, <1>5, <2>1 DEF SetResponse
  <2>3. result' \in Results
    BY <1>1, <2>1, <2>2 DEF ResultInv, Results
  <2>4. ResultFits'
    BY <1>1, <1>5, <2>1, <2>2 DEF ResultInv, ResultFits, Results
  <2> QED
    BY <1>1, <1>5, <2>3, <2>4 DEF ResultInv
<1> QED
  BY <1>2, <1>3, <1>4, <1>5

LEMMA DecideKeepsResult ==
    ASSUME ResultInv, NEW code \in Verdicts, Decide(code)
    PROVE  ResultInv'
<1>1. /\ code \in ErrorCodes
      /\ result' = SetErrorCode(result, code)
  BY MessageHandlersAssumption DEF Decide
<1>2. /\ result \in Results /\ result.responseCode \in Bytes
      /\ result.responseCode \in ErrorCodes
  BY DEF ResultInv, Results, Bytes, ErrorCodes
<1> DEFINE e == IF code = TRN_OK /\ result.responseCode # TRN_OK
                THEN result.responseCode ELSE code
<1>3. e \in ErrorCodes /\ (e = TRN_OK => result.responseCode = TRN_OK)
  BY <1>1, <1>2
<1>4. result' = [result EXCEPT !.errorCode = e]
  BY <1>1 DEF SetErrorCode
<1> HIDE DEF e
<1>5. result' \in Results
  BY <1>2, <1>3, <1>4 DEF Results
<1>6. ResultFits'
  BY <1>2, <1>4 DEF ResultInv, ResultFits, Results
<1>7. result'.errorCode = e /\ result'.responseCode = result.responseCode
  BY <1>2, <1>4 DEF Results
<1> QED
  BY <1>3, <1>5, <1>6, <1>7 DEF ResultInv

LEMMA ResultKept ==
    ASSUME DataInv, ResultInv, [HandlersNext]_handlersVars
    PROVE  ResultInv'
<1>1. CASE UNCHANGED resultVars
  BY <1>1 DEF resultVars, ResultInv, ResultFits
<1>2. CASE Process \/ \E code \in Verdicts : Decide(code)
  BY <1>2, ProcessKeepsResult, DecideKeepsResult
<1>3. CASE \/ \E d \in Raw : Receive(d)
           \/ LockAny \/ (\E s \in Services : CallAny(s)) \/ AnyReturns \/ UnlockAny
           \/ LockAsync \/ AsyncReturns \/ Throws \/ CallsBackOwn \/ UNCHANGED handlersVars
  BY <1>1, <1>3, Zenon DEF Receive, LockAny, CallAny, AnyReturns, UnlockAny, LockAsync,
                           AsyncReturns, Throws, CallsBackOwn, handlersVars
<1>4. CASE \E s \in Services : (\E op \in Calls : CallsBackOther(s, op) \/ BeginCall(s, op))
                               \/ EndCall(s)
  BY <1>1, <1>4, Zenon DEF CallsBackOther, BeginCall, EndCall
<1> QED
  BY <1>2, <1>3, <1>4 DEF HandlersNext, ReceiverGoesOn, OthersStep

LEMMA HandlersInvInductive ==
    ASSUME HandlersInv, [HandlersNext]_handlersVars
    PROVE  HandlersInv'
  BY CountersKept, CallsKept, DataKept, ResultKept DEF HandlersInv

-----------------------------------------------------------------------------
(* The channel.                                                            *)

SendInv ==
    /\ sending \in [Sends -> {"idle", "trying", "returned", "thrown"}]
    /\ attempt \in [Sends -> 0 .. MaxAttempts]
    /\ out \in Seq(Sends)
    /\ Channel!SendTellsTruth

LEMMA SendAcceptedKeeps ==
    ASSUME SendInv, NEW s \in Sends, Channel!SendAccepted(s)
    PROVE  SendInv'
<1>1. /\ sending[s] = "trying" /\ sending' = [sending EXCEPT ![s] = "returned"]
      /\ attempt' = [attempt EXCEPT ![s] = 0] /\ out' = Append(out, s)
  BY DEF Channel!SendAccepted
<1>2. /\ Len(out) \in Nat /\ out' \in Seq(Sends) /\ Len(out') = Len(out) + 1
      /\ (\A i \in 1 .. Len(out) : out'[i] = out[i]) /\ out'[Len(out) + 1] = s
  <2>1. out \in Seq(Sends) /\ Len(out) \in Nat
    BY LenProperties DEF SendInv
  <2> QED
    BY <1>1, <2>1, AppendProperties
<1>3. \A i \in 1 .. Len(out) : out[i] # s
  <2>1. (\E i \in 1 .. Len(out) : out[i] = s) <=> sending[s] = "returned"
    BY DEF SendInv, Channel!SendTellsTruth
  <2> QED
    BY <1>1, <2>1
<1>4. \A i, j \in 1 .. Len(out') : out'[i] = out'[j] => i = j
  <2>1. \A i, j \in 1 .. Len(out) : out[i] = out[j] => i = j
    BY DEF SendInv, Channel!SendTellsTruth
  <2> QED
    BY <1>2, <1>3, <2>1
<1>5. attempt' \in [Sends -> 0 .. MaxAttempts]
  BY <1>1, ReceivePathAssumption DEF SendInv
<1>6. ASSUME NEW r \in Sends
      PROVE  (\E i \in 1 .. Len(out') : out'[i] = r) <=> sending'[r] = "returned"
  <2>1. CASE r = s
    BY <1>1, <1>2, <2>1 DEF SendInv
  <2>2. CASE r # s
    <3>1. (\E i \in 1 .. Len(out') : out'[i] = r) <=> \E i \in 1 .. Len(out) : out[i] = r
      BY <1>2, <2>2
    <3>2. sending'[r] = sending[r]
      BY <1>1, <2>2 DEF SendInv
    <3> QED
      BY <3>1, <3>2 DEF SendInv, Channel!SendTellsTruth
  <2> QED
    BY <2>1, <2>2
<1>7. Channel!SendTellsTruth'
  BY <1>4, <1>5, <1>6, ReceivePathAssumption DEF Channel!SendTellsTruth
<1> QED
  BY <1>1, <1>2, <1>5, <1>7 DEF SendInv

LEMMA SendKept ==
    ASSUME SendInv, [Channel!CdcNext]_(Channel!cdcVars)
    PROVE  SendInv'
<1> USE ReceivePathAssumption DEF SendInv, Channel!SendTellsTruth
<1>1. ASSUME NEW s \in Sends, Channel!SendBegins(s)
      PROVE  SendInv'
  BY <1>1 DEF Channel!SendBegins
<1>2. ASSUME NEW s \in Sends, Channel!SendBusy(s)
      PROVE  SendInv'
  BY <1>2 DEF Channel!SendBusy
<1>3. ASSUME NEW s \in Sends, Channel!SendFails(s)
      PROVE  SendInv'
  BY <1>3 DEF Channel!SendFails
<1>4. ASSUME NEW s \in Sends, Channel!SendGivesUp(s)
      PROVE  SendInv'
  BY <1>4 DEF Channel!SendGivesUp
<1>5. CASE UNCHANGED <<sending, attempt, out>>
  BY <1>5
<1>6. CASE Channel!Registration \/ Channel!Unregistration
  BY <1>5, <1>6 DEF Channel!Registration, Channel!Unregistration, Channel!RegisterFunction,
     Channel!RegisterListener, Channel!UnregisterFunction, Channel!UnregisterListener,
     Channel!sendVars
<1>7. CASE \/ Channel!Enter \/ Channel!EnterEmpty \/ Channel!Leave
           \/ UNCHANGED Channel!cdcVars
  BY <1>5, <1>7 DEF Channel!Enter, Channel!EnterEmpty, Channel!Leave, Channel!sendVars,
     Channel!cdcVars
<1> QED
  BY <1>1, <1>2, <1>3, <1>4, <1>6, <1>7, SendAcceptedKeeps
  DEF Channel!CdcNext, Channel!Sending

-----------------------------------------------------------------------------
(* The composition.                                                        *)

\* Whatever the channel does, the handler takes the steps of its own
\* specification only (DpaHandler2.cpp:61-64).
THEOREM HandlersImplemented == Spec => HandlersSpec
<1>1. Init => HandlersInit
  BY DEF Init
<1>2. [Next]_vars => [HandlersNext]_handlersVars
  BY DEF Next, Deliver, Return, HandlersNext, vars
<1> QED
  BY <1>1, <1>2, PTL DEF Spec, HandlersSpec

\* And the channel those of its own, whatever the registered function does
\* (IqrfCdcChannel.cpp:58-69).
THEOREM ChannelImplemented == Spec => Channel!CdcSpec
<1>1. Init => Channel!CdcInit
  BY DEF Init
<1>2. [Next]_vars => [Channel!CdcNext]_(Channel!cdcVars)
  BY DEF Next, Deliver, Return, Channel!CdcNext, vars, channelVars, Channel!cdcVars,
         Channel!sendVars, Channel!receptionVars
<1> QED
  BY <1>1, <1>2, PTL DEF Spec, Channel!CdcSpec

LEMMA HandlersInvariant == HandlersSpec => []HandlersInv
  BY HandlersInvInitially, HandlersInvInductive, PTL DEF HandlersSpec

\* Types, and no function is running or due outside the two loops.
THEOREM TypeCorrect == Spec => []TypeOK
<1>1. HandlersInv => TypeOK
  BY DEF HandlersInv, CallsInv, DataInv, ResultInv, CountersInv, TypeOK, Places
<1> QED
  BY <1>1, HandlersImplemented, HandlersInvariant, PTL

\* A function that is running, or due for the message that is being processed, is
\* registered (DpaHandler2.cpp:193-243).
THEOREM OnlyRegisteredAreCalled == Spec => []CalledIsRegistered
<1>1. HandlersInv => CalledIsRegistered
  BY DEF HandlersInv, CallsInv
<1> QED
  BY <1>1, HandlersImplemented, HandlersInvariant, PTL

\* Parsing the data again gives the message that was routed, for data of any
\* length, and reads no uninitialized length (DpaHandler2.cpp:95, 108, 114, 119).
THEOREM ParsesAgree == Spec => []SecondParseAgrees
<1>1. HandlersInv => SecondParseAgrees
  BY Parsed DEF HandlersInv, DataInv, SecondParseAgrees
<1> QED
  BY <1>1, HandlersImplemented, HandlersInvariant, PTL

\* What is in a result is a confirmation and an answer, and its code is that of
\* the answer (DpaHandler2.cpp:105-124, DpaTransactionResult2.cpp:92-110).
THEOREM ResultsFit == Spec => []ResultFits
<1>1. HandlersInv => ResultFits
  BY DEF HandlersInv, ResultInv
<1> QED
  BY <1>1, HandlersImplemented, HandlersInvariant, PTL

\* The text of a decided result is that of its code, which SetErrorCode() takes
\* care of (DpaTransactionResult2.cpp:112-118).
THEOREM StringsFit == Spec => []StringFitsCode
<1>1. HandlersInv => StringFitsCode
  <2> SUFFICES ASSUME HandlersInv, decided
               PROVE  GetErrorString(result) = ErrorText(GetErrorCode(result))
    BY DEF StringFitsCode
  <2>1. result.errorCode = TRN_OK => result.responseCode = TRN_OK
    BY DEF HandlersInv, ResultInv
  <2> QED
    BY <2>1 DEF GetErrorString, GetErrorCode
<1> QED
  BY <1>1, HandlersImplemented, HandlersInvariant, PTL

\* sendTo() of the CDC channel returns if and only if its message was accepted,
\* once (IqrfCdcChannel.cpp:35-56).
THEOREM SendsTellTruth == Spec => []SendTellsTruth
<1>1. Channel!CdcInit => SendInv
  BY ReceivePathAssumption DEF Channel!CdcInit, SendInv, Channel!SendTellsTruth
<1>2. SendInv => SendTellsTruth
  BY DEF SendInv, SendTellsTruth
<1>3. Channel!CdcSpec => []SendInv
  BY <1>1, SendKept, PTL DEF Channel!CdcSpec
<1> QED
  BY <1>2, <1>3, ChannelImplemented, PTL

-----------------------------------------------------------------------------
(* What is left to the receiver.                                           *)

\* The tables are finite, because every entry was put in by a registration.
FiniteInv ==
    /\ IsFiniteSet(anyTable) /\ IsFiniteSet(asyncFun)
    /\ IsFiniteSet(todo) /\ IsFiniteSet(calling)

LEMMA ChangesKeepFinite ==
    ASSUME FiniteInv, NEW s, NEW op, Changes(s, op)
    PROVE  IsFiniteSet(anyTable') /\ IsFiniteSet(asyncFun')
<1>1. anyTable' \in {anyTable \cup {s}, anyTable \ {s}, anyTable}
      /\ asyncFun' \in {{s}, {}, asyncFun}
  BY Zenon DEF Changes
<1>2. /\ IsFiniteSet(anyTable \cup {s}) /\ IsFiniteSet(anyTable \ {s})
      /\ IsFiniteSet({s}) /\ IsFiniteSet({})
  BY FS_AddElement, FS_RemoveElement, FS_Singleton, FS_EmptySet DEF FiniteInv
<1> QED
  BY <1>1, <1>2 DEF FiniteInv

LEMMA FiniteKept ==
    ASSUME FiniteInv, [HandlersNext]_handlersVars
    PROVE  FiniteInv'
<1> USE DEF FiniteInv, receiverVars, tableVars
<1>1. CASE UNCHANGED <<anyTable, asyncFun, todo, calling>>
  BY <1>1
<1>2. CASE (\E d \in Raw : Receive(d)) \/ (\E code \in Verdicts : Decide(code))
           \/ CallsBackOwn \/ Process \/ UNCHANGED handlersVars
  BY <1>1, <1>2, Zenon DEF Receive, Decide, CallsBackOwn, Process, handlersVars
<1>3. CASE LockAny
  BY <1>3 DEF LockAny
<1>4. ASSUME NEW s \in Services, CallAny(s)
      PROVE  FiniteInv'
  <2>1. calling' = {s} /\ todo' = todo \ {s} /\ UNCHANGED <<anyTable, asyncFun>>
    BY <1>4 DEF CallAny
  <2>2. IsFiniteSet(todo \ {s}) /\ IsFiniteSet({s})
    BY FS_RemoveElement, FS_Singleton
  <2> QED
    BY <2>1, <2>2
<1>5. CASE AnyReturns \/ AsyncReturns \/ Throws
  <2>1. calling' = {} /\ todo' \in {todo, {}} /\ UNCHANGED <<anyTable, asyncFun>>
    BY <1>5 DEF AnyReturns, AsyncReturns, Throws
  <2> QED
    BY <2>1, FS_EmptySet
<1>6. CASE UnlockAny
  BY <1>1, <1>6, Zenon DEF UnlockAny
<1>7. CASE LockAsync
  BY <1>7 DEF LockAsync
<1>8. ASSUME NEW s \in Services, NEW op \in Calls, CallsBackOther(s, op)
      PROVE  FiniteInv'
  <2>1. UNCHANGED <<todo, calling>> /\ (Changes(s, op) \/ UNCHANGED tableVars)
    BY <1>8, Zenon DEF CallsBackOther
  <2> QED
    BY <2>1, ChangesKeepFinite
<1>9. ASSUME NEW s \in Services, NEW op \in Calls, BeginCall(s, op)
      PROVE  FiniteInv'
  BY <1>1, <1>9, Zenon DEF BeginCall
<1>10. ASSUME NEW s \in Services, EndCall(s)
       PROVE  FiniteInv'
  <2>1. Changes(s, call[s]) /\ UNCHANGED <<todo, calling>>
    BY <1>10 DEF EndCall
  <2> QED
    BY <2>1, ChangesKeepFinite
<1> QED
  BY <1>2, <1>3, <1>4, <1>5, <1>6, <1>7, <1>8, <1>9, <1>10
  DEF HandlersNext, ReceiverGoesOn, OthersStep

LEMMA StageAt ==
    /\ at = "entering" => Stage = 4
    /\ at = "any" => Stage = 3
    /\ at = "entersAsync" => Stage = 2
    /\ at \in {"async", "processing"} => Stage = 1
    /\ at \in {"away"} \cup Stuck => Stage = 0
  BY DEF Stage, Stuck

LEMMA StageNext ==
    /\ at' = "entering" => Stage' = 4
    /\ at' = "any" => Stage' = 3
    /\ at' = "entersAsync" => Stage' = 2
    /\ at' \in {"async", "processing"} => Stage' = 1
    /\ at' \in {"away"} \cup Stuck => Stage' = 0
  BY DEF Stage, Stuck

\* A function that is called is not due any more, and two steps nearer to done.
LEMMA CallingOwesLess ==
    ASSUME FiniteInv, NEW s \in todo, calling = {}, calling' = {s}, todo' = todo \ {s}
    PROVE  Owed' \in Nat /\ Owed' < Owed
<1>1. /\ Cardinality(todo) \in Nat /\ Cardinality(todo') \in Nat
      /\ Cardinality(todo') = Cardinality(todo) - 1
  <2>1. IsFiniteSet(todo) /\ IsFiniteSet(todo \ {s})
        /\ Cardinality(todo \ {s}) = Cardinality(todo) - 1
    BY FS_RemoveElement DEF FiniteInv
  <2> QED
    BY <2>1, FS_CardinalityType
<1>2. Cardinality(calling) = 0 /\ Cardinality(calling') = 1
  BY FS_EmptySet, FS_Singleton
<1> QED
  BY <1>1, <1>2 DEF Owed

LEMMA ReturningOwesLess ==
    ASSUME FiniteInv, calling # {}, calling' = {}, todo' = todo
    PROVE  Owed' \in Nat /\ Owed' < Owed
<1>1. Cardinality(todo) \in Nat /\ Cardinality(calling) \in Nat
  BY FS_CardinalityType DEF FiniteInv
<1>2. Cardinality(calling) # 0 /\ Cardinality(calling') = 0
  BY FS_EmptySet DEF FiniteInv
<1> QED
  BY <1>1, <1>2 DEF Owed

LEMMA ReceiverStepNearer ==
    ASSUME FiniteInv, ReceiverGoesOn
    PROVE  Nearer
<1> USE StageAt, StageNext DEF Nearer
<1>1. CASE LockAny
  BY <1>1 DEF LockAny
<1>2. ASSUME NEW s \in Services, CallAny(s)
      PROVE  Nearer
  <2>1. /\ at = "any" /\ at' = "any" /\ s \in todo /\ calling = {}
        /\ calling' = {s} /\ todo' = todo \ {s}
    BY <1>2 DEF CallAny
  <2>2. Owed' \in Nat /\ Owed' < Owed
    BY <2>1, CallingOwesLess
  <2> QED
    BY <2>1, <2>2
<1>3. CASE AnyReturns
  <2>1. at = "any" /\ at' = "any" /\ calling # {} /\ calling' = {} /\ todo' = todo
    BY <1>3 DEF AnyReturns
  <2>2. Owed' \in Nat /\ Owed' < Owed
    BY <2>1, ReturningOwesLess
  <2> QED
    BY <2>1, <2>2
<1>4. CASE UnlockAny
  <2>1. at = "any" /\ at' \in {"entersAsync", "processing"}
    BY <1>4 DEF UnlockAny
  <2> QED
    BY <2>1
<1>5. CASE LockAsync
  <2>1. at = "entersAsync" /\ at' \in {"away", "async"}
    BY <1>5 DEF LockAsync, Leaves
  <2> QED
    BY <2>1
<1>6. CASE AsyncReturns \/ Process
  <2>1. at \in {"async", "processing"} /\ at' = "away"
    BY <1>6 DEF AsyncReturns, Process, Leaves
  <2> QED
    BY <2>1
<1> QED
  BY <1>1, <1>2, <1>3, <1>4, <1>5, <1>6 DEF ReceiverGoesOn

LEMMA OthersSetNothingBack ==
    ASSUME at # "away", HandlersNext, ~ReceiverGoesOn
    PROVE  Nearer \/ UNCHANGED <<at, todo, calling>>
<1>1. CASE \E d \in Raw : Receive(d)
  BY <1>1 DEF Receive
<1>2. CASE Throws \/ CallsBackOwn
  <2>1. at \in {"any", "async"} /\ at' \in {"away"} \cup Stuck
    BY <1>2 DEF Throws, CallsBackOwn, Leaves, Stuck
  <2> QED
    BY <2>1, StageAt, StageNext DEF Nearer
<1>3. CASE \E s \in Services : (\E op \in Calls : CallsBackOther(s, op) \/ BeginCall(s, op))
                              \/ EndCall(s)
  <2>1. UNCHANGED <<at, todo, calling>> \/ (at = "any" /\ at' = "stuckOnLeft")
    BY <1>3 DEF CallsBackOther, BeginCall, EndCall, receiverVars
  <2> QED
    BY <2>1, StageAt, StageNext DEF Nearer, Stuck
<1>4. CASE \E code \in Verdicts : Decide(code)
  BY <1>4, Zenon DEF Decide, receiverVars
<1> QED
  BY <1>1, <1>2, <1>3, <1>4 DEF HandlersNext, OthersStep

\* ResponseMessageHandler() gets nearer to its return with each of its steps, and
\* nobody else gives it more to do (DpaHandler2.cpp:85-124, 200-208, 228-233).
THEOREM ReceiverTerminates == Spec => ReceiverGetsNearer
<1>1. HandlersInit => FiniteInv
  BY FS_EmptySet DEF HandlersInit, FiniteInv
<1>2. FiniteInv /\ [HandlersNext]_handlersVars
        => [/\ ReceiverGoesOn => Nearer
            /\ at # "away" => Nearer \/ UNCHANGED <<at, todo, calling>>]_handlersVars
  BY ReceiverStepNearer, OthersSetNothingBack
<1>3. HandlersSpec => ReceiverGetsNearer
  BY <1>1, <1>2, FiniteKept, PTL DEF HandlersSpec, ReceiverGetsNearer
<1> QED
  BY <1>3, HandlersImplemented, PTL

-----------------------------------------------------------------------------
(* Who blocks whom.                                                        *)

LEMMA MischiefKept ==
    ASSUME OnlyMischiefBlocks, CountersInv, [HandlersNext]_handlersVars
    PROVE  OnlyMischiefBlocks'
<1> USE MessageHandlersAssumption
    DEF OnlyMischiefBlocks, CountersInv, receiverVars, tableVars, Stuck
<1>1. ASSUME UNCHANGED <<at, asyncLeft>>, mischief' \in {mischief, mischief - 1}
      PROVE  OnlyMischiefBlocks'
  BY <1>1
<1>2. ASSUME at \notin Stuck => at' \notin Stuck, at' = "stuckOnLeft" => at = "stuckOnLeft",
             UNCHANGED <<asyncLeft, mischief>>
      PROVE  OnlyMischiefBlocks'
  BY <1>2
<1>3. ASSUME at \in {"any", "async"}, at' = "stuckOnLeft" => asyncLeft,
             mischief > 0, mischief' = mischief - 1, UNCHANGED asyncLeft
      PROVE  OnlyMischiefBlocks'
  BY <1>3
<1>4. CASE ReceiverGoesOn
  <2>1. at' \notin Stuck /\ UNCHANGED <<asyncLeft, mischief>>
    BY <1>4 DEF ReceiverGoesOn, LockAny, CallAny, AnyReturns, UnlockAny, LockAsync,
                AsyncReturns, Process, Leaves
  <2> QED
    BY <1>2, <2>1
<1>5. ASSUME NEW d \in Raw, Receive(d)
      PROVE  OnlyMischiefBlocks'
  <2>1. at' \notin Stuck /\ UNCHANGED <<asyncLeft, mischief>>
    BY <1>5 DEF Receive
  <2> QED
    BY <1>2, <2>1
<1>6. CASE Throws
  <2>1. at' = "away" /\ at \notin Stuck /\ mischief > 0 /\ mischief' = mischief - 1
    BY <1>6 DEF Throws, Leaves
  <2> QED
    BY <2>1
<1>7. CASE CallsBackOwn
  BY <1>3, <1>7 DEF CallsBackOwn
<1>8. ASSUME NEW s \in Services, NEW op \in Calls, CallsBackOther(s, op)
      PROVE  OnlyMischiefBlocks'
  <2>1. mischief > 0 /\ mischief' = mischief - 1 /\ UNCHANGED asyncLeft
    BY <1>8, Zenon DEF CallsBackOther, Changes
  <2>2. UNCHANGED at \/ (at = "any" /\ AsyncHeld)
    BY <1>8 DEF CallsBackOther
  <2> QED
    BY <1>1, <1>3, <2>1, <2>2 DEF AsyncHeld
<1>9. ASSUME NEW s \in Services, NEW op \in Calls, BeginCall(s, op) \/ EndCall(s)
      PROVE  OnlyMischiefBlocks'
  BY <1>1, <1>9 DEF BeginCall, EndCall, Changes
<1>10. CASE (\E code \in Verdicts : Decide(code)) \/ UNCHANGED handlersVars
  BY <1>1, <1>10 DEF Decide, handlersVars
<1>11. Calls # {}
  BY DEF Calls, AnyCalls
<1> QED
  BY <1>4, <1>5, <1>6, <1>7, <1>8, <1>9, <1>10, <1>11 DEF HandlersNext, OthersStep

\* Nobody is blocked for ever but by functions that misbehaved, each of which costs
\* one thing: a mutex left locked, the receiver waiting for a mutex of its own thread,
\* or the receiver waiting in processAnyMessage() for a mutex left locked, which takes
\* an exception and a call-back (DpaHandler2.cpp:193-233).
THEOREM MischiefBlocks == Spec => []OnlyMischiefBlocks
<1>1. HandlersInit => OnlyMischiefBlocks
  BY MessageHandlersAssumption DEF HandlersInit, OnlyMischiefBlocks, Stuck
<1>2. HandlersInv => CountersInv
  BY DEF HandlersInv
<1>3. HandlersSpec => []OnlyMischiefBlocks
  BY <1>1, <1>2, MischiefKept, HandlersInvariant, PTL DEF HandlersSpec
<1> QED
  BY <1>3, HandlersImplemented, PTL

\* With functions that just return, no call and no message is ever blocked.
THEOREM WellBehavedBlockNobody ==
    ASSUME MaxMischief = 0
    PROVE  Spec => [](at \notin Stuck /\ ~asyncLeft /\ \A s \in Services : ~BlockedFor(s))
<1>1. HandlersInv /\ OnlyMischiefBlocks
        => at \notin Stuck /\ ~asyncLeft /\ \A s \in Services : ~BlockedFor(s)
  <2> SUFFICES ASSUME HandlersInv, OnlyMischiefBlocks
               PROVE  ~asyncLeft /\ at \notin Stuck
    BY DEF BlockedFor, Stuck
  <2>1. mischief = 0
    BY DEF HandlersInv, CountersInv
  <2> QED
    BY <2>1 DEF OnlyMischiefBlocks
<1> QED
  BY <1>1, MischiefBlocks, HandlersImplemented, HandlersInvariant, PTL

\* One function that misbehaves blocks the calls of one kind only: where a call about
\* any messages and one about the asynchronous handler are blocked at once, two have
\* (DpaHandler2.cpp:193-233).
THEOREM BothKindsTakeTwo ==
    Spec => [](\A s, t \in Services :
                 BlockedFor(s) /\ BlockedFor(t) /\ call[s] \in AnyCalls /\ call[t] \in AsyncCalls
                   => MaxMischief - mischief >= 2)
<1>1. HandlersInv /\ OnlyMischiefBlocks
        => \A s, t \in Services :
             BlockedFor(s) /\ BlockedFor(t) /\ call[s] \in AnyCalls /\ call[t] \in AsyncCalls
               => MaxMischief - mischief >= 2
  <2> SUFFICES ASSUME HandlersInv, OnlyMischiefBlocks,
                      NEW s \in Services, BlockedFor(s), call[s] \in AnyCalls,
                      NEW t \in Services, BlockedFor(t), call[t] \in AsyncCalls
               PROVE  MaxMischief - mischief >= 2
    OBVIOUS
  <2>1. at \in {"stuckAny", "stuckOnLeft"}
    BY DEF BlockedFor, AnyCalls, AsyncCalls
  <2>2. asyncLeft
    BY <2>1 DEF BlockedFor, AnyCalls, AsyncCalls
  <2>3. MaxMischief \in Nat /\ mischief \in 0 .. MaxMischief
    BY MessageHandlersAssumption DEF HandlersInv, CountersInv
  <2> QED
    BY <2>1, <2>2, <2>3 DEF OnlyMischiefBlocks, Stuck
<1> QED
  BY <1>1, MischiefBlocks, HandlersImplemented, HandlersInvariant, PTL

-----------------------------------------------------------------------------
(* The window of unregisterReceiveFromHandler().                           *)

\* Between registrations and their opposites the port has a listener only if its
\* function is not empty.
ListenerInv ==
    /\ owner \in {"using", "registering", "unregistering"}
    /\ owner = "using" => (listening => receiveFunc)
    /\ owner = "registering" => receiveFunc
    /\ unregisters \in 0 .. MaxUnregisters
    /\ owner = "unregistering" => unregisters < MaxUnregisters

LEMMA ListenerKept ==
    ASSUME ListenerInv, [Channel!CdcNext]_(Channel!cdcVars)
    PROVE  ListenerInv'
<1> USE ReceivePathAssumption DEF ListenerInv
<1>1. CASE UNCHANGED <<owner, listening, receiveFunc, unregisters>>
  BY <1>1
<1>2. CASE \/ Channel!Sending \/ Channel!Enter \/ Channel!EnterEmpty \/ Channel!Leave
           \/ UNCHANGED Channel!cdcVars
  BY <1>1, <1>2, Zenon DEF Channel!Sending, Channel!SendBegins, Channel!SendAccepted,
     Channel!SendBusy, Channel!SendFails, Channel!SendGivesUp, Channel!Enter,
     Channel!EnterEmpty, Channel!Leave, Channel!cdcVars, Channel!receptionVars
<1>3. CASE Channel!Registration
  BY <1>3 DEF Channel!Registration, Channel!RegisterFunction, Channel!RegisterListener
<1>4. CASE Channel!UnregisterFunction
  BY <1>4 DEF Channel!UnregisterFunction
<1>5. CASE Channel!UnregisterListener
  BY <1>5 DEF Channel!UnregisterListener
<1> QED
  BY <1>2, <1>3, <1>4, <1>5 DEF Channel!CdcNext, Channel!Unregistration

LEMMA ListenerInvariant == Channel!CdcSpec => []ListenerInv
<1>1. Channel!CdcInit => ListenerInv
  BY ReceivePathAssumption DEF Channel!CdcInit, ListenerInv
<1> QED
  BY <1>1, ListenerKept, PTL DEF Channel!CdcSpec

\* Who calls an empty function is broken by it; nobody else breaks.
LEMMA BreaksWithin ==
    ASSUME ListenerInv, Channel!CdcNext, listener' = "broken"
    PROVE  listener = "broken" \/ owner = "unregistering"
<1>1. CASE Channel!EnterEmpty
  BY <1>1 DEF Channel!EnterEmpty, ListenerInv
<1>2. CASE Channel!Enter \/ Channel!Leave
  BY <1>2 DEF Channel!Enter, Channel!Leave
<1>3. CASE Channel!Sending
  BY <1>3, Zenon DEF Channel!Sending, Channel!SendBegins, Channel!SendAccepted,
     Channel!SendBusy, Channel!SendFails, Channel!SendGivesUp, Channel!receptionVars
<1>4. CASE Channel!Registration \/ Channel!Unregistration
  BY <1>4, Zenon DEF Channel!Registration, Channel!Unregistration,
     Channel!RegisterFunction, Channel!RegisterListener, Channel!UnregisterFunction,
     Channel!UnregisterListener
<1> QED
  BY <1>1, <1>2, <1>3, <1>4 DEF Channel!CdcNext

\* The port calls an empty function only between the two statements of
\* unregisterReceiveFromHandler() (IqrfCdcChannel.cpp:58-69).
THEOREM HarmOnlyInTheWindow == Spec => HarmOnlyWithin
<1>1. ListenerInv /\ [Channel!CdcNext]_(Channel!cdcVars)
        => [listener' = "broken"
              => listener = "broken" \/ owner = "unregistering"]_(Channel!cdcVars)
  BY BreaksWithin
<1> QED
  BY <1>1, ListenerInvariant, ChannelImplemented, PTL
  DEF Channel!CdcSpec, HarmOnlyWithin, Channel!HarmOnlyWithin

\* A handler that is never unregistered is never harmed, as in this repository: the
\* destructor of DpaHandler2 leaves its function registered (DpaHandler2.cpp:74-83).
THEOREM NeverUnregisteredNeverHarmed ==
    ASSUME MaxUnregisters = 0
    PROVE  Spec => []UnregisterDiscards
<1>1. Channel!CdcInit => UnregisterDiscards
  BY DEF Channel!CdcInit, UnregisterDiscards, Channel!UnregisterDiscards
<1>2. ListenerInv /\ UnregisterDiscards /\ [Channel!CdcNext]_(Channel!cdcVars)
        => UnregisterDiscards'
  <2> SUFFICES ASSUME ListenerInv, listener # "broken",
                      [Channel!CdcNext]_(Channel!cdcVars), listener' = "broken"
               PROVE  FALSE
    BY DEF UnregisterDiscards, Channel!UnregisterDiscards
  <2>1. owner # "unregistering"
    BY DEF ListenerInv
  <2>2. CASE UNCHANGED Channel!cdcVars
    BY <2>2 DEF Channel!cdcVars, Channel!receptionVars
  <2> QED
    BY <2>1, <2>2, BreaksWithin
<1> QED
  BY <1>1, <1>2, ListenerInvariant, ChannelImplemented, PTL DEF Channel!CdcSpec
=============================================================================
