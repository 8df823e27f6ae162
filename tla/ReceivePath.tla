---------------------------- MODULE ReceivePath -----------------------------
(***************************************************************************)
(* A message's way through a CDC channel into the handler: the port's      *)
(* thread calls the function that the constructor of DpaHandler2 has       *)
(* registered, which is ResponseMessageHandler(), and comes back from it.  *)
(* The rest of the channel and of the handler goes on meanwhile.  What is  *)
(* sent is the request of the pending transaction: execute() decides after *)
(* sendTo() is over, and sendRequest() catches what it throws.             *)
(***************************************************************************)
EXTENDS MessageHandlers

CONSTANTS Sends, MaxAttempts, MaxUnregisters    \* see CdcChannel

ASSUME ReceivePathAssumption == MaxAttempts \in Nat \ {0} /\ MaxUnregisters \in Nat

VARIABLES sending, attempt, out, receiveFunc, listening, owner, unregisters, listener

Channel == INSTANCE CdcChannel

channelVars == <<sending, attempt, out, receiveFunc, listening, owner, unregisters, listener>>
vars == <<handlersVars, channelVars>>

Init == HandlersInit /\ Channel!CdcInit

\* The first transaction is pending: a message before it would meet a null
\* m_pendingTransaction, and is left out.
Pending == \A s \in Sends : sending[s] # "idle"

Deliver == Pending /\ Channel!Enter /\ \E d \in Raw : Receive(d)

Return == at = "away" /\ Channel!Leave /\ UNCHANGED handlersVars

RequestSent == \A s \in Sends : sending[s] \in {"returned", "thrown"}

\* The constructor of DpaHandler2 registers its function, before anybody can use
\* the handler; nothing registers it again after an unregistration.
HandlerConstructed == listening \/ unregisters < MaxUnregisters

Next ==
    \/ Deliver \/ Return
    \/ /\ HandlerConstructed
       /\ ReceiverGoesOn \/ OthersStep
       /\ decided' # decided => RequestSent
       /\ UNCHANGED channelVars
    \/ /\ \/ ~HandlerConstructed /\ Channel!Registration
          \/ HandlerConstructed /\ (Channel!Sending \/ Channel!Unregistration \/ Channel!EnterEmpty)
       /\ UNCHANGED handlersVars

Spec == Init /\ [][Next]_vars

FairSpec == Spec /\ HandlersFairness

SendTellsTruth == Channel!SendTellsTruth
UnregisterDiscards == Channel!UnregisterDiscards
HarmOnlyWithin == Channel!HarmOnlyWithin
=============================================================================
