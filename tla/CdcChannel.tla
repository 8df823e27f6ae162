----------------------------- MODULE CdcChannel -----------------------------
(***************************************************************************)
(* IqrfCdcChannel: a thin layer over the serial port object m_cdc, which   *)
(* belongs to another library: it answers sendData() with OK, BUSY or an   *)
(* error, and calls a listener, once one is registered, from a thread of   *)
(* its own.                                                                *)
(***************************************************************************)
EXTENDS Integers, Sequences

CONSTANTS
    Sends,          \* the calls of sendTo(), each with a message of its own
    MaxAttempts,    \* 4 in the code
    MaxUnregisters  \* bound: calls of unregisterReceiveFromHandler()

VARIABLES
    sending,    \* send -> "idle", "trying", "returned", "thrown"
    attempt,    \* send -> attempts made, while it is trying
    out,        \* the sends that m_cdc has accepted, in order
    receiveFunc,  \* whether m_receiveFromFunc holds a function
    listening,  \* whether the listener is registered with m_cdc
    owner,      \* "using", "registering", "unregistering"
    unregisters, \* calls of unregisterReceiveFromHandler() to come
    listener    \* m_cdc's thread: "idle", "inside" the function, or "broken" by
                \* an exception

sendVars == <<sending, attempt, out>>
receptionVars == <<receiveFunc, listening, owner, unregisters, listener>>
cdcVars == <<sendVars, receptionVars>>

CdcInit ==
    /\ sending = [s \in Sends |-> "idle"]
    /\ attempt = [s \in Sends |-> 0]
    /\ out = <<>>
    /\ receiveFunc = FALSE
    /\ listening = FALSE
    /\ owner = "using"
    /\ unregisters = MaxUnregisters
    /\ listener = "idle"

-----------------------------------------------------------------------------
(* sendTo().                                                               *)

SendBegins(s) ==
    /\ sending[s] = "idle"
    /\ sending' = [sending EXCEPT ![s] = "trying"]
    /\ UNCHANGED <<attempt, out, receptionVars>>

SendAccepted(s) ==
    /\ sending[s] = "trying"
    /\ attempt[s] < MaxAttempts
    /\ attempt' = [attempt EXCEPT ![s] = 0]
    /\ out' = Append(out, s)
    /\ sending' = [sending EXCEPT ![s] = "returned"]
    /\ UNCHANGED receptionVars

\* BUSY: the next attempt follows after a pause.
SendBusy(s) ==
    /\ sending[s] = "trying"
    /\ attempt[s] < MaxAttempts
    /\ attempt' = [attempt EXCEPT ![s] = @ + 1]
    /\ UNCHANGED <<sending, out, receptionVars>>

SendFails(s) ==
    /\ sending[s] = "trying"
    /\ attempt[s] < MaxAttempts
    /\ attempt' = [attempt EXCEPT ![s] = 0]
    /\ sending' = [sending EXCEPT ![s] = "thrown"]
    /\ UNCHANGED <<out, receptionVars>>

\* (mutant) the loop ends as if the last attempt had been successful
MutSendGivesUp(s) ==
    /\ sending[s] = "trying"
    /\ attempt[s] = MaxAttempts
    /\ sending' = [sending EXCEPT ![s] = "returned"]
    /\ attempt' = [attempt EXCEPT ![s] = 0]
    /\ UNCHANGED <<out, receptionVars>>

\* BUSY in all attempts is an error like any other.
SendGivesUp(s) ==
    /\ sending[s] = "trying"
    /\ attempt[s] = MaxAttempts
    /\ sending' = [sending EXCEPT ![s] = "thrown"]
    /\ attempt' = [attempt EXCEPT ![s] = 0]
    /\ UNCHANGED <<out, receptionVars>>

-----------------------------------------------------------------------------
(* The receive handler.                                                    *)

RegisterFunction ==
    /\ owner = "using"
    /\ ~listening
    /\ receiveFunc' = TRUE
    /\ owner' = "registering"
    /\ UNCHANGED <<sendVars, listening, unregisters, listener>>

RegisterListener ==
    /\ owner = "registering"
    /\ listening' = TRUE
    /\ owner' = "using"
    /\ UNCHANGED <<sendVars, receiveFunc, unregisters, listener>>

UnregisterFunction ==
    /\ owner = "using"
    /\ unregisters > 0
    /\ unregisters' = unregisters - 1
    /\ receiveFunc' = FALSE
    /\ owner' = "unregistering"
    /\ UNCHANGED <<sendVars, listening, listener>>

\* (mutant) the listener stays registered
MutUnregisterListener ==
    /\ owner = "unregistering"
    /\ owner' = "using"
    /\ UNCHANGED <<sendVars, receiveFunc, listening, unregisters, listener>>

UnregisterListener ==
    /\ owner = "unregistering"
    /\ listening' = FALSE
    /\ owner' = "using"
    /\ UNCHANGED <<sendVars, receiveFunc, unregisters, listener>>

\* The listener that registerReceiveFromHandler() has made calls the function ...
Enter ==
    /\ listening
    /\ listener = "idle"
    /\ receiveFunc
    /\ listener' = "inside"
    /\ UNCHANGED <<sendVars, receiveFunc, listening, owner, unregisters>>

\* ... without looking: an empty std::function throws.
EnterEmpty ==
    /\ listening
    /\ listener = "idle"
    /\ ~receiveFunc
    /\ listener' = "broken"
    /\ UNCHANGED <<sendVars, receiveFunc, listening, owner, unregisters>>

Leave ==
    /\ listener = "inside"
    /\ listener' = "idle"
    /\ UNCHANGED <<sendVars, receiveFunc, listening, owner, unregisters>>

-----------------------------------------------------------------------------

Sending ==
    \E s \in Sends : SendBegins(s) \/ SendAccepted(s) \/ SendBusy(s) \/ SendFails(s)
                      \/ SendGivesUp(s)
Registration == RegisterFunction \/ RegisterListener
Unregistration == UnregisterFunction \/ UnregisterListener

CdcNext == Sending \/ Registration \/ Unregistration \/ Enter \/ EnterEmpty \/ Leave

CdcSpec == CdcInit /\ [][CdcNext]_cdcVars

-----------------------------------------------------------------------------
(* Properties.                                                             *)

\* sendTo() tells the truth: it returns when the port has accepted the message,
\* once, and throws when it has not, after MaxAttempts attempts at most.
SendTellsTruth ==
    /\ \A i, j \in 1 .. Len(out) : out[i] = out[j] => i = j
    /\ \A s \in Sends :
        /\ attempt[s] <= MaxAttempts
        /\ (\E i \in 1 .. Len(out) : out[i] = s) <=> sending[s] = "returned"

\* "The handler remains empty. All icoming data are silently discarded": what
\* comes during or after unregisterReceiveFromHandler() does no harm.
UnregisterDiscards == listener # "broken"

\* Harm comes only to data that arrive during unregisterReceiveFromHandler(), between
\* its two statements: before and after it the port has no listener, or one whose
\* function is not empty.
HarmOnlyWithin ==
    [][listener' = "broken" => listener = "broken" \/ owner = "unregistering"]_cdcVars
=============================================================================
