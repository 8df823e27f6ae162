------------------------ MODULE TransactionContract ------------------------
(***************************************************************************)
(* What one DPA transaction promises to the user who calls get(): it ends  *)
(* with one verdict; the verdict is decided once and never changes; what   *)
(* the result says was heard is what was heard before the decision; and    *)
(* the verdict is backed by what happened: an answer of the device, an     *)
(* abort somebody asked for, the end of the patience of a transaction that *)
(* may lose it, or a request that never went out.  How long a transaction  *)
(* waits, and the race between its threads, are not visible here.          *)
(***************************************************************************)
EXTENDS Integers

CONSTANTS
    ResponseCodes,    \* response codes a device may answer with
    Refusals          \* verdicts on a request that never went out

VARIABLES
    phase,       \* "created", "running" (request is out), "decided", "collected"
    confirmed,   \* a confirmation was heard
    response,    \* { } or {code of the last response heard}
    aborted,     \* somebody asked for an abort
    verdict,     \* { } until the transaction is decided, then {code}
    broadcast,   \* the request goes to every node: no response will come
    infinite     \* the transaction must not run out of patience

cvars == <<phase, confirmed, response, aborted, verdict, broadcast, infinite>>

CInit ==
    /\ phase = "created"
    /\ confirmed = FALSE
    /\ response = {}
    /\ aborted = FALSE
    /\ verdict = {}
    /\ broadcast \in BOOLEAN
    /\ infinite \in BOOLEAN

Undecided == phase \in {"created", "running"}

Begin ==
    /\ phase = "created"
    /\ phase' = "running"
    /\ UNCHANGED <<confirmed, response, aborted, verdict, broadcast, infinite>>

\* Late messages of an earlier transaction may be heard before Begin.
HearConfirmation ==
    /\ Undecided
    /\ confirmed' = TRUE
    /\ UNCHANGED <<phase, response, aborted, verdict, broadcast, infinite>>

HearResponse(code) ==
    /\ Undecided
    /\ response' = {code}
    /\ UNCHANGED <<phase, confirmed, aborted, verdict, broadcast, infinite>>

AskAbort ==
    /\ aborted' = TRUE
    /\ UNCHANGED <<phase, confirmed, response, verdict, broadcast, infinite>>

\* 0 is TRN_OK, -1 TRN_ERROR_TIMEOUT, -3 TRN_ERROR_ABORTED.
Justified(v) ==
    \/ response = {v}
    \/ v = 0 /\ response = {} /\ broadcast /\ confirmed
    \/ v = -1 /\ ~infinite
    \/ v = -3 /\ aborted

Decide(v) ==
    /\ \/ phase = "created" /\ v \in Refusals
       \/ phase = "running" /\ Justified(v)
    /\ phase' = "decided"
    /\ verdict' = {v}
    /\ UNCHANGED <<confirmed, response, aborted, broadcast, infinite>>

Collect ==
    /\ phase = "decided"
    /\ phase' = "collected"
    /\ UNCHANGED <<confirmed, response, aborted, verdict, broadcast, infinite>>

CNext ==
    \/ Begin
    \/ HearConfirmation
    \/ \E code \in ResponseCodes : HearResponse(code)
    \/ AskAbort
    \/ \E v \in ResponseCodes \cup Refusals \cup {0, -1, -3} : Decide(v)
    \/ Collect

CSpec == CInit /\ [][CNext]_cvars

=============================================================================
