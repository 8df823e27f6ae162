----------------------------- MODULE DpaTiming ------------------------------
(***************************************************************************)
(* How long DpaTransaction2 expects a transaction to take: the estimates   *)
(* from a confirmation and from a response, and the network parameters     *)
(* kept between the two.                                                   *)
(*                                                                         *)
(* DpaTransaction abstracts an estimate to a member of a small set of      *)
(* positive numbers; this module has the arithmetic.  The parameters are   *)
(* bytes of the confirmation, kept in int8_t members and cast back to      *)
(* uint8_t; the length of the response data is cut to int8_t, with -1      *)
(* meaning that there is no response yet.                                  *)
(***************************************************************************)
EXTENDS Integers

CONSTANTS
    Bytes,      \* values considered for the bytes of a confirmation
    Lengths     \* lengths considered for a received response

ASSUME BytesAssumption == Bytes \subseteq 0 .. 255
ASSUME LengthsAssumption == Lengths \subseteq 0 .. 64

VARIABLES
    mode,          \* m_currentCommunicationMode: "kStd" or "kLp"
    osVersion,     \* m_currentTimingParams.osVersion: "4.03D" or another
    hops,          \* m_hops
    timeslot,      \* m_timeslotLength
    hopsResponse,  \* m_hopsResponse
    estimate,      \* what the last estimation returned, 0 before
    worst,         \* what the last estimation from a confirmation returned, or 0
    last           \* "nothing", "confirmation" or "response"

vars == <<mode, osVersion, hops, timeslot, hopsResponse, estimate, worst, last>>

SAFETY_TIMEOUT_MS == 40
NoResponse == -1
ResponseHeader == 8    \* sizeof( TDpaIFaceHeader ) + 2

\* (mutant) the members are passed on without the cast
MutUint8(x) == x
Uint8(x) == x % 256
\* (mutant) the bytes are kept as they are
MutInt8(x) == x
Int8(x) == IF Uint8(x) < 128 THEN Uint8(x) ELSE Uint8(x) - 256

-----------------------------------------------------------------------------

\* (mutant) the slot of the confirmation is the one of a short response
MutStdSlot(os, slot, length) ==
    IF length < 16 THEN 40 ELSE IF length < 40 THEN 50 ELSE 60

\* The response time slot, in ms, that EstimateStdTimeout() counts with.
StdSlot(os, slot, length) ==
    IF length = NoResponse THEN (IF slot = 20 THEN 200 ELSE 60)
    ELSE IF os = "4.03D"
         THEN IF length < 17 THEN 40 ELSE IF length < 41 THEN 50 ELSE 60
         ELSE IF length < 16 THEN 40 ELSE IF length < 40 THEN 50 ELSE 60

\* (mutant) two of the limits swapped
MutLpSlot(os, slot, length) ==
    IF length = NoResponse THEN (IF slot = 20 THEN 200 ELSE 110)
    ELSE IF length < 11 THEN 90 ELSE IF length < 34 THEN 80 ELSE 100

\* The same for EstimateLpTimeout().
LpSlot(os, slot, length) ==
    IF length = NoResponse THEN (IF slot = 20 THEN 200 ELSE 110)
    ELSE IF os = "4.03D"
         THEN IF length < 17 THEN 80 ELSE IF length < 41 THEN 90 ELSE 100
         ELSE IF length < 11 THEN 80 ELSE IF length < 34 THEN 90
              ELSE IF length < 57 THEN 100 ELSE 110

Slot(m, os, slot, length) ==
    IF m = "kLp" THEN LpSlot(os, slot, length) ELSE StdSlot(os, slot, length)

Estimate(m, os, h, s, r, length) ==
    (h + 1) * s * 10 + (r + 1) * Slot(m, os, s, length) + SAFETY_TIMEOUT_MS

\* getFrcTimeout(): the response times that the network may be set to, by the
\* high digit of FrcResponseTime, and the time for an advanced FRC by two
\* counters of nodes.  Nobody calls it yet.
FrcResponseTimes == [code \in 0 .. 7 |->
    <<40, 360, 680, 1320, 2600, 5160, 10280, 20620>>[code + 1]]

FrcResponseTime(code) == FrcResponseTimes[code]

FrcTimeout(m, bonded, discovered, code) ==
    IF m = "kStd"
    THEN bonded * 30 + (discovered + 2) * 110 + FrcResponseTime(code) + 220
    ELSE bonded * 30 + (discovered + 2) * 160 + FrcResponseTime(code) + 260

\* The estimate from the members, as processReceivedMessage() asks for it.
Estimated(m, os, h, s, r, length) ==
    Estimate(m, os, Uint8(h), Uint8(s), Uint8(r), length)

-----------------------------------------------------------------------------

Init ==
    /\ mode \in {"kStd", "kLp"}
    /\ osVersion \in {"4.03D", "4.02D"}
    /\ hops = 0
    /\ timeslot = 0
    /\ hopsResponse = 0
    /\ estimate = 0
    /\ worst = 0
    /\ last = "nothing"

Confirm(h, s, r) ==
    /\ hops' = Int8(h)
    /\ timeslot' = Int8(s)
    /\ hopsResponse' = Int8(r)
    /\ estimate' = Estimated(mode, osVersion, hops', timeslot', hopsResponse', NoResponse)
    /\ worst' = estimate'
    /\ last' = "confirmation"
    /\ UNCHANGED <<mode, osVersion>>

\* A response may come without a confirmation: the members are then 0.
Respond(length) ==
    /\ estimate' = Estimated(mode, osVersion, hops, timeslot, hopsResponse,
                             Int8(length - ResponseHeader))
    /\ last' = "response"
    /\ UNCHANGED <<mode, osVersion, hops, timeslot, hopsResponse, worst>>

Next ==
    \/ \E h, s, r \in Bytes : Confirm(h, s, r)
    \/ \E length \in Lengths : Respond(length)

Spec == Init /\ [][Next]_vars

-----------------------------------------------------------------------------
(* Properties.                                                             *)

\* Type invariant: the members hold int8_t values.
TypeOK ==
    /\ mode \in {"kStd", "kLp"}
    /\ osVersion \in {"4.03D", "4.02D"}
    /\ hops \in -128 .. 127
    /\ timeslot \in -128 .. 127
    /\ hopsResponse \in -128 .. 127
    /\ estimate \in Int
    /\ worst \in Int
    /\ last \in {"nothing", "confirmation", "response"}

\* Every estimate is at least one short slot and the safety time, for every
\* byte of a confirmation, also above 127: DpaTransaction2.cpp:406 and 447 can
\* rely on it, and execute() never spins on an expected duration of 0
\* (DpaTransaction2.cpp:264).
EstimatePositive == last # "nothing" => estimate >= 40 + SAFETY_TIMEOUT_MS

\* The slot assumed before a response is there is "worst case"
\* (DpaTransaction2.cpp:484, 531): correcting the estimate by the response
\* never makes it longer than the one from the confirmation.
RefreshBounded == last = "response" /\ worst # 0 => estimate <= worst

\* Among responses with a complete header, a longer one is never expected to
\* take less time (DpaTransaction2.cpp:490-507, 538-557).
LongerTakesLonger ==
    \A l1, l2 \in Lengths :
        ResponseHeader <= l1 /\ l1 <= l2
          => Estimated(mode, osVersion, hops, timeslot, hopsResponse,
                       Int8(l1 - ResponseHeader))
             <= Estimated(mode, osVersion, hops, timeslot, hopsResponse,
                          Int8(l2 - ResponseHeader))

\* The time for an FRC grows with the response time that is set, and is longer in
\* low power mode, whatever the network (DpaTransaction2.cpp:568-617).
FrcGrows ==
    \A bonded, discovered \in Bytes : \A c1, c2 \in 0 .. 7 :
        /\ FrcTimeout("kStd", bonded, discovered, c1) < FrcTimeout("kLp", bonded, discovered, c1)
        /\ c1 < c2 => FrcTimeout(mode, bonded, discovered, c1)
                        < FrcTimeout(mode, bonded, discovered, c2)
=============================================================================
