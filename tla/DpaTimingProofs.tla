-------------------------- MODULE DpaTimingProofs ---------------------------
(***************************************************************************)
(* Proofs about the estimates of DpaTiming, for all bytes a confirmation   *)
(* can hold and all lengths of a response.                                 *)
(***************************************************************************)
EXTENDS DpaTiming, TLAPS

LEMMA Uint8Range ==
    ASSUME NEW x \in Int
    PROVE  Uint8(x) \in 0 .. 255
  BY DEF Uint8

LEMMA Int8Range ==
    ASSUME NEW x \in Int
    PROVE  Int8(x) \in -128 .. 127
  BY DEF Int8, Uint8

LEMMA SlotRange ==
    ASSUME NEW m, NEW os, NEW s \in Int, NEW length \in Int
    PROVE  /\ Slot(m, os, s, length) \in 40 .. 200
           /\ Slot(m, os, s, length) <= Slot(m, os, s, NoResponse)
  BY DEF Slot, StdSlot, LpSlot, NoResponse

\* A product of two naturals is at least the first if the second is not 0.
LEMMA AtLeastOnce ==
    ASSUME NEW n \in Nat, NEW k \in Nat
    PROVE  (n + 1) * k \in Nat /\ (n + 1) * k >= k
  BY SMT

\* Multiplying by the number of hops keeps the order.
LEMMA MoreIsMore ==
    ASSUME NEW n \in Nat, NEW j \in Nat, NEW k \in Nat, j <= k
    PROVE  (n + 1) * j <= (n + 1) * k
  BY SMT

LEMMA EstimateBounds ==
    ASSUME NEW m, NEW os, NEW h \in Int, NEW s \in Int, NEW r \in Int,
           NEW length \in Int
    PROVE  /\ Estimated(m, os, h, s, r, length) \in Int
           /\ Estimated(m, os, h, s, r, length) >= 40 + SAFETY_TIMEOUT_MS
           /\ Estimated(m, os, h, s, r, length)
                <= Estimated(m, os, h, s, r, NoResponse)
<1> DEFINE a == Uint8(h)  b == Uint8(s)  c == Uint8(r)
           k == Slot(m, os, b, length)
           w == Slot(m, os, b, NoResponse)
           request == (a + 1) * b
<1>1. a \in Nat /\ b \in Nat /\ c \in Nat
  BY Uint8Range
<1>2. k \in 40 .. 200 /\ w \in 40 .. 200 /\ k <= w
  BY <1>1, SlotRange DEF NoResponse
<1>3. request \in Nat
  BY <1>1, AtLeastOnce
<1>4. (c + 1) * k \in Nat /\ (c + 1) * k >= k /\ (c + 1) * w \in Nat
  BY <1>1, <1>2, AtLeastOnce
<1>5. (c + 1) * k <= (c + 1) * w
  BY <1>1, <1>2, MoreIsMore
<1>6. /\ Estimated(m, os, h, s, r, length) = request * 10 + (c + 1) * k + SAFETY_TIMEOUT_MS
      /\ Estimated(m, os, h, s, r, NoResponse) = request * 10 + (c + 1) * w + SAFETY_TIMEOUT_MS
  BY DEF Estimated, Estimate
<1> DEFINE p == (c + 1) * k
           q == (c + 1) * w
<1> HIDE DEF request, p, q, k, w, a, b, c
<1>7. p \in Nat /\ p >= 40 /\ p <= q /\ q \in Nat
  BY <1>2, <1>4, <1>5 DEF p, q
<1> QED
  BY <1>3, <1>6, <1>7 DEF p, q, SAFETY_TIMEOUT_MS

\* TypeOK, that no estimate is below one slot and the safety time, and that a
\* response never makes the estimate longer: one invariant, which needs to
\* know that worst is the estimate of the members as they are now.
TimingInv ==
    /\ TypeOK
    /\ EstimatePositive
    /\ RefreshBounded
    /\ worst # 0
         => worst = Estimated(mode, osVersion, hops, timeslot, hopsResponse, NoResponse)

LEMMA TimingInductive ==
    ASSUME TimingInv, [Next]_vars
    PROVE  TimingInv'
<1> USE DEF TimingInv, TypeOK, EstimatePositive, RefreshBounded
<1>1. ASSUME NEW h \in Bytes, NEW s \in Bytes, NEW r \in Bytes, Confirm(h, s, r)
      PROVE  TimingInv'
  <2>1. h \in Int /\ s \in Int /\ r \in Int
    BY BytesAssumption
  <2>2. /\ hops' \in -128 .. 127 /\ timeslot' \in -128 .. 127
        /\ hopsResponse' \in -128 .. 127
    BY <1>1, <2>1, Int8Range DEF Confirm
  <2>3. /\ estimate' = Estimated(mode', osVersion', hops', timeslot', hopsResponse', NoResponse)
        /\ worst' = estimate'
        /\ last' = "confirmation"
        /\ UNCHANGED <<mode, osVersion>>
    BY <1>1 DEF Confirm
  <2>4. estimate' \in Int /\ estimate' >= 40 + SAFETY_TIMEOUT_MS
    BY <2>2, <2>3, EstimateBounds DEF NoResponse
  <2> QED
    BY <2>2, <2>3, <2>4
<1>2. ASSUME NEW length \in Lengths, Respond(length)
      PROVE  TimingInv'
  <2> DEFINE data == Int8(length - ResponseHeader)
  <2>1. data \in Int
    BY LengthsAssumption, Int8Range DEF ResponseHeader
  <2>2. /\ estimate' = Estimated(mode, osVersion, hops, timeslot, hopsResponse, data)
        /\ last' = "response"
        /\ UNCHANGED <<mode, osVersion, hops, timeslot, hopsResponse, worst>>
    BY <1>2 DEF Respond
  <2> HIDE DEF data
  <2>3. /\ estimate' \in Int
        /\ estimate' >= 40 + SAFETY_TIMEOUT_MS
        /\ estimate' <= Estimated(mode, osVersion, hops, timeslot, hopsResponse, NoResponse)
    BY <2>1, <2>2, EstimateBounds
  <2> QED
    BY <2>2, <2>3
<1>3. CASE UNCHANGED vars
  BY <1>3 DEF vars
<1> QED
  BY <1>1, <1>2, <1>3 DEF Next

LEMMA TimingInvariant == Spec => []TimingInv
<1>1. Init => TimingInv
  BY DEF Init, TimingInv, TypeOK, EstimatePositive, RefreshBounded
<1> QED
  BY <1>1, TimingInductive, PTL DEF Spec

\* The types of the members and of the estimates.
THEOREM TypeCorrect == Spec => []TypeOK
  BY TimingInvariant, PTL DEF TimingInv

\* No estimate is 0 or negative, whatever bytes the confirmation holds: what
\* DpaTransaction assumes of its Estimates (DpaTransaction2.cpp:406, 447).
THEOREM EstimatesPositive == Spec => []EstimatePositive
  BY TimingInvariant, PTL DEF TimingInv

\* "worst case" is one (DpaTransaction2.cpp:484, 531), for every network and
\* every length.
THEOREM WorstCaseIsWorst == Spec => []RefreshBounded
  BY TimingInvariant, PTL DEF TimingInv

\* Data of a response are never so long that their length changes its sign.
LEMMA DataLength ==
    ASSUME NEW length \in Lengths, ResponseHeader <= length
    PROVE  Int8(length - ResponseHeader) = length - ResponseHeader
  BY LengthsAssumption DEF Int8, Uint8, ResponseHeader

LEMMA SlotGrows ==
    ASSUME NEW m, NEW os, NEW s \in Int, NEW j \in Nat, NEW k \in Nat, j <= k
    PROVE  Slot(m, os, s, j) <= Slot(m, os, s, k)
  BY DEF Slot, StdSlot, LpSlot, NoResponse

\* The steps of the two tables of slots go up, for both versions of the system
\* (DpaTransaction2.cpp:490-507, 538-557).
THEOREM LongerResponses == Spec => []LongerTakesLonger
<1>1. TypeOK => LongerTakesLonger
  <2> SUFFICES ASSUME TypeOK, NEW l1 \in Lengths, NEW l2 \in Lengths,
                      ResponseHeader <= l1, l1 <= l2
               PROVE  Estimated(mode, osVersion, hops, timeslot, hopsResponse,
                                Int8(l1 - ResponseHeader))
                      <= Estimated(mode, osVersion, hops, timeslot, hopsResponse,
                                   Int8(l2 - ResponseHeader))
    BY DEF LongerTakesLonger
  <2> DEFINE j == l1 - ResponseHeader  k == l2 - ResponseHeader
             s == Uint8(timeslot)  c == Uint8(hopsResponse)
             request == (Uint8(hops) + 1) * s
             p == Slot(mode, osVersion, s, j)  q == Slot(mode, osVersion, s, k)
  <2>1. j \in Nat /\ k \in Nat /\ j <= k
    BY LengthsAssumption DEF ResponseHeader
  <2>2. ResponseHeader <= l2
    BY LengthsAssumption DEF ResponseHeader
  <2>3. Int8(l1 - ResponseHeader) = j /\ Int8(l2 - ResponseHeader) = k
    BY <2>2, DataLength
  <2>4. s \in Nat /\ c \in Nat /\ Uint8(hops) \in Nat
    <3>1. hops \in Int /\ timeslot \in Int /\ hopsResponse \in Int
      BY DEF TypeOK
    <3> QED
      BY <3>1, Uint8Range
  <2>5. p \in 40 .. 200 /\ q \in 40 .. 200 /\ p <= q
    <3> HIDE DEF s, j, k
    <3>1. s \in Int /\ j \in Int /\ k \in Int
      BY <2>1, <2>4
    <3>2. p \in 40 .. 200 /\ q \in 40 .. 200
      BY <3>1, SlotRange
    <3>3. p <= q
      BY <3>1, <2>1, SlotGrows
    <3> QED
      BY <3>2, <3>3
  <2>6. request \in Nat
    BY <2>4, AtLeastOnce
  <2>7. (c + 1) * p \in Nat /\ (c + 1) * q \in Nat /\ (c + 1) * p <= (c + 1) * q
    BY <2>4, <2>5, MoreIsMore, AtLeastOnce
  <2>8. /\ Estimated(mode, osVersion, hops, timeslot, hopsResponse, j)
              = request * 10 + (c + 1) * p + SAFETY_TIMEOUT_MS
        /\ Estimated(mode, osVersion, hops, timeslot, hopsResponse, k)
              = request * 10 + (c + 1) * q + SAFETY_TIMEOUT_MS
    BY DEF Estimated, Estimate
  <2> DEFINE x == (c + 1) * p  y == (c + 1) * q
  <2>9. x \in Nat /\ y \in Nat /\ x <= y
    BY <2>7
  <2>10. request * 10 + x + SAFETY_TIMEOUT_MS <= request * 10 + y + SAFETY_TIMEOUT_MS
    <3> HIDE DEF request, x, y
    <3> QED
      BY <2>6, <2>9 DEF SAFETY_TIMEOUT_MS
  <2> QED
    BY <2>3, <2>8, <2>10
<1> QED
  BY <1>1, TypeCorrect, PTL

\* The table of FRC response times goes up, and low power mode takes longer, for
\* all numbers of nodes (DpaTransaction2.cpp:568-617).
THEOREM FrcTimeoutsGrow == Spec => []FrcGrows
<1>1. FrcGrows
  <2> SUFFICES ASSUME NEW bonded \in Bytes, NEW discovered \in Bytes,
                      NEW c1 \in 0 .. 7, NEW c2 \in 0 .. 7
               PROVE  /\ FrcTimeout("kStd", bonded, discovered, c1)
                            < FrcTimeout("kLp", bonded, discovered, c1)
                      /\ c1 < c2 => FrcTimeout(mode, bonded, discovered, c1)
                                      < FrcTimeout(mode, bonded, discovered, c2)
    BY DEF FrcGrows
  <2>1. bonded \in Nat /\ discovered \in Nat
    BY BytesAssumption
  <2>2. /\ FrcResponseTime(c1) \in Nat /\ FrcResponseTime(c2) \in Nat
        /\ c1 < c2 => FrcResponseTime(c1) < FrcResponseTime(c2)
    BY DEF FrcResponseTime, FrcResponseTimes
  <2> QED
    BY <2>1, <2>2 DEF FrcTimeout
<1> QED
  BY <1>1, PTL

=============================================================================
