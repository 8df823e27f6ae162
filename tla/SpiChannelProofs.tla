-------------------------- MODULE SpiChannelProofs --------------------------
(***************************************************************************)
(* Proofs about SpiChannel, for any number of callers of sendTo(), any     *)
(* number of attempts and any number of messages: its type invariant with  *)
(* the ownership of m_commMutex, that sendTo() writes at most once, that   *)
(* no received message is lost, that the channel is quiet once its         *)
(* destructor has returned, that the whole of it is one queue, that every  *)
(* step of sendTo() brings it nearer to its end, and under which condition *)
(* unregistering the handler is harmless.                                  *)
(*                                                                         *)
(* The invariant has three parts, which the actions disturb in different   *)
(* ways: the flags, the bus with its mutex and the calls of sendTo(), and  *)
(* the way of the messages from the device to the worker.                  *)
(***************************************************************************)
EXTENDS SpiChannel, SequenceTheorems, TLAPS

FlagsInv ==
    /\ stopped \in BOOLEAN /\ handler \in BOOLEAN /\ tested \in BOOLEAN
    /\ terminated \in BOOLEAN

\* The mutex belongs to the thread that has read the status and not yet acted on
\* it.  When the destructor waits for the listening thread, nobody is in sendTo();
\* when it has returned, that thread has ended.
BusInv ==
    /\ call \in [Sends -> {"idle", "trying", "deciding", "waiting", "returned"}]
    /\ attempt \in [Sends -> 0 .. ATTEMPTS]
    /\ commMutex \in Sends \cup {"listener", "query", "free"}
    /\ status \in {"none", "ready", "busy", "data", "failed"}
    /\ listener \in {"waiting", "deciding", "pushing", "testing", "stopped"}
    /\ queries \in 0 .. MaxQueries
    /\ owner \in {"using", "joining", "gone"}
    /\ \A s \in Sends : call[s] = "deciding" <=> commMutex = s
    /\ listener = "deciding" <=> commMutex = "listener"
    /\ owner # "using" => \A s \in Sends : call[s] \in {"idle", "returned"}
    /\ owner = "gone" => listener = "stopped"

LEMMA FlagsKept ==
    ASSUME FlagsInv, [Next]_vars
    PROVE  FlagsInv'
<1> USE DEF FlagsInv, vars, sendVars, busVars, listenVars, deviceVars, readVars,
            queueVars, handVars, workerVars, restVars, otherVars
<1>1. CASE \E s \in Sends : SendSteps(s)
  BY <1>1, Zenon DEF SendSteps, SendBegins, SendAttempts, SendWrites, SendRetries,
                     SendPostpones, SendResumes, SendDrops
<1>2. CASE Produce \/ QueryBegins \/ QueryEnds
  BY <1>2, Zenon DEF Produce, QueryBegins, QueryEnds
<1>3. CASE \/ ListenLoops \/ ListenWakes \/ ListenReadFails \/ ListenReads
           \/ ListenIdles \/ ListenPushes
  BY <1>3, Zenon DEF ListenLoops, ListenWakes, ListenReadFails, ListenReads, ListenIdles,
                     ListenPushes, Queue!Accept
<1>4. CASE WorkerTests \/ WorkerHandsOver \/ Register \/ Unregister
  BY <1>4, Zenon DEF WorkerTests, WorkerHandsOver, Register, Unregister, Queue!Start,
                     Queue!End
<1>5. CASE DestructorBegins \/ DestructorJoins \/ UNCHANGED vars
  BY <1>5, Zenon DEF DestructorBegins, DestructorJoins
<1> QED
  BY <1>1, <1>2, <1>3, <1>4, <1>5 DEF Next

\* The bus.
LEMMA Reading ==
    ASSUME BusInv, NEW t, ReadStatus(t)
    PROVE  /\ commMutex = "free" /\ commMutex' = t
           /\ status' \in {"ready", "busy", "data", "failed"}
  BY DEF BusInv, ReadStatus

LEMMA SendersKeepBus ==
    ASSUME BusInv, NEW s \in Sends, SendSteps(s)
    PROVE  BusInv'
<1> USE SpiAssumption DEF BusInv, restVars, otherVars, readVars, listenVars
<1>1. CASE SendBegins(s)
  BY <1>1 DEF SendBegins, busVars
<1>2. CASE SendAttempts(s)
  <2>1. /\ commMutex = "free" /\ commMutex' = s
        /\ status' \in {"ready", "busy", "data", "failed"}
    BY <1>2, Reading DEF SendAttempts
  <2>2. /\ call' = [call EXCEPT ![s] = "deciding"] /\ call[s] = "trying"
        /\ attempt' = [attempt EXCEPT ![s] = @ + 1] /\ attempt[s] < ATTEMPTS
        /\ UNCHANGED <<listener, queries, owner>>
    BY <1>2 DEF SendAttempts
  <2>3. attempt' \in [Sends -> 0 .. ATTEMPTS]
    BY <2>2
  <2> QED
    BY <2>1, <2>2, <2>3
<1>3. CASE SendWrites(s)
  BY <1>3 DEF SendWrites, Release
<1>4. CASE SendRetries(s)
  BY <1>4 DEF SendRetries, Release
<1>5. CASE SendPostpones(s)
  BY <1>5 DEF SendPostpones, Release
<1>6. CASE SendResumes(s)
  BY <1>6 DEF SendResumes, busVars
<1>7. CASE SendDrops(s)
  BY <1>7 DEF SendDrops, busVars
<1> QED
  BY <1>1, <1>2, <1>3, <1>4, <1>5, <1>6, <1>7 DEF SendSteps

LEMMA ListenerKeepsBus ==
    ASSUME BusInv,
           \/ ListenLoops \/ ListenWakes \/ ListenReadFails \/ ListenReads \/ ListenIdles
           \/ ListenPushes
    PROVE  BusInv'
<1> USE SpiAssumption DEF BusInv, restVars, sendVars
<1>1. CASE ListenLoops
  BY <1>1 DEF ListenLoops, busVars
<1>2. CASE ListenWakes
  <2>1. /\ commMutex = "free" /\ commMutex' = "listener"
        /\ status' \in {"ready", "busy", "data", "failed"}
    BY <1>2, Reading DEF ListenWakes
  <2> QED
    BY <1>2, <2>1 DEF ListenWakes
<1>3. CASE ListenReadFails
  BY <1>3 DEF ListenReadFails, Release
<1>4. CASE ListenReads
  BY <1>4 DEF ListenReads, Release
<1>5. CASE ListenIdles
  BY <1>5 DEF ListenIdles, Release
<1>6. CASE ListenPushes
  BY <1>6 DEF ListenPushes, busVars
<1> QED
  BY <1>1, <1>2, <1>3, <1>4, <1>5, <1>6

LEMMA BusKept ==
    ASSUME BusInv, [Next]_vars
    PROVE  BusInv'
<1> USE SpiAssumption DEF BusInv, otherVars, readVars, listenVars, restVars, sendVars
<1>1. CASE QueryBegins
  <2>1. /\ commMutex = "free" /\ commMutex' = "query"
        /\ status' \in {"ready", "busy", "data", "failed"}
    BY <1>1, Reading DEF QueryBegins
  <2> QED
    BY <1>1, <2>1 DEF QueryBegins
<1>2. CASE QueryEnds
  BY <1>2 DEF QueryEnds, Release
<1>3. CASE Produce
  BY <1>3 DEF Produce, busVars
<1>4. CASE WorkerTests
  BY <1>4 DEF WorkerTests, busVars
<1>5. CASE WorkerHandsOver
  BY <1>5 DEF WorkerHandsOver, busVars
<1>6. CASE Register \/ Unregister
  BY <1>6 DEF Register, Unregister, busVars
<1>7. CASE DestructorBegins
  BY <1>7 DEF DestructorBegins, busVars
<1>8. CASE DestructorJoins
  BY <1>8 DEF DestructorJoins, busVars
<1>9. CASE UNCHANGED vars
  BY <1>9 DEF vars, busVars
<1> QED
  BY <1>1, <1>2, <1>3, <1>4, <1>5, <1>6, <1>7, <1>8, <1>9, SendersKeepBus,
     ListenerKeepsBus DEF Next

-----------------------------------------------------------------------------
(* The way of the messages: how a message moves between two sequences.     *)

LEMMA HeadMoves ==
    ASSUME NEW S, NEW a \in Seq(S), NEW d \in Seq(S), d # <<>>
    PROVE  Append(a, Head(d)) \o Tail(d) = a \o d
<1>1. Head(d) \in S /\ Tail(d) \in Seq(S) /\ Len(Tail(d)) = Len(d) - 1
      /\ \A i \in 1 .. Len(Tail(d)) : Tail(d)[i] = d[i + 1]
  BY HeadTailProperties
<1>2. Head(d) = d[1] /\ Len(d) \in Nat \ {0} /\ Len(a) \in Nat
  <2>1. Len(d) \in Nat \ {0} /\ Len(a) \in Nat
    BY EmptySeq, LenProperties
  <2> QED
    BY <2>1
<1> DEFINE b == Append(a, Head(d))
<1>3. b \in Seq(S) /\ Len(b) = Len(a) + 1
      /\ (\A i \in 1 .. Len(a) : b[i] = a[i]) /\ b[Len(a) + 1] = Head(d)
  BY <1>1, AppendProperties
<1> HIDE DEF b
<1>4. /\ b \o Tail(d) \in Seq(S) /\ a \o d \in Seq(S)
      /\ Len(b \o Tail(d)) = Len(a) + Len(d) /\ Len(a \o d) = Len(a) + Len(d)
  <2>1. b \o Tail(d) \in Seq(S) /\ Len(b \o Tail(d)) = Len(b) + Len(Tail(d))
    BY <1>1, <1>3, ConcatProperties
  <2>2. a \o d \in Seq(S) /\ Len(a \o d) = Len(a) + Len(d)
    BY ConcatProperties
  <2> QED
    BY <1>1, <1>2, <1>3, <2>1, <2>2
<1>5. ASSUME NEW i \in 1 .. Len(a) + Len(d)
      PROVE  (b \o Tail(d))[i] = (a \o d)[i]
  <2>1. (a \o d)[i] = IF i <= Len(a) THEN a[i] ELSE d[i - Len(a)]
    BY ConcatProperties
  <2>2. (b \o Tail(d))[i] = IF i <= Len(b) THEN b[i] ELSE Tail(d)[i - Len(b)]
    <3>1. b \in Seq(S) /\ Tail(d) \in Seq(S)
      BY <1>1, <1>3
    <3>2. \A j \in 1 .. Len(b) + Len(Tail(d)) :
             (b \o Tail(d))[j] = IF j <= Len(b) THEN b[j] ELSE Tail(d)[j - Len(b)]
      BY <3>1, ConcatProperties, Zenon
    <3>3. i \in 1 .. Len(b) + Len(Tail(d))
      <4>1. Len(b) + Len(Tail(d)) = Len(a) + Len(d)
        BY <1>1, <1>2, <1>3
      <4> QED
        BY <4>1
    <3> QED
      BY <3>2, <3>3, Zenon
  <2>3. CASE i <= Len(a)
    BY <1>2, <1>3, <2>1, <2>2, <2>3
  <2>4. CASE i = Len(a) + 1
    <3>1. ~(i <= Len(a)) /\ i <= Len(b) /\ i - Len(a) = 1
      BY <1>2, <1>3, <2>4
    <3>2. (a \o d)[i] = d[1]
      BY <2>1, <3>1
    <3>3. (b \o Tail(d))[i] = b[Len(a) + 1]
      BY <2>2, <2>4, <3>1
    <3> QED
      BY <1>2, <1>3, <3>2, <3>3
  <2>5. CASE i > Len(a) + 1
    <3>1. i - Len(b) \in 1 .. Len(Tail(d)) /\ ~(i <= Len(b)) /\ ~(i <= Len(a))
      BY <1>1, <1>2, <1>3, <2>5
    <3>2. Tail(d)[i - Len(b)] = d[i - Len(b) + 1] /\ i - Len(b) + 1 = i - Len(a)
      BY <1>1, <1>2, <1>3, <3>1
    <3> QED
      BY <2>1, <2>2, <3>1, <3>2
  <2>6. i <= Len(a) \/ i = Len(a) + 1 \/ i > Len(a) + 1
    BY <1>2
  <2> QED
    BY <2>3, <2>4, <2>5, <2>6, Zenon
<1> QED
  BY <1>4, <1>5, SeqEqual DEF b

LEMMA AppendMoves ==
    ASSUME NEW S, NEW a \in Seq(S), NEW d \in Seq(S), NEW e \in S
    PROVE  a \o Append(d, e) = Append(a \o d, e)
<1>1. <<e>> \in Seq(S) /\ a \o d \in Seq(S)
  BY ConcatProperties
<1>2. Append(d, e) = d \o <<e>> /\ Append(a \o d, e) = (a \o d) \o <<e>>
  BY <1>1, AppendIsConcat
<1> QED
  BY <1>1, <1>2, ConcatAssociative

LEMMA Numbered ==
    ASSUME NEW n \in Nat
    PROVE  /\ [i \in 1 .. n |-> i] \in Seq(Nat)
           /\ Append([i \in 1 .. n |-> i], n + 1) = [i \in 1 .. n + 1 |-> i]
<1> DEFINE s == [i \in 1 .. n |-> i]
           t == [i \in 1 .. n + 1 |-> i]
<1>1. s \in Seq(Nat) /\ Len(s) = n /\ t \in Seq(Nat) /\ Len(t) = n + 1
  OBVIOUS
<1>2. /\ Append(s, n + 1) \in Seq(Nat) /\ Len(Append(s, n + 1)) = n + 1
      /\ \A i \in 1 .. n : Append(s, n + 1)[i] = s[i]
      /\ Append(s, n + 1)[n + 1] = n + 1
  <2> HIDE DEF s
  <2>1. n + 1 \in Nat
    OBVIOUS
  <2> QED
    BY <1>1, <2>1, AppendProperties
<1>3. \A i \in 1 .. n + 1 : Append(s, n + 1)[i] = t[i]
  <2> TAKE i \in 1 .. n + 1
  <2>1. CASE i \in 1 .. n
    <3>1. Append(s, n + 1)[i] = s[i] /\ s[i] = i /\ t[i] = i
      BY <1>2, <2>1
    <3> QED
      BY <3>1
  <2>2. CASE i = n + 1
    <3>1. t[i] = i
      OBVIOUS
    <3> QED
      BY <1>2, <2>2, <3>1
  <2> QED
    BY <2>1, <2>2
<1> QED
  <2> HIDE DEF s, t
  <2>1. Append(s, n + 1) = t
    BY <1>1, <1>2, <1>3, SeqEqual
  <2> QED
    BY <1>1, <2>1 DEF s, t

-----------------------------------------------------------------------------
(* What sendTo() has written.                                              *)

OutInv == out \in Seq(Sends) /\ SentOnceOrDropped

LEMMA WriteKeepsOut ==
    ASSUME BusInv, OutInv, NEW s \in Sends, SendWrites(s)
    PROVE  OutInv'
<1>1. /\ out' = Append(out, s) /\ call[s] = "deciding"
      /\ call' = [call EXCEPT ![s] = "returned"] /\ attempt' = attempt
  BY DEF SendWrites
<1>2. out \in Seq(Sends) /\ Len(out) \in Nat
  BY LenProperties DEF OutInv
<1>3. /\ out' \in Seq(Sends) /\ Len(out') = Len(out) + 1
      /\ \A i \in 1 .. Len(out) : out'[i] = out[i]
      /\ out'[Len(out) + 1] = s
  BY <1>1, <1>2, AppendProperties
<1>4. \A i \in 1 .. Len(out) : out[i] # s
  BY <1>1 DEF OutInv, SentOnceOrDropped
<1>5. \A i, j \in 1 .. Len(out') : out'[i] = out'[j] => i = j
  BY <1>2, <1>3, <1>4 DEF OutInv, SentOnceOrDropped
<1>6. ASSUME NEW r \in Sends
      PROVE  IF \E i \in 1 .. Len(out') : out'[i] = r
             THEN call'[r] = "returned"
             ELSE call'[r] = "returned" => attempt'[r] = ATTEMPTS
  <2>1. CASE r = s
    BY <1>1, <1>2, <1>3, <2>1 DEF BusInv
  <2>2. CASE r # s
    <3>1. (\E i \in 1 .. Len(out') : out'[i] = r) <=> \E i \in 1 .. Len(out) : out[i] = r
      BY <1>2, <1>3, <2>2
    <3>2. call'[r] = call[r]
      BY <1>1, <2>2 DEF BusInv
    <3> QED
      BY <1>1, <3>1, <3>2 DEF OutInv, SentOnceOrDropped
  <2> QED
    BY <2>1, <2>2
<1> QED
  BY <1>3, <1>5, <1>6 DEF OutInv, SentOnceOrDropped

LEMMA SendersKeepOut ==
    ASSUME BusInv, OutInv, NEW s \in Sends, SendSteps(s)
    PROVE  OutInv'
<1> USE DEF BusInv, OutInv, SentOnceOrDropped
<1>1. CASE SendBegins(s)
  BY <1>1 DEF SendBegins
<1>2. CASE SendAttempts(s)
  BY <1>2 DEF SendAttempts
<1>3. CASE SendWrites(s)
  BY <1>3, WriteKeepsOut
<1>4. CASE SendRetries(s)
  BY <1>4 DEF SendRetries
<1>5. CASE SendPostpones(s)
  BY <1>5 DEF SendPostpones
<1>6. CASE SendResumes(s)
  BY <1>6 DEF SendResumes
<1>7. CASE SendDrops(s)
  BY <1>7 DEF SendDrops
<1> QED
  BY <1>1, <1>2, <1>3, <1>4, <1>5, <1>6, <1>7 DEF SendSteps

\* The steps of the other threads leave the calls of sendTo() alone.
LEMMA OthersSendNothing ==
    ASSUME [Next]_vars, ~\E s \in Sends : SendSteps(s)
    PROVE  UNCHANGED sendVars
BY DEF Next, vars, Produce, QueryBegins, QueryEnds, ListenLoops, ListenWakes,
       ListenReadFails, ListenReads, ListenIdles, ListenPushes, WorkerTests,
       WorkerHandsOver, Register, Unregister, DestructorBegins, DestructorJoins

LEMMA OutKept ==
    ASSUME BusInv, OutInv, [Next]_vars
    PROVE  OutInv'
<1>1. CASE UNCHANGED sendVars
  BY <1>1 DEF sendVars, OutInv, SentOnceOrDropped
<1> QED
  BY <1>1, SendersKeepOut, OthersSendNothing

-----------------------------------------------------------------------------
(* The way of the messages.                                                *)

WayInv ==
    /\ rx \in Seq(Incoming) /\ Len(rx) <= 1
    /\ device \in Seq(Incoming)
    /\ queue \in Seq(Incoming)
    /\ seen \in Seq(Incoming)
    /\ running \subseteq Incoming
    /\ produced \in 0 .. MaxIncoming
    /\ faults \in 0 .. MaxFaults
    /\ listener = "pushing" <=> rx # <<>>
    /\ status = "data" => device # <<>>
    /\ NothingLost

wayVars == <<rx, device, queue, seen, produced>>

\* A step that moves no message: the status may be read or given up.
LEMMA StandstillKeepsWay ==
    ASSUME WayInv, UNCHANGED wayVars, running' \subseteq Incoming,
           faults' \in 0 .. MaxFaults, listener' = "pushing" <=> listener = "pushing",
           status' = "data" => status = "data" \/ device # <<>>
    PROVE  WayInv'
BY DEF WayInv, wayVars, NothingLost

LEMMA ProduceKeepsWay ==
    ASSUME WayInv, Produce
    PROVE  WayInv'
<1> USE DEF WayInv
<1>1. /\ produced < MaxIncoming
      /\ produced' = produced + 1
      /\ device' = Append(device, produced + 1)
      /\ UNCHANGED <<rx, queue, seen, running, faults, listener, status>>
  BY DEF Produce, busVars, listenVars, restVars, workerVars, queueVars, handVars
<1>0. /\ produced \in Nat /\ produced + 1 \in Incoming
      /\ produced' \in Incoming /\ produced' \in 0 .. MaxIncoming
  BY <1>1, SpiAssumption DEF Incoming
<1>2. device' \in Seq(Incoming) /\ device' # <<>>
  <2>1. device \in Seq(Incoming)
    OBVIOUS
  <2>2. Append(device, produced + 1) \in Seq(Incoming) /\ Append(device, produced + 1) # <<>>
    BY <1>0, <2>1, AppendProperties
  <2> QED
    BY <1>1, <2>2, Zenon
<1>3. NothingLost'
  <2> DEFINE before == (seen \o queue) \o rx
  <2>1. before \in Seq(Incoming)
    <3>1. seen \o queue \in Seq(Incoming)
      BY ConcatProperties
    <3> QED
      BY <3>1, ConcatProperties
  <2>2. before \o device = [i \in 1 .. produced |-> i]
    BY Zenon DEF NothingLost
  <2> HIDE DEF before
  <2>3. before \o device' = Append(before \o device, produced + 1)
    BY <1>0, <1>1, <2>1, AppendMoves
  <2>4. before \o device' = [i \in 1 .. produced' |-> i]
    BY <1>0, <1>1, <2>2, <2>3, Numbered
  <2> QED
    BY <1>1, <2>4 DEF before, NothingLost
<1> QED
  BY <1>0, <1>1, <1>2, <1>3

LEMMA ReadKeepsWay ==
    ASSUME WayInv, ListenReads
    PROVE  WayInv'
<1> USE DEF WayInv
<1>1. /\ status = "data" /\ listener = "deciding"
      /\ rx' = <<Head(device)>> /\ device' = Tail(device)
      /\ listener' = "pushing" /\ status' = "none"
      /\ UNCHANGED <<queue, seen, running, produced, faults>>
  BY DEF ListenReads, Release, restVars, workerVars, queueVars, handVars
<1>2. rx = <<>> /\ device # <<>> /\ device \in Seq(Incoming)
  BY <1>1
<1>3. Head(device) \in Incoming /\ Tail(device) \in Seq(Incoming)
  BY <1>2, HeadTailProperties
<1>4. rx' \in Seq(Incoming) /\ Len(rx') = 1 /\ rx' # <<>>
  <2> DEFINE e == Head(device)
  <2>1. e \in Incoming
    BY <1>3
  <2> HIDE DEF e
  <2>2. <<e>> \in Seq(Incoming) /\ Len(<<e>>) = 1 /\ <<e>> # <<>>
    BY <2>1
  <2> QED
    BY <1>1, <2>2 DEF e
<1>5. NothingLost'
  <2> DEFINE before == seen \o queue
  <2>1. before \in Seq(Incoming)
    BY ConcatProperties
  <2>2. (before \o rx) \o device = [i \in 1 .. produced |-> i]
    BY Zenon DEF NothingLost
  <2> HIDE DEF before
  <2>3. before \o rx = before
    BY <1>2, <2>1, ConcatEmptySeq
  <2>4. before \o rx' = Append(before, Head(device))
    BY <1>1, <1>3, <2>1, AppendIsConcat
  <2>5. (before \o rx') \o device' = before \o device
    BY <1>1, <1>2, <2>1, <2>4, HeadMoves
  <2>6. (before \o rx') \o device' = [i \in 1 .. produced |-> i]
    BY <2>2, <2>3, <2>5, Zenon
  <2> QED
    BY <1>1, <2>6, Zenon DEF before, NothingLost
<1> QED
  BY <1>1, <1>3, <1>4, <1>5

LEMMA Single ==
    ASSUME NEW S, NEW s \in Seq(S), s # <<>>, Len(s) <= 1
    PROVE  Len(s) = 1 /\ s[1] \in S /\ s = <<s[1]>>
<1>1. Len(s) \in Nat \ {0}
  BY EmptySeq
<1>2. Len(s) = 1 /\ s[1] \in S
  <2> DEFINE n == Len(s)
  <2>1. n \in Nat \ {0} /\ n <= 1
    BY <1>1
  <2> HIDE DEF n
  <2>2. n = 1 /\ 1 \in 1 .. n
    BY <2>1
  <2> QED
    BY <2>2, ElementOfSeq DEF n
<1>3. s = <<s[1]>>
  BY <1>2
<1> QED
  BY <1>2, <1>3

LEMMA PushKeepsWay ==
    ASSUME WayInv, ListenPushes
    PROVE  WayInv'
<1> USE DEF WayInv
<1>1. /\ listener = "pushing"
      /\ queue' = Append(queue, rx[1]) /\ rx' = <<>>
      /\ listener' = "testing"
      /\ UNCHANGED <<status, device, seen, running, produced, faults>>
  BY DEF ListenPushes, Queue!Accept, busVars, deviceVars, handVars
<1>2. rx \in Seq(Incoming) /\ rx # <<>> /\ Len(rx) = 1 /\ rx[1] \in Incoming
  BY <1>1, Single
<1>3. queue' \in Seq(Incoming) /\ rx' \in Seq(Incoming) /\ Len(rx') = 0
  <2>1. Append(queue, rx[1]) \in Seq(Incoming)
    BY <1>2, AppendProperties
  <2> QED
    BY <1>1, <2>1, EmptySeq
<1>4. rx = <<rx[1]>>
  BY <1>2
<1>5. NothingLost'
  <2> DEFINE before == seen \o queue
  <2>1. before \in Seq(Incoming)
    BY ConcatProperties
  <2>2. (before \o rx) \o device = [i \in 1 .. produced |-> i]
    BY Zenon DEF NothingLost
  <2>3. seen \o queue' = Append(before, rx[1])
    BY <1>1, <1>2, AppendMoves
  <2> HIDE DEF before
  <2>4. Append(before, rx[1]) = before \o rx
    BY <1>2, <1>4, <2>1, AppendIsConcat
  <2>5. (seen \o queue') \o rx' = before \o rx
    <3>1. before \o rx \in Seq(Incoming)
      BY <2>1, ConcatProperties
    <3>2. (before \o rx) \o rx' = before \o rx
      BY <1>1, <3>1, ConcatEmptySeq
    <3> QED
      BY <2>3, <2>4, <3>2
  <2>6. ((seen \o queue') \o rx') \o device = [i \in 1 .. produced |-> i]
    BY <2>2, <2>5, Zenon
  <2> QED
    BY <1>1, <2>6, Zenon DEF NothingLost
<1> QED
  BY <1>1, <1>3, <1>5

LEMMA TestKeepsWay ==
    ASSUME WayInv, WorkerTests
    PROVE  WayInv'
<1> USE DEF WayInv
<1>1. /\ queue # <<>> /\ queue' = Tail(queue) /\ running' = {Head(queue)}
      /\ seen' = Append(seen, Head(queue))
      /\ UNCHANGED <<status, listener, rx, device, produced, faults>>
  BY DEF WorkerTests, Queue!Start, readVars, busVars, listenVars, deviceVars
<1>2. Head(queue) \in Incoming /\ Tail(queue) \in Seq(Incoming)
  BY <1>1, HeadTailProperties
<1>3. Append(seen, Head(queue)) \in Seq(Incoming)
  BY <1>2, AppendProperties
<1>4. seen' \o queue' = seen \o queue
  BY <1>1, HeadMoves
<1>5. NothingLost'
  BY <1>1, <1>4, Zenon DEF NothingLost
<1> QED
  BY <1>1, <1>2, <1>3, <1>5

LEMMA SendersKeepWay ==
    ASSUME WayInv, NEW s \in Sends, SendSteps(s)
    PROVE  WayInv'
<1>1. UNCHANGED otherVars /\ (status' = "data" => status = "data" \/ device # <<>>)
  BY DEF SendSteps, SendBegins, SendAttempts, SendWrites, SendRetries, SendPostpones,
         SendResumes, SendDrops, busVars, ReadStatus, Release
<1>2. UNCHANGED wayVars /\ UNCHANGED <<listener, running, faults>>
  BY <1>1 DEF otherVars, readVars, listenVars, deviceVars, restVars, workerVars, queueVars,
              handVars, wayVars
<1> QED
  BY <1>1, <1>2, StandstillKeepsWay DEF WayInv

LEMMA ListenerKeepsWay ==
    ASSUME WayInv, ListenLoops \/ ListenWakes \/ ListenReadFails \/ ListenIdles
    PROVE  WayInv'
<1> USE DEF restVars, workerVars, queueVars, handVars, deviceVars, wayVars
<1>1. CASE ListenLoops
  <2>1. UNCHANGED wayVars /\ UNCHANGED <<status, running, faults>>
        /\ listener # "pushing" /\ listener' # "pushing"
    BY <1>1 DEF ListenLoops, busVars
  <2> QED
    BY <2>1, StandstillKeepsWay DEF WayInv
<1>2. CASE ListenWakes
  <2>1. /\ UNCHANGED wayVars /\ running' = running
        /\ listener # "pushing" /\ listener' # "pushing"
        /\ status' = "data" => device # <<>>
    BY <1>2 DEF ListenWakes, ReadStatus
  <2>2. faults' \in 0 .. MaxFaults
    BY <1>2, SpiAssumption DEF ListenWakes, WayInv
  <2> QED
    BY <2>1, <2>2, StandstillKeepsWay DEF WayInv
<1>3. CASE ListenReadFails
  <2>1. /\ UNCHANGED wayVars /\ running' = running
        /\ listener # "pushing" /\ listener' # "pushing" /\ status' = "none"
    BY <1>3 DEF ListenReadFails, Release, WayInv
  <2>2. faults' \in 0 .. MaxFaults
    BY <1>3, SpiAssumption DEF ListenReadFails, WayInv
  <2> QED
    BY <2>1, <2>2, StandstillKeepsWay DEF WayInv
<1>4. CASE ListenIdles
  <2>1. /\ UNCHANGED wayVars /\ UNCHANGED <<running, faults>>
        /\ listener # "pushing" /\ listener' # "pushing" /\ status' = "none"
    BY <1>4 DEF ListenIdles, Release
  <2> QED
    BY <2>1, StandstillKeepsWay DEF WayInv
<1> QED
  BY <1>1, <1>2, <1>3, <1>4

LEMMA WayKept ==
    ASSUME WayInv, [Next]_vars
    PROVE  WayInv'
<1> USE DEF otherVars, readVars, listenVars, deviceVars, restVars, workerVars, queueVars,
            handVars, busVars, wayVars
<1>1. CASE QueryBegins \/ QueryEnds
  <2>1. UNCHANGED wayVars /\ UNCHANGED <<listener, running, faults>>
        /\ (status' = "data" => device # <<>>)
    BY <1>1 DEF QueryBegins, QueryEnds, ReadStatus, Release
  <2> QED
    BY <2>1, StandstillKeepsWay DEF WayInv
<1>2. CASE WorkerHandsOver
  <2>1. UNCHANGED wayVars /\ UNCHANGED <<listener, status, faults>> /\ running' = {}
    BY <1>2 DEF WorkerHandsOver, Queue!End
  <2> QED
    BY <2>1, StandstillKeepsWay DEF WayInv
<1>3. CASE \/ Register \/ Unregister \/ DestructorBegins \/ DestructorJoins
           \/ UNCHANGED vars
  <2>1. UNCHANGED wayVars /\ UNCHANGED <<listener, status, running, faults>>
    BY <1>3 DEF Register, Unregister, DestructorBegins, DestructorJoins, vars
  <2> QED
    BY <2>1, StandstillKeepsWay DEF WayInv
<1> QED
  BY <1>1, <1>2, <1>3, SendersKeepWay, ListenerKeepsWay, ProduceKeepsWay, ReadKeepsWay,
     PushKeepsWay, TestKeepsWay DEF Next

-----------------------------------------------------------------------------
(* The theorems.                                                           *)

SpiInv == FlagsInv /\ BusInv /\ OutInv /\ WayInv

LEMMA SpiInvInitially == Init => SpiInv
<1> SUFFICES ASSUME Init
             PROVE  SpiInv
  OBVIOUS
<1> USE SpiAssumption DEF Init
<1>1. FlagsInv
  BY DEF FlagsInv, Queue!FInit
<1>2. BusInv
  BY DEF BusInv
<1>3. OutInv
  BY DEF OutInv, SentOnceOrDropped
<1>4. WayInv
  <2>1. NothingLost
    <3>1. [i \in 1 .. produced |-> i] = <<>>
      OBVIOUS
    <3>2. ((seen \o queue) \o rx) \o device = <<>>
      BY DEF Queue!FInit
    <3> QED
      BY <3>1, <3>2, Zenon DEF NothingLost
  <2> QED
    BY <2>1 DEF WayInv, Queue!FInit
<1> QED
  BY <1>1, <1>2, <1>3, <1>4 DEF SpiInv

LEMMA SpiInvariant == Spec => []SpiInv
<1>1. SpiInv /\ [Next]_vars => SpiInv'
  BY FlagsKept, BusKept, OutKept, WayKept DEF SpiInv
<1> QED
  BY <1>1, SpiInvInitially, PTL DEF Spec

\* Types, and m_commMutex is owned by the thread whose status it guards.
THEOREM TypeCorrect == Spec => []TypeOK
<1>1. SpiInv => TypeOK
  BY DEF SpiInv, FlagsInv, BusInv, OutInv, WayInv, TypeOK
<1> QED
  BY <1>1, SpiInvariant, PTL

\* sendTo() writes at most once, and drops only after its last attempt.
THEOREM WritesOnce == Spec => []SentOnceOrDropped
<1>1. SpiInv => SentOnceOrDropped
  BY DEF SpiInv, OutInv
<1> QED
  BY <1>1, SpiInvariant, PTL

\* What the device had ready is on its way or has arrived, once and in order.
THEOREM LosesNothing == Spec => []NothingLost
<1>1. SpiInv => NothingLost
  BY DEF SpiInv, WayInv
<1> QED
  BY <1>1, SpiInvariant, PTL

\* After the destructor the bus is silent and nothing is pushed.
THEOREM QuietAfterDestructor == Spec => QuietWhenGone
<1>1. SpiInv /\ [Next]_vars
        => [owner = "gone" => out' = out /\ Len(queue') <= Len(queue)]_vars
  <2> SUFFICES ASSUME SpiInv, Next, owner = "gone"
               PROVE  out' = out /\ Len(queue') <= Len(queue)
    OBVIOUS
  <2>1. /\ listener = "stopped" /\ queue \in Seq(Incoming)
        /\ \A s \in Sends : call[s] \in {"idle", "returned"}
    BY DEF SpiInv, BusInv, WayInv
  <2>2. out' = out
    <3>1. CASE \E s \in Sends : SendSteps(s)
      BY <2>1, <3>1 DEF SendSteps, SendBegins, SendAttempts, SendWrites, SendRetries,
                        SendPostpones, SendResumes, SendDrops
    <3>2. CASE UNCHANGED sendVars
      BY <3>2 DEF sendVars
    <3> QED
      BY <3>1, <3>2, OthersSendNothing
  <2>3. queue' = queue \/ (queue # <<>> /\ queue' = Tail(queue))
    BY <2>1 DEF Next, SendSteps, SendBegins, SendAttempts, SendWrites, SendRetries,
       SendPostpones, SendResumes, SendDrops, Produce, QueryBegins, QueryEnds, ListenLoops,
       ListenWakes, ListenReadFails, ListenReads, ListenIdles, ListenPushes, WorkerTests,
       WorkerHandsOver, Register, Unregister, DestructorBegins, DestructorJoins,
       Queue!Start, Queue!End, otherVars, restVars, workerVars, queueVars
  <2>4. Len(queue') <= Len(queue)
    BY <2>1, <2>3, HeadTailProperties, LenProperties
  <2> QED
    BY <2>2, <2>4
<1> QED
  BY <1>1, SpiInvariant, PTL DEF Spec, QuietWhenGone

-----------------------------------------------------------------------------
(* The channel as a queue.                                                 *)

LEMMA HeadLeaves ==
    ASSUME NEW S, NEW q \in Seq(S), q # <<>>, NEW d \in Seq(S)
    PROVE  /\ q \o d \in Seq(S) /\ q \o d # <<>>
           /\ Head(q \o d) = Head(q)
           /\ Tail(q \o d) = Tail(q) \o d
<1>1. /\ Head(q) = q[1] /\ Tail(q) \in Seq(S) /\ Len(Tail(q)) = Len(q) - 1
      /\ \A i \in 1 .. Len(Tail(q)) : Tail(q)[i] = q[i + 1]
  <2>1. Head(q) = q[1]
    OBVIOUS
  <2> QED
    BY <2>1, HeadTailProperties
<1>2. Len(q) \in Nat \ {0} /\ Len(d) \in Nat
  BY EmptySeq, LenProperties
<1> DEFINE c == q \o d
<1>3. /\ c \in Seq(S) /\ Len(c) = Len(q) + Len(d)
      /\ \A i \in 1 .. Len(q) + Len(d) : c[i] = IF i <= Len(q) THEN q[i] ELSE d[i - Len(q)]
  BY ConcatProperties
<1> HIDE DEF c
<1>4. c # <<>>
  BY <1>2, <1>3, EmptySeq
<1>5. /\ Head(c) = c[1] /\ Tail(c) \in Seq(S) /\ Len(Tail(c)) = Len(c) - 1
      /\ \A i \in 1 .. Len(Tail(c)) : Tail(c)[i] = c[i + 1]
  <2>1. Head(c) = c[1]
    BY <1>3
  <2> QED
    BY <1>3, <1>4, <2>1, HeadTailProperties
<1>6. c[1] = q[1]
  BY <1>2, <1>3
<1> DEFINE t == Tail(q) \o d
<1>7. /\ t \in Seq(S) /\ Len(t) = Len(Tail(q)) + Len(d)
      /\ \A i \in 1 .. Len(Tail(q)) + Len(d) :
            t[i] = IF i <= Len(Tail(q)) THEN Tail(q)[i] ELSE d[i - Len(Tail(q))]
  BY <1>1, ConcatProperties
<1> HIDE DEF t
<1>8. Len(t) = Len(Tail(c))
  BY <1>1, <1>2, <1>3, <1>5, <1>7
<1>9. ASSUME NEW i \in 1 .. Len(t)
      PROVE  Tail(c)[i] = t[i]
  <2>1. i + 1 \in 1 .. Len(q) + Len(d) /\ i \in 1 .. Len(Tail(c))
        /\ i \in 1 .. Len(Tail(q)) + Len(d)
    BY <1>1, <1>2, <1>7, <1>8
  <2>2. Tail(c)[i] = IF i + 1 <= Len(q) THEN q[i + 1] ELSE d[i + 1 - Len(q)]
    BY <1>3, <1>5, <2>1
  <2>3. t[i] = IF i <= Len(Tail(q)) THEN Tail(q)[i] ELSE d[i - Len(Tail(q))]
    BY <1>7, <2>1
  <2>4. CASE i + 1 <= Len(q)
    <3>1. i \in 1 .. Len(Tail(q)) /\ i <= Len(Tail(q))
      BY <1>1, <1>2, <2>1, <2>4
    <3> QED
      BY <1>1, <2>2, <2>3, <2>4, <3>1
  <2>5. CASE ~(i + 1 <= Len(q))
    <3>1. ~(i <= Len(Tail(q))) /\ i + 1 - Len(q) = i - Len(Tail(q))
      BY <1>1, <1>2, <2>1, <2>5
    <3> QED
      BY <2>2, <2>3, <2>5, <3>1
  <2> QED
    BY <2>4, <2>5
<1>10. Tail(c) = t
  BY <1>5, <1>7, <1>8, <1>9, SeqEqual
<1> QED
  BY <1>1, <1>3, <1>4, <1>5, <1>6, <1>10 DEF c, t

\* A message that is read leaves the device and stays on its way.
LEMMA ReadKeepsOnTheWay ==
    ASSUME WayInv, ListenReads
    PROVE  OnTheWay' = OnTheWay
<1>1. /\ rx = <<>> /\ rx' = <<Head(device)>> /\ device' = Tail(device) /\ queue' = queue
      /\ device # <<>> /\ device \in Seq(Incoming) /\ queue \in Seq(Incoming)
  BY DEF WayInv, ListenReads, restVars, workerVars, queueVars
<1>2. Head(device) \in Incoming
  BY <1>1, HeadTailProperties
<1>3. queue \o rx = queue
  BY <1>1, ConcatEmptySeq
<1>4. queue \o rx' = Append(queue, Head(device))
  BY <1>1, <1>2, AppendIsConcat
<1>5. Append(queue, Head(device)) \o Tail(device) = queue \o device
  BY <1>1, HeadMoves
<1> QED
  BY <1>1, <1>3, <1>4, <1>5, Zenon DEF OnTheWay

\* And so does one that is pushed.
LEMMA PushKeepsOnTheWay ==
    ASSUME WayInv, ListenPushes
    PROVE  OnTheWay' = OnTheWay
<1>1. /\ rx # <<>> /\ rx' = <<>> /\ queue' = Append(queue, rx[1]) /\ device' = device
      /\ rx \in Seq(Incoming) /\ Len(rx) <= 1 /\ queue \in Seq(Incoming)
  BY DEF WayInv, ListenPushes, deviceVars, Queue!Accept
<1>2. rx[1] \in Incoming /\ rx = <<rx[1]>>
  BY <1>1, Single
<1>3. Append(queue, rx[1]) = queue \o rx /\ Append(queue, rx[1]) \in Seq(Incoming)
  BY <1>1, <1>2, AppendIsConcat, AppendProperties
<1>4. queue' \o rx' = queue \o rx
  BY <1>1, <1>3, ConcatEmptySeq
<1> QED
  BY <1>1, <1>4, Zenon DEF OnTheWay

LEMMA ReceptionStep ==
    ASSUME WayInv, [Next]_vars
    PROVE  [Reception!FNext]_(Reception!fvars)
<1> USE DEF otherVars, readVars, listenVars, deviceVars, restVars, workerVars, queueVars,
            busVars
<1>1. ASSUME UNCHANGED <<OnTheWay, running, stopped>>
      PROVE  [Reception!FNext]_(Reception!fvars)
  BY <1>1 DEF Reception!fvars
<1>2. CASE UNCHANGED <<queue, rx, device, running, stopped>>
  <2>1. OnTheWay' = OnTheWay
    BY <1>2, Zenon DEF OnTheWay
  <2> QED
    BY <1>1, <1>2, <2>1
<1>3. CASE \E s \in Sends : SendSteps(s)
  BY <1>2, <1>3, Zenon DEF SendSteps, SendBegins, SendAttempts, SendWrites, SendRetries,
     SendPostpones, SendResumes, SendDrops
<1>4. CASE QueryBegins \/ QueryEnds \/ Register \/ Unregister
  BY <1>2, <1>4, Zenon DEF QueryBegins, QueryEnds, Register, Unregister
<1>5. CASE ListenLoops \/ ListenWakes \/ ListenReadFails \/ ListenIdles
  BY <1>2, <1>5, Zenon DEF ListenLoops, ListenWakes, ListenReadFails, ListenIdles
<1>6. CASE DestructorBegins \/ DestructorJoins \/ UNCHANGED vars
  BY <1>2, <1>6, Zenon DEF DestructorBegins, DestructorJoins, vars
<1>7. CASE ListenReads
  <2>1. UNCHANGED <<running, stopped>>
    BY <1>7, Zenon DEF ListenReads
  <2> QED
    BY <1>1, <1>7, <2>1, ReadKeepsOnTheWay
<1>8. CASE ListenPushes
  <2>1. UNCHANGED <<running, stopped>>
    BY <1>8, Zenon DEF ListenPushes, Queue!Accept
  <2> QED
    BY <1>1, <1>8, <2>1, PushKeepsOnTheWay
<1>9. CASE Produce
  <2>1. /\ produced + 1 \in Incoming /\ device' = Append(device, produced + 1)
        /\ UNCHANGED <<queue, rx, running, stopped>>
    BY <1>9, SpiAssumption DEF Produce, WayInv, Incoming
  <2>2. queue \o rx \in Seq(Incoming) /\ device \in Seq(Incoming)
    BY ConcatProperties DEF WayInv
  <2>3. OnTheWay' = Append(OnTheWay, produced + 1)
    BY <2>1, <2>2, AppendMoves DEF OnTheWay
  <2> QED
    BY <2>1, <2>3 DEF Reception!FNext, Reception!Accept
<1>10. CASE WorkerTests
  <2>1. /\ ~stopped /\ running = {} /\ queue # <<>> /\ queue \in Seq(Incoming)
        /\ rx \in Seq(Incoming) /\ device \in Seq(Incoming)
        /\ running' = {Head(queue)} /\ queue' = Tail(queue)
        /\ UNCHANGED <<rx, device, stopped>>
    BY <1>10 DEF WorkerTests, Queue!Start, WayInv
  <2>2. /\ queue \o rx \in Seq(Incoming) /\ queue \o rx # <<>>
        /\ Head(queue \o rx) = Head(queue)
        /\ Tail(queue \o rx) = Tail(queue) \o rx
    BY <2>1, HeadLeaves
  <2>3. /\ OnTheWay # <<>> /\ Head(OnTheWay) = Head(queue)
        /\ Tail(OnTheWay) = (Tail(queue) \o rx) \o device
    <3>1. /\ OnTheWay # <<>> /\ Head(OnTheWay) = Head(queue \o rx)
          /\ Tail(OnTheWay) = Tail(queue \o rx) \o device
      BY <2>1, <2>2, HeadLeaves DEF OnTheWay
    <3> QED
      BY <2>2, <3>1
  <2>4. OnTheWay' = Tail(OnTheWay)
    BY <2>1, <2>3, Zenon DEF OnTheWay
  <2>5. Reception!Start
    BY <2>1, <2>3, <2>4 DEF Reception!Start
  <2> QED
    BY <2>5 DEF Reception!FNext
<1>11. CASE WorkerHandsOver
  <2>1. /\ running # {} /\ running' = {} /\ UNCHANGED <<queue, rx, device, stopped>>
    BY <1>11, Zenon DEF WorkerHandsOver, Queue!End
  <2>2. OnTheWay' = OnTheWay
    BY <2>1, Zenon DEF OnTheWay
  <2> QED
    BY <2>1, <2>2 DEF Reception!FNext, Reception!End
<1> QED
  BY <1>3, <1>4, <1>5, <1>6, <1>7, <1>8, <1>9, <1>10, <1>11 DEF Next

\* From the device to the worker the channel is one queue, in spite of failed reads
\* and of messages that are read and not yet pushed (IqrfSpiChannel.cpp:54-62, 190-242).
THEOREM ReceptionIsFifo == Spec => ReceivesInOrder
<1>1. Init => Reception!FInit
  <2> SUFFICES ASSUME Init
               PROVE  Reception!FInit
    OBVIOUS
  <2>1. queue = <<>> /\ rx = <<>> /\ device = <<>> /\ running = {} /\ stopped = FALSE
    BY Zenon DEF Init, Queue!FInit
  <2>2. OnTheWay = <<>>
    BY <2>1 DEF OnTheWay
  <2> QED
    BY <2>1, <2>2, Zenon DEF Reception!FInit
<1>2. SpiInv /\ [Next]_vars => [Reception!FNext]_(Reception!fvars)
  BY ReceptionStep DEF SpiInv
<1> QED
  BY <1>1, <1>2, SpiInvariant, PTL DEF Spec, ReceivesInOrder, Reception!FSafeSpec

-----------------------------------------------------------------------------
(* The steps that are left to sendTo().                                    *)

LEMMA RemainingAt ==
    ASSUME NEW s \in Sends
    PROVE  /\ call[s] = "idle" => Remaining(s) = 3 * ATTEMPTS + 2
           /\ call[s] = "trying" => Remaining(s) = 3 * (ATTEMPTS - attempt[s]) + 1
           /\ call[s] = "deciding" => Remaining(s) = 3 * (ATTEMPTS - attempt[s]) + 3
           /\ call[s] = "waiting" => Remaining(s) = 3 * (ATTEMPTS - attempt[s]) + 2
           /\ call[s] = "returned" => Remaining(s) = 0
  BY DEF Remaining

\* Before its first attempt a call has all of them left.
FreshInv == \A s \in Sends : call[s] = "idle" => attempt[s] = 0

LEMMA SenderGetsNearer ==
    ASSUME BusInv, FreshInv, NEW s \in Sends, SendSteps(s)
    PROVE  /\ Remaining(s)' \in Nat /\ Remaining(s)' < Remaining(s)
           /\ \A r \in Sends \ {s} : UNCHANGED <<call[r], attempt[r]>>
           /\ FreshInv'
<1> DEFINE a == attempt[s]
           b == attempt'[s]
<1>1. /\ call \in [Sends -> {"idle", "trying", "deciding", "waiting", "returned"}]
      /\ attempt \in [Sends -> 0 .. ATTEMPTS]
      /\ ATTEMPTS \in Nat /\ a \in 0 .. ATTEMPTS
  BY SpiAssumption DEF BusInv
<1>2. /\ call'[s] = "idle" => Remaining(s)' = 3 * ATTEMPTS + 2
      /\ call'[s] = "trying" => Remaining(s)' = 3 * (ATTEMPTS - b) + 1
      /\ call'[s] = "deciding" => Remaining(s)' = 3 * (ATTEMPTS - b) + 3
      /\ call'[s] = "waiting" => Remaining(s)' = 3 * (ATTEMPTS - b) + 2
      /\ call'[s] = "returned" => Remaining(s)' = 0
  BY DEF Remaining
<1>3. \A r \in Sends \ {s} : UNCHANGED <<call[r], attempt[r]>>
  BY <1>1 DEF SendSteps, SendBegins, SendAttempts, SendWrites, SendRetries, SendPostpones,
              SendResumes, SendDrops
<1>4. \/ call[s] = "idle" /\ call'[s] = "trying" /\ b = a
      \/ call[s] = "trying" /\ call'[s] = "deciding" /\ a < ATTEMPTS /\ b = a + 1
      \/ call[s] = "deciding" /\ call'[s] \in {"returned", "trying", "waiting"} /\ b = a
      \/ call[s] = "waiting" /\ call'[s] = "trying" /\ b = a
      \/ call[s] = "trying" /\ call'[s] = "returned" /\ b = a
  BY <1>1 DEF SendSteps, SendBegins, SendAttempts, SendWrites, SendRetries, SendPostpones,
              SendResumes, SendDrops
<1>5. FreshInv'
  BY <1>1, <1>3, <1>4 DEF FreshInv
<1> HIDE DEF a, b
<1>6. Remaining(s)' \in Nat /\ Remaining(s)' < Remaining(s)
  BY <1>1, <1>2, <1>4, RemainingAt DEF a
<1> QED
  BY <1>3, <1>5, <1>6

LEMMA OthersRemain ==
    ASSUME [Next]_vars, ~\E s \in Sends : SendSteps(s)
    PROVE  UNCHANGED <<call, attempt>>
  BY OthersSendNothing DEF sendVars

\* A call of sendTo() never moves away from its end (IqrfSpiChannel.cpp:139-187):
\* with ATTEMPTS attempts it ends after 3 * ATTEMPTS + 2 steps of its own at most.
THEOREM SendsTerminate == Spec => SendGetsNearer
<1>1. Init => FreshInv
  BY DEF Init, FreshInv
<1>2. SpiInv /\ FreshInv /\ [Next]_vars => FreshInv'
  <2> SUFFICES ASSUME SpiInv, FreshInv, [Next]_vars
               PROVE  FreshInv'
    OBVIOUS
  <2>1. CASE UNCHANGED <<call, attempt>>
    BY <2>1 DEF FreshInv
  <2> QED
    BY <2>1, OthersRemain, SenderGetsNearer DEF SpiInv
<1>3. SpiInv /\ FreshInv /\ [Next]_vars
        => [\A s \in Sends :
              \/ UNCHANGED <<call[s], attempt[s]>>
              \/ Remaining(s)' \in Nat /\ Remaining(s)' < Remaining(s)]_vars
  <2> SUFFICES ASSUME SpiInv, FreshInv, [Next]_vars, NEW s \in Sends
               PROVE  \/ UNCHANGED <<call[s], attempt[s]>>
                      \/ Remaining(s)' \in Nat /\ Remaining(s)' < Remaining(s)
    OBVIOUS
  <2>1. CASE UNCHANGED <<call, attempt>>
    BY <2>1
  <2>2. ASSUME NEW r \in Sends, SendSteps(r)
        PROVE  \/ UNCHANGED <<call[s], attempt[s]>>
               \/ Remaining(s)' \in Nat /\ Remaining(s)' < Remaining(s)
    BY <2>2, SenderGetsNearer DEF SpiInv
  <2> QED
    BY <2>1, <2>2, OthersRemain
<1> QED
  BY <1>1, <1>2, <1>3, SpiInvariant, PTL DEF Spec, SendGetsNearer

-----------------------------------------------------------------------------
(* Unregistration.                                                         *)

\* What the worker has seen is still so.
TestedHolds == ~terminated /\ (tested => handler /\ running # {})

LEMMA TestedKept ==
    ASSUME TestedHolds, [Next]_vars, [Unregister => running = {}]_vars
    PROVE  TestedHolds'
<1> USE DEF TestedHolds, otherVars, readVars, restVars, workerVars, queueVars, handVars
<1>1. CASE UNCHANGED <<terminated, tested, handler, running>>
  BY <1>1
<1>2. CASE \E s \in Sends : SendSteps(s)
  BY <1>1, <1>2, Zenon DEF SendSteps, SendBegins, SendAttempts, SendWrites, SendRetries,
     SendPostpones, SendResumes, SendDrops
<1>3. CASE Produce \/ QueryBegins \/ QueryEnds \/ DestructorBegins \/ DestructorJoins
           \/ UNCHANGED vars
  BY <1>1, <1>3, Zenon DEF Produce, QueryBegins, QueryEnds, DestructorBegins,
     DestructorJoins, vars
<1>4. CASE \/ ListenLoops \/ ListenWakes \/ ListenReadFails \/ ListenReads \/ ListenIdles
           \/ ListenPushes
  BY <1>1, <1>4, Zenon DEF ListenLoops, ListenWakes, ListenReadFails, ListenReads,
     ListenIdles, ListenPushes, Queue!Accept
<1>5. CASE WorkerTests
  BY <1>5 DEF WorkerTests, Queue!Start
<1>6. CASE WorkerHandsOver
  BY <1>6 DEF WorkerHandsOver, Queue!End
<1>7. CASE Register
  BY <1>7 DEF Register
<1>8. CASE Unregister
  <2>1. handler' = FALSE /\ UNCHANGED <<running, tested, terminated>>
    BY <1>8, Zenon DEF Unregister
  <2>2. ~tested
    <3>1. CASE UNCHANGED vars
      BY <2>1, <3>1 DEF vars
    <3>2. CASE running = {}
      BY <3>2
    <3> QED
      BY <1>8, <3>1, <3>2
  <2> QED
    BY <2>1, <2>2
<1> QED
  BY <1>2, <1>3, <1>4, <1>5, <1>6, <1>7, <1>8 DEF Next

\* The one way to std::terminate() is an unregistration while the worker is handing
\* a message over (IqrfSpiChannel.cpp:54-62, 86-89): a user who unregisters the
\* handler only between messages never meets it, whatever the other threads do.
THEOREM UnregisteringBetweenMessages ==
    Spec /\ [][Unregister => running = {}]_vars => []~terminated
<1>1. Init => TestedHolds
  BY DEF Init, TestedHolds
<1>2. TestedHolds => ~terminated
  BY DEF TestedHolds
<1> QED
  BY <1>1, <1>2, TestedKept, PTL DEF Spec
=============================================================================
