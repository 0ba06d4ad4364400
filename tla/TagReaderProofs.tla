---------------------------- MODULE TagReaderProofs ----------------------------
(***************************************************************************)
(* What the backend's choice of protocol and the driver's cache keep for   *)
(* every choice of the thresholds and for every set of tags.               *)
(*                                                                         *)
(* The first sections are about DiscoveryArbiter alone: its invariant is   *)
(* inductive as it stands, and what its counters stand for in the history  *)
(* gives the two action properties.  The last adds the driver: that it     *)
(* stays in step needs what InStep does not say, how far the two counters  *)
(* of silences agree, and that a content is kept only for a tag that was   *)
(* there.                                                                  *)
(***************************************************************************)
EXTENDS TagReader, TLAPS

Exchanges == [protocol : Protocols, outcome : Outcomes]

LEMMA ExchangeType ==
    ASSUME NEW p \in Protocols, NEW o \in Outcomes
    PROVE  Exchange(p, o) \in Exchanges
BY DEF Exchange, Exchanges

LEMMA LastOfType ==
    ASSUME NEW s \in Seq(Exchanges)
    PROVE  LastOf(s) \in Seq(Exchanges)
<1>1. CASE Len(s) <= Window
  BY <1>1 DEF LastOf
<1>2. CASE ~(Len(s) <= Window)
  <2>1. Len(s) - Window + 1 \in 1..(Len(s) + 1)
    BY <1>2, ArbiterAssumption
  <2>2. SubSeq(s, Len(s) - Window + 1, Len(s)) \in Seq(Exchanges)
    BY <2>1
  <2>3. QED
    BY <1>2, <2>2 DEF LastOf
<1>3. QED
  BY <1>1, <1>2

(* What a poll that returns leaves in the history.                         *)
LEMMA ReturnsType ==
    ASSUME TypeOK,
           NEW r \in {"Tag", "NoTag", "NoObservation"},
           NEW s \in Seq(Exchanges),
           Returns(r, s)
    PROVE  /\ result' \in {"Tag", "NoTag", "NoObservation"}
           /\ recent' \in Seq(Exchanges)
           /\ last' \in Seq(Exchanges)
           /\ flip' \in BOOLEAN
<1>1. recent \o s \in Seq(Exchanges)
  BY DEF TypeOK, Exchanges
<1>2. recent' \in Seq(Exchanges)
  BY <1>1, LastOfType DEF Returns
<1>3. QED
  BY <1>2 DEF Returns, TypeOK

(* The counters and the lock after the three ways to set them all.         *)
Fresh ==
    /\ probe' \in Protocols
    /\ locked' \in Protocols \cup {"None"}
    /\ locked' = "None" => probe' = "F"
    /\ locked' # "None" => probe' = locked'
    /\ lockedNoTags' = 0 /\ cleanNoTags' = 0 /\ inconclusive' = 0

LEMMA FallbackKeeps ==
    ASSUME ArbiterInv, scanning, UNCHANGED scanning,
           NEW o \in Outcomes, FallbackToA(Exchange("F", o))
    PROVE  ArbiterInv'
<1>1. PICK a \in Outcomes :
        /\ IF a = "Tag" THEN LockOn("A") ELSE PreferF
        /\ Returns(Reported(a), <<Exchange("F", o), Exchange("A", a)>>)
  BY DEF FallbackToA
<1>2. <<Exchange("F", o), Exchange("A", a)>> \in Seq(Exchanges)
  BY ExchangeType DEF Protocols
<1>3. Reported(a) \in {"Tag", "NoTag", "NoObservation"}
  BY DEF Reported, Outcomes
<1>4. /\ result' \in {"Tag", "NoTag", "NoObservation"}
      /\ recent' \in Seq(Exchanges)
      /\ last' \in Seq(Exchanges)
      /\ flip' \in BOOLEAN
  BY <1>1, <1>2, <1>3, ReturnsType DEF ArbiterInv
<1>5. Fresh
  BY <1>1 DEF LockOn, PreferF, ClearCounters, Fresh, Protocols
<1>6. QED
  BY <1>4, <1>5, ArbiterAssumption
  DEF Fresh, ArbiterInv, TypeOK, FComesFirst, Exchanges

(* A poll with one exchange.                                               *)
LEMMA OneExchange ==
    ASSUME ArbiterInv, scanning, UNCHANGED scanning,
           NEW p \in Protocols, NEW o \in Outcomes,
           NEW r \in {"Tag", "NoTag", "NoObservation"},
           Returns(r, <<Exchange(p, o)>>),
           /\ probe' \in Protocols
           /\ locked' \in Protocols \cup {"None"}
           /\ lockedNoTags' \in 0..(LockedNoTagThreshold - 1)
           /\ cleanNoTags' \in 0..(NfcFCleanNoTagThreshold - 1)
           /\ inconclusive' \in 0..(NfcFInconclusiveFallbackThreshold - 1),
           FComesFirst'
    PROVE  ArbiterInv'
<1>1. <<Exchange(p, o)>> \in Seq(Exchanges)
  BY ExchangeType
<1>2. /\ result' \in {"Tag", "NoTag", "NoObservation"}
      /\ recent' \in Seq(Exchanges)
      /\ last' \in Seq(Exchanges)
      /\ flip' \in BOOLEAN
  BY <1>1, ReturnsType DEF ArbiterInv
<1>3. QED
  BY <1>2 DEF ArbiterInv, TypeOK, Exchanges

LEMMA PollKeeps == ArbiterInv /\ Poll => ArbiterInv'
<1> SUFFICES ASSUME ArbiterInv, Poll
             PROVE  ArbiterInv'
  OBVIOUS
<1> USE DEF Outcomes, Protocols
<1>a. /\ lockedNoTags \in 0..(LockedNoTagThreshold - 1)
      /\ cleanNoTags \in 0..(NfcFCleanNoTagThreshold - 1)
      /\ inconclusive \in 0..(NfcFInconclusiveFallbackThreshold - 1)
      /\ probe \in Protocols /\ locked \in Protocols \cup {"None"}
  BY DEF ArbiterInv, TypeOK
<1>b. FComesFirst
  BY DEF ArbiterInv
<1>1. CASE LockedTag
  <2>1. Returns("Tag", <<Exchange(locked, "Tag")>>)
    BY <1>1 DEF LockedTag
  <2>2. FComesFirst'
    BY <1>1, <1>b DEF LockedTag, PollLocked, ClearCounters, FComesFirst
  <2>3. QED
    BY <1>1, <1>a, <2>1, <2>2, OneExchange, ArbiterAssumption
    DEF LockedTag, PollLocked, ClearCounters
<1>2. CASE LockedInconclusive
  <2>1. Returns("NoObservation", <<Exchange(locked, "Inconclusive")>>)
    BY <1>2 DEF LockedInconclusive
  <2>2. FComesFirst'
    BY <1>2, <1>b
    DEF LockedInconclusive, PollLocked, NoiseBreaksSilence, FComesFirst
  <2>3. inconclusive' \in 0..(NfcFInconclusiveFallbackThreshold - 1)
    BY <1>2, <1>a, ArbiterAssumption DEF LockedInconclusive
  <2>4. QED
    BY <1>2, <1>a, <2>1, <2>2, <2>3, OneExchange, ArbiterAssumption
    DEF LockedInconclusive, PollLocked, NoiseBreaksSilence
<1>3. CASE LockedFallback
  BY <1>3, FallbackKeeps DEF LockedFallback, PollLocked
<1>4. CASE LockedNoTag
  <2>1. Returns("NoTag", <<Exchange(locked, "NoTag")>>)
    BY <1>4 DEF LockedNoTag
  <2>2. FComesFirst'
    BY <1>4, <1>b DEF LockedNoTag, PollLocked, FComesFirst
  <2>3. lockedNoTags' \in 0..(LockedNoTagThreshold - 1)
    BY <1>4, <1>a, ArbiterAssumption DEF LockedNoTag
  <2>4. QED
    BY <1>4, <1>a, <2>1, <2>2, <2>3, OneExchange, ArbiterAssumption
    DEF LockedNoTag, PollLocked
<1>5. CASE LockReleased
  <2>1. Returns("NoTag", <<Exchange(locked, "NoTag")>>)
    BY <1>5 DEF LockReleased
  <2>2. FComesFirst'
    BY <1>5 DEF LockReleased, PollLocked, PreferF, ClearCounters, FComesFirst
  <2>3. QED
    BY <1>5, <1>a, <2>1, <2>2, OneExchange, ArbiterAssumption
    DEF LockReleased, PollLocked, PreferF, ClearCounters
<1>6. CASE ProbeTag
  <2>1. Returns("Tag", <<Exchange(probe, "Tag")>>)
    BY <1>6 DEF ProbeTag
  <2>2. FComesFirst'
    BY <1>6, <1>a DEF ProbeTag, PollUnlocked, LockOn, ClearCounters, FComesFirst
  <2>3. QED
    BY <1>6, <1>a, <2>1, <2>2, OneExchange, ArbiterAssumption
    DEF ProbeTag, PollUnlocked, LockOn, ClearCounters
<1>7. CASE ProbeInconclusive
  <2>1. Returns("NoObservation", <<Exchange("F", "Inconclusive")>>)
    BY <1>7 DEF ProbeInconclusive
  <2>2. FComesFirst'
    BY <1>7, <1>b DEF ProbeInconclusive, PollUnlocked, FComesFirst
  <2>3. inconclusive' \in 0..(NfcFInconclusiveFallbackThreshold - 1)
    BY <1>7, <1>a, ArbiterAssumption DEF ProbeInconclusive
  <2>4. QED
    BY <1>7, <1>a, <2>1, <2>2, <2>3, OneExchange, ArbiterAssumption
    DEF ProbeInconclusive, PollUnlocked
<1>8. CASE ProbeFallback
  BY <1>8, FallbackKeeps DEF ProbeFallback, PollUnlocked
<1>9. CASE ProbeNoTag
  <2>1. Returns("NoTag", <<Exchange("F", "NoTag")>>)
    BY <1>9 DEF ProbeNoTag
  <2>2. FComesFirst'
    BY <1>9, <1>b DEF ProbeNoTag, PollUnlocked, FComesFirst
  <2>3. cleanNoTags' \in 0..(NfcFCleanNoTagThreshold - 1)
    BY <1>9, <1>a, ArbiterAssumption DEF ProbeNoTag, CountSilence
  <2>4. QED
    BY <1>9, <1>a, <2>1, <2>2, <2>3, OneExchange, ArbiterAssumption
    DEF ProbeNoTag, PollUnlocked
<1>10. CASE ProbeBoth
  <2>1. PICK first \in {"NoTag", "Inconclusive"}, second \in Outcomes :
          /\ PollUnlocked
          /\ IF second = "Tag" THEN LockOn(Other(probe)) ELSE PreferF
          /\ Returns(IF second = "Tag" THEN "Tag"
                     ELSE IF "Inconclusive" \in {first, second}
                     THEN "NoObservation" ELSE "NoTag",
                     <<Exchange(probe, first),
                       Exchange(Other(probe), second)>>)
    BY <1>10 DEF ProbeBoth
  <2>2. Other(probe) \in Protocols
    BY DEF Other
  <2>3. <<Exchange(probe, first), Exchange(Other(probe), second)>>
          \in Seq(Exchanges)
    <3>1. /\ Exchange(probe, first) \in Exchanges
          /\ Exchange(Other(probe), second) \in Exchanges
      BY <1>a, <2>2, ExchangeType
    <3>2. QED
      BY <3>1
  <2>4. /\ result' \in {"Tag", "NoTag", "NoObservation"}
        /\ recent' \in Seq(Exchanges)
        /\ last' \in Seq(Exchanges)
        /\ flip' \in BOOLEAN
    BY <2>1, <2>3, ReturnsType DEF ArbiterInv
  <2>5. Fresh
    BY <2>1, <2>2 DEF LockOn, PreferF, ClearCounters, Fresh
  <2>6. scanning' = scanning /\ scanning
    BY <2>1 DEF PollUnlocked
  <2>7. QED
    BY <2>4, <2>5, <2>6, ArbiterAssumption
    DEF Fresh, ArbiterInv, TypeOK, FComesFirst, Exchanges
<1>11. QED
  BY <1>1, <1>2, <1>3, <1>4, <1>5, <1>6, <1>7, <1>8, <1>9, <1>10 DEF Poll

(* The counters of the thresholds start below them.                        *)
LEMMA ZeroBelow ==
    /\ 0 \in 0..(LockedNoTagThreshold - 1)
    /\ 0 \in 0..(NfcFCleanNoTagThreshold - 1)
    /\ 0 \in 0..(NfcFInconclusiveFallbackThreshold - 1)
BY ArbiterAssumption

(* Discovery is started or stopped: nothing is locked, and the history and *)
(* the last result stay.                                                   *)
LEMMA PreferFKeeps ==
    ASSUME ArbiterInv, PreferF, scanning' \in BOOLEAN,
           UNCHANGED <<result, recent, last, flip>>
    PROVE  ArbiterInv'
<1>1. FComesFirst'
  BY DEF PreferF, ClearCounters, FComesFirst
<1>2. /\ result' = result /\ recent' = recent
      /\ last' = last /\ flip' = flip
  OBVIOUS
<1>3. /\ probe' \in Protocols
      /\ locked' \in Protocols \cup {"None"}
      /\ lockedNoTags' \in 0..(LockedNoTagThreshold - 1)
      /\ cleanNoTags' \in 0..(NfcFCleanNoTagThreshold - 1)
      /\ inconclusive' \in 0..(NfcFInconclusiveFallbackThreshold - 1)
  BY ZeroBelow DEF PreferF, ClearCounters, Protocols
<1>4. TypeOK'
  <2>1. /\ result \in {"Tag", "NoTag", "NoObservation"}
        /\ recent \in Seq([protocol : Protocols, outcome : Outcomes])
        /\ last \in Seq([protocol : Protocols, outcome : Outcomes])
        /\ flip \in BOOLEAN
    BY DEF ArbiterInv, TypeOK
  <2>2. QED
    BY <1>2, <1>3, <2>1 DEF TypeOK
<1>5. QED
  BY <1>1, <1>4 DEF ArbiterInv

LEMMA StepKeeps == ArbiterInv /\ [Next]_vars => ArbiterInv'
<1> SUFFICES ASSUME ArbiterInv, [Next]_vars
             PROVE  ArbiterInv'
  OBVIOUS
<1>1. CASE StartDiscovery
  <2>1. PreferF /\ scanning' \in BOOLEAN
    BY <1>1 DEF StartDiscovery
  <2>2. UNCHANGED <<result, recent, last, flip>>
    BY <1>1 DEF StartDiscovery
  <2>3. QED
    BY <2>1, <2>2, PreferFKeeps
<1>2. CASE Reset
  <2>1. PreferF /\ scanning' \in BOOLEAN
    BY <1>2 DEF Reset
  <2>2. UNCHANGED <<result, recent, last, flip>>
    BY <1>2 DEF Reset
  <2>3. QED
    BY <2>1, <2>2, PreferFKeeps
<1>3. CASE Poll
  BY <1>3, PollKeeps
<1>4. CASE UNCHANGED vars
  BY <1>4 DEF vars, counters, ArbiterInv, TypeOK, FComesFirst
<1>5. QED
  BY <1>1, <1>2, <1>3, <1>4 DEF Next

LEMMA InitInv == Init => ArbiterInv
<1> SUFFICES ASSUME Init PROVE ArbiterInv
  OBVIOUS
<1>1. FComesFirst
  BY DEF Init, FComesFirst
<1>2. /\ recent = <<>> /\ last = <<>>
      /\ recent \in Seq([protocol : Protocols, outcome : Outcomes])
      /\ last \in Seq([protocol : Protocols, outcome : Outcomes])
  BY DEF Init
<1>3. /\ scanning \in BOOLEAN /\ flip \in BOOLEAN
      /\ probe \in Protocols /\ locked \in Protocols \cup {"None"}
      /\ result \in {"Tag", "NoTag", "NoObservation"}
  BY DEF Init, Protocols
<1>4. TypeOK
  BY <1>2, <1>3, ZeroBelow DEF Init, TypeOK
<1>5. QED
  BY <1>1, <1>4 DEF ArbiterInv

(* Whatever the thresholds and whatever the radio reports, an unlocked     *)
(* reader asks NFC-F first, every counter stays below its threshold, and   *)
(* none of them is carried over from one mode to the other.                *)
THEOREM FHasPrecedence == Spec => []ArbiterInv
BY InitInv, StepKeeps, PTL DEF Spec

-----------------------------------------------------------------------------
(* What the counters stand for: the last exchanges with the radio.  The    *)
(* history must reach as far back as the largest threshold, and one        *)
(* exchange further, that with NFC-A.                                      *)
WindowReaches ==
    \A n \in {LockedNoTagThreshold, NfcFCleanNoTagThreshold,
              NfcFInconclusiveFallbackThreshold} : n + 1 <= Window

Silence(p) == Exchange(p, "NoTag")

Noise == Exchange("F", "Inconclusive")

Witnessed ==
    /\ locked # "None" => EndsIn(recent, lockedNoTags, Silence(locked))
    /\ EndsIn(recent, cleanNoTags, Silence("F"))
    /\ EndsIn(recent, inconclusive, Noise)

HistoryInv == ArbiterInv /\ Witnessed

(* One more of the same.                                                   *)
LEMMA OneMore ==
    ASSUME NEW s \in Seq(Exchanges), NEW n \in Nat, NEW e \in Exchanges,
           EndsIn(s, n, e), n + 1 <= Window
    PROVE  EndsIn(LastOf(s \o <<e>>), n + 1, e)
<1> DEFINE t == s \o <<e>>
<1>1. /\ t \in Seq(Exchanges) /\ Len(t) = Len(s) + 1 /\ Len(s) \in Nat
      /\ \A i \in 1..Len(s) : t[i] = s[i]
      /\ t[Len(s) + 1] = e
  OBVIOUS
<1> HIDE DEF t
<1>2. n <= Len(s) /\ \A i \in (Len(s) - n + 1)..Len(s) : s[i] = e
  BY DEF EndsIn
<1>3. \A i \in (Len(t) - n)..Len(t) : i \in 1..Len(t) /\ t[i] = e
  <2> SUFFICES ASSUME NEW i \in (Len(t) - n)..Len(t)
               PROVE  i \in 1..Len(t) /\ t[i] = e
    OBVIOUS
  <2>1. i \in 1..Len(t)
    BY <1>1, <1>2
  <2>2. CASE i = Len(s) + 1
    BY <1>1, <2>1, <2>2
  <2>3. CASE i # Len(s) + 1
    <3>1. i \in (Len(s) - n + 1)..Len(s) /\ i \in 1..Len(s)
      BY <1>1, <1>2, <2>3
    <3> QED  BY <1>1, <1>2, <2>1, <3>1
  <2> QED  BY <2>2, <2>3
<1>4. CASE Len(t) <= Window
  <2>1. LastOf(t) = t
    BY <1>4 DEF LastOf
  <2>2. /\ Len(t) >= n + 1
        /\ \A i \in (Len(t) - (n + 1) + 1)..Len(t) : t[i] = e
    BY <1>1, <1>2, <1>3
  <2>3. EndsIn(t, n + 1, e)
    BY <2>2 DEF EndsIn
  <2> QED  BY <2>1, <2>3 DEF t
<1>5. CASE Len(t) > Window
  <2> DEFINE r == SubSeq(t, Len(t) - Window + 1, Len(t))
  <2>1. /\ Len(r) = Window
        /\ \A i \in 1..Window : r[i] = t[i + (Len(t) - Window)]
    BY <1>1, <1>5, ArbiterAssumption
  <2>2. LastOf(t) = r
    BY <1>1, <1>5, ArbiterAssumption DEF LastOf
  <2> HIDE DEF r
  <2>3. \A i \in (Len(r) - (n + 1) + 1)..Len(r) : r[i] = e
    <3> SUFFICES ASSUME NEW i \in (Len(r) - (n + 1) + 1)..Len(r)
                 PROVE  r[i] = e
      OBVIOUS
    <3>1. i \in 1..Window /\ i + (Len(t) - Window) \in (Len(t) - n)..Len(t)
      BY <1>1, <2>1, ArbiterAssumption
    <3> QED  BY <1>3, <2>1, <3>1
  <2>4. Len(r) >= n + 1
    BY <2>1
  <2> QED  BY <2>2, <2>3, <2>4 DEF EndsIn, t
<1> QED  BY <1>1, <1>4, <1>5, ArbiterAssumption

(* One more of the same, and then another.                                 *)
LEMMA OneMoreThenAnother ==
    ASSUME NEW s \in Seq(Exchanges), NEW n \in Nat, NEW e \in Exchanges,
           NEW x \in Exchanges, EndsIn(s, n, e), n + 2 <= Window
    PROVE  LET r == LastOf(s \o <<e, x>>)
           IN  EndsIn(SubSeq(r, 1, Len(r) - 1), n + 1, e)
<1> DEFINE t == s \o <<e, x>>
           r == LastOf(t)
           b == SubSeq(r, 1, Len(r) - 1)
<1>1. /\ t \in Seq(Exchanges) /\ Len(t) = Len(s) + 2 /\ Len(s) \in Nat
      /\ \A i \in 1..Len(s) : t[i] = s[i]
      /\ t[Len(s) + 1] = e
  OBVIOUS
<1> HIDE DEF t
<1>2. n <= Len(s) /\ \A i \in (Len(s) - n + 1)..Len(s) : s[i] = e
  BY DEF EndsIn
<1>3. \A i \in (Len(t) - n - 1)..(Len(t) - 1) : i \in 1..Len(t) /\ t[i] = e
  <2> SUFFICES ASSUME NEW i \in (Len(t) - n - 1)..(Len(t) - 1)
               PROVE  i \in 1..Len(t) /\ t[i] = e
    OBVIOUS
  <2>1. i \in 1..Len(t)
    BY <1>1, <1>2
  <2>2. i = Len(s) + 1 \/ i \in (Len(s) - n + 1)..Len(s)
    BY <1>1, <1>2
  <2>3. i # Len(s) + 1 => i \in 1..Len(s)
    BY <1>1, <1>2, <2>2
  <2> QED  BY <1>1, <1>2, <2>1, <2>2, <2>3
<1>4. /\ r \in Seq(Exchanges) /\ Len(r) >= n + 2
      /\ \A i \in (Len(r) - n - 1)..(Len(r) - 1) : i \in 1..Len(r) /\ r[i] = e
  <2>1. CASE Len(t) <= Window
    <3>1. r = t
      BY <2>1 DEF LastOf
    <3>2. Len(t) >= n + 2
      BY <1>1, <1>2
    <3> HIDE DEF r
    <3> QED  BY <1>1, <1>3, <3>1, <3>2
  <2>2. CASE Len(t) > Window
    <3> DEFINE q == SubSeq(t, Len(t) - Window + 1, Len(t))
    <3>1. /\ q \in Seq(Exchanges) /\ Len(q) = Window
          /\ \A i \in 1..Window : q[i] = t[i + (Len(t) - Window)]
      BY <1>1, <2>2, ArbiterAssumption
    <3>2. r = q
      BY <1>1, <2>2, ArbiterAssumption DEF LastOf
    <3> HIDE DEF q, r
    <3>3. ASSUME NEW i \in (Len(r) - n - 1)..(Len(r) - 1)
          PROVE  i \in 1..Len(r) /\ r[i] = e
      <4>1. Len(r) = Window
        BY <3>1, <3>2
      <4>2. /\ i \in 1..Window
            /\ i + (Len(t) - Window) \in (Len(t) - n - 1)..(Len(t) - 1)
        BY <1>1, <4>1, ArbiterAssumption
      <4> QED  BY <1>3, <3>1, <3>2, <4>1, <4>2
    <3> QED  BY <3>1, <3>2, <3>3
  <2> QED  BY <1>1, <2>1, <2>2, ArbiterAssumption
<1> HIDE DEF r
<1>5. /\ Len(b) = Len(r) - 1
      /\ \A i \in 1..(Len(r) - 1) : b[i] = r[i]
  BY <1>4
<1> HIDE DEF b
<1>6. \A i \in (Len(b) - (n + 1) + 1)..Len(b) : b[i] = e
  <2> SUFFICES ASSUME NEW i \in (Len(b) - (n + 1) + 1)..Len(b)
               PROVE  b[i] = e
    OBVIOUS
  <2>1. /\ i \in (Len(r) - n - 1)..(Len(r) - 1)
        /\ i \in 1..(Len(r) - 1)
    BY <1>4, <1>5
  <2> QED  BY <1>4, <1>5, <2>1
<1>7. Len(b) >= n + 1
  BY <1>4, <1>5
<1> QED  BY <1>6, <1>7 DEF EndsIn, b, r, t

(* An empty run of exchanges is at the end of any sequence.                *)
LEMMA NoneYet ==
    ASSUME NEW s \in Seq(Exchanges), NEW e
    PROVE  EndsIn(s, 0, e)
BY DEF EndsIn

(* How a lock comes to NFC-A, and how a lock is given up.                  *)
GoodLock ==
    locked' = "A" /\ locked # "A"
      => LET before == SubSeq(recent', 1, Len(recent') - 1)
         IN  \/ EndsIn(before, NfcFCleanNoTagThreshold, Silence("F"))
             \/ EndsIn(before, NfcFInconclusiveFallbackThreshold, Noise)

GoodRelease ==
    locked # "None" /\ locked' # locked
      => \/ EndsIn(recent', LockedNoTagThreshold, Silence(locked))
         \/ /\ locked = "F"
            /\ EndsIn(SubSeq(recent', 1, Len(recent') - 1),
                      NfcFInconclusiveFallbackThreshold, Noise)

LEMMA PollWitnessed ==
    ASSUME WindowReaches, HistoryInv, Poll
    PROVE  Witnessed' /\ GoodLock /\ GoodRelease
<1> USE DEF Outcomes, Protocols
<1>1. /\ ArbiterInv /\ ArbiterInv' /\ FComesFirst
      /\ recent \in Seq(Exchanges) /\ recent' \in Seq(Exchanges)
      /\ probe \in Protocols /\ locked \in Protocols \cup {"None"}
  BY PollKeeps DEF HistoryInv, ArbiterInv, TypeOK, Exchanges
<1>2. /\ lockedNoTags \in Nat /\ cleanNoTags \in Nat /\ inconclusive \in Nat
      /\ lockedNoTags + 1 <= LockedNoTagThreshold
      /\ cleanNoTags + 1 <= NfcFCleanNoTagThreshold
      /\ inconclusive + 1 <= NfcFInconclusiveFallbackThreshold
      /\ lockedNoTags + 1 >= LockedNoTagThreshold
           => lockedNoTags + 1 = LockedNoTagThreshold
      /\ cleanNoTags + 1 >= NfcFCleanNoTagThreshold
           => cleanNoTags + 1 = NfcFCleanNoTagThreshold
      /\ inconclusive + 1 >= NfcFInconclusiveFallbackThreshold
           => inconclusive + 1 = NfcFInconclusiveFallbackThreshold
  BY ArbiterAssumption DEF HistoryInv, ArbiterInv, TypeOK
<1>3. /\ lockedNoTags + 2 <= Window /\ cleanNoTags + 2 <= Window
      /\ inconclusive + 2 <= Window
      /\ lockedNoTags + 1 <= Window /\ cleanNoTags + 1 <= Window
      /\ inconclusive + 1 <= Window
  BY <1>2, ArbiterAssumption DEF WindowReaches
<1>4. ASSUME ClearCounters PROVE Witnessed'
  <2>1. EndsIn(recent', 0, Silence(locked')) /\ EndsIn(recent', 0, Silence("F"))
        /\ EndsIn(recent', 0, Noise)
    BY <1>1, NoneYet
  <2> QED  BY <1>4, <2>1 DEF ClearCounters, Witnessed, Silence, Noise, Exchange
<1>5. CASE LockedTag
  BY <1>4, <1>5 DEF LockedTag, GoodLock, GoodRelease, PollLocked
<1>6. CASE LockedInconclusive
  <2>1. /\ locked' = locked
        /\ lockedNoTags' = 0 /\ cleanNoTags' = 0
        /\ EndsIn(recent', 0, Silence(locked))
        /\ EndsIn(recent', 0, Silence("F"))
    BY <1>1, <1>6, NoneYet DEF LockedInconclusive, NoiseBreaksSilence
  <2>2. EndsIn(recent', inconclusive', Noise)
    <3>1. CASE locked = "A"
      <4>1. inconclusive' = 0
        BY <1>1, <1>6, <3>1 DEF LockedInconclusive, FComesFirst
      <4> QED  BY <1>1, <4>1, NoneYet
    <3>2. CASE locked = "F"
      <4>1. /\ inconclusive' = inconclusive + 1
            /\ recent' = LastOf(recent \o <<Noise>>)
        BY <1>6, <3>2 DEF LockedInconclusive, Returns, Noise
      <4>2. Noise \in Exchanges /\ EndsIn(recent, inconclusive, Noise)
        BY ExchangeType DEF Noise, HistoryInv, Witnessed
      <4> QED  BY <1>1, <1>2, <1>3, <4>1, <4>2, OneMore
    <3> QED  BY <1>6, <3>1, <3>2 DEF LockedInconclusive
  <2> QED  BY <2>1, <2>2 DEF Witnessed, GoodLock, GoodRelease, Silence, Noise,
                             Exchange
<1>7. CASE LockedFallback \/ ProbeFallback
  <2>1. /\ inconclusive + 1 = NfcFInconclusiveFallbackThreshold
        /\ locked # "A"
        /\ FallbackToA(Exchange("F", "Inconclusive"))
    BY <1>2, <1>7 DEF LockedFallback, ProbeFallback, PollUnlocked
  <2>2. PICK a \in Outcomes :
          /\ IF a = "Tag" THEN LockOn("A") ELSE PreferF
          /\ recent' = LastOf(recent \o <<Noise, Exchange("A", a)>>)
    BY <2>1 DEF FallbackToA, Returns, Noise
  <2>3. /\ Noise \in Exchanges /\ Exchange("A", a) \in Exchanges
        /\ EndsIn(recent, inconclusive, Noise)
    BY ExchangeType DEF Noise, HistoryInv, Witnessed
  <2>4. EndsIn(SubSeq(recent', 1, Len(recent') - 1), inconclusive + 1, Noise)
    BY <1>1, <1>2, <1>3, <2>2, <2>3, OneMoreThenAnother
  <2>5. Witnessed'
    BY <1>4, <2>2 DEF LockOn, PreferF
  <2>6. locked # "None" => locked = "F"
    BY <1>1, <2>1
  <2> QED  BY <2>1, <2>4, <2>5, <2>6 DEF GoodLock, GoodRelease
<1>8. CASE LockedNoTag
  <2>1. /\ locked' = locked /\ lockedNoTags' = lockedNoTags + 1
        /\ inconclusive' = 0 /\ cleanNoTags' = 0
        /\ locked \in Protocols
        /\ recent' = LastOf(recent \o <<Silence(locked)>>)
    BY <1>1, <1>8 DEF LockedNoTag, PollLocked, FComesFirst, Returns, Silence
  <2>2. /\ Silence(locked) \in Exchanges
        /\ EndsIn(recent, lockedNoTags, Silence(locked))
    BY <2>1, ExchangeType DEF Silence, HistoryInv, Witnessed
  <2>3. EndsIn(recent', lockedNoTags + 1, Silence(locked))
    BY <1>1, <1>2, <1>3, <2>1, <2>2, OneMore
  <2>4. EndsIn(recent', 0, Silence("F")) /\ EndsIn(recent', 0, Noise)
    BY <1>1, NoneYet
  <2> QED  BY <2>1, <2>3, <2>4 DEF Witnessed, GoodLock, GoodRelease, Silence,
                                   Noise, Exchange
<1>9. CASE LockReleased
  <2>1. /\ lockedNoTags + 1 = LockedNoTagThreshold
        /\ locked \in Protocols /\ locked' = "None"
        /\ recent' = LastOf(recent \o <<Silence(locked)>>)
    BY <1>1, <1>2, <1>9
    DEF LockReleased, PollLocked, PreferF, Returns, Silence
  <2>2. /\ Silence(locked) \in Exchanges
        /\ EndsIn(recent, lockedNoTags, Silence(locked))
    BY <2>1, ExchangeType DEF Silence, HistoryInv, Witnessed
  <2>3. EndsIn(recent', lockedNoTags + 1, Silence(locked))
    BY <1>1, <1>2, <1>3, <2>1, <2>2, OneMore
  <2>4. Witnessed'
    BY <1>4, <1>9 DEF LockReleased, PreferF
  <2> QED  BY <2>1, <2>3, <2>4 DEF GoodLock, GoodRelease
<1>10. CASE ProbeTag
  <2>1. locked = "None" /\ locked' = "F" /\ ClearCounters
    BY <1>1, <1>10 DEF ProbeTag, PollUnlocked, FComesFirst, LockOn
  <2> QED  BY <1>4, <2>1 DEF GoodLock, GoodRelease
<1>11. CASE ProbeInconclusive
  <2>1. /\ locked = "None" /\ locked' = "None" /\ cleanNoTags' = 0
        /\ inconclusive' = inconclusive + 1
        /\ recent' = LastOf(recent \o <<Noise>>)
    BY <1>11 DEF ProbeInconclusive, PollUnlocked, Returns, Noise
  <2>2. Noise \in Exchanges /\ EndsIn(recent, inconclusive, Noise)
    BY ExchangeType DEF Noise, HistoryInv, Witnessed
  <2>3. EndsIn(recent', inconclusive + 1, Noise)
    BY <1>1, <1>2, <1>3, <2>1, <2>2, OneMore
  <2>4. EndsIn(recent', 0, Silence("F"))
    BY <1>1, NoneYet
  <2> QED  BY <2>1, <2>3, <2>4 DEF Witnessed, GoodLock, GoodRelease, Silence,
                                   Noise, Exchange
<1>12. CASE ProbeNoTag
  <2>1. /\ locked = "None" /\ locked' = "None" /\ inconclusive' = 0
        /\ cleanNoTags' = cleanNoTags + 1
        /\ recent' = LastOf(recent \o <<Silence("F")>>)
    BY <1>12 DEF ProbeNoTag, CountSilence, PollUnlocked, Returns, Silence
  <2>2. Silence("F") \in Exchanges /\ EndsIn(recent, cleanNoTags, Silence("F"))
    BY ExchangeType DEF Silence, HistoryInv, Witnessed
  <2>3. EndsIn(recent', cleanNoTags + 1, Silence("F"))
    BY <1>1, <1>2, <1>3, <2>1, <2>2, OneMore
  <2>4. EndsIn(recent', 0, Noise)
    BY <1>1, NoneYet
  <2> QED  BY <2>1, <2>3, <2>4 DEF Witnessed, GoodLock, GoodRelease, Silence,
                                   Noise, Exchange
<1>13. CASE ProbeBoth
  <2>1. PICK first \in {"NoTag", "Inconclusive"}, o \in Outcomes :
          /\ PollUnlocked
          /\ probe = "F" => first = "NoTag" /\ EnoughSilence
          /\ IF o = "Tag" THEN LockOn(Other(probe)) ELSE PreferF
          /\ recent' = LastOf(recent \o <<Exchange(probe, first),
                                          Exchange(Other(probe), o)>>)
    BY <1>13 DEF ProbeBoth, Returns
  <2>2. /\ locked = "None" /\ probe = "F" /\ first = "NoTag"
        /\ cleanNoTags + 1 = NfcFCleanNoTagThreshold
        /\ recent' = LastOf(recent \o <<Silence("F"), Exchange("A", o)>>)
    BY <1>1, <1>2, <2>1
    DEF PollUnlocked, FComesFirst, EnoughSilence, Other, Silence
  <2>3. /\ Silence("F") \in Exchanges /\ Exchange("A", o) \in Exchanges
        /\ EndsIn(recent, cleanNoTags, Silence("F"))
    BY ExchangeType DEF Silence, HistoryInv, Witnessed
  <2>4. EndsIn(SubSeq(recent', 1, Len(recent') - 1), cleanNoTags + 1,
               Silence("F"))
    BY <1>1, <1>2, <1>3, <2>2, <2>3, OneMoreThenAnother
  <2>5. Witnessed'
    BY <1>4, <2>1 DEF LockOn, PreferF
  <2> QED  BY <2>2, <2>4, <2>5 DEF GoodLock, GoodRelease
<1> QED
  BY <1>5, <1>6, <1>7, <1>8, <1>9, <1>10, <1>11, <1>12, <1>13 DEF Poll

LEMMA HistoryStep ==
    ASSUME WindowReaches, HistoryInv, [Next]_vars
    PROVE  HistoryInv'
<1>1. ArbiterInv'
  BY StepKeeps DEF HistoryInv
<1>2. CASE Poll
  BY <1>1, <1>2, PollWitnessed DEF HistoryInv
<1>3. CASE StartDiscovery \/ Reset
  <2>1. ClearCounters /\ locked' = "None" /\ recent' = recent
    BY <1>3 DEF StartDiscovery, Reset, PreferF
  <2>2. recent \in Seq(Exchanges)
    BY DEF HistoryInv, ArbiterInv, TypeOK, Exchanges
  <2>3. EndsIn(recent, 0, Silence("F")) /\ EndsIn(recent, 0, Noise)
    BY <2>2, NoneYet
  <2> QED  BY <1>1, <2>1, <2>3
           DEF HistoryInv, Witnessed, ClearCounters, Silence, Noise, Exchange
<1>4. CASE UNCHANGED vars
  BY <1>1, <1>4
  DEF vars, counters, HistoryInv, Witnessed, Silence, Noise, Exchange
<1> QED  BY <1>2, <1>3, <1>4 DEF Next

LEMMA HistoryInit == Init => HistoryInv
<1> SUFFICES ASSUME Init PROVE HistoryInv
  OBVIOUS
<1>1. EndsIn(<<>>, 0, Silence("F")) /\ EndsIn(<<>>, 0, Noise)
  BY DEF EndsIn
<1> QED  BY <1>1, InitInv DEF Init, HistoryInv, Witnessed

(* For all thresholds: NFC-A is locked only after NFC-F was silent, or was *)
(* noisy, as many times in a row as its threshold says, right before.      *)
THEOREM AWaitsForF ==
    ASSUME WindowReaches
    PROVE  Spec => ALocksOnlyAfterF
<1> USE WindowReaches
<1>1. HistoryInv /\ [Next]_vars => HistoryInv'
  BY HistoryStep
<1>2. HistoryInv /\ [Next]_vars =>
        [locked' = "A" /\ locked # "A"
          => LET before == SubSeq(recent', 1, Len(recent') - 1)
             IN  \/ EndsIn(before, NfcFCleanNoTagThreshold,
                           Exchange("F", "NoTag"))
                 \/ EndsIn(before, NfcFInconclusiveFallbackThreshold,
                           Exchange("F", "Inconclusive"))]_vars
  <2> SUFFICES ASSUME HistoryInv, Next, locked' = "A", locked # "A"
               PROVE  GoodLock
    BY DEF GoodLock, Silence, Noise
  <2>1. Poll
    BY DEF Next, StartDiscovery, Reset, PreferF
  <2> QED  BY <2>1, PollWitnessed
<1> QED  BY <1>1, <1>2, HistoryInit, PTL DEF Spec, ALocksOnlyAfterF

(* For all thresholds: a reader that scans on gives up a lock only after   *)
(* that many silences, or noisy exchanges of NFC-F, in a row.              *)
THEOREM LockSurvivesDoubt ==
    ASSUME WindowReaches
    PROVE  Spec => LockKeptThroughDoubt
<1> USE WindowReaches
<1>1. HistoryInv /\ [Next]_vars => HistoryInv'
  BY HistoryStep
<1>2. HistoryInv /\ [Next]_vars =>
        [locked # "None" /\ locked' # locked /\ Poll
          => \/ EndsIn(recent', LockedNoTagThreshold, Exchange(locked, "NoTag"))
             \/ /\ locked = "F"
                /\ EndsIn(SubSeq(recent', 1, Len(recent') - 1),
                          NfcFInconclusiveFallbackThreshold,
                          Exchange("F", "Inconclusive"))]_vars
  <2> SUFFICES ASSUME HistoryInv, Poll, locked # "None", locked' # locked
               PROVE  GoodRelease
    BY DEF GoodRelease, Silence, Noise
  <2> QED  BY PollWitnessed
<1> QED  BY <1>1, <1>2, HistoryInit, PTL DEF Spec, LockKeptThroughDoubt

(* What is said of Spec holds of the whole reader: its steps are steps of  *)
(* the arbiter, or leave it alone.                                         *)
LEMMA ReaderIsArbiter == ReaderSpec => Spec
<1>1. ReaderInit => Init
  BY DEF ReaderInit
<1>2. [ReaderNext]_readerVars => [Next]_vars
  BY DEF ReaderNext, readerVars, MoveTag, Open, ReaderStart, ReaderStop, Close,
         ReaderPoll, Next
<1> QED  BY <1>1, <1>2, PTL DEF ReaderSpec, Spec

-----------------------------------------------------------------------------
(* What a poll does, as far as the driver can tell: it asks one protocol,  *)
(* or NFC-F and then NFC-A.                                                *)
Counted(o) ==
    \/ /\ o \in {"Tag", "Inconclusive"}
       /\ locked' = "A" /\ lockedNoTags' = 0
    \/ /\ o = "NoTag"
       /\ locked' = "A" /\ lockedNoTags' = lockedNoTags + 1
    \/ /\ o = "NoTag"
       /\ locked' = "None" /\ lockedNoTags' = 0
       /\ lockedNoTags + 1 >= LockedNoTagThreshold

OnlyF(o) ==
    /\ last' = <<Exchange("F", o)>>
    /\ locked # "A" /\ locked' # "A"
    /\ o = "Tag" => locked' = "F"

OnlyA(o) ==
    /\ last' = <<Exchange("A", o)>>
    /\ locked = "A"
    /\ Counted(o)

FThenA(first, o) ==
    /\ last' = <<Exchange("F", first), Exchange("A", o)>>
    /\ locked # "A"
    /\ locked' = IF o = "Tag" THEN "A" ELSE "None"
    /\ lockedNoTags' = 0

LEMMA PollCases ==
    ASSUME ArbiterInv, Poll
    PROVE  /\ scanning' = scanning
           /\ \/ \E o \in Outcomes : OnlyF(o)
              \/ \E o \in Outcomes : OnlyA(o)
              \/ \E first, o \in Outcomes : FThenA(first, o)
<1> USE DEF Outcomes, Protocols
<1>a. /\ probe \in Protocols /\ locked \in Protocols \cup {"None"}
      /\ FComesFirst
  BY DEF ArbiterInv, TypeOK
<1>b. scanning' = scanning
  BY DEF Poll, LockedTag, LockedInconclusive, LockedFallback, LockedNoTag,
         LockReleased, ProbeTag, ProbeInconclusive, ProbeFallback, ProbeNoTag,
         ProbeBoth, PollLocked, PollUnlocked
<1>1. CASE LockedTag
  BY <1>1, <1>a
  DEF LockedTag, PollLocked, ClearCounters, Returns, OnlyF, OnlyA, Counted
<1>2. CASE LockedInconclusive
  BY <1>2, <1>a
  DEF LockedInconclusive, PollLocked, NoiseBreaksSilence, Returns, OnlyF,
      OnlyA, Counted
<1>4. CASE LockedNoTag
  BY <1>4, <1>a
  DEF LockedNoTag, PollLocked, Returns, OnlyF, OnlyA, Counted
<1>5. CASE LockReleased
  BY <1>5, <1>a
  DEF LockReleased, PollLocked, PreferF, ClearCounters, Returns, OnlyF, OnlyA,
      Counted
<1>6. CASE ProbeTag
  BY <1>6, <1>a
  DEF ProbeTag, PollUnlocked, LockOn, Returns, FComesFirst, OnlyF
<1>7. CASE ProbeInconclusive
  BY <1>7 DEF ProbeInconclusive, PollUnlocked, Returns, OnlyF
<1>9. CASE ProbeNoTag
  BY <1>9 DEF ProbeNoTag, PollUnlocked, Returns, OnlyF
<1>3. CASE LockedFallback \/ ProbeFallback
  <2>1. locked # "A" /\ FallbackToA(Exchange("F", "Inconclusive"))
    BY <1>3
    DEF LockedFallback, ProbeFallback, PollLocked, PollUnlocked
  <2>2. PICK a \in Outcomes :
          /\ IF a = "Tag" THEN LockOn("A") ELSE PreferF
          /\ last' = <<Exchange("F", "Inconclusive"), Exchange("A", a)>>
    BY <2>1 DEF FallbackToA, Returns
  <2>3. FThenA("Inconclusive", a)
    BY <2>1, <2>2 DEF FThenA, LockOn, PreferF, ClearCounters
  <2>4. QED
    BY <1>b, <2>3
<1>10. CASE ProbeBoth
  <2>1. PICK first \in {"NoTag", "Inconclusive"}, o \in Outcomes :
          /\ PollUnlocked
          /\ IF o = "Tag" THEN LockOn(Other(probe)) ELSE PreferF
          /\ last' = <<Exchange(probe, first), Exchange(Other(probe), o)>>
    BY <1>10 DEF ProbeBoth, Returns
  <2>2. probe = "F" /\ Other(probe) = "A" /\ locked = "None"
    BY <1>a, <2>1 DEF PollUnlocked, FComesFirst, Other
  <2>3. FThenA(first, o)
    BY <2>1, <2>2 DEF FThenA, LockOn, PreferF, ClearCounters
  <2>4. QED
    BY <1>b, <2>3
<1>11. QED
  BY <1>b, <1>1, <1>2, <1>3, <1>4, <1>5, <1>6, <1>7, <1>9, <1>10 DEF Poll

(* A driver whose field is the one its protocol needs.                     *)
IsDriver(d) ==
    /\ d = [ready |-> d.ready, enabled |-> d.enabled, protocol |-> d.protocol,
            field |-> d.field, reset |-> d.reset, noTags |-> d.noTags,
            cache |-> d.cache]
    /\ d.protocol \in Protocols
    /\ d.noTags \in 0..CacheRemoval

Works(d) ==
    /\ IsDriver(d)
    /\ d.ready /\ d.enabled /\ d.field = d.protocol

(* An exchange with NFC-F leaves the cache alone.                          *)
LEMMA AfterF ==
    ASSUME NEW d, Works(d), NEW o \in Outcomes
    PROVE  /\ Works(AfterNfcF(d, o))
           /\ AfterNfcF(d, o).protocol = "F"
           /\ AfterNfcF(d, o).cache = d.cache
<1> DEFINE f == ReadyForF(d)
           b == o = "Inconclusive"
           e == AfterNfcF(d, o)
<1>1. f = [ready |-> d.ready, enabled |-> d.enabled, protocol |-> "F",
           field |-> "F", reset |-> FALSE, noTags |-> d.noTags,
           cache |-> d.cache]
  <2>1. f = [d EXCEPT !.protocol = "F", !.field = "F", !.reset = FALSE]
    BY DEF ReadyForF
  <2> HIDE DEF f
  <2>2. d = [ready |-> d.ready, enabled |-> d.enabled,
             protocol |-> d.protocol, field |-> d.field, reset |-> d.reset,
             noTags |-> d.noTags, cache |-> d.cache]
    BY DEF Works, IsDriver
  <2>3. QED
    BY <2>1, <2>2
<1>2. e = [f EXCEPT !.reset = b]
  BY DEF AfterNfcF
<1> HIDE DEF b, e, f
<1>3. e = [ready |-> d.ready, enabled |-> d.enabled, protocol |-> "F",
           field |-> "F", reset |-> b, noTags |-> d.noTags,
           cache |-> d.cache]
  BY <1>1, <1>2
<1>4. QED
  BY <1>3 DEF Works, IsDriver, Protocols, e

LEMMA ReadyA ==
    ASSUME NEW d, Works(d)
    PROVE  /\ Works(ReadyForA(d))
           /\ ReadyForA(d).protocol = "A"
           /\ ReadyForA(d).cache = d.cache
           /\ ReadyForA(d).noTags = IF d.protocol = "A" THEN d.noTags ELSE 0
<1> DEFINE e == ReadyForA(d)
<1>1. e = [ready |-> d.ready, enabled |-> d.enabled, protocol |-> "A",
           field |-> "A", reset |-> FALSE,
           noTags |-> IF d.protocol = "A" THEN d.noTags ELSE 0,
           cache |-> d.cache]
  BY DEF ReadyForA, Works, IsDriver, Protocols
<1> HIDE DEF e
<1>2. QED
  BY <1>1, DriverAssumption DEF Works, IsDriver, Protocols, e

(* What an exchange with NFC-A leaves in the cache and in the counter.     *)
LEMMA AfterA ==
    ASSUME NEW d, Works(d), NEW o \in Outcomes, NEW id, NEW read,
           NEW halted \in BOOLEAN
    PROVE  LET e == AfterNfcA(d, o, id, read, halted)
               n == IF d.protocol = "A" THEN d.noTags ELSE 0
           IN  /\ Works(e)
               /\ e.protocol = "A"
               /\ o = "Tag" => e.noTags = 0 /\ e.cache = Report(d, id, read)
               /\ o = "Inconclusive" => e.noTags = 0 /\ e.cache = d.cache
               /\ o = "NoTag" =>
                     \/ e.cache = NoCache
                     \/ /\ n + 1 < CacheRemoval
                        /\ e.noTags = n + 1 /\ e.cache = d.cache
<1> DEFINE r == ReadyForA(d)
           e == AfterNfcA(d, o, id, read, halted)
<1>1. /\ Works(r) /\ r.protocol = "A" /\ r.cache = d.cache
      /\ r.noTags = IF d.protocol = "A" THEN d.noTags ELSE 0
  BY ReadyA
<1>2. Report(r, id, read) = Report(d, id, read)
  BY <1>1 DEF Report
<1>3. CASE o = "Tag"
  <2>1. e = [r EXCEPT !.noTags = 0, !.reset = ~halted,
                      !.cache = Report(r, id, read)]
    BY <1>3 DEF AfterNfcA
  <2> HIDE DEF e, r
  <2>2. e = [ready |-> r.ready, enabled |-> r.enabled, protocol |-> r.protocol,
             field |-> r.field, reset |-> ~halted, noTags |-> 0,
             cache |-> Report(d, id, read)]
    BY <1>1, <1>2, <2>1 DEF Works, IsDriver
  <2>3. QED
    BY <1>1, <1>3, <2>2, DriverAssumption DEF Works, IsDriver, e
<1>4. CASE o = "Inconclusive"
  <2>1. e = [r EXCEPT !.noTags = 0, !.reset = TRUE]
    BY <1>4 DEF AfterNfcA
  <2> HIDE DEF e, r
  <2>2. e = [ready |-> r.ready, enabled |-> r.enabled, protocol |-> r.protocol,
             field |-> r.field, reset |-> TRUE, noTags |-> 0,
             cache |-> r.cache]
    BY <1>1, <2>1 DEF Works, IsDriver
  <2>3. QED
    BY <1>1, <1>4, <2>2, DriverAssumption DEF Works, IsDriver, e
<1>5. CASE o = "NoTag"
  <2>1. e = NobodyAnswered(r)
    BY <1>5 DEF AfterNfcA
  <2> HIDE DEF e, r
  <2>2. e = [ready |-> r.ready, enabled |-> r.enabled, protocol |-> r.protocol,
             field |-> r.field, reset |-> r.reset,
             noTags |-> IF r.noTags < CacheRemoval THEN r.noTags + 1
                        ELSE r.noTags,
             cache |-> IF r.noTags + 1 >= CacheRemoval THEN NoCache
                       ELSE r.cache]
    BY <1>1, <2>1 DEF Works, IsDriver, NobodyAnswered
  <2>3. Works(e) /\ e.protocol = "A"
    BY <1>1, <2>2, DriverAssumption DEF Works, IsDriver
  <2>4. \/ e.cache = NoCache
        \/ r.noTags + 1 < CacheRemoval /\ e.noTags = r.noTags + 1
           /\ e.cache = d.cache
    BY <1>1, <2>2, DriverAssumption DEF Works, IsDriver
  <2>5. QED
    BY <1>1, <1>5, <2>3, <2>4 DEF e
<1>6. QED
  BY <1>3, <1>4, <1>5 DEF Outcomes

(* A content is that of a tag that was there, or unknown.                  *)
Recalls(finding, there) ==
    finding # NoCache =>
        \E t \in there \ {NothingThere} :
            t.id = finding.id /\ finding.content \in {t.content, Unread}

(* The counters of silences agree while there is something to forget.      *)
Agree ==
    /\ locked = "A" => driver.protocol = "A"
    /\ driver.cache # NoCache => driver.noTags = lockedNoTags

ReaderInv ==
    /\ InStep
    /\ IsDriver(driver)
    /\ Agree
    /\ antenna \in AntennaTags \cup {NothingThere}
    /\ Recalls(driver.cache, held)
    /\ Recalls(report, held)

(* What is reported of a tag that is there was its content, now or before. *)
LEMMA ReportRecalls ==
    ASSUME NEW d, NEW before, NEW after, Recalls(d.cache, before),
           before \subseteq after, antenna \in after, antenna # NothingThere,
           NEW read \in {Unread, antenna.content}
    PROVE  Recalls(Report(d, antenna.id, read), after)
<1>1. CASE d.cache # NoCache /\ d.cache.id = antenna.id
  BY <1>1 DEF Report, Recalls
<1>2. CASE ~(d.cache # NoCache /\ d.cache.id = antenna.id)
  <2>1. Report(d, antenna.id, read) = Finding(antenna.id, read)
    BY <1>2 DEF Report
  <2>2. QED
    BY <2>1 DEF Finding, Recalls
<1>3. QED
  BY <1>1, <1>2

(* The field of an enabled driver is on for its protocol.                  *)
LEMMA EnabledWorks == ReaderInv /\ driver.enabled => Works(driver)
BY DEF ReaderInv, InStep, DriverOK, Works

(* What a poll leaves behind keeps the invariant if the driver works and   *)
(* the cache and the report are those of the locked tag.                   *)
LEMMA PollLeaves ==
    ASSUME ReaderInv, ArbiterInv', driver.enabled, scanning' = scanning,
           antenna' = antenna, Works(driver'),
           held' \subseteq held \cup {antenna},
           locked' = "A" => driver'.protocol = "A",
           driver'.cache # NoCache =>
               locked' = "A" /\ driver'.noTags = lockedNoTags',
           Recalls(driver'.cache, held'),
           report' \in {NoCache, driver'.cache}
    PROVE  ReaderInv'
<1>1. DriverOK'
  BY DEF DriverOK, ReaderInv, InStep, Works, IsDriver
<1>2. Recalls(report', held')
  BY DEF Recalls
<1>3. QED
  BY <1>1, <1>2
  DEF ReaderInv, InStep, CacheOnlyWhileLocked, Agree, Recalls, Works, IsDriver

LEMMA ReaderPollKeeps == ReaderInv /\ ReaderPoll => ReaderInv'
<1> SUFFICES ASSUME ReaderInv, ReaderPoll
             PROVE  ReaderInv'
  OBVIOUS
<1> DEFINE id == IF antenna = NothingThere THEN Unread ELSE antenna.id
<1>1. PICK read \in {Unread} \cup (IF Speaks("A") THEN {antenna.content} ELSE {}),
           halted \in BOOLEAN :
        LET first == AfterExchange(driver, 1, read, halted)
        IN  driver' = IF Len(last') = 1 THEN first
                      ELSE AfterExchange(first, 2, read, halted)
  BY DEF ReaderPoll
<1>2. /\ ArbiterInv /\ Poll /\ Possible /\ driver.enabled
      /\ antenna' = antenna
      /\ report' = IF result' = "Tag" /\ last'[Len(last')].protocol = "A"
                   THEN driver'.cache ELSE NoCache
      /\ held' = IF locked' = "None" THEN {}
                 ELSE IF locked' # locked THEN {antenna}
                 ELSE held \cup {antenna}
  BY DEF ReaderInv, InStep, ReaderPoll
<1>3. ArbiterInv' /\ scanning' = scanning /\ Works(driver)
  BY <1>2, PollKeeps, PollCases, EnabledWorks
<1>4. /\ held' \subseteq held \cup {antenna}
      /\ report' \in {NoCache, driver'.cache}
  BY <1>2
<1>5. locked # "A" => driver.cache = NoCache
  BY DEF ReaderInv, InStep, CacheOnlyWhileLocked
<1>6. ASSUME NEW o \in Outcomes, OnlyF(o) PROVE ReaderInv'
  <2>1. driver' = AfterNfcF(driver, o)
    BY <1>1, <1>6 DEF OnlyF, AfterExchange, Exchange
  <2>2. Works(driver') /\ driver'.cache = NoCache /\ locked' # "A"
    BY <1>3, <1>5, <1>6, <2>1, AfterF DEF OnlyF
  <2>3. QED
    BY <1>2, <1>3, <1>4, <2>2, PollLeaves DEF Recalls
<1>7. ASSUME NEW f \in Outcomes, NEW o \in Outcomes, FThenA(f, o)
      PROVE  ReaderInv'
  <2> DEFINE d == AfterNfcF(driver, f)
  <2>1. driver' = AfterNfcA(d, o, id, read, halted)
    BY <1>1, <1>7 DEF FThenA, AfterExchange, Exchange
  <2>2. Works(d) /\ d.protocol = "F" /\ d.cache = NoCache
    BY <1>3, <1>5, <1>7, AfterF DEF FThenA
  <2> HIDE DEF d, id
  <2>3. /\ Works(driver') /\ driver'.protocol = "A"
        /\ o = "Tag" => driver'.noTags = 0
                        /\ driver'.cache = Report(d, id, read)
        /\ o # "Tag" => driver'.cache = NoCache
    BY <2>1, <2>2, AfterA DEF Outcomes
  <2>4. CASE o = "Tag"
    <3>1. /\ antenna # NothingThere
          /\ id = antenna.id /\ read \in {Unread, antenna.content}
      BY <1>1, <1>2, <1>7, <2>4 DEF Possible, Speaks, FThenA, Exchange, id
    <3>2. locked' = "A" /\ lockedNoTags' = 0 /\ held' = {antenna}
      BY <1>2, <1>7, <2>4 DEF FThenA
    <3>3. Recalls(d.cache, {})
      BY <2>2 DEF Recalls
    <3>4. Recalls(driver'.cache, held')
      BY <2>3, <2>4, <3>1, <3>2, <3>3, ReportRecalls
    <3>5. QED
      BY <1>2, <1>3, <1>4, <2>3, <2>4, <3>2, <3>4, PollLeaves
  <2>5. CASE o # "Tag"
    BY <1>2, <1>3, <1>4, <2>3, <2>5, PollLeaves DEF Recalls
  <2>6. QED
    BY <2>4, <2>5
<1>8. ASSUME NEW o \in Outcomes, OnlyA(o) PROVE ReaderInv'
  <2>1. driver' = AfterNfcA(driver, o, id, read, halted)
    BY <1>1, <1>8 DEF OnlyA, AfterExchange, Exchange
  <2>2. locked = "A" /\ driver.protocol = "A" /\ Counted(o)
    BY <1>8 DEF OnlyA, ReaderInv, Agree
  <2> HIDE DEF id
  <2>3. /\ Works(driver') /\ driver'.protocol = "A"
        /\ o = "Tag" => driver'.noTags = 0
                        /\ driver'.cache = Report(driver, id, read)
        /\ o = "Inconclusive" => driver'.noTags = 0
                                 /\ driver'.cache = driver.cache
        /\ o = "NoTag" => \/ driver'.cache = NoCache
                          \/ /\ driver.noTags + 1 < CacheRemoval
                             /\ driver'.noTags = driver.noTags + 1
                             /\ driver'.cache = driver.cache
    BY <1>3, <2>1, <2>2, AfterA
  <2>4. Recalls(driver.cache, held)
    BY DEF ReaderInv
  <2>5. locked' = "A" => held' = held \cup {antenna}
    BY <1>2, <2>2
  <2>6. CASE o = "Tag"
    <3>1. /\ antenna # NothingThere
          /\ id = antenna.id /\ read \in {Unread, antenna.content}
      BY <1>1, <1>2, <1>8, <2>6 DEF Possible, Speaks, OnlyA, Exchange, id
    <3>2. locked' = "A" /\ lockedNoTags' = 0
      BY <2>2, <2>6 DEF Counted
    <3>3. Recalls(driver'.cache, held')
      BY <2>3, <2>4, <2>5, <2>6, <3>1, <3>2, ReportRecalls
    <3>4. QED
      BY <1>2, <1>3, <1>4, <2>3, <2>6, <3>2, <3>3, PollLeaves
  <2>7. CASE o = "Inconclusive"
    <3>1. locked' = "A" /\ lockedNoTags' = 0
      BY <2>2, <2>7 DEF Counted
    <3>2. Recalls(driver'.cache, held')
      BY <2>3, <2>4, <2>5, <2>7, <3>1 DEF Recalls
    <3>3. QED
      BY <1>2, <1>3, <1>4, <2>3, <2>7, <3>1, <3>2, PollLeaves
  <2>8. CASE o = "NoTag"
    <3>1. CASE driver'.cache = NoCache
      BY <1>2, <1>3, <1>4, <2>3, <3>1, PollLeaves DEF Recalls
    <3>2. CASE driver'.cache # NoCache
      <4>1. /\ driver'.cache = driver.cache
            /\ driver'.noTags = driver.noTags + 1
            /\ driver.noTags + 1 < CacheRemoval
            /\ driver.noTags = lockedNoTags
        BY <2>3, <2>8, <3>2 DEF ReaderInv, Agree
      <4>2. locked' = "A" /\ lockedNoTags' = lockedNoTags + 1
        BY <1>2, <2>2, <2>8, <4>1, ExpiryAssumption, DriverAssumption,
           ArbiterAssumption
        DEF Counted, ArbiterInv, TypeOK
      <4>3. Recalls(driver'.cache, held')
        BY <2>4, <2>5, <4>1, <4>2 DEF Recalls
      <4>4. QED
        BY <1>2, <1>3, <1>4, <2>3, <4>1, <4>2, <4>3, PollLeaves
    <3>3. QED
      BY <3>1, <3>2
  <2>9. QED
    BY <2>6, <2>7, <2>8 DEF Outcomes
<1>9. QED
  BY <1>2, <1>6, <1>7, <1>8, PollCases

(* Discovery ends, or the reader is closed: nothing is remembered.         *)
LEMMA ForgetsAll ==
    ASSUME ReaderInv, Reset, antenna' = antenna, held' = {},
           report' = NoCache, IsDriver(driver'), DriverOK',
           driver'.cache = NoCache
    PROVE  ReaderInv'
<1>1. ArbiterInv' /\ locked' = "None"
  BY StepKeeps DEF Next, Reset, PreferF, ReaderInv, InStep
<1>2. QED
  BY <1>1
  DEF ReaderInv, InStep, CacheOnlyWhileLocked, Agree, Recalls

LEMMA ReaderStep == ReaderInv /\ [ReaderNext]_readerVars => ReaderInv'
<1> SUFFICES ASSUME ReaderInv, [ReaderNext]_readerVars
             PROVE  ReaderInv'
  OBVIOUS
<1> USE DEF Protocols
<1>1. CASE UNCHANGED vars /\ UNCHANGED driver /\ UNCHANGED <<report, held>>
           /\ antenna' \in AntennaTags \cup {NothingThere}
  BY <1>1
  DEF vars, counters, ReaderInv, InStep, ArbiterInv, TypeOK, FComesFirst,
      DriverOK, CacheOnlyWhileLocked, Agree
<1>2. CASE Open
  <2>1. driver' = [ready |-> TRUE, enabled |-> TRUE, protocol |-> "A",
                   field |-> "A", reset |-> FALSE, noTags |-> 0,
                   cache |-> NoCache]
    BY <1>2 DEF Open, Initialize, Closed
  <2>2. UNCHANGED vars /\ UNCHANGED <<antenna, report, held>>
    BY <1>2 DEF Open
  <2>3. ArbiterInv'
    BY <2>2 DEF vars, counters, ReaderInv, InStep, ArbiterInv, TypeOK,
                FComesFirst
  <2>4. IsDriver(driver') /\ DriverOK'
    BY <2>1, <2>2, DriverAssumption
    DEF IsDriver, DriverOK, ReaderInv, InStep
  <2>5. QED
    BY <2>1, <2>2, <2>3, <2>4
    DEF ReaderInv, InStep, CacheOnlyWhileLocked, Agree, Recalls
<1>3. CASE ReaderStart
  <2>1. /\ driver' = StartNfcF(driver) /\ driver.ready /\ ~scanning
        /\ StartDiscovery /\ UNCHANGED <<antenna, held>>
        /\ UNCHANGED report
    BY <1>3 DEF ReaderStart, StartDiscovery
  <2>2. ArbiterInv' /\ locked' = "None" /\ scanning' = TRUE
    BY <2>1, StepKeeps
    DEF Next, StartDiscovery, PreferF, ReaderInv, InStep
  <2>3. driver.cache = NoCache
    BY <2>1
    DEF ReaderInv, InStep, CacheOnlyWhileLocked, ArbiterInv, FComesFirst
  <2>4. /\ driver'.ready /\ driver'.enabled /\ driver'.cache = NoCache
        /\ driver'.field = driver'.protocol /\ IsDriver(driver')
    <3>1. CASE driver.enabled /\ driver.protocol = "F"
      <4>1. driver' = driver
        BY <2>1, <3>1 DEF StartNfcF
      <4>2. QED
        BY <2>1, <2>3, <3>1, <4>1 DEF ReaderInv, InStep, DriverOK, IsDriver
    <3>2. CASE ~(driver.enabled /\ driver.protocol = "F")
      <4>1. driver' = [driver EXCEPT !.enabled = TRUE, !.protocol = "F",
                                     !.field = "F", !.reset = FALSE]
        BY <2>1, <3>2 DEF StartNfcF
      <4>2. IsDriver(driver)
        BY DEF ReaderInv
      <4>3. driver' = [ready |-> driver.ready, enabled |-> TRUE,
                       protocol |-> "F", field |-> "F", reset |-> FALSE,
                       noTags |-> driver.noTags, cache |-> driver.cache]
        BY <4>1, <4>2 DEF IsDriver
      <4>4. QED
        BY <2>1, <2>3, <4>2, <4>3 DEF IsDriver
    <3>3. QED
      BY <3>1, <3>2
  <2>5. DriverOK'
    BY <2>1, <2>2, <2>4 DEF DriverOK, IsDriver, ReaderInv, InStep
  <2>6. QED
    BY <2>1, <2>2, <2>4, <2>5
    DEF ReaderInv, InStep, CacheOnlyWhileLocked, Agree, Recalls
<1>4. CASE ReaderStop
  <2>1. /\ driver' = StopNfcA(driver) /\ driver.enabled
        /\ Reset /\ antenna' = antenna /\ held' = {} /\ report' = NoCache
    BY <1>4 DEF ReaderStop, ReaderInv, InStep, DriverOK
  <2>2. driver' = [driver EXCEPT !.enabled = FALSE, !.protocol = "A",
                                 !.field = "off", !.reset = FALSE,
                                 !.noTags = 0, !.cache = NoCache]
    BY <2>1 DEF StopNfcA
  <2>3. IsDriver(driver)
    BY DEF ReaderInv
  <2>4. driver' = [ready |-> driver.ready, enabled |-> FALSE,
                   protocol |-> "A", field |-> "off", reset |-> FALSE,
                   noTags |-> 0, cache |-> NoCache]
    BY <2>2, <2>3 DEF IsDriver
  <2>5. ~scanning' /\ driver.ready \in BOOLEAN
    BY <2>1 DEF Reset, ReaderInv, InStep, DriverOK
  <2>6. IsDriver(driver') /\ DriverOK'
    BY <2>1, <2>4, <2>5, DriverAssumption DEF IsDriver, DriverOK
  <2>7. QED
    BY <2>1, <2>4, <2>6, ForgetsAll
<1>5. CASE Close
  <2>1. /\ driver' = Closed
        /\ Reset /\ antenna' = antenna /\ held' = {} /\ report' = NoCache
    BY <1>5 DEF Close
  <2>2. IsDriver(driver') /\ DriverOK' /\ driver'.cache = NoCache
    BY <2>1, DriverAssumption DEF Closed, IsDriver, DriverOK, Reset
  <2>3. QED
    BY <2>1, <2>2, ForgetsAll
<1>6. CASE ReaderPoll
  BY <1>6, ReaderPollKeeps
<1>7. CASE MoveTag
  BY <1>1, <1>7 DEF MoveTag
<1>8. CASE UNCHANGED readerVars
  BY <1>1, <1>8 DEF readerVars, ReaderInv
<1>9. QED
  BY <1>2, <1>3, <1>4, <1>5, <1>6, <1>7, <1>8 DEF ReaderNext

LEMMA ReaderInitInv == ReaderInit => ReaderInv
<1> SUFFICES ASSUME ReaderInit PROVE ReaderInv
  OBVIOUS
<1>1. ArbiterInv
  BY InitInv DEF ReaderInit
<1>2. /\ driver = Closed /\ held = {} /\ report = NoCache
      /\ antenna = NothingThere /\ ~scanning /\ locked = "None"
  BY DEF ReaderInit, Init
<1>3. IsDriver(driver) /\ DriverOK
  BY <1>2, DriverAssumption DEF Closed, IsDriver, DriverOK, Protocols
<1>4. driver.cache = NoCache
  BY <1>2 DEF Closed
<1>5. QED
  BY <1>1, <1>2, <1>3, <1>4
  DEF ReaderInv, InStep, CacheOnlyWhileLocked, Agree, Recalls

LEMMA ReaderSafe == ReaderSpec => []ReaderInv
BY ReaderInitInv, ReaderStep, PTL DEF ReaderSpec

(* Whatever the thresholds and the tags, as long as the driver's cache     *)
(* expires no later than the backend's lock: the driver's field is that of *)
(* its protocol, it is on while the backend scans, and the driver holds a  *)
(* content only while the backend is locked on NFC-A.                      *)
THEOREM DriverInStep == ReaderSpec => []InStep
<1>1. ReaderInv => InStep
  BY DEF ReaderInv
<1>2. QED
  BY <1>1, ReaderSafe, PTL

(* However tags come, go and come back with another content, and whatever  *)
(* the radio misses: what is reported of a tag was there, in that tag, at  *)
(* some poll since the reader locked on it.                                *)
THEOREM NothingIsMadeUp == ReaderSpec => []ReportsWhatWasThere
<1>1. ReaderInv => ReportsWhatWasThere
  BY DEF ReaderInv, Recalls, ReportsWhatWasThere
<1>2. QED
  BY <1>1, ReaderSafe, PTL
=============================================================================
