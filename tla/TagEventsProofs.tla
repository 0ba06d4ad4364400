--------------------------- MODULE TagEventsProofs ---------------------------
(***************************************************************************)
(* How tags become events and events reach the UI thread.                  *)
(*                                                                         *)
(* What TagDebounce keeps for any number of tags, contents and poll        *)
(* results and for any thresholds: the consistency of the presence fields, *)
(* the refinement of TagSessions, and the agreement of the counters with   *)
(* the raw results, in both directions.                                    *)
(*                                                                         *)
(* What EventDelivery keeps for any capacity and any number of pushes:     *)
(* every event is accounted for, and an event that must be kept is lost    *)
(* only to a queue's worth of later ones.                                  *)
(***************************************************************************)
EXTENDS TagDebounce, EventDelivery, TagPresenceLemmas, FiniteSetTheorems,
        WellFoundedInduction

(* The inductive invariant holds initially and every step keeps it.        *)
LEMMA InitInvariant == Init => IInv
BY PresenceAssumption
DEF Init, IInv, TypeOK, PresenceType, PresenceOK, NoPresence, Results

LEMMA NextInvariant == IInv /\ [Next]_vars => IInv'
<1> SUFFICES ASSUME IInv, [Next]_vars
             PROVE  IInv'
  OBVIOUS
<1>0. presence \in PresenceType /\ PresenceOK /\ log \in Seq(Results)
  BY DEF IInv, TypeOK
<1>0a. Now \in Nat
  BY <1>0 DEF Now, Results
<1>1. CASE PollNothing
  <2>1. log' \in Seq(Results)
    BY <1>0, <1>0a, <1>1 DEF PollNothing, Record, Results
  <2>2. QED
    BY <1>0, <1>1, <2>1, ObserveNothingPreserves DEF PollNothing, IInv, TypeOK
<1>2. CASE PollNoTag
  <2>1. PICK dt \in 0..MaxStep : Record("NoTag", NoTag, dt) /\ ObserveNoTag(dt)
    BY <1>2 DEF PollNoTag
  <2>2. dt \in Nat
    BY DebounceAssumption
  <2>3. log' \in Seq(Results)
    BY <1>0, <1>0a, <2>1, <2>2 DEF Record, Results
  <2>4. QED
    BY <1>0, <2>1, <2>2, <2>3, ObserveNoTagPreserves DEF IInv, TypeOK
<1>3. CASE PollTag
  <2>1. PICK t \in Tags : Record("Tag", t, 0) /\ ObserveTag(t)
    BY <1>3 DEF PollTag
  <2>2. log' \in Seq(Results)
    BY <1>0, <1>0a, <2>1 DEF Record, Results
  <2>3. QED
    BY <1>0, <2>1, <2>2, ObserveTagPreserves DEF IInv, TypeOK
<1>4. CASE Clear
  <2>1. log' \in Seq(Results)
    BY <1>0, <1>0a, <1>4 DEF Clear, Record, Results
  <2>2. QED
    BY <1>0, <1>4, <2>1, ClearPreserves DEF Clear, IInv, TypeOK
<1>5. CASE UNCHANGED vars
  BY <1>5 DEF vars, IInv, TypeOK, PresenceOK
<1>6. QED
  BY <1>1, <1>2, <1>3, <1>4, <1>5 DEF Next

(* Whatever the reader sees, a session is live exactly while a tag is      *)
(* present, its number is one already handed out, and a candidate is never *)
(* the present tag itself.                                                 *)
THEOREM Invariance == Spec => []IInv
<1>1. Init => IInv
  BY InitInvariant
<1>2. IInv /\ [Next]_vars => IInv'
  BY NextInvariant
<1>3. QED
  BY <1>1, <1>2, PTL DEF Spec

-----------------------------------------------------------------------------
(* The filter implements the abstract tag sessions.                        *)
LEMMA StepImplementsSessions ==
    IInv /\ [Next]_vars => [Sessions!SessionNext]_(Sessions!sessionVars)
<1> SUFFICES ASSUME IInv, Next
             PROVE  [Sessions!SessionNext]_(Sessions!sessionVars)
  BY DEF vars, Sessions!sessionVars
<1>0. presence \in PresenceType /\ PresenceOK
  BY DEF IInv, TypeOK
<1>1. ASSUME UNCHANGED <<presence.tag, presence.session,
                          presence.nextSession>>
      PROVE  [Sessions!SessionNext]_(Sessions!sessionVars)
  BY <1>1 DEF Sessions!sessionVars
<1>2. ASSUME ClearPresence
      PROVE  [Sessions!SessionNext]_(Sessions!sessionVars)
  <2>1. /\ presence'.tag = NoTag
        /\ presence'.session = 0
        /\ presence'.nextSession = presence.nextSession
    BY <1>2 DEF ClearPresence, NoPresence
  <2>2. CASE presence.tag = NoTag
    BY <1>0, <1>1, <2>1, <2>2 DEF PresenceOK
  <2>3. CASE presence.tag # NoTag
    <3>1. Sessions!Remove
      BY <1>0, <2>1, <2>3 DEF Sessions!Remove, PresenceOK
    <3>2. QED
      BY <3>1 DEF Sessions!SessionNext
  <2>4. QED
    BY <2>2, <2>3
<1>3. CASE PollNothing
  BY <1>0, <1>1, <1>3 DEF PollNothing, ObserveNothing, PresenceType
<1>4. CASE PollNoTag
  <2>1. PICK dt \in 0..MaxStep : ObserveNoTag(dt)
    BY <1>4 DEF PollNoTag
  <2>2. CASE presence' = WithoutCandidate
    BY <1>0, <1>1, <2>2 DEF WithoutCandidate, PresenceType
  <2>3. CASE presence' = [WithoutCandidate EXCEPT
                            !.noTags = AtMost(RemoveConfirmations, @ + 1),
                            !.noTagAge = AgeAfter(dt)]
    BY <1>0, <1>1, <2>3 DEF WithoutCandidate, PresenceType
  <2>4. CASE ClearPresence
    BY <1>2, <2>4
  <2>5. QED
    BY <2>1, <2>2, <2>3, <2>4 DEF ObserveNoTag
<1>5. CASE PollTag
  <2>1. PICK t \in Tags : ObserveTag(t)
    BY <1>5 DEF PollTag
  <2>2. t \in Sessions!SessionTags /\ t # NoTag
    BY <2>1, PresenceAssumption DEF Tags, Sessions!SessionTags
  <2>3. CASE ObservePresentTag(t)
    <3>1. /\ presence'.tag = t
          /\ presence'.session = presence.session
          /\ presence'.nextSession = presence.nextSession
      BY <1>0, <2>3 DEF ObservePresentTag, WithoutCandidate, PresenceType
    <3>2. presence.tag # NoTag /\ presence.tag.id = t.id
      BY <2>3 DEF ObservePresentTag, SameIdentity
    <3>3. CASE t = presence.tag
      BY <1>1, <3>1, <3>3
    <3>4. CASE t # presence.tag
      <4>1. Sessions!Update(t)
        BY <1>0, <3>1, <3>2, <3>4 DEF Sessions!Update, PresenceOK
      <4>2. QED
        BY <2>2, <4>1 DEF Sessions!SessionNext
    <3>5. QED
      BY <3>3, <3>4
  <2>4. CASE ObserveCandidate(t)
    BY <1>0, <1>1, <2>4 DEF ObserveCandidate, PresenceType
  <2>5. CASE ObserveConfirmed(t)
    <3>1. /\ presence'.tag = t
          /\ presence'.session = presence.nextSession
          /\ presence'.nextSession = presence.nextSession + 1
      BY <2>5 DEF ObserveConfirmed, NoPresence
    <3>2. presence.nextSession \in Nat
      BY <1>0 DEF PresenceType
    <3>3. CASE presence.tag = NoTag
      <4>1. Sessions!Present(t)
        BY <1>0, <3>1, <3>2, <3>3 DEF Sessions!Present, PresenceOK
      <4>2. QED
        BY <2>2, <4>1 DEF Sessions!SessionNext
    <3>4. CASE presence.tag # NoTag
      <4>1. presence.tag.id # t.id
        BY <2>2, <2>5, <3>4 DEF ObserveConfirmed, SameIdentity
      <4>2. Sessions!Replace(t)
        BY <1>0, <3>1, <3>2, <3>4, <4>1 DEF Sessions!Replace, PresenceOK
      <4>3. QED
        BY <2>2, <4>2 DEF Sessions!SessionNext
    <3>5. QED
      BY <3>3, <3>4
  <2>6. QED
    BY <2>1, <2>3, <2>4, <2>5 DEF ObserveTag
<1>6. CASE Clear
  BY <1>2, <1>6 DEF Clear
<1>7. QED
  BY <1>3, <1>4, <1>5, <1>6 DEF Next

(* For every set of tags and every threshold, the debounced observations   *)
(* keep the promise of TagSessions: one session at a time, no exchange of  *)
(* the tag inside a session, a fresh number for each.                      *)
THEOREM Refinement == Spec => ImplementsSessions
<1>1. Init => Sessions!SessionInit
  BY DEF Init, NoPresence, Sessions!SessionInit
<1>2. IInv /\ [Next]_vars => [Sessions!SessionNext]_(Sessions!sessionVars)
  BY StepImplementsSessions
<1>3. Init => IInv
  BY InitInvariant
<1>4. IInv /\ [Next]_vars => IInv'
  BY NextInvariant
<1>5. QED
  BY <1>1, <1>2, <1>3, <1>4, PTL
  DEF Spec, ImplementsSessions, Sessions!SessionSpec

-----------------------------------------------------------------------------
(* A single misread opens no session.                                      *)

(* The log ends in n sightings of id, with nothing against it between.     *)
SeenTimes(id, n) ==
    \E i \in 1..(Len(log) + 1) :
        /\ Unbroken(i, id)
        /\ Cardinality(Sightings(i)) >= n

CandidateSeen ==
    presence.candidate # NoTag =>
        SeenTimes(presence.candidate.id, presence.confirmations)

AgreedInv == IInv /\ CandidateSeen /\ PresentedOnlyIfAgreed

LEMMA SightingsFinite ==
    ASSUME log \in Seq(Results), NEW i \in Nat
    PROVE  /\ IsFiniteSet(Sightings(i))
           /\ Cardinality(Sightings(i)) \in Nat
<1>1. Len(log) \in Nat
  OBVIOUS
<1>2. IsFiniteSet(i..Len(log))
  BY <1>1, FS_Interval
<1>3. Sightings(i) \subseteq i..Len(log)
  BY DEF Sightings
<1>4. QED
  BY <1>2, <1>3, FS_Subset, FS_CardinalityType

(* A poll that saw nothing changes no count of sightings.                  *)
LEMMA NothingAddsNothing ==
    ASSUME log \in Seq(Results), NEW id, NEW n, SeenTimes(id, n),
           log' = Append(log, [kind |-> "Nothing", tag |-> NoTag, at |-> Now + 0])
    PROVE  SeenTimes(id, n)'
<1>1. PICK i \in 1..(Len(log) + 1) :
        Unbroken(i, id) /\ Cardinality(Sightings(i)) >= n
  BY DEF SeenTimes
<1>2. /\ Len(log') = Len(log) + 1
      /\ \A k \in 1..Len(log) : log'[k] = log[k]
      /\ log'[Len(log) + 1].kind = "Nothing"
  OBVIOUS
<1>3. Unbroken(i, id)'
  BY <1>1, <1>2 DEF Unbroken
<1>4. Sightings(i)' = Sightings(i)
  BY <1>1, <1>2 DEF Sightings
<1>5. QED
  BY <1>1, <1>2, <1>3, <1>4 DEF SeenTimes

(* A sighting adds one to those of its own tag, and begins a count.        *)
LEMMA SightingCounts ==
    ASSUME log \in Seq(Results), NEW t \in Tags, NEW n \in Nat,
           n = 0 \/ SeenTimes(t.id, n),
           log' = Append(log, [kind |-> "Tag", tag |-> t, at |-> Now + 0])
    PROVE  \E i \in 1..Len(log') :
              /\ Unbroken(i, t.id)'
              /\ Cardinality(Sightings(i)') \in Nat
              /\ Cardinality(Sightings(i)') >= n + 1
<1> DEFINE m == Len(log) + 1
<1>1. /\ Len(log) \in Nat
      /\ Len(log') = m
      /\ \A k \in 1..Len(log) : log'[k] = log[k]
      /\ log'[m].kind = "Tag" /\ log'[m].tag = t
  OBVIOUS
<1>2. PICK i \in 1..m :
        Unbroken(i, t.id) /\ Cardinality(Sightings(i)) >= n
  <2>1. CASE n = 0
    <3>1. Unbroken(m, t.id)
      BY <1>1 DEF Unbroken
    <3>2. Cardinality(Sightings(m)) \in Nat
      BY <1>1, SightingsFinite
    <3>3. QED
      BY <1>1, <2>1, <3>1, <3>2
  <2>2. CASE SeenTimes(t.id, n)
    BY <2>2 DEF SeenTimes
  <2>3. QED
    BY <2>1, <2>2
<1>3. Unbroken(i, t.id)'
  BY <1>1, <1>2 DEF Unbroken
<1>4. Sightings(i)' = Sightings(i) \cup {m}
  BY <1>1, <1>2 DEF Sightings
<1>5. m \notin Sightings(i) /\ IsFiniteSet(Sightings(i))
  BY <1>1, <1>2, SightingsFinite DEF Sightings
<1>6. Cardinality(Sightings(i)') = Cardinality(Sightings(i)) + 1
  BY <1>4, <1>5, FS_AddElement
<1>7. Cardinality(Sightings(i)) \in Nat
  BY <1>1, <1>2, SightingsFinite
<1>8. QED
  BY <1>1, <1>2, <1>3, <1>6, <1>7

LEMMA AgreedStep == AgreedInv /\ [Next]_vars => AgreedInv'
<1> SUFFICES ASSUME AgreedInv, [Next]_vars
             PROVE  AgreedInv'
  OBVIOUS
<1>0. /\ presence \in PresenceType /\ PresenceOK /\ log \in Seq(Results)
      /\ IInv /\ IInv'
  BY NextInvariant DEF AgreedInv, IInv, TypeOK
<1>1. ASSUME presence'.candidate = NoTag,
             \A i \in DOMAIN outbox' : outbox'[i].type # "TagPresented"
      PROVE  AgreedInv'
  BY <1>0, <1>1 DEF AgreedInv, CandidateSeen, PresentedOnlyIfAgreed
<1>2. \A i \in DOMAIN Removal : Removal[i].type # "TagPresented"
  BY DEF Removal, TagRemoved
<1>3. CASE PollNothing
  <2>1. /\ outbox' = <<>>
        /\ presence'.candidate = presence.candidate
        /\ presence'.confirmations = presence.confirmations
    BY <1>0, <1>3 DEF PollNothing, ObserveNothing, PresenceType
  <2>2. log' = Append(log, [kind |-> "Nothing", tag |-> NoTag, at |-> Now + 0])
    BY <1>3 DEF PollNothing, Record
  <2>3. CandidateSeen'
    <3>1. CASE presence.candidate = NoTag
      BY <2>1, <3>1 DEF CandidateSeen
    <3>2. CASE presence.candidate # NoTag
      <4>1. PICK c, n :
              /\ c = presence.candidate.id /\ n = presence.confirmations
              /\ SeenTimes(c, n)
        BY <3>2 DEF AgreedInv, CandidateSeen
      <4>2. SeenTimes(c, n)'
        BY <1>0, <2>2, <4>1, NothingAddsNothing
      <4>3. QED
        BY <2>1, <4>1, <4>2 DEF CandidateSeen, SeenTimes, Unbroken
    <3>3. QED
      BY <3>1, <3>2
  <2>4. QED
    BY <1>0, <2>1, <2>3 DEF AgreedInv, PresentedOnlyIfAgreed
<1>4. CASE PollNoTag
  <2>1. PICK dt \in 0..MaxStep : ObserveNoTag(dt)
    BY <1>4 DEF PollNoTag
  <2>2. presence'.candidate = NoTag
    <3>1. CASE presence' = WithoutCandidate
      BY <1>0, <3>1 DEF WithoutCandidate, PresenceType
    <3>2. CASE presence' = [WithoutCandidate EXCEPT
                              !.noTags = AtMost(RemoveConfirmations, @ + 1),
                              !.noTagAge = AgeAfter(dt)]
      BY <1>0, <3>2 DEF WithoutCandidate, PresenceType
    <3>3. CASE ClearPresence
      BY <3>3 DEF ClearPresence, NoPresence
    <3>4. QED
      BY <2>1, <3>1, <3>2, <3>3 DEF ObserveNoTag
  <2>3. outbox' = <<>> \/ outbox' = Removal
    BY <2>1 DEF ObserveNoTag
  <2>4. QED
    BY <1>1, <1>2, <2>2, <2>3
<1>5. CASE Clear
  BY <1>1, <1>2, <1>5 DEF Clear, ClearPresence, NoPresence
<1>6. CASE PollTag
  <2>1. PICK t \in Tags : Record("Tag", t, 0) /\ ObserveTag(t)
    BY <1>6 DEF PollTag
  <2>2. t # NoTag
    BY <2>1, PresenceAssumption
  <2>3. CASE ObservePresentTag(t)
    <3>1. presence'.candidate = NoTag
      BY <1>0, <2>3 DEF ObservePresentTag, WithoutCandidate, PresenceType
    <3>2. \A i \in DOMAIN outbox' : outbox'[i].type # "TagPresented"
      BY <2>3 DEF ObservePresentTag, TagUpdated
    <3>3. QED
      BY <1>1, <3>1, <3>2
  <2>4. PICK n \in Nat :
          /\ Confirmations(t) = n + 1
          /\ n = 0 \/ SeenTimes(t.id, n)
    <3>1. CASE SameIdentity(presence.candidate, t)
      <4>1. /\ Confirmations(t) = presence.confirmations + 1
            /\ presence.confirmations \in Nat
        BY <1>0, <3>1, PresenceAssumption DEF Confirmations, PresenceType
      <4>2. SeenTimes(t.id, presence.confirmations)
        BY <3>1 DEF AgreedInv, CandidateSeen, SameIdentity
      <4>3. QED
        BY <4>1, <4>2
    <3>2. CASE ~SameIdentity(presence.candidate, t)
      BY <3>2 DEF Confirmations
    <3>3. QED
      BY <3>1, <3>2
  <2>5. \E i \in 1..Len(log') :
           /\ Unbroken(i, t.id)'
           /\ Cardinality(Sightings(i)') \in Nat
           /\ Cardinality(Sightings(i)') >= n + 1
    <3>1. log' = Append(log, [kind |-> "Tag", tag |-> t, at |-> Now + 0])
      BY <2>1 DEF Record
    <3>2. QED
      BY <1>0, <2>1, <2>4, <3>1, SightingCounts
  <2>6. CASE ObserveCandidate(t)
    <3>1. /\ presence'.candidate = t /\ presence'.confirmations = n + 1
          /\ outbox' = <<>>
      BY <1>0, <2>4, <2>6 DEF ObserveCandidate, Confirmations, PresenceType
    <3>2. CandidateSeen'
      <4>1. SeenTimes(t.id, n + 1)'
        <5>1. log' \in Seq(Results)
          BY <1>0 DEF IInv, TypeOK
        <5>2. QED
          BY <2>5, <5>1 DEF SeenTimes
      <4>2. QED
        BY <3>1, <4>1 DEF CandidateSeen, SeenTimes, Unbroken
    <3>3. QED
      BY <1>0, <3>1, <3>2 DEF AgreedInv, PresentedOnlyIfAgreed
  <2>7. CASE ObserveConfirmed(t)
    <3>1. /\ presence'.candidate = NoTag
          /\ outbox' = Removal \o <<TagPresented(presence.nextSession, t)>>
          /\ n + 1 >= PresentConfirmations
      <4>1. presence' = [NoPresence(presence.nextSession + 1) EXCEPT
                           !.tag = t, !.session = presence.nextSession]
        BY <2>7 DEF ObserveConfirmed
      <4>2. QED
        BY <2>4, <2>7, <4>1 DEF ObserveConfirmed, NoPresence
    <3>2. \A i \in DOMAIN outbox' :
             outbox'[i].type = "TagPresented" => outbox'[i].tag = t
      BY <1>2, <3>1 DEF Removal, TagPresented, TagRemoved
    <3>3. Agreed(t.id)'
      BY <2>4, <2>5, <3>1, PresenceAssumption DEF Agreed
    <3>4. PresentedOnlyIfAgreed'
      BY <3>2, <3>3 DEF PresentedOnlyIfAgreed, Agreed, Unbroken
    <3>5. QED
      BY <1>0, <3>1, <3>4 DEF AgreedInv, CandidateSeen
  <2>8. QED
    BY <2>1, <2>3, <2>6, <2>7 DEF ObserveTag
<1>7. CASE UNCHANGED vars
  <2>1. presence' = presence /\ outbox' = outbox /\ log' = log
    BY <1>7 DEF vars
  <2>2. CandidateSeen'
    BY <2>1 DEF AgreedInv, CandidateSeen, SeenTimes, Unbroken, Sightings
  <2>3. PresentedOnlyIfAgreed'
    <3>1. ASSUME NEW id, Agreed(id)
          PROVE  \E i \in 1..Len(log') :
                   /\ Unbroken(i, id)'
                   /\ Cardinality(Sightings(i)') >= PresentConfirmations
      BY <2>1, <3>1 DEF Agreed, Unbroken, Sightings
    <3>2. ASSUME NEW j \in DOMAIN outbox', outbox'[j].type = "TagPresented"
          PROVE  Agreed(outbox[j].tag.id) /\ outbox'[j] = outbox[j]
      BY <2>1, <3>2 DEF AgreedInv, PresentedOnlyIfAgreed
    <3>3. SUFFICES ASSUME NEW j \in DOMAIN outbox',
                          outbox'[j].type = "TagPresented"
                   PROVE  Agreed(outbox[j].tag.id)'
      BY DEF PresentedOnlyIfAgreed
    <3>4. PICK c : c = outbox[j].tag.id
      OBVIOUS
    <3>5. Agreed(c)'
      BY <3>1, <3>2, <3>3, <3>4 DEF Agreed
    <3>6. outbox'[j].tag.id = c
      BY <3>2, <3>3, <3>4
    <3>7. QED
      BY <3>5, <3>6 DEF Agreed, Unbroken
  <2>4. QED
    BY <1>0, <2>2, <2>3 DEF AgreedInv
<1>8. QED
  BY <1>3, <1>4, <1>5, <1>6, <1>7 DEF Next

(* For every number of confirmations and any tags: a session is opened     *)
(* only by that many sightings of one tag, with no NoTag result and no     *)
(* other tag among them.                                                   *)
THEOREM NoSessionByMisread == Spec => []PresentedOnlyIfAgreed
<1>1. Init => AgreedInv
  <2> SUFFICES ASSUME Init PROVE AgreedInv
    OBVIOUS
  <2>1. IInv
    BY InitInvariant
  <2>2. CandidateSeen /\ PresentedOnlyIfAgreed
    BY DEF Init, NoPresence, CandidateSeen, PresentedOnlyIfAgreed
  <2>3. QED
    BY <2>1, <2>2 DEF AgreedInv
<1>2. AgreedInv => PresentedOnlyIfAgreed
  BY DEF AgreedInv
<1>3. QED
  BY <1>1, <1>2, AgreedStep, PTL DEF Spec

-----------------------------------------------------------------------------
(* Absences are counted neither too fast nor too slowly.                   *)

LEMMA RecordDoes ==
    ASSUME log \in Seq(Results), NEW kind, NEW t, NEW dt \in Nat,
           Record(kind, t, dt)
    PROVE  /\ Len(log) \in Nat /\ Len(log') = Len(log) + 1
           /\ \A k \in 1..Len(log) : log'[k] = log[k]
           /\ log'[Len(log) + 1].kind = kind /\ log'[Len(log) + 1].tag = t
           /\ log'[Len(log) + 1].at = Now'
           /\ Now \in Nat /\ Now' = Now + dt
           /\ \A k \in 1..Len(log) : log[k].at \in Nat
<1>1. Now \in Nat
  BY DEF Now, Results
<1>2. log' = Append(log, [kind |-> kind, tag |-> t, at |-> Now + dt])
  BY DEF Record
<1>3. /\ Len(log) \in Nat /\ Len(log') = Len(log) + 1
      /\ \A k \in 1..Len(log) : log'[k] = log[k]
      /\ log'[Len(log) + 1] = [kind |-> kind, tag |-> t, at |-> Now + dt]
      /\ log' # <<>>
  BY <1>2
<1>4. Now' = Now + dt
  BY <1>3 DEF Now
<1>5. \A k \in 1..Len(log) : log[k].at \in Nat
  BY DEF Results
<1>6. QED
  BY <1>1, <1>3, <1>4, <1>5

AwayFrom(i) == \A k \in i..Len(log) : log[k].kind = "NoTag"

(* What is counted against the present tag is in the log.                  *)
AbsenceBacked ==
    presence.noTags > 0 =>
        \E i \in 1..Len(log) :
            /\ AwayFrom(i)
            /\ Len(log) - i + 1 >= presence.noTags
            /\ Elapsed(i) >= presence.noTagAge

(* What the log has against it is counted, up to the thresholds, and is    *)
(* not yet enough.                                                         *)
AbsenceCounted ==
    presence.tag # NoTag =>
        /\ \/ presence.noTags < RemoveConfirmations
           \/ presence.noTagAge < RemoveDebounce
        /\ \A i \in 1..Len(log) : AwayFrom(i) =>
              /\ AtMost(RemoveConfirmations, Len(log) - i + 1) <= presence.noTags
              /\ AtMost(RemoveDebounce, Elapsed(i)) <= presence.noTagAge

AbsenceInv == IInv /\ AbsenceBacked /\ AbsenceCounted /\ RemovedOnlyIfAbsent

(* One NoTag result more, for a tag that is present.                       *)
LEMMA AbsenceGrows ==
    ASSUME AbsenceInv, presence.tag # NoTag, NEW dt \in Nat,
           Record("NoTag", NoTag, dt)
    PROVE  /\ \E i \in 1..Len(log') :
                 /\ AwayFrom(i)'
                 /\ Len(log') - i + 1 >= presence.noTags + 1
                 /\ Elapsed(i)' >= AgeAfter(dt)
           /\ \A i \in 1..Len(log') : AwayFrom(i)' =>
                 /\ AtMost(RemoveConfirmations, Len(log') - i + 1)
                      <= AtMost(RemoveConfirmations, presence.noTags + 1)
                 /\ AtMost(RemoveDebounce, Elapsed(i)') <= AgeAfter(dt)
<1>0. /\ presence \in PresenceType /\ log \in Seq(Results)
      /\ presence.noTags \in Nat /\ presence.noTagAge \in 0..RemoveDebounce
      /\ RemoveConfirmations \in Nat \ {0} /\ RemoveDebounce \in Nat
  BY PresenceAssumption DEF AbsenceInv, IInv, TypeOK, PresenceType
<1>m. PICK m \in Nat : m = Len(log) + 1
  BY <1>0
<1>1. /\ m = Len(log) + 1 /\ Len(log) \in Nat /\ Len(log') = m
      /\ \A k \in 1..Len(log) : log'[k] = log[k]
      /\ log'[m].kind = "NoTag" /\ log'[m].at = Now'
      /\ Now \in Nat /\ Now' = Now + dt
      /\ \A k \in 1..Len(log) : log[k].at \in Nat
  BY <1>0, <1>m, RecordDoes
<1>2. AwayFrom(m)' /\ Elapsed(m)' = 0 /\ m \in 1..Len(log')
  BY <1>1 DEF AwayFrom, Elapsed
<1>3. ASSUME NEW i \in 1..Len(log)
      PROVE  /\ AwayFrom(i)' <=> AwayFrom(i)
             /\ Elapsed(i)' = Elapsed(i) + dt /\ Elapsed(i) \in Int
             /\ i \in 1..Len(log')
  <2>1. AwayFrom(i)' <=> AwayFrom(i)
    BY <1>1 DEF AwayFrom
  <2>2. log'[i].at = log[i].at /\ log[i].at \in Nat
    BY <1>1
  <2>3. QED
    BY <1>1, <2>1, <2>2 DEF Elapsed
<1>4. \E i \in 1..Len(log') :
         /\ AwayFrom(i)'
         /\ Len(log') - i + 1 >= presence.noTags + 1
         /\ Elapsed(i)' >= AgeAfter(dt)
  <2>1. CASE presence.noTags = 0
    <3>1. AgeAfter(dt) = 0
      BY <2>1 DEF AgeAfter
    <3>2. m - m + 1 >= presence.noTags + 1
      BY <2>1, <1>1
    <3>3. QED
      BY <1>1, <1>2, <3>1, <3>2
  <2>2. CASE presence.noTags > 0
    <3>1. PICK i \in 1..Len(log) :
            /\ AwayFrom(i)
            /\ Len(log) - i + 1 >= presence.noTags
            /\ Elapsed(i) >= presence.noTagAge
      BY <2>2 DEF AbsenceInv, AbsenceBacked
    <3>2. AgeAfter(dt) <= presence.noTagAge + dt
      BY <1>0, <2>2 DEF AgeAfter, AtMost
    <3>3. Len(log') - i + 1 >= presence.noTags + 1
      BY <1>0, <1>1, <3>1
    <3>4. Elapsed(i)' >= AgeAfter(dt)
      <4>1. AgeAfter(dt) \in Int
        BY <1>0 DEF AgeAfter, AtMost
      <4>2. QED
        BY <1>0, <1>3, <3>1, <3>2, <4>1
    <3>5. QED
      BY <1>3, <3>1, <3>3, <3>4
  <2>3. QED
    BY <1>0, <2>1, <2>2
<1>5. ASSUME NEW i \in 1..Len(log'), AwayFrom(i)'
      PROVE  /\ AtMost(RemoveConfirmations, Len(log') - i + 1)
                  <= AtMost(RemoveConfirmations, presence.noTags + 1)
             /\ AtMost(RemoveDebounce, Elapsed(i)') <= AgeAfter(dt)
  <2>1. CASE i = m
    <3>1. AtMost(RemoveConfirmations, m - i + 1)
             <= AtMost(RemoveConfirmations, presence.noTags + 1)
      BY <1>0, <1>1, <2>1 DEF AtMost
    <3>2. AtMost(RemoveDebounce, 0) <= AgeAfter(dt)
      BY <1>0 DEF AgeAfter, AtMost
    <3>3. QED
      BY <1>1, <1>2, <2>1, <3>1, <3>2
  <2>2. CASE i \in 1..Len(log)
    <3>1. /\ AtMost(RemoveConfirmations, Len(log) - i + 1) <= presence.noTags
          /\ AtMost(RemoveDebounce, Elapsed(i)) <= presence.noTagAge
      BY <1>3, <1>5, <2>2 DEF AbsenceInv, AbsenceCounted
    <3>2. AtMost(RemoveConfirmations, m - i + 1)
             <= AtMost(RemoveConfirmations, presence.noTags + 1)
      BY <1>0, <1>1, <2>2, <3>1 DEF AtMost
    <3>3. presence.noTags # 0
      BY <1>0, <1>1, <2>2, <3>1 DEF AtMost
    <3>4. Elapsed(i) \in Int /\ Elapsed(i)' = Elapsed(i) + dt
      BY <1>3, <2>2
    <3>5. PICK e \in Int : e = Elapsed(i)
      BY <3>4
    <3>6. AtMost(RemoveDebounce, e + dt)
             <= AtMost(RemoveDebounce, presence.noTagAge + dt)
      BY <1>0, <3>1, <3>5 DEF AtMost
    <3>7. QED
      BY <1>1, <3>2, <3>3, <3>4, <3>5, <3>6 DEF AgeAfter
  <2>3. QED
    BY <1>1, <2>1, <2>2
<1>6. QED
  BY <1>4, <1>5

(* A result that is no NoTag leaves nothing to count.                      *)
LEMMA AbsenceEnds ==
    ASSUME log \in Seq(Results), NEW kind, NEW t, Record(kind, t, 0),
           kind # "NoTag", presence'.noTags = 0
    PROVE  AbsenceBacked' /\ AbsenceCounted'
<1>1. /\ Len(log) \in Nat /\ Len(log') = Len(log) + 1
      /\ log'[Len(log) + 1].kind # "NoTag"
  BY RecordDoes
<1>2. ASSUME NEW i \in 1..Len(log') PROVE ~AwayFrom(i)'
  BY <1>1 DEF AwayFrom
<1>3. QED
  BY <1>2, PresenceAssumption DEF AbsenceBacked, AbsenceCounted

LEMMA AbsenceStep == AbsenceInv /\ [Next]_vars => AbsenceInv'
<1> SUFFICES ASSUME AbsenceInv, [Next]_vars PROVE AbsenceInv'
  OBVIOUS
<1>0. /\ presence \in PresenceType /\ PresenceOK /\ log \in Seq(Results)
      /\ IInv /\ IInv'
  BY NextInvariant DEF AbsenceInv, IInv, TypeOK
<1>1. CASE PollNothing
  <2>1. presence'.noTags = 0 /\ outbox' = <<>>
    BY <1>0, <1>1 DEF PollNothing, ObserveNothing, PresenceType
  <2>2. AbsenceBacked' /\ AbsenceCounted'
    BY <1>0, <1>1, <2>1, AbsenceEnds DEF PollNothing
  <2>3. QED
    BY <1>0, <2>1, <2>2 DEF AbsenceInv, RemovedOnlyIfAbsent, Emits
<1>2. CASE PollNoTag
  <2>1. PICK dt \in 0..MaxStep : Record("NoTag", NoTag, dt) /\ ObserveNoTag(dt)
    BY <1>2 DEF PollNoTag
  <2>2. dt \in Nat
    BY DebounceAssumption
  <2>3. CASE presence.tag = NoTag /\ presence' = WithoutCandidate /\ outbox' = <<>>
    <3>1. presence'.noTags = 0 /\ presence'.tag = NoTag
      BY <1>0, <2>3 DEF WithoutCandidate, PresenceType, PresenceOK
    <3>2. QED
      BY <1>0, <2>3, <3>1
      DEF AbsenceInv, AbsenceBacked, AbsenceCounted, RemovedOnlyIfAbsent, Emits
  <2>4. CASE /\ presence.tag # NoTag /\ ~GoneLongEnough(dt) /\ outbox' = <<>>
             /\ presence' = [WithoutCandidate EXCEPT
                               !.noTags = AtMost(RemoveConfirmations, @ + 1),
                               !.noTagAge = AgeAfter(dt)]
    <3>1. /\ presence'.tag = presence.tag
          /\ presence'.noTags = AtMost(RemoveConfirmations, presence.noTags + 1)
          /\ presence'.noTagAge = AgeAfter(dt)
      BY <1>0, <2>4 DEF WithoutCandidate, PresenceType
    <3>2. PICK i \in 1..Len(log') :
            /\ AwayFrom(i)'
            /\ Len(log') - i + 1 >= presence.noTags + 1
            /\ Elapsed(i)' >= AgeAfter(dt)
      BY <2>1, <2>2, <2>4, AbsenceGrows
    <3>3. Len(log') \in Nat /\ presence.noTags \in Nat
          /\ RemoveConfirmations \in Nat
      BY <1>0, PresenceAssumption DEF IInv, TypeOK, PresenceType
    <3>4. Len(log') - i + 1 >= AtMost(RemoveConfirmations, presence.noTags + 1)
      BY <3>2, <3>3 DEF AtMost
    <3>5. AbsenceBacked'
      BY <3>1, <3>2, <3>4 DEF AbsenceBacked
    <3>6. \/ AtMost(RemoveConfirmations, presence.noTags + 1) < RemoveConfirmations
          \/ AgeAfter(dt) < RemoveDebounce
      <4>1. AgeAfter(dt) \in Int /\ RemoveDebounce \in Int
        BY <1>0, <2>2, PresenceAssumption DEF AgeAfter, AtMost, PresenceType
      <4>2. QED
        BY <2>4, <3>3, <4>1 DEF GoneLongEnough, AtMost
    <3>7. \A j \in 1..Len(log') : AwayFrom(j)' =>
             /\ AtMost(RemoveConfirmations, Len(log') - j + 1)
                  <= AtMost(RemoveConfirmations, presence.noTags + 1)
             /\ AtMost(RemoveDebounce, Elapsed(j)') <= AgeAfter(dt)
      BY <2>1, <2>2, <2>4, AbsenceGrows
    <3>8. AbsenceCounted'
      BY <3>1, <3>6, <3>7 DEF AbsenceCounted, AtMost
    <3>9. QED
      BY <1>0, <2>4, <3>5, <3>8 DEF AbsenceInv, RemovedOnlyIfAbsent, Emits
  <2>5. CASE presence.tag # NoTag /\ GoneLongEnough(dt) /\ ClearPresence
    <3>1. presence'.tag = NoTag /\ presence'.noTags = 0
      BY <2>5 DEF ClearPresence, NoPresence
    <3>2. PICK i \in 1..Len(log') :
            /\ AwayFrom(i)'
            /\ Len(log') - i + 1 >= presence.noTags + 1
            /\ Elapsed(i)' >= AgeAfter(dt)
      BY <2>1, <2>2, <2>5, AbsenceGrows
    <3>3. /\ Len(log') \in Nat /\ presence.noTags \in Nat
          /\ RemoveConfirmations \in Nat /\ RemoveDebounce \in Nat
          /\ AgeAfter(dt) \in Int
      BY <1>0, <2>2, PresenceAssumption
      DEF IInv, TypeOK, PresenceType, AgeAfter, AtMost
    <3>4. Elapsed(i)' \in Int
      <4>1. log' \in Seq(Results)
        BY <1>0 DEF IInv, TypeOK
      <4>2. Now' \in Nat /\ log'[i].at \in Nat
        BY <4>1 DEF Now, Results
      <4>3. QED
        BY <4>2 DEF Elapsed
    <3>5. /\ Len(log') - i + 1 >= RemoveConfirmations
          /\ Elapsed(i)' >= RemoveDebounce
      BY <2>5, <3>2, <3>3, <3>4 DEF GoneLongEnough
    <3>6. Absent'
      BY <3>2, <3>5 DEF Absent, AwayFrom
    <3>7. QED
      BY <1>0, <3>1, <3>6
      DEF AbsenceInv, AbsenceBacked, AbsenceCounted, RemovedOnlyIfAbsent
  <2>6. QED
    BY <2>1, <2>3, <2>4, <2>5 DEF ObserveNoTag
<1>3. CASE PollTag
  <2>1. PICK t \in Tags : Record("Tag", t, 0) /\ ObserveTag(t)
    BY <1>3 DEF PollTag
  <2>2. presence'.noTags = 0
    <3>1. CASE ObservePresentTag(t)
      BY <1>0, <3>1 DEF ObservePresentTag, WithoutCandidate, PresenceType
    <3>2. CASE ObserveCandidate(t)
      BY <1>0, <3>2 DEF ObserveCandidate, PresenceType
    <3>3. CASE ObserveConfirmed(t)
      BY <3>3 DEF ObserveConfirmed, NoPresence
    <3>4. QED
      BY <2>1, <3>1, <3>2, <3>3 DEF ObserveTag
  <2>3. AbsenceBacked' /\ AbsenceCounted'
    BY <1>0, <2>1, <2>2, AbsenceEnds
  <2>4. RemovedOnlyIfAbsent'
    <3>1. CASE ObservePresentTag(t) \/ ObserveCandidate(t)
      BY <3>1 DEF ObservePresentTag, ObserveCandidate, TagUpdated,
                  RemovedOnlyIfAbsent, Emits
    <3>2. CASE ObserveConfirmed(t)
      <4>1. outbox' = Removal \o <<TagPresented(presence.nextSession, t)>>
        BY <3>2 DEF ObserveConfirmed
      <4>2. \E i \in DOMAIN outbox' : outbox'[i].type = "TagPresented"
        <5>1. CASE presence.tag # NoTag
          <6>1. 2 \in DOMAIN outbox' /\ outbox'[2].type = "TagPresented"
            BY <4>1, <5>1 DEF Removal, TagPresented, TagRemoved
          <6>2. QED
            BY <6>1
        <5>2. CASE presence.tag = NoTag
          <6>1. 1 \in DOMAIN outbox' /\ outbox'[1].type = "TagPresented"
            BY <4>1, <5>2 DEF Removal, TagPresented
          <6>2. QED
            BY <6>1
        <5>3. QED
          BY <5>1, <5>2
      <4>3. QED
        BY <4>2 DEF RemovedOnlyIfAbsent, Emits
    <3>3. QED
      BY <2>1, <3>1, <3>2 DEF ObserveTag
  <2>5. QED
    BY <1>0, <2>3, <2>4 DEF AbsenceInv
<1>4. CASE Clear
  <2>1. presence'.noTags = 0
    BY <1>4 DEF Clear, ClearPresence, NoPresence
  <2>2. AbsenceBacked' /\ AbsenceCounted'
    BY <1>0, <1>4, <2>1, AbsenceEnds DEF Clear
  <2>3. Cleared'
    <3>1. /\ Len(log) \in Nat /\ Len(log') = Len(log) + 1
          /\ log'[Len(log) + 1].kind = "Cleared"
      BY <1>0, <1>4, RecordDoes DEF Clear
    <3>2. log' # <<>>
      BY <3>1
    <3>3. QED
      BY <3>1, <3>2 DEF Cleared
  <2>4. QED
    BY <1>0, <2>2, <2>3 DEF AbsenceInv, RemovedOnlyIfAbsent
<1>5. CASE UNCHANGED vars
  BY <1>0, <1>5 DEF vars, AbsenceInv, AbsenceBacked, AbsenceCounted, AwayFrom,
                    Elapsed, Now, RemovedOnlyIfAbsent, Emits, Absent, Cleared
<1>6. QED
  BY <1>1, <1>2, <1>3, <1>4, <1>5 DEF Next

LEMMA AbsenceStarts == Init => AbsenceInv
<1> SUFFICES ASSUME Init PROVE AbsenceInv
  OBVIOUS
<1>1. IInv
  BY InitInvariant
<1>2. AbsenceBacked /\ AbsenceCounted /\ RemovedOnlyIfAbsent
  BY DEF Init, NoPresence, AbsenceBacked, AbsenceCounted, RemovedOnlyIfAbsent,
         Emits
<1>3. QED
  BY <1>1, <1>2 DEF AbsenceInv

(* For all thresholds, and polls that come at any times: a tag is removed  *)
(* only by enough NoTag results in a row that span enough time, by another *)
(* tag confirmed in its place, or because the reader stopped scanning.     *)
THEOREM RemovalIsJustified == Spec => []RemovedOnlyIfAbsent
<1>1. AbsenceInv => RemovedOnlyIfAbsent
  BY DEF AbsenceInv
<1>2. QED
  BY <1>1, AbsenceStarts, AbsenceStep, PTL DEF Spec

-----------------------------------------------------------------------------
(* The filter misses nothing.                                              *)

(* Of a tag that is not present, no more sightings stand at the end of the *)
(* log than are counted for the candidate.                                 *)
CountedFor(id) ==
    IF presence.candidate # NoTag /\ presence.candidate.id = id
    THEN presence.confirmations ELSE 0

SightingsCounted ==
    \A id \in Identities : \A i \in 1..Len(log) :
        Unbroken(i, id) =>
            \/ presence.tag # NoTag /\ presence.tag.id = id
            \/ Cardinality(Sightings(i)) <= CountedFor(id)

PromptInv == AbsenceInv /\ SightingsCounted

LEMMA PromptStep == PromptInv /\ [Next]_vars => PromptInv'
<1> SUFFICES ASSUME PromptInv, [Next]_vars PROVE PromptInv'
  OBVIOUS
<1>0. /\ presence \in PresenceType /\ PresenceOK /\ log \in Seq(Results)
      /\ AbsenceInv' /\ SightingsCounted
  BY AbsenceStep DEF PromptInv, AbsenceInv, IInv, TypeOK
<1>1. SUFFICES ASSUME NEW id \in Identities, NEW i \in 1..Len(log'),
                      Unbroken(i, id)'
               PROVE  \/ presence'.tag # NoTag /\ presence'.tag.id = id
                      \/ Cardinality(Sightings(i)') <= CountedFor(id)'
  BY <1>0 DEF PromptInv, SightingsCounted
<1>2. CASE PollNothing
  <2>1. /\ Len(log) \in Nat /\ Len(log') = Len(log) + 1
        /\ \A k \in 1..Len(log) : log'[k] = log[k]
        /\ log'[Len(log) + 1].kind = "Nothing"
    BY <1>0, <1>2, RecordDoes DEF PollNothing
  <2>2. /\ presence'.tag = presence.tag
        /\ presence'.candidate = presence.candidate
        /\ presence'.confirmations = presence.confirmations
    BY <1>0, <1>2 DEF PollNothing, ObserveNothing, PresenceType
  <2>3. Sightings(i)' = Sightings(i)
    BY <2>1 DEF Sightings
  <2>4. CountedFor(id)' = CountedFor(id)
    BY <2>2 DEF CountedFor
  <2>5. CASE i \in 1..Len(log)
    <3>1. Unbroken(i, id)
      BY <1>1, <2>1, <2>5 DEF Unbroken
    <3>2. QED
      BY <1>0, <2>2, <2>3, <2>4, <2>5, <3>1 DEF SightingsCounted
  <2>6. CASE i = Len(log) + 1
    <3>1. Sightings(i) = {}
      BY <2>1, <2>6 DEF Sightings
    <3>2. CountedFor(id) \in Nat
      BY <1>0, PresenceAssumption DEF CountedFor, PresenceType
    <3>3. QED
      BY <2>3, <2>4, <3>1, <3>2, FS_EmptySet
  <2>7. QED
    BY <2>1, <2>5, <2>6
<1>3. CASE PollNoTag \/ Clear
  <2>1. /\ Len(log) \in Nat /\ Len(log') = Len(log) + 1
        /\ log'[Len(log) + 1].kind \in {"NoTag", "Cleared"}
    <3>1. CASE PollNoTag
      <4>1. PICK dt \in 0..MaxStep : Record("NoTag", NoTag, dt)
        BY <3>1 DEF PollNoTag
      <4>2. QED
        BY <1>0, <4>1, RecordDoes, DebounceAssumption
    <3>2. CASE Clear
      BY <1>0, <3>2, RecordDoes DEF Clear
    <3>3. QED
      BY <1>3, <3>1, <3>2
  <2>2. QED
    BY <1>1, <2>1 DEF Unbroken
<1>4. CASE PollTag
  <2>1. PICK t \in Tags : Record("Tag", t, 0) /\ ObserveTag(t)
    BY <1>4 DEF PollTag
  <2>2. t # NoTag
    BY <2>1, PresenceAssumption
  <2> DEFINE m == Len(log) + 1
  <2>3. /\ Len(log) \in Nat /\ Len(log') = m
        /\ \A k \in 1..Len(log) : log'[k] = log[k]
        /\ log'[m].kind = "Tag" /\ log'[m].tag = t
    BY <1>0, <2>1, RecordDoes
  <2>4. t.id = id
    BY <1>1, <2>3 DEF Unbroken
  <2>5. CASE ObservePresentTag(t)
    <3>1. presence'.tag = t
      BY <1>0, <2>5 DEF ObservePresentTag, WithoutCandidate, PresenceType
    <3>2. QED
      BY <2>2, <2>4, <3>1
  <2>6. CASE ObserveConfirmed(t)
    <3>1. presence'.tag = t
      BY <2>6 DEF ObserveConfirmed, NoPresence
    <3>2. QED
      BY <2>2, <2>4, <3>1
  <2>7. CASE ObserveCandidate(t)
    <3>1. /\ presence'.candidate = t /\ presence'.confirmations = Confirmations(t)
          /\ ~SameIdentity(presence.tag, t)
      BY <1>0, <2>7 DEF ObserveCandidate, PresenceType
    <3>2. CountedFor(id)' = Confirmations(t)
      BY <2>2, <2>4, <3>1 DEF CountedFor
    <3>3. Confirmations(t) = CountedFor(id) + 1 /\ CountedFor(id) \in Nat
      BY <1>0, <2>2, <2>4, PresenceAssumption
      DEF Confirmations, SameIdentity, CountedFor, PresenceType
    <3>4. Sightings(i)' = Sightings(i) \cup {m}
      BY <2>3 DEF Sightings
    <3>a. i \in Nat
      BY <2>3
    <3>5. m \notin Sightings(i) /\ IsFiniteSet(Sightings(i))
          /\ Cardinality(Sightings(i)) \in Nat
      <4>1. m \notin Sightings(i)
        BY <2>3 DEF Sightings
      <4>2. QED
        BY <1>0, <3>a, <4>1, SightingsFinite
    <3>6. Cardinality(Sightings(i)') = Cardinality(Sightings(i)) + 1
      BY <3>4, <3>5, FS_AddElement
    <3>7. Cardinality(Sightings(i)) <= CountedFor(id)
      <4>1. CASE i = m
        <5>1. Sightings(i) = {}
          BY <2>3, <4>1 DEF Sightings
        <5>2. QED
          BY <3>3, <5>1, FS_EmptySet
      <4>2. CASE i \in 1..Len(log)
        <5>1. Unbroken(i, id)
          BY <1>1, <2>3, <4>2 DEF Unbroken
        <5>2. ~(presence.tag # NoTag /\ presence.tag.id = id)
          BY <2>2, <2>4, <3>1 DEF SameIdentity
        <5>3. QED
          BY <1>0, <4>2, <5>1, <5>2 DEF SightingsCounted
      <4>3. QED
        BY <2>3, <4>1, <4>2
    <3>8. QED
      BY <3>2, <3>3, <3>5, <3>6, <3>7
  <2>8. QED
    BY <2>1, <2>5, <2>6, <2>7 DEF ObserveTag
<1>5. CASE UNCHANGED vars
  BY <1>0, <1>1, <1>5
  DEF vars, SightingsCounted, Unbroken, Sightings, CountedFor
<1>6. QED
  BY <1>2, <1>3, <1>4, <1>5 DEF Next

LEMMA PromptIsEnough == PromptInv => FilterIsPrompt
<1> SUFFICES ASSUME PromptInv PROVE FilterIsPrompt
  OBVIOUS
<1>0. presence \in PresenceType /\ log \in Seq(Results)
  BY DEF PromptInv, AbsenceInv, IInv, TypeOK
<1>1. ASSUME NEW id \in Identities, Agreed(id)
      PROVE  presence.tag # NoTag /\ presence.tag.id = id
  <2>1. PICK i \in 1..Len(log) :
          /\ Unbroken(i, id)
          /\ Cardinality(Sightings(i)) >= PresentConfirmations
    BY <1>1 DEF Agreed
  <2>2. CountedFor(id) \in Int /\ CountedFor(id) < PresentConfirmations
    BY <1>0, PresenceAssumption DEF CountedFor, PresenceType
  <2>3. Cardinality(Sightings(i)) \in Nat
    BY <1>0, SightingsFinite
  <2>4. ~(Cardinality(Sightings(i)) <= CountedFor(id))
    BY <2>1, <2>2, <2>3, PresenceAssumption
  <2>5. QED
    BY <2>1, <2>4 DEF PromptInv, SightingsCounted
<1>2. ASSUME Absent PROVE presence.tag = NoTag
  <2>1. PICK i \in 1..Len(log) :
          /\ AwayFrom(i)
          /\ Len(log) - i + 1 >= RemoveConfirmations
          /\ Elapsed(i) >= RemoveDebounce
    BY <1>2 DEF Absent, AwayFrom
  <2>2. /\ presence.noTags \in Nat /\ presence.noTagAge \in Nat
        /\ RemoveConfirmations \in Nat /\ RemoveDebounce \in Nat
        /\ Len(log) - i + 1 \in Int
    BY <1>0, PresenceAssumption DEF PresenceType
  <2>3. Elapsed(i) \in Int
    BY <1>0 DEF Elapsed, Now, Results
  <2>4. PICK e \in Int : e = Elapsed(i)
    BY <2>3
  <2>5. /\ AtMost(RemoveConfirmations, Len(log) - i + 1) = RemoveConfirmations
        /\ AtMost(RemoveDebounce, e) = RemoveDebounce
    BY <2>1, <2>2, <2>4 DEF AtMost
  <2>6. SUFFICES ASSUME presence.tag # NoTag PROVE FALSE
    OBVIOUS
  <2>7. /\ RemoveConfirmations <= presence.noTags
        /\ RemoveDebounce <= presence.noTagAge
        /\ \/ presence.noTags < RemoveConfirmations
           \/ presence.noTagAge < RemoveDebounce
    BY <2>1, <2>4, <2>5, <2>6 DEF PromptInv, AbsenceInv, AbsenceCounted
  <2>8. QED
    BY <2>2, <2>7
<1>3. QED
  BY <1>1, <1>2 DEF FilterIsPrompt

(* For all thresholds, and polls that come at any times: as soon as the    *)
(* results agree on a tag it is the present one, and as soon as they say   *)
(* long enough that it is away it is not.                                  *)
THEOREM FilterMissesNothing == Spec => []FilterIsPrompt
<1>1. Init => PromptInv
  BY AbsenceStarts DEF Init, PromptInv, SightingsCounted
<1>2. QED
  BY <1>1, PromptStep, PromptIsEnough, PTL DEF Spec

-----------------------------------------------------------------------------
(* The event queue.                                                        *)

(* Queued events e carry the numbers and types of their pushes p, in the   *)
(* order of the pushes.                                                    *)
InOrder(e, p) ==
    \A i \in 1..Len(e) :
        /\ e[i].number \in 1..Len(p)
        /\ p[e[i].number] = e[i].type
        /\ \A j \in 1..(i - 1) : e[j].number < e[i].number

(* Whether event n is among the delivered ones r or the queued ones e.     *)
Kept(n, r, e) ==
    \/ \E i \in 1..Len(r) : r[i] = n
    \/ \E i \in 1..Len(e) : e[i].number = n

(* The events after number n, of those pushed, that must be kept.          *)
Later(n, p) == {m \in (n + 1)..Len(p) : p[m] = "State"}

(* OnlyOldEventsLost of given sequences, without a lost event's number     *)
(* having to be looked for in their concatenation.                         *)
OldLost(r, e, p) ==
    \A n \in 1..Len(p) :
        p[n] = "State" /\ ~Kept(n, r, e)
          => Cardinality(Later(n, p)) >= EventCapacity

DeliveryInv ==
    /\ Accounted
    /\ InOrder(queue.events, pushed)
    /\ OldLost(received, queue.events, pushed)

-----------------------------------------------------------------------------
(* Erasing one event of a queue leaves a queue that is one shorter.        *)
LEMMA WithoutType ==
    ASSUME NEW S, NEW s \in Seq(S), NEW k \in 1..Len(s)
    PROVE  /\ Without(s, k) \in Seq(S)
           /\ Len(Without(s, k)) = Len(s) - 1
           /\ \A i \in 1..(Len(s) - 1) :
                 Without(s, k)[i] = IF i < k THEN s[i] ELSE s[i + 1]
<1> DEFINE w == [i \in 1..(Len(s) - 1) |-> IF i < k THEN s[i] ELSE s[i + 1]]
<1>1. Len(s) \in Nat /\ Len(s) - 1 \in Nat
  OBVIOUS
<1>2. \A i \in 1..(Len(s) - 1) : w[i] \in S
  OBVIOUS
<1>3. w \in [1..(Len(s) - 1) -> S]
  BY <1>2
<1>4. w \in Seq(S) /\ Len(w) = Len(s) - 1
  BY <1>1, <1>3
<1> QED  BY <1>4 DEF Without

(* A set of numbers has a least one.                                       *)
LEMMA LeastOf ==
    ASSUME NEW D, D \subseteq Nat, D # {}
    PROVE  \E i \in D : \A j \in D : i <= j
<1> DEFINE R == OpToRel(<, Nat)
<1>1. IsWellFoundedOn(R, Nat)
  BY NatLessThanWellFounded
<1>2. \A x, y \in Nat : x < y => <<x, y>> \in R
  BY DEF OpToRel
<1> HIDE DEF R
<1>3. \E i \in D : \A j \in D : <<j, i>> \notin R
  BY <1>1, WFMin
<1>4. PICK i \in D : \A j \in D : <<j, i>> \notin R
  BY <1>3
<1>5. \A j \in D : ~(j < i)
  BY <1>2, <1>4
<1> QED  BY <1>5

(* The event that makes room is one of the queued ones, and one that must  *)
(* be kept only if every queued one must be kept; then it is the oldest.   *)
LEMMA VictimIsQueued ==
    ASSUME NEW q, q.events \in Seq(Events), q.events # <<>>
    PROVE  /\ Victim(q) \in 1..Len(q.events)
           /\ q.events[Victim(q)].type = "State"
                => /\ Victim(q) = 1
                   /\ \A i \in 1..Len(q.events) : q.events[i].type = "State"
<1>1. ASSUME NEW i \in 1..Len(q.events)
      PROVE  /\ q.events[i].type \in Types
             /\ IsDroppable(q.events[i]) <=> q.events[i].type # "State"
  <2>1. q.events[i] \in Events
    OBVIOUS
  <2> QED  BY <2>1 DEF Events, Types, IsDroppable
<1>2. CASE Droppable(q) = {}
  <2>1. Victim(q) = 1
    BY <1>2 DEF Victim
  <2>2. \A i \in 1..Len(q.events) : q.events[i].type = "State"
    BY <1>1, <1>2 DEF Droppable
  <2> QED  BY <2>1, <2>2
<1>3. CASE Droppable(q) # {}
  <2>1. Droppable(q) \subseteq Nat
    BY DEF Droppable
  <2>2. \E i \in Droppable(q) : \A j \in Droppable(q) : i <= j
    BY <1>3, <2>1, LeastOf
  <2>3. Victim(q) \in Droppable(q)
    BY <1>3, <2>2 DEF Victim
  <2>4. Victim(q) \in 1..Len(q.events) /\ IsDroppable(q.events[Victim(q)])
    BY <2>3 DEF Droppable
  <2> QED  BY <1>1, <2>4
<1> QED  BY <1>2, <1>3

(* An event is lost when it was pushed and is in neither place.            *)
LEMMA LostMeans ==
    ASSUME NEW r \in Seq(Nat), NEW e \in Seq(Events), NEW p
    PROVE  LET N == r \o [i \in 1..Len(e) |-> e[i].number]
           IN  (1..Len(p)) \ {N[i] : i \in 1..Len(N)}
                 = {n \in 1..Len(p) : ~Kept(n, r, e)}
<1> DEFINE t == [i \in 1..Len(e) |-> e[i].number]
           N == r \o t
<1>1. Len(e) \in Nat /\ Len(r) \in Nat
  OBVIOUS
<1>2. t \in Seq(Nat) /\ Len(t) = Len(e)
  <2>1. \A i \in 1..Len(e) : e[i].number \in Nat
    <3>1. \A i \in 1..Len(e) : e[i] \in Events
      OBVIOUS
    <3> QED  BY <3>1, MaxPushesAssumption DEF Events
  <2>2. t \in [1..Len(e) -> Nat]
    BY <2>1
  <2> QED  BY <1>1, <2>2
<1>3. /\ Len(N) = Len(r) + Len(e)
      /\ \A i \in 1..Len(r) : N[i] = r[i]
      /\ \A i \in 1..Len(e) : N[i + Len(r)] = t[i]
  BY <1>1, <1>2
<1>4. \A i \in 1..Len(e) : t[i] = e[i].number
  OBVIOUS
<1>5. ASSUME NEW n
      PROVE  (\E i \in 1..Len(N) : N[i] = n) <=> Kept(n, r, e)
  <2> HIDE DEF t, N
  <2>1. ASSUME NEW i \in 1..Len(N), N[i] = n
        PROVE  Kept(n, r, e)
    <3>1. CASE i <= Len(r)
      BY <1>1, <1>3, <2>1, <3>1 DEF Kept
    <3>2. CASE i > Len(r)
      <4>1. i - Len(r) \in 1..Len(e) /\ i = (i - Len(r)) + Len(r)
        BY <1>1, <1>3, <3>2
      <4>2. e[i - Len(r)].number = n
        BY <1>3, <1>4, <2>1, <4>1
      <4> QED  BY <4>1, <4>2 DEF Kept
    <3> QED  BY <1>1, <1>3, <3>1, <3>2
  <2>2. ASSUME NEW i \in 1..Len(r), r[i] = n
        PROVE  \E j \in 1..Len(N) : N[j] = n
    <3>1. i \in 1..Len(N)
      BY <1>1, <1>3
    <3> QED  BY <1>3, <2>2, <3>1
  <2>3. ASSUME NEW i \in 1..Len(e), e[i].number = n
        PROVE  \E j \in 1..Len(N) : N[j] = n
    <3>1. i + Len(r) \in 1..Len(N)
      BY <1>1, <1>3
    <3> QED  BY <1>3, <1>4, <2>3, <3>1
  <2> QED  BY <2>1, <2>2, <2>3 DEF Kept
<1> QED  BY <1>5

-----------------------------------------------------------------------------
(* A further push only adds to them.                                       *)
LEMMA LaterGrows ==
    ASSUME NEW p \in Seq(Types), NEW type \in Types, NEW n \in 1..Len(p)
    PROVE  /\ IsFiniteSet(Later(n, p))
           /\ Cardinality(Later(n, p)) \in Nat
           /\ Cardinality(Later(n, Append(p, type))) \in Nat
           /\ Cardinality(Later(n, p))
                <= Cardinality(Later(n, Append(p, type)))
<1> DEFINE S == Later(n, p)
           T == Later(n, Append(p, type))
<1>1. Len(p) \in Nat /\ Len(Append(p, type)) = Len(p) + 1
  OBVIOUS
<1>2. IsFiniteSet((n + 1)..(Len(p) + 1))
  BY <1>1, FS_Interval
<1>3. T \subseteq (n + 1)..(Len(p) + 1)
  BY <1>1 DEF Later
<1>4. S \subseteq T
  BY <1>1 DEF Later
<1>5. IsFiniteSet(T)
  BY <1>2, <1>3, FS_Subset
<1>6. IsFiniteSet(S) /\ Cardinality(S) <= Cardinality(T)
  BY <1>4, <1>5, FS_Subset
<1> QED  BY <1>5, <1>6, FS_CardinalityType

(* When the oldest of a full queue of events that must be kept makes room  *)
(* for another, a queue's worth of later ones exists.                      *)
LEMMA QueuesWorth ==
    ASSUME NEW e \in Seq(Events), Len(e) = EventCapacity,
           NEW p \in Seq(Types),
           \A i \in 1..Len(e) :
              /\ e[i].number \in 1..Len(p)
              /\ p[e[i].number] = "State"
              /\ \A j \in 1..(i - 1) : e[j].number < e[i].number
    PROVE  Cardinality(Later(e[1].number, Append(p, "State")))
             >= EventCapacity
<1> DEFINE p2 == Append(p, "State")
           S == Later(e[1].number, p2)
           f == [i \in 1..EventCapacity |->
                   IF i < EventCapacity THEN e[i + 1].number ELSE Len(p) + 1]
<1>1. /\ EventCapacity \in Nat /\ EventCapacity >= 1
      /\ Len(p) \in Nat /\ Len(p2) = Len(p) + 1
      /\ p2[Len(p) + 1] = "State"
      /\ \A m \in 1..Len(p) : p2[m] = p[m]
  BY EventCapacityAssumption
<1>2. e[1].number \in 1..Len(p)
  BY <1>1
<1>3. \A i \in 1..EventCapacity : f[i] \in S
  <2>1. ASSUME NEW i \in 1..EventCapacity, i < EventCapacity
        PROVE  f[i] \in S
    <3>1. i + 1 \in 1..Len(e) /\ 1 \in 1..((i + 1) - 1)
      BY <1>1, <2>1
    <3>2. /\ f[i] = e[i + 1].number
          /\ e[i + 1].number \in 1..Len(p)
          /\ p[e[i + 1].number] = "State"
          /\ e[1].number < e[i + 1].number
      BY <2>1, <3>1
    <3>3. f[i] \in (e[1].number + 1)..Len(p2) /\ p2[f[i]] = "State"
      BY <1>1, <1>2, <3>2
    <3> QED  BY <3>3 DEF Later
  <2>2. f[EventCapacity] \in S
    <3>1. f[EventCapacity] = Len(p) + 1
      BY <1>1
    <3>2. Len(p) + 1 \in (e[1].number + 1)..Len(p2)
      BY <1>1, <1>2
    <3> HIDE DEF f
    <3> QED  BY <1>1, <3>1, <3>2 DEF Later
  <2> HIDE DEF f, S
  <2> QED  BY <1>1, <2>1, <2>2
<1>4. ASSUME NEW i \in 1..EventCapacity, NEW j \in 1..EventCapacity, i < j
      PROVE  f[i] # f[j]
  <2>1. f[i] = e[i + 1].number /\ e[i + 1].number \in 1..Len(p)
    <3>1. i < EventCapacity /\ i + 1 \in 1..Len(e)
      BY <1>1, <1>4
    <3> QED  BY <3>1
  <2>2. CASE j = EventCapacity
    BY <1>1, <2>1, <2>2
  <2>3. CASE j < EventCapacity
    <3>1. i + 1 \in 1..((j + 1) - 1) /\ j + 1 \in 1..Len(e)
      BY <1>1, <1>4, <2>3
    <3>2. f[j] = e[j + 1].number /\ e[j + 1].number \in 1..Len(p)
      BY <2>3, <3>1
    <3>3. e[i + 1].number < e[j + 1].number
      BY <3>1
    <3> QED  BY <2>1, <3>2, <3>3
  <2> QED  BY <1>1, <2>2, <2>3
<1>5. f \in Injection(1..EventCapacity, S)
  <2>1. f \in [1..EventCapacity -> S]
    BY <1>3
  <2>2. \A i, j \in 1..EventCapacity : f[i] = f[j] => i = j
    <3> HIDE DEF f
    <3> QED  BY <1>1, <1>4
  <2> HIDE DEF f, S
  <2> QED  BY <2>1, <2>2 DEF Injection, IsInjective
<1>6. IsFiniteSet(S)
  <2>1. IsFiniteSet((e[1].number + 1)..Len(p2))
    <3>1. e[1].number + 1 \in Int /\ Len(p2) \in Int
      BY <1>1, <1>2
    <3> HIDE DEF p2
    <3> QED  BY <3>1, FS_Interval
  <2>2. S \subseteq (e[1].number + 1)..Len(p2)
    BY DEF Later
  <2> HIDE DEF S
  <2> QED  BY <2>1, <2>2, FS_Subset
<1>7. Cardinality(1..EventCapacity) = EventCapacity
  BY <1>1, FS_Interval
<1>8. Cardinality(1..EventCapacity) <= Cardinality(S)
  <2> HIDE DEF f, S
  <2> QED  BY <1>5, <1>6, FS_Injection
<1>9. Cardinality(S) \in Nat
  BY <1>6, FS_CardinalityType
<1> HIDE DEF S
<1>10. Cardinality(S) >= EventCapacity
  BY <1>1, <1>7, <1>8, <1>9
<1> QED  BY <1>10 DEF S

-----------------------------------------------------------------------------
(* What a push leaves in the queue.                                        *)
LEMMA PushLeaves ==
    ASSUME DeliveryInv, NEW type \in Types, Len(pushed) < MaxPushes,
           NEW e, e = Event(Len(pushed) + 1, type)
    PROVE  LET q == PushEvent(queue, e) IN
           /\ q.events \in Seq(Events)
           /\ Len(q.events) <= EventCapacity
           /\ q.dropped \in Nat
           /\ q = [events |-> q.events, dropped |-> q.dropped]
           /\ Len(q.events) + q.dropped = Len(queue.events) + queue.dropped + 1
           /\ \/ q.events = Append(queue.events, e)
              \/ q.events = queue.events /\ type # "State"
              \/ /\ Len(queue.events) = EventCapacity
                 /\ q.events = Append(Without(queue.events, Victim(queue)), e)
                 /\ type = "State"
<1>1. /\ queue.events \in Seq(Events) /\ Len(queue.events) <= EventCapacity
      /\ queue.dropped \in Nat /\ Len(queue.events) \in Nat
      /\ EventCapacity \in Nat /\ EventCapacity >= 1
  BY EventCapacityAssumption DEF DeliveryInv, Accounted, DeliveryTypeOK
<1>2. e \in Events /\ e.type = type
  BY MaxPushesAssumption DEF Event, Events, DeliveryInv, Accounted, DeliveryTypeOK
<1>3. IsDroppable(e) <=> type # "State"
  BY <1>2 DEF IsDroppable, Types
<1>4. CASE ~IsFull(queue)
  <2>1. PushEvent(queue, e) = [events |-> Append(queue.events, e),
                               dropped |-> queue.dropped]
    BY <1>4 DEF PushEvent
  <2>2. /\ Append(queue.events, e) \in Seq(Events)
        /\ Len(Append(queue.events, e)) = Len(queue.events) + 1
        /\ Len(queue.events) + 1 <= EventCapacity
    BY <1>1, <1>2, <1>4 DEF IsFull
  <2> DEFINE a == Append(queue.events, e)
             q == PushEvent(queue, e)
  <2>3. /\ q.events = a /\ q.dropped = queue.dropped
        /\ q = [events |-> q.events, dropped |-> q.dropped]
    BY <2>1
  <2> HIDE DEF q
  <2>4. /\ q.events \in Seq(Events) /\ Len(q.events) <= EventCapacity
        /\ q.dropped \in Nat
        /\ Len(q.events) + q.dropped
             = Len(queue.events) + queue.dropped + 1
    BY <1>1, <2>2, <2>3
  <2> QED  BY <2>3, <2>4 DEF q
<1>5. CASE IsFull(queue) /\ IsDroppable(e)
  BY <1>1, <1>3, <1>5 DEF PushEvent
<1>6. CASE IsFull(queue) /\ ~IsDroppable(e)
  <2>1. Len(queue.events) = EventCapacity /\ queue.events # <<>>
    BY <1>1, <1>6 DEF IsFull
  <2>2. Victim(queue) \in 1..Len(queue.events)
    BY <1>1, <2>1, VictimIsQueued
  <2> DEFINE w == Without(queue.events, Victim(queue))
  <2>3. w \in Seq(Events) /\ Len(w) = Len(queue.events) - 1
    BY <1>1, <2>2, WithoutType
  <2>4. PushEvent(queue, e) = [events |-> Append(w, e),
                               dropped |-> queue.dropped + 1]
    BY <1>6 DEF PushEvent
  <2> HIDE DEF w
  <2>5. Append(w, e) \in Seq(Events) /\ Len(Append(w, e)) = EventCapacity
    BY <1>1, <1>2, <2>1, <2>3
  <2>6. type = "State"
    BY <1>3, <1>6
  <2> DEFINE q == PushEvent(queue, e)
  <2>7. /\ q.events = Append(w, e) /\ q.dropped = queue.dropped + 1
        /\ q = [events |-> q.events, dropped |-> q.dropped]
    BY <2>4
  <2> HIDE DEF q
  <2>8. /\ q.events \in Seq(Events) /\ Len(q.events) = EventCapacity
        /\ q.dropped \in Nat
        /\ Len(q.events) + q.dropped
             = Len(queue.events) + queue.dropped + 1
    BY <1>1, <2>1, <2>5, <2>7
  <2> QED  BY <1>1, <2>1, <2>6, <2>7, <2>8 DEF w, q
<1> QED  BY <1>4, <1>5, <1>6

(* A queue in the order of the pushes stays so when the next push is       *)
(* appended, and an erased event leaves the others in order.               *)
LEMMA AppendInOrder ==
    ASSUME NEW e \in Seq(Events), NEW p \in Seq(Types), NEW type \in Types,
           InOrder(e, p),
           NEW x \in Events, x = Event(Len(p) + 1, type)
    PROVE  InOrder(Append(e, x), Append(p, type))
<1> DEFINE e2 == Append(e, x)
           p2 == Append(p, type)
<1>1. /\ Len(e) \in Nat /\ Len(p) \in Nat
      /\ Len(e2) = Len(e) + 1 /\ Len(p2) = Len(p) + 1
      /\ \A i \in 1..Len(e) : e2[i] = e[i]
      /\ \A m \in 1..Len(p) : p2[m] = p[m]
      /\ e2[Len(e) + 1] = x /\ p2[Len(p) + 1] = type
  OBVIOUS
<1>2. x.number = Len(p) + 1 /\ x.type = type
  BY DEF Event
<1> HIDE DEF e2, p2
<1> SUFFICES ASSUME NEW i \in 1..Len(e2)
             PROVE  /\ e2[i].number \in 1..Len(p2)
                    /\ p2[e2[i].number] = e2[i].type
                    /\ \A j \in 1..(i - 1) : e2[j].number < e2[i].number
  BY DEF e2, p2, InOrder
<1>3. CASE i \in 1..Len(e)
  <2>1. /\ e2[i] = e[i] /\ e[i].number \in 1..Len(p)
        /\ p2[e[i].number] = e[i].type
    BY <1>1, <1>3 DEF InOrder
  <2>2. ASSUME NEW j \in 1..(i - 1)
        PROVE  e2[j].number < e2[i].number
    <3>1. j \in 1..Len(e)
      BY <1>1, <1>3
    <3> QED  BY <1>1, <1>3, <2>1, <3>1 DEF InOrder
  <2> QED  BY <1>1, <2>1, <2>2
<1>4. CASE i = Len(e) + 1
  <2>1. e2[i].number = Len(p) + 1 /\ e2[i].type = type
    BY <1>1, <1>2, <1>4
  <2>2. ASSUME NEW j \in 1..(i - 1)
        PROVE  e2[j].number < e2[i].number
    <3>1. j \in 1..Len(e) /\ e2[j] = e[j] /\ e[j].number \in 1..Len(p)
      BY <1>1, <1>4 DEF InOrder
    <3> QED  BY <1>1, <2>1, <3>1
  <2> QED  BY <1>1, <2>1, <2>2
<1> QED  BY <1>1, <1>3, <1>4

LEMMA WithoutInOrder ==
    ASSUME NEW e \in Seq(Events), NEW p \in Seq(Types), NEW k \in 1..Len(e),
           InOrder(e, p)
    PROVE  InOrder(Without(e, k), p)
<1> DEFINE w == Without(e, k)
           o(i) == IF i < k THEN i ELSE i + 1
<1>1. /\ Len(e) \in Nat /\ Len(w) = Len(e) - 1
      /\ \A i \in 1..Len(w) : w[i] = e[o(i)] /\ o(i) \in 1..Len(e)
  <2>1. /\ Len(w) = Len(e) - 1
        /\ \A i \in 1..(Len(e) - 1) :
              w[i] = IF i < k THEN e[i] ELSE e[i + 1]
    BY WithoutType
  <2> HIDE DEF w
  <2> QED  BY <2>1
<1>2. \A i \in 1..Len(w) : \A j \in 1..(i - 1) :
          j \in 1..Len(w) /\ o(j) \in 1..(o(i) - 1)
  BY <1>1
<1> HIDE DEF w, o
<1> QED  BY <1>1, <1>2 DEF w, InOrder

(* What was lost before a push still has its later ones.                   *)
LEMMA OldLostStays ==
    ASSUME NEW r, NEW e, NEW p \in Seq(Types), NEW type \in Types,
           OldLost(r, e, p),
           NEW n \in 1..Len(p), p[n] = "State", ~Kept(n, r, e)
    PROVE  Cardinality(Later(n, Append(p, type))) >= EventCapacity
<1>1. Cardinality(Later(n, p)) >= EventCapacity
  BY DEF OldLost
<1>2. /\ Cardinality(Later(n, p)) \in Nat
      /\ Cardinality(Later(n, Append(p, type))) \in Nat
      /\ Cardinality(Later(n, p)) <= Cardinality(Later(n, Append(p, type)))
  BY LaterGrows
<1> QED  BY <1>1, <1>2, EventCapacityAssumption

(* What is lost when x is appended to a queue was lost before.             *)
LEMMA AppendLosesNothing ==
    ASSUME NEW r, NEW e \in Seq(Events), NEW p \in Seq(Types),
           NEW type \in Types, OldLost(r, e, p),
           NEW x \in Events, x = Event(Len(p) + 1, type)
    PROVE  OldLost(r, Append(e, x), Append(p, type))
<1> DEFINE e2 == Append(e, x)
           p2 == Append(p, type)
<1>1. /\ Len(e) \in Nat /\ Len(p) \in Nat
      /\ Len(e2) = Len(e) + 1 /\ Len(p2) = Len(p) + 1
      /\ \A i \in 1..Len(e) : e2[i] = e[i]
      /\ \A m \in 1..Len(p) : p2[m] = p[m]
      /\ e2[Len(e) + 1] = x
  OBVIOUS
<1>2. x.number = Len(p) + 1
  BY DEF Event
<1> SUFFICES ASSUME NEW n \in 1..Len(p2), p2[n] = "State", ~Kept(n, r, e2)
             PROVE  Cardinality(Later(n, p2)) >= EventCapacity
  BY DEF OldLost
<1> HIDE DEF e2, p2
<1>3. n # Len(p) + 1
  BY <1>1, <1>2 DEF Kept
<1>4. n \in 1..Len(p) /\ p[n] = "State"
  BY <1>1, <1>3
<1>5. ~Kept(n, r, e)
  <2>1. \A i \in 1..Len(e) : i \in 1..Len(e2)
    BY <1>1
  <2> QED  BY <1>1, <2>1 DEF Kept
<1> QED  BY <1>4, <1>5, OldLostStays DEF p2

(* What is lost when a full queue refuses an update was lost before, or is *)
(* the update.                                                             *)
LEMMA RefusalLosesUpdate ==
    ASSUME NEW r, NEW e, NEW p \in Seq(Types), NEW type \in Types,
           type # "State", OldLost(r, e, p)
    PROVE  OldLost(r, e, Append(p, type))
<1> DEFINE p2 == Append(p, type)
<1>1. /\ Len(p) \in Nat /\ Len(p2) = Len(p) + 1
      /\ \A m \in 1..Len(p) : p2[m] = p[m]
      /\ p2[Len(p) + 1] = type
  OBVIOUS
<1> SUFFICES ASSUME NEW n \in 1..Len(p2), p2[n] = "State", ~Kept(n, r, e)
             PROVE  Cardinality(Later(n, p2)) >= EventCapacity
  BY DEF OldLost
<1> HIDE DEF p2
<1>2. n \in 1..Len(p) /\ p[n] = "State"
  BY <1>1
<1> QED  BY <1>2, OldLostStays DEF p2

(* What is lost when event k of a full queue is erased was lost before, or *)
(* is k: if k is the oldest of events that all must be kept, a queue's     *)
(* worth of later ones is queued.                                          *)
LEMMA ErasureLosesOldest ==
    ASSUME NEW r, NEW e \in Seq(Events), Len(e) = EventCapacity,
           NEW p \in Seq(Types), InOrder(e, p), OldLost(r, e, p),
           NEW k \in 1..Len(e),
           e[k].type = "State"
             => k = 1 /\ \A i \in 1..Len(e) : e[i].type = "State",
           NEW x \in Events, x = Event(Len(p) + 1, "State")
    PROVE  OldLost(r, Append(Without(e, k), x), Append(p, "State"))
<1> DEFINE w == Without(e, k)
           e2 == Append(w, x)
           p2 == Append(p, "State")
<1>1. /\ w \in Seq(Events) /\ Len(w) = Len(e) - 1
      /\ \A i \in 1..(Len(e) - 1) : w[i] = IF i < k THEN e[i] ELSE e[i + 1]
  BY WithoutType
<1> HIDE DEF w
<1>2. /\ Len(e) \in Nat /\ Len(p) \in Nat /\ Len(w) \in Nat
      /\ Len(e2) = Len(w) + 1 /\ Len(p2) = Len(p) + 1
      /\ \A i \in 1..Len(w) : e2[i] = w[i]
      /\ \A m \in 1..Len(p) : p2[m] = p[m]
      /\ e2[Len(w) + 1] = x
  <2>1. w \in Seq(Events)
    BY <1>1
  <2>2. /\ Len(w) \in Nat /\ Len(e2) = Len(w) + 1
        /\ \A i \in 1..Len(w) : e2[i] = w[i]
        /\ e2[Len(w) + 1] = x
    BY <2>1
  <2>3. /\ Len(e) \in Nat /\ Len(p) \in Nat /\ Len(p2) = Len(p) + 1
        /\ \A m \in 1..Len(p) : p2[m] = p[m]
    OBVIOUS
  <2>4. QED
    BY <2>2, <2>3
<1>3. x.number = Len(p) + 1
  BY DEF Event
<1> SUFFICES ASSUME NEW n \in 1..Len(p2), p2[n] = "State", ~Kept(n, r, e2)
             PROVE  Cardinality(Later(n, p2)) >= EventCapacity
  BY DEF OldLost, w
<1> HIDE DEF e2, p2
<1>4. n # Len(p) + 1
  BY <1>2, <1>3 DEF Kept
<1>5. n \in 1..Len(p) /\ p[n] = "State"
  BY <1>2, <1>4
<1>6. CASE ~Kept(n, r, e)
  BY <1>5, <1>6, OldLostStays, "State" \in Types DEF p2, Types
<1>7. CASE Kept(n, r, e)
  <2>1. PICK i \in 1..Len(e) : e[i].number = n
    BY <1>7 DEF Kept
  <2>2. \A j \in 1..Len(w) : w[j].number # n
    <3>1. \A j \in 1..Len(w) : j \in 1..Len(e2)
      BY <1>2
    <3> QED  BY <1>2, <3>1 DEF Kept
  <2>3. ~(i < k)
    <3>1. i < k => i \in 1..Len(w) /\ w[i] = e[i]
      BY <1>1, <1>2
    <3> QED  BY <2>1, <2>2, <3>1
  <2>4. ~(i > k)
    <3>1. i > k => i - 1 \in 1..Len(w) /\ w[i - 1] = e[i]
      BY <1>1, <1>2
    <3> QED  BY <2>1, <2>2, <3>1
  <2>5. i = k
    BY <1>2, <2>3, <2>4
  <2>6. e[k].type = "State"
    BY <1>5, <2>1, <2>5 DEF InOrder
  <2>7. /\ n = e[1].number
        /\ \A j \in 1..Len(e) : e[j].type = "State"
    BY <2>1, <2>5, <2>6
  <2>8. \A j \in 1..Len(e) :
           /\ e[j].number \in 1..Len(p)
           /\ p[e[j].number] = "State"
           /\ \A l \in 1..(j - 1) : e[l].number < e[j].number
    BY <2>7 DEF InOrder
  <2> QED  BY <2>7, <2>8, QueuesWorth DEF p2
<1> QED  BY <1>6, <1>7

-----------------------------------------------------------------------------
(* What happens to the queue is enough for the property: OldLost says of   *)
(* the three sequences what OnlyOldEventsLost says of the state.           *)
LEMMA InvImpliesProperties ==
    DeliveryInv => Accounted /\ OnlyOldEventsLost
<1> SUFFICES ASSUME DeliveryInv
             PROVE  OnlyOldEventsLost
  BY DEF DeliveryInv
<1>1. /\ queue.events \in Seq(Events) /\ received \in Seq(Nat)
      /\ OldLost(received, queue.events, pushed)
  <2>1. queue.events \in Seq(Events) /\ received \in Seq(1..MaxPushes)
    BY DEF DeliveryInv, Accounted, DeliveryTypeOK
  <2>2. \A i \in 1..Len(received) : received[i] \in Nat
    BY <2>1, MaxPushesAssumption
  <2>3. received \in Seq(Nat)
    BY <2>1, <2>2
  <2> QED  BY <2>1, <2>3 DEF DeliveryInv
<1>2. Lost = {n \in 1..Len(pushed) : ~Kept(n, received, queue.events)}
  BY <1>1, LostMeans DEF Lost, Numbers
<1> QED  BY <1>1, <1>2 DEF OnlyOldEventsLost, OldLost, Later

LEMMA InvInit ==
    DeliveryInit => DeliveryInv
<1> SUFFICES ASSUME DeliveryInit
             PROVE  DeliveryInv
  OBVIOUS
<1>1. /\ queue.events = <<>> /\ queue.dropped = 0 /\ pushed = <<>>
      /\ received = <<>> /\ reported = 0
      /\ queue = [events |-> queue.events, dropped |-> queue.dropped]
  BY DEF DeliveryInit, EmptyQueue
<1>2. Accounted
  BY <1>1, EventCapacityAssumption
  DEF Accounted, DeliveryTypeOK, NothingUnaccounted
<1> QED  BY <1>1, <1>2 DEF DeliveryInv, InOrder, OldLost

LEMMA InvPush ==
    ASSUME DeliveryInv, Push
    PROVE  DeliveryInv'
<1>1. PICK type \in Types :
         /\ queue' = PushEvent(queue, Event(Len(pushed) + 1, type))
         /\ pushed' = Append(pushed, type)
  BY DEF Push
<1>2. PICK x : x = Event(Len(pushed) + 1, type)
  OBVIOUS
<1>3. /\ queue.events \in Seq(Events) /\ Len(queue.events) <= EventCapacity
      /\ queue.dropped \in Nat
      /\ pushed \in Seq(Types) /\ Len(pushed) < MaxPushes
      /\ received \in Seq(1..MaxPushes) /\ reported \in Nat
      /\ received' = received /\ reported' = reported
      /\ NothingUnaccounted
      /\ InOrder(queue.events, pushed)
      /\ OldLost(received, queue.events, pushed)
  BY DEF DeliveryInv, Accounted, DeliveryTypeOK, Push
<1>4. x \in Events
  BY <1>2, <1>3, MaxPushesAssumption DEF Event, Events
<1>5. /\ queue'.events \in Seq(Events)
      /\ Len(queue'.events) <= EventCapacity
      /\ queue'.dropped \in Nat
      /\ queue' = [events |-> queue'.events, dropped |-> queue'.dropped]
      /\ Len(queue'.events) + queue'.dropped
           = Len(queue.events) + queue.dropped + 1
      /\ \/ queue'.events = Append(queue.events, x)
         \/ queue'.events = queue.events /\ type # "State"
         \/ /\ Len(queue.events) = EventCapacity
            /\ queue'.events
                 = Append(Without(queue.events, Victim(queue)), x)
            /\ type = "State"
  BY <1>1, <1>2, <1>3, PushLeaves
<1>6. pushed' \in Seq(Types) /\ Len(pushed') = Len(pushed) + 1
  BY <1>1, <1>3
<1>7. Accounted'
  <2>1. DeliveryTypeOK'
    BY <1>3, <1>5, <1>6 DEF DeliveryTypeOK
  <2>2. NothingUnaccounted'
    <3>1. /\ Len(queue'.events) \in Nat /\ Len(queue.events) \in Nat
          /\ Len(received) \in Nat /\ Len(received') = Len(received)
          /\ Len(pushed) \in Nat
      BY <1>3, <1>5
    <3>2. Len(pushed) = Len(received) + Len(queue.events)
                          + queue.dropped + reported
      BY <1>3 DEF NothingUnaccounted
    <3>3. Len(pushed') = Len(received') + Len(queue'.events)
                          + queue'.dropped + reported'
      <4>1. queue'.dropped \in Nat /\ queue.dropped \in Nat /\ reported \in Nat
        BY <1>3, <1>5
      <4>2. /\ Len(queue'.events) + queue'.dropped
                 = Len(queue.events) + queue.dropped + 1
            /\ Len(pushed') = Len(pushed) + 1 /\ reported' = reported
        BY <1>3, <1>5, <1>6
      <4>3. \A r, e, d, t, e2, d2 \in Nat :
               e2 + d2 = e + d + 1
                 => (r + e + d + t) + 1 = r + e2 + d2 + t
        OBVIOUS
      <4>4. Len(pushed') = (Len(received) + Len(queue.events)
                              + queue.dropped + reported) + 1
        BY <3>2, <4>2
      <4>5. PICK e2, d2 : e2 = Len(queue'.events) /\ d2 = queue'.dropped
        OBVIOUS
      <4>6. PICK e, d, r : /\ e = Len(queue.events) /\ d = queue.dropped
                           /\ r = Len(received)
        OBVIOUS
      <4>7. e2 \in Nat /\ d2 \in Nat /\ e2 + d2 = e + d + 1
        BY <3>1, <4>1, <4>2, <4>5, <4>6
      <4>8. e \in Nat /\ d \in Nat /\ r \in Nat /\ reported \in Nat
        BY <3>1, <4>1, <4>6
      <4>9. (r + e + d + reported) + 1 = r + e2 + d2 + reported
        BY <4>3, <4>7, <4>8
      <4> QED  BY <3>1, <4>2, <4>4, <4>5, <4>6, <4>9
    <3> QED  BY <3>3 DEF NothingUnaccounted
  <2> QED  BY <2>1, <2>2 DEF Accounted
<1>8. CASE queue'.events = Append(queue.events, x)
  <2>1. InOrder(queue'.events, pushed')
    BY <1>1, <1>2, <1>3, <1>4, <1>8, AppendInOrder
  <2>2. OldLost(received', queue'.events, pushed')
    BY <1>1, <1>2, <1>3, <1>4, <1>8, AppendLosesNothing
  <2> QED  BY <1>7, <2>1, <2>2 DEF DeliveryInv
<1>9. CASE queue'.events = queue.events /\ type # "State"
  <2>1. InOrder(queue'.events, pushed')
    <3>1. \A m \in 1..Len(pushed) :
             m \in 1..Len(pushed') /\ pushed'[m] = pushed[m]
      BY <1>1, <1>3
    <3> QED  BY <1>3, <1>9, <3>1 DEF InOrder
  <2>2. OldLost(received', queue'.events, pushed')
    BY <1>1, <1>3, <1>9, RefusalLosesUpdate
  <2> QED  BY <1>7, <2>1, <2>2 DEF DeliveryInv
<1>10. CASE /\ Len(queue.events) = EventCapacity
            /\ queue'.events
                 = Append(Without(queue.events, Victim(queue)), x)
            /\ type = "State"
  <2>1. PICK k : k = Victim(queue)
    OBVIOUS
  <2>2. /\ k \in 1..Len(queue.events)
        /\ queue.events[k].type = "State"
             => /\ k = 1
                /\ \A i \in 1..Len(queue.events) :
                      queue.events[i].type = "State"
    <3>1. queue.events # <<>>
      BY <1>10, EventCapacityAssumption
    <3> QED  BY <1>3, <2>1, <3>1, VictimIsQueued
  <2>3. queue'.events = Append(Without(queue.events, k), x)
    BY <1>10, <2>1
  <2>4. /\ Without(queue.events, k) \in Seq(Events)
        /\ InOrder(Without(queue.events, k), pushed)
    BY <1>3, <2>2, WithoutType, WithoutInOrder
  <2>5. InOrder(queue'.events, pushed')
    BY <1>1, <1>2, <1>3, <1>4, <2>3, <2>4, AppendInOrder
  <2>6. OldLost(received', queue'.events, pushed')
    <3>1. pushed' = Append(pushed, "State") /\ x = Event(Len(pushed) + 1, "State")
      BY <1>1, <1>2, <1>10
    <3> QED  BY <1>3, <1>4, <1>10, <2>2, <2>3, <3>1, ErasureLosesOldest
  <2> QED  BY <1>7, <2>5, <2>6 DEF DeliveryInv
<1> QED  BY <1>5, <1>8, <1>9, <1>10

(* An event handed to the UI thread leaves the queue's head for the end of *)
(* the delivered ones.                                                     *)
LEMMA InvPopEvent ==
    ASSUME DeliveryInv, PopEvent
    PROVE  DeliveryInv'
<1>1. /\ queue.events \in Seq(Events) /\ Len(queue.events) <= EventCapacity
      /\ queue.events # <<>> /\ queue.dropped = 0
      /\ queue' = [events |-> Tail(queue.events), dropped |-> queue.dropped]
      /\ received' = Append(received, Head(queue.events).number)
      /\ pushed' = pushed /\ reported' = reported
      /\ pushed \in Seq(Types) /\ received \in Seq(1..MaxPushes)
      /\ reported \in Nat
      /\ NothingUnaccounted
      /\ InOrder(queue.events, pushed)
      /\ OldLost(received, queue.events, pushed)
  BY DEF DeliveryInv, Accounted, DeliveryTypeOK, PopEvent, CanPop, AfterPop, Popped
<1>2. PICK e : e = queue.events
  OBVIOUS
<1>3. PICK t : t = Tail(e)
  OBVIOUS
<1>4. PICK h : h = Head(e).number
  OBVIOUS
<1>5. /\ e \in Seq(Events) /\ Len(e) \in Nat /\ Len(e) >= 1
      /\ t \in Seq(Events) /\ Len(t) = Len(e) - 1
      /\ \A i \in 1..Len(t) : t[i] = e[i + 1]
      /\ h = e[1].number
  BY <1>1, <1>2, <1>3, <1>4
<1>6. /\ queue'.events = t /\ queue'.dropped = 0
      /\ queue' = [events |-> queue'.events, dropped |-> queue'.dropped]
      /\ received' = Append(received, h)
  BY <1>1, <1>2, <1>3, <1>4
<1>7. h \in 1..MaxPushes
  <2>1. 1 \in 1..Len(e)
    BY <1>5
  <2>2. e[1] \in Events
    BY <1>5, <2>1
  <2> QED  BY <1>5, <2>2 DEF Events
<1>8. /\ received' \in Seq(1..MaxPushes) /\ Len(received) \in Nat
      /\ Len(received') = Len(received) + 1
      /\ received'[Len(received) + 1] = h
      /\ \A i \in 1..Len(received) : received'[i] = received[i]
  BY <1>1, <1>6, <1>7
<1>9. Accounted'
  <2>1. DeliveryTypeOK'
    BY <1>1, <1>2, <1>5, <1>6, <1>8, EventCapacityAssumption DEF DeliveryTypeOK
  <2>2. NothingUnaccounted'
    <3>1. Len(pushed) = Len(received) + Len(e) + 0 + reported
      BY <1>1, <1>2 DEF NothingUnaccounted
    <3>2. Len(pushed') = Len(received') + Len(queue'.events)
                          + queue'.dropped + reported'
      <4>1. /\ Len(received) \in Nat /\ Len(e) \in Nat /\ reported \in Nat
            /\ Len(queue'.events) = Len(e) - 1 /\ queue'.dropped = 0
            /\ Len(received') = Len(received) + 1
            /\ pushed' = pushed /\ reported' = reported
        BY <1>1, <1>5, <1>6, <1>8
      <4> QED  BY <3>1, <4>1
    <3> QED  BY <3>2 DEF NothingUnaccounted
  <2> QED  BY <2>1, <2>2 DEF Accounted
<1>10. InOrder(t, pushed)
  <2>1. InOrder(e, pushed)
    BY <1>1, <1>2
  <2> SUFFICES ASSUME NEW i \in 1..Len(t)
               PROVE  /\ t[i].number \in 1..Len(pushed)
                      /\ pushed[t[i].number] = t[i].type
                      /\ \A j \in 1..(i - 1) : t[j].number < t[i].number
    BY DEF InOrder
  <2>2. i + 1 \in 1..Len(e) /\ t[i] = e[i + 1]
    BY <1>5
  <2>3. ASSUME NEW j \in 1..(i - 1)
        PROVE  t[j].number < t[i].number
    <3>1. /\ j \in 1..Len(t) /\ j + 1 \in 1..((i + 1) - 1)
          /\ t[j] = e[j + 1]
      BY <1>5
    <3> QED  BY <2>1, <2>2, <3>1 DEF InOrder
  <2> QED  BY <2>1, <2>2, <2>3 DEF InOrder
<1>11. ASSUME NEW n, Kept(n, received, e)
       PROVE  Kept(n, received', t)
  <2>1. ASSUME NEW i \in 1..Len(received), received[i] = n
        PROVE  Kept(n, received', t)
    <3>1. i \in 1..Len(received') /\ received'[i] = n
      BY <1>8, <2>1
    <3> QED  BY <3>1 DEF Kept
  <2>2. ASSUME NEW i \in 1..Len(e), e[i].number = n
        PROVE  Kept(n, received', t)
    <3>1. CASE i = 1
      <4>1. Len(received) + 1 \in 1..Len(received')
        BY <1>8
      <4>2. received'[Len(received) + 1] = n
        BY <1>5, <1>8, <2>2, <3>1
      <4> QED  BY <4>1, <4>2 DEF Kept
    <3>2. CASE i # 1
      <4>1. i - 1 \in 1..Len(t) /\ t[i - 1] = e[i]
        BY <1>5, <3>2
      <4> QED  BY <2>2, <4>1 DEF Kept
    <3> QED  BY <3>1, <3>2
  <2> QED  BY <1>11, <2>1, <2>2 DEF Kept
<1>12. OldLost(received', t, pushed)
  <2>1. OldLost(received, e, pushed)
    BY <1>1, <1>2
  <2> QED  BY <1>11, <2>1 DEF OldLost
<1> QED  BY <1>1, <1>6, <1>9, <1>10, <1>12 DEF DeliveryInv

LEMMA InvPopOverflow ==
    ASSUME DeliveryInv, PopOverflow
    PROVE  DeliveryInv'
<1>1. /\ queue.events \in Seq(Events) /\ Len(queue.events) <= EventCapacity
      /\ queue.dropped \in Nat /\ queue.dropped # 0
      /\ queue' = [events |-> queue.events, dropped |-> 0]
      /\ reported' = reported + queue.dropped
      /\ pushed' = pushed /\ received' = received
      /\ pushed \in Seq(Types) /\ received \in Seq(1..MaxPushes)
      /\ reported \in Nat
      /\ NothingUnaccounted
      /\ InOrder(queue.events, pushed)
      /\ OldLost(received, queue.events, pushed)
  BY DEF DeliveryInv, Accounted, DeliveryTypeOK, PopOverflow, AfterPop, Popped,
         QueueOverflow
<1>2. /\ queue'.events = queue.events /\ queue'.dropped = 0
      /\ queue' = [events |-> queue'.events, dropped |-> queue'.dropped]
  BY <1>1
<1>3. DeliveryTypeOK'
  BY <1>1, <1>2 DEF DeliveryTypeOK
<1>4. NothingUnaccounted'
  <2>1. Len(queue.events) \in Nat /\ Len(received) \in Nat
    BY <1>1
  <2> QED  BY <1>1, <1>2, <2>1 DEF NothingUnaccounted
<1> QED  BY <1>1, <1>2, <1>3, <1>4 DEF DeliveryInv, Accounted

LEMMA InvStep ==
    DeliveryInv /\ [DeliveryNext]_deliveryVars => DeliveryInv'
<1> SUFFICES ASSUME DeliveryInv, [DeliveryNext]_deliveryVars
             PROVE  DeliveryInv'
  OBVIOUS
<1>1. CASE Push
  BY <1>1, InvPush
<1>2. CASE PopEvent
  BY <1>2, InvPopEvent
<1>3. CASE PopOverflow
  BY <1>3, InvPopOverflow
<1>4. CASE UNCHANGED deliveryVars
  BY <1>4 DEF deliveryVars, DeliveryInv, Accounted, DeliveryTypeOK, NothingUnaccounted
<1> QED  BY <1>1, <1>2, <1>3, <1>4 DEF DeliveryNext

(* No event is lost in silence and no loss is told twice, whatever the     *)
(* capacity and however long the UI thread stays away.                     *)
THEOREM LossesAddUp ==
    DeliverySpec => []Accounted
<1>1. DeliverySpec => []DeliveryInv
  BY InvInit, InvStep, PTL DEF DeliverySpec
<1>2. DeliveryInv => Accounted
  BY InvImpliesProperties
<1> QED  BY <1>1, <1>2, PTL

(* A state change is lost only to a whole queue of later ones: the last    *)
(* state of the reader is never among the losses.                          *)
THEOREM LastStateSurvives ==
    DeliverySpec => []OnlyOldEventsLost
<1>1. DeliverySpec => []DeliveryInv
  BY InvInit, InvStep, PTL DEF DeliverySpec
<1>2. DeliveryInv => OnlyOldEventsLost
  BY InvImpliesProperties
<1> QED  BY <1>1, <1>2, PTL
=============================================================================
