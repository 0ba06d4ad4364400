-------------------------- MODULE TagPresenceLemmas --------------------------
(***************************************************************************)
(* What every operation of the presence filter preserves.  The modules     *)
(* that drive the filter cite these lemmas in their own proofs.            *)
(***************************************************************************)
EXTENDS TagPresence, TLAPS

(* Where an EXCEPT is given to a presence record, the record it yields is  *)
(* written out field by field first: its type then follows from the types  *)
(* of the fields.                                                          *)
LEMMA ObserveNothingPreserves ==
    ASSUME presence \in PresenceType, PresenceOK, ObserveNothing
    PROVE  presence' \in PresenceType /\ PresenceOK'
<1>1. presence' = [tag |-> presence.tag, candidate |-> presence.candidate,
                   confirmations |-> presence.confirmations,
                   noTags |-> 0, noTagAge |-> 0,
                   session |-> presence.session,
                   nextSession |-> presence.nextSession]
  BY DEF PresenceType, ObserveNothing
<1>2. QED
  BY <1>1, PresenceAssumption DEF PresenceType, PresenceOK

LEMMA ClearPreserves ==
    ASSUME presence \in PresenceType, ClearPresence
    PROVE  presence' \in PresenceType /\ PresenceOK'
BY PresenceAssumption DEF PresenceType, PresenceOK, ClearPresence, NoPresence

LEMMA ObserveNoTagPreserves ==
    ASSUME presence \in PresenceType, PresenceOK,
           NEW dt \in Nat, ObserveNoTag(dt)
    PROVE  presence' \in PresenceType /\ PresenceOK'
<1>1. CASE presence.tag = NoTag /\ presence' = WithoutCandidate
  <2>1. presence' = [tag |-> presence.tag, candidate |-> NoTag,
                     confirmations |-> 0, noTags |-> presence.noTags,
                     noTagAge |-> presence.noTagAge,
                     session |-> presence.session,
                     nextSession |-> presence.nextSession]
    BY <1>1 DEF PresenceType, WithoutCandidate
  <2>2. QED
    BY <2>1, PresenceAssumption DEF PresenceType, PresenceOK
<1>2. CASE /\ presence.tag # NoTag
           /\ presence' = [WithoutCandidate EXCEPT
                             !.noTags = AtMost(RemoveConfirmations, @ + 1),
                             !.noTagAge = AgeAfter(dt)]
  <2>1. presence' = [tag |-> presence.tag, candidate |-> NoTag,
                     confirmations |-> 0,
                     noTags |-> AtMost(RemoveConfirmations,
                                       presence.noTags + 1),
                     noTagAge |-> AgeAfter(dt),
                     session |-> presence.session,
                     nextSession |-> presence.nextSession]
    BY <1>2 DEF PresenceType, WithoutCandidate
  <2>2. AtMost(RemoveConfirmations, presence.noTags + 1)
          \in 0..RemoveConfirmations
    BY PresenceAssumption DEF PresenceType, AtMost
  <2>3. AgeAfter(dt) \in 0..RemoveDebounce
    BY PresenceAssumption DEF PresenceType, AgeAfter, AtMost
  <2>4. presence' \in PresenceType
    BY <2>1, <2>2, <2>3, PresenceAssumption DEF PresenceType
  <2>5. presence.tag # NoTag
    BY <1>2
  <2>6. QED
    BY <2>1, <2>4, <2>5 DEF PresenceType, PresenceOK
<1>3. CASE ClearPresence
  BY <1>3, ClearPreserves
<1>4. QED
  BY <1>1, <1>2, <1>3 DEF ObserveNoTag

LEMMA ObserveTagPreserves ==
    ASSUME presence \in PresenceType, PresenceOK,
           NEW t \in Tags, ObserveTag(t)
    PROVE  presence' \in PresenceType /\ PresenceOK'
<1>1. CASE ObservePresentTag(t)
  <2>1. presence' = [tag |-> t, candidate |-> NoTag, confirmations |-> 0,
                     noTags |-> 0, noTagAge |-> 0,
                     session |-> presence.session,
                     nextSession |-> presence.nextSession]
    BY <1>1 DEF PresenceType, ObservePresentTag, WithoutCandidate
  <2>2. presence' \in PresenceType
    BY <2>1, PresenceAssumption DEF PresenceType
  <2>3. presence.tag # NoTag /\ t # NoTag
    BY <1>1 DEF ObservePresentTag, SameIdentity
  <2>4. QED
    BY <2>1, <2>2, <2>3 DEF PresenceType, PresenceOK
<1>2. CASE ObserveCandidate(t)
  <2>1. presence' = [tag |-> presence.tag, candidate |-> t,
                     confirmations |-> Confirmations(t),
                     noTags |-> 0, noTagAge |-> 0,
                     session |-> presence.session,
                     nextSession |-> presence.nextSession]
    BY <1>2 DEF PresenceType, ObserveCandidate
  <2>2. Confirmations(t) \in 1..(PresentConfirmations - 1)
    BY <1>2, PresenceAssumption
    DEF PresenceType, ObserveCandidate, Confirmations
  <2>3. presence' \in PresenceType
    BY <2>1, <2>2, PresenceAssumption DEF PresenceType
  <2>4. t # NoTag /\ ~SameIdentity(presence.tag, t)
    BY <1>2, PresenceAssumption DEF ObserveCandidate
  <2>5. QED
    BY <2>1, <2>2, <2>3, <2>4 DEF PresenceType, PresenceOK, SameIdentity
<1>3. CASE ObserveConfirmed(t)
  <2>1. presence' = [tag |-> t, candidate |-> NoTag, confirmations |-> 0,
                     noTags |-> 0, noTagAge |-> 0,
                     session |-> presence.nextSession,
                     nextSession |-> presence.nextSession + 1]
    BY <1>3 DEF ObserveConfirmed, NoPresence
  <2>2. QED
    BY <2>1, PresenceAssumption DEF PresenceType, PresenceOK
<1>4. QED
  BY <1>1, <1>2, <1>3 DEF ObserveTag
=============================================================================
