----------------------------- MODULE TagPresence -----------------------------
(***************************************************************************)
(* The presence filter of NfcWorker (src/nfc/nfc_worker.cpp): the fields   *)
(* _present_tag ... _first_explicit_no_tag_ms, and the two operations that *)
(* change them, handleDiscoveryResult and clearPresence.                   *)
(*                                                                         *)
(* This module declares the state and the operations only.  TagDebounce    *)
(* drives them with every sequence of poll results; NfcWorker calls them   *)
(* from the hardware thread.  An operation leaves the events it pushes, in *)
(* order, in "outbox".                                                     *)
(*                                                                         *)
(* Time: the code compares a millisecond clock with the moment of the      *)
(* first NoTag of the current run of NoTag results.  The model keeps that  *)
(* difference itself (noTagAge), in ticks, saturated at RemoveDebounce; dt *)
(* is the time since the previous poll result.  The run counter saturates  *)
(* at RemoveConfirmations: both are only ever compared with those bounds.  *)
(***************************************************************************)
EXTENDS Integers, Sequences

CONSTANTS
    Identities, Contents, NoTag,
    PresentConfirmations,  \* kPresentConfirmations
    RemoveConfirmations,   \* kRemoveConfirmations
    RemoveDebounce         \* kRemoveDebounceMs, in ticks

Tags == [id : Identities, content : Contents]

ASSUME PresenceAssumption ==
    /\ PresentConfirmations \in Nat \ {0}
    /\ RemoveConfirmations \in Nat \ {0}
    /\ RemoveDebounce \in Nat
    /\ NoTag \notin Tags

VARIABLES
    presence,     \* the presence fields of NfcWorker
    outbox        \* events the running handler has still to push

SameIdentity(s, t) == s # NoTag /\ t # NoTag /\ s.id = t.id

AtMost(bound, n) == IF n < bound THEN n ELSE bound

TagPresented(s, t) == [type |-> "TagPresented", session |-> s, tag |-> t]
TagUpdated(s, t)   == [type |-> "TagUpdated",   session |-> s, tag |-> t]
TagRemoved(s, t)   == [type |-> "TagRemoved",   session |-> s, tag |-> t]

PresenceType ==
    [tag : Tags \cup {NoTag},
     candidate : Tags \cup {NoTag},
     confirmations : 0..(PresentConfirmations - 1),
     noTags : 0..RemoveConfirmations,
     noTagAge : 0..RemoveDebounce,
     session : Nat,
     nextSession : Nat \ {0}]

(* A session is live exactly while a tag is present, under a number        *)
(* already handed out, and nothing is counted against an absent tag.       *)
PresenceOK ==
    /\ presence.tag = NoTag <=> presence.session = 0
    /\ presence.session < presence.nextSession
    /\ presence.tag = NoTag => presence.noTags = 0
    /\ presence.candidate = NoTag <=> presence.confirmations = 0
    /\ presence.tag # NoTag /\ presence.candidate # NoTag
         => presence.tag.id # presence.candidate.id

NoPresence(next) ==
    [tag |-> NoTag, candidate |-> NoTag, confirmations |-> 0,
     noTags |-> 0, noTagAge |-> 0, session |-> 0, nextSession |-> next]

-----------------------------------------------------------------------------
(* clearPresence(true): the events it pushes, then the fields it resets.   *)
Removal ==
    IF presence.tag # NoTag
    THEN <<TagRemoved(presence.session, presence.tag)>>
    ELSE <<>>

ClearPresence == presence' = NoPresence(presence.nextSession)

-----------------------------------------------------------------------------
(* handleDiscoveryResult, one operator per way through it.                 *)

(* Mutants of the operations below, each with one plausible slip.          *)
NothingChanges == UNCHANGED presence /\ outbox' = <<>>

CandidateKept == presence

(* NoObservation, or a Tag result that carries no snapshot.                *)
ObserveNothing ==
    /\ presence' = [presence EXCEPT !.noTags = 0, !.noTagAge = 0]
    /\ outbox' = <<>>

AgeAfter(dt) ==
    IF presence.noTags = 0
    THEN 0
    ELSE AtMost(RemoveDebounce, presence.noTagAge + dt)

GoneOneTooLate(dt) ==      \* mutant: > instead of >=
    /\ presence.noTags + 1 > RemoveConfirmations
    /\ AgeAfter(dt) >= RemoveDebounce

GoneLongEnough(dt) ==
    /\ presence.noTags + 1 >= RemoveConfirmations
    /\ AgeAfter(dt) >= RemoveDebounce

WithoutCandidate == [presence EXCEPT !.candidate = NoTag, !.confirmations = 0]

ObserveNoTag(dt) ==
    \/ /\ presence.tag = NoTag
       /\ presence' = WithoutCandidate
       /\ outbox' = <<>>
    \/ /\ presence.tag # NoTag
       /\ ~GoneLongEnough(dt)
       /\ presence' = [WithoutCandidate EXCEPT
                         !.noTags = AtMost(RemoveConfirmations, @ + 1),
                         !.noTagAge = AgeAfter(dt)]
       /\ outbox' = <<>>
    \/ /\ presence.tag # NoTag
       /\ GoneLongEnough(dt)
       /\ ClearPresence
       /\ outbox' = Removal

ObserveAnyTag(t) ==        \* mutant: the identity is not compared
    /\ presence.tag # NoTag
    /\ presence' = [presence EXCEPT !.tag = t]
    /\ outbox' = <<TagUpdated(presence.session, t)>>

(* The tag already present is seen again, perhaps with another content.    *)
ObservePresentTag(t) ==
    /\ SameIdentity(presence.tag, t)
    /\ presence' = [WithoutCandidate EXCEPT
                      !.noTags = 0, !.noTagAge = 0, !.tag = t]
    /\ outbox' = IF t # presence.tag
                 THEN <<TagUpdated(presence.session, t)>>
                 ELSE <<>>

Confirmations(t) ==
    IF SameIdentity(presence.candidate, t)
    THEN presence.confirmations + 1
    ELSE 1

(* A tag that is not the present one has not been seen often enough yet.   *)
ObserveCandidate(t) ==
    /\ ~SameIdentity(presence.tag, t)
    /\ Confirmations(t) < PresentConfirmations
    /\ presence' = [presence EXCEPT
                      !.noTags = 0, !.noTagAge = 0,
                      !.candidate = t, !.confirmations = Confirmations(t)]
    /\ outbox' = <<>>

(* It has: a present tag is removed first, then this one is presented.     *)
ObserveConfirmed(t) ==
    /\ ~SameIdentity(presence.tag, t)
    /\ Confirmations(t) >= PresentConfirmations
    /\ presence' = [NoPresence(presence.nextSession + 1) EXCEPT
                      !.tag = t, !.session = presence.nextSession]
    /\ outbox' = Removal \o <<TagPresented(presence.nextSession, t)>>

ObserveTag(t) ==
    \/ ObservePresentTag(t)
    \/ ObserveCandidate(t)
    \/ ObserveConfirmed(t)
=============================================================================
