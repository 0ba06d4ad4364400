----------------------------- MODULE TagDebounce -----------------------------
(***************************************************************************)
(* TagPresence fed with every sequence of poll results.  "log" records     *)
(* the results and is never read by the operations: the properties judge   *)
(* the filter's counters against the raw sequence of results.              *)
(***************************************************************************)
EXTENDS TagPresence, FiniteSets

CONSTANTS
    MaxPolls,     \* bound: length of the sequences of results explored
    MaxStep       \* bound: largest time, in ticks, between two results

ASSUME DebounceAssumption == MaxPolls \in Nat /\ MaxStep \in Nat

VARIABLE log

vars == <<presence, outbox, log>>

Results ==
    [kind : {"Tag"}, tag : Tags, at : Nat]
      \cup [kind : {"NoTag", "Nothing", "Cleared"}, tag : {NoTag}, at : Nat]

Now == IF log = <<>> THEN 0 ELSE log[Len(log)].at

Init ==
    /\ presence = NoPresence(1)
    /\ outbox = <<>>
    /\ log = <<>>

Record(kind, t, dt) ==
    /\ Len(log) < MaxPolls
    /\ log' = Append(log, [kind |-> kind, tag |-> t, at |-> Now + dt])

(* Only the time between two NoTag results matters to the filter, so the   *)
(* other results take none.                                                *)
PollNothing == Record("Nothing", NoTag, 0) /\ ObserveNothing

PollNoTag ==
    \E dt \in 0..MaxStep : Record("NoTag", NoTag, dt) /\ ObserveNoTag(dt)

PollTag == \E t \in Tags : Record("Tag", t, 0) /\ ObserveTag(t)

(* Scanning is switched off, the reader fails or is initialised again.     *)
Clear ==
    /\ Record("Cleared", NoTag, 0)
    /\ ClearPresence
    /\ outbox' = Removal

Next == PollNothing \/ PollNoTag \/ PollTag \/ Clear

Spec == Init /\ [][Next]_vars

-----------------------------------------------------------------------------
TypeOK ==
    /\ presence \in PresenceType
    /\ log \in Seq(Results)

(* A session is live exactly while a tag is present, its number is the     *)
(* last one handed out, and the candidate is never the present tag.        *)
IInv == TypeOK /\ PresenceOK

-----------------------------------------------------------------------------
(* Reading the log.  Sightings of an identity add up over results that saw *)
(* nothing, but not over a NoTag, another tag, or a Cleared.               *)
Unbroken(i, id) ==
    \A k \in i..Len(log) : \/ log[k].kind = "Nothing"
                           \/ log[k].kind = "Tag" /\ log[k].tag.id = id

Sightings(i) == {k \in i..Len(log) : log[k].kind = "Tag"}

Agreed(id) ==
    \E i \in 1..Len(log) :
        /\ Unbroken(i, id)
        /\ Cardinality(Sightings(i)) >= PresentConfirmations

(* The log ends in enough NoTag results in a row, far enough apart.        *)
Elapsed(i) == Now - log[i].at

Absent ==
    \E i \in 1..Len(log) :
        /\ \A k \in i..Len(log) : log[k].kind = "NoTag"
        /\ Len(log) - i + 1 >= RemoveConfirmations
        /\ Elapsed(i) >= RemoveDebounce

Emits(type) == \E i \in DOMAIN outbox : outbox[i].type = type

Cleared == log # <<>> /\ log[Len(log)].kind = "Cleared"

(* A tag is presented only when the log ends in kPresentConfirmations      *)
(* sightings of it that no NoTag and no other tag separates: a single      *)
(* misread never opens a session.                                          *)
PresentedOnlyIfAgreed ==
    \A i \in DOMAIN outbox :
        outbox[i].type = "TagPresented" => Agreed(outbox[i].tag.id)

(* A tag is removed only because it was really away (three NoTag results   *)
(* in a row, 160 ms from the first to the last, no doubtful poll between), *)
(* because another tag was confirmed in its place, or because the reader   *)
(* stopped scanning.                                                       *)
RemovedOnlyIfAbsent ==
    Emits("TagRemoved") => Absent \/ Emits("TagPresented") \/ Cleared

(* The filter never misses: as soon as the results justify it, the agreed  *)
(* tag is the present one, and an absent tag is no longer present.         *)
FilterIsPrompt ==
    /\ \A id \in Identities :
          Agreed(id) => presence.tag # NoTag /\ presence.tag.id = id
    /\ Absent => presence.tag = NoTag

-----------------------------------------------------------------------------
(* Presence is a TagSessions: the live session is the active one.          *)
Sessions == INSTANCE TagSessions WITH
    live <- presence.session,
    tag <- presence.tag,
    issued <- presence.nextSession - 1

(* handleDiscoveryResult and clearPresence implement the abstract tag      *)
(* sessions: every step presents, updates, removes or replaces as promised *)
(* there, or changes nothing a reader of the sessions can see.             *)
ImplementsSessions == Sessions!SessionSpec
=============================================================================
