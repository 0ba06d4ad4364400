----------------------------- MODULE TagSessions -----------------------------
(***************************************************************************)
(* What the reader promises about tags, and nothing about how it finds     *)
(* them: at most one tag session is live at a time, every session starts   *)
(* with a tag being presented and ends with that tag being removed, a tag  *)
(* may be updated but never exchanged inside a session, and session        *)
(* numbers grow by one until the reader is restarted.                      *)
(*                                                                         *)
(* TagDebounce (the observation filter alone) and NfcWorker (the events    *)
(* the hardware thread puts in its queue) are both shown to implement it.  *)
(***************************************************************************)
EXTENDS Naturals

CONSTANTS
    Identities,   \* what sameTagIdentity compares: technology and uid
    Contents,     \* the rest of a snapshot, which may change while a tag stays
    NoTag         \* no tag: an empty std::optional<TagSnapshot>

VARIABLES
    live,         \* number of the live session, 0 when there is none
    tag,          \* the tag of the live session
    issued        \* the last session number handed out

sessionVars == <<live, tag, issued>>

SessionTags == [id : Identities, content : Contents]

SessionInit ==
    /\ live = 0
    /\ tag = NoTag
    /\ issued = 0

Present(t) ==
    /\ live = 0
    /\ issued' = issued + 1
    /\ live' = issued + 1
    /\ tag' = t

Update(t) ==
    /\ live # 0
    /\ t.id = tag.id
    /\ t # tag
    /\ tag' = t
    /\ UNCHANGED <<live, issued>>

Remove ==
    /\ live # 0
    /\ live' = 0
    /\ tag' = NoTag
    /\ UNCHANGED issued

(* One tag taken away and another one put down between two observations.   *)
Replace(t) ==
    /\ live # 0
    /\ t.id # tag.id
    /\ issued' = issued + 1
    /\ live' = issued + 1
    /\ tag' = t

(* A new run of the reader numbers its sessions from one again.            *)
Restart ==
    /\ live = 0
    /\ issued' = 0
    /\ UNCHANGED <<live, tag>>

SessionNext ==
    \/ \E t \in SessionTags : Present(t) \/ Update(t) \/ Replace(t)
    \/ Remove
    \/ Restart

SessionSpec == SessionInit /\ [][SessionNext]_sessionVars
=============================================================================
