------------------------------ MODULE NfcAPoll ------------------------------
(***************************************************************************)
(* One poll of St25r3916Driver::pollNfcA after another, one exchange to a  *)
(* step, against the tags in the field: wake-up, anticollision and select  *)
(* level by level, the reading of a Type 2 tag (Type2Tag), halt.           *)
(*                                                                         *)
(* A tag goes through the states of ISO 14443-3.  Idle and halted tags are *)
(* both "asleep", for the driver only ever sends WUPA, which wakes both.   *)
(* A tag that is ready or active and hears a frame it does not expect goes *)
(* back to sleep without a word.  Any frame may be lost on its way to some *)
(* tags or on its way back, and tags may come and go between two frames,   *)
(* unless the field is calm.                                               *)
(***************************************************************************)
EXTENDS Type2Tag, FiniteSets

CONSTANTS
    Fields,        \* environments: the tags somebody may lay down, calm or not
    MaxLevels,     \* cascade levels: 3
    NoCachedTag,   \* an empty _cached_tag
    NobodysBytes   \* five bytes with a right checksum that no tag has sent

(* A uid has up to MaxLevels levels, and the last a tag gets to ends the   *)
(* list.  The cascade tag is a part of the bytes of a level.               *)
LevelsOK(tags) ==
    \A t \in DOMAIN tags :
        LET levels == tags[t].levels
        IN  /\ Len(levels) \in 1..MaxLevels /\ DOMAIN levels = 1..Len(levels)
            /\ \A l \in DOMAIN levels :
                  /\ l < Len(levels) => levels[l].more \/ levels[l].cascade
                  /\ levels[l].bytes # NobodysBytes
                  /\ \A u \in DOMAIN tags : \A k \in DOMAIN tags[u].levels :
                        levels[l].bytes = tags[u].levels[k].bytes
                            => levels[l].cascade = tags[u].levels[k].cascade

ASSUME FieldsAssumption ==
    /\ MaxLevels \in 1..3
    /\ \A f \in Fields : /\ f.calm \in BOOLEAN /\ IsFiniteSet(DOMAIN f.tags)
                         /\ LevelsOK(f.tags)

(* The whole uid, the parts of all levels.                                 *)
UidOf(tag) == [l \in DOMAIN tag.levels |-> tag.levels[l].bytes]

(* Two tags differ in their uid, and what a level says twice is followed   *)
(* by the same SAK.  Only a tag of type 2 holds something to read, and its *)
(* bytes are those of a list of TLV blocks.                                *)
ASSUME TagsAssumption ==
    \A f \in Fields : \A t \in DOMAIN f.tags :
        /\ \A u \in DOMAIN f.tags :
              /\ UidOf(f.tags[t]) = UidOf(f.tags[u]) => t = u
              /\ \A l \in DOMAIN f.tags[t].levels \cap DOMAIN f.tags[u].levels :
                    f.tags[t].levels[l].bytes = f.tags[u].levels[l].bytes
                       => f.tags[t].levels[l].more = f.tags[u].levels[l].more
        /\ LaidOut(f.tags[t])
        /\ f.tags[t].type2 \/ f.tags[t].tlvs = <<>>

VARIABLES
    field,       \* the environment, fixed at the start
    state,       \* what each tag is doing
    step,        \* the next exchange of the poll
    level,       \* cascade level
    chunk,       \* the bytes the last anticollision gave
    uid,         \* tag.uid: the chunks selected so far
    reset,       \* _field_reset_required
    cached,      \* _cached_tag
    outcome,     \* what the last poll returned
    trouble,     \* history: something went wrong on the air since the poll began
    before       \* history: outcome and trouble of the poll before

reading == <<memory, cursor, message>>
pollVars == <<field, state, step, level, chunk, uid, reset, cached, outcome,
              trouble, before, reading>>

TagNames == DOMAIN field.tags

Ready == <<"ready1", "ready2", "ready3", "ready4">>

Here == {t \in TagNames : state[t] # "away"}

Active == {t \in TagNames : state[t] = "active"}

LevelOf(t, l) == field.tags[t].levels[l]

(* The tags that answer anticollision and select at this level.            *)
Answering ==
    {t \in TagNames : /\ state[t] = Ready[level]
                      /\ level <= Len(field.tags[t].levels)}

FullUid(t) == UidOf(field.tags[t])

(* A tag keeps to the standard if a chunk starts with the cascade tag just *)
(* when another follows.                                                   *)
Honest(t) ==
    \A l \in DOMAIN field.tags[t].levels :
        /\ LevelOf(t, l).cascade = LevelOf(t, l).more
        /\ LevelOf(t, l).more = (l < Len(field.tags[t].levels))

-----------------------------------------------------------------------------
(* The air.                                                                *)

Smooth == UNCHANGED trouble

Disturbed == ~field.calm /\ trouble' = TRUE

(* Every tag that hears moves to what "to" says, the others stay.          *)
Move(h, to(_)) ==
    state' = [t \in TagNames |-> IF t \in h THEN to(t) ELSE state[t]]

FieldDropped ==
    state' = [t \in TagNames |-> IF t \in Here THEN "asleep" ELSE "away"]

PollInit ==
    /\ field \in Fields
    /\ state = [t \in TagNames |-> IF field.calm THEN "asleep" ELSE "away"]
    /\ step = "idle" /\ level = 1 /\ chunk = <<>> /\ uid = <<>>
    /\ reset = FALSE /\ cached = NoCachedTag
    /\ memory = <<>> /\ cursor = 0 /\ message = <<>>
    /\ outcome = "none" /\ trouble = FALSE
    /\ before = [outcome |-> "none", trouble |-> FALSE]

(* Somebody lays a tag down, or takes it away.                             *)
TagMoves ==
    /\ ~field.calm
    /\ \E t \in TagNames :
          state' = [state EXCEPT ![t] = IF @ = "away" THEN "asleep" ELSE "away"]
    /\ trouble' = TRUE
    /\ UNCHANGED <<field, step, level, chunk, uid, reset, cached, outcome,
                   before, reading>>

-----------------------------------------------------------------------------
(* The poll.                                                               *)

Driven == UNCHANGED <<field, before>>

(* The field is reset if the last poll left something unfinished.  (Bound: *)
(* a calm field is polled once.)                                           *)
StartPoll ==
    /\ step = "idle"
    /\ field.calm => outcome = "none"
    /\ step' = "wake"
    /\ reset' = FALSE
    /\ IF reset THEN FieldDropped ELSE UNCHANGED state
    /\ before' = [outcome |-> outcome, trouble |-> trouble]
    /\ trouble' = FALSE
    /\ uid' = <<>> /\ level' = 1
    /\ Forget
    /\ UNCHANGED <<field, chunk, cached, outcome>>

(* A poll of NFC-F came between: configureNfcF, and configureNfcA later,   *)
(* switch the field off and on.                                            *)
OtherProtocol ==
    /\ step = "idle" /\ ~field.calm
    /\ FieldDropped
    /\ reset' = FALSE /\ outcome' = "none" /\ trouble' = FALSE
    /\ UNCHANGED <<field, step, level, chunk, uid, cached, before, reading>>

Done(o) == step' = "idle" /\ outcome' = o

(* protocolFailure, and an inconclusive wake-up.                           *)
NoReset == UNCHANGED reset             \* mutant

ResetRequired == reset' = TRUE

Inconclusive == Done("Inconclusive") /\ ResetRequired

Woken(t) == IF state[t] = "asleep" THEN Ready[1] ELSE "asleep"

Awake == {t \in Here : state[t] # "asleep"}

(* requestWakeup.  (Assumption: a tag still awake hears one of the frames  *)
(* of a selection, put down here as hearing the first.)  Two answers that  *)
(* differ collide and may not make two whole bytes.  Nobody there, or      *)
(* nobody heard: three times in a row the cache is emptied, which is left  *)
(* to St25r3916Driver.                                                     *)
WakeUp ==
    /\ step = "wake"
    /\ \E h \in {s \in SUBSET Here : Awake \subseteq s} :
          LET woken == {t \in h : Woken(t) = Ready[1]}
          IN  /\ Move(h, Woken)
              /\ \/ /\ woken # {} /\ h = Here
                    /\ step' = "level" /\ Smooth
                    /\ UNCHANGED <<reset, outcome>>
                 \/ /\ woken # {} /\ h # Here
                    /\ step' = "level" /\ Disturbed
                    /\ UNCHANGED <<reset, outcome>>
                 \/ /\ woken = {} /\ h = Here
                    /\ Done("NoTag") /\ Smooth /\ UNCHANGED reset
                 \/ /\ Disturbed
                    /\ Done("NoTag") /\ UNCHANGED reset
                 \/ /\ IF h = Here /\ \E t, u \in woken : t # u
                       THEN Smooth ELSE Disturbed
                    /\ Inconclusive
    /\ \/ UNCHANGED cached
       \/ ~field.calm /\ outcome' = "NoTag" /\ cached' = NoCachedTag
    /\ Driven
    /\ UNCHANGED <<level, chunk, uid, reading>>

(* Two answers differ in some bit.                                         *)
Collide ==
    \E t, u \in Answering : LevelOf(t, level).bytes # LevelOf(u, level).bytes

Garbled == [cascade |-> FALSE, bytes |-> NobodysBytes, more |-> FALSE]

(* The loop fails by itself only if nobody answers or answers collide.     *)
LoopFails == IF Answering = {} \/ Collide THEN Smooth ELSE Disturbed

(* anticollisionLevel, by its outcomes.  One tag that answers, or several  *)
(* that say the same, are heard.  After a collision the driver sends what  *)
(* it has and goes on, but loses the bits it sent from the answer: it may  *)
(* end with the bytes of one tag (where the other is drowned out, or the   *)
(* chip puts the bits back), with nobody's, or with no answer or a wrong   *)
(* checksum.                                                               *)
Anticollision ==
    /\ step = "level"
    /\ \/ /\ \/ /\ \E t \in Answering : chunk' = LevelOf(t, level)
                /\ Smooth
             \/ /\ IF Collide THEN Smooth ELSE Disturbed
                /\ chunk' = Garbled
          /\ uid' = Append(uid, chunk'.bytes)
          /\ step' = "select"
          /\ UNCHANGED <<reset, outcome>>
       \/ /\ LoopFails
          /\ Inconclusive
          /\ UNCHANGED <<chunk, uid>>
    /\ Driven
    /\ UNCHANGED <<state, level, cached, reading>>

Meant(t) ==
    t \in Answering /\ LevelOf(t, level).bytes = chunk.bytes

Selected(t) ==
    IF ~Meant(t) THEN "asleep"
    ELSE IF LevelOf(t, level).more THEN Ready[level + 1] ELSE "active"

AnyCascade(more) == TRUE               \* mutant: the SAK is not compared

CascadeAgrees(more) == chunk.cascade = more

AnyCached == cached # NoCachedTag      \* mutant: the uid is not compared

IsCached == cached # NoCachedTag /\ cached.uid = uid

(* What comes after a select that was answered with this SAK.              *)
AfterSelect(t) ==
    LET more == LevelOf(t, level).more
    IN  IF ~CascadeAgrees(more) \/ (more /\ level = MaxLevels)
        THEN Inconclusive /\ UNCHANGED <<level, message>>
        ELSE IF more
        THEN step' = "level" /\ level' = level + 1
                /\ UNCHANGED <<reset, outcome, message>>
        ELSE /\ IF IsCached THEN step' = "halt" /\ message' = cached.message
                ELSE /\ step' = IF field.tags[t].type2 THEN "manufacturer"
                                                        ELSE "halt"
                     /\ UNCHANGED message
             /\ UNCHANGED <<level, reset, outcome>>

(* selectLevel, and the rest of one turn of pollNfcA's loop.               *)
SelectLevel ==
    /\ step = "select"
    /\ \E h \in SUBSET Here :
          /\ Move(h, Selected)
          /\ \/ \E t \in h :
                   /\ Meant(t)
                   /\ IF h = Here THEN Smooth ELSE Disturbed
                   /\ AfterSelect(t)
             \/ /\ IF h = Here /\ (\A t \in h : ~Meant(t))
                   THEN Smooth ELSE Disturbed
                /\ Inconclusive
                /\ UNCHANGED <<level, message>>
    /\ Driven
    /\ UNCHANGED <<chunk, uid, cached, memory, cursor>>

(* A READ that failed ends the reading, not the poll; the tag is active    *)
(* still, or has gone to sleep after a frame it did not understand.        *)
ReadFails ==
    /\ IF Active = {} THEN Smooth ELSE Disturbed
    /\ step' = "halt"
    /\ \/ UNCHANGED state
       \/ state' = [t \in TagNames |-> IF t \in Active THEN "asleep" ELSE state[t]]
    /\ UNCHANGED reading

ReadManufacturer ==
    /\ step = "manufacturer"
    /\ \/ /\ \E t \in Active :
                LET cc == field.tags[t].cc
                IN  step' = IF HasNdef(cc) /\ cc.open THEN "tlv" ELSE "halt"
          /\ Smooth /\ UNCHANGED <<state, reading>>
       \/ ReadFails
    /\ Driven
    /\ UNCHANGED <<level, chunk, uid, reset, cached, outcome>>

(* The capability container is the selected tag's; it was read before.     *)
Container ==
    LET t == CHOOSE t \in TagNames : FullUid(t) = uid IN field.tags[t].cc

ReadBlock ==
    /\ step = "tlv" /\ WantsBlock(Container)
    /\ \/ /\ \E t \in Active :
                memory' = Appended(Container, Block(field.tags[t], NextPage))
          /\ Smooth /\ UNCHANGED <<state, step, cursor, message>>
       \/ ReadFails
    /\ Driven
    /\ UNCHANGED <<level, chunk, uid, reset, cached, outcome>>

(* The next TLV block is known to its end.                                 *)
TakeTlv ==
    /\ step = "tlv" /\ TlvComplete(Container)
    /\ CASE TlvByte(1) = NullTlv ->
                cursor' = cursor + 1 /\ UNCHANGED <<step, message>>
         [] TlvByte(1) = TerminatorTlv ->
                step' = "halt" /\ UNCHANGED <<cursor, message>>
         [] TlvByte(1) = NdefTlv ->
                step' = "halt" /\ message' = TlvValue /\ UNCHANGED cursor
         [] OTHER -> cursor' = Required /\ UNCHANGED <<step, message>>
    /\ Smooth /\ Driven
    /\ UNCHANGED <<state, level, chunk, uid, reset, cached, outcome, memory>>

(* The walk leaves the capacity or the first sector, or ends with it.      *)
WalkEnds ==
    /\ step = "tlv" /\ (AtEnd(Container) \/ OutOfReach(Container))
    /\ step' = "halt"
    /\ Smooth /\ Driven
    /\ UNCHANGED <<state, level, chunk, uid, reset, cached, outcome, reading>>

Asleep(t) == "asleep"

(* haltSelectedTag.  No answer tells whether the tag heard; that the frame *)
(* was not sent is told, and resets the field.                             *)
Halt ==
    /\ step = "halt"
    /\ \/ Move(Here, Asleep) /\ Smooth /\ UNCHANGED reset
       \/ UNCHANGED state /\ Disturbed /\ reset' \in {reset, TRUE}
    /\ cached' = [uid |-> uid, message |-> message]
    /\ Done("Tag")
    /\ memory' = <<>> /\ cursor' = 0
    /\ UNCHANGED <<field, before, level, chunk, uid, message>>

PollNext ==
    \/ TagMoves \/ StartPoll \/ OtherProtocol
    \/ WakeUp \/ Anticollision \/ SelectLevel
    \/ ReadManufacturer \/ ReadBlock \/ TakeTlv \/ WalkEnds \/ Halt

PollSpec == PollInit /\ [][PollNext]_pollVars

-----------------------------------------------------------------------------
(* A tag is reported under its own whole uid and with its own message,     *)
(* never under levels or bytes of two: whichever tags share a level, come, *)
(* go or fall asleep in the middle of the selection and the reading.       *)
ReportsOneTag ==
    step = "idle" /\ outcome = "Tag" =>
        \E t \in TagNames :
            /\ uid = FullUid(t)
            /\ message \in {Written(field.tags[t]), <<>>}

(* What was written on the tag is what is read, block boundaries, long     *)
(* lengths, other TLV blocks, capacity and the end of the first sector     *)
(* included, if nothing disturbs the reading.                              *)
ReadsWhatWasWritten ==
    step = "idle" /\ outcome = "Tag" /\ field.calm =>
        \A t \in TagNames : uid = FullUid(t) =>
            message = Written(field.tags[t])

(* An undisturbed poll takes the field for empty though a tag lies there   *)
(* only right after one whose end was disturbed and which could not know   *)
(* it (HLTA or the answer to WUPA was lost): the next poll finds the tag   *)
(* awake and puts it to sleep.  So a field with a tag is never taken for   *)
(* empty twice in a row without a disturbance, which is what the           *)
(* thresholds of three NoTag results rest on.  It comes to no conclusion   *)
(* only where two tags collide: a tag alone is reported, for whatever else *)
(* was left unfinished, the reset of the field has repaired.               *)
MissHasCause ==
    step = "idle" /\ ~trouble /\ Here # {} /\ (\A t \in Here : Honest(t)) =>
        /\ outcome = "NoTag" =>
              before.trouble /\ before.outcome \in {"Tag", "NoTag"}
        /\ outcome = "Inconclusive" => \E t, u \in Here : t # u
=============================================================================
