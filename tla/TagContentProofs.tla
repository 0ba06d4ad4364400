-------------------------- MODULE TagContentProofs --------------------------
(***************************************************************************)
(* How a tag is heard, found and read: what the polls of NFC-A keep for    *)
(* every field of tags, what the memory of a tag is and how the walk over  *)
(* its blocks comes by the message, that the records handed on are those   *)
(* written on the tag whose uid is reported, and what one exchange with a  *)
(* tag keeps for any number of edges and slices of waiting.                *)
(***************************************************************************)
EXTENDS TagContent, NdefParserProofs, NfcExchange, FiniteSetTheorems,
        SequenceTheorems, TLAPS

(* The polls of NFC-A.                                                     *)

TagStates == {"away", "asleep", "active"} \cup {Ready[l] : l \in 1..4}

Reading == {"manufacturer", "tlv", "halt"}

Chunks == {NobodysBytes} \cup
            UNION {{LevelOf(t, l).bytes : l \in DOMAIN field.tags[t].levels} :
                    t \in TagNames}

PollTypeOK ==
    /\ field \in Fields
    /\ state \in [TagNames -> TagStates]
    /\ step \in {"idle", "wake", "level", "select"} \cup Reading
    /\ level \in 1..MaxLevels
    /\ uid \in Seq(Chunks)
    /\ reset \in BOOLEAN /\ trouble \in BOOLEAN
    /\ step = "wake" => level = 1 /\ uid = <<>>

(* A tag that is awake between two polls has been left so by a             *)
(* disturbance, or the field is reset before it is addressed.              *)
AwakeHasCause ==
    /\ step = "idle" /\ ~reset /\ Awake # {}
         => trouble /\ outcome \in {"Tag", "NoTag"}
    /\ step = "wake" /\ Awake # {}
         => before.trouble /\ before.outcome \in {"Tag", "NoTag"}

AllHonest == \A t \in Here : Honest(t)

TwoHere == \E t, u \in Here : t # u

(* As long as nothing has disturbed the poll, somebody is there to answer: *)
(* to a level, and to a select unless a collision has made up its bytes.   *)
SomebodyAnswers ==
    ~trouble /\ AllHonest =>
        /\ step = "level" => Answering # {}
        /\ step = "select" => \/ \E t \in Answering : chunk = LevelOf(t, level)
                              \/ chunk = Garbled /\ TwoHere

MissInv == AwakeHasCause /\ SomebodyAnswers /\ MissHasCause

(* The chunks collected so far are those of every tag that still answers.  *)
Collected(t, n) == \A l \in 1..n : uid[l] = LevelOf(t, l).bytes

Chosen == \E t \in TagNames : uid = FullUid(t)

UidOK ==
    /\ step \in {"level", "select"} =>
          /\ \A t \in TagNames : \A l \in (level + 1)..4 : state[t] # Ready[l]
          /\ \A t \in Answering : Collected(t, level - 1)
    /\ step = "level" => Len(uid) = level - 1
    /\ step = "select" =>
          /\ Len(uid) = level /\ uid[level] = chunk.bytes
          /\ \/ chunk = Garbled
             \/ \E t \in TagNames : /\ level \in DOMAIN field.tags[t].levels
                                    /\ chunk = LevelOf(t, level)
    /\ step \in Reading => Chosen
    /\ step = "idle" /\ outcome = "Tag" => Chosen

(* The places of a tag between two levels differ from each other and from  *)
(* the rest.                                                               *)
LEMMA ReadyDistinct ==
    /\ \A i, j \in 1..4 : Ready[i] = Ready[j] => i = j
    /\ \A i \in 1..4 : Ready[i] \in TagStates \ {"away", "asleep", "active"}
BY DEF Ready, TagStates

(* What the assumption on the fields says of the tags of this one.         *)
LEMMA LevelFacts ==
    ASSUME PollTypeOK
    PROVE  /\ MaxLevels \in 1..3 /\ level + 1 \in 2..4
           /\ \A t \in TagNames :
                 /\ Len(field.tags[t].levels) \in 1..MaxLevels
                 /\ DOMAIN field.tags[t].levels = 1..Len(field.tags[t].levels)
           /\ \A t \in TagNames : \A l \in DOMAIN field.tags[t].levels :
                 /\ LevelOf(t, l).bytes \in Chunks
                 /\ LevelOf(t, l).bytes # NobodysBytes
                 /\ l < Len(field.tags[t].levels)
                       => LevelOf(t, l).more \/ LevelOf(t, l).cascade
                 /\ \A u \in TagNames : \A k \in DOMAIN field.tags[u].levels :
                       LevelOf(t, l).bytes = LevelOf(u, k).bytes
                           => LevelOf(t, l).cascade = LevelOf(u, k).cascade
<1>1. LevelsOK(field.tags) /\ MaxLevels \in 1..3
  BY FieldsAssumption DEF PollTypeOK
<1>2. level + 1 \in 2..4
  BY <1>1 DEF PollTypeOK
<1>3. \A t \in TagNames :
                 /\ Len(field.tags[t].levels) \in 1..MaxLevels
                 /\ DOMAIN field.tags[t].levels = 1..Len(field.tags[t].levels)
  BY <1>1 DEF LevelsOK, TagNames
<1>4. \A t \in TagNames : \A l \in DOMAIN field.tags[t].levels :
                 /\ LevelOf(t, l).bytes \in Chunks
                 /\ LevelOf(t, l).bytes # NobodysBytes
                 /\ l < Len(field.tags[t].levels)
                       => LevelOf(t, l).more \/ LevelOf(t, l).cascade
  BY <1>1 DEF LevelsOK, TagNames, LevelOf, Chunks
<1>5. \A t \in TagNames : \A l \in DOMAIN field.tags[t].levels :
                 \A u \in TagNames : \A k \in DOMAIN field.tags[u].levels :
                       LevelOf(t, l).bytes = LevelOf(u, k).bytes
                           => LevelOf(t, l).cascade = LevelOf(u, k).cascade
  BY <1>1 DEF LevelsOK, TagNames, LevelOf
<1>6. QED
  BY <1>1, <1>2, <1>3, <1>4, <1>5

(* Every exchange keeps the types.                                         *)
LEMMA PollTypeKept ==
    ASSUME PollTypeOK, [PollNext]_pollVars
    PROVE  PollTypeOK'
<1> USE
    DEF PollTypeOK, Reading, Driven, Smooth, Disturbed, Done, Inconclusive,
        ResetRequired, reading, Forget
<1>0. field' = field => TagNames' = TagNames /\ Chunks' = Chunks
  BY DEF TagNames, Chunks, LevelOf
<1>1. CASE TagMoves
  BY <1>1, <1>0 DEF TagMoves, TagStates
<1>2. CASE StartPoll
  <2>1. <<>> \in Seq(Chunks)
    OBVIOUS
  <2>2. state' \in [TagNames -> TagStates]
    BY <1>2 DEF StartPoll, FieldDropped, TagStates
  <2>3. /\ field' = field /\ step' = "wake" /\ level' = 1 /\ uid' = <<>>
        /\ reset' = FALSE /\ trouble' = FALSE
    BY <1>2 DEF StartPoll
  <2>4. uid' \in Seq(Chunks') /\ level' \in 1..MaxLevels
    BY <1>0, <2>1, <2>3, LevelFacts
  <2>5. QED
    BY <1>0, <2>2, <2>3, <2>4
<1>3. CASE OtherProtocol
  BY <1>3, <1>0 DEF OtherProtocol, FieldDropped, TagStates
<1>4. CASE WakeUp
  <2>1. PICK h \in SUBSET Here : Move(h, Woken)
    BY <1>4 DEF WakeUp
  <2>2. state' \in [TagNames -> TagStates]
    BY <2>1 DEF Move, Woken, TagStates
  <2>3. /\ field' = field /\ step' \in {"level", "idle"} /\ level' = level
        /\ uid' = uid
    BY <1>4 DEF WakeUp
  <2>4. reset' \in BOOLEAN /\ trouble' \in BOOLEAN
    BY <1>4 DEF WakeUp
  <2>5. QED
    BY <1>0, <2>2, <2>3, <2>4
<1>5. CASE Anticollision
  <2>1. uid' \in Seq(Chunks)
    <3>1. CASE UNCHANGED uid
      BY <3>1
    <3>2. ASSUME NEW t \in Answering,
                 chunk' = LevelOf(t, level),
                 uid' = Append(uid, chunk'.bytes)
          PROVE  uid' \in Seq(Chunks)
      <4>1. LevelOf(t, level).bytes \in Chunks
        BY <3>2, LevelFacts DEF Answering
      <4>2. QED
        BY <3>2, <4>1
    <3>3. ASSUME chunk' = Garbled, uid' = Append(uid, chunk'.bytes)
          PROVE  uid' \in Seq(Chunks)
      <4>1. chunk'.bytes \in Chunks
        BY <3>3 DEF Garbled, Chunks
      <4>2. QED
        BY <3>3, <4>1
    <3>4. QED
      BY <1>5, <3>1, <3>2, <3>3 DEF Anticollision
  <2>2. QED
    BY <1>5, <1>0, <2>1 DEF Anticollision, LoopFails
<1>6. CASE SelectLevel
  <2>1. PICK h \in SUBSET Here : Move(h, Selected)
    BY <1>6 DEF SelectLevel
  <2>2. state' \in [TagNames -> TagStates]
    BY <2>1, ReadyDistinct, LevelFacts DEF Move, Selected, TagStates
  <2>3. /\ level' \in 1..MaxLevels
        /\ step' \in {"idle", "level", "manufacturer", "halt"}
    BY <1>6, LevelFacts DEF SelectLevel, AfterSelect
  <2>4. reset' \in BOOLEAN /\ trouble' \in BOOLEAN
    BY <1>6 DEF SelectLevel, AfterSelect
  <2>5. field' = field /\ uid' = uid
    BY <1>6 DEF SelectLevel
  <2>6. QED
    BY <1>0, <2>2, <2>3, <2>4, <2>5
<1>7. CASE ReadManufacturer
  BY <1>7, <1>0 DEF ReadManufacturer, ReadFails, TagStates
<1>8. CASE ReadBlock
  BY <1>8, <1>0 DEF ReadBlock, ReadFails, TagStates
<1>9. CASE TakeTlv
  BY <1>9, <1>0 DEF TakeTlv
<1>10. CASE WalkEnds
  BY <1>10, <1>0 DEF WalkEnds
<1>11. CASE Halt
  BY <1>11, <1>0 DEF Halt, Move, Asleep, TagStates
<1>12. CASE UNCHANGED pollVars
  BY <1>12, <1>0 DEF pollVars
<1>13. QED
  BY <1>1, <1>2, <1>3, <1>4, <1>5, <1>6, <1>7, <1>8, <1>9, <1>10, <1>11, <1>12
  DEF PollNext

(* Nobody is meant by bytes that nobody has sent.                          *)
LEMMA MeantIsSent ==
    ASSUME PollTypeOK, NEW t, Meant(t)
    PROVE  chunk # Garbled
<1>1. /\ t \in TagNames /\ level \in DOMAIN field.tags[t].levels
      /\ LevelOf(t, level).bytes = chunk.bytes
  BY LevelFacts DEF Meant, Answering, PollTypeOK
<1>2. chunk.bytes # NobodysBytes
  BY <1>1, LevelFacts
<1>3. QED
  BY <1>2 DEF Garbled

(* A tag that was meant and says that no level follows has been selected   *)
(* by its whole uid.                                                       *)
LEMMA WholeUid ==
    ASSUME PollTypeOK, UidOK, step = "select", NEW t, Meant(t),
           ~LevelOf(t, level).more, CascadeAgrees(LevelOf(t, level).more)
    PROVE  uid = FullUid(t)
<1> USE LevelFacts DEF PollTypeOK, UidOK
<1>1. PICK c \in TagNames : /\ level \in DOMAIN field.tags[c].levels
                            /\ chunk = LevelOf(c, level)
  BY MeantIsSent
<1>2. /\ t \in Answering /\ t \in TagNames
      /\ LevelOf(t, level).bytes = chunk.bytes
      /\ level \in DOMAIN field.tags[t].levels
  BY DEF Meant, Answering
<1>3. LevelOf(t, level).cascade = chunk.cascade
  BY <1>1, <1>2
<1>4. level = Len(field.tags[t].levels)
  BY <1>2, <1>3 DEF CascadeAgrees
<1>5. \A l \in 1..level : uid[l] = LevelOf(t, l).bytes
  BY <1>2 DEF Collected
<1>6. DOMAIN field.tags[t].levels = 1..level
  BY <1>2, <1>4
<1>7. Len(uid) = level /\ uid \in Seq(Chunks)
  OBVIOUS
<1>8. uid = [l \in 1..level |-> uid[l]]
  BY <1>7
<1>9. FullUid(t) = [l \in 1..level |-> LevelOf(t, l).bytes]
  BY <1>6 DEF FullUid, UidOf, LevelOf
<1>10. QED
  BY <1>5, <1>8, <1>9, Zenon

(* A frame that is lost, a tag that comes or goes, only takes tags out of  *)
(* the selection; the next level is opened by a tag with all the chunks.   *)
LEMMA UidKept ==
    ASSUME PollTypeOK, UidOK, [PollNext]_pollVars
    PROVE  UidOK'
<1> USE LevelFacts, ReadyDistinct
    DEF PollTypeOK, UidOK, Reading, Driven, Done, Inconclusive, reading, Forget
<1>0. ASSUME field' = field
      PROVE  /\ TagNames' = TagNames
             /\ \A t \in TagNames : /\ FullUid(t)' = FullUid(t)
                                    /\ field.tags[t]' = field.tags[t]
                                    /\ \A l : LevelOf(t, l)' = LevelOf(t, l)
  BY <1>0 DEF TagNames, LevelOf, FullUid
<1>1. ASSUME field' = field, uid' = uid, Chosen PROVE Chosen'
  BY <1>1, <1>0 DEF Chosen
<1>2. ASSUME field' = field,
             uid' = uid,
             level' = level,
             chunk' = chunk,
             step' = step,
             step \in {"level", "select"},
             \A t \in TagNames : state'[t] \in {state[t], "away", "asleep"}
      PROVE  UidOK'
  <2>1. Answering' \subseteq Answering
    BY <1>0, <1>2 DEF Answering
  <2>2. \A t \in TagNames : Collected(t, level - 1)' = Collected(t, level - 1)
    BY <1>0, <1>2 DEF Collected
  <2>3. \A t \in Answering' : Collected(t, level - 1)'
    <3>1. \A t \in Answering' : t \in TagNames /\ Collected(t, level - 1)
      BY <2>1, <1>2 DEF Answering
    <3>2. QED
      BY <3>1, <2>2, <1>2
  <2>4. \A t \in TagNames' : \A l \in (level' + 1)..4 : state'[t] # Ready[l]
    BY <1>0, <1>2
  <2>5. QED
    BY <1>0, <1>2, <2>3, <2>4
<1>3. CASE TagMoves
  BY <1>3, <1>1, <1>2 DEF TagMoves
<1>4. CASE StartPoll
  BY <1>4 DEF StartPoll
<1>5. CASE OtherProtocol
  BY <1>5 DEF OtherProtocol
<1>6. CASE WakeUp
  <2>1. PICK h \in SUBSET Here : Awake \subseteq h /\ Move(h, Woken)
    BY <1>6 DEF WakeUp
  <2>2. /\ field' = field
        /\ step' \in {"level", "idle"}
        /\ level' = level
        /\ level = 1
        /\ uid = <<>>
        /\ uid' = uid /\ (step' = "idle" => outcome' # "Tag")
    BY <1>6 DEF WakeUp
  <2>3. \A t \in TagNames : state'[t] \in {"away", "asleep", Ready[1]}
    BY <2>1 DEF Move, Woken, Awake, Here
  <2>4. \A t \in TagNames : \A l \in 2..4 : state'[t] # Ready[l]
    BY <2>3
  <2>5. \A t : Collected(t, 0)'
    BY DEF Collected
  <2>6. QED
    BY <1>0, <2>2, <2>4, <2>5
<1>7. CASE Anticollision
  <2>1. CASE step' = "idle"
    BY <1>7, <2>1 DEF Anticollision
  <2>2. CASE step' # "idle"
    <3>1. \/ chunk' = Garbled
          \/ \E t \in TagNames : /\ level \in DOMAIN field.tags[t].levels
                                 /\ chunk' = LevelOf(t, level)
      BY <1>7, <2>2 DEF Anticollision, Answering
    <3>2. /\ uid' = Append(uid, chunk'.bytes)
          /\ step' = "select"
          /\ step = "level"
          /\ field' = field /\ state' = state /\ level' = level
      BY <1>7, <2>2 DEF Anticollision
    <3>3. chunk'.bytes \in Chunks
      BY <3>1 DEF Garbled, Chunks
    <3>4. /\ Len(uid') = level /\ uid'[level] = chunk'.bytes
          /\ \A l \in 1..(level - 1) : uid'[l] = uid[l]
      BY <3>2, <3>3
    <3>5. Answering' = Answering
      BY <1>0, <3>2 DEF Answering
    <3>6. \A u \in Answering : Collected(u, level - 1)'
      BY <1>0, <3>2, <3>4 DEF Collected, Answering
    <3>7. QED
      BY <1>0, <3>1, <3>2, <3>3, <3>4, <3>5, <3>6
  <2>3. QED
    BY <2>1, <2>2
<1>8. CASE SelectLevel
  <2>1. PICK h \in SUBSET Here : 
           /\ Move(h, Selected)
           /\ \/ \E t \in h : Meant(t) /\ AfterSelect(t)
              \/ Inconclusive
    BY <1>8 DEF SelectLevel
  <2>2. /\ field' = field /\ step = "select" /\ uid' = uid /\ chunk' = chunk
    BY <1>8 DEF SelectLevel
  <2>3. CASE Inconclusive
    BY <2>3
  <2>4. ASSUME NEW t \in h, Meant(t), AfterSelect(t) PROVE UidOK'
    <3>1. PICK c \in TagNames : /\ level \in DOMAIN field.tags[c].levels
                                /\ chunk = LevelOf(c, level)
      BY <2>2, <2>4, MeantIsSent
    <3>2. /\ t \in Answering
          /\ t \in TagNames
          /\ LevelOf(t, level).bytes = chunk.bytes
          /\ level \in DOMAIN field.tags[t].levels
      BY <2>4 DEF Meant, Answering
    <3>3. LevelOf(t, level).cascade = chunk.cascade
      BY <3>1, <3>2
    <3>4. CASE step' = "idle"
      BY <2>4, <3>4 DEF AfterSelect, IsCached
    <3>5. CASE ~LevelOf(t, level).more /\ CascadeAgrees(LevelOf(t, level).more)
      <4>3. uid = FullUid(t)
        BY <2>2, <2>4, <3>5, WholeUid
      <4>4. Chosen'
        BY <1>1, <2>2, <3>2, <4>3 DEF Chosen
      <4>5. step' \in Reading
        BY <2>4, <3>5 DEF AfterSelect, CascadeAgrees
      <4>6. QED
        BY <4>4, <4>5
    <3>6. CASE step' = "level"
      <4>1. level' = level + 1 /\ Len(uid') = level' - 1
        BY <2>2, <2>4, <3>6 DEF AfterSelect
      <4>2. ASSUME NEW u \in TagNames PROVE 
               \/ state'[u] = Ready[level + 1] /\ Meant(u)
               \/ state'[u] \in {state[u], "asleep", "active"}
        BY <2>1 DEF Move, Selected
      <4>3. \A u \in TagNames : \A l \in (level + 2)..4 : state'[u] # Ready[l]
        BY <2>2, <4>2
      <4>4. \A u \in TagNames : state'[u] = Ready[level + 1] => Meant(u)
        BY <2>2, <4>2
      <4>5. \A u \in TagNames : Meant(u) => Collected(u, level)
        BY <2>2 DEF Meant, Collected
      <4>6. \A u \in Answering' : Collected(u, level - 1)'
        <5>1. \A u \in Answering' : u \in TagNames /\ Collected(u, level)
          BY <1>0, <2>2, <4>1, <4>4, <4>5 DEF Answering
        <5>2. level' - 1 = level
          BY <4>1
        <5>3. \A u \in TagNames :
                 Collected(u, level) => Collected(u, level - 1)'
          BY <1>0, <2>2, <5>2 DEF Collected
        <5>4. QED
          BY <5>1, <5>3
      <4>7. QED
        BY <1>0, <2>2, <3>6, <4>1, <4>3, <4>6
    <3>7. QED
      BY <2>4, <3>4, <3>5, <3>6 DEF AfterSelect, CascadeAgrees
  <2>5. QED
    BY <2>1, <2>3, <2>4
<1>9. CASE ReadManufacturer
  BY <1>9, <1>1 DEF ReadManufacturer, ReadFails
<1>10. CASE ReadBlock
  BY <1>10, <1>1 DEF ReadBlock, ReadFails
<1>11. CASE TakeTlv \/ WalkEnds
  <2>1. step = "tlv" /\ step' \in Reading /\ field' = field /\ uid' = uid
    BY <1>11 DEF TakeTlv, WalkEnds
  <2>2. QED
    BY <2>1, <1>1
<1>12. CASE Halt
  BY <1>12, <1>1 DEF Halt
<1>13. CASE UNCHANGED pollVars
  <2>1. \A t \in TagNames : state'[t] = state[t]
    BY <1>13 DEF pollVars
  <2>2. CASE step \in {"level", "select"}
    BY <1>13, <2>1, <2>2, <1>2 DEF pollVars
  <2>3. QED
    BY <1>13, <2>2, <1>1 DEF pollVars
<1>14. QED
  BY <1>3, <1>4, <1>5, <1>6, <1>7, <1>8, <1>9, <1>10, <1>11, <1>12, <1>13
  DEF PollNext

(* Nobody comes or goes by a frame.                                        *)
LEMMA FramesMoveNobody ==
    ASSUME PollTypeOK, field' = field, NEW h \in SUBSET Here,
           \/ Move(h, Woken)
           \/ Move(h, Selected)
    PROVE  Here' = Here
<1>1. \A t \in TagNames : state'[t] = "away" <=> state[t] = "away"
  <2>1. CASE Move(h, Woken)
    BY <2>1, ReadyDistinct DEF Move, Woken, Here
  <2>2. CASE Move(h, Selected)
    <3>1. level + 1 \in 1..4
      BY LevelFacts
    <3>2. Ready[level + 1] # "away"
      BY <3>1, ReadyDistinct
    <3>3. \A t \in TagNames : Selected(t) # "away"
      BY <3>2 DEF Selected
    <3>4. \A t \in TagNames :
             state'[t] = IF t \in h THEN Selected(t) ELSE state[t]
      BY <2>2 DEF Move
    <3>5. QED
      BY <3>3, <3>4 DEF Here
  <2>3. QED
    BY <2>1, <2>2
<1>2. QED
  BY <1>1 DEF Here, TagNames

(* What went wrong is remembered until the field has been reset or every   *)
(* tag put to sleep.                                                       *)
LEMMA MissKept ==
    ASSUME PollTypeOK, MissInv, [PollNext]_pollVars
    PROVE  MissInv'
<1> USE
    DEF MissInv, AwakeHasCause, SomebodyAnswers, MissHasCause, Driven, Smooth,
        Disturbed, Done, Inconclusive, ResetRequired
<1>0. ASSUME field' = field
      PROVE  /\ TagNames' = TagNames
             /\ \A t : field.tags[t]' = field.tags[t] /\ Honest(t)' = Honest(t)
             /\ \A t, l : LevelOf(t, l)' = LevelOf(t, l)
  BY <1>0 DEF TagNames, LevelOf, Honest
<1>1. ASSUME field' = field, Here' = Here
      PROVE  (AllHonest' <=> AllHonest) /\ (TwoHere' <=> TwoHere)
  BY <1>0, <1>1 DEF AllHonest, TwoHere
<1>2. ASSUME field' = field,
             \A t \in TagNames : state'[t] \in {"away", "asleep"}
      PROVE  Awake' = {}
  BY <1>0, <1>2 DEF Awake, Here
<1>3. CASE TagMoves
  <2>1. Awake' \subseteq Awake
    BY <1>3, <1>0 DEF TagMoves, PollTypeOK, Awake, Here
  <2>2. QED
    BY <1>3, <2>1 DEF TagMoves
<1>4. CASE StartPoll
  <2>1. reset => Awake' = {}
    BY <1>4, <1>2 DEF StartPoll, FieldDropped
  <2>2. ~reset => Awake' = Awake
    BY <1>4, <1>0 DEF StartPoll, Awake, Here
  <2>3. QED
    BY <1>4, <2>1, <2>2 DEF StartPoll, PollTypeOK
<1>5. CASE OtherProtocol
  <2>1. Awake' = {}
    BY <1>5, <1>2 DEF OtherProtocol, FieldDropped
  <2>2. QED
    BY <1>5, <2>1 DEF OtherProtocol
<1>6. CASE WakeUp
  <2> DEFINE Woke(h) == {t \in h : Woken(t) = Ready[1]}
  <2>1. PICK h \in SUBSET Here :
           /\ Awake \subseteq h /\ Move(h, Woken)
           /\ \/ Woke(h) # {} /\ h = Here /\ step' = "level"
              \/ trouble' /\ step' = "level"
              \/ Woke(h) = {} /\ h = Here /\ Done("NoTag")
              \/ trouble' /\ Done("NoTag")
              \/ trouble' /\ Inconclusive
              \/ (\E t, u \in Woke(h) : t # u) /\ Inconclusive
    BY <1>6 DEF WakeUp
  <2>2. /\ step = "wake"
        /\ field' = field
        /\ level' = level
        /\ before' = before
        /\ level = 1
    BY <1>6 DEF WakeUp, PollTypeOK
  <2>3. Here' = Here
    BY <2>1, <2>2, FramesMoveNobody
  <2>4. CASE trouble'
    BY <2>1, <2>4
  <2>5. CASE Woke(h) # {} /\ h = Here /\ step' = "level"
    <3>1. PICK t \in h : Woken(t) = Ready[1]
      BY <2>5
    <3>2. t \in TagNames /\ state'[t] = Ready[1]
      BY <2>1, <3>1 DEF Move, Here
    <3>3. t \in Answering'
      BY <1>0, <2>2, <3>2, LevelFacts DEF Answering
    <3>4. QED
      BY <2>5, <3>3
  <2>6. CASE Woke(h) = {} /\ h = Here /\ Done("NoTag")
    <3>1. \A t \in Here : state[t] # "asleep"
      BY <2>6 DEF Woken
    <3>2. \A t \in TagNames : state'[t] \in {"away", "asleep"}
      BY <2>1, <2>6, <3>1 DEF Move, Woken, Here
    <3>3. Awake' = {}
      BY <1>2, <2>2, <3>2
    <3>4. Here' # {} => Awake # {}
      BY <2>3, <3>1 DEF Awake
    <3>5. QED
      BY <2>2, <2>6, <3>3, <3>4
  <2>7. CASE (\E t, u \in Woke(h) : t # u) /\ Inconclusive
    <3>1. TwoHere'
      BY <2>3, <2>7 DEF TwoHere
    <3>2. QED
      BY <2>7, <3>1 DEF TwoHere
  <2>8. QED
    BY <2>1, <2>4, <2>5, <2>6, <2>7
<1>7. CASE Anticollision
  <2>1. /\ step = "level" /\ field' = field /\ level' = level /\ state' = state
        /\ trouble => trouble'
    BY <1>7 DEF Anticollision, LoopFails
  <2>2. Here' = Here /\ Answering' = Answering
    BY <1>0, <2>1 DEF Here, Answering
  <2>3. Collide => TwoHere'
    <3>1. level \in 1..4
      BY LevelFacts DEF PollTypeOK
    <3>2. Answering \subseteq Here
      BY <3>1, ReadyDistinct DEF Answering, Here
    <3>3. QED
      BY <2>2, <3>2 DEF Collide, TwoHere
  <2>4. CASE /\ step' = "idle" /\ Inconclusive
             /\ Answering # {} /\ ~Collide => trouble'
    <3>1. (AllHonest' <=> AllHonest) /\ (TwoHere' <=> \E t, u \in Here' : t # u)
      BY <1>1, <2>1, <2>2 DEF TwoHere
    <3>2. AllHonest' <=> \A t \in Here' : Honest(t)'
      BY DEF AllHonest
    <3>3. QED
      BY <2>1, <2>3, <2>4, <3>1, <3>2
  <2>5. CASE step' = "select" /\ \E t \in Answering : chunk' = LevelOf(t, level)
    BY <1>0, <2>1, <2>2, <2>5 DEF Answering
  <2>6. CASE step' = "select" /\ chunk' = Garbled /\ (Collide \/ trouble')
    BY <2>3, <2>6 DEF Garbled
  <2>7. QED
    BY <1>7, <2>4, <2>5, <2>6 DEF Anticollision, LoopFails
<1>8. CASE SelectLevel
  <2>1. PICK h \in SUBSET Here :
           /\ Move(h, Selected)
           /\ \/ \E t \in h : /\ Meant(t) /\ AfterSelect(t)
                              /\ h # Here => trouble'
              \/ /\ Inconclusive
                 /\ (h = Here /\ \A t \in h : ~Meant(t)) \/ trouble'
    BY <1>8 DEF SelectLevel
  <2>2. /\ step = "select"
        /\ field' = field
        /\ chunk' = chunk
        /\ (trouble => trouble')
        /\ step' \in {"idle", "level", "manufacturer", "halt"}
        /\ step' = "idle" => Inconclusive
    BY <1>8 DEF SelectLevel, AfterSelect
  <2>3. Here' = Here
    BY <2>1, <2>2, FramesMoveNobody
  <2>4. (AllHonest' <=> AllHonest) /\ (TwoHere' <=> TwoHere)
    BY <1>1, <2>2, <2>3
  <2>5. CASE trouble' \/ ~AllHonest'
    BY <2>2, <2>5, <1>0, <2>3 DEF AllHonest
  <2>6. CASE chunk = Garbled /\ ~trouble' /\ AllHonest'
    <3>1. Inconclusive
      BY <2>1, <2>6, MeantIsSent
    <3>2. TwoHere'
      <4>1. ~\E t \in Answering : chunk = LevelOf(t, level)
        BY <2>6, LevelFacts DEF Garbled, Answering, PollTypeOK
      <4>2. QED
        BY <2>2, <2>4, <2>6, <4>1
    <3>3. QED
      BY <3>1, <3>2 DEF TwoHere
  <2>7. CASE chunk # Garbled /\ ~trouble' /\ AllHonest'
    <3>1. PICK c \in Answering : chunk = LevelOf(c, level)
      BY <2>2, <2>4, <2>7
    <3>2. Meant(c) /\ c \in TagNames /\ level \in DOMAIN field.tags[c].levels
      BY <3>1, LevelFacts DEF Meant, Answering, PollTypeOK
    <3>3. c \in Here
      <4>1. state[c] = Ready[level] /\ level \in 1..4
        BY <3>1, LevelFacts DEF Answering, PollTypeOK
      <4>2. QED
        BY <3>2, <4>1, ReadyDistinct DEF Here
    <3>4. PICK t \in h : Meant(t) /\ AfterSelect(t)
      BY <2>1, <2>7, <3>2, <3>3
    <3>5. /\ t \in TagNames
          /\ level \in DOMAIN field.tags[t].levels
          /\ Honest(t)
          /\ LevelOf(t, level).bytes = chunk.bytes
      BY <2>4, <2>7, <3>4, LevelFacts
      DEF Meant, Answering, PollTypeOK, AllHonest
    <3>6. LevelOf(t, level).cascade = chunk.cascade
      BY <3>1, <3>2, <3>5, LevelFacts
    <3>7. /\ LevelOf(t, level).cascade = LevelOf(t, level).more
          /\ LevelOf(t, level).more = (level < Len(field.tags[t].levels))
      BY <3>5 DEF Honest
    <3>8. /\ Len(field.tags[t].levels) <= MaxLevels
          /\ level \in Nat
          /\ Len(field.tags[t].levels) \in Nat
          /\ MaxLevels \in Nat
      BY <3>5, LevelFacts DEF PollTypeOK
    <3>9. LevelOf(t, level).more => level + 1 <= Len(field.tags[t].levels)
      <4>1. LevelOf(t, level).more => level < Len(field.tags[t].levels)
        BY <3>7, Zenon
      <4>2. QED
        BY <4>1, <3>8
    <3>10. CascadeAgrees(LevelOf(t, level).more)
      BY <3>6, <3>7 DEF CascadeAgrees
    <3>11. ~(LevelOf(t, level).more /\ level = MaxLevels)
      BY <3>9, <3>8
    <3>12. CASE LevelOf(t, level).more
      <4>1. step' = "level" /\ level' = level + 1
        BY <3>4, <3>10, <3>11, <3>12 DEF AfterSelect
      <4>2. state'[t] = Ready[level + 1]
        BY <2>1, <3>4, <3>5, <3>12 DEF Move, Selected
      <4>3. level + 1 <= Len(field.tags[t].levels)
        BY <3>9, <3>12
      <4>4. t \in Answering'
        BY <1>0, <2>2, <3>5, <4>1, <4>2, <4>3 DEF Answering
      <4>5. QED
        BY <4>1, <4>4
    <3>13. CASE ~LevelOf(t, level).more
      <4>1. step' \in {"manufacturer", "halt"}
        BY <3>4, <3>10, <3>11, <3>13 DEF AfterSelect
      <4>2. QED
        BY <4>1
    <3>14. QED
      BY <3>12, <3>13
  <2>8. QED
    BY <2>5, <2>6, <2>7
<1>9. CASE ReadManufacturer \/ ReadBlock \/ TakeTlv \/ WalkEnds
  <2>1. step' \in {"manufacturer", "tlv", "halt"}
    BY <1>9 DEF ReadManufacturer, ReadBlock, ReadFails, TakeTlv, WalkEnds
  <2>2. QED
    BY <2>1
<1>10. CASE Halt
  <2>1. step' = "idle" /\ outcome' = "Tag" /\ field' = field
    BY <1>10 DEF Halt
  <2>2. CASE Move(Here, Asleep)
    <3>1. \A t \in TagNames : state'[t] \in {"away", "asleep"}
      BY <2>2 DEF Move, Asleep, Here
    <3>2. QED
      BY <1>2, <2>1, <3>1
  <2>3. CASE trouble'
    BY <2>1, <2>3
  <2>4. QED
    BY <1>10, <2>2, <2>3 DEF Halt
<1>11. CASE UNCHANGED pollVars
  <2>1. /\ field' = field
        /\ Here' = Here
        /\ Awake' = Awake
        /\ Answering' = Answering
    BY <1>11 DEF pollVars, Here, Awake, Answering, TagNames
  <2>2. QED
    BY <1>11, <1>0, <1>1, <2>1
    DEF pollVars, AllHonest, TwoHere, Answering, Garbled
<1>12. QED
  BY <1>3, <1>4, <1>5, <1>6, <1>7, <1>8, <1>9, <1>10, <1>11 DEF PollNext

(* The invariants of the polls hold at the start.                          *)
LEMMA PollStarts == PollInit => PollTypeOK /\ UidOK /\ MissInv
<1> SUFFICES ASSUME PollInit PROVE PollTypeOK /\ UidOK /\ MissInv
  OBVIOUS
<1>1. PollTypeOK
  <2>1. field \in Fields /\ 1 \in 1..MaxLevels
    BY FieldsAssumption DEF PollInit
  <2>2. state \in [TagNames -> TagStates]
    BY DEF PollInit, TagStates
  <2>3. uid = <<>> /\ <<>> \in Seq(Chunks)
    BY DEF PollInit
  <2>4. QED
    BY <2>1, <2>2, <2>3 DEF PollInit, PollTypeOK
<1>2. UidOK
  BY DEF PollInit, UidOK, Reading
<1>3. MissInv
  <2>1. Awake = {}
    BY DEF PollInit, Awake, Here
  <2>2. QED
    BY <2>1 DEF PollInit, MissInv, AwakeHasCause, SomebodyAnswers, MissHasCause
<1>4. QED
  BY <1>1, <1>2, <1>3

(* What comes after a poll leaves the tags alone.                          *)
LEMMA ContentPolls ==
    /\ ContentInit => PollInit
    /\ [ContentNext]_contentVars => [PollNext]_pollVars
BY DEF ContentInit, ContentNext, contentVars, PollStep, Deliver, ParseStep

(* The inductive invariant of the polls.                                   *)
LEMMA PollInvariant == ContentSpec => [](PollTypeOK /\ UidOK /\ MissInv)
<1>1. ContentInit => PollTypeOK /\ UidOK /\ MissInv
  BY ContentPolls, PollStarts
<1>2. (PollTypeOK /\ UidOK /\ MissInv) /\ [ContentNext]_contentVars
        => (PollTypeOK /\ UidOK /\ MissInv)'
  BY ContentPolls, PollTypeKept, UidKept, MissKept
<1>3. QED
  BY <1>1, <1>2, PTL DEF ContentSpec

(* A tag is reported under the whole uid of one tag in the field, never    *)
(* under levels of two, whichever tags share a level, come, go, miss a     *)
(* frame or fall asleep in the middle of the selection, and whatever a tag *)
(* says of its cascade (pollNfcA).  It is told apart from ReportsOneTag    *)
(* because nothing that is written on a tag is needed for it.              *)
THEOREM UidIsOneTags ==
    ContentSpec => [](step = "idle" /\ outcome = "Tag" =>
                        \E t \in TagNames : uid = FullUid(t))
<1>1. UidOK => (step = "idle" /\ outcome = "Tag" =>
                  \E t \in TagNames : uid = FullUid(t))
  BY DEF UidOK, Chosen
<1>2. QED
  BY <1>1, PollInvariant, PTL

(* For every field of tags that keep to the standard: an undisturbed poll  *)
(* finds it empty, though a tag lies there, only if the end of the poll    *)
(* before was disturbed in a way the driver could not notice, and comes to *)
(* no conclusion only if two tags lie there, whose answers may collide.  A *)
(* tag alone is reported otherwise: whatever else was left unfinished, the *)
(* reset of the field has repaired (pollNfcA).                             *)
THEOREM NoTagIsMissed == ContentSpec => []MissHasCause
<1>1. MissInv => MissHasCause
  BY DEF MissInv
<1>2. QED
  BY <1>1, PollInvariant, PTL

-----------------------------------------------------------------------------
(* The memory of a Type 2 tag, and the walk over its blocks.               *)

(* The i-th value of the recursion by which FlattenSeq is defined.         *)
FlatTurn(F, f, i) == IF i = 1 THEN F[i] ELSE f[i - 1] \o F[i]

IsFlat(f, F) == f = [i \in 1..Len(F) |-> FlatTurn(F, f, i)]

Flat(F) == CHOOSE f : IsFlat(f, F)

(* The recursion of FlattenSeq defines a function.                         *)
LEMMA FlatIs ==
    ASSUME NEW X, NEW F \in Seq(Seq(X))
    PROVE  IsFlat(Flat(F), F)
<1> DEFINE D == 1..Len(F)
           S == Seq(X)
           m == [i \in D |-> i]
           T == [i \in D |-> [g \in [D -> S] |-> FlatTurn(F, g, i)]]
<1>0. Len(F) \in Nat /\ \A i \in D : F[i] \in S
  OBVIOUS
<1>1. m \in [D -> 0..Len(F)]
  BY <1>0
<1>2. \A g \in [D -> S], i \in D : FlatTurn(F, g, i) \in S
  <2>1. TAKE g \in [D -> S], i \in D
  <2>2. i # 1 => g[i - 1] \in S
    <3>1. i # 1 => i - 1 \in D
      BY <1>0
    <3> HIDE DEF D, S
    <3>2. QED
      BY <3>1
  <2>3. F[i] \in S
    BY <1>0
  <2>4. QED
    BY <2>2, <2>3 DEF FlatTurn
<1>s. <<>> \in S
  OBVIOUS
<1> HIDE DEF S
<1>3. T \in [D -> [[D -> S] -> S]]
  BY <1>2
<1>4. ASSUME NEW d \in D, NEW g \in [D -> S], NEW h \in [D -> S],
             \A c \in D : m[c] < m[d] => g[c] = h[c]
      PROVE  T[d][g] = T[d][h]
  <2>1. d # 1 => g[d - 1] = h[d - 1]
    BY <1>0, <1>4
  <2>2. FlatTurn(F, g, d) = FlatTurn(F, h, d)
    BY <2>1 DEF FlatTurn
  <2>3. QED
    BY <2>2
<1>5. S # {}
  BY <1>s
<1>6. Recursive(D, S, Len(F), m, T)
  BY <1>0, <1>1, <1>3, <1>4, <1>5 DEF Recursive
<1> HIDE DEF m, T, D
<1>7. \E f \in [D -> S] : \A d \in D : f[d] = T[d][f]
  BY <1>6, Recursion DEF Solvable
<1>8. PICK f \in [D -> S] : \A d \in D : f[d] = T[d][f]
  BY <1>7
<1>9. \A d \in D : f[d] = FlatTurn(F, f, d)
  BY <1>8 DEF T
<1>10. f = [i \in D |-> FlatTurn(F, f, i)]
  BY <1>9
<1>11. IsFlat(f, F)
  BY <1>10 DEF IsFlat, D
<1>12. QED
  BY <1>11 DEF Flat

(* FlattenSeq is the last value of that function.                          *)
LEMMA FlattenIs ==
    ASSUME NEW F
    PROVE  FlattenSeq(F) = IF Len(F) = 0 THEN F ELSE Flat(F)[Len(F)]
BY DEF FlattenSeq, Flat, IsFlat, FlatTurn

(* One more sequence is one more piece at the end.                         *)
LEMMA FlattenGrows ==
    ASSUME NEW X, NEW F \in Seq(Seq(X)), NEW x \in Seq(X)
    PROVE  FlattenSeq(Append(F, x)) = FlattenSeq(F) \o x
<1>1. PICK G : G = Append(F, x)
  OBVIOUS
<1>2. /\ G \in Seq(Seq(X)) /\ Len(F) \in Nat /\ Len(G) = Len(F) + 1
      /\ G[Len(F) + 1] = x /\ \A i \in 1..Len(F) : G[i] = F[i]
  BY <1>1
<1>3. PICK f : f = Flat(F)
  OBVIOUS
<1>4. PICK g : g = Flat(G)
  OBVIOUS
<1>5. /\ \A i \in 1..Len(F) : f[i] = FlatTurn(F, f, i)
      /\ \A i \in 1..(Len(F) + 1) : g[i] = FlatTurn(G, g, i)
  <2>1. IsFlat(f, F)
    BY <1>3, FlatIs
  <2>2. IsFlat(g, G)
    BY <1>2, <1>4, FlatIs
  <2>3. QED
    BY <1>2, <2>1, <2>2 DEF IsFlat
<1> DEFINE S == {k \in Nat : k # 0 => f[k] = g[k]}
<1>6. 0..Len(F) \subseteq S
  <2>1. 0 \in S
    OBVIOUS
  <2>2. ASSUME NEW k \in 0..(Len(F) - 1), k \in S PROVE k + 1 \in S
    <3>1. k + 1 \in 1..Len(F) /\ k + 1 \in 1..(Len(F) + 1) /\ k + 1 \in Nat
      BY <1>2
    <3>2. f[k + 1] = FlatTurn(F, f, k + 1) /\ g[k + 1] = FlatTurn(G, g, k + 1)
      BY <1>5, <3>1
    <3>3. G[k + 1] = F[k + 1]
      BY <1>2, <3>1
    <3>4. CASE k = 0
      BY <3>2, <3>3, <3>4 DEF FlatTurn
    <3>5. CASE k # 0
      <4>1. f[k] = g[k] /\ \E j : j = k + 1
        BY <2>2, <3>5
      <4>2. PICK j : j = k + 1
        BY <4>1
      <4>3. j # 1 /\ j - 1 = k
        BY <3>5, <4>2
      <4>4. FlatTurn(F, f, j) = f[k] \o F[j] /\ FlatTurn(G, g, j) = g[k] \o G[j]
        BY <4>3 DEF FlatTurn
      <4>5. f[j] = FlatTurn(F, f, j) /\ g[j] = FlatTurn(G, g, j) /\ G[j] = F[j]
        BY <3>2, <3>3, <4>2, Zenon
      <4>6. f[j] = g[j]
        BY <4>1, <4>4, <4>5, Zenon
      <4>7. QED
        BY <3>1, <4>2, <4>6
    <3>6. QED
      BY <3>4, <3>5
  <2> HIDE DEF S
  <2>3. QED
    BY <1>2, <2>1, <2>2, Induction
<1>7. FlattenSeq(G) = g[Len(F) + 1]
  BY <1>2, <1>4, FlattenIs
<1>8. CASE Len(F) = 0
  <2>1. F = <<>> /\ FlattenSeq(F) = <<>>
    BY <1>8, FlattenIs
  <2>2. g[1] = x
    BY <1>2, <1>5, <1>8 DEF FlatTurn
  <2>3. <<>> \o x = x
    OBVIOUS
  <2>4. QED
    BY <1>1, <1>7, <1>8, <2>1, <2>2, <2>3
<1>9. CASE Len(F) # 0
  <2>1. FlattenSeq(F) = f[Len(F)]
    BY <1>3, <1>9, FlattenIs
  <2>2. f[Len(F)] = g[Len(F)]
    <3>1. Len(F) \in 0..Len(F)
      BY <1>2
    <3>2. Len(F) \in S
      BY <1>6, <3>1, Zenon
    <3>3. QED
      BY <1>9, <3>2, Zenon
  <2>3. g[Len(F) + 1] = g[Len(F)] \o x
    <3>1. Len(F) + 1 # 1 /\ Len(F) + 1 - 1 = Len(F) /\ Len(F) + 1 \in 1..(Len(F) + 1)
      BY <1>2, <1>9
    <3>2. g[Len(F) + 1] = FlatTurn(G, g, Len(F) + 1)
      BY <1>5, <3>1
    <3>3. QED
      BY <1>2, <3>1, <3>2 DEF FlatTurn
  <2>4. QED
    BY <1>1, <1>7, <2>1, <2>2, <2>3
<1>10. QED
  BY <1>8, <1>9

(* TLV blocks with a length their form can say.                            *)
Sized(t) == Len(t.value) < IF t.long THEN 256 * 256 ELSE LongLength

(* The TLV blocks that can lie on a tag.                                   *)
Tlvs == {t \in [type: Cell, long: BOOLEAN, value: Seq(Cell)] : Sized(t)}

(* A block of one byte.                                                    *)
Lone(t) == t.type \in {NullTlv, TerminatorTlv}

(* How a block lies there: its type, its length, its value.                *)
Lies(s, t) ==
    /\ s \in Seq(Cell) /\ Len(s) >= 1 /\ s[1] = t.type
    /\ Lone(t) => Len(s) = 1
    /\ ~Lone(t) /\ t.long =>
          /\ Len(s) = 4 + Len(t.value) /\ s[2] = LongLength
          /\ s[3] * 256 + s[4] = Len(t.value)
          /\ \A i \in 1..Len(t.value) : s[4 + i] = t.value[i]
    /\ ~Lone(t) /\ ~t.long =>
          /\ Len(s) = 2 + Len(t.value) /\ s[2] # LongLength
          /\ s[2] = Len(t.value)
          /\ \A i \in 1..Len(t.value) : s[2 + i] = t.value[i]

(* What a byte is, for the places where it is computed with.               *)
LEMMA CellIs == \A b \in Int : b \in Cell <=> 0 <= b /\ b <= 255
BY DEF Cell

(* A byte is a number.                                                     *)
LEMMA CellNumber == Cell \subseteq Nat
BY DEF Cell

(* A length below 2^16 is told by its high and its low byte.               *)
LEMMA TwoCells ==
    ASSUME NEW n \in Nat, n < 256 * 256
    PROVE  /\ (n \div 256) \in Nat /\ (n % 256) \in Nat
           /\ (n \div 256) <= 255 /\ (n % 256) <= 255
           /\ (n \div 256) * 256 + (n % 256) = n
OBVIOUS

(* Two stretches of bytes, one behind the other.                           *)
LEMMA CellsJoin ==
    ASSUME NEW s \in Seq(Cell), NEW t \in Seq(Cell)
    PROVE  /\ s \o t \in Seq(Cell) /\ Len(s \o t) = Len(s) + Len(t)
           /\ \A i \in 1..Len(s) : (s \o t)[i] = s[i]
           /\ \A i \in 1..Len(t) : (s \o t)[Len(s) + i] = t[i]
OBVIOUS

(* Every block that can lie on a tag lies there as described.              *)
LEMMA LaidIs ==
    ASSUME NEW t \in Tlvs
    PROVE  Lies(Laid(t), t)
<1>1. /\ t.type \in Cell /\ t.long \in BOOLEAN /\ t.value \in Seq(Cell)
      /\ Sized(t) /\ Len(t.value) \in Nat
  BY DEF Tlvs
<1>2. CASE Lone(t)
  <2>1. Laid(t) = <<t.type>>
    BY <1>2 DEF Laid, Lone
  <2>2. QED
    BY <1>1, <1>2, <2>1 DEF Lies
<1>3. CASE ~Lone(t) /\ t.long
  <2>1. PICK a, b : a = Len(t.value) \div 256 /\ b = Len(t.value) % 256
    OBVIOUS
  <2>2. a \in Cell /\ b \in Cell /\ a * 256 + b = Len(t.value) /\ LongLength \in Cell
    <3>1. Len(t.value) \in Nat /\ Len(t.value) < 256 * 256
      BY <1>1, <1>3 DEF Sized
    <3>2. PICK n : n = Len(t.value)
      OBVIOUS
    <3>3. /\ a \in Nat /\ b \in Nat /\ a <= 255 /\ b <= 255
          /\ a * 256 + b = n
      <4>1. n \in Nat /\ n < 256 * 256 /\ a = n \div 256 /\ b = n % 256
        BY <2>1, <3>1, <3>2
      <4>2. /\ (n \div 256) \in Nat /\ (n % 256) \in Nat
            /\ (n \div 256) <= 255 /\ (n % 256) <= 255
            /\ (n \div 256) * 256 + (n % 256) = n
        BY <4>1, TwoCells
      <4>3. QED
        BY <4>1, <4>2
    <3>4. a \in Cell /\ b \in Cell /\ LongLength \in Cell
      BY <3>3, CellIs DEF LongLength
    <3>5. QED
      BY <3>2, <3>3, <3>4
  <2>3. PICK h : h = <<t.type, LongLength, a, b>>
    OBVIOUS
  <2>4. /\ h \in Seq(Cell) /\ Len(h) = 4
        /\ h[1] = t.type /\ h[2] = LongLength /\ h[3] = a /\ h[4] = b
    BY <1>1, <2>2, <2>3
  <2>5. Laid(t) = h \o t.value
    BY <1>3, <2>1, <2>3 DEF Laid, Lone
  <2>6. PICK s : s = h \o t.value
    OBVIOUS
  <2>7. /\ s \in Seq(Cell) /\ Len(s) = 4 + Len(t.value)
        /\ s[1] = h[1] /\ s[2] = h[2] /\ s[3] = h[3] /\ s[4] = h[4]
        /\ \A i \in 1..Len(t.value) : s[4 + i] = t.value[i]
    <3>1. PICK v : v = t.value
      OBVIOUS
    <3>2. /\ v \in Seq(Cell) /\ s = h \o v
          /\ 1 \in 1..Len(h) /\ 2 \in 1..Len(h) /\ 3 \in 1..Len(h) /\ 4 \in 1..Len(h)
      BY <1>1, <2>4, <2>6, <3>1
    <3>3. /\ s \in Seq(Cell) /\ Len(s) = Len(h) + Len(v)
          /\ \A i \in 1..Len(h) : s[i] = h[i]
          /\ \A i \in 1..Len(v) : s[Len(h) + i] = v[i]
      BY <2>4, <3>2, CellsJoin
    <3>4. QED
      BY <2>4, <3>1, <3>2, <3>3
  <2>8. Lies(s, t)
    BY <1>1, <1>3, <2>2, <2>4, <2>7 DEF Lies
  <2>9. QED
    BY <2>5, <2>6, <2>8
<1>4. CASE ~Lone(t) /\ ~t.long
  <2>1. Len(t.value) \in Cell /\ Len(t.value) # LongLength
    <3>1. Len(t.value) < 255 /\ Len(t.value) \in Nat
      BY <1>1, <1>4 DEF Sized, LongLength
    <3>2. PICK n : n = Len(t.value)
      OBVIOUS
    <3>3. n \in Int /\ 0 <= n /\ n <= 255 /\ n # LongLength
      <4>1. \A m \in Nat : m < 255 => m \in Int /\ 0 <= m /\ m <= 255 /\ m # 255
        OBVIOUS
      <4>2. QED
        BY <3>1, <3>2, <4>1, Zenon DEF LongLength
    <3>4. QED
      BY <3>2, <3>3, CellIs
  <2>3. PICK h : h = <<t.type, Len(t.value)>>
    OBVIOUS
  <2>4. h \in Seq(Cell) /\ Len(h) = 2 /\ h[1] = t.type /\ h[2] = Len(t.value)
    BY <1>1, <2>1, <2>3
  <2>5. Laid(t) = h \o t.value
    BY <1>4, <2>3 DEF Laid, Lone
  <2>6. PICK s : s = h \o t.value
    OBVIOUS
  <2>7. /\ s \in Seq(Cell) /\ Len(s) = 2 + Len(t.value)
        /\ s[1] = h[1] /\ s[2] = h[2]
        /\ \A i \in 1..Len(t.value) : s[2 + i] = t.value[i]
    <3>1. PICK v : v = t.value
      OBVIOUS
    <3>2. v \in Seq(Cell) /\ s = h \o v /\ 1 \in 1..Len(h) /\ 2 \in 1..Len(h)
      BY <1>1, <2>4, <2>6, <3>1
    <3>3. /\ s \in Seq(Cell) /\ Len(s) = Len(h) + Len(v)
          /\ \A i \in 1..Len(h) : s[i] = h[i]
          /\ \A i \in 1..Len(v) : s[Len(h) + i] = v[i]
      BY <2>4, <3>2, CellsJoin
    <3>4. QED
      BY <2>4, <3>1, <3>2, <3>3
  <2>8. Lies(s, t)
    BY <1>1, <1>4, <2>1, <2>4, <2>7 DEF Lies
  <2>9. QED
    BY <2>5, <2>6, <2>8
<1>5. QED
  BY <1>2, <1>3, <1>4

-----------------------------------------------------------------------------
(* The first k blocks, one behind the other.                               *)
Pieces(T, k) == [i \in 1..k |-> Laid(T[i])]

(* The bytes of the first k blocks, and where they end.                    *)
Area(T, k) == FlattenSeq(Pieces(T, k))

EndOf(T, k) == Len(Area(T, k))

(* One block more is one piece more.                                       *)
LEMMA PiecesAre ==
    ASSUME NEW T \in Seq(Tlvs), NEW k \in 0..Len(T)
    PROVE  /\ Pieces(T, k) \in Seq(Seq(Cell)) /\ Len(Pieces(T, k)) = k
           /\ k < Len(T) => Pieces(T, k + 1) = Append(Pieces(T, k), Laid(T[k + 1]))
<1>1. \A i \in 1..Len(T) : Laid(T[i]) \in Seq(Cell)
  BY LaidIs DEF Lies
<1>2. Pieces(T, k) \in Seq(Seq(Cell)) /\ Len(Pieces(T, k)) = k
  BY <1>1 DEF Pieces
<1>3. ASSUME k < Len(T)
      PROVE  Pieces(T, k + 1) = Append(Pieces(T, k), Laid(T[k + 1]))
  <2>1. Pieces(T, k + 1) = [i \in 1..(k + 1) |-> Laid(T[i])]
    BY DEF Pieces
  <2>2. \A i \in 1..k : Pieces(T, k)[i] = Laid(T[i])
    BY DEF Pieces
  <2>3. PICK P : P = Pieces(T, k)
    OBVIOUS
  <2>4. Append(P, Laid(T[k + 1])) = [i \in 1..(k + 1) |-> Laid(T[i])]
    <3>1. PICK x : x = Laid(T[k + 1])
      OBVIOUS
    <3>2. /\ DOMAIN Append(P, x) = 1..(k + 1)
          /\ \A i \in 1..k : Append(P, x)[i] = P[i]
          /\ Append(P, x)[k + 1] = x
          /\ Append(P, x) = [i \in DOMAIN Append(P, x) |-> Append(P, x)[i]]
      <4>1. x \in Seq(Cell)
        BY <1>1, <1>3, <3>1
      <4>2. P \in Seq(Seq(Cell)) /\ Len(P) = k
        BY <1>2, <2>3
      <4>3. PICK Q : Q = Append(P, x)
        OBVIOUS
      <4>4. /\ Q \in Seq(Seq(Cell)) /\ Len(Q) = k + 1 /\ Q[k + 1] = x
            /\ \A i \in 1..k : Q[i] = P[i]
        BY <4>1, <4>2, <4>3
      <4>5. DOMAIN Q = 1..(k + 1) /\ Q = [i \in DOMAIN Q |-> Q[i]]
        BY <4>4
      <4>6. QED
        BY <4>3, <4>4, <4>5
    <3>3. \A i \in 1..(k + 1) : Append(P, x)[i] = Laid(T[i])
      BY <2>2, <2>3, <3>1, <3>2
    <3>4. QED
      BY <3>1, <3>2, <3>3
  <2>5. QED
    BY <2>1, <2>3, <2>4
<1>4. QED
  BY <1>2, <1>3

(* Each block lies behind the ones before it.                              *)
LEMMA AreaIs ==
    ASSUME NEW T \in Seq(Tlvs)
    PROVE  /\ Area(T, 0) = <<>>
           /\ \A k \in 0..Len(T) : Area(T, k) \in Seq(Cell)
           /\ \A k \in 0..(Len(T) - 1) : Area(T, k + 1) = Area(T, k) \o Laid(T[k + 1])
<1>0. Len(T) \in Nat
  OBVIOUS
<1>1. Area(T, 0) = <<>>
  <2>1. 0 \in 0..Len(T)
    BY <1>0
  <2>2. Pieces(T, 0) = <<>>
    BY <2>1, PiecesAre
  <2>3. Len(<<>>) = 0
    OBVIOUS
  <2>4. QED
    BY <2>2, <2>3, FlattenIs DEF Area
<1>2. ASSUME NEW k \in 0..(Len(T) - 1)
      PROVE  Area(T, k + 1) = Area(T, k) \o Laid(T[k + 1])
  <2>1. k \in 0..Len(T) /\ k < Len(T) /\ T[k + 1] \in Tlvs
    BY <1>0
  <2>2. Laid(T[k + 1]) \in Seq(Cell)
    BY <2>1, LaidIs DEF Lies
  <2>3. Pieces(T, k) \in Seq(Seq(Cell))
    BY <2>1, PiecesAre
  <2>4. Pieces(T, k + 1) = Append(Pieces(T, k), Laid(T[k + 1]))
    BY <2>1, PiecesAre
  <2>5. PICK x, P : x = Laid(T[k + 1]) /\ P = Pieces(T, k)
    OBVIOUS
  <2>6. FlattenSeq(Append(P, x)) = FlattenSeq(P) \o x
    BY <2>2, <2>3, <2>5, FlattenGrows
  <2>7. QED
    BY <2>4, <2>5, <2>6, Zenon DEF Area
<1> DEFINE S == {k \in Nat : Area(T, k) \in Seq(Cell)}
<1>3. 0 \in S
  <2>1. <<>> \in Seq(Cell)
    OBVIOUS
  <2>2. QED
    BY <1>1, <2>1
<1>4. ASSUME NEW k \in 0..(Len(T) - 1), k \in S PROVE k + 1 \in S
  <2>1. T[k + 1] \in Tlvs /\ k + 1 \in Nat
    BY <1>0
  <2>2. Laid(T[k + 1]) \in Seq(Cell)
    BY <2>1, LaidIs DEF Lies
  <2>3. Area(T, k) \o Laid(T[k + 1]) \in Seq(Cell)
    BY <1>4, <2>2, CellsJoin
  <2>4. QED
    BY <1>2, <2>1, <2>3
<1> HIDE DEF S
<1>5. 0..Len(T) \subseteq S
  BY <1>0, <1>3, <1>4, Induction
<1>6. \A k \in 0..Len(T) : Area(T, k) \in Seq(Cell)
  BY <1>5 DEF S
<1>7. QED
  BY <1>1, <1>2, <1>6

(* The data area of a tag is its blocks, one behind the other.             *)
LEMMA DataAreaIs ==
    ASSUME NEW T \in Seq(Tlvs), NEW k \in 0..Len(T)
    PROVE  /\ DataArea(SubSeq(T, 1, k), <<>>) = Area(T, k)
           /\ DataArea(T, <<>>) = Area(T, Len(T))
<1>1. ASSUME NEW j \in 0..Len(T), NEW s, Len(s) = j, DOMAIN s = 1..j,
             \A i \in 1..j : s[i] = T[i]
      PROVE  DataArea(s, <<>>) = Area(T, j)
  <2>1. [i \in DOMAIN s |-> Laid(s[i])] = Pieces(T, j)
    BY <1>1 DEF Pieces
  <2>2. Area(T, j) \in Seq(Cell)
    BY AreaIs
  <2>3. Area(T, j) \o <<>> = Area(T, j)
    BY <2>2
  <2>4. QED
    BY <2>1, <2>3 DEF DataArea, Area
<1>2. PICK s : s = SubSeq(T, 1, k)
  OBVIOUS
<1>3. Len(s) = k /\ DOMAIN s = 1..k /\ \A i \in 1..k : s[i] = T[i]
  BY <1>2
<1>4. DataArea(s, <<>>) = Area(T, k)
  BY <1>1, <1>3
<1>5. Len(T) \in 0..Len(T) /\ DOMAIN T = 1..Len(T)
  OBVIOUS
<1>6. DataArea(T, <<>>) = Area(T, Len(T))
  BY <1>1, <1>5
<1>7. QED
  BY <1>2, <1>4, <1>6

(* What was laid down first stays where it is.                             *)
LEMMA EndsGrow ==
    ASSUME NEW T \in Seq(Tlvs), NEW n \in 0..Len(T), NEW k \in 0..n
    PROVE  /\ EndOf(T, k) \in Nat /\ EndOf(T, n) \in Nat /\ EndOf(T, k) <= EndOf(T, n)
           /\ \A i \in 1..EndOf(T, k) : Area(T, n)[i] = Area(T, k)[i]
<1>0. Len(T) \in Nat
  OBVIOUS
<1> DEFINE Kept(m, j) ==
             /\ EndOf(T, j) <= EndOf(T, m)
             /\ \A i \in 1..EndOf(T, j) : Area(T, m)[i] = Area(T, j)[i]
           S == {m \in Nat : \A j \in 0..m : Kept(m, j)}
<1>1. \A m \in 0..Len(T) : Area(T, m) \in Seq(Cell) /\ EndOf(T, m) \in Nat
  BY AreaIs DEF EndOf
<1>2. 0 \in S
  BY <1>0, <1>1
<1>3. ASSUME NEW m \in 0..(Len(T) - 1), m \in S PROVE m + 1 \in S
  <2>1. m \in 0..Len(T) /\ m + 1 \in 0..Len(T) /\ T[m + 1] \in Tlvs /\ m + 1 \in Nat
    BY <1>0
  <2>2. PICK a, b, l : a = Area(T, m) /\ b = Area(T, m + 1) /\ l = Laid(T[m + 1])
    OBVIOUS
  <2>3. a \in Seq(Cell) /\ l \in Seq(Cell) /\ b = a \o l
    BY <1>1, <2>1, <2>2, LaidIs, AreaIs DEF Lies
  <2>4. Kept(m + 1, m)
    <3>1. Len(b) = Len(a) + Len(l) /\ \A i \in 1..Len(a) : b[i] = a[i]
      BY <2>3
    <3>2. Len(a) \in Nat /\ Len(l) \in Nat
      BY <2>3
    <3>3. QED
      BY <2>2, <3>1, <3>2 DEF EndOf
  <2>5. ASSUME NEW j \in 0..m PROVE Kept(m + 1, j)
    <3>1. Kept(m, j)
      BY <1>3
    <3>2. j \in 0..Len(T) /\ EndOf(T, j) \in Nat /\ EndOf(T, m) \in Nat /\ EndOf(T, m + 1) \in Nat
      BY <1>0, <1>1, <2>1
    <3>3. QED
      BY <2>4, <3>1, <3>2
  <2>6. Kept(m + 1, m + 1)
    BY <1>1, <2>1
  <2> HIDE DEF Kept
  <2>7. ASSUME NEW j \in 0..(m + 1) PROVE Kept(m + 1, j)
    <3>1. j \in 0..m \/ j = m + 1
      OBVIOUS
    <3>2. QED
      BY <2>5, <2>6, <3>1
  <2>8. QED
    BY <2>1, <2>7
<1> HIDE DEF S
<1>4. 0..Len(T) \subseteq S
  BY <1>0, <1>2, <1>3, Induction
<1>5. n \in S
  BY <1>4
<1>6. Kept(n, k)
  BY <1>5 DEF S
<1>7. n \in 0..Len(T) /\ k \in 0..Len(T)
  BY <1>0
<1>8. QED
  BY <1>1, <1>6, <1>7

(* The blocks of a tag, one behind the other, fill it from the start.      *)
Placed(tag) ==
    /\ tag.tlvs \in Seq(Tlvs) /\ tag.bytes \in Seq(Cell)
    /\ \A k \in 0..Len(tag.tlvs) :
          EndOf(tag.tlvs, k) \in Nat /\ EndOf(tag.tlvs, k) <= Len(tag.bytes)
    /\ EndOf(tag.tlvs, 0) = 0
    /\ \A n \in 0..Len(tag.tlvs) : \A k \in 0..n :
          EndOf(tag.tlvs, k) <= EndOf(tag.tlvs, n)
    /\ \A k \in 0..(Len(tag.tlvs) - 1) :
          /\ EndOf(tag.tlvs, k + 1) = EndOf(tag.tlvs, k) + Len(Laid(tag.tlvs[k + 1]))
          /\ \A i \in 1..Len(Laid(tag.tlvs[k + 1])) :
                tag.bytes[EndOf(tag.tlvs, k) + i] = Laid(tag.tlvs[k + 1])[i]
    /\ LET e == EndOf(tag.tlvs, Len(tag.tlvs))
       IN e < Len(tag.bytes) => tag.bytes[e + 1] = TerminatorTlv

(* So lie the blocks of every tag that is written as the standard says     *)
(* (TagsAssumption).                                                       *)
LEMMA PlacedIs ==
    ASSUME NEW tag, LaidOut(tag)
    PROVE  Placed(tag)
<1>1. PICK T, B : T = tag.tlvs /\ B = tag.bytes
  OBVIOUS
<1>2. T \in Seq(Tlvs)
  <2>1. T \in Seq([type: Cell, long: BOOLEAN, value: Seq(Cell)])
    BY <1>1, Zenon DEF LaidOut
  <2>2. \A i \in DOMAIN T : Sized(T[i])
    BY <1>1, Zenon DEF LaidOut, Sized
  <2>3. \A i \in 1..Len(T) : T[i] \in Tlvs
    <3>1. TAKE i \in 1..Len(T)
    <3>2. T[i] \in [type: Cell, long: BOOLEAN, value: Seq(Cell)] /\ i \in DOMAIN T
      <4>1. PICK R : R = [type: Cell, long: BOOLEAN, value: Seq(Cell)]
        OBVIOUS
      <4>2. T \in Seq(R)
        BY <2>1, <4>1, Zenon
      <4>3. T[i] \in R /\ i \in DOMAIN T
        BY <4>2
      <4>4. QED
        BY <4>1, <4>3, Zenon
    <3>3. QED
      BY <2>2, <3>2, Zenon DEF Tlvs
  <2>4. QED
    BY <2>1, <2>3
<1>3. DataArea(T, <<>>) = Area(T, Len(T))
  <2>1. Len(T) \in 0..Len(T)
    BY <1>2
  <2>2. QED
    BY <1>2, <2>1, DataAreaIs
<1>4. PICK A : A = Area(T, Len(T))
  OBVIOUS
<1>5. /\ B \in Seq(Cell) /\ Len(A) <= Len(B) /\ \A i \in DOMAIN A : B[i] = A[i]
      /\ Len(A) < Len(B) => B[Len(A) + 1] = TerminatorTlv
  BY <1>1, <1>3, <1>4, Zenon DEF LaidOut
<1>6. A \in Seq(Cell) /\ Len(A) = EndOf(T, Len(T)) /\ Len(T) \in Nat
  BY <1>2, <1>4, AreaIs DEF EndOf
<1>7. \A n \in 0..Len(T) : \A k \in 0..n :
         EndOf(T, k) \in Nat /\ EndOf(T, k) <= EndOf(T, n)
  BY <1>2, EndsGrow
<1>8. \A k \in 0..Len(T) : EndOf(T, k) \in Nat /\ EndOf(T, k) <= Len(B)
  BY <1>5, <1>6, <1>7
<1>9. EndOf(T, 0) = 0
  BY <1>2, AreaIs DEF EndOf
<1>10. ASSUME NEW k \in 0..(Len(T) - 1)
       PROVE  /\ EndOf(T, k + 1) = EndOf(T, k) + Len(Laid(T[k + 1]))
              /\ \A i \in 1..Len(Laid(T[k + 1])) :
                    B[EndOf(T, k) + i] = Laid(T[k + 1])[i]
  <2>1. k \in 0..Len(T) /\ k + 1 \in 0..Len(T) /\ T[k + 1] \in Tlvs
    BY <1>2, <1>6
  <2>2. PICK a, b, l : a = Area(T, k) /\ b = Area(T, k + 1) /\ l = Laid(T[k + 1])
    OBVIOUS
  <2>3. a \in Seq(Cell) /\ l \in Seq(Cell) /\ b = a \o l
    BY <1>2, <2>1, <2>2, LaidIs, AreaIs DEF Lies
  <2>4. /\ b \in Seq(Cell) /\ Len(b) = Len(a) + Len(l)
        /\ \A i \in 1..Len(l) : b[Len(a) + i] = l[i]
    BY <2>3, CellsJoin
  <2>5. \A i \in 1..Len(b) : A[i] = b[i]
    <3>1. Len(T) \in 0..Len(T) /\ k + 1 \in 0..Len(T)
      BY <1>6
    <3>2. \A i \in 1..EndOf(T, k + 1) : Area(T, Len(T))[i] = Area(T, k + 1)[i]
      BY <1>2, <3>1, EndsGrow
    <3>3. QED
      BY <1>4, <2>2, <3>2 DEF EndOf
  <2>6. Len(b) <= Len(A)
    <3>1. Len(T) \in 0..Len(T) /\ k + 1 \in 0..Len(T)
      BY <1>6
    <3>2. EndOf(T, k + 1) <= EndOf(T, Len(T))
      BY <1>7, <3>1
    <3>3. QED
      BY <1>6, <2>2, <3>2 DEF EndOf
  <2>7. \A i \in 1..Len(l) : B[Len(a) + i] = l[i]
    <3>1. TAKE i \in 1..Len(l)
    <3>2. Len(a) \in Nat /\ Len(l) \in Nat /\ Len(A) \in Nat
      BY <1>6, <2>3
    <3>3. Len(a) + i \in 1..Len(b) /\ Len(a) + i \in DOMAIN A
      BY <1>6, <2>4, <2>6, <3>2
    <3>4. QED
      BY <1>5, <2>4, <2>5, <3>3
  <2>8. EndOf(T, k) = Len(a) /\ EndOf(T, k + 1) = Len(b)
    BY <2>2 DEF EndOf
  <2>9. QED
    BY <2>2, <2>4, <2>7, <2>8
<1>11. QED
  BY <1>1, <1>2, <1>5, <1>6, <1>7, <1>8, <1>9, <1>10 DEF Placed

-----------------------------------------------------------------------------
(* What the message of a tag is, told from its blocks one after the other. *)
Plain(T, k) == \A i \in 1..k : T[i].type \notin {NdefTlv, TerminatorTlv}

(* The NDEF message blocks, the first of them, and how far the first k     *)
(* blocks are from the end of what the driver reads.                       *)
Ndefs(T) == {i \in DOMAIN T : T[i].type = NdefTlv}

First(T) == CHOOSE i \in Ndefs(T) : \A j \in Ndefs(T) : i <= j

InReach(tag, k) ==
    /\ HasNdef(tag.cc) /\ tag.cc.open
    /\ EndOf(tag.tlvs, k) <= Capacity(tag.cc) /\ EndOf(tag.tlvs, k) <= Reach

(* The first of the NDEF message blocks is one, and none is before it.     *)
LEMMA FirstIsLeast ==
    ASSUME NEW T \in Seq(Tlvs), Ndefs(T) # {}
    PROVE  /\ First(T) \in Ndefs(T) /\ First(T) \in 1..Len(T)
           /\ \A j \in Ndefs(T) : First(T) <= j
<1>1. Ndefs(T) \in SUBSET Nat /\ Ndefs(T) \subseteq 1..Len(T)
  BY DEF Ndefs
<1>2. \E i \in Ndefs(T) : \A j \in Ndefs(T) : i <= j
  BY <1>1, LeastNumber
<1>3. First(T) \in Ndefs(T) /\ \A j \in Ndefs(T) : First(T) <= j
  BY <1>2, Zenon DEF First
<1>4. QED
  BY <1>1, <1>3

(* The message of a tag is that of its first NDEF block, if no terminator  *)
(* is before it and the driver can get to its end.                         *)
LEMMA WrittenIs ==
    ASSUME NEW tag, Placed(tag)
    PROVE  Written(tag) =
             IF /\ Ndefs(tag.tlvs) # {} /\ InReach(tag, First(tag.tlvs))
                /\ \A i \in 1..First(tag.tlvs) : tag.tlvs[i].type # TerminatorTlv
             THEN tag.tlvs[First(tag.tlvs)].value
             ELSE <<>>
<1>1. PICK T, f : T = tag.tlvs /\ f = First(T)
  OBVIOUS
<1>2. T \in Seq(Tlvs)
  BY <1>1 DEF Placed
<1>3. Written(tag) =
        LET area == DataArea(SubSeq(tag.tlvs, 1, First(tag.tlvs)), <<>>)
        IN  IF /\ HasNdef(tag.cc) /\ tag.cc.open /\ Ndefs(tag.tlvs) # {}
               /\ \A i \in 1..First(tag.tlvs) : tag.tlvs[i].type # TerminatorTlv
               /\ Len(area) <= Capacity(tag.cc) /\ Len(area) <= Reach
            THEN tag.tlvs[First(tag.tlvs)].value
            ELSE <<>>
  BY Zenon DEF Written, Ndefs, First
<1>4. Written(tag) =
        LET area == DataArea(SubSeq(T, 1, f), <<>>)
        IN  IF /\ HasNdef(tag.cc) /\ tag.cc.open /\ Ndefs(T) # {}
               /\ \A i \in 1..f : T[i].type # TerminatorTlv
               /\ Len(area) <= Capacity(tag.cc) /\ Len(area) <= Reach
            THEN T[f].value
            ELSE <<>>
  BY <1>1, <1>3
<1>5. CASE Ndefs(T) = {}
  BY <1>1, <1>4, <1>5
<1>6. CASE Ndefs(T) # {}
  <2>1. f \in 0..Len(T)
    BY <1>1, <1>2, <1>6, FirstIsLeast
  <2>2. Len(DataArea(SubSeq(T, 1, f), <<>>)) = EndOf(T, f)
    BY <1>2, <2>1, DataAreaIs DEF EndOf
  <2>3. QED
    BY <1>1, <1>4, <1>6, <2>2 DEF InReach
<1>7. QED
  BY <1>5, <1>6

(* Behind plain blocks: nothing, a terminator, or an NDEF message.         *)
LEMMA WrittenBehind ==
    ASSUME NEW tag, Placed(tag), NEW k \in 0..Len(tag.tlvs), Plain(tag.tlvs, k)
    PROVE  /\ k = Len(tag.tlvs) => Written(tag) = <<>>
           /\ k < Len(tag.tlvs) /\ ~InReach(tag, k + 1) => Written(tag) = <<>>
           /\ k < Len(tag.tlvs) /\ tag.tlvs[k + 1].type = TerminatorTlv
                => Written(tag) = <<>>
           /\ k < Len(tag.tlvs) /\ tag.tlvs[k + 1].type = NdefTlv /\ InReach(tag, k + 1)
                => Written(tag) = tag.tlvs[k + 1].value
<1>1. PICK T, f, n : T = tag.tlvs /\ f = First(T) /\ n = Len(T)
  OBVIOUS
<1>2. T \in Seq(Tlvs) /\ n \in Nat /\ k \in 0..n /\ DOMAIN T = 1..n
  BY <1>1 DEF Placed
<1>3. Written(tag) =
             IF /\ Ndefs(T) # {} /\ InReach(tag, f)
                /\ \A i \in 1..f : T[i].type # TerminatorTlv
             THEN T[f].value
             ELSE <<>>
  BY <1>1, WrittenIs, Zenon
<1>4. \A i \in Ndefs(T) : i \in 1..n /\ T[i].type = NdefTlv /\ i > k
  BY <1>1, <1>2 DEF Ndefs, Plain
<1>5. Ndefs(T) # {} => f \in Ndefs(T) /\ f \in 1..n /\ f > k /\ \A j \in Ndefs(T) : f <= j
  BY <1>1, <1>2, <1>4, FirstIsLeast
<1>6. ASSUME k = n PROVE Written(tag) = <<>>
  BY <1>2, <1>3, <1>5, <1>6
<1>7. ASSUME k < n, ~InReach(tag, k + 1) PROVE Written(tag) = <<>>
  <2>1. ASSUME Ndefs(T) # {}, InReach(tag, f) PROVE FALSE
    <3>1. f \in 0..n /\ k + 1 \in 0..f /\ k + 1 \in 0..n
      BY <1>2, <1>5, <2>1
    <3>2. EndOf(T, k + 1) <= EndOf(T, f) /\ EndOf(T, k + 1) \in Nat /\ EndOf(T, f) \in Nat
      BY <1>1, <3>1 DEF Placed
    <3>3. Reach \in Int /\ Capacity(tag.cc) \in Int
      BY <2>1, Type2Assumption DEF InReach, HasNdef, Reach
    <3>4. QED
      BY <1>1, <1>7, <2>1, <3>2, <3>3 DEF InReach
  <2>2. QED
    BY <1>3, <2>1
<1>8. ASSUME k < n, T[k + 1].type = TerminatorTlv PROVE Written(tag) = <<>>
  <2>1. Ndefs(T) # {} => k + 1 \in 1..f
    BY <1>2, <1>5
  <2>2. QED
    BY <1>3, <1>8, <2>1
<1>9. ASSUME k < n, T[k + 1].type = NdefTlv, InReach(tag, k + 1)
      PROVE  Written(tag) = T[k + 1].value
  <2>1. k + 1 \in Ndefs(T)
    BY <1>2, <1>9 DEF Ndefs
  <2>2. f = k + 1
    BY <1>2, <1>5, <2>1
  <2>3. \A i \in 1..f : T[i].type # TerminatorTlv
    <3>1. TAKE i \in 1..f
    <3>2. i \in 1..k \/ i = k + 1
      BY <1>2, <2>2
    <3>3. QED
      BY <1>1, <1>9, <3>2 DEF Plain, NdefTlv, TerminatorTlv
  <2>4. QED
    BY <1>3, <1>9, <2>1, <2>2, <2>3
<1>10. QED
  BY <1>1, <1>6, <1>7, <1>8, <1>9

(* What READ shows of a tag: its bytes, then zeros.                        *)
TagByte(tag, i) == IF i <= Len(tag.bytes) THEN tag.bytes[i] ELSE 0

(* What was read is the beginning of the tag.                              *)
MemoryOK(tag) ==
    /\ memory \in Seq(Cell) /\ cursor \in Nat
    /\ \A i \in 1..Len(memory) : memory[i] = TagByte(tag, i)

(* The bytes of the memory at the cursor are those of the tag.             *)
LEMMA TlvByteIs ==
    ASSUME NEW tag, MemoryOK(tag), NEW i \in Nat \ {0}, Known(i)
    PROVE  TlvByte(i) = TagByte(tag, cursor + i) /\ TlvByte(i) \in Nat
<1>1. cursor + i \in 1..Len(memory)
  BY DEF MemoryOK, Known
<1>2. memory[cursor + i] = TagByte(tag, cursor + i) /\ memory[cursor + i] \in Cell
  BY <1>1 DEF MemoryOK
<1>3. QED
  BY <1>2, CellNumber DEF TlvByte

(* Where a block begins, the walk asks for no more than the block, and has *)
(* it whole when it has what it asked for.                                 *)
LEMMA BlockRequired ==
    ASSUME NEW tag, Placed(tag), MemoryOK(tag),
           NEW k \in 0..(Len(tag.tlvs) - 1), cursor = EndOf(tag.tlvs, k)
    PROVE  /\ Required \in Nat /\ Required > cursor
           /\ Required <= EndOf(tag.tlvs, k + 1)
           /\ Required <= Len(memory) =>
                 /\ Required = EndOf(tag.tlvs, k + 1)
                 /\ TlvByte(1) = tag.tlvs[k + 1].type
                 /\ ~Lone(tag.tlvs[k + 1]) => TlvValue = tag.tlvs[k + 1].value
<1>1. PICK t, s, v : t = tag.tlvs[k + 1] /\ s = Laid(t) /\ v = t.value
  OBVIOUS
<1>2. t \in Tlvs /\ v \in Seq(Cell) /\ Len(v) \in Nat
  BY <1>1 DEF Placed, Tlvs
<1>3. Lies(s, t)
  BY <1>1, <1>2, LaidIs
<1>4. s \in Seq(Cell) /\ Len(s) \in Nat /\ Len(s) >= 1 /\ s[1] = t.type
  BY <1>3 DEF Lies
<1>5. /\ EndOf(tag.tlvs, k + 1) = cursor + Len(s)
      /\ \A i \in 1..Len(s) : tag.bytes[cursor + i] = s[i]
      /\ cursor + Len(s) <= Len(tag.bytes)
      /\ cursor \in Nat /\ Len(memory) \in Nat /\ Len(tag.bytes) \in Nat
  <2>1. k + 1 \in 0..Len(tag.tlvs)
    BY DEF Placed
  <2>2. /\ EndOf(tag.tlvs, k + 1) = EndOf(tag.tlvs, k) + Len(Laid(tag.tlvs[k + 1]))
        /\ \A i \in 1..Len(Laid(tag.tlvs[k + 1])) :
              tag.bytes[EndOf(tag.tlvs, k) + i] = Laid(tag.tlvs[k + 1])[i]
        /\ EndOf(tag.tlvs, k + 1) <= Len(tag.bytes)
    BY <2>1, Zenon DEF Placed
  <2>3. cursor \in Nat /\ Len(memory) \in Nat /\ Len(tag.bytes) \in Nat
    BY DEF MemoryOK, Placed
  <2>4. QED
    BY <1>1, <2>2, <2>3, Zenon
<1>6. ASSUME NEW i \in 1..Len(s), cursor + i <= Len(memory)
      PROVE  memory[cursor + i] = s[i] /\ s[i] \in Nat
  <2>1. cursor + i \in 1..Len(memory) /\ cursor + i <= Len(tag.bytes)
    BY <1>4, <1>5, <1>6
  <2>2. memory[cursor + i] = TagByte(tag, cursor + i)
    BY <2>1 DEF MemoryOK
  <2>3. TagByte(tag, cursor + i) = tag.bytes[cursor + i]
    BY <2>1 DEF TagByte
  <2>4. s[i] \in Nat
    <3>1. s[i] \in Cell
      BY <1>4
    <3>2. QED
      BY <3>1, CellNumber, Zenon
  <2>5. QED
    BY <1>5, <2>2, <2>3, <2>4
<1>7. ASSUME NEW o \in {2, 4}, Len(s) = o + Len(v),
             cursor + Len(s) <= Len(memory),
             \A i \in 1..Len(v) : s[o + i] = v[i]
      PROVE  SubSeq(memory, cursor + (o + 1), cursor + Len(s)) = v
  <2>1. PICK w : w = SubSeq(memory, cursor + (o + 1), cursor + Len(s))
    OBVIOUS
  <2>2. /\ w \in Seq(Cell) /\ Len(w) = Len(v)
        /\ \A i \in 1..Len(v) : w[i] = memory[cursor + (o + i)]
    <3>1. PICK a, b, m : /\ a = cursor + (o + 1) /\ b = cursor + Len(s)
                         /\ m = memory
      OBVIOUS
    <3>2. /\ a \in Nat \ {0} /\ b \in Nat /\ b <= Len(m) /\ m \in Seq(Cell)
          /\ b - a + 1 = Len(v)
      <4>1. o \in Nat /\ cursor \in Nat /\ Len(s) = o + Len(v)
        BY <1>5, <1>7
      <4>2. a \in Nat \ {0} /\ b \in Nat /\ b - a + 1 = Len(v)
        <5>1. PICK c, l : c = cursor /\ l = Len(v)
          OBVIOUS
        <5>2. c \in Nat /\ l \in Nat /\ o \in Nat
          BY <1>2, <4>1, <5>1
        <5>3. a = c + (o + 1) /\ b = c + (o + l)
          BY <3>1, <4>1, <5>1, Zenon
        <5>4. a \in Nat \ {0} /\ b \in Nat /\ b - a + 1 = l
          BY <5>2, <5>3
        <5>5. QED
          BY <5>1, <5>4
      <4>3. b <= Len(m) /\ m \in Seq(Cell)
        BY <1>7, <3>1 DEF MemoryOK
      <4>4. QED
        BY <4>2, <4>3
    <3>3. a \in Int /\ b \in Int /\ \A i \in a..b : m[i] \in Cell
      BY <3>2
    <3>4. /\ w \in Seq(Cell)
          /\ Len(w) = IF a <= b THEN b - a + 1 ELSE 0
          /\ \A i \in 1..(b - a + 1) : w[i] = m[a + i - 1]
      <4>1. /\ SubSeq(m, a, b) \in Seq(Cell)
            /\ Len(SubSeq(m, a, b)) = IF a <= b THEN b - a + 1 ELSE 0
            /\ \A i \in 1..(b - a + 1) : SubSeq(m, a, b)[i] = m[a + i - 1]
        <5>1. \A i \in a..b : m[i] \in Cell
          BY <3>3
        <5>2. QED
          BY <3>3, <5>1, SubSeqProperties
      <4>2. w = SubSeq(m, a, b)
        BY <2>1, <3>1, Zenon
      <4>3. QED
        BY <4>1, <4>2, Zenon
    <3>5. Len(w) = Len(v)
      BY <1>2, <3>2, <3>4
    <3>6. \A i \in 1..Len(v) : a + i - 1 = cursor + (o + i)
      BY <1>2, <1>5, <3>1
    <3>7. \A i \in 1..Len(v) : w[i] = memory[cursor + (o + i)]
      <4>1. \A i \in 1..Len(v) : w[i] = m[a + i - 1]
        BY <3>2, <3>4, Zenon
      <4>2. QED
        BY <3>1, <3>6, <4>1, Zenon
    <3>8. QED
      BY <3>4, <3>5, <3>7, Zenon
  <2>3. \A i \in 1..Len(v) : w[i] = v[i]
    <3>1. TAKE i \in 1..Len(v)
    <3>2. o + i \in 1..Len(s) /\ cursor + (o + i) <= Len(memory)
      BY <1>2, <1>5, <1>7
    <3>3. memory[cursor + (o + i)] = s[o + i]
      BY <1>6, <3>2
    <3>4. QED
      BY <1>7, <2>2, <3>3
  <2>4. w = v
    BY <1>2, <2>2, <2>3, SeqEqual
  <2>5. QED
    BY <2>1, <2>4
<1>8. CASE ~Known(1)
  <2>1. Required = cursor + 1
    BY <1>8 DEF Required
  <2>2. QED
    BY <1>4, <1>5, <1>8, <2>1 DEF Known
<1>9. CASE Known(1)
  <2>1. 1 \in 1..Len(s) /\ cursor + 1 <= Len(memory)
    BY <1>4, <1>9 DEF Known
  <2>2. TlvByte(1) = t.type
    BY <1>4, <1>6, <2>1 DEF TlvByte
  <2>3. CASE Lone(t)
    <3>1. Required = cursor + 1 /\ Len(s) = 1
      BY <1>3, <1>9, <2>2, <2>3 DEF Required, Lone, Lies
    <3>2. QED
      BY <1>1, <1>5, <2>2, <2>3, <3>1
  <2>4. CASE ~Lone(t) /\ ~Known(2)
    <3>1. Required = cursor + 2
      BY <1>9, <2>2, <2>4 DEF Required, Lone
    <3>2. Len(s) >= 2
      BY <1>2, <1>3, <2>4 DEF Lies, Tlvs
    <3>3. QED
      BY <1>4, <1>5, <2>4, <3>1, <3>2 DEF Known
  <2>5. CASE ~Lone(t) /\ ~t.long /\ Known(2)
    <3>1. /\ Len(s) = 2 + Len(v) /\ s[2] # LongLength /\ s[2] = Len(v)
          /\ \A i \in 1..Len(v) : s[2 + i] = v[i]
      BY <1>1, <1>3, <2>5 DEF Lies
    <3>2. 2 \in 1..Len(s) /\ cursor + 2 <= Len(memory)
      BY <1>2, <2>5, <3>1 DEF Known
    <3>3. TlvByte(2) = Len(v) /\ TlvByte(2) # LongLength
      BY <1>6, <3>1, <3>2 DEF TlvByte
    <3>4. Required = cursor + (2 + Len(v))
      BY <1>9, <2>2, <2>5, <3>3 DEF Required, Lone
    <3>5. Required = cursor + Len(s)
      BY <3>1, <3>4
    <3>6. ASSUME Required <= Len(memory) PROVE TlvValue = v
      <4>1. SubSeq(memory, cursor + (2 + 1), cursor + Len(s)) = v
        BY <1>7, <3>1, <3>5, <3>6
      <4>2. cursor + 3 = cursor + (2 + 1)
        OBVIOUS
      <4>3. TlvValue = SubSeq(memory, cursor + 3, Required)
        BY <3>3 DEF TlvValue
      <4>4. QED
        BY <3>5, <4>1, <4>2, <4>3
    <3>7. QED
      BY <1>1, <1>2, <1>4, <1>5, <2>2, <3>5, <3>6
  <2>6. CASE ~Lone(t) /\ t.long /\ Known(2)
    <3>1. /\ Len(s) = 4 + Len(v) /\ s[2] = LongLength
          /\ s[3] * 256 + s[4] = Len(v)
          /\ \A i \in 1..Len(v) : s[4 + i] = v[i]
      BY <1>1, <1>3, <2>6 DEF Lies
    <3>2. 2 \in 1..Len(s) /\ 3 \in 1..Len(s) /\ 4 \in 1..Len(s)
      BY <1>2, <3>1
    <3>3. TlvByte(2) = LongLength
      BY <1>6, <2>6, <3>1, <3>2 DEF TlvByte, Known
    <3>4. CASE ~Known(4)
      <4>1. Required = cursor + 4
        BY <1>9, <2>2, <2>6, <3>3, <3>4 DEF Required, Lone
      <4>2. QED
        <5>1. Required > Len(memory)
          BY <1>5, <3>4, <4>1 DEF Known
        <5>2. Required \in Nat /\ Required > cursor /\ Required <= cursor + Len(s)
          <6>1. Len(s) = 4 + Len(v)
            BY <3>1
          <6>2. QED
            BY <1>2, <1>5, <4>1, <6>1
        <5>3. QED
          BY <1>5, <5>1, <5>2
    <3>5. CASE Known(4)
      <4>1. cursor + 3 <= Len(memory) /\ cursor + 4 <= Len(memory)
        BY <1>5, <3>5 DEF Known
      <4>2. TlvByte(3) = s[3] /\ TlvByte(4) = s[4] /\ s[3] \in Nat /\ s[4] \in Nat
        BY <1>6, <3>2, <4>1 DEF TlvByte
      <4>3. Required = cursor + (4 + TlvByte(3) * 256 + TlvByte(4))
        BY <1>9, <2>2, <2>6, <3>3, <3>5 DEF Required, Lone
      <4>4. 4 + s[3] * 256 + s[4] = 4 + Len(v)
        <5>1. PICK a, b, c : a = s[3] /\ b = s[4] /\ c = Len(v)
          OBVIOUS
        <5>2. a \in Nat /\ b \in Nat /\ c \in Nat /\ a * 256 + b = c
          BY <1>2, <3>1, <4>2, <5>1
        <5>3. 4 + a * 256 + b = 4 + c
          BY <5>2
        <5>4. QED
          BY <5>1, <5>3
      <4>5. Required = cursor + Len(s)
        BY <3>1, <4>2, <4>3, <4>4
      <4>6. ASSUME Required <= Len(memory) PROVE TlvValue = v
        <5>1. SubSeq(memory, cursor + (4 + 1), cursor + Len(s)) = v
          BY <1>7, <3>1, <4>5, <4>6
        <5>2. cursor + 5 = cursor + (4 + 1)
          OBVIOUS
        <5>3. TlvValue = SubSeq(memory, cursor + 5, Required)
          BY <3>3 DEF TlvValue
        <5>4. QED
          BY <4>5, <5>1, <5>2, <5>3
      <4>7. QED
        BY <1>1, <1>2, <1>4, <1>5, <2>2, <4>5, <4>6
    <3>6. QED
      BY <3>4, <3>5
  <2>7. QED
    BY <2>3, <2>4, <2>5, <2>6
<1>10. QED
  BY <1>8, <1>9

(* Behind the last block the walk meets a terminator, or zeros only.       *)
Beyond(tag) ==
    /\ Plain(tag.tlvs, Len(tag.tlvs))
    /\ cursor >= EndOf(tag.tlvs, Len(tag.tlvs))
    /\ cursor = EndOf(tag.tlvs, Len(tag.tlvs))
          \/ Len(tag.bytes) = EndOf(tag.tlvs, Len(tag.tlvs))

(* There the walk asks for one byte, and finds nothing but the end.        *)
LEMMA BeyondRequired ==
    ASSUME NEW tag, Placed(tag), MemoryOK(tag), Beyond(tag)
    PROVE  /\ Required = cursor + 1
           /\ Required <= Len(memory) =>
                 /\ TlvByte(1) \in {NullTlv, TerminatorTlv}
                 /\ TlvByte(1) = NullTlv
                       => Len(tag.bytes) = EndOf(tag.tlvs, Len(tag.tlvs))
<1>1. PICK e, b : e = EndOf(tag.tlvs, Len(tag.tlvs)) /\ b = Len(tag.bytes)
  OBVIOUS
<1>2. /\ e \in Nat /\ b \in Nat /\ e <= b /\ cursor \in Nat /\ Len(memory) \in Nat
      /\ e < b => tag.bytes[e + 1] = TerminatorTlv
      /\ cursor >= e /\ (cursor = e \/ b = e)
  <2>1. Len(tag.tlvs) \in 0..Len(tag.tlvs) /\ b \in Nat
    BY <1>1 DEF Placed
  <2>2. e \in Nat /\ e <= b
    BY <1>1, <2>1 DEF Placed
  <2>3. e < b => tag.bytes[e + 1] = TerminatorTlv
    BY <1>1, Zenon DEF Placed
  <2>4. cursor >= e /\ (cursor = e \/ b = e)
    BY <1>1, Zenon DEF Beyond
  <2>5. QED
    BY <2>1, <2>2, <2>3, <2>4 DEF MemoryOK
<1>3. ASSUME Known(1)
      PROVE  TlvByte(1) = IF cursor = e /\ e < b THEN TerminatorTlv ELSE NullTlv
  <2>1. TlvByte(1) = TagByte(tag, cursor + 1)
    BY <1>3, TlvByteIs
  <2>2. CASE cursor = e /\ e < b
    BY <1>1, <1>2, <2>1, <2>2 DEF TagByte
  <2>3. CASE ~(cursor = e /\ e < b)
    <3>1. ~(cursor + 1 <= b)
      BY <1>2, <2>3
    <3>2. QED
      BY <1>1, <2>1, <2>3, <3>1 DEF TagByte, NullTlv
  <2>4. QED
    BY <2>2, <2>3
<1>4. Known(1) => TlvByte(1) \in {NullTlv, TerminatorTlv}
  BY <1>3
<1>5. Required = cursor + 1
  BY <1>4 DEF Required
<1>6. Required <= Len(memory) => Known(1)
  BY <1>5 DEF Known
<1>7. Known(1) /\ TlvByte(1) = NullTlv => b = e
  BY <1>2, <1>3 DEF NullTlv, TerminatorTlv
<1>8. QED
  BY <1>1, <1>4, <1>5, <1>6, <1>7

(* How far the walk of a tag with a message to tell has come.              *)
AtBlock(tag) ==
    \E k \in 0..(Len(tag.tlvs) - 1) :
        Plain(tag.tlvs, k) /\ cursor = EndOf(tag.tlvs, k)

(* The memory holds whole READ answers, the last one cut to the capacity.  *)
BlocksRead(cc) ==
    /\ Len(memory) <= Capacity(cc) /\ Len(memory) <= Reach
    /\ Len(memory) = Capacity(cc) \/ \E m \in Nat : Len(memory) = m * BlockBytes

(* The walk stands in front of a block that it has not taken, or behind    *)
(* them all.                                                               *)
Walked(tag) ==
    /\ HasNdef(tag.cc) /\ tag.cc.open /\ MemoryOK(tag) /\ BlocksRead(tag.cc)
    /\ AtBlock(tag) \/ Beyond(tag)

(* Products keep the order of their factors.                               *)
LEMMA Orders ==
    ASSUME NEW a \in Nat, NEW b \in Nat, NEW c \in Nat
    PROVE  /\ a <= b => a * c <= b * c
           /\ c > 0 /\ a * c < b * c => a < b
<1>1. ASSUME a <= b PROVE a * c <= b * c
  <2>1. PICK d \in Nat : b = a + d
    <3>1. b - a \in Nat /\ b = a + (b - a)
      BY <1>1
    <3>2. QED
      BY <3>1
  <2>2. b * c = a * c + d * c
    BY <2>1
  <2>3. a * c \in Nat /\ d * c \in Nat
    OBVIOUS
  <2>4. QED
    BY <2>2, <2>3
<1>2. ASSUME c > 0, a * c < b * c PROVE a < b
  <2>1. ASSUME b <= a PROVE FALSE
    <3>1. PICK d \in Nat : a = b + d
      <4>1. a - b \in Nat /\ a = b + (a - b)
        BY <2>1
      <4>2. QED
        BY <4>1
    <3>2. a * c = b * c + d * c
      BY <3>1
    <3>3. b * c \in Nat /\ d * c \in Nat
      OBVIOUS
    <3>4. QED
      BY <1>2, <3>2, <3>3
  <2>2. QED
    BY <2>1
<1>3. QED
  BY <1>1, <1>2

(* What a quotient is, for the pages of a capacity.                        *)
LEMMA Quotients ==
    ASSUME NEW a \in Nat, NEW q \in Nat \ {0}
    PROVE  /\ (a \div q) \in Nat /\ (a \div q) * q <= a
           /\ a < ((a \div q) + 1) * q
           /\ (a * q) \div q = a
           /\ a % q = 0 => a = (a \div q) * q
<1>1. PICK d, r : d = a \div q /\ r = a % q
  OBVIOUS
<1>2. d \in Nat /\ r \in 0..(q - 1) /\ a = q * d + r
  BY <1>1
<1>3. d * q = q * d /\ (d + 1) * q = q * d + q /\ q * d \in Nat
  BY <1>2
<1>4. d * q <= a /\ a < (d + 1) * q /\ (r = 0 => a = d * q)
  BY <1>2, <1>3
<1>5. (a * q) \div q = a
  <2>1. PICK x : x = a * q
    OBVIOUS
  <2>2. PICK e, p : e = x \div q /\ p = x % q
    OBVIOUS
  <2>3. x \in Nat /\ e \in Nat /\ p \in 0..(q - 1) /\ x = q * e + p
    BY <2>1, <2>2
  <2>4. e * q = q * e /\ (e + 1) * q = q * e + q /\ q * e \in Nat /\ e + 1 \in Nat
    BY <2>3
  <2>5. e * q <= x /\ x < (e + 1) * q
    BY <2>3, <2>4
  <2>6. a < e + 1
    BY <2>1, <2>3, <2>5, Orders
  <2>7. e <= a
    <3>1. (a + 1) * q = a * q + q
      OBVIOUS
    <3>2. e * q < (a + 1) * q
      BY <2>1, <2>3, <2>4, <2>5, <3>1
    <3>3. a + 1 \in Nat
      OBVIOUS
    <3>4. e < a + 1
      BY <2>3, <3>2, <3>3, Orders
    <3>5. QED
      BY <2>3, <3>4
  <2>8. QED
    BY <2>1, <2>2, <2>3, <2>6, <2>7
<1>6. QED
  BY <1>1, <1>2, <1>4, <1>5

(* Where the next block begins, and how much can still be read, after m    *)
(* whole ones.                                                             *)
LEMMA Paging ==
    ASSUME NEW m \in Nat, Len(memory) = m * BlockBytes
    PROVE  /\ (NextPage - FirstPage) * PageBytes = m * BlockBytes
           /\ Reach \in Nat
           /\ ~PastSectorEnd => (m + 1) * BlockBytes <= Reach
           /\ PastSectorEnd => m * BlockBytes >= Reach
<1>1. PICK B, P, q, d : /\ B = BlockBytes /\ P = PageBytes /\ q = B \div P
                        /\ d = LastPage - FirstPage
  OBVIOUS
<1>2. /\ B \in Nat \ {0} /\ P \in Nat \ {0} /\ q \in Nat /\ B = q * P /\ d \in Nat
      /\ FirstPage \in Nat /\ LastPage \in Nat /\ LastPage = FirstPage + d
  <2>1. B \in Nat \ {0} /\ P \in Nat \ {0} /\ B % P = 0
    BY <1>1, Type2Assumption
  <2>2. d \in Nat /\ FirstPage \in Nat /\ LastPage \in Nat /\ LastPage = FirstPage + d
    BY <1>1, Type2Assumption
  <2>3. q \in Nat /\ B = q * P
    BY <1>1, <2>1, Quotients
  <2>4. QED
    BY <2>1, <2>2, <2>3
<1>3. q \in Nat \ {0}
  BY <1>2
<1>4. PICK u : u = d \div q
  OBVIOUS
<1>5. u \in Nat /\ u * q <= d /\ d < (u + 1) * q
  BY <1>2, <1>3, <1>4, Quotients
<1>6. Reach = B * (u + 1)
  BY <1>1, <1>4, Zenon DEF Reach
<1>7. m * B = (m * q) * P /\ m * q \in Nat
  BY <1>2
<1>8. (m * B) \div P = m * q
  <2>1. PICK x : x = m * q
    OBVIOUS
  <2>2. x \in Nat /\ m * B = x * P
    BY <1>7, <2>1
  <2>3. (x * P) \div P = x
    BY <1>2, <2>2, Quotients
  <2>4. QED
    BY <2>1, <2>2, <2>3
<1>9. NextPage = FirstPage + m * q
  BY <1>1, <1>8 DEF NextPage
<1>10. (NextPage - FirstPage) * PageBytes = m * BlockBytes
  <2>1. NextPage - FirstPage = m * q
    BY <1>2, <1>7, <1>9
  <2>2. QED
    BY <1>1, <1>7, <2>1
<1>11. PastSectorEnd <=> m * q > d
  BY <1>2, <1>7, <1>9 DEF PastSectorEnd
<1>12. Reach = (u + 1) * B /\ Reach \in Nat /\ u + 1 \in Nat /\ m + 1 \in Nat
  BY <1>2, <1>5, <1>6
<1>13. ASSUME ~PastSectorEnd PROVE (m + 1) * B <= Reach
  <2>1. m * q < (u + 1) * q
    <3>1. (u + 1) * q \in Nat
      BY <1>2, <1>12
    <3>2. QED
      BY <1>2, <1>5, <1>7, <1>11, <1>13, <3>1
  <2>2. m < u + 1
    BY <1>3, <1>12, <2>1, Orders
  <2>3. m + 1 <= u + 1
    BY <1>5, <2>2
  <2>4. QED
    BY <1>2, <1>12, <2>3, Orders
<1>14. ASSUME PastSectorEnd PROVE m * B >= Reach
  <2>1. u * q < m * q
    <3>1. u * q \in Nat
      BY <1>2, <1>5
    <3>2. QED
      BY <1>2, <1>5, <1>7, <1>11, <1>14, <3>1
  <2>2. u < m
    BY <1>3, <1>5, <2>1, Orders
  <2>3. u + 1 <= m
    BY <1>5, <2>2
  <2>4. (u + 1) * B <= m * B
    BY <1>2, <1>12, <2>3, Orders
  <2>5. m * B \in Nat
    BY <1>2
  <2>6. QED
    BY <1>12, <2>4, <2>5
<1>15. QED
  BY <1>1, <1>10, <1>12, <1>13, <1>14

(* The walk begins in front of the first block.                            *)
LEMMA WalkBegins ==
    ASSUME NEW tag, Placed(tag), HasNdef(tag.cc), tag.cc.open,
           memory = <<>>, cursor = 0
    PROVE  Walked(tag)
<1>1. /\ Len(tag.tlvs) \in Nat /\ EndOf(tag.tlvs, 0) = 0
      /\ Plain(tag.tlvs, 0)
  BY DEF Placed, Plain
<1>2. MemoryOK(tag)
  BY DEF MemoryOK
<1>3. BlocksRead(tag.cc)
  <2>1. Len(memory) = 0 /\ 0 * BlockBytes = 0 /\ 0 \in Nat
    BY Type2Assumption
  <2>2. Capacity(tag.cc) \in Nat /\ Reach \in Nat
    BY <2>1, Paging DEF HasNdef
  <2>3. QED
    BY <2>1, <2>2 DEF BlocksRead
<1>4. AtBlock(tag) \/ Beyond(tag)
  <2>1. CASE Len(tag.tlvs) = 0
    BY <1>1, <2>1 DEF Beyond
  <2>2. CASE Len(tag.tlvs) # 0
    <3>1. 0 \in 0..(Len(tag.tlvs) - 1)
      BY <1>1, <2>2
    <3>2. QED
      BY <1>1, <3>1 DEF AtBlock
  <2>3. QED
    BY <2>1, <2>2
<1>5. QED
  BY <1>2, <1>3, <1>4 DEF Walked

(* The walk always asks for something in front of it.                      *)
LEMMA WalkAsks ==
    ASSUME NEW tag, Placed(tag), Walked(tag)
    PROVE  /\ Required \in Nat /\ Required > cursor /\ cursor \in Nat
           /\ Len(memory) \in Nat /\ Capacity(tag.cc) \in Nat /\ Reach \in Nat
<1>1. MemoryOK(tag) /\ cursor \in Nat /\ Len(memory) \in Nat
      /\ Capacity(tag.cc) \in Nat
  BY DEF Walked, MemoryOK, HasNdef
<1>2. Reach \in Nat
  <2>1. PICK q, d : q = BlockBytes \div PageBytes /\ d = LastPage - FirstPage
    OBVIOUS
  <2>2. /\ BlockBytes \in Nat \ {0} /\ PageBytes \in Nat \ {0} /\ d \in Nat
        /\ BlockBytes % PageBytes = 0
    BY <2>1, Type2Assumption
  <2>3. q \in Nat \ {0}
    <3>1. q \in Nat /\ BlockBytes = q * PageBytes
      BY <2>1, <2>2, Quotients
    <3>2. QED
      BY <2>2, <3>1
  <2>4. PICK u : u = d \div q
    OBVIOUS
  <2>5. u \in Nat
    BY <2>2, <2>3, <2>4, Quotients
  <2>6. Reach = BlockBytes * (u + 1)
    BY <2>1, <2>4, Zenon DEF Reach
  <2>7. QED
    BY <2>2, <2>5, <2>6
<1>3. CASE AtBlock(tag)
  BY <1>1, <1>2, <1>3, BlockRequired DEF AtBlock
<1>4. CASE Beyond(tag)
  BY <1>1, <1>2, <1>4, BeyondRequired
<1>5. QED
  BY <1>3, <1>4 DEF Walked

(* One block more of the tag is read where the last one ended.             *)
LEMMA BlockKept ==
    ASSUME NEW tag, Placed(tag), Walked(tag), WantsBlock(tag.cc),
           memory' = Appended(tag.cc, Block(tag, NextPage)), cursor' = cursor
    PROVE  Walked(tag)'
<1>1. PICK C, L : C = Capacity(tag.cc) /\ L = Len(memory)
  OBVIOUS
<1>2. /\ Required \in Nat /\ C \in Nat /\ L \in Nat /\ Reach \in Nat
      /\ memory \in Seq(Cell) /\ cursor \in Nat
      /\ \A i \in 1..L : memory[i] = TagByte(tag, i)
  BY <1>1, WalkAsks DEF Walked, MemoryOK
<1>3. Required <= C /\ Required > L /\ ~PastSectorEnd
  BY <1>1, <1>2 DEF WantsBlock, OutOfReach
<1>4. PICK m \in Nat : L = m * BlockBytes
  BY <1>1, <1>2, <1>3 DEF Walked, BlocksRead
<1>5. PICK w : w = IF BlockBytes <= C - L THEN BlockBytes ELSE C - L
  OBVIOUS
<1>6. /\ w \in 1..BlockBytes /\ BlockBytes \in Nat \ {0} /\ L + w <= C
      /\ L + w = C \/ w = BlockBytes
  BY <1>2, <1>3, <1>5, Type2Assumption
<1>7. PICK b : b = Block(tag, NextPage)
  OBVIOUS
<1>8. \A i \in 1..BlockBytes : b[i] = TagByte(tag, L + i) /\ b[i] \in Cell
  <2>1. (NextPage - FirstPage) * PageBytes = L
    BY <1>1, <1>4, Paging
  <2>2. b = [i \in 1..BlockBytes |-> TagByte(tag, L + i)]
    BY <1>7, <2>1 DEF Block, TagByte
  <2>3. ASSUME NEW i \in 1..BlockBytes PROVE TagByte(tag, L + i) \in Cell
    <3>1. 0 \in Cell /\ L + i \in Nat \ {0}
      BY <1>2, <1>6, CellIs
    <3>2. L + i <= Len(tag.bytes) => tag.bytes[L + i] \in Cell
      BY <3>1 DEF Placed
    <3>3. QED
      BY <3>1, <3>2 DEF TagByte
  <2>4. QED
    BY <2>2, <2>3
<1>9. PICK s : s = SubSeq(b, 1, w)
  OBVIOUS
<1>10. /\ s \in Seq(Cell) /\ Len(s) = w
       /\ \A i \in 1..w : s[i] = TagByte(tag, L + i)
  <2>1. 1 \in Int /\ w \in Int /\ \A i \in 1..w : b[i] \in Cell /\ i \in 1..BlockBytes
    BY <1>6, <1>8
  <2>2. /\ SubSeq(b, 1, w) \in Seq(Cell)
        /\ Len(SubSeq(b, 1, w)) = IF 1 <= w THEN w - 1 + 1 ELSE 0
        /\ \A i \in 1..(w - 1 + 1) : SubSeq(b, 1, w)[i] = b[1 + i - 1]
    <3>1. \A i \in 1..w : b[i] \in Cell
      BY <2>1
    <3>2. QED
      BY <2>1, <3>1, SubSeqProperties
  <2>3. w - 1 + 1 = w /\ 1 <= w /\ \A i \in 1..w : 1 + i - 1 = i
    BY <1>6
  <2>4. QED
    BY <1>8, <1>9, <2>1, <2>2, <2>3
<1>11. memory' = memory \o s
  BY <1>1, <1>5, <1>7, <1>9 DEF Appended
<1>12. /\ memory' \in Seq(Cell) /\ Len(memory') = L + w
       /\ \A i \in 1..L : memory'[i] = memory[i]
       /\ \A i \in 1..w : memory'[L + i] = s[i]
  BY <1>1, <1>2, <1>10, <1>11, CellsJoin
<1>13. MemoryOK(tag)'
  <2>1. ASSUME NEW i \in 1..Len(memory') PROVE memory'[i] = TagByte(tag, i)
    <3>1. CASE i <= L
      BY <1>2, <1>12, <2>1, <3>1
    <3>2. CASE i > L
      <4>1. i - L \in 1..w /\ L + (i - L) = i
        BY <1>2, <1>6, <1>12, <2>1, <3>2
      <4>2. memory'[L + (i - L)] = TagByte(tag, L + (i - L))
        BY <1>10, <1>12, <4>1
      <4>3. QED
        BY <4>1, <4>2
    <3>3. QED
      BY <1>2, <1>12, <3>1, <3>2
  <2>2. QED
    BY <1>2, <1>12, <2>1 DEF MemoryOK, TagByte
<1>14. BlocksRead(tag.cc)'
  <2>1. (m + 1) * BlockBytes = L + BlockBytes /\ (m + 1) \in Nat
    BY <1>4, <1>6
  <2>2. L + BlockBytes <= Reach
    BY <1>1, <1>3, <1>4, <2>1, Paging
  <2>3. Len(memory') <= Reach /\ Len(memory') <= C
    BY <1>2, <1>6, <1>12, <2>2
  <2>4. Len(memory') = C \/ Len(memory') = (m + 1) * BlockBytes
    BY <1>6, <1>12, <2>1
  <2>5. Capacity(tag.cc)' = C
    BY <1>1
  <2>6. QED
    BY <2>1, <2>3, <2>4, <2>5 DEF BlocksRead
<1>15. HasNdef(tag.cc)' /\ (tag.cc.open)' /\ (AtBlock(tag)' \/ Beyond(tag)')
  BY DEF Walked, AtBlock, Beyond, HasNdef, Capacity, Plain
<1>16. QED
  BY <1>13, <1>14, <1>15 DEF Walked

(* The walk moves from block to block.                                     *)
LEMMA CursorMoved ==
    ASSUME NEW tag, Placed(tag), Walked(tag),
           NEW k \in 0..(Len(tag.tlvs) - 1), Plain(tag.tlvs, k),
           tag.tlvs[k + 1].type \notin {NdefTlv, TerminatorTlv},
           memory' = memory, cursor' = EndOf(tag.tlvs, k + 1)
    PROVE  Walked(tag)'
<1>1. PICK T, n : T = tag.tlvs /\ n = Len(T)
  OBVIOUS
<1>2. n \in Nat /\ k \in 0..(n - 1) /\ k + 1 \in 0..n /\ EndOf(T, k + 1) \in Nat
  BY <1>1 DEF Placed
<1>3. Plain(T, k + 1)
  <2>1. ASSUME NEW i \in 1..(k + 1) PROVE T[i].type \notin {NdefTlv, TerminatorTlv}
    <3>1. i \in 1..k \/ i = k + 1
      BY <1>2
    <3>2. QED
      BY <1>1, <3>1 DEF Plain
  <2>2. QED
    BY <2>1 DEF Plain
<1>4. AtBlock(tag)' \/ Beyond(tag)'
  <2>1. CASE k + 1 = n
    <3>1. cursor' = EndOf(T, n) /\ Plain(T, n) /\ cursor' >= EndOf(T, n)
      BY <1>1, <1>2, <1>3, <2>1
    <3>2. QED
      BY <1>1, <3>1 DEF Beyond, Plain
  <2>2. CASE k + 1 # n
    <3>1. k + 1 \in 0..(n - 1)
      BY <1>2, <2>2
    <3>2. QED
      BY <1>1, <1>3, <3>1 DEF AtBlock, Plain
  <2>3. QED
    BY <2>1, <2>2
<1>5. MemoryOK(tag)'
  BY <1>1, <1>2 DEF Walked, MemoryOK, TagByte
<1>6. BlocksRead(tag.cc)' /\ HasNdef(tag.cc)' /\ (tag.cc.open)'
  BY DEF Walked, BlocksRead, HasNdef, Capacity
<1>7. QED
  BY <1>4, <1>5, <1>6 DEF Walked

(* A block that is known to its end tells where the next one begins, that  *)
(* there is no message, or what the message is.                            *)
LEMMA TlvTaken ==
    ASSUME NEW tag, Placed(tag), Walked(tag), TlvComplete(tag.cc)
    PROVE  /\ /\ TlvByte(1) = NullTlv
              /\ memory' = memory /\ cursor' = cursor + 1
              => Walked(tag)'
           /\ /\ TlvByte(1) \notin {NullTlv, TerminatorTlv, NdefTlv}
              /\ memory' = memory /\ cursor' = Required
              => Walked(tag)'
           /\ TlvByte(1) = TerminatorTlv => Written(tag) = <<>>
           /\ TlvByte(1) = NdefTlv => TlvValue = Written(tag)
<1>1. Required <= Len(memory) /\ MemoryOK(tag)
  BY DEF TlvComplete, Walked
<1>2. CASE AtBlock(tag)
  <2>1. PICK T, n : T = tag.tlvs /\ n = Len(T)
    OBVIOUS
  <2>2. PICK k \in 0..(n - 1) : Plain(T, k) /\ cursor = EndOf(T, k)
    BY <1>2, <2>1 DEF AtBlock
  <2>3. /\ Required = EndOf(T, k + 1) /\ TlvByte(1) = T[k + 1].type
        /\ ~Lone(T[k + 1]) => TlvValue = T[k + 1].value
    BY <1>1, <2>1, <2>2, BlockRequired
  <2>4. n \in Nat /\ k \in 0..n /\ k < n
    BY <2>1 DEF Placed
  <2>5. ASSUME TlvByte(1) = NullTlv, memory' = memory, cursor' = cursor + 1
        PROVE  Walked(tag)'
    <3>1. Required = cursor + 1
      BY <2>5 DEF Required
    <3>2. QED
      BY <2>1, <2>2, <2>3, <2>5, <3>1, CursorMoved
      DEF NullTlv, NdefTlv, TerminatorTlv
  <2>6. ASSUME TlvByte(1) \notin {NullTlv, TerminatorTlv, NdefTlv},
               memory' = memory, cursor' = Required
        PROVE  Walked(tag)'
    BY <2>1, <2>2, <2>3, <2>6, CursorMoved
  <2>7. ASSUME TlvByte(1) = TerminatorTlv PROVE Written(tag) = <<>>
    BY <2>1, <2>2, <2>3, <2>4, <2>7, WrittenBehind
  <2>8. ASSUME TlvByte(1) = NdefTlv PROVE TlvValue = Written(tag)
    <3>1. TlvValue = T[k + 1].value
      BY <2>3, <2>8 DEF Lone, NdefTlv, NullTlv, TerminatorTlv
    <3>2. InReach(tag, k + 1)
      <4>1. EndOf(T, k + 1) <= Len(memory) /\ EndOf(T, k + 1) \in Nat
        BY <1>1, <2>3, WalkAsks
      <4>2. Len(memory) <= Capacity(tag.cc) /\ Len(memory) <= Reach
        BY DEF Walked, BlocksRead
      <4>3. EndOf(T, k + 1) <= Capacity(tag.cc) /\ EndOf(T, k + 1) <= Reach
        BY <4>1, <4>2, WalkAsks
      <4>4. QED
        BY <2>1, <4>3 DEF InReach, Walked
    <3>3. QED
      BY <2>1, <2>2, <2>3, <2>4, <2>8, <3>1, <3>2, WrittenBehind
  <2>9. QED
    BY <2>5, <2>6, <2>7, <2>8
<1>3. CASE Beyond(tag)
  <2>1. /\ Required = cursor + 1 /\ TlvByte(1) \in {NullTlv, TerminatorTlv}
        /\ TlvByte(1) = NullTlv => Len(tag.bytes) = EndOf(tag.tlvs, Len(tag.tlvs))
    BY <1>1, <1>3, BeyondRequired
  <2>2. PICK e : e = EndOf(tag.tlvs, Len(tag.tlvs))
    OBVIOUS
  <2>3. e \in Nat /\ cursor \in Nat /\ cursor >= e
    BY <1>1, <1>3, <2>2 DEF Placed, Beyond, MemoryOK
  <2>4. ASSUME TlvByte(1) = NullTlv, memory' = memory, cursor' = cursor + 1
        PROVE  Walked(tag)'
    <3>1. Beyond(tag)'
      <4>1. cursor' >= e /\ Len(tag.bytes) = e
        BY <2>1, <2>2, <2>3, <2>4
      <4>2. QED
        BY <1>3, <2>2, <4>1 DEF Beyond, Plain
    <3>2. MemoryOK(tag)' /\ BlocksRead(tag.cc)'
      BY <2>3, <2>4 DEF Walked, MemoryOK, BlocksRead, TagByte, Capacity
    <3>3. QED
      BY <3>1, <3>2 DEF Walked, HasNdef, Capacity
  <2>5. TlvByte(1) = TerminatorTlv => Written(tag) = <<>>
    <3>1. Len(tag.tlvs) \in 0..Len(tag.tlvs) /\ Plain(tag.tlvs, Len(tag.tlvs))
      BY <1>3 DEF Placed, Beyond
    <3>2. QED
      BY <3>1, WrittenBehind
  <2>6. QED
    BY <2>1, <2>4, <2>5 DEF NullTlv, NdefTlv, TerminatorTlv
<1>4. QED
  BY <1>2, <1>3 DEF Walked

(* Where the walk ends without a message there is none to be found.        *)
LEMMA EndTells ==
    ASSUME NEW tag, Placed(tag), Walked(tag), AtEnd(tag.cc) \/ OutOfReach(tag.cc)
    PROVE  Written(tag) = <<>>
<1>1. MemoryOK(tag) /\ BlocksRead(tag.cc)
  BY DEF Walked
<1>2. CASE AtBlock(tag)
  <2>1. PICK T, n : T = tag.tlvs /\ n = Len(T)
    OBVIOUS
  <2>2. PICK k \in 0..(n - 1) : Plain(T, k) /\ cursor = EndOf(T, k)
    BY <1>2, <2>1 DEF AtBlock
  <2>3. Required <= EndOf(T, k + 1) /\ Required > cursor /\ Required \in Nat
    BY <1>1, <2>1, <2>2, BlockRequired
  <2>4. n \in Nat /\ k \in 0..n /\ k < n /\ EndOf(T, k + 1) \in Nat
    BY <2>1 DEF Placed
  <2>5. /\ Capacity(tag.cc) \in Nat /\ Reach \in Nat /\ Len(memory) \in Nat
        /\ cursor \in Nat
    BY WalkAsks
  <2>6. ~InReach(tag, k + 1)
    <3>1. CASE AtEnd(tag.cc) \/ Required > Capacity(tag.cc)
      <4>1. EndOf(T, k + 1) > Capacity(tag.cc)
        BY <2>3, <2>4, <2>5, <3>1 DEF AtEnd
      <4>2. QED
        BY <2>1, <2>4, <2>5, <4>1 DEF InReach
    <3>2. CASE /\ Required <= Capacity(tag.cc)
               /\ Required > Len(memory) /\ PastSectorEnd
      <4>1. PICK m \in Nat : Len(memory) = m * BlockBytes
        BY <1>1, <2>3, <2>5, <3>2 DEF BlocksRead
      <4>2. Len(memory) >= Reach
        BY <3>2, <4>1, Paging
      <4>3. EndOf(T, k + 1) > Reach
        BY <2>3, <2>4, <2>5, <3>2, <4>2
      <4>4. QED
        BY <2>1, <2>4, <2>5, <4>3 DEF InReach
    <3>3. QED
      BY <2>3, <2>5, <3>1, <3>2 DEF OutOfReach
  <2>7. QED
    BY <2>1, <2>2, <2>4, <2>6, WrittenBehind
<1>3. CASE Beyond(tag)
  <2>1. Len(tag.tlvs) \in 0..Len(tag.tlvs) /\ Plain(tag.tlvs, Len(tag.tlvs))
    BY <1>3 DEF Placed, Beyond
  <2>2. QED
    BY <2>1, WrittenBehind
<1>4. QED
  BY <1>2, <1>3 DEF Walked

-----------------------------------------------------------------------------
(* The reading of a tag, and the way from the tag to the records.          *)

(* What the assumption on the tags says of those of this field.            *)
LEMMA TagFacts ==
    ASSUME PollTypeOK, NEW t \in TagNames
    PROVE  /\ Placed(field.tags[t])
           /\ field.tags[t].type2 \/ field.tags[t].tlvs = <<>>
           /\ \A u \in TagNames : FullUid(t) = FullUid(u) => t = u
           /\ \A u \in TagNames :
                 \A l \in DOMAIN field.tags[t].levels \cap DOMAIN field.tags[u].levels :
                    LevelOf(t, l).bytes = LevelOf(u, l).bytes
                       => LevelOf(t, l).more = LevelOf(u, l).more
<1>1. field \in Fields /\ TagNames = DOMAIN field.tags
  BY DEF PollTypeOK, TagNames
<1>2. LaidOut(field.tags[t]) /\ (field.tags[t].type2 \/ field.tags[t].tlvs = <<>>)
  BY <1>1, TagsAssumption, Zenon
<1>3. \A u \in TagNames : UidOf(field.tags[t]) = UidOf(field.tags[u]) => t = u
  BY <1>1, TagsAssumption, Zenon
<1>4. \A u \in TagNames :
         \A l \in DOMAIN field.tags[t].levels \cap DOMAIN field.tags[u].levels :
            field.tags[t].levels[l].bytes = field.tags[u].levels[l].bytes
               => field.tags[t].levels[l].more = field.tags[u].levels[l].more
  BY <1>1, TagsAssumption, Zenon
<1>5. Placed(field.tags[t])
  BY <1>2, PlacedIs, Zenon
<1>6. QED
  BY <1>2, <1>3, <1>4, <1>5, Zenon DEF FullUid, LevelOf

(* Who is active has been selected by the whole uid.                       *)
ActiveOK ==
    /\ step \in {"level", "select"} => Active = {}
    /\ step \in Reading => \A t \in Active : uid = FullUid(t)

(* A poll begins with nothing in its hands.                                *)
FreshOK ==
    step \in {"wake", "level", "select", "manufacturer"} =>
        memory = <<>> /\ cursor = 0 /\ message = <<>>

(* What the poll has of the message: all of it, or nothing, and nothing    *)
(* only for a reason.                                                      *)
Tells(t) ==
    \/ message = Written(field.tags[t])
    \/ message = <<>> /\ ~field.calm

(* While the walk goes on it is that of the tag whose uid was selected,    *)
(* and the end of a poll tells of that tag.                                *)
WalkOK ==
    /\ step = "tlv" =>
          message = <<>> /\ \A t \in TagNames : uid = FullUid(t) => Walked(field.tags[t])
    /\ step = "halt" \/ (step = "idle" /\ outcome = "Tag") =>
          \A t \in TagNames : uid = FullUid(t) => Tells(t)

(* What is cached was read from the tag with that uid, or is the empty     *)
(* message.                                                                *)
CacheOK ==
    cached # NoCachedTag =>
        \A t \in TagNames : cached.uid = FullUid(t) =>
            cached.message \in {Written(field.tags[t]), <<>>}

(* In a calm field there is one poll, and who was selected stays so.       *)
CalmOK ==
    field.calm =>
        /\ step # "idle" => outcome = "none"
        /\ outcome = "none" => cached = NoCachedTag
        /\ step \in {"manufacturer", "tlv"} => Active # {}

(* The inductive invariant of a poll that reads a tag.                     *)
ReadingOK == ActiveOK /\ FreshOK /\ WalkOK /\ CacheOK /\ CalmOK

(* A tag becomes active only by being meant, and by saying that no level   *)
(* follows.                                                                *)
LEMMA SelectedActive ==
    ASSUME PollTypeOK, step = "select", Active = {}, field' = field,
           NEW h \in SUBSET Here, Move(h, Selected)
    PROVE  \A t \in Active' : t \in h /\ Meant(t) /\ ~LevelOf(t, level).more
<1>1. TAKE t \in Active'
<1>2. t \in TagNames /\ state'[t] = "active" /\ state[t] # "active"
  BY DEF Active, TagNames
<1>3. state'[t] = IF t \in h THEN Selected(t) ELSE state[t]
  BY <1>2 DEF Move
<1>4. Ready[level + 1] # "active"
  <2>1. level + 1 \in 1..4
    BY LevelFacts
  <2>2. QED
    BY <2>1, ReadyDistinct
<1>5. QED
  BY <1>2, <1>3, <1>4 DEF Selected

(* Tags come to be active by one frame only, SELECT, and each is meant by  *)
(* the last level of its own uid.                                          *)
LEMMA ActiveKept ==
    ASSUME PollTypeOK, UidOK, ActiveOK, [PollNext]_pollVars
    PROVE  ActiveOK'
<1> USE DEF ActiveOK, Driven
<1>0. ASSUME field' = field
      PROVE  TagNames' = TagNames /\ \A t \in TagNames : FullUid(t)' = FullUid(t)
  BY <1>0 DEF TagNames, FullUid, UidOf
<1>1. ASSUME field' = field, uid' = uid,
             step' \in {"level", "select"} => step \in {"level", "select"},
             step' \in Reading => step \in Reading,
             \A t \in TagNames : state'[t] \in {state[t], "away", "asleep"}
      PROVE  ActiveOK'
  <2>1. \A t \in Active' : t \in Active /\ t \in TagNames
    BY <1>0, <1>1 DEF Active
  <2>2. QED
    BY <1>0, <1>1, <2>1
<1>2. CASE TagMoves
  BY <1>1, <1>2 DEF TagMoves, PollTypeOK
<1>3. CASE StartPoll \/ OtherProtocol \/ Halt
  BY <1>3 DEF StartPoll, OtherProtocol, Halt, Done, Reading
<1>4. CASE WakeUp
  <2>1. PICK h \in SUBSET Here : Awake \subseteq h /\ Move(h, Woken)
    BY <1>4 DEF WakeUp
  <2>2. field' = field /\ step' \in {"level", "idle"}
    BY <1>4 DEF WakeUp, Done, Inconclusive
  <2>3. \A t \in TagNames : state'[t] \in {"away", "asleep", Ready[1]}
    BY <2>1 DEF Move, Woken, Awake, Here
  <2>4. Ready[1] # "active"
    BY ReadyDistinct
  <2>5. Active' = {}
    BY <1>0, <2>2, <2>3, <2>4 DEF Active
  <2>6. QED
    BY <2>2, <2>5 DEF Reading
<1>5. CASE Anticollision
  <2>1. /\ step = "level" /\ step' \in {"select", "idle"}
        /\ field' = field /\ state' = state
    BY <1>5 DEF Anticollision, Done, Inconclusive
  <2>2. Active' = Active
    BY <1>0, <2>1 DEF Active
  <2>3. QED
    BY <2>1, <2>2 DEF Reading
<1>6. CASE SelectLevel
  <2>1. PICK h \in SUBSET Here :
           /\ Move(h, Selected)
           /\ \/ \E t \in h : Meant(t) /\ AfterSelect(t)
              \/ Inconclusive
    BY <1>6 DEF SelectLevel
  <2>2. step = "select" /\ field' = field /\ uid' = uid /\ Active = {}
    BY <1>6 DEF SelectLevel
  <2>3. \A t \in Active' : t \in h /\ Meant(t) /\ ~LevelOf(t, level).more
    BY <2>1, <2>2, SelectedActive
  <2>4. CASE Inconclusive
    BY <2>4 DEF Inconclusive, Done, Reading
  <2>5. ASSUME NEW t \in h, Meant(t), AfterSelect(t), step' # "idle" PROVE ActiveOK'
    <3>1. /\ CascadeAgrees(LevelOf(t, level).more)
          /\ LevelOf(t, level).more => step' = "level"
          /\ ~LevelOf(t, level).more => step' \in Reading
      BY <2>5 DEF AfterSelect, Inconclusive, Done, Reading
    <3>2. ASSUME NEW u \in Active'
          PROVE  Meant(u) /\ ~LevelOf(u, level).more /\ ~LevelOf(t, level).more
      <4>1. Meant(u) /\ ~LevelOf(u, level).more
        BY <2>3
      <4>2. /\ t \in TagNames /\ u \in TagNames
            /\ LevelOf(t, level).bytes = LevelOf(u, level).bytes
        BY <2>5, <4>1 DEF Meant, Answering
      <4>3. level \in DOMAIN field.tags[t].levels \cap DOMAIN field.tags[u].levels
        BY <2>5, <4>1, LevelFacts DEF Meant, Answering, PollTypeOK
      <4>4. LevelOf(t, level).more = LevelOf(u, level).more
        BY <4>2, <4>3, TagFacts
      <4>5. QED
        BY <4>1, <4>4
    <3>3. CASE LevelOf(t, level).more
      <4>1. Active' = {}
        BY <3>2, <3>3
      <4>2. QED
        BY <3>1, <3>3, <4>1 DEF Reading
    <3>4. CASE ~LevelOf(t, level).more
      <4>1. ASSUME NEW u \in Active' PROVE uid = FullUid(u)
        <5>1. Meant(u) /\ ~LevelOf(u, level).more
          BY <3>2
        <5>2. CascadeAgrees(LevelOf(u, level).more)
          <6>1. /\ t \in TagNames /\ u \in TagNames
                /\ LevelOf(t, level).bytes = LevelOf(u, level).bytes
            BY <2>5, <5>1 DEF Meant, Answering
          <6>2. level \in DOMAIN field.tags[t].levels \cap DOMAIN field.tags[u].levels
            BY <2>5, <5>1, LevelFacts DEF Meant, Answering, PollTypeOK
          <6>3. LevelOf(t, level).more = LevelOf(u, level).more
            BY <6>1, <6>2, TagFacts
          <6>4. QED
            BY <3>1, <6>3
        <5>3. QED
          BY <2>2, <5>1, <5>2, WholeUid
      <4>2. \A u \in Active' : u \in TagNames
        BY <1>0, <2>2 DEF Active
      <4>3. QED
        BY <1>0, <2>2, <3>1, <3>4, <4>1, <4>2 DEF Reading
    <3>5. QED
      BY <3>3, <3>4
  <2>6. QED
    BY <2>1, <2>4, <2>5 DEF Reading
<1>7. CASE ReadManufacturer \/ ReadBlock \/ TakeTlv \/ WalkEnds
  <2>1. /\ field' = field /\ uid' = uid /\ step \in Reading /\ step' \in Reading
        /\ \A t \in TagNames : state'[t] \in {state[t], "away", "asleep"}
    BY <1>7
    DEF ReadManufacturer, ReadBlock, ReadFails, TakeTlv, WalkEnds, Reading
  <2>2. QED
    BY <1>1, <2>1 DEF Reading
<1>8. CASE UNCHANGED pollVars
  BY <1>1, <1>8 DEF pollVars
<1>9. QED
  BY <1>2, <1>3, <1>4, <1>5, <1>6, <1>7, <1>8 DEF PollNext

(* Every way into a poll clears the memory, the cursor and the message     *)
(* (pollNfcA).                                                             *)
LEMMA FreshKept ==
    ASSUME PollTypeOK, FreshOK, CalmOK, [PollNext]_pollVars
    PROVE  FreshOK'
<1> USE DEF FreshOK, Driven, reading, Forget, Done, Inconclusive
<1>1. CASE TagMoves \/ StartPoll \/ OtherProtocol \/ WakeUp \/ Anticollision
  BY <1>1 DEF TagMoves, StartPoll, OtherProtocol, WakeUp, Anticollision
<1>2. CASE SelectLevel
  <2>1. /\ step = "select" /\ memory' = memory /\ cursor' = cursor
        /\ step' \in {"level", "manufacturer"} => message' = message
    BY <1>2 DEF SelectLevel, AfterSelect
  <2>2. step' # "wake" /\ step' # "select"
    BY <1>2 DEF SelectLevel, AfterSelect
  <2>3. QED
    BY <2>1, <2>2
<1>3. CASE ReadManufacturer \/ ReadBlock \/ TakeTlv \/ WalkEnds \/ Halt
  <2>1. step' \in {"tlv", "halt", "idle"}
    BY <1>3 DEF ReadManufacturer, ReadBlock, ReadFails, TakeTlv, WalkEnds, Halt
  <2>2. QED
    BY <2>1
<1>4. CASE UNCHANGED pollVars
  BY <1>4 DEF pollVars
<1>5. QED
  BY <1>1, <1>2, <1>3, <1>4 DEF PollNext

(* In a field that nothing disturbs no tag falls asleep between two        *)
(* frames.                                                                 *)
LEMMA CalmKept ==
    ASSUME PollTypeOK, CalmOK, [PollNext]_pollVars
    PROVE  CalmOK'
<1> USE DEF CalmOK, Driven, Done, Inconclusive, Disturbed
<1>0. ASSUME field' = field, state' = state PROVE Active' = Active
  BY <1>0 DEF Active, TagNames
<1>1. CASE TagMoves \/ OtherProtocol
  BY <1>1 DEF TagMoves, OtherProtocol
<1>2. CASE StartPoll
  BY <1>2 DEF StartPoll
<1>3. CASE WakeUp
  <2>1. /\ step = "wake" /\ field' = field /\ step' \in {"level", "idle"}
        /\ step' = "level" => outcome' = outcome
        /\ step' = "idle" => outcome' # "none"
        /\ field.calm => cached' = cached
    BY <1>3 DEF WakeUp
  <2>2. QED
    BY <2>1
<1>4. CASE Anticollision
  BY <1>4 DEF Anticollision
<1>5. CASE SelectLevel
  <2>1. PICK h \in SUBSET Here :
           /\ Move(h, Selected)
           /\ \/ \E t \in h : Meant(t) /\ AfterSelect(t)
              \/ Inconclusive
    BY <1>5 DEF SelectLevel
  <2>2. step = "select" /\ field' = field /\ cached' = cached
    BY <1>5 DEF SelectLevel
  <2>3. CASE Inconclusive
    BY <2>2, <2>3
  <2>4. ASSUME NEW t \in h, Meant(t), AfterSelect(t), ~Inconclusive PROVE CalmOK'
    <3>1. outcome' = outcome /\ step' \in {"level", "manufacturer", "halt"}
      BY <2>4 DEF AfterSelect
    <3>2. step' = "manufacturer" => ~LevelOf(t, level).more
      BY <2>4 DEF AfterSelect
    <3>3. step' = "manufacturer" => t \in Active'
      <4>1. t \in TagNames
        BY <2>4 DEF Meant, Answering
      <4>2. state'[t] = Selected(t)
        BY <2>1, <4>1 DEF Move
      <4>3. QED
        BY <2>2, <2>4, <3>2, <4>1, <4>2 DEF Selected, Active, TagNames
    <3>4. QED
      BY <2>2, <3>1, <3>3
  <2>5. QED
    BY <2>1, <2>3, <2>4
<1>6. CASE ReadManufacturer \/ ReadBlock \/ TakeTlv \/ WalkEnds
  <2>1. /\ step \in {"manufacturer", "tlv"} /\ step' # "idle"
        /\ field' = field /\ outcome' = outcome /\ cached' = cached
        /\ state' # state => step' = "halt"
        /\ step' # "manufacturer"
    BY <1>6 DEF ReadManufacturer, ReadBlock, ReadFails, TakeTlv, WalkEnds
  <2>2. QED
    BY <1>0, <2>1
<1>7. CASE Halt
  BY <1>7 DEF Halt
<1>8. CASE UNCHANGED pollVars
  BY <1>0, <1>8 DEF pollVars
<1>9. QED
  BY <1>1, <1>2, <1>3, <1>4, <1>5, <1>6, <1>7, <1>8 DEF PollNext

(* The cache is written at the end of a poll only.                         *)
LEMMA CacheKept ==
    ASSUME PollTypeOK, WalkOK, CacheOK, [PollNext]_pollVars
    PROVE  CacheOK'
<1>0. ASSUME field' = field
      PROVE  /\ TagNames' = TagNames
             /\ \A t : /\ FullUid(t)' = FullUid(t)
                       /\ Written(field.tags[t])' = Written(field.tags[t])
  <2>1. TagNames' = TagNames /\ \A t : FullUid(t)' = FullUid(t)
    BY <1>0 DEF TagNames, FullUid, UidOf
  <2>2. \A t : Written(field'.tags[t]) = Written(field.tags[t])
    BY <1>0
  <2>3. QED
    BY <2>1, <2>2
<1>1. field' = field
  BY DEF PollNext, pollVars, TagMoves, StartPoll, OtherProtocol, WakeUp,
         Anticollision, SelectLevel, ReadManufacturer, ReadBlock, TakeTlv,
         WalkEnds, Halt, Driven
<1>2. CASE cached' \in {cached, NoCachedTag}
  BY <1>0, <1>1, <1>2 DEF CacheOK
<1>3. CASE Halt
  <2>1. /\ step = "halt" /\ cached' = [uid |-> uid, message |-> message]
    BY <1>3 DEF Halt
  <2>2. \A t \in TagNames : uid = FullUid(t) =>
           message \in {Written(field.tags[t]), <<>>}
    BY <2>1 DEF WalkOK, Tells
  <2>3. QED
    BY <1>0, <1>1, <2>1, <2>2 DEF CacheOK
<1>4. QED
  BY <1>2, <1>3
  DEF PollNext, pollVars, TagMoves, StartPoll, OtherProtocol, WakeUp,
      Anticollision, SelectLevel, ReadManufacturer, ReadBlock, TakeTlv,
      WalkEnds, Driven

(* The container the driver goes by is that of the one tag it selected.    *)
LEMMA ContainerIs ==
    ASSUME PollTypeOK, NEW t \in TagNames, uid = FullUid(t)
    PROVE  /\ Container = field.tags[t].cc
           /\ \A u \in TagNames : uid = FullUid(u) => u = t
<1>1. \A u \in TagNames : uid = FullUid(u) => u = t
  BY TagFacts
<1>2. PICK c : c = CHOOSE u \in TagNames : FullUid(u) = uid
  OBVIOUS
<1>3. c \in TagNames /\ FullUid(c) = uid
  BY <1>2
<1>4. c = t
  BY <1>1, <1>3
<1>5. Container = field.tags[c].cc
  BY <1>2 DEF Container
<1>6. QED
  BY <1>1, <1>4, <1>5

(* A tag without blocks, or not for reading, has no message.               *)
LEMMA NothingWritten ==
    ASSUME NEW tag, Placed(tag),
           tag.tlvs = <<>> \/ ~(HasNdef(tag.cc) /\ tag.cc.open)
    PROVE  Written(tag) = <<>>
<1>1. CASE tag.tlvs = <<>>
  <2>1. 0 \in 0..Len(tag.tlvs) /\ Plain(tag.tlvs, 0) /\ Len(tag.tlvs) = 0
    BY <1>1 DEF Plain
  <2>2. QED
    BY <2>1, WrittenBehind
<1>2. CASE ~(HasNdef(tag.cc) /\ tag.cc.open)
  BY <1>2, WrittenIs DEF InReach
<1>3. QED
  BY <1>1, <1>2

(* Every answer and every block taken moves the walk of the selected tag;  *)
(* every way to give up has a reason.                                      *)
LEMMA WalkKept ==
    ASSUME PollTypeOK, UidOK, ReadingOK, [PollNext]_pollVars
    PROVE  WalkOK'
<1> USE DEF Driven, Done, Inconclusive, Disturbed, Smooth, reading
<1>0. ASSUME field' = field
      PROVE  /\ TagNames' = TagNames /\ field.calm' = field.calm
             /\ \A t : /\ FullUid(t)' = FullUid(t)
                       /\ Written(field.tags[t])' = Written(field.tags[t])
  <2>1. TagNames' = TagNames /\ \A t : FullUid(t)' = FullUid(t)
    BY <1>0 DEF TagNames, FullUid, UidOf
  <2>2. \A t : Written(field'.tags[t]) = Written(field.tags[t])
    BY <1>0
  <2>3. QED
    BY <1>0, <2>1, <2>2
(* A step that touches neither the field nor what was read.                *)
<1>1. ASSUME field' = field, uid' = uid, UNCHANGED reading,
             step' = "tlv" => step = "tlv",
             step' = "halt" \/ (step' = "idle" /\ outcome' = "Tag") =>
                step = "halt" \/ (step = "idle" /\ outcome = "Tag")
      PROVE  WalkOK'
  <2>1. ASSUME NEW tag, Walked(tag) PROVE Walked(tag)'
    <3>1. MemoryOK(tag)' /\ BlocksRead(tag.cc)'
      BY <1>1, <2>1
      DEF Walked, MemoryOK, BlocksRead, TagByte, Capacity
    <3>2. AtBlock(tag)' \/ Beyond(tag)'
      BY <1>1, <2>1 DEF Walked, AtBlock, Beyond, Plain
    <3>3. QED
      BY <2>1, <3>1, <3>2 DEF Walked, HasNdef, Capacity
  <2>2. \A t : Walked(field.tags[t]) => Walked(field.tags[t])'
    <3>1. TAKE t
    <3>2. PICK tag : tag = field.tags[t]
      OBVIOUS
    <3>3. Walked(tag) => Walked(tag)'
      BY <2>1
    <3>4. field'.tags[t] = tag
      BY <1>1, <3>2
    <3>5. QED
      BY <3>2, <3>3, <3>4
      DEF Walked, MemoryOK, BlocksRead, TagByte, Capacity, AtBlock, Beyond,
          Plain, HasNdef
  <2>3. \A t \in TagNames : Tells(t) => Tells(t)'
    BY <1>0, <1>1 DEF Tells
  <2>4. QED
    BY <1>0, <1>1, <2>2, <2>3 DEF ReadingOK, WalkOK
(* A step that ends the reading of a tag.                                  *)
<1>2. ASSUME field' = field, uid' = uid, step' = "halt",
             NEW c \in TagNames, uid = FullUid(c),
             \/ message' = Written(field.tags[c])
             \/ message' = <<>> /\ ~field.calm
      PROVE  WalkOK'
  <2>1. \A u \in TagNames : uid = FullUid(u) => u = c
    BY <1>2, ContainerIs
  <2>2. QED
    BY <1>0, <1>2, <2>1 DEF WalkOK, Tells
<1>3. CASE TagMoves \/ UNCHANGED pollVars
  BY <1>1, <1>3 DEF TagMoves, pollVars
<1>4. CASE StartPoll \/ OtherProtocol
  BY <1>4 DEF StartPoll, OtherProtocol, WalkOK
<1>5. CASE WakeUp \/ Anticollision
  <2>1. step' \in {"level", "select"} \/ (step' = "idle" /\ outcome' # "Tag")
    BY <1>5 DEF WakeUp, Anticollision
  <2>2. QED
    BY <2>1 DEF WalkOK
<1>6. CASE SelectLevel
  <2>1. PICK h \in SUBSET Here :
           \/ \E t \in h : Meant(t) /\ AfterSelect(t)
           \/ Inconclusive
    BY <1>6 DEF SelectLevel
  <2>2. step = "select" /\ field' = field /\ uid' = uid
    BY <1>6 DEF SelectLevel
  <2>3. CASE step' \in {"level", "manufacturer"} \/ Inconclusive
    BY <2>3 DEF WalkOK
  <2>4. ASSUME NEW t \in h, Meant(t), AfterSelect(t), step' = "halt" PROVE WalkOK'
    <3>1. ~LevelOf(t, level).more /\ CascadeAgrees(LevelOf(t, level).more)
      BY <2>4 DEF AfterSelect
    <3>2. uid = FullUid(t) /\ t \in TagNames
      BY <2>2, <2>4, <3>1, WholeUid DEF Meant, Answering
    <3>3. CASE IsCached
      <4>1. message' = cached.message
        BY <2>4, <3>1, <3>3 DEF AfterSelect
      <4>2. cached # NoCachedTag /\ cached.uid = FullUid(t)
        BY <3>2, <3>3 DEF IsCached
      <4>3. message' \in {Written(field.tags[t]), <<>>}
        BY <3>2, <4>1, <4>2 DEF ReadingOK, CacheOK
      <4>4. ~field.calm
        BY <2>2, <4>2 DEF ReadingOK, CalmOK
      <4>5. QED
        BY <1>2, <2>2, <2>4, <3>2, <4>3, <4>4
    <3>4. CASE ~IsCached
      <4>1. message' = message /\ ~field.tags[t].type2
        BY <2>4, <3>1, <3>4 DEF AfterSelect
      <4>2. message = <<>>
        BY <2>2 DEF ReadingOK, FreshOK
      <4>3. Placed(field.tags[t]) /\ field.tags[t].tlvs = <<>>
        BY <3>2, <4>1, TagFacts
      <4>4. Written(field.tags[t]) = <<>>
        BY <4>3, NothingWritten
      <4>5. QED
        BY <1>2, <2>2, <2>4, <3>2, <4>1, <4>2, <4>4
    <3>5. QED
      BY <3>3, <3>4
  <2>5. QED
    BY <2>1, <2>3, <2>4 DEF AfterSelect
<1> DEFINE Steps == ReadManufacturer \/ ReadBlock \/ TakeTlv \/ WalkEnds
<1>7. ASSUME Steps PROVE WalkOK'
  <2>0. step \in {"manufacturer", "tlv"} /\ field' = field /\ uid' = uid
    BY <1>7 DEF ReadManufacturer, ReadBlock, TakeTlv, WalkEnds
  <2>1. PICK c \in TagNames : uid = FullUid(c)
    BY <2>0 DEF UidOK, Chosen, Reading
  <2>2. PICK tag : tag = field.tags[c]
    OBVIOUS
  <2>3. /\ Container = tag.cc /\ Placed(tag) /\ field'.tags[c] = tag
        /\ \A u \in TagNames : uid = FullUid(u) => u = c
    BY <2>0, <2>1, <2>2, ContainerIs, TagFacts
  <2>4. message = <<>> /\ (step = "tlv" => Walked(tag))
    BY <2>0, <2>1, <2>2 DEF ReadingOK, FreshOK, WalkOK
  <2>5. \A t \in Active : t = c
    BY <2>0, <2>3 DEF ReadingOK, ActiveOK, Reading, Active
  <2>6. CASE ReadFails
    <3>1. ~field.calm
      BY <2>0, <2>6 DEF ReadFails, ReadingOK, CalmOK
    <3>2. step' = "halt" /\ message' = <<>>
      BY <2>4, <2>6 DEF ReadFails
    <3>3. QED
      BY <1>2, <2>0, <2>1, <3>1, <3>2
  <2>7. ASSUME Walked(tag)', step' = "tlv", message' = message PROVE WalkOK'
    <3>1. Walked(field.tags[c])'
      BY <2>3, <2>7
      DEF Walked, MemoryOK, BlocksRead, TagByte, Capacity, AtBlock, Beyond,
          Plain, HasNdef
    <3>2. \A u \in TagNames' : (uid = FullUid(u))' => u = c
      BY <1>0, <2>0, <2>3
    <3>3. QED
      BY <2>4, <2>7, <3>1, <3>2 DEF WalkOK
  <2>8. CASE ReadManufacturer /\ ~ReadFails
    <3>1. PICK t \in Active :
             step' = IF HasNdef(field.tags[t].cc) /\ field.tags[t].cc.open
                     THEN "tlv" ELSE "halt"
      BY <2>8 DEF ReadManufacturer
    <3>2. step = "manufacturer" /\ UNCHANGED reading
      BY <2>8 DEF ReadManufacturer
    <3>3. t = c
      BY <2>5, <3>1
    <3>4. CASE HasNdef(tag.cc) /\ tag.cc.open
      <4>1. Walked(tag)
        BY <2>3, <3>2, <3>4, WalkBegins DEF ReadingOK, FreshOK
      <4>2. Walked(tag)'
        <5>1. MemoryOK(tag)' /\ BlocksRead(tag.cc)'
          BY <3>2, <4>1 DEF Walked, MemoryOK, BlocksRead, TagByte, Capacity
        <5>2. AtBlock(tag)' \/ Beyond(tag)'
          BY <3>2, <4>1 DEF Walked, AtBlock, Beyond, Plain
        <5>3. QED
          BY <4>1, <5>1, <5>2 DEF Walked, HasNdef, Capacity
      <4>3. QED
        BY <2>2, <2>7, <3>1, <3>2, <3>3, <3>4, <4>2
    <3>5. CASE ~(HasNdef(tag.cc) /\ tag.cc.open)
      <4>1. Written(tag) = <<>>
        BY <2>3, <3>5, NothingWritten
      <4>2. QED
        BY <1>2, <2>0, <2>1, <2>2, <2>4, <3>1, <3>2, <3>3, <3>5, <4>1
    <3>6. QED
      BY <3>4, <3>5
  <2>9. CASE ReadBlock /\ ~ReadFails
    <3>1. PICK t \in Active :
             memory' = Appended(Container, Block(field.tags[t], NextPage))
      BY <2>9 DEF ReadBlock
    <3>2. /\ step = "tlv" /\ step' = "tlv" /\ WantsBlock(tag.cc)
          /\ cursor' = cursor /\ message' = message
      BY <2>3, <2>9 DEF ReadBlock
    <3>3. memory' = Appended(tag.cc, Block(tag, NextPage))
      BY <2>2, <2>3, <2>5, <3>1
    <3>4. Walked(tag)'
      BY <2>3, <2>4, <3>2, <3>3, BlockKept
    <3>5. QED
      BY <2>7, <3>2, <3>4
  <2>10. CASE TakeTlv
    <3>1. /\ step = "tlv" /\ TlvComplete(tag.cc) /\ Walked(tag) /\ memory' = memory
      BY <2>3, <2>4, <2>10 DEF TakeTlv
    <3>2. CASE TlvByte(1) = NullTlv
      <4>1. cursor' = cursor + 1 /\ step' = "tlv" /\ message' = message
        BY <2>10, <3>1, <3>2 DEF TakeTlv, NullTlv, NdefTlv, TerminatorTlv
      <4>2. QED
        BY <2>3, <2>7, <3>1, <3>2, <4>1, TlvTaken
    <3>3. CASE TlvByte(1) = TerminatorTlv
      <4>1. step' = "halt" /\ message' = message
        BY <2>10, <3>3 DEF TakeTlv, NullTlv, NdefTlv, TerminatorTlv
      <4>2. Written(tag) = <<>>
        BY <2>3, <3>1, <3>3, TlvTaken
      <4>3. QED
        BY <1>2, <2>0, <2>1, <2>2, <2>4, <4>1, <4>2
    <3>4. CASE TlvByte(1) = NdefTlv
      <4>1. step' = "halt" /\ message' = TlvValue
        BY <2>10, <3>4 DEF TakeTlv, NullTlv, NdefTlv, TerminatorTlv
      <4>2. TlvValue = Written(tag)
        BY <2>3, <3>1, <3>4, TlvTaken
      <4>3. QED
        BY <1>2, <2>0, <2>1, <2>2, <4>1, <4>2
    <3>5. CASE TlvByte(1) \notin {NullTlv, TerminatorTlv, NdefTlv}
      <4>1. cursor' = Required /\ step' = "tlv" /\ message' = message
        BY <2>10, <3>1, <3>5 DEF TakeTlv
      <4>2. QED
        BY <2>3, <2>7, <3>1, <3>5, <4>1, TlvTaken
    <3>6. QED
      BY <3>2, <3>3, <3>4, <3>5
  <2>11. CASE WalkEnds
    <3>1. /\ step = "tlv" /\ (AtEnd(tag.cc) \/ OutOfReach(tag.cc))
          /\ step' = "halt" /\ message' = message
      BY <2>3, <2>11 DEF WalkEnds
    <3>2. Written(tag) = <<>>
      BY <2>3, <2>4, <2>11, <3>1, EndTells DEF WalkEnds
    <3>3. QED
      BY <1>2, <2>0, <2>1, <2>2, <2>4, <3>1, <3>2
  <2>12. QED
    BY <1>7, <2>6, <2>8, <2>9, <2>10, <2>11
<1>8. CASE Halt
  <2>1. /\ step = "halt" /\ step' = "idle" /\ outcome' = "Tag"
        /\ field' = field /\ uid' = uid /\ message' = message
    BY <1>8 DEF Halt
  <2>2. \A t \in TagNames : Tells(t) => Tells(t)'
    BY <1>0, <2>1 DEF Tells
  <2>3. QED
    BY <1>0, <2>1, <2>2 DEF ReadingOK, WalkOK
<1>9. QED
  BY <1>3, <1>4, <1>5, <1>6, <1>7, <1>8 DEF PollNext

(* Every state of tags, polls and parsing keeps all of this.               *)
LEMMA ReadingInvariant == ContentSpec => [](PollTypeOK /\ ReadingOK)
<1>1. ContentInit => ReadingOK
  BY ContentPolls
  DEF PollInit, ReadingOK, ActiveOK, FreshOK, WalkOK, CacheOK, CalmOK, Reading
<1>2. PollTypeOK /\ UidOK /\ ReadingOK /\ [ContentNext]_contentVars => ReadingOK'
  BY ContentPolls, ActiveKept, FreshKept, WalkKept, CacheKept, CalmKept
  DEF ReadingOK
<1>3. QED
  BY <1>1, <1>2, PollInvariant, PTL DEF ContentSpec

(* For every field of tags, a tag that is reported is one tag: its uid and *)
(* its message are of the same tag, and the message is the whole of what   *)
(* was written or none at all.  No tag hands on bytes of another, a        *)
(* beginning of a message, or what was cached for another uid (pollNfcA,   *)
(* readType2Tag).                                                          *)
THEOREM ReportedIsOneTags == ContentSpec => []ReportsOneTag
<1>1. UidOK /\ ReadingOK => ReportsOneTag
  BY DEF UidOK, Chosen, ReadingOK, WalkOK, Tells, ReportsOneTag
<1>2. QED
  BY <1>1, ReadingInvariant, PollInvariant, PTL

(* For every field of tags, a tag that is read without a disturbance is    *)
(* read right: every message that lies on it within the capacity and the   *)
(* first sector is reported, however its blocks are laid out, and nothing  *)
(* is where there is none (readType2Tag, the TLV walk).                    *)
THEOREM WhatWasWrittenIsRead == ContentSpec => []ReadsWhatWasWritten
<1>1. ReadingOK => ReadsWhatWasWritten
  BY DEF ReadingOK, WalkOK, Tells, ReadsWhatWasWritten
<1>2. QED
  BY <1>1, ReadingInvariant, PTL

(* What a parser has been given is what was read from a tag.               *)
Given ==
    /\ result = "none" => offset = 0 /\ messageEnd = FALSE /\ records = <<>>
    /\ TagNames # {} /\ result # "none" =>
          /\ step = "idle"
          /\ \E t \in TagNames : uid = FullUid(t) /\ data = Written(field.tags[t])

(* The inductive invariant of reading and parsing together.                *)
ContentOK == ReadInv /\ Given

(* The moment a message is handed over nothing of it has been parsed, and
   what is to come is the whole of it: the beginning of the inductive
   invariant, for a state that a step leads to.                            *)
LEMMA StartIsReadNext ==
    ASSUME data' \in Seq(Byte), offset' = 0, messageEnd' = FALSE,
           records' = <<>>, result' # "success", result' # "failure"
    PROVE  ReadInv'
<1>1. (CursorInside /\ messageEnd \in BOOLEAN)'
  <2>1. Len(data') \in Nat
    OBVIOUS
  <2>2. messageEnd' \in BOOLEAN
    BY Zenon
  <2>3. offset' \in 0..Len(data')
    BY <2>1
  <2>4. QED
    BY <2>2, <2>3 DEF CursorInside
<1>2. ParsesWhatWasWritten'
  BY DEF ParsesWhatWasWritten
<1>3. From(data')[1] = ToCome'
  <2>1. PICK d \in Seq(Byte) : d = data'
    OBVIOUS
  <2>2. From(d)[1] \in SUBSET Seq(Found(d))
    BY <2>1, FromTyped DEF IsFrom, GlueTurns
  <2>3. \A q \in From(d)[1] : <<>> \o q = q
    BY <2>2
  <2>4. Behind(<<>>, From(d)[1]) = From(d)[1]
    BY <2>3 DEF Behind
  <2>5. ToCome' = Behind(records', From(data')[0 + 1])
    BY DEF ToCome
  <2>6. QED
    BY <2>1, <2>4, <2>5
<1>4. \E X : records' \in Seq(X)
  <2>1. records' \in Seq({})
    OBVIOUS
  <2>2. QED
    BY <2>1
<1>5. QED
  BY <1>1, <1>2, <1>3, <1>4 DEF ReadInv, ReadSoFar

(* The message of a tag is bytes.                                          *)
LEMMA WrittenBytes ==
    ASSUME NEW tag, Placed(tag)
    PROVE  Written(tag) \in Seq(Byte)
<1>1. Cell = Byte
  BY DEF Cell, Byte
<1>2. <<>> \in Seq(Byte)
  OBVIOUS
<1>3. ASSUME Ndefs(tag.tlvs) # {}
      PROVE  tag.tlvs[First(tag.tlvs)].value \in Seq(Byte)
  <2>1. tag.tlvs \in Seq(Tlvs)
    BY DEF Placed
  <2>2. tag.tlvs[First(tag.tlvs)] \in Tlvs
    BY <1>3, <2>1, FirstIsLeast
  <2>3. QED
    BY <1>1, <2>2 DEF Tlvs
<1>4. QED
  BY <1>2, <1>3, WrittenIs

(* What is delivered was written on a tag.                                 *)
LEMMA DeliveredIsWritten ==
    ASSUME PollTypeOK, UidOK, ReadingOK, Undelivered
    PROVE  /\ message \in Seq(Byte)
           /\ \E t \in TagNames : uid = FullUid(t) /\ message = Written(field.tags[t])
<1>1. PICK t \in TagNames : uid = FullUid(t)
  BY DEF UidOK, Chosen, Undelivered
<1>2. message = Written(field.tags[t])
  BY <1>1 DEF ReadingOK, WalkOK, Undelivered, Tells
<1>3. message \in Seq(Byte)
  BY <1>1, <1>2, TagFacts, WrittenBytes
<1>4. QED
  BY <1>1, <1>2, <1>3

(* Every step of the poll, the delivery and the parser keeps it.           *)
LEMMA ContentKept ==
    ASSUME PollTypeOK, UidOK, ReadingOK, ContentOK, [ContentNext]_contentVars
    PROVE  ContentOK'
<1> USE DEF ContentOK
<1>0. ASSUME field' = field
      PROVE  /\ TagNames' = TagNames
             /\ \A t : /\ FullUid(t)' = FullUid(t)
                       /\ Written(field.tags[t])' = Written(field.tags[t])
  <2>1. TagNames' = TagNames /\ \A t : FullUid(t)' = FullUid(t)
    BY <1>0 DEF TagNames, FullUid, UidOf
  <2>2. \A t : Written(field'.tags[t]) = Written(field.tags[t])
    BY <1>0
  <2>3. QED
    BY <2>1, <2>2
<1>1. field' = field
  BY DEF ContentNext, contentVars, PollStep, Deliver, ParseStep,
         PollNext, pollVars, TagMoves, StartPoll, OtherProtocol, WakeUp,
         Anticollision, SelectLevel, ReadManufacturer, ReadBlock, TakeTlv,
         WalkEnds, Halt, Driven
<1>2. UNCHANGED vars => ReadInv'
  BY DEF vars, ReadInv, ReadSoFar, CursorInside, ParsesWhatWasWritten,
         ToCome, Remaining
<1>3. ASSUME UNCHANGED vars, result # "none" => uid' = uid /\ step' = step
      PROVE  ContentOK'
  <2>1. Given'
    BY <1>0, <1>1, <1>3 DEF vars, Given
  <2>2. QED
    BY <1>2, <1>3, <2>1
<1>4. CASE PollStep
  <2>1. CASE Starts
    <3>1. /\ data' = <<>> /\ offset' = 0 /\ messageEnd' = FALSE
          /\ records' = <<>> /\ result' = "none"
      BY <1>4, <2>1 DEF PollStep
    <3>2. data' \in Seq(Byte)
      BY <3>1
    <3>3. result' # "success" /\ result' # "failure"
      BY <3>1
    <3>4. ReadInv'
      BY <3>1, <3>2, <3>3, StartIsReadNext
    <3>5. QED
      BY <3>1, <3>4 DEF Given
  <2>2. CASE ~Starts
    <3>1. UNCHANGED vars /\ TagNames # {} /\ PollNext
      BY <1>4, <2>2 DEF PollStep
    <3>2. result # "none" => uid' = uid /\ step' = step
      BY <2>2, <3>1
      DEF Given, Starts, PollNext, TagMoves, StartPoll, OtherProtocol, WakeUp,
          Anticollision, SelectLevel, ReadManufacturer, ReadBlock, TakeTlv,
          WalkEnds, Halt
    <3>3. QED
      BY <1>3, <3>1, <3>2
  <2>3. QED
    BY <2>1, <2>2
<1>5. CASE Deliver
  <2>1. /\ Undelivered /\ data' = message /\ result' = "parsing"
        /\ offset' = offset /\ messageEnd' = messageEnd /\ records' = records
        /\ uid' = uid /\ step' = step
    BY <1>5 DEF Deliver, pollVars
  <2>2. offset = 0 /\ messageEnd = FALSE /\ records = <<>> /\ step = "idle"
    BY <2>1 DEF Undelivered, Given
  <2>3. /\ message \in Seq(Byte)
        /\ \E t \in TagNames : uid = FullUid(t) /\ message = Written(field.tags[t])
    BY <2>1, DeliveredIsWritten
  <2>4. ReadInv'
    BY <2>1, <2>2, <2>3, StartIsReadNext
  <2>5. Given'
    BY <1>0, <1>1, <2>1, <2>2, <2>3 DEF Given
  <2>6. QED
    BY <2>4, <2>5
<1>6. CASE ParseStep
  <2>1. Next /\ UNCHANGED pollVars
    BY <1>6 DEF ParseStep
  <2>2. ReadInv'
    BY <2>1, ParseStepReads, RefuseReads, FinishReads DEF Next
  <2>3. /\ result = "parsing" /\ result' # "none" /\ data' = data
        /\ uid' = uid /\ step' = step
    BY <2>1 DEF Next, ParseRecord, Refuse, Finish, pollVars
  <2>4. Given'
    BY <1>0, <1>1, <2>3 DEF Given
  <2>5. QED
    BY <2>2, <2>4
<1>7. CASE UNCHANGED contentVars
  BY <1>3, <1>7 DEF contentVars, pollVars
<1>8. QED
  BY <1>4, <1>5, <1>6, <1>7 DEF ContentNext

(* Before the first poll nothing has been delivered.                       *)
LEMMA ContentBegins == ContentInit => ContentOK
<1> SUFFICES ASSUME ContentInit PROVE ContentOK
  OBVIOUS
<1>1. CASE TagNames = {}
  <2>1. Init
    BY <1>1 DEF ContentInit
  <2>2. ReadInv
    BY <2>1, StartIsRead, MessagesAssumption DEF Init
  <2>3. QED
    BY <1>1, <2>1, <2>2 DEF ContentOK, Given, Init
<1>2. CASE TagNames # {}
  <2>1. Unparsed
    BY <1>2 DEF ContentInit
  <2>2. data \in Seq(Byte)
    BY <2>1 DEF Unparsed
  <2>3. ReadInv
    BY <2>1, <2>2, StartIsRead DEF Unparsed
  <2>4. QED
    BY <2>1, <2>3 DEF ContentOK, Given, Unparsed
<1>3. QED
  BY <1>1, <1>2

(* Every state of tags, polls and parsing has it.                          *)
LEMMA ContentInvariant == ContentSpec => []ContentOK
<1>1. PollTypeOK /\ UidOK /\ ReadingOK /\ ContentOK /\ [ContentNext]_contentVars
        => ContentOK'
  BY ContentKept
<1>2. QED
  BY <1>1, ContentBegins, ReadingInvariant, PollInvariant, PTL DEF ContentSpec

(* From the tag to the records: for every field of tags, the records that  *)
(* are handed on are those of the message that is written on the tag whose *)
(* uid is reported, and a message is refused only if no records encode to  *)
(* it (readType2Tag, parseNdef).                                           *)
THEOREM RecordsAreTheTagsOwn == ContentSpec => []RecordsAreTheTags
<1>1. ContentOK => RecordsAreTheTags
  BY DEF ContentOK, ReadInv, Given, ParsesWhatWasWritten, RecordsAreTheTags
<1>2. QED
  BY <1>1, ContentInvariant, PTL

(* The parser keeps its promise when its input comes from a tag: what      *)
(* WhatWasWrittenIsParsed says of a message in memory holds of one that    *)
(* was read (parseNdef).                                                   *)
THEOREM DeliveredIsParsed == ContentSpec => []ParsesWhatWasWritten
<1>1. ContentOK => ParsesWhatWasWritten
  BY DEF ContentOK, ReadInv
<1>2. QED
  BY <1>1, ContentInvariant, PTL

-----------------------------------------------------------------------------
(* One exchange.                                                           *)

(* What waitForInterrupt has read since the request.                       *)
Read == flags \cup stored

Signs == {"RXS", "RXE", "COL", "ERR"}

WaitPlaces == {"level", "error", "main", "again", "match", "sleep"}
SensfPlaces == {"look", "final", "settle", "verdict"}
Places == Asking \cup WaitPlaces \cup SensfPlaces \cup {"judge", "fetch"}

Asked == place \notin Asking

Looks == {"nothing", "part", "whole", "damaged"}

PlaceOK ==
    /\ place \in Places
    /\ place \in SensfPlaces => kind = "sensf"
    /\ place = "fetch" => kind \in {"wakeup", "frame"}
    /\ place \in {"match", "sleep"} => pass = 0
    /\ place = "sleep" => left > 0
    /\ place \in {"clear", "send"} => air = "idle"
    /\ place = "send" => latched = Silent /\ stored = {}
    /\ seen \in Looks
    /\ verdict \in {"none", "NoTag", "Unsure", "Failed", "Sent", "Answer"}
    /\ activity \in BOOLEAN /\ ready \in BOOLEAN /\ late \in BOOLEAN

(* The error register holds errors, the other one everything else, and no  *)
(* interrupt comes twice in an exchange.                                   *)
RegistersOK ==
    /\ latched["error"] \subseteq {"ERR"}
    /\ "ERR" \notin latched["main"]
    /\ Asked => /\ Read \cap latched["error"] = {}
               /\ Read \cap latched["main"] = {}

(* What has happened tells how far the radio is and what the tag said.     *)
RadioOK ==
    Asked =>
    /\ answer \in Answers(kind)
    /\ air # "idle"
    /\ air = "sending" => happened = {}
    /\ air = "listening" => happened \subseteq {"TXE", "NRE"}
    /\ air = "receiving" => happened \subseteq {"TXE", "NRE", "RXS", "COL"}
    /\ air \in {"receiving", "done"} => answer # "none"
    /\ air \in {"sending", "listening"} => fifo \in {"empty", "request"}
    /\ "COL" \in happened => answer = "clash"
    /\ "ERR" \in happened => answer = "bad"
    /\ answer = "bad" /\ "RXE" \in happened => "ERR" \in happened
    /\ "NRE" \in happened /\ kind # "sensf" => answer = "none"

OneIf(i, S) == IF i \in S THEN 1 ELSE 0
Count(S) == OneIf("TXE", S) + OneIf("NRE", S) + OneIf("RXS", S) + OneIf("RXE", S)
                + OneIf("COL", S) + OneIf("ERR", S)

(* A drain has read as many interrupts as it made passes, and one more if  *)
(* an error came too late for the pass that read the end of its frame.     *)
DrainOK ==
    /\ place = "error" /\ pass > 0 => Line /\ Count(Read) >= pass - 1
    /\ place = "main" /\ pass > 0 =>
          Count(Read \cup (latched["main"] \ (IF latched["error"] = {} THEN {}
                                              ELSE {"RXE"}))) >= pass
    /\ place = "main" /\ latched["error"] # {} => "RXE" \in latched["main"]
    /\ place = "again" =>
          Count(Read) >= pass + (IF "RXE" \in Read
                                 THEN OneIf("ERR", latched["error"]) ELSE 0)

KnownDamage == "ERR" \in Read \/ (kind = "sensf" /\ "COL" \in Read)

(* Damage the chip has shown is known to the driver by the time it matches *)
(* what it has read.                                                       *)
DamageOK ==
    Asked /\ seen = "damaged" =>
        \/ KnownDamage
        \/ place \in {"level", "error", "again"} /\ "ERR" \in latched["error"]

Judged == {"judge", "fetch"} \cup SensfPlaces

JudgeOK ==
    Asked =>
    /\ place \in Judged => stored \cap Awaited(kind) = {}
    /\ seen # "nothing" => activity \/ Read \cap Signs # {}
    /\ kind # "sensf" => activity = FALSE
    /\ place \in SensfPlaces /\ seen # "nothing"
         => activity \/ flags \cap Errors # {}
    /\ place = "fetch" => "ERR" \notin flags /\ flags \cap Signs # {}
    /\ place = "settle" => activity
    /\ ready => seen \in {"whole", "damaged"}

DoubtOK ==
    /\ DoubtHasReason
    /\ Asked /\ answer = "none" => ~activity
    /\ place = "judge" /\ kind # "sensf"
         => late \/ flags \cap Awaited(kind) # {}
    /\ place = "verdict" => \/ ready \/ ~activity \/ late
                            \/ flags \cap Errors # {}

ExchangeInv ==
    /\ InterruptsAccounted /\ PlaceOK /\ RegistersOK /\ RadioOK
    /\ JudgeOK /\ DoubtOK /\ DrainOK
(* More interrupts read count more.                                        *)
LEMMA CountGrows ==
    ASSUME NEW S, NEW T, S \subseteq T
    PROVE  Count(S) \in Nat /\ Count(T) \in Nat /\ Count(S) <= Count(T)
BY DEF Count, OneIf

(* What a look at the FIFO makes of "seen".                                *)
LEMMA LookNoticed ==
    ASSUME Notice(Shown), PlaceOK
    PROVE  /\ seen' = "nothing" => seen = "nothing"
           /\ seen = "nothing" => seen' = Shown
           /\ fifo \notin {"part", "whole"} => seen' = seen
           /\ fifo = "whole" => seen' \in {"whole", "damaged"}
           /\ seen \in {"whole", "damaged"} => seen' \in {"whole", "damaged"}
           /\ seen' \in Looks
           /\ seen' = "damaged" => seen = "damaged"
BY DEF Notice, Ranks, PlaceOK, Looks, Shown

(* A step moves interrupts from the registers to the driver or adds new    *)
(* ones; none is dropped between the request and the verdict.              *)
LEMMA AccountKept ==
    ASSUME ExchangeInv, [ExchangeNext]_exchangeVars
    PROVE  InterruptsAccounted'
<1> USE ExchangeAssumption, LookNoticed
    DEF ExchangeInv, chip, judging, driverVars, Waiting, Unchanging, End, Looks,
                InterruptsAccounted, TypeOK, PlaceOK, Pending, Asking, Silent,
        Registers, Interrupts, Kinds, Answers
<1>1. CASE TransmitEnds \/ TimerExpires \/ ReceiveStarts \/ Collision
  BY <1>1 DEF TransmitEnds, TimerExpires, ReceiveStarts, Collision, Latch, Line
<1>2. CASE BytesArrive \/ ReceiveEnds
  BY <1>2 DEF BytesArrive, ReceiveEnds, Latch, Line
<1>3. ASSUME NEW k \in Kinds, StartExchange(k) PROVE InterruptsAccounted'
  BY <1>3 DEF StartExchange
<1>4. CASE PrepareTransceive \/ ClearInterrupts \/ Transmit \/ Aborted
  BY <1>4 DEF PrepareTransceive, StopAll, ClearInterrupts, Transmit, Aborted
<1>5. CASE SampleLine \/ SampleAgain
  BY <1>5 DEF SampleLine, SampleAgain, DrainOn, Line
<1>6. CASE ReadErrors
  BY <1>6 DEF ReadErrors, Notice, Ranks
<1>7. CASE ReadMain
  BY <1>7 DEF ReadMain, MainShows, Notice, Ranks
<1>8. CASE Matched
  BY <1>8 DEF Matched, TakeFlags, Awaited
<1>9. CASE DeadlinePassed \/ Sleep
  BY <1>9 DEF DeadlinePassed, Sleep, NoneMatched, Awaited
<1>10. CASE EdgeArrives \/ SliceOver
  BY <1>10 DEF EdgeArrives, SliceOver, SliceTaken
<1>11. CASE JudgeWakeup \/ JudgeFrame \/ JudgeHalt
  BY <1>11 DEF JudgeWakeup, JudgeFrame, JudgeHalt, Awaited
<1>12. CASE FetchWhole \/ FetchLater
  BY <1>12 DEF FetchWhole, FetchLater
<1>13. CASE Look
  BY <1>13 DEF Look, InspectFifo, NoInspection
<1>14. CASE SensfError \/ SensfEvent
  BY <1>14 DEF SensfError, SensfEvent, Activity, Errors
<1>15. CASE FinalSample \/ Settle \/ SensfVerdict
  BY <1>15 DEF FinalSample, Settles, Settle, SensfVerdict, Errors
<1>16. CASE UNCHANGED exchangeVars
  BY <1>16 DEF exchangeVars
<1>17. QED
  BY <1>1, <1>2, <1>3, <1>4, <1>5, <1>6, <1>7, <1>8, <1>9, <1>10, <1>11, <1>12,
      <1>13, <1>14, <1>15, <1>16
  DEF ExchangeNext, Chip, Driver, WaitForInterrupt

(* The driver is where the kind of exchange allows.                        *)
LEMMA PlaceKept ==
    ASSUME ExchangeInv, [ExchangeNext]_exchangeVars
    PROVE  PlaceOK'
<1> USE ExchangeAssumption, LookNoticed
    DEF ExchangeInv, chip, judging, driverVars, Waiting, Unchanging, End, Looks,
                InterruptsAccounted, TypeOK, PlaceOK, Asking, Silent, Registers,
        Places, WaitPlaces, SensfPlaces, Kinds, Interrupts
<1>1. CASE TransmitEnds \/ TimerExpires \/ ReceiveStarts \/ Collision
  BY <1>1 DEF TransmitEnds, TimerExpires, ReceiveStarts, Collision, Latch, Line
<1>2. CASE BytesArrive \/ ReceiveEnds
  BY <1>2 DEF BytesArrive, ReceiveEnds, Latch, Line
<1>3. ASSUME NEW k \in Kinds, StartExchange(k) PROVE PlaceOK'
  BY <1>3 DEF StartExchange
<1>4. CASE PrepareTransceive \/ ClearInterrupts \/ Transmit \/ Aborted
  BY <1>4 DEF PrepareTransceive, StopAll, ClearInterrupts, Transmit, Aborted
<1>5. CASE SampleLine \/ SampleAgain
  BY <1>5 DEF SampleLine, SampleAgain, DrainOn, Line
<1>6. CASE ReadErrors
  BY <1>6 DEF ReadErrors, Notice, Ranks
<1>7. CASE ReadMain
  BY <1>7 DEF ReadMain, MainShows, Notice, Ranks
<1>8. CASE Matched
  BY <1>8 DEF Matched, TakeFlags, Awaited
<1>9. CASE DeadlinePassed \/ Sleep
  BY <1>9 DEF DeadlinePassed, Sleep, NoneMatched, Awaited
<1>10. CASE EdgeArrives \/ SliceOver
  BY <1>10 DEF EdgeArrives, SliceOver, SliceTaken
<1>11. CASE JudgeWakeup \/ JudgeFrame \/ JudgeHalt
  BY <1>11 DEF JudgeWakeup, JudgeFrame, JudgeHalt, Awaited
<1>12. CASE FetchWhole \/ FetchLater
  BY <1>12 DEF FetchWhole, FetchLater
<1>13. CASE Look
  BY <1>13 DEF Look, InspectFifo, NoInspection
<1>14. CASE SensfError \/ SensfEvent
  BY <1>14 DEF SensfError, SensfEvent, Activity, Errors
<1>15. CASE FinalSample \/ Settle \/ SensfVerdict
  BY <1>15 DEF FinalSample, Settles, Settle, SensfVerdict, Errors
<1>16. CASE UNCHANGED exchangeVars
  BY <1>16 DEF exchangeVars
<1>17. QED
  BY <1>1, <1>2, <1>3, <1>4, <1>5, <1>6, <1>7, <1>8, <1>9, <1>10, <1>11, <1>12,
      <1>13, <1>14, <1>15, <1>16
  DEF ExchangeNext, Chip, Driver, WaitForInterrupt

(* No interrupt is latched twice, for each has its moment in an exchange.  *)
LEMMA RegistersKept ==
    ASSUME ExchangeInv, [ExchangeNext]_exchangeVars
    PROVE  RegistersOK'
<1> USE ExchangeAssumption, LookNoticed
    DEF ExchangeInv, chip, judging, driverVars, Waiting, Unchanging, End, Looks,
                InterruptsAccounted, TypeOK, PlaceOK, RegistersOK, RadioOK,
        Read, Asked, Pending, Asking, Silent, Registers, Interrupts, Kinds
<1>1. CASE TransmitEnds \/ TimerExpires \/ ReceiveStarts \/ Collision
  BY <1>1 DEF TransmitEnds, TimerExpires, ReceiveStarts, Collision, Latch, Line
<1>2. CASE BytesArrive \/ ReceiveEnds
  BY <1>2 DEF BytesArrive, ReceiveEnds, Latch, Line
<1>3. ASSUME NEW k \in Kinds, StartExchange(k) PROVE RegistersOK'
  BY <1>3 DEF StartExchange
<1>4. CASE PrepareTransceive \/ ClearInterrupts \/ Transmit \/ Aborted
  BY <1>4 DEF PrepareTransceive, StopAll, ClearInterrupts, Transmit, Aborted
<1>5. CASE SampleLine \/ SampleAgain
  BY <1>5 DEF SampleLine, SampleAgain, DrainOn, Line
<1>6. CASE ReadErrors
  BY <1>6 DEF ReadErrors, Notice, Ranks
<1>7. CASE ReadMain
  BY <1>7 DEF ReadMain, MainShows, Notice, Ranks
<1>8. CASE Matched
  BY <1>8 DEF Matched, TakeFlags, Awaited
<1>9. CASE DeadlinePassed \/ Sleep
  BY <1>9 DEF DeadlinePassed, Sleep, NoneMatched, Awaited
<1>10. CASE EdgeArrives \/ SliceOver
  BY <1>10 DEF EdgeArrives, SliceOver, SliceTaken
<1>11. CASE JudgeWakeup \/ JudgeFrame \/ JudgeHalt
  BY <1>11 DEF JudgeWakeup, JudgeFrame, JudgeHalt, Awaited
<1>12. CASE FetchWhole \/ FetchLater
  BY <1>12 DEF FetchWhole, FetchLater
<1>13. CASE Look
  BY <1>13 DEF Look, InspectFifo, NoInspection
<1>14. CASE SensfError \/ SensfEvent
  BY <1>14 DEF SensfError, SensfEvent, Activity, Errors
<1>15. CASE FinalSample \/ Settle \/ SensfVerdict
  BY <1>15 DEF FinalSample, Settles, Settle, SensfVerdict, Errors
<1>16. CASE UNCHANGED exchangeVars
  BY <1>16 DEF exchangeVars
<1>17. QED
  BY <1>1, <1>2, <1>3, <1>4, <1>5, <1>6, <1>7, <1>8, <1>9, <1>10, <1>11, <1>12,
      <1>13, <1>14, <1>15, <1>16
  DEF ExchangeNext, Chip, Driver, WaitForInterrupt

(* The radio goes from one phase to the next.                              *)
LEMMA RadioKept ==
    ASSUME ExchangeInv, [ExchangeNext]_exchangeVars
    PROVE  RadioOK'
<1> USE ExchangeAssumption, LookNoticed
    DEF ExchangeInv, chip, judging, driverVars, Waiting, Unchanging, End, Looks,
                InterruptsAccounted, TypeOK, PlaceOK, RadioOK, Asked, Pending,
        Asking, Kinds, Interrupts, Answers
<1>1. CASE TransmitEnds \/ TimerExpires \/ ReceiveStarts \/ Collision
  BY <1>1 DEF TransmitEnds, TimerExpires, ReceiveStarts, Collision, Latch, Line
<1>2. CASE BytesArrive \/ ReceiveEnds
  BY <1>2 DEF BytesArrive, ReceiveEnds, Latch, Line
<1>3. ASSUME NEW k \in Kinds, StartExchange(k) PROVE RadioOK'
  BY <1>3 DEF StartExchange
<1>4. CASE PrepareTransceive \/ ClearInterrupts \/ Transmit \/ Aborted
  BY <1>4 DEF PrepareTransceive, StopAll, ClearInterrupts, Transmit, Aborted
<1>5. CASE SampleLine \/ SampleAgain
  BY <1>5 DEF SampleLine, SampleAgain, DrainOn, Line
<1>6. CASE ReadErrors
  BY <1>6 DEF ReadErrors, Notice, Ranks
<1>7. CASE ReadMain
  BY <1>7 DEF ReadMain, MainShows, Notice, Ranks
<1>8. CASE Matched
  BY <1>8 DEF Matched, TakeFlags, Awaited
<1>9. CASE DeadlinePassed \/ Sleep
  BY <1>9 DEF DeadlinePassed, Sleep, NoneMatched, Awaited
<1>10. CASE EdgeArrives \/ SliceOver
  BY <1>10 DEF EdgeArrives, SliceOver, SliceTaken
<1>11. CASE JudgeWakeup \/ JudgeFrame \/ JudgeHalt
  BY <1>11 DEF JudgeWakeup, JudgeFrame, JudgeHalt, Awaited
<1>12. CASE FetchWhole \/ FetchLater
  BY <1>12 DEF FetchWhole, FetchLater
<1>13. CASE Look
  BY <1>13 DEF Look, InspectFifo, NoInspection
<1>14. CASE SensfError \/ SensfEvent
  BY <1>14 DEF SensfError, SensfEvent, Activity, Errors
<1>15. CASE FinalSample \/ Settle \/ SensfVerdict
  BY <1>15 DEF FinalSample, Settles, Settle, SensfVerdict, Errors
<1>16. CASE UNCHANGED exchangeVars
  BY <1>16 DEF exchangeVars
<1>17. QED
  BY <1>1, <1>2, <1>3, <1>4, <1>5, <1>6, <1>7, <1>8, <1>9, <1>10, <1>11, <1>12,
      <1>13, <1>14, <1>15, <1>16
  DEF ExchangeNext, Chip, Driver, WaitForInterrupt

(* What has been seen leaves a trace in what the driver judges by.         *)
LEMMA JudgeKept ==
    ASSUME ExchangeInv, [ExchangeNext]_exchangeVars
    PROVE  JudgeOK'
<1> USE ExchangeAssumption, LookNoticed
    DEF ExchangeInv, chip, judging, driverVars, Waiting, Unchanging, End, Looks,
                InterruptsAccounted, TypeOK, PlaceOK, RegistersOK, RadioOK,
        JudgeOK, Judged, SensfPlaces, Errors, Signs, Awaited, Read, Asked,
        Pending, Asking, Silent, Registers, Interrupts, Kinds
<1>1. CASE TransmitEnds \/ TimerExpires \/ ReceiveStarts \/ Collision
  BY <1>1 DEF TransmitEnds, TimerExpires, ReceiveStarts, Collision, Latch, Line
<1>2. CASE BytesArrive \/ ReceiveEnds
  BY <1>2 DEF BytesArrive, ReceiveEnds, Latch, Line
<1>3. ASSUME NEW k \in Kinds, StartExchange(k) PROVE JudgeOK'
  BY <1>3 DEF StartExchange
<1>4. CASE PrepareTransceive \/ ClearInterrupts \/ Transmit \/ Aborted
  BY <1>4 DEF PrepareTransceive, StopAll, ClearInterrupts, Transmit, Aborted
<1>5. CASE SampleLine \/ SampleAgain
  BY <1>5 DEF SampleLine, SampleAgain, DrainOn, Line
<1>6. CASE ReadErrors
  BY <1>6 DEF ReadErrors, Notice, Ranks
<1>7. CASE ReadMain
  BY <1>7 DEF ReadMain, MainShows, Notice, Ranks
<1>8. CASE Matched
  BY <1>8 DEF Matched, TakeFlags, Awaited
<1>9. CASE DeadlinePassed \/ Sleep
  BY <1>9 DEF DeadlinePassed, Sleep, NoneMatched, Awaited
<1>10. CASE EdgeArrives \/ SliceOver
  BY <1>10 DEF EdgeArrives, SliceOver, SliceTaken
<1>11. CASE JudgeWakeup \/ JudgeFrame \/ JudgeHalt
  BY <1>11 DEF JudgeWakeup, JudgeFrame, JudgeHalt, Awaited
<1>12. CASE FetchWhole \/ FetchLater
  BY <1>12 DEF FetchWhole, FetchLater
<1>13. CASE Look
  <2>1. /\ Asked /\ place = "look" /\ kind = "sensf" /\ flags' = flags
        /\ kind' = kind /\ Read' = Read /\ stored' = stored
        /\ place' \in {"final", "level"}
    BY <1>13 DEF Look
  <2>2. CASE NoInspection
    BY <2>1, <2>2 DEF NoInspection
  <2>3. CASE InspectFifo
    BY <2>1, <2>3 DEF InspectFifo
  <2>4. QED
    BY <1>13, <2>2, <2>3 DEF Look
<1>14. CASE SensfError \/ SensfEvent
  <2>1. CASE SensfError
    BY <2>1 DEF SensfError
  <2>2. CASE SensfEvent
    <3>1. /\ Asked /\ place = "judge" /\ kind = "sensf" /\ stored = {}
          /\ flags' = flags /\ kind' = kind /\ stored' = stored
          /\ flags \cap Errors = {} /\ place' \in {"final", "look"}
      BY <2>2 DEF SensfEvent
    <3>2. activity' \in BOOLEAN /\ (seen' # "nothing" => activity')
      <4>1. CASE Notice(Shown)
                 /\ activity' = (activity \/ Activity(flags)
                                   \/ fifo \in {"part", "whole"})
        BY <2>2, <3>1, <4>1 DEF Activity
      <4>2. CASE activity' = (activity \/ Activity(flags)) /\ seen' = seen
        BY <2>2, <3>1, <4>2 DEF Activity
      <4>3. QED
        BY <2>2, <4>1, <4>2 DEF SensfEvent
    <3>3. ready' => seen' \in {"whole", "damaged"}
      BY <2>2, <3>1 DEF SensfEvent
    <3>4. QED
      BY <3>1, <3>2, <3>3
  <2>3. QED
    BY <1>14, <2>1, <2>2
<1>15. CASE FinalSample \/ Settle \/ SensfVerdict
  BY <1>15 DEF FinalSample, Settles, Settle, SensfVerdict, Errors
<1>16. CASE UNCHANGED exchangeVars
  BY <1>16 DEF exchangeVars
<1>17. QED
  BY <1>1, <1>2, <1>3, <1>4, <1>5, <1>6, <1>7, <1>8, <1>9, <1>10, <1>11, <1>12,
      <1>13, <1>14, <1>15, <1>16
  DEF ExchangeNext, Chip, Driver, WaitForInterrupt

(* Doubt is expressed after a deadline, or of an answer that was not clean.*)
LEMMA DoubtKept ==
    ASSUME ExchangeInv, [ExchangeNext]_exchangeVars
    PROVE  DoubtOK'
<1> USE ExchangeAssumption, LookNoticed
    DEF ExchangeInv, chip, judging, driverVars, Waiting, Unchanging, End, Looks,
                InterruptsAccounted, TypeOK, PlaceOK, RegistersOK, RadioOK,
        JudgeOK, DoubtOK, DoubtHasReason, Judged, SensfPlaces, Errors, Signs,
        Awaited, Read, Asked, Pending, Asking, Silent, Registers, Interrupts,
        Kinds
<1>1. CASE TransmitEnds \/ TimerExpires \/ ReceiveStarts \/ Collision
  BY <1>1 DEF TransmitEnds, TimerExpires, ReceiveStarts, Collision, Latch, Line
<1>2. CASE BytesArrive \/ ReceiveEnds
  BY <1>2 DEF BytesArrive, ReceiveEnds, Latch, Line
<1>3. ASSUME NEW k \in Kinds, StartExchange(k) PROVE DoubtOK'
  BY <1>3 DEF StartExchange
<1>4. CASE PrepareTransceive \/ ClearInterrupts \/ Transmit \/ Aborted
  BY <1>4 DEF PrepareTransceive, StopAll, ClearInterrupts, Transmit, Aborted
<1>5. CASE SampleLine \/ SampleAgain
  BY <1>5 DEF SampleLine, SampleAgain, DrainOn, Line
<1>6. CASE ReadErrors
  BY <1>6 DEF ReadErrors, Notice, Ranks
<1>7. CASE ReadMain
  BY <1>7 DEF ReadMain, MainShows, Notice, Ranks
<1>8. CASE Matched
  BY <1>8 DEF Matched, TakeFlags, Awaited
<1>9. CASE DeadlinePassed \/ Sleep
  BY <1>9 DEF DeadlinePassed, Sleep, NoneMatched, Awaited
<1>10. CASE EdgeArrives \/ SliceOver
  BY <1>10 DEF EdgeArrives, SliceOver, SliceTaken
<1>11. CASE JudgeWakeup \/ JudgeFrame \/ JudgeHalt
  BY <1>11 DEF JudgeWakeup, JudgeFrame, JudgeHalt, Awaited
<1>12. CASE FetchWhole \/ FetchLater
  BY <1>12 DEF FetchWhole, FetchLater
<1>13. CASE Look
  BY <1>13 DEF Look, InspectFifo, NoInspection
<1>14. CASE SensfError \/ SensfEvent
  BY <1>14 DEF SensfError, SensfEvent, Activity, Errors
<1>15. CASE FinalSample \/ Settle \/ SensfVerdict
  BY <1>15 DEF FinalSample, Settles, Settle, SensfVerdict, Errors
<1>16. CASE UNCHANGED exchangeVars
  BY <1>16 DEF exchangeVars
<1>17. QED
  BY <1>1, <1>2, <1>3, <1>4, <1>5, <1>6, <1>7, <1>8, <1>9, <1>10, <1>11, <1>12,
      <1>13, <1>14, <1>15, <1>16
  DEF ExchangeNext, Chip, Driver, WaitForInterrupt

(* Each pass reads something, and an error that misses its pass costs the  *)
(* pass one interrupt more.                                                *)
LEMMA DrainKept ==
    ASSUME ExchangeInv, [ExchangeNext]_exchangeVars
    PROVE  DrainOK'
<1> USE ExchangeAssumption
    DEF ExchangeInv, chip, judging, driverVars, Waiting, Unchanging, End
<1>1. ASSUME TransmitEnds \/ TimerExpires \/ ReceiveStarts \/ Collision
             \/ ReceiveEnds
      PROVE  DrainOK'
  <2> DEFINE Shut == IF latched["error"] = {} THEN {} ELSE {"RXE"}
             M == latched["main"] \ Shut
  <2>1. Read' = Read /\ place' = place /\ pass' = pass
    BY <1>1
    DEF TransmitEnds, TimerExpires, ReceiveStarts, Collision, ReceiveEnds, Read
  <2>2. /\ latched["main"] \subseteq latched'["main"]
        /\ latched["error"] \subseteq latched'["error"]
        /\ latched'["error"] # latched["error"] =>
              "RXE" \in latched'["main"] /\ air = "receiving"
    BY <1>1
    DEF TransmitEnds, TimerExpires, ReceiveStarts, Collision, ReceiveEnds,
        Latch
  <2>3. ASSUME latched'["error"] # latched["error"], Asked
        PROVE  "RXE" \notin Read \cup latched["main"]
    BY <2>2, <2>3 DEF RadioOK, InterruptsAccounted, Pending, Asked, Read
  <2>4. CASE place = "error"
    BY <2>1, <2>2, <2>4 DEF Line, DrainOK, Registers
  <2>5. CASE place = "main"
    <3>1. M \subseteq M'
      BY <2>2, <2>3, <2>5 DEF Asked, Asking
    <3>2. pass > 0 => Count(Read \cup M) >= pass
      BY <2>5 DEF DrainOK
    <3>3. latched'["error"] # {} => "RXE" \in latched'["main"]
      BY <2>2, <2>5 DEF DrainOK
    <3> HIDE DEF M
    <3>4. /\ Count(Read \cup M) \in Nat /\ Count((Read \cup M)') \in Nat
          /\ Count(Read \cup M) <= Count((Read \cup M)')
      BY <2>1, <3>1, CountGrows
    <3>5. pass > 0 => Count((Read \cup M)') >= pass
      BY <3>2, <3>4, <2>1 DEF InterruptsAccounted, TypeOK
    <3>6. QED
      BY <2>1, <2>5, <3>3, <3>5 DEF M, DrainOK
  <2>6. CASE place = "again"
    BY <2>1, <2>2, <2>3, <2>6 DEF DrainOK, OneIf, Asked, Asking
  <2>7. QED
    BY <2>1, <2>4, <2>5, <2>6 DEF DrainOK
<1>2. CASE ReadErrors
  BY <1>2
  DEF ReadErrors, InterruptsAccounted, TypeOK, PlaceOK, RegistersOK, DrainOK,
      Count, OneIf, Read, Asked, Asking, Registers, Interrupts, Line
<1>3. CASE ReadMain
  <2>1. /\ place = "main" /\ place' \in {"level", "again"}
        /\ pass' = pass /\ flags' = flags
    BY <1>3 DEF ReadMain
  <2>2. Read' = Read \cup latched["main"]
    BY <1>3 DEF ReadMain, Read
  <2>3. latched'["error"] = latched["error"]
    BY <1>3 DEF ReadMain, InterruptsAccounted, TypeOK, Registers
  <2>4. CASE pass > 0
    <3>1. CASE latched["error"] = {}
      <4>1. latched["main"] \ {} = latched["main"]
        OBVIOUS
      <4>2. Count(Read') >= pass
        BY <2>1, <2>2, <2>4, <3>1, <4>1 DEF DrainOK
      <4>3. QED
        BY <2>1, <2>3, <3>1, <4>2 DEF DrainOK, OneIf, InterruptsAccounted, TypeOK
    <3>2. CASE latched["error"] # {}
      <4>1. "RXE" \in latched["main"] /\ "RXE" \notin Read
        BY <2>1, <3>2 DEF DrainOK, RegistersOK, Asked, Asking
      <4>2. Count(Read \cup (latched["main"] \ {"RXE"})) >= pass
        BY <2>1, <2>4, <3>2 DEF DrainOK
      <4>3. Count(Read') = Count(Read \cup (latched["main"] \ {"RXE"})) + 1
        BY <2>2, <4>1 DEF Count, OneIf
      <4>4. \A i, S : OneIf(i, S) \in {0, 1}
        BY DEF OneIf
      <4>5. Count(Read') >= pass + OneIf("ERR", latched["error"])
        BY <4>2, <4>3, <4>4 DEF InterruptsAccounted, TypeOK, Count
      <4>6. QED
        BY <2>1, <2>3, <4>5, <4>2, <4>3, <4>4
        DEF DrainOK, InterruptsAccounted, TypeOK, Count
    <3>3. QED
      BY <3>1, <3>2
  <2>5. CASE pass = 0
    BY <1>3, <2>5 DEF ReadMain, DrainOK
  <2>6. QED
    BY <2>4, <2>5 DEF InterruptsAccounted, TypeOK
<1>4. CASE SampleLine \/ SampleAgain
  BY <1>4
  DEF SampleLine, SampleAgain, DrainOn, DrainOK, InterruptsAccounted, TypeOK,
      OneIf, Count, Line, Read
<1>5. CASE EdgeArrives \/ SliceOver
  BY <1>5 DEF EdgeArrives, SliceOver, DrainOK, PlaceOK
<1>6. CASE BytesArrive \/ UNCHANGED exchangeVars
  BY <1>6 DEF BytesArrive, exchangeVars, DrainOK, Read, Line
<1>7. CASE PrepareTransceive \/ ClearInterrupts \/ Transmit \/ Aborted
             \/ \E k \in Kinds : StartExchange(k)
  BY <1>7
  DEF PrepareTransceive, ClearInterrupts, Transmit, Aborted, StartExchange,
      DrainOK
<1>8. CASE Matched \/ DeadlinePassed \/ Sleep \/ JudgeWakeup \/ JudgeFrame
           \/ JudgeHalt
  BY <1>8
  DEF Matched, DeadlinePassed, Sleep, NoneMatched, JudgeWakeup, JudgeFrame,
      JudgeHalt, DrainOK
<1>9. CASE FetchWhole \/ FetchLater \/ Look \/ SensfError \/ SensfEvent
           \/ FinalSample \/ Settle \/ SensfVerdict
  BY <1>9
  DEF FetchWhole, FetchLater, Look, SensfError, SensfEvent, FinalSample, Settle,
      SensfVerdict, DrainOK
<1>10. QED
  BY <1>1, <1>2, <1>3, <1>4, <1>5, <1>6, <1>7, <1>8, <1>9
  DEF ExchangeNext, Chip, Driver, WaitForInterrupt

(* Four passes are enough for the error register to be read again after an *)
(* error that came between its reading and that of the main register.      *)
LEMMA DamageKept ==
    ASSUME ExchangeInv, DamageOK, Passes >= 4,
           [ExchangeNext]_exchangeVars
    PROVE  DamageOK'
<1> USE ExchangeAssumption
    DEF ExchangeInv, chip, judging, driverVars, Waiting, Unchanging, End, Looks,
                InterruptsAccounted, TypeOK, Pending, PlaceOK, RegistersOK,
        RadioOK, DamageOK, KnownDamage, Read, Asked, Asking, Registers,
        Interrupts, Kinds
<1>1. CASE TransmitEnds \/ TimerExpires \/ ReceiveStarts \/ Collision
             \/ ReceiveEnds \/ BytesArrive
  BY <1>1
  DEF TransmitEnds, TimerExpires, ReceiveStarts, Collision, ReceiveEnds,
      BytesArrive, Latch
<1>2. CASE ReadErrors
  BY <1>2 DEF ReadErrors, Notice, Ranks
<1>3. CASE ReadMain
  BY <1>3 DEF ReadMain, MainShows, Notice, Ranks
<1>4. CASE SampleAgain
  <2>1. ASSUME "ERR" \in latched["error"] PROVE pass <= 3
    <3>1. answer = "bad" /\ "COL" \notin Read /\ "ERR" \notin Read
      BY <1>4, <2>1 DEF SampleAgain
    <3>2. QED
      BY <1>4, <2>1, <3>1 DEF SampleAgain, DrainOK, Count, OneIf
  <2>2. QED
    BY <1>4, <2>1 DEF SampleAgain, DrainOn, Line
<1>5. CASE SampleLine \/ EdgeArrives \/ SliceOver
  BY <1>5 DEF SampleLine, EdgeArrives, SliceOver, Line
<1>6. CASE UNCHANGED exchangeVars
  BY <1>6 DEF exchangeVars
<1>7. CASE PrepareTransceive \/ ClearInterrupts \/ Transmit \/ Aborted
             \/ \E k \in Kinds : StartExchange(k)
  BY <1>7
  DEF PrepareTransceive, ClearInterrupts, Transmit, Aborted, StartExchange
<1>8. CASE Matched \/ DeadlinePassed \/ Sleep \/ JudgeWakeup \/ JudgeFrame
           \/ JudgeHalt
  BY <1>8
  DEF Matched, TakeFlags, DeadlinePassed, Sleep, NoneMatched, JudgeWakeup,
      JudgeFrame, JudgeHalt
<1>9. CASE FetchWhole \/ FetchLater \/ Look \/ SensfError \/ SensfEvent
           \/ FinalSample \/ Settle \/ SensfVerdict
  BY <1>9, LookNoticed
  DEF FetchWhole, FetchLater, Look, InspectFifo, NoInspection, SensfError,
      SensfEvent, FinalSample, Settle, SensfVerdict
<1>10. QED
  BY <1>1, <1>2, <1>3, <1>4, <1>5, <1>6, <1>7, <1>8, <1>9
  DEF ExchangeNext, Chip, Driver, WaitForInterrupt
(* The order of Ranks is that of RadioExchange.                            *)
LEMMA LaterIs ==
    ASSUME NEW h \in Looks, NEW g \in Looks, Ranks[h] <= Ranks[g]
    PROVE  g \in Promise!Later(h)
<1>1. \A r \in 0..3 : \A k \in 0..r :
         Promise!Hearable[r + 1] \in Promise!Later(Promise!Hearable[k + 1])
  BY DEF Promise!Later
<1>2. \A f \in Looks : Ranks[f] \in 0..3 /\ Promise!Hearable[Ranks[f] + 1] = f
  BY DEF Looks, Ranks, Promise!Hearable
<1>3. QED
  BY <1>1, <1>2

(* A notice never takes anything back.                                     *)
LEMMA NoticeIsLater ==
    ASSUME NEW s \in Looks, PlaceOK, Notice(s)
    PROVE  seen' \in Promise!Later(seen)
<1>1. seen \in Looks /\ seen' \in Looks /\ Ranks[seen] <= Ranks[seen']
  BY DEF PlaceOK, Looks, Notice, Ranks
<1>2. QED
  BY <1>1, LaterIs

(* Each step is one of RadioExchange or changes nothing it can see.        *)
LEMMA StepsKeepThePromise ==
    ASSUME ExchangeInv, DamageOK, [ExchangeNext]_exchangeVars
    PROVE  [Promise!Next]_<<place \notin Asking, seen, verdict>>
<1> USE
    DEF ExchangeInv, chip, judging, driverVars, Waiting, Unchanging, PlaceOK,
        Asking
<1>0. /\ seen \in Looks /\ seen \in Promise!Later(seen)
      /\ Shown \in Looks /\ MainShows \in Looks
  BY LaterIs DEF Looks, Ranks, Shown, MainShows
<1>1. CASE Chip \/ UNCHANGED exchangeVars
  BY <1>1
  DEF Chip, TransmitEnds, TimerExpires, ReceiveStarts, Collision, ReceiveEnds,
      BytesArrive, exchangeVars
<1>2. CASE PrepareTransceive \/ ClearInterrupts
           \/ \E k \in Kinds : StartExchange(k)
  BY <1>2 DEF PrepareTransceive, ClearInterrupts, StartExchange
<1>3. CASE Transmit
  BY <1>3 DEF Transmit, Promise!Next, Promise!Request
<1>4. CASE Aborted
  BY <1>4 DEF Aborted, Promise!Next, Promise!Abandon
<1>5. CASE SampleLine \/ SampleAgain \/ Matched \/ DeadlinePassed \/ Sleep
           \/ EdgeArrives \/ SliceOver
  BY <1>5
  DEF SampleLine, SampleAgain, DrainOn, Matched, DeadlinePassed, Sleep,
      NoneMatched, EdgeArrives, SliceOver
<1>6. CASE ReadErrors
  BY <1>6, <1>0, NoticeIsLater DEF ReadErrors, Looks, Promise!Next, Promise!Hear
<1>7. CASE ReadMain
  BY <1>7, <1>0, NoticeIsLater DEF ReadMain, Promise!Next, Promise!Hear
<1>8. CASE SensfError
  BY <1>8 DEF SensfError
<1>9. CASE Look \/ SensfEvent \/ FinalSample \/ Settle
  <2>1. place \notin Asking /\ place' \notin Asking /\ verdict' = verdict
    BY <1>9 DEF Look, SensfEvent, FinalSample, Settle
  <2>2. seen' \in Promise!Later(seen)
    BY <1>9, <1>0, NoticeIsLater
    DEF Look, InspectFifo, NoInspection, SensfEvent, FinalSample, Settle
  <2>3. QED
    BY <2>1, <2>2 DEF Promise!Next, Promise!Hear
<1>10. CASE JudgeWakeup
  <2>1. place = "judge" /\ kind = "wakeup" /\ seen' = seen
    BY <1>10 DEF JudgeWakeup
  <2>2. (flags \cup stored) \cap Signs = {} => seen = "nothing"
    BY <2>1 DEF JudgeOK, Asked, Read
  <2>3. CASE place' = "fetch" /\ verdict' = verdict
    BY <2>1, <2>3 DEF Promise!Next, Promise!Hear
  <2>4. CASE /\ place' = "idle" /\ verdict' \in {"NoTag", "Unsure"}
             /\ verdict' = "NoTag" => (flags \cup stored) \cap Signs = {}
    BY <2>1, <2>2, <2>4, <1>0
    DEF Promise!Next, Promise!Conclude, Promise!Verdicts
  <2>5. QED
    BY <1>10, <2>3, <2>4 DEF JudgeWakeup, End, Signs
<1>11. CASE JudgeFrame \/ JudgeHalt
  BY <1>11, <1>0
  DEF JudgeFrame, JudgeHalt, End, Promise!Next, Promise!Conclude,
      Promise!Verdicts
<1>12. CASE FetchWhole
  <2>1. seen # "damaged"
    BY <1>12
    DEF FetchWhole, DamageOK, KnownDamage, Asked, Read, JudgeOK, Judged,
        Awaited
  <2>2. seen' = "whole"
    BY <1>12, <2>1, LookNoticed DEF FetchWhole
  <2>3. QED
    BY <1>12, <1>0, <2>2, NoticeIsLater
    DEF FetchWhole, End, Promise!Next, Promise!Conclude, Promise!Verdicts
<1>13. CASE FetchLater
  BY <1>13, <1>0, NoticeIsLater
  DEF FetchLater, End, Promise!Next, Promise!Hear, Promise!Conclude,
      Promise!Verdicts
<1>14. CASE SensfVerdict
  <2>1. place = "verdict" /\ kind = "sensf" /\ seen' = seen /\ place' = "idle"
    BY <1>14 DEF SensfVerdict, SensfPlaces, End
  <2>2. ready /\ flags \cap Errors = {} => seen = "whole"
    BY <2>1
    DEF JudgeOK, Judged, SensfPlaces, DamageOK, KnownDamage, Asked, Read,
        Errors, Awaited, Interrupts
  <2>3. ~activity /\ flags \cap Errors = {} => seen = "nothing"
    BY <2>1 DEF JudgeOK, SensfPlaces, Asked
  <2>4. QED
    BY <1>14, <1>0, <2>1, <2>2, <2>3
    DEF SensfVerdict, End, Promise!Next, Promise!Conclude, Promise!Verdicts
<1>15. QED
  BY <1>1, <1>2, <1>3, <1>4, <1>5, <1>6, <1>7, <1>8, <1>9, <1>10, <1>11, <1>12,
      <1>13, <1>14
  DEF ExchangeNext, Driver, WaitForInterrupt

(* The invariant holds at the start.                                       *)
LEMMA ExchangeStarts ==
    ExchangeInit => ExchangeInv /\ DamageOK
<1> SUFFICES ASSUME ExchangeInit PROVE ExchangeInv /\ DamageOK
  OBVIOUS
<1> USE ExchangeAssumption
    DEF ExchangeInit, Asked, Asking, Silent, Registers
<1>1. InterruptsAccounted
  BY DEF InterruptsAccounted, TypeOK, Kinds, Answers, Interrupts
<1>2. PlaceOK
  BY DEF PlaceOK, Places, SensfPlaces, Looks
<1>3. RegistersOK /\ RadioOK /\ JudgeOK /\ DamageOK /\ DrainOK
  BY DEF RegistersOK, RadioOK, JudgeOK, Judged, SensfPlaces, DamageOK, DrainOK
<1>4. DoubtOK
  BY DEF DoubtOK, DoubtHasReason
<1>5. QED
  BY <1>1, <1>2, <1>3, <1>4 DEF ExchangeInv

(* The inductive invariant of the exchange.                                *)
LEMMA ExchangeInvariant == ExchangeSpec => []ExchangeInv
<1>1. ExchangeInit => ExchangeInv
  BY ExchangeStarts
<1>2. ExchangeInv /\ [ExchangeNext]_exchangeVars => ExchangeInv'
  BY AccountKept, PlaceKept, RegistersKept, RadioKept,
     JudgeKept, DoubtKept, DrainKept
  DEF ExchangeInv
<1>3. QED
  BY <1>1, <1>2, PTL DEF ExchangeSpec

(* Between the request and the verdict every interrupt of the exchange, and*)
(* no other, is latched, stored or taken, for any number of passes, edges  *)
(* and slices (readInterrupts, waitForInterrupt).                          *)
THEOREM NoInterruptIsLost == ExchangeSpec => []InterruptsAccounted
<1>1. ExchangeInv => InterruptsAccounted
  BY DEF ExchangeInv
<1>2. QED
  BY <1>1, ExchangeInvariant, PTL

(* A verdict of doubt or failure over a clean answer, or over silence, has *)
(* a deadline behind it, however edges are missed and bytes come late.     *)
THEOREM DoubtIsEarned == ExchangeSpec => []DoubtHasReason
<1>1. ExchangeInv => DoubtHasReason
  BY DEF ExchangeInv, DoubtOK
<1>2. QED
  BY <1>1, ExchangeInvariant, PTL

(* Every verdict is earned as RadioExchange says, if one drain makes four  *)
(* passes or more: damage that shows in the main register has by then been *)
(* read from the error register too.  The code makes four.  Three are too  *)
(* few: TXE, NRE and RXS may each take a pass before the end of a frame.   *)
THEOREM VerdictsAreEarned ==
    ASSUME Passes >= 4
    PROVE  ExchangeSpec => ImplementsExchange
<1>1. ExchangeInit => DamageOK /\ Promise!Init
  BY ExchangeStarts DEF ExchangeInit, Promise!Init, Asking
<1>2. ExchangeInv /\ DamageOK /\ [ExchangeNext]_exchangeVars => DamageOK'
  BY DamageKept
<1>3. ExchangeInv /\ DamageOK /\ [ExchangeNext]_exchangeVars
        => [Promise!Next]_<<place \notin Asking, seen, verdict>>
  BY StepsKeepThePromise
<1>4. QED
  BY <1>1, <1>2, <1>3, ExchangeInvariant, PTL
  DEF ExchangeSpec, ImplementsExchange, Promise!Spec
=============================================================================
