----------------------------- MODULE TagContent -----------------------------
(***************************************************************************)
(* From the antenna to the records: NfcAPoll selects and reads a tag, and  *)
(* LinuxNfcBackend hands what was read to NdefParser before the poll       *)
(* returns.                                                                *)
(***************************************************************************)
EXTENDS NfcAPoll, NdefParser

contentVars == <<pollVars, vars>>

Unparsed ==
    /\ data = <<>> /\ offset = 0 /\ messageEnd = FALSE
    /\ records = <<>> /\ result = "none"

(* Where no tag will ever be, the parser alone is given a message.         *)
ContentInit ==
    PollInit /\ IF TagNames = {} THEN Init ELSE Unparsed

(* A message that was read has to be parsed before the next poll.          *)
Undelivered ==
    step = "idle" /\ outcome = "Tag" /\ message # <<>> /\ result = "none"

Starts == step = "idle" /\ step' = "wake"

PollStep ==
    /\ TagNames # {} /\ ~Undelivered /\ result # "parsing"
    /\ PollNext
    /\ IF Starts
       THEN /\ data' = <<>> /\ offset' = 0 /\ messageEnd' = FALSE
            /\ records' = <<>> /\ result' = "none"
       ELSE UNCHANGED vars

Deliver ==
    /\ Undelivered
    /\ data' = message /\ result' = "parsing"
    /\ UNCHANGED <<offset, messageEnd, records, pollVars>>

ParseStep == Next /\ UNCHANGED pollVars

ContentNext == PollStep \/ Deliver \/ ParseStep

ContentSpec == ContentInit /\ [][ContentNext]_contentVars

-----------------------------------------------------------------------------
(* The records that are handed on are those of the message that was        *)
(* written on the one tag whose uid is reported, and only a message that   *)
(* no records encode to is refused: reading and parsing taken together,    *)
(* whatever happens to this tag and others meanwhile.                      *)
RecordsAreTheTags ==
    TagNames # {} /\ result \in {"success", "failure"} =>
        \E t \in TagNames :
            /\ uid = FullUid(t)
            /\ MessagesOf(Written(field.tags[t])) =
                  IF result = "success" THEN {records} ELSE {}
=============================================================================
