--------------------------- MODULE St25r3916Driver ---------------------------
(***************************************************************************)
(* St25r3916Driver (src/nfc/st25r3916_driver.cpp) as LinuxNfcBackend uses  *)
(* it: which protocol the field is configured for, when the field has to   *)
(* be reset, and the cache that spares a present tag a second NDEF read.   *)
(* One value d holds the driver's fields; an operator gives the value a    *)
(* call leaves behind.  Registers, frames and interrupts are left out: an  *)
(* exchange ends in "Tag", "NoTag" or "Inconclusive".                      *)
(* _failed_wakeups and _consecutive_nfcf_no_tags are left out too: one is  *)
(* for logging, the other is never read.                                   *)
(***************************************************************************)
EXTENDS Naturals

CONSTANTS
    CacheRemoval,   \* kNdefCacheRemovalConfirmations
    NoCache         \* an empty _cached_tag

ASSUME DriverAssumption == CacheRemoval \in Nat \ {0}

(* What a poll of NFC-A found: the identity of a tag and its NDEF content, *)
(* or that the content could not be read.                                  *)
Unread == "unread"

Finding(id, content) == [id |-> id, content |-> content]

Closed == [ready |-> FALSE, enabled |-> FALSE, protocol |-> "A",
           field |-> "off", reset |-> FALSE, noTags |-> 0, cache |-> NoCache]

(* initialize() leaves an NFC-A field on.                                  *)
Initialize == [Closed EXCEPT !.ready = TRUE, !.enabled = TRUE, !.field = "A"]

StartNfcF(d) ==
    IF d.enabled /\ d.protocol = "F" THEN d
    ELSE [d EXCEPT !.enabled = TRUE, !.protocol = "F", !.field = "F",
                   !.reset = FALSE]

(* stopNfcA(), for both protocols.                                         *)
StopNfcA(d) ==
    IF ~d.enabled THEN d
    ELSE [d EXCEPT !.enabled = FALSE, !.protocol = "A", !.field = "off",
                   !.reset = FALSE, !.noTags = 0, !.cache = NoCache]

(* The first thing a poll does: switch the protocol, or reset the field    *)
(* after an incomplete exchange.                                           *)
ReadyForA(d) ==
    IF d.protocol = "A" THEN [d EXCEPT !.reset = FALSE]
    ELSE [d EXCEPT !.protocol = "A", !.field = "A", !.reset = FALSE,
                   !.noTags = 0]

ReadyForF(d) ==
    [d EXCEPT !.protocol = "F", !.field = "F", !.reset = FALSE]

CacheRemovedLate(d) ==     \* mutant: > instead of >=
    [d EXCEPT !.noTags = @ + 1,
              !.cache = IF d.noTags + 1 > CacheRemoval THEN NoCache ELSE @]

(* Nobody answered the wake-up: three times in a row empty the cache.      *)
NobodyAnswered(d) ==
    [d EXCEPT !.noTags = IF d.noTags < CacheRemoval THEN @ + 1 ELSE @,
              !.cache = IF d.noTags + 1 >= CacheRemoval THEN NoCache ELSE @]

ReportCached(d, id, read) ==    \* mutant: the uid is not compared
    IF d.cache # NoCache THEN Finding(id, d.cache.content)
    ELSE Finding(id, read)

(* A tag of this identity answered: the cached content if it is the cached *)
(* tag, what reading it gave otherwise.                                    *)
Report(d, id, read) ==
    IF d.cache # NoCache /\ d.cache.id = id
    THEN d.cache
    ELSE Finding(id, read)

(* pollNfcA() and pollNfcF().  halted: HLTA finished transmitting.         *)
AfterNfcA(d, outcome, id, read, halted) ==
    LET r == ReadyForA(d)
    IN  CASE outcome = "NoTag" -> NobodyAnswered(r)
          [] outcome = "Inconclusive" -> [r EXCEPT !.noTags = 0, !.reset = TRUE]
          [] outcome = "Tag" -> [r EXCEPT !.noTags = 0, !.reset = ~halted,
                                          !.cache = Report(r, id, read)]

AfterNfcF(d, outcome) ==
    [ReadyForF(d) EXCEPT !.reset = outcome = "Inconclusive"]
=============================================================================
