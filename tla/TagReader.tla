------------------------------ MODULE TagReader ------------------------------
(***************************************************************************)
(* LinuxNfcBackend with its driver, and the tags somebody holds to the     *)
(* antenna: DiscoveryArbiter chooses the exchanges of a poll,              *)
(* St25r3916Driver carries them out.                                       *)
(*                                                                         *)
(* What lies on the antenna may change between two polls, and a tag may    *)
(* come back with another content.  An exchange finds a tag only if one    *)
(* that speaks the protocol is there; it may always be disturbed, and a    *)
(* tag may always be missed.  Only NfcWorker's initialization starts       *)
(* discovery in this program, on a backend that is not scanning.           *)
(***************************************************************************)
EXTENDS DiscoveryArbiter, St25r3916Driver

CONSTANTS
    AntennaTags,     \* tags that may be held to the antenna
    NothingThere     \* no tag is

ASSUME ReaderAssumption ==
    /\ \A t \in AntennaTags : t.techs \subseteq Protocols
    /\ NothingThere \notin AntennaTags

(* The driver forgets a tag no later than the backend gives it up.         *)
ASSUME ExpiryAssumption == CacheRemoval <= LockedNoTagThreshold

VARIABLES
    driver,      \* the fields of St25r3916Driver
    antenna,     \* the tag held to the antenna now
    report,      \* the NFC-A tag the last poll reported, or NoCache
    held         \* history: what lay there at the polls of the present lock

readerVars == <<vars, driver, antenna, report, held>>

Speaks(p) == antenna # NothingThere /\ p \in antenna.techs

ReaderInit ==
    /\ Init
    /\ driver = Closed
    /\ antenna = NothingThere
    /\ report = NoCache
    /\ held = {}

(* Somebody takes the tag away and, perhaps, puts one down.                *)
MoveTag ==
    /\ antenna' \in AntennaTags \cup {NothingThere}
    /\ antenna' # antenna
    /\ UNCHANGED <<vars, driver, report, held>>

Open ==
    /\ ~driver.ready
    /\ driver' = Initialize
    /\ UNCHANGED <<vars, antenna, report, held>>

ReaderStart ==
    /\ driver.ready
    /\ ~scanning
    /\ StartDiscovery
    /\ driver' = StartNfcF(driver)
    /\ UNCHANGED <<antenna, report, held>>

ReaderStop ==
    /\ scanning
    /\ Reset
    /\ driver' = StopNfcA(driver)
    /\ held' = {}
    /\ report' = NoCache
    /\ UNCHANGED antenna

(* closeImpl(): the driver is stopped and destroyed.  The worker does this *)
(* when a poll has thrown, at the end, and before it opens again.          *)
Close ==
    /\ driver.ready
    /\ Reset
    /\ driver' = Closed
    /\ held' = {}
    /\ report' = NoCache
    /\ UNCHANGED antenna

(* The radio reports a tag only where one that speaks its protocol lies.   *)
Possible == \A i \in 1..Len(last') :
                last'[i].outcome = "Tag" => Speaks(last'[i].protocol)

(* The driver after exchange i, of which NFC-A reads "read".               *)
AfterExchange(d, i, read, halted) ==
    IF last'[i].protocol = "F"
    THEN AfterNfcF(d, last'[i].outcome)
    ELSE AfterNfcA(d, last'[i].outcome,
                   IF antenna = NothingThere THEN Unread ELSE antenna.id,
                   read, halted)

ReaderPoll ==
    /\ driver.enabled
    /\ Poll
    /\ Possible
    /\ \E read \in {Unread} \cup (IF Speaks("A") THEN {antenna.content} ELSE {}) :
       \E halted \in BOOLEAN :
          LET first == AfterExchange(driver, 1, read, halted)
          IN  driver' = IF Len(last') = 1 THEN first
                        ELSE AfterExchange(first, 2, read, halted)
    /\ report' = IF result' = "Tag" /\ last'[Len(last')].protocol = "A"
                 THEN driver'.cache ELSE NoCache
    /\ held' = IF locked' = "None" THEN {}
               ELSE IF locked' # locked THEN {antenna}
               ELSE held \cup {antenna}
    /\ UNCHANGED antenna

ReaderNext ==
    MoveTag \/ Open \/ ReaderStart \/ ReaderStop \/ Close \/ ReaderPoll

ReaderSpec == ReaderInit /\ [][ReaderNext]_readerVars

(* NfcWorker polls a reader whose discovery is on, again and again.        *)
PolledSpec == ReaderSpec /\ WF_readerVars(ReaderPoll)

(* The reader scans for ever, and if its readings of a tag can succeed     *)
(* again and again, then some do.                                          *)
Scans == Open \/ ReaderStart \/ ReaderPoll

ReadsWell ==
    /\ ReaderPoll
    /\ antenna # NothingThere
    /\ report' # NoCache
    /\ report'.content = antenna.content

ReadFairSpec ==
    ReaderSpec /\ WF_readerVars(Scans) /\ SF_readerVars(ReadsWell)

-----------------------------------------------------------------------------
(* The field is on for the protocol the next exchange will use without a   *)
(* switch, and only while the reader is open and discovery is enabled.     *)
DriverOK ==
    /\ driver.ready \in BOOLEAN /\ driver.enabled \in BOOLEAN
    /\ driver.protocol \in Protocols
    /\ driver.field = IF driver.enabled THEN driver.protocol ELSE "off"
    /\ driver.noTags \in 0..CacheRemoval
    /\ scanning => driver.enabled
    /\ driver.enabled => driver.ready
    /\ held \subseteq AntennaTags \cup {NothingThere}

(* An NDEF content is remembered only while its tag has the reader locked  *)
(* on NFC-A: the thresholds of the arbiter and of the driver, counted in   *)
(* two places, expire together.                                            *)
CacheOnlyWhileLocked == driver.cache # NoCache => locked = "A"

(* The driver and the backend, each with its own counters, stay in step.   *)
InStep == ArbiterInv /\ DriverOK /\ CacheOnlyWhileLocked

(* No tag is reported with the content of another, nor with one it has not *)
(* had while the reader was locked on it.                                  *)
ReportsWhatWasThere ==
    report # NoCache =>
        \E t \in held \ {NothingThere} :
            /\ t.id = report.id
            /\ report.content \in {t.content, Unread}

(* "Read Text and URI NDEF records from supported Type 2 tags" (README,    *)
(* Features): a tag that stays and answers is read in the end, even if the *)
(* first reading of it was disturbed.                                      *)
TagIsRead ==
    \A t \in AntennaTags :
        <>[](antenna = t /\ scanning /\ report # NoCache)
          => []<>(report # NoCache /\ report.content = t.content)
=============================================================================
