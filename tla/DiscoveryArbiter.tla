--------------------------- MODULE DiscoveryArbiter ---------------------------
(***************************************************************************)
(* LinuxNfcBackend's choice between NFC-F (FeliCa) and NFC-A on every poll *)
(* (src/nfc/linux_nfc_backend.cpp, startDiscovery, stopDiscovery and       *)
(* pollDiscovery): NFC-F is preferred, NFC-A is probed only after NFC-F    *)
(* had its chances, and the protocol that found a tag is kept while the    *)
(* tag may still be there.                                                 *)
(*                                                                         *)
(* The radio is the environment: one exchange of the driver with a         *)
(* protocol ends in "Tag", "NoTag" (a clean silence) or "Inconclusive" (a  *)
(* partial or colliding exchange, which pollDiscovery reports as           *)
(* NoObservation).  An exchange that throws makes the worker close the     *)
(* backend, which is Reset here.                                           *)
(***************************************************************************)
EXTENDS Integers, Sequences, FiniteSets

CONSTANTS
    LockedNoTagThreshold,             \* kLockedNoTagThreshold
    NfcFCleanNoTagThreshold,          \* kNfcFCleanNoTagThreshold
    NfcFInconclusiveFallbackThreshold,\* kNfcFInconclusiveFallbackThreshold
    Window                  \* bound: exchanges remembered by "recent"

Outcomes == {"Tag", "NoTag", "Inconclusive"}

Protocols == {"F", "A"}

ASSUME ArbiterAssumption ==
    /\ LockedNoTagThreshold \in Nat \ {0}
    /\ NfcFCleanNoTagThreshold \in Nat \ {0}
    /\ NfcFInconclusiveFallbackThreshold \in Nat \ {0}
    /\ Window \in Nat

VARIABLES
    scanning,      \* _scanning
    probe,         \* _probe_protocol
    locked,        \* _locked_protocol
    lockedNoTags,  \* _locked_no_tag_count
    cleanNoTags,   \* _nfcf_clean_no_tag_count
    inconclusive,  \* _nfcf_inconclusive_count
    result,        \* what the last call of pollDiscovery returned
    recent,        \* history: the last exchanges with the radio, in order
    last,          \* history: the exchanges of the last poll
    flip           \* changes with every poll, so that a poll is never a stutter

counters == <<lockedNoTags, cleanNoTags, inconclusive>>
vars == <<scanning, probe, locked, counters, result, recent, last, flip>>

Other(p) == IF p = "F" THEN "A" ELSE "F"

Exchange(p, o) == [protocol |-> p, outcome |-> o]

LastOf(s) == IF Len(s) <= Window THEN s
             ELSE SubSeq(s, Len(s) - Window + 1, Len(s))

(* pollDiscovery returns r after these exchanges.                           *)
Returns(r, exchanges) ==
    /\ result' = r
    /\ recent' = LastOf(recent \o exchanges)
    /\ last' = exchanges
    /\ flip' = ~flip

ClearCounters == lockedNoTags' = 0 /\ cleanNoTags' = 0 /\ inconclusive' = 0

PreferF == probe' = "F" /\ locked' = "None" /\ ClearCounters

(* lockProtocol                                                            *)
LockOn(p) == probe' = p /\ locked' = p /\ ClearCounters

Init ==
    /\ scanning = FALSE
    /\ probe = "F"
    /\ locked = "None"
    /\ lockedNoTags = 0 /\ cleanNoTags = 0 /\ inconclusive = 0
    /\ result = "NoObservation"
    /\ recent = <<>>
    /\ last = <<>>
    /\ flip = FALSE

StartDiscovery ==
    /\ PreferF
    /\ scanning' = TRUE
    /\ UNCHANGED <<result, recent, last, flip>>

(* stopDiscovery, and closeImpl after a failure or at the end.             *)
Reset ==
    /\ PreferF
    /\ scanning' = FALSE
    /\ UNCHANGED <<result, recent, last, flip>>

-----------------------------------------------------------------------------
(* pollDiscovery, one action per way through it.                           *)

Reported(o) == IF o = "Inconclusive" THEN "NoObservation" ELSE o

PollLocked == scanning /\ locked # "None" /\ UNCHANGED scanning

PollUnlocked == scanning /\ locked = "None" /\ UNCHANGED scanning

(* fallbackToA, after the exchange e with NFC-F.                           *)
FallbackToA(e) ==
    \E a \in Outcomes :
        /\ IF a = "Tag" THEN LockOn("A") ELSE PreferF
        /\ Returns(Reported(a), <<e, Exchange("A", a)>>)

LockedTag ==
    /\ PollLocked
    /\ ClearCounters
    /\ Returns("Tag", <<Exchange(locked, "Tag")>>)
    /\ UNCHANGED <<probe, locked>>

NoiseIgnored == UNCHANGED <<lockedNoTags, cleanNoTags>>    \* mutant

(* Silences must follow one another: noise starts their count again.       *)
NoiseBreaksSilence == lockedNoTags' = 0 /\ cleanNoTags' = 0

(* Noise keeps the lock; it is counted only while NFC-F is locked.         *)
LockedInconclusive ==
    /\ PollLocked
    /\ \/ locked = "A" /\ UNCHANGED inconclusive
       \/ /\ locked = "F"
          /\ inconclusive + 1 < NfcFInconclusiveFallbackThreshold
          /\ inconclusive' = inconclusive + 1
    /\ NoiseBreaksSilence
    /\ Returns("NoObservation", <<Exchange(locked, "Inconclusive")>>)
    /\ UNCHANGED <<probe, locked>>

LockedFallback ==
    /\ PollLocked
    /\ locked = "F"
    /\ inconclusive + 1 >= NfcFInconclusiveFallbackThreshold
    /\ FallbackToA(Exchange("F", "Inconclusive"))

LockedNoTag ==
    /\ PollLocked
    /\ lockedNoTags + 1 < LockedNoTagThreshold
    /\ lockedNoTags' = lockedNoTags + 1
    /\ inconclusive' = 0
    /\ Returns("NoTag", <<Exchange(locked, "NoTag")>>)
    /\ UNCHANGED <<probe, locked, cleanNoTags>>

LockReleased ==
    /\ PollLocked
    /\ lockedNoTags + 1 >= LockedNoTagThreshold
    /\ PreferF
    /\ Returns("NoTag", <<Exchange(locked, "NoTag")>>)

ProbeTag ==
    /\ PollUnlocked
    /\ LockOn(probe)
    /\ Returns("Tag", <<Exchange(probe, "Tag")>>)

(* A partial NFC-F answer: NFC-A must not win the race for this tag.       *)
ProbeInconclusive ==
    /\ PollUnlocked
    /\ probe = "F"
    /\ inconclusive + 1 < NfcFInconclusiveFallbackThreshold
    /\ inconclusive' = inconclusive + 1
    /\ cleanNoTags' = 0
    /\ Returns("NoObservation", <<Exchange("F", "Inconclusive")>>)
    /\ UNCHANGED <<probe, locked, lockedNoTags>>

ProbeFallback ==
    /\ PollUnlocked
    /\ probe = "F"
    /\ inconclusive + 1 >= NfcFInconclusiveFallbackThreshold
    /\ FallbackToA(Exchange("F", "Inconclusive"))

Uncounted == UNCHANGED cleanNoTags     \* mutant: NFC-F is tried for ever

CountSilence == cleanNoTags' = cleanNoTags + 1

(* The first clean silence of NFC-F does not yet let NFC-A have its turn.  *)
ProbeNoTag ==
    /\ PollUnlocked
    /\ probe = "F"
    /\ cleanNoTags + 1 < NfcFCleanNoTagThreshold
    /\ CountSilence
    /\ inconclusive' = 0
    /\ Returns("NoTag", <<Exchange("F", "NoTag")>>)
    /\ UNCHANGED <<probe, locked, lockedNoTags>>

EnoughAtOnce == TRUE                   \* mutant: the first silence suffices

EnoughSilence == cleanNoTags + 1 >= NfcFCleanNoTagThreshold

(* A poll that finds nothing with the first protocol tries the other one.  *)
ProbeBoth ==
    \E first \in {"NoTag", "Inconclusive"} :
        /\ PollUnlocked
        /\ probe = "F" => first = "NoTag" /\ EnoughSilence
        /\ \E second \in Outcomes :
              /\ IF second = "Tag" THEN LockOn(Other(probe)) ELSE PreferF
              /\ Returns(IF second = "Tag" THEN "Tag"
                         ELSE IF "Inconclusive" \in {first, second}
                         THEN "NoObservation" ELSE "NoTag",
                         <<Exchange(probe, first),
                           Exchange(Other(probe), second)>>)

Poll ==
    \/ LockedTag \/ LockedInconclusive \/ LockedFallback
    \/ LockedNoTag \/ LockReleased
    \/ ProbeTag \/ ProbeInconclusive \/ ProbeFallback
    \/ ProbeNoTag \/ ProbeBoth

Next == StartDiscovery \/ Reset \/ Poll

Spec == Init /\ [][Next]_vars

(* A reader that is scanning keeps polling, and is never told to stop.     *)
ScanNext == (StartDiscovery /\ ~scanning) \/ Poll

ScanSpec == Init /\ [][ScanNext]_vars /\ WF_vars(ScanNext)

-----------------------------------------------------------------------------
TypeOK ==
    /\ scanning \in BOOLEAN
    /\ probe \in Protocols
    /\ locked \in Protocols \cup {"None"}
    /\ lockedNoTags \in 0..(LockedNoTagThreshold - 1)
    /\ cleanNoTags \in 0..(NfcFCleanNoTagThreshold - 1)
    /\ inconclusive \in 0..(NfcFInconclusiveFallbackThreshold - 1)
    /\ result \in {"Tag", "NoTag", "NoObservation"}
    /\ recent \in Seq([protocol : Protocols, outcome : Outcomes])
    /\ last \in Seq([protocol : Protocols, outcome : Outcomes])
    /\ flip \in BOOLEAN

(* The protocol to probe is NFC-F or the locked one, so an unlocked reader *)
(* always gives NFC-F the first exchange of a poll; and counts kept for    *)
(* one mode never leak into the other.                                     *)
FComesFirst ==
    /\ locked = "None" => probe = "F" /\ lockedNoTags = 0
    /\ locked # "None" => probe = locked /\ cleanNoTags = 0
    /\ locked = "A" => inconclusive = 0
    /\ ~scanning => locked = "None"

ArbiterInv == TypeOK /\ FComesFirst

EndsIn(s, n, e) ==
    /\ Len(s) >= n
    /\ \A i \in (Len(s) - n + 1)..Len(s) : s[i] = e

(* An NFC-A tag is locked only after NFC-F was silent twice in a row, or   *)
(* was noisy three times in a row, right before: a phone that answers both *)
(* is taken for the FeliCa tag it is.                                      *)
ALocksOnlyAfterF ==
    [][locked' = "A" /\ locked # "A"
         => LET before == SubSeq(recent', 1, Len(recent') - 1)
            IN  \/ EndsIn(before, NfcFCleanNoTagThreshold,
                          Exchange("F", "NoTag"))
                \/ EndsIn(before, NfcFInconclusiveFallbackThreshold,
                          Exchange("F", "Inconclusive"))]_vars

(* A lock is given up, while scanning goes on, only after three clean      *)
(* silences in a row of its own protocol, or three noisy exchanges in a    *)
(* row when it is NFC-F: one missed answer never flips a tag's technology. *)
LockKeptThroughDoubt ==
    [][locked # "None" /\ locked' # locked /\ Poll
         => \/ EndsIn(recent', LockedNoTagThreshold, Exchange(locked, "NoTag"))
            \/ /\ locked = "F"
               /\ EndsIn(SubSeq(recent', 1, Len(recent') - 1),
                         NfcFInconclusiveFallbackThreshold,
                         Exchange("F", "Inconclusive"))]_vars

(* NFC-A is not locked out while the reader polls on: unless NFC-F is      *)
(* silent and noisy in turn for ever, NFC-A is tried again and again, or a *)
(* tag is found.                                                           *)
Seen(p, o) == \E i \in DOMAIN last : last[i] = Exchange(p, o)

OfOneMind == <>[]~Seen("F", "NoTag") \/ <>[]~Seen("F", "Inconclusive")

ATried == result = "Tag" \/ \E i \in DOMAIN last : last[i].protocol = "A"

ANotStarved == <>[][Poll]_vars /\ <>[]scanning /\ OfOneMind => []<>ATried

(* "probe A once so that an NFC-A tag cannot be hidden behind a permanent  *)
(* F lock" (pollDiscovery, above fallbackToA): a lock on NFC-F that finds  *)
(* no tag any more is given up.                                            *)
NoPermanentFLock == locked = "F" ~> (locked # "F" \/ result = "Tag")
=============================================================================
