----------------------------- MODULE NfcExchange -----------------------------
(***************************************************************************)
(* One exchange of St25r3916Driver with a tag, step by step: the request   *)
(* (requestWakeup, transceive, haltSelectedTag, and the SENSF exchange of  *)
(* pollNfcF), waitForInterrupt with the registers it reads and the GPIO    *)
(* edge it sleeps on, and the judgement of what was heard.                 *)
(*                                                                         *)
(* The chip runs beside it.  It latches interrupts in two registers, which *)
(* a read clears and which are read one after the other; the IRQ line is   *)
(* high while anything is latched; the kernel queues an edge when the line *)
(* rises, and may miss it.  Received bytes appear in the FIFO, perhaps     *)
(* after the end of the frame was signalled.                               *)
(***************************************************************************)
EXTENDS Naturals, FiniteSets

CONSTANTS
    Passes,      \* readings of the registers in one drain: 4
    MaxEdges,    \* bound: edges the kernel's queue holds
    MaxSlices    \* bound: slices of waiting before the deadline

ASSUME ExchangeAssumption ==
    Passes \in Nat \ {0} /\ MaxEdges \in Nat /\ MaxSlices \in Nat

VARIABLES
    (* the chip and the line to it *)
    answer,      \* what the tag will say to the request
    air,         \* the radio: idle, sending, listening, receiving, done
    fifo,        \* what fifoSize() counts
    latched,     \* interrupts latched in each register
    edges,       \* rising edges queued in the kernel
    (* the driver *)
    kind,        \* the exchange
    place,       \* where the driver is in it
    pass,        \* readings made in this drain, 0 outside one
    stored,      \* _storedInterrupts
    flags,       \* what waitForInterrupt returned so far
    left,        \* slices left before a deadline
    activity,    \* receiveWindow, or more than the request in the FIFO
    ready,       \* frameReady
    verdict,     \* how the exchange ended
    (* history *)
    happened,    \* every interrupt latched since the request
    seen,        \* what the chip showed when it was last looked at
    late         \* a deadline passed

chip == <<answer, air, fifo, latched, edges, happened>>
judging == <<flags, activity, ready, verdict>>
exchangeVars ==
    <<answer, air, fifo, latched, edges, kind, place, pass, stored, flags,
      left, activity, ready, verdict, happened, seen, late>>

Kinds == {"wakeup", "frame", "halt", "sensf"}

Registers == {"error", "main"}

(* I_txe, I_rxs, I_rxe, I_col and the no-response timer share a read; the  *)
(* errors (CRC, parity, hard and soft framing) have a register of their own*)
Interrupts == {"TXE", "RXS", "RXE", "COL", "NRE", "ERR"}

Awaited(k) ==
    CASE k = "wakeup" -> {"RXE", "COL", "NRE", "ERR"}
      [] k = "frame"  -> {"RXE", "NRE", "ERR"}
      [] k = "halt"   -> {"TXE"}
      [] k = "sensf"  -> Interrupts

(* A tag that was halted is silent; a selected tag is alone.               *)
Answers(k) ==
    CASE k = "halt"  -> {"none"}
      [] k = "frame" -> {"none", "good", "bad", "short"}
      [] OTHER       -> {"none", "good", "bad", "short", "clash"}

Line == \E r \in Registers : latched[r] # {}

Silent == [r \in Registers |-> {}]

Ranks == [nothing |-> 0, part |-> 1, whole |-> 2, damaged |-> 3]

(* seen never goes back within one exchange.                               *)
Notice(s) == seen' = IF Ranks[s] > Ranks[seen] THEN s ELSE seen

Shown == CASE fifo = "whole" -> "whole"
           [] fifo = "part"  -> "part"
           [] OTHER          -> "nothing"

ExchangeInit ==
    /\ answer = "none" /\ air = "idle" /\ fifo = "empty"
    /\ latched = Silent /\ edges = 0
    /\ kind = "wakeup" /\ place = "idle" /\ pass = 0
    /\ stored = {} /\ flags = {} /\ left = 0
    /\ activity = FALSE /\ ready = FALSE /\ verdict = "none"
    /\ happened = {} /\ seen = "nothing" /\ late = FALSE

-----------------------------------------------------------------------------
(* The chip and the tag.                                                   *)

(* The line rises if it was low; the edge is queued, or missed.            *)
Latch(errs, mains) ==
    /\ latched' = [error |-> latched["error"] \cup errs,
                   main  |-> latched["main"] \cup mains]
    /\ happened' = happened \cup errs \cup mains
    /\ \/ UNCHANGED edges
       \/ ~Line /\ edges < MaxEdges /\ edges' = edges + 1

driverVars == <<kind, place, pass, stored, left, judging, seen, late>>

TransmitEnds ==
    /\ air = "sending"
    /\ air' = "listening" /\ fifo' = "empty"
    /\ Latch({}, {"TXE"})
    /\ UNCHANGED <<answer, driverVars>>

(* NFC-A: the tag answers at once or never, and its answer stops the timer.*)
(* NFC-F (NRT_EMV): the timer runs on, and an answer may come after it.    *)
TimerExpires ==
    /\ \/ kind = "sensf" /\ air \in {"listening", "receiving"}
       \/ kind \in {"wakeup", "frame"} /\ air = "listening" /\ answer = "none"
    /\ "NRE" \notin happened
    /\ Latch({}, {"NRE"})
    /\ UNCHANGED <<answer, air, fifo, driverVars>>

ReceiveStarts ==
    /\ air = "listening" /\ answer # "none"
    /\ air' = "receiving"
    /\ Latch({}, {"RXS"})
    /\ UNCHANGED <<answer, fifo, driverVars>>

Collision ==
    /\ air = "receiving" /\ answer = "clash" /\ "COL" \notin happened
    /\ Latch({}, {"COL"})
    /\ UNCHANGED <<answer, air, fifo, driverVars>>

(* Bytes become visible, if need be after the end of the frame.            *)
BytesArrive ==
    /\ air \in {"receiving", "done"}
    /\ \/ fifo = "empty" /\ fifo' = "part"
       \/ fifo = "part" /\ answer # "short" /\ fifo' = "whole"
    /\ UNCHANGED <<answer, air, latched, edges, happened, driverVars>>

(* The silicon may leave out RXE for a valid NFC-F frame.                  *)
ReceiveEnds ==
    /\ air = "receiving"
    /\ answer = "clash" => "COL" \in happened
    /\ air' = "done"
    /\ \/ Latch(IF answer = "bad" THEN {"ERR"} ELSE {}, {"RXE"})
       \/ kind = "sensf" /\ answer = "good" /\ UNCHANGED <<latched, happened, edges>>
    /\ UNCHANGED <<answer, fifo, driverVars>>

Chip == TransmitEnds \/ TimerExpires \/ ReceiveStarts \/ Collision
            \/ BytesArrive \/ ReceiveEnds

-----------------------------------------------------------------------------
(* The request.                                                            *)

StartExchange(k) ==
    /\ place = "idle"
    /\ kind' = k /\ place' = "prepare"
    /\ UNCHANGED <<chip, pass, stored, left, judging, seen, late>>

(* Stop All ends what the radio is doing and empties the FIFO.             *)
StopAll == air' = "idle" /\ fifo' = "empty"
               /\ UNCHANGED <<answer, latched, edges, happened>>

(* prepareTransceive                                                       *)
PrepareTransceive ==
    /\ place = "prepare"
    /\ place' = "clear"
    /\ StopAll
    /\ UNCHANGED <<kind, pass, stored, left, judging, seen, late>>

(* The registers are read until the line is low; the radio is stopped, so  *)
(* that the first reading does.  A queued edge stays queued.               *)
ClearInterrupts ==
    /\ place = "clear"
    /\ place' = "send"
    /\ stored' = {} /\ latched' = Silent
    /\ UNCHANGED <<answer, air, fifo, edges, happened, kind, pass, left,
                   judging, seen, late>>

(* Clear FIFO, fill it, and the command that transmits.                    *)
Transmit ==
    /\ place = "send"
    /\ answer' \in Answers(kind)
    /\ air' = "sending"
    /\ fifo' = IF kind = "wakeup" THEN "empty" ELSE "request"
    /\ happened' = {} /\ seen' = "nothing" /\ late' = FALSE
    /\ flags' = {} /\ activity' = FALSE /\ ready' = FALSE /\ verdict' = "none"
    /\ left' = MaxSlices
    /\ place' = IF kind = "sensf" THEN "look" ELSE "level"
    /\ UNCHANGED <<latched, edges, kind, pass, stored>>

-----------------------------------------------------------------------------
(* waitForInterrupt.                                                       *)

Waiting == <<left, kind, judging, late>>

SampleLine ==
    /\ place = "level"
    /\ IF Line THEN place' = "error" /\ pass' = 1
               ELSE place' = "match" /\ pass' = 0
    /\ UNCHANGED <<chip, stored, Waiting, seen>>

(* The error register is read first.                                       *)
ReadErrors ==
    /\ place = "error"
    /\ stored' = stored \cup latched["error"]
    /\ latched' = [latched EXCEPT !["error"] = {}]
    /\ IF "ERR" \in latched["error"] THEN Notice("damaged") ELSE UNCHANGED seen
    /\ place' = "main"
    /\ UNCHANGED <<answer, air, fifo, edges, happened, pass, Waiting>>

MainShows ==
    LET m == latched["main"] IN
    CASE "RXE" \in m /\ answer = "bad"          -> "damaged"
      [] "COL" \in m /\ kind = "sensf"          -> "damaged"
      [] m \cap {"RXS", "RXE", "COL"} # {}      -> "part"
      [] OTHER                                  -> "nothing"

(* pass = 0 is the one reading after a sleep, which the level check at the *)
(* top of the loop follows.                                                *)
ReadMain ==
    /\ place = "main"
    /\ stored' = stored \cup latched["main"]
    /\ latched' = [latched EXCEPT !["main"] = {}]
    /\ Notice(MainShows)
    /\ place' = IF pass = 0 THEN "level" ELSE "again"
    /\ UNCHANGED <<answer, air, fifo, edges, happened, pass, Waiting>>

DrainOnce ==                                       \* mutant: one pass less
    IF Line /\ pass < Passes - 1 THEN place' = "error" /\ pass' = pass + 1
                                 ELSE place' = "match" /\ pass' = 0

DrainOn ==
    IF Line /\ pass < Passes THEN place' = "error" /\ pass' = pass + 1
                             ELSE place' = "match" /\ pass' = 0

SampleAgain ==
    /\ place = "again"
    /\ DrainOn
    /\ UNCHANGED <<chip, stored, Waiting, seen>>

Keep(m) == stored' = {}                            \* mutant: all are dropped

TakeFlags(m) == stored' = stored \ m

Matched ==
    /\ place = "match"
    /\ stored \cap Awaited(kind) # {}
    /\ flags' = flags \cup (stored \cap Awaited(kind))
    /\ TakeFlags(stored \cap Awaited(kind))
    /\ place' = "judge"
    /\ UNCHANGED <<chip, kind, pass, left, activity, ready, verdict, seen, late>>

NoneMatched == place = "match" /\ stored \cap Awaited(kind) = {}

(* Time passes at any speed, so that the deadline may have come.           *)
DeadlinePassed ==
    /\ NoneMatched
    /\ left' = 0 /\ late' = TRUE
    /\ place' = "judge"
    /\ UNCHANGED <<chip, kind, pass, stored, judging, seen>>

Sleep ==
    /\ NoneMatched /\ left > 0
    /\ place' = "sleep"
    /\ UNCHANGED <<chip, pass, stored, Waiting, seen>>

(* waitForRisingEdge returns an edge, if need be an old one.               *)
EdgeArrives ==
    /\ place = "sleep" /\ edges > 0
    /\ edges' = edges - 1
    /\ place' = "error"
    /\ UNCHANGED <<answer, air, fifo, latched, happened, pass, stored, Waiting,
                   seen>>

Untimed == UNCHANGED left                          \* mutant: the deadline moves

SliceTaken == left' = left - 1

(* No edge in a slice of 2 ms: the registers are read all the same.        *)
SliceOver ==
    /\ place = "sleep" /\ edges = 0
    /\ SliceTaken
    /\ place' = "error"
    /\ UNCHANGED <<chip, kind, pass, stored, judging, seen, late>>

-----------------------------------------------------------------------------
(* The judgement.                                                          *)

End(v) == verdict' = v /\ place' = "idle"

Unchanging == <<chip, kind, pass, stored, flags, late>>

(* requestWakeup                                                           *)
JudgeWakeup ==
    /\ place = "judge" /\ kind = "wakeup"
    /\ IF "ERR" \in flags \/ flags \cap {"RXE", "COL"} = {}
       THEN /\ End(IF "NRE" \in flags
                       /\ (flags \cup stored) \cap {"RXS", "RXE", "COL", "ERR"} = {}
                   THEN "NoTag" ELSE "Unsure")
            /\ UNCHANGED left
       ELSE place' = "fetch" /\ left' = 3 /\ UNCHANGED verdict
    /\ UNCHANGED <<Unchanging, activity, ready, seen>>

(* transceive                                                              *)
JudgeFrame ==
    /\ place = "judge" /\ kind = "frame"
    /\ IF flags \cap {"NRE", "ERR"} # {} \/ "RXE" \notin flags
       THEN End("Failed") /\ UNCHANGED left
       ELSE place' = "fetch" /\ left' = 3 /\ UNCHANGED verdict
    /\ UNCHANGED <<Unchanging, activity, ready, seen>>

(* haltSelectedTag                                                         *)
JudgeHalt ==
    /\ place = "judge" /\ kind = "halt"
    /\ End(IF "TXE" \in flags THEN "Sent" ELSE "Failed")
    /\ UNCHANGED <<Unchanging, left, activity, ready, seen>>

(* The rest of the answer is waited for three times 1 ms.                  *)
FetchWhole ==
    /\ place = "fetch" /\ fifo = "whole"
    /\ Notice(Shown)
    /\ End("Answer")
    /\ UNCHANGED <<Unchanging, left, activity, ready>>

FetchLater ==
    /\ place = "fetch" /\ fifo # "whole"
    /\ Notice(Shown)
    /\ IF left = 0 THEN End(IF kind = "wakeup" THEN "Unsure" ELSE "Failed")
                           /\ late' = TRUE /\ UNCHANGED left
       ELSE left' = left - 1 /\ UNCHANGED <<place, verdict, late>>
    /\ UNCHANGED <<chip, kind, pass, stored, flags, activity, ready>>

-----------------------------------------------------------------------------
(* The exchange loop of pollNfcF.                                          *)

Errors == {"ERR", "COL"}

(* inspectFifo, once TXE was seen or 1 ms has passed.                      *)
InspectFifo ==
    /\ Notice(Shown)
    /\ ready' = (fifo = "whole")
    /\ activity' = (activity \/ fifo \in {"part", "whole"})

NoInspection == UNCHANGED <<ready, activity, seen>>

(* The top of the loop: the FIFO, then the deadline, then the wait.        *)
Look ==
    /\ place = "look"
    /\ \/ InspectFifo
       \/ "TXE" \notin flags /\ NoInspection
    /\ \/ place' = "final" /\ (ready' \/ left = 0) /\ UNCHANGED <<left, late>>
       \/ place' = "final" /\ ~ready' /\ left > 0 /\ left' = 0 /\ late' = TRUE
       \/ place' = "level" /\ ~ready' /\ left > 0 /\ UNCHANGED <<left, late>>
    /\ UNCHANGED <<chip, kind, pass, stored, flags, verdict>>

(* After a wait: an error ends the loop, then a whole frame, then RXE.     *)
SensfError ==
    /\ place = "judge" /\ kind = "sensf" /\ flags \cap Errors # {}
    /\ activity' = TRUE
    /\ place' = "final"
    /\ UNCHANGED <<Unchanging, left, ready, verdict, seen>>

Activity(fl) == fl \cap {"RXS", "RXE"} # {}

SensfEvent ==
    /\ place = "judge" /\ kind = "sensf" /\ flags \cap Errors = {}
    /\ \/ /\ Notice(Shown)
          /\ ready' = (fifo = "whole")
          /\ activity' = (activity \/ Activity(flags) \/ fifo \in {"part", "whole"})
       \/ /\ "TXE" \notin flags
          /\ activity' = (activity \/ Activity(flags))
          /\ UNCHANGED <<ready, seen>>
    /\ place' = IF ready' \/ "RXE" \in flags THEN "final" ELSE "look"
    /\ UNCHANGED <<Unchanging, left, verdict>>

NoSettling(b) == FALSE                             \* mutant: no settle window

Settles(b) == b

(* The final sample of the FIFO, and whether to let it settle.             *)
FinalSample ==
    /\ place = "final"
    /\ Notice(Shown)
    /\ activity' = (activity \/ fifo \in {"part", "whole"})
    /\ place' = IF Settles(~ready /\ activity' /\ flags \cap Errors = {})
                THEN "settle" ELSE "verdict"
    /\ left' = 2
    /\ UNCHANGED <<Unchanging, ready, verdict>>

Settle ==
    /\ place = "settle"
    /\ Notice(Shown)
    /\ ready' = (fifo = "whole")
    /\ IF ready' THEN place' = "verdict" /\ UNCHANGED <<left, late>>
       ELSE IF left = 0 THEN place' = "verdict" /\ late' = TRUE /\ UNCHANGED left
       ELSE left' = left - 1 /\ UNCHANGED <<place, late>>
    /\ UNCHANGED <<chip, kind, pass, stored, flags, activity, verdict>>

(* An error, silence, something incomplete, or a frame.  "ready" stands    *)
(* for a frame of the right length and response code.                      *)
SensfVerdict ==
    /\ place = "verdict"
    /\ End(IF flags \cap Errors # {} THEN "Unsure"
           ELSE IF ready THEN "Answer"
           ELSE IF activity THEN "Unsure" ELSE "NoTag")
    /\ UNCHANGED <<Unchanging, left, activity, ready, seen>>

-----------------------------------------------------------------------------
(* Cancelled, or SPI or GPIO failed: the exception closes the reader, and  *)
(* what follows is a new driver on a chip with its defaults.               *)
Aborted ==
    /\ place # "idle"
    /\ air' = "idle" /\ fifo' = "empty" /\ latched' = Silent /\ edges' = 0
    /\ place' = "idle" /\ pass' = 0 /\ stored' = {} /\ verdict' = "none"
    /\ seen' = "nothing"
    /\ UNCHANGED <<answer, happened, kind, flags, left, activity, ready, late>>

WaitForInterrupt ==
    \/ SampleLine \/ ReadErrors \/ ReadMain \/ SampleAgain
    \/ Matched \/ DeadlinePassed \/ Sleep \/ EdgeArrives \/ SliceOver

Driver ==
    \/ PrepareTransceive \/ ClearInterrupts \/ Transmit
    \/ WaitForInterrupt
    \/ JudgeWakeup \/ JudgeFrame \/ JudgeHalt \/ FetchWhole \/ FetchLater
    \/ Look \/ SensfError \/ SensfEvent \/ FinalSample \/ Settle \/ SensfVerdict

ExchangeNext == Chip \/ (\E k \in Kinds : StartExchange(k)) \/ Driver \/ Aborted

ExchangeSpec == ExchangeInit /\ [][ExchangeNext]_exchangeVars

(* The driver is one thread that the system schedules; no fairness for the *)
(* chip, the tag, the edges or the calls.                                  *)
FairExchangeSpec == ExchangeSpec /\ WF_exchangeVars(Driver)

-----------------------------------------------------------------------------
Asking == {"idle", "prepare", "clear", "send"}

TypeOK ==
    /\ kind \in Kinds /\ answer \in Answers("sensf")
    /\ air \in {"idle", "sending", "listening", "receiving", "done"}
    /\ fifo \in {"empty", "request", "part", "whole"}
    /\ latched \in [Registers -> SUBSET Interrupts]
    /\ edges \in 0..MaxEdges /\ pass \in 0..Passes /\ left \in Nat
    /\ stored \subseteq Interrupts /\ flags \subseteq Interrupts
    /\ happened \subseteq Interrupts

Pending == stored \cup latched["error"] \cup latched["main"]

(* Between the request and the verdict, whatever the order of latching,    *)
(* reading and matching, no interrupt of this exchange is lost and none of *)
(* an earlier exchange is left: readInterrupts clears what it reads, and   *)
(* an exchange may be given up while its answer is still on the air.       *)
InterruptsAccounted ==
    TypeOK /\ (place \notin Asking => happened = flags \cup Pending)

(* A verdict other than doubt is earned (RadioExchange): only a whole,     *)
(* undamaged answer is taken for a tag, although the error register and    *)
(* the main register are read one after the other, and nothing the chip    *)
(* showed at the last look is taken for absence.                           *)
Promise == INSTANCE RadioExchange
    WITH open <- place \notin Asking, heard <- seen

ImplementsExchange == Promise!Spec

(* Doubt and failure have a reason: when a verdict is neither an answer    *)
(* nor silence although the tag gave a clean answer, or a poll is in doubt *)
(* although nobody is there, then a deadline had passed.  A missed         *)
(* edge, a late FIFO or a missing RXE is no reason (pollNfcF, "the silicon *)
(* can signal RXS without a later RXE for a valid frame").                 *)
DoubtHasReason ==
    /\ verdict = "Unsure" => late \/ answer \notin {"none", "good"}
    /\ verdict = "Failed" => late \/ answer # "good"

(* Every exchange ends, whatever the chip, the line and the tag do: edges  *)
(* that are missed, old edges that wake the driver for nothing.            *)
ExchangeEnds == []<>(place = "idle")
=============================================================================
