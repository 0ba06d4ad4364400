----------------------------- MODULE ReaderStatus -----------------------------
(***************************************************************************)
(* The reader status NfcModel shows, and the ways it may change: what the  *)
(* page built on it may rely on, with nothing of the worker behind it.     *)
(* NfcModel implements it (ImplementsReaderStatus there), and NfcViewModel *)
(* is checked against it.  "ready" is true exactly in Scanning and Idle.   *)
(***************************************************************************)
EXTENDS Naturals

CONSTANT Attempts    \* numbers that initializations may have

ASSUME StatusAssumption == Attempts \subseteq Nat \ {0} /\ 1 \in Attempts

VARIABLE reader      \* _reader_status

Working == {"Initializing", "Scanning", "Idle"}
Down == {"Error", "Stopping", "Stopped"}

NotStarted == [state |-> "Stopped", failed |-> FALSE, unavailable |-> FALSE,
               failedAttempt |-> 0]

Starting == [NotStarted EXCEPT !.state = "Initializing"]

(* start(), when the worker's thread could not be created.                 *)
NoThread(s) == [s EXCEPT !.state = "Error", !.failed = TRUE,
                         !.failedAttempt = 1]

(* What one event read by tick() makes of the status.                      *)
Told(s) ==
    {[s EXCEPT !.state = w, !.failed = FALSE, !.unavailable = FALSE] :
        w \in Working}
    \cup {[s EXCEPT !.state = h] : h \in Down}
    \cup [state : {"Error"}, failed : {TRUE}, unavailable : BOOLEAN,
          failedAttempt : Attempts]

Statuses ==
    [state : Working \cup Down,
     failed : BOOLEAN, unavailable : BOOLEAN,
     failedAttempt : {0} \cup Attempts]

(* What the events read by one tick() make of it, however many: the last   *)
(* state told, of the reader as it was, of one that has worked since, or   *)
(* of one whose initialization has failed since.                           *)
AfterTick(s) ==
    {s} \cup {[s EXCEPT !.state = h] : h \in Down}
    \cup [state : Working \cup Down, failed : {FALSE}, unavailable : {FALSE},
          failedAttempt : {s.failedAttempt} \cup Attempts]
    \cup [state : Down, failed : {TRUE}, unavailable : BOOLEAN,
          failedAttempt : Attempts]

MayRetry(s) == ~s.unavailable /\ s.state \in {"Error", "Stopped"}

Retrying(s) == [s EXCEPT !.state = "Initializing", !.failed = FALSE,
                         !.unavailable = FALSE]

Refused(s) == [s EXCEPT !.state = "Error"]

Halted(s) == [s EXCEPT !.state = "Stopped"]

StatusInit == reader = NotStarted

StatusNext ==
    \/ reader' = Starting
    \/ reader.state = "Initializing" /\ reader' \in {NoThread(reader), Refused(reader)}
    \/ reader' \in Told(reader)
    \/ MayRetry(reader) /\ reader' = Retrying(reader)
    \/ reader' = Halted(reader)

StatusSpec == StatusInit /\ [][StatusNext]_reader
=============================================================================
