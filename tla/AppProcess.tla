------------------------------ MODULE AppProcess ------------------------------
(***************************************************************************)
(* main() of the device build (src/main.cpp): start-up, the loop over      *)
(* keypad, LVGL and app, and the shutdown with the alarm that bounds it;   *)
(* beside it the user, who presses keys, and whoever sends SIGINT or       *)
(* SIGTERM.                                                                *)
(*                                                                         *)
(* Steps that wait for other threads or for the display (Slow) take time,  *)
(* perhaps for ever; the others take none.  NfcApp is EscHold here, which  *)
(* it implements.                                                          *)
(***************************************************************************)
EXTENDS NfcKeypad, Integers, EscHold

CONSTANTS
    ShutdownTimeout,   \* kShutdownTimeoutSeconds
    MaxSignals         \* bound: signals sent

ASSUME ProcessAssumption ==
    /\ ShutdownTimeout \in Nat \ {0} /\ ExitDelay \in Nat \ {0}
    /\ MaxSignals \in Nat

Off == -1

VARIABLES
    place,      \* where main() is
    signalled,  \* g_signal_exit_requested
    alarm,      \* seconds until SIGALRM, or Off
    signals,    \* bound: signals sent so far
    since,      \* history: how long Esc has been down, on one keyboard or another
    atTurn,     \* history: since, when this turn of the loop polled; or Off
    turn,       \* history: how long this turn takes
    waited      \* history: time since a signal or the end of the loop

clocks == <<since, atTurn, turn, waited>>
mainVars == <<place, signalled, alarm, signals, clocks>>
processVars == <<mainVars, keypadVars, app>>

Slow == {"display", "start", "render", "rest", "stop", "close"}

Over == {"done", "failed", "forced"}

ProcessInit ==
    /\ KeypadInit /\ Init
    /\ place = "display"
    /\ signalled = FALSE /\ alarm = Off /\ signals = 0
    /\ since = 0 /\ atTurn = Off /\ turn = 0 /\ waited = 0

Go(from, to) == place = from /\ place' = to

Unmoved == UNCHANGED <<signalled, alarm, signals, clocks>>

-----------------------------------------------------------------------------
(* main()                                                                  *)

DisplayOpened ==
    /\ \E next \in {"keypad", "failed"} : Go("display", next)
    /\ Unmoved /\ UNCHANGED <<keypadVars, app>>

KeypadOpened ==
    /\ \E fds \in {eventFds} \cup UNION {[1..n -> Devices] : n \in 0..Len(Keyboards)} :
          /\ OpenDefault(fds)
          /\ Go("keypad", IF fds = <<>> THEN "failed" ELSE "start")
    /\ Unmoved /\ UNCHANGED app

AppStarted ==
    /\ Go("start", "rest")
    /\ Start
    /\ Unmoved /\ UNCHANGED keypadVars

(* The condition of the loop, after the rest of the tick and 10 ms of sleep.*)
Check ==
    /\ Go("rest", IF quit \/ signalled THEN "arm" ELSE "poll")
    /\ IF quit \/ signalled
       THEN UNCHANGED <<keypadVars, atTurn>>
       ELSE PollBegin /\ atTurn' = IF down # {} THEN since ELSE Off
    /\ UNCHANGED <<signalled, alarm, signals, since, turn, waited, app>>

Report(key, press) ==
    IF key = "Esc"
    THEN IF ~press THEN Release
         ELSE IF pressed THEN UNCHANGED app ELSE Press
    ELSE OtherInput

Read ==
    /\ place = "poll"
    /\ ReadEvent
    /\ IF IsReport THEN Report(Key, IsPress) ELSE UNCHANGED app
    /\ Unmoved /\ UNCHANGED place

Empty ==
    /\ place = "poll"
    /\ NextDevice(FALSE)
    /\ Unmoved /\ UNCHANGED <<place, app>>

(* A signal interrupted read().                                            *)
Interrupted ==
    /\ place = "poll" /\ signalled
    /\ NextDevice(TRUE)
    /\ Unmoved /\ UNCHANGED <<place, app>>

Polled ==
    /\ PollEnd
    /\ Go("poll", IF signalled THEN "arm" ELSE "render")
    /\ Unmoved /\ UNCHANGED app

(* lv_timer_handler() has returned, and app.tick() is called with the time *)
(* it is then; what the tick does after it has taken that time is "rest".  *)
Rendered ==
    /\ Go("render", IF signalled THEN "arm" ELSE "rest")
    /\ IF signalled THEN UNCHANGED <<app, atTurn, turn>>
       ELSE Tick /\ atTurn' = Off /\ turn' = 0
    /\ UNCHANGED <<signalled, alarm, signals, since, waited, keypadVars>>

ArmedIfFree(a) ==            \* mutant: a running alarm is not set again
    IF alarm = Off THEN ShutdownTimeout ELSE alarm

Rearmed(a) == ShutdownTimeout

(* Out of the loop.                                                        *)
Arm ==
    /\ Go("arm", "stop")
    /\ alarm' = Rearmed(alarm)
    /\ waited' = 0 /\ since' = 0 /\ atTurn' = Off /\ turn' = 0
    /\ UNCHANGED <<signalled, signals, keypadVars, app>>

AppStopped ==
    /\ Go("stop", "close")
    /\ Stop
    /\ Unmoved /\ UNCHANGED keypadVars

(* keypad.close() and shutdownLvglHal().                                   *)
Closed ==
    /\ Go("close", "disarm")
    /\ CloseKeypad
    /\ Unmoved /\ UNCHANGED app

Disarmed ==
    /\ Go("disarm", "done")
    /\ alarm' = Off
    /\ UNCHANGED <<signalled, signals, clocks, keypadVars, app>>

Prompt ==
    \/ KeypadOpened \/ Read \/ Empty \/ Interrupted
    \/ Polled \/ Arm \/ Disarmed
    \/ quit /\ Check

Main ==
    \/ Prompt
    \/ DisplayOpened \/ AppStarted \/ Check \/ Rendered \/ AppStopped \/ Closed

-----------------------------------------------------------------------------
(* Around it.                                                              *)

NotArmed(a) == a             \* mutant: the handler only sets the flag

ArmedBySignal(a) == ShutdownTimeout

(* requestExitFromSignal                                                   *)
Signal ==
    /\ place \notin Over /\ signals < MaxSignals
    /\ signals' = signals + 1
    /\ signalled' = TRUE
    /\ alarm' = ArmedBySignal(alarm)
    /\ waited' = 0
    /\ UNCHANGED <<place, since, atTurn, turn, keypadVars, app>>

(* forceExitAfterShutdownTimeout                                           *)
Forced ==
    /\ place \notin Over /\ alarm = 0
    /\ place' = "forced"
    /\ UNCHANGED <<signalled, alarm, signals, clocks, keypadVars, app>>

(* (Bound: from when the keypad was opened, with keys that are down then,  *)
(* until the end is asked for.)                                            *)
UserMoves ==
    /\ place \in {"start", "poll", "render", "rest"}
    /\ ~quit /\ ~signalled
    /\ \E d \in ToSet(eventFds), value \in 0..2 :
       \E code \in Codes[d] : KeyMoves(d, code, value)
    /\ since' = IF down # {} /\ down' # {} THEN since ELSE 0
    /\ atTurn' = IF atTurn = Off /\ down' # {} /\ place \in {"poll", "render"}
                 THEN 0 ELSE atTurn
    /\ UNCHANGED <<place, signalled, alarm, signals, turn, waited, app>>

Longer(t, bound) == IF t < bound THEN t + 1 ELSE t

(* SIGALRM comes when it is due.                                           *)
TimePasses ==
    /\ place \in Slow /\ alarm # 0
    /\ Time
    /\ alarm' = IF alarm = Off THEN Off ELSE alarm - 1
    /\ since' = IF down # {} THEN Longer(since, ExitDelay) ELSE since
    /\ turn' = IF place = "render" THEN Longer(turn, ExitDelay) ELSE 0
    /\ waited' = IF alarm = Off THEN 0 ELSE Longer(waited, ShutdownTimeout)
    /\ UNCHANGED <<place, signalled, signals, atTurn, keypadVars>>

ProcessNext == Main \/ Signal \/ Forced \/ UserMoves \/ TimePasses

ProcessSpec == ProcessInit /\ [][ProcessNext]_processVars

(* main() is scheduled, but may hang in a slow step; time passes; the      *)
(* kernel delivers SIGALRM.                                                *)
FairProcess == ProcessSpec /\ WF_processVars(Prompt \/ TimePasses \/ Forced)

-----------------------------------------------------------------------------
(* A quit by Esc is the user's: the key went down before, and stayed down  *)
(* at least until the loop began its last turn, and the hold with that     *)
(* turn lasted the whole delay.  A release that waits in a queue, behind a *)
(* repeat or on another keyboard, is seen before the hold is judged.       *)
QuitIsPhysical ==
    [][quit' /\ ~quit => atTurn # Off /\ atTurn + turn >= ExitDelay]_processVars

(* The process is killed only if main() had the whole timeout, counted     *)
(* from the last signal and again from the end of its loop, whatever time  *)
(* it took to get there.                                                   *)
ForcedOnlyAfterTimeout ==
    place = "forced" => waited >= ShutdownTimeout

(* Once somebody has asked for the end it comes: in start-up, in a tick or *)
(* in a stop that hangs, and after any number of signals.                  *)
EndsWhenAsked == (signalled \/ quit) ~> place \in Over
=============================================================================
