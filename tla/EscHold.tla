------------------------------- MODULE EscHold -------------------------------
(***************************************************************************)
(* What NfcApp does with Esc, seen from the main loop: a press that comes  *)
(* where the app can be left starts a hold, a release ends it, and a tick  *)
(* that finds the hold old enough, and nothing in the way, quits the app.  *)
(* Everything else the app does only changes whether it can be left        *)
(* "here": the first section, without help or dialog.                      *)
(*                                                                         *)
(* NfcApp is shown to implement this; AppProcess runs it in main().        *)
(***************************************************************************)
EXTENDS Naturals

CONSTANT ExitDelay   \* kEscExitDelayMs

VARIABLES
    up,        \* NfcApp::_started
    quit,      \* NfcApp::_quit_requested
    pressed,   \* NfcApp::_esc_pressed
    hold,      \* NfcApp::_esc_hold_active
    age,       \* time since _esc_down_ms, up to ExitDelay; 0 without a hold
    here       \* Esc would leave the app

app == <<up, quit, pressed, hold, age, here>>

Init ==
    /\ up = FALSE /\ quit = FALSE
    /\ pressed = FALSE /\ hold = FALSE /\ age = 0
    /\ here \in BOOLEAN

DropHold == hold' = FALSE /\ age' = 0

Forget == pressed' = FALSE /\ DropHold

Start ==
    /\ ~up
    /\ up' = TRUE /\ quit' = FALSE
    /\ Forget
    /\ here' \in BOOLEAN

Stop ==
    /\ up
    /\ up' = FALSE
    /\ Forget
    /\ here' \in BOOLEAN
    /\ UNCHANGED quit

(* Only the first report of a press counts.  Elsewhere it goes to the help *)
(* or to the page.                                                         *)
Press ==
    /\ up /\ ~pressed
    /\ pressed' = TRUE
    /\ IF here THEN hold' = TRUE /\ age' = 0 /\ UNCHANGED here
               ELSE here' \in BOOLEAN /\ UNCHANGED <<hold, age>>
    /\ UNCHANGED <<up, quit>>

Release ==
    /\ up
    /\ Forget
    /\ UNCHANGED <<up, quit, here>>

(* Another key, a click.                                                   *)
OtherInput == up /\ here' \in BOOLEAN /\ UNCHANGED <<up, quit, pressed, hold, age>>

Tick ==
    /\ up /\ ~quit
    /\ here' \in BOOLEAN
    /\ \/ hold /\ ~here' /\ DropHold /\ UNCHANGED quit
       \/ hold /\ here' /\ age >= ExitDelay /\ DropHold /\ quit' = TRUE
       \/ (hold => here' /\ age < ExitDelay) /\ UNCHANGED <<hold, age, quit>>
    /\ UNCHANGED <<up, pressed>>

(* SDL: a tick that finds the key up is a release.                         *)
TickReleases ==
    /\ up /\ ~quit
    /\ Forget
    /\ here' \in BOOLEAN
    /\ UNCHANGED <<up, quit>>

Time ==
    /\ age' = IF hold /\ age < ExitDelay THEN age + 1 ELSE age
    /\ UNCHANGED <<up, quit, pressed, hold, here>>

Next ==
    \/ Start \/ Stop \/ Press \/ Release \/ OtherInput
    \/ Tick \/ TickReleases \/ Time

Spec == Init /\ [][Next]_app
=============================================================================
