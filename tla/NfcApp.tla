-------------------------------- MODULE NfcApp --------------------------------
(***************************************************************************)
(* NfcApp (src/core/nfc_app.cpp): starts and stops the model and the page, *)
(* routes keys to the help overlay, the page or itself, and quits when Esc *)
(* is held long enough on the first section.                               *)
(*                                                                         *)
(* All of it runs on the UI thread.  Key reports come between two ticks.   *)
(* On the device they are the keypad's; in the SDL build LVGL makes up a   *)
(* release after every press, and the app looks at the keyboard itself.    *)
(* The clock wraps.  It is bounded: a held Esc is looked at by a tick at   *)
(* most MaxLag late.                                                       *)
(***************************************************************************)
EXTENDS NfcViewModel, FiniteSets

CONSTANTS
    Builds,      \* a subset of {"device", "sdl"}
    HintDelay,   \* kEscHintDelayMs
    ExitDelay,   \* kEscExitDelayMs
    Wrap,        \* the clock counts modulo Wrap
    MaxLag       \* bound: time between two ticks

ASSUME AppAssumption ==
    /\ Builds \subseteq {"device", "sdl"}
    /\ HintDelay \in Nat /\ ExitDelay \in Nat \ {0}
    /\ HintDelay < ExitDelay
    /\ MaxLag \in Nat
    /\ Wrap \in Nat /\ Wrap > ExitDelay + MaxLag

VARIABLES
    build,        \* which build this is
    appStarted,   \* _started
    quit,         \* _quit_requested
    help,         \* the help overlay is visible
    helpPressed,  \* _help_pressed
    escPressed,   \* _esc_pressed
    escHold,      \* _esc_hold_active
    hint,         \* _esc_hold_hint_shown, and the hint itself
    escDown,      \* _esc_down_ms
    now,          \* lv_tick_get()
    keyDown,      \* SDL: Esc is down on the keyboard
    heldFor,      \* history: how long the present hold has lasted
    pressDid,     \* history: what the present press of Esc has done
    highest       \* history: the highest number of a failed initialization

holdVars == <<escPressed, escHold, hint, escDown>>
inputVars == <<help, helpPressed, holdVars, heldFor, pressDid>>
appVars == <<build, appStarted, quit, inputVars, now, keyDown, highest>>
uiVars == <<reader, pageVars, appVars>>

AppInit ==
    /\ build \in Builds
    /\ StatusInit
    /\ PageInit
    /\ appStarted = FALSE /\ quit = FALSE
    /\ help = FALSE /\ helpPressed = FALSE
    /\ escPressed = FALSE /\ escHold = FALSE /\ hint = FALSE
    /\ escDown = 0 /\ now = 0 /\ keyDown = FALSE
    /\ heldFor = 0 /\ pressDid = {} /\ highest = 0

NoHold == escHold' = FALSE /\ hint' = FALSE /\ heldFor' = 0

ForgetKeys ==
    /\ help' = FALSE /\ helpPressed' = FALSE
    /\ escPressed' = FALSE /\ NoHold /\ escDown' = 0
    /\ pressDid' = {}

(* start(): the model first, which may fail at once, then the page.        *)
AppStart ==
    /\ ~appStarted
    /\ appStarted' = TRUE
    /\ quit' = FALSE
    /\ ForgetKeys
    /\ reader' \in {Starting, NoThread(Starting)}
    /\ OnEnter(reader')
    /\ highest' = reader'.failedAttempt
    /\ UNCHANGED <<build, now, keyDown>>

(* stop(); main() calls it once, and gets there by a quit or a signal.     *)
AppStop ==
    /\ appStarted
    /\ appStarted' = FALSE
    /\ ForgetKeys
    /\ reader' = Halted(reader)
    /\ OnExit
    /\ UNCHANGED <<build, quit, now, keyDown, highest>>

-----------------------------------------------------------------------------
(* Keys.                                                                   *)

OnFirstPage == AtRoot /\ ~modal

HelpPressed ==
    /\ appStarted
    /\ help' = IF helpPressed THEN help ELSE ~help
    /\ helpPressed' = TRUE
    /\ UNCHANGED <<reader, pageVars, build, appStarted, quit, holdVars, now,
                   keyDown, heldFor, pressDid, highest>>

(* Reported, or noticed by a tick of the SDL build.                        *)
HelpReleased ==
    /\ appStarted
    /\ helpPressed
    /\ helpPressed' = FALSE
    /\ UNCHANGED <<reader, pageVars, build, appStarted, quit, help, holdVars,
                   now, keyDown, heldFor, pressDid, highest>>

(* Any other key: the help overlay swallows it.                            *)
OtherKey(key) ==
    /\ appStarted
    /\ ~help
    /\ key # "Esc"
    /\ OnKey(key)
    /\ UNCHANGED appVars

(* A click on a button of the dialog, which the overlay would cover.       *)
DialogClicked ==
    /\ appStarted
    /\ ~help /\ ~offScreen
    /\ \/ modal /\ Dismiss /\ UNCHANGED <<reader, section, lastFailed>>
       \/ RetryReader
    /\ UNCHANGED appVars

(* What one press of Esc does, and to whom.                                *)
CloseHelp ==
    /\ help
    /\ help' = FALSE
    /\ pressDid' = pressDid \cup {"help closed"}
    /\ UNCHANGED <<reader, pageVars, escHold, hint, escDown, heldFor>>

Arm ==
    /\ ~help
    /\ OnFirstPage
    /\ escHold' = TRUE
    /\ hint' = FALSE
    /\ escDown' = now
    /\ heldFor' = 0
    /\ pressDid' = pressDid \cup {"armed"}
    /\ UNCHANGED <<reader, pageVars, help>>

EscToPage ==
    /\ ~help
    /\ ~OnFirstPage
    /\ OnKey("Esc")
    /\ pressDid' = pressDid \cup {"page"}
    /\ UNCHANGED <<help, escHold, hint, escDown, heldFor>>

RepeatsUnseen == FALSE     \* mutant: a repeated report is a new press

Repeats == escPressed

(* A held key is reported again and again; only the first report counts.   *)
EscPressed ==
    /\ appStarted
    /\ ~Repeats
    /\ escPressed' = TRUE
    /\ CloseHelp \/ Arm \/ EscToPage
    /\ UNCHANGED <<build, appStarted, quit, helpPressed, now, keyDown,
                   highest>>

Release ==
    /\ escPressed' = FALSE
    /\ NoHold
    /\ pressDid' = {}
    /\ UNCHANGED escDown

(* SDL: a release is believed only if the key is up.                       *)
EscReleased ==
    /\ appStarted
    /\ escPressed
    /\ build = "sdl" => ~keyDown
    /\ Release
    /\ UNCHANGED <<reader, pageVars, build, appStarted, quit, help,
                   helpPressed, now, keyDown, highest>>

KeyMoves ==
    /\ build = "sdl"
    /\ keyDown' = ~keyDown
    /\ UNCHANGED <<reader, pageVars, build, appStarted, quit, inputVars, now,
                   highest>>

-----------------------------------------------------------------------------
(* Time and ticks.                                                         *)

TimePasses ==
    /\ now' = (now + 1) % Wrap
    /\ IF escHold THEN /\ heldFor < ExitDelay + MaxLag
                       /\ heldFor' = heldFor + 1
                  ELSE UNCHANGED heldFor
    /\ UNCHANGED <<reader, pageVars, build, appStarted, quit, help,
                   helpPressed, holdVars, keyDown, pressDid, highest>>

HeldSinceUnwrapped(t) ==   \* mutant: the deadline is compared, not the difference
    now >= (escDown + t) % Wrap

HeldSince(t) == (now + Wrap - escDown) % Wrap >= t

HoldCancelled == help \/ section' # "Scan" \/ modal'

(* The hold is judged after the page's tick, by what that left.            *)
HoldTick ==
    IF ~escHold THEN UNCHANGED <<quit, escHold, hint, heldFor>>
    ELSE IF HoldCancelled
    THEN NoHold /\ UNCHANGED quit
    ELSE IF HeldSince(ExitDelay)
    THEN NoHold /\ quit' = TRUE
    ELSE /\ hint' = (hint \/ HeldSince(HintDelay))
         /\ UNCHANGED <<quit, escHold, heldFor>>

(* SDL: Esc is up though no release was reported.                          *)
Unheld == build = "sdl" /\ escPressed /\ ~keyDown

Tick ==
    /\ appStarted
    /\ ~quit
    /\ reader' \in AfterTick(reader)
    /\ \E faded \in {FALSE, ~active /\ ~offScreen} : PageTick(reader', faded)
    /\ IF Unheld THEN Release /\ UNCHANGED quit
       ELSE HoldTick /\ UNCHANGED <<escPressed, escDown, pressDid>>
    /\ highest' = IF reader'.failedAttempt > highest
                  THEN reader'.failedAttempt ELSE highest
    /\ UNCHANGED <<build, appStarted, help, helpPressed, now, keyDown>>

AppNext ==
    \/ AppStart \/ AppStop
    \/ HelpPressed \/ HelpReleased
    \/ \E key \in Keys : OtherKey(key)
    \/ DialogClicked
    \/ EscPressed \/ EscReleased \/ KeyMoves
    \/ TimePasses \/ Tick

AppSpec == AppInit /\ [][AppNext]_uiVars

-----------------------------------------------------------------------------
(* A press of Esc does one thing: one that closed the help, a dialog or a  *)
(* section never goes on to quit the app, however long it is held.         *)
OnePressOneEffect == Cardinality(pressDid) <= 1

(* The app quits only by one press of Esc on the first page, held for the  *)
(* whole delay whatever the clock showed when it went down, and with no    *)
(* dialog, help or other section come up in between; stopping and starting *)
(* forgets the press (EscHold).                                            *)
Hold == INSTANCE EscHold
    WITH up <- appStarted, pressed <- escPressed, hold <- escHold,
         age <- IF heldFor >= ExitDelay THEN ExitDelay ELSE heldFor,
         here <- OnFirstPage /\ ~help

ImplementsEscHold == Hold!Spec

(* The keys are the dialog's exactly while any of it is on the screen: a   *)
(* dismissed one, still on its way out, neither loses them early nor keeps *)
(* them for good.                                                          *)
DialogHasKeys == appStarted => (modal <=> ~offScreen)

(* A failed initialization with a number not seen before is shown, no      *)
(* matter what else the same tick brought.                                 *)
NewFailuresShown ==
    [][appStarted' /\ reader'.failed
         /\ (IF appStarted THEN reader'.failedAttempt > highest
             ELSE reader'.failedAttempt > 0)
         => active']_uiVars
=============================================================================
