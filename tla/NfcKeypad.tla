------------------------------ MODULE NfcKeypad ------------------------------
(***************************************************************************)
(* NfcKeypad (src/input/nfc_keypad.cpp): which input devices are opened,   *)
(* the events the kernel queues for each of them, and poll(), which reads  *)
(* device after device until it is empty and translates one event at a     *)
(* time for NfcApp.                                                        *)
(*                                                                         *)
(* Keys are codes.  The app takes every key it is given (onLvglKeyState    *)
(* never returns false), so nothing is left over for LVGL's own queue.     *)
(* Assumptions: a kernel queue does not overflow (the device would report  *)
(* SYN_DROPPED, which the code does not know), and a device that was       *)
(* opened stays.                                                           *)
(***************************************************************************)
EXTENDS Sequences, FiniteSets, SequencesExt

CONSTANTS
    Keyboards,    \* input devices in the order of their numbers
    Preferred,    \* those with a path of their own: the environment's, the board's
    Codes,        \* Codes[d]: the codes of its keys
    MaxUnread     \* bound: events the kernel keeps

Shifts == {"LeftShift", "RightShift"}

ASSUME KeypadAssumption ==
    /\ Preferred \subseteq ToSet(Keyboards)
    /\ \A i, j \in DOMAIN Keyboards : Keyboards[i] = Keyboards[j] => i = j

VARIABLES
    eventFds,     \* _event_fds
    unread,       \* unread[d]: what read() will return
    down,         \* the keyboards whose Esc is down
    shifts,       \* _left_shift_pressed, _right_shift_pressed
    reading       \* poll(): the device it has come to, 0 outside

keypadVars == <<eventFds, unread, down, shifts, reading>>

Devices == ToSet(Keyboards)

KeypadInit ==
    /\ eventFds = <<>>
    /\ unread = [d \in Devices |-> <<>>]
    /\ down \in SUBSET {d \in Devices : "Esc" \in Codes[d]}
    /\ shifts = {}
    /\ reading = 0

-----------------------------------------------------------------------------
(* openDefault                                                             *)

(* A device may be missing, or not to be grabbed; one found by its number  *)
(* must have a key the app can use.                                        *)
AppKeys == {"Esc", "Enter", "Up", "Down", "Left", "Right", "Tab", "Help",
            "F", "X", "Z", "C"}

HasAppKeys(d) == Codes[d] \cap AppKeys # {}

OpenDefault(fds) ==
    /\ \/ Len(fds) <= 1 /\ ToSet(fds) \subseteq Preferred
       \/ \E s \in SUBSET {d \in Devices : HasAppKeys(d)} :
             fds = SelectSeq(Keyboards, LAMBDA d : d \in s)
    /\ eventFds' = fds
    /\ UNCHANGED <<unread, down, shifts, reading>>

CloseKeypad ==
    /\ eventFds' = <<>>
    /\ unread' = [d \in Devices |-> <<>>]
    /\ reading' = 0
    /\ UNCHANGED <<down, shifts>>

-----------------------------------------------------------------------------
(* The keyboards: a press (1), a repeat (2) or a release (0) of a key is   *)
(* queued for whoever has the device open.  Only Esc repeats here, and the *)
(* other keys come and go in any order.                                    *)
KeyMoves(d, code, value) ==
    /\ MapThenSumSet(LAMBDA k : Len(unread[k]), Devices) < MaxUnread
    /\ code = "Esc" => (value = 1 <=> d \notin down)
    /\ code # "Esc" => value # 2
    /\ down' = IF code # "Esc" THEN down
               ELSE IF value = 0 THEN down \ {d} ELSE down \cup {d}
    /\ unread' = [unread EXCEPT ![d] = Append(@, [code |-> code, value |-> value])]
    /\ UNCHANGED <<eventFds, shifts, reading>>

-----------------------------------------------------------------------------
(* poll()                                                                  *)

PollBegin ==
    /\ reading' = 1
    /\ UNCHANGED <<eventFds, unread, down, shifts>>

Polling == reading \in DOMAIN eventFds

PollDone == reading > Len(eventFds)

Device == eventFds[reading]

ReadOne == reading' = reading + 1      \* mutant: one event of each device

ReadOn == UNCHANGED reading

(* read() returned an event; the next one is read after it.                *)
ReadEvent ==
    /\ Polling /\ unread[Device] # <<>>
    /\ unread' = [unread EXCEPT ![Device] = Tail(@)]
    /\ LET e == Head(unread[Device])
       IN  shifts' = IF e.code \notin Shifts \/ e.value \notin {0, 1} THEN shifts
                     ELSE IF e.value = 1 THEN shifts \cup {e.code}
                     ELSE shifts \ {e.code}
    /\ ReadOn
    /\ UNCHANGED <<eventFds, down>>

(* EAGAIN, or EINTR with events left.                                      *)
NextDevice(interrupted) ==
    /\ Polling
    /\ interrupted \/ unread[Device] = <<>>
    /\ reading' = reading + 1
    /\ UNCHANGED <<eventFds, unread, down, shifts>>

PollEnd ==
    /\ PollDone
    /\ reading' = 0
    /\ UNCHANGED <<eventFds, unread, down, shifts>>

(* translateKey(): the keys that LVGL or the app has a name for; the other  *)
(* characters, of which Shift chooses one of two; 0 for any other code.    *)
Named == {"Esc", "Enter", "Up", "Down", "Left", "Right", "Tab", "Help"}

Characters == {"F", "H", "X", "Z", "C", "R", "Dot"}

Translate(code) ==
    [key     |-> IF code \in Named \cup Characters THEN code ELSE "0",
     shifted |-> code \in Characters /\ shifts # {}]

(* The report for the app, if the event makes one: a repeat does not.      *)
Heard == Head(unread[Device])

Key == Translate(Heard.code).key

IsReport == Heard.value \in {0, 1} /\ Heard.code \notin Shifts /\ Key # "0"

IsPress == Heard.value = 1
=============================================================================
