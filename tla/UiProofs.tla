------------------------------- MODULE UiProofs -------------------------------
(***************************************************************************)
(* What the UI thread's NfcApp keeps for any numbers of initializations,   *)
(* any delays and any clock that wraps: a press of Esc has one effect, the *)
(* dialog has the keys while it can be seen, a new failure is shown, and   *)
(* the app quits only as EscHold says.  Then what its NfcModel keeps, with *)
(* the worker behind it: the page ends up showing the reader and the tag   *)
(* as they are, and changes the reader status only as NfcApp may expect.   *)
(***************************************************************************)
EXTENDS NfcApp, NfcModel, NfcWorkerProofs, FiniteSetTheorems

(* The numbers NfcViewModel compares are numbers.                          *)
StatusOK == reader \in Statuses /\ lastFailed \in Nat /\ highest \in Nat

(* No failure the page has seen, or the reader's status still holds, has a *)
(* higher number than "highest".                                           *)
HighestIsHighest ==
    appStarted => /\ reader.failedAttempt <= highest
                  /\ lastFailed <= highest

(* What a press has done is forgotten with the press.                      *)
PressOK == pressDid = {} \/ (escPressed /\ \E d : pressDid = {d})

ClockOK ==
    /\ now \in 0..(Wrap - 1)
    /\ escDown \in 0..(Wrap - 1)
    /\ heldFor \in 0..(ExitDelay + MaxLag)
    /\ escHold \in BOOLEAN

(* The difference of the two clock readings is the age of the hold, though *)
(* either may have wrapped.                                                *)
HoldOK ==
    IF escHold THEN (now + Wrap - escDown) % Wrap = heldFor
               ELSE heldFor = 0

AppInv ==
    /\ StatusOK
    /\ HighestIsHighest
    /\ PressOK
    /\ ClockOK
    /\ HoldOK
    /\ DialogHasKeys

-----------------------------------------------------------------------------
(* The reader's status.                                                    *)

(* The fields of a status.                                                 *)
LEMMA StatusFields ==
    ASSUME NEW s \in Statuses
    PROVE  s.failedAttempt \in Nat /\ s.failed \in BOOLEAN
<1>1. /\ s.failedAttempt = 0 \/ s.failedAttempt \in Attempts
      /\ s.failed \in BOOLEAN
  BY DEF Statuses
<1>2. \A n \in Attempts : n \in Nat
  BY StatusAssumption
<1>3. 0 \in Nat
  OBVIOUS
<1>4. QED
  BY <1>1, <1>2, <1>3, Zenon

(* A status with one field changed.                                        *)
States == Working \cup Down

LEMMA OneChanged ==
    ASSUME NEW s \in Statuses
    PROVE  /\ \A h \in States :
                 LET t == [s EXCEPT !.state = h]
                 IN  /\ t \in Statuses
                     /\ t.failedAttempt = s.failedAttempt
                     /\ t.failed = s.failed
           /\ \A f \in BOOLEAN :
                 LET t == [s EXCEPT !.failed = f]
                 IN  /\ t \in Statuses
                     /\ t.failedAttempt = s.failedAttempt
                     /\ t.failed = f
           /\ \A u \in BOOLEAN :
                 LET t == [s EXCEPT !.unavailable = u]
                 IN  /\ t \in Statuses
                     /\ t.failedAttempt = s.failedAttempt
                     /\ t.failed = s.failed
<1>1. ASSUME NEW h \in States
      PROVE  /\ [s EXCEPT !.state = h] \in Statuses
             /\ [s EXCEPT !.state = h].failedAttempt = s.failedAttempt
             /\ [s EXCEPT !.state = h].failed = s.failed
  BY DEF Statuses, States
<1>2. ASSUME NEW f \in BOOLEAN
      PROVE  /\ [s EXCEPT !.failed = f] \in Statuses
             /\ [s EXCEPT !.failed = f].failedAttempt = s.failedAttempt
             /\ [s EXCEPT !.failed = f].failed = f
  BY DEF Statuses
<1>3. ASSUME NEW u \in BOOLEAN
      PROVE  /\ [s EXCEPT !.unavailable = u] \in Statuses
             /\ [s EXCEPT !.unavailable = u].failedAttempt = s.failedAttempt
             /\ [s EXCEPT !.unavailable = u].failed = s.failed
  BY DEF Statuses
<1>4. QED
  BY <1>1, <1>2, <1>3, Zenon

(* A status whose failure has been cleared.                                *)
LEMMA Cleared ==
    ASSUME NEW s \in Statuses, NEW h \in States, NEW t,
           t = [s EXCEPT !.state = h, !.failed = FALSE, !.unavailable = FALSE]
    PROVE  /\ t \in Statuses
           /\ t.failedAttempt = s.failedAttempt
           /\ t.failed = FALSE
<1>1. PICK s1 \in Statuses :
          s1 = [s EXCEPT !.state = h] /\ s1.failedAttempt = s.failedAttempt
  <2>1. /\ [s EXCEPT !.state = h] \in Statuses
        /\ [s EXCEPT !.state = h].failedAttempt = s.failedAttempt
    BY OneChanged, Zenon
  <2>2. QED
    BY <2>1, Zenon
<1>2. PICK s2 \in Statuses :
          /\ s2 = [s1 EXCEPT !.failed = FALSE]
          /\ s2.failedAttempt = s1.failedAttempt
          /\ s2.failed = FALSE
  <2>1. FALSE \in BOOLEAN
    OBVIOUS
  <2>2. QED
    BY <2>1, OneChanged, Zenon
<1>3. PICK s3 \in Statuses :
          /\ s3 = [s2 EXCEPT !.unavailable = FALSE]
          /\ s3.failedAttempt = s2.failedAttempt
          /\ s3.failed = s2.failed
  <2>1. FALSE \in BOOLEAN
    OBVIOUS
  <2>2. QED
    BY <2>1, OneChanged, Zenon
<1>4. s3 = t
  <2>1. ASSUME NEW f
        PROVE  [[[s EXCEPT !.state = h] EXCEPT !.failed = f]
                   EXCEPT !.unavailable = f]
                 = [s EXCEPT !.state = h, !.failed = f, !.unavailable = f]
    OBVIOUS
  <2>2. QED
    BY <1>1, <1>2, <1>3, <2>1, Zenon
<1>5. QED
  BY <1>1, <1>2, <1>3, <1>4, Zenon

(* What the events of a tick make of a status is a status.                 *)
LEMMA AfterTickTyped ==
    ASSUME NEW s \in Statuses
    PROVE  AfterTick(s) \subseteq Statuses
<1> SUFFICES ASSUME NEW t \in AfterTick(s)
             PROVE  t \in Statuses
  OBVIOUS
<1> DEFINE Seen == {s.failedAttempt} \cup Attempts
           Ended == {[s EXCEPT !.state = h] : h \in Down}
           Worked == [state : Working \cup Down, failed : {FALSE},
                      unavailable : {FALSE}, failedAttempt : Seen]
           Failed == [state : Down, failed : {TRUE}, unavailable : BOOLEAN,
                      failedAttempt : Attempts]
<1>1. ASSUME NEW h \in Down, t = [s EXCEPT !.state = h]
      PROVE  t \in Statuses
  <2>1. h \in States
    BY DEF States, Down
  <2>2. QED
    BY <1>1, <2>1, OneChanged, Zenon
<1>2. ASSUME t \in Worked
      PROVE  t \in Statuses
  <2>1. Seen \subseteq {0} \cup Attempts
    BY DEF Statuses
  <2>2. QED
    BY <1>2, <2>1 DEF Statuses
<1>3. ASSUME t \in Failed
      PROVE  t \in Statuses
  BY <1>3 DEF Statuses
<1>4. t = s \/ t \in Ended \/ t \in Worked \/ t \in Failed
  <2>1. AfterTick(s) = {s} \cup Ended \cup Worked \cup Failed
    BY Zenon DEF AfterTick
  <2> HIDE DEF Ended, Worked, Failed
  <2>2. QED
    BY <2>1
<1>5. CASE t \in Ended
  BY <1>1, <1>5, Zenon
<1>6. QED
  BY <1>2, <1>3, <1>4, <1>5, Zenon

(* And what the UI thread itself makes of it.                              *)
LEMMA CallsTyped ==
    /\ Starting \in Statuses /\ NoThread(Starting) \in Statuses
    /\ Starting.failedAttempt = 0 /\ Starting.failed = FALSE
    /\ NoThread(Starting).failedAttempt = 1
    /\ \A s \in Statuses :
          /\ Halted(s) \in Statuses
          /\ Halted(s).failedAttempt = s.failedAttempt
          /\ Retrying(s) \in Statuses
          /\ Retrying(s).failedAttempt = s.failedAttempt
          /\ Retrying(s).failed = FALSE
          /\ Refused(Retrying(s)) \in Statuses
          /\ Refused(Retrying(s)).failedAttempt = s.failedAttempt
          /\ Refused(Retrying(s)).failed = FALSE
<1>1. /\ Starting \in Statuses
      /\ Starting.failedAttempt = 0 /\ Starting.failed = FALSE
  BY DEF Starting, NotStarted, Statuses, Working, Down
<1>2. /\ NoThread(Starting) \in Statuses
      /\ NoThread(Starting).failedAttempt = 1
  <2>1. ASSUME NEW s \in Statuses
        PROVE  NoThread(s) \in Statuses /\ NoThread(s).failedAttempt = 1
    BY StatusAssumption DEF NoThread, Statuses, Working, Down
  <2>2. QED
    BY <1>1, <2>1
<1>3. ASSUME NEW s \in Statuses
      PROVE  /\ Halted(s) \in Statuses
             /\ Halted(s).failedAttempt = s.failedAttempt
             /\ Refused(s) \in Statuses
             /\ Refused(s).failedAttempt = s.failedAttempt
             /\ Refused(s).failed = s.failed
  <2>1. "Stopped" \in States /\ "Error" \in States
    BY DEF States, Down
  <2>2. /\ Halted(s) \in Statuses
        /\ Halted(s).failedAttempt = s.failedAttempt
    BY <2>1, OneChanged, Zenon DEF Halted
  <2>3. /\ Refused(s) \in Statuses
        /\ Refused(s).failedAttempt = s.failedAttempt
        /\ Refused(s).failed = s.failed
    BY <2>1, OneChanged, Zenon DEF Refused
  <2>4. QED
    BY <2>2, <2>3
<1>4. ASSUME NEW s \in Statuses
      PROVE  /\ Retrying(s) \in Statuses
             /\ Retrying(s).failedAttempt = s.failedAttempt
             /\ Retrying(s).failed = FALSE
  <2>1. "Initializing" \in States
    BY DEF States, Working
  <2>2. QED
    BY <2>1, Cleared, Zenon DEF Retrying
<1>5. QED
  BY <1>1, <1>2, <1>3, <1>4, Zenon

(* What a tick leaves is a status.                                         *)
LEMMA TickTyped ==
    ASSUME StatusOK, Tick
    PROVE  reader' \in Statuses /\ reader'.failedAttempt \in Nat
BY AfterTickTyped, StatusFields DEF StatusOK, Tick

-----------------------------------------------------------------------------
(* What calls of the page change.                                          *)

(* A key, or a click on the dialog, leaves the page as it is, dismisses    *)
(* the dialog, asks for another section, or retries.                       *)
PageAct ==
    \/ reader' = reader /\ UNCHANGED <<dialog, lastFailed>>
    \/ reader' = reader /\ Dismiss /\ UNCHANGED lastFailed
    \/ reader' = Retrying(reader) /\ UNCHANGED lastFailed
         /\ (Dismiss \/ UNCHANGED dialog)
    \/ reader' = Refused(Retrying(reader)) /\ UNCHANGED lastFailed /\ ShowDialog

(* Nothing else happens in the handlers of keys and clicks.                *)
LEMMA RetryActs == RetryReader => PageAct
BY DEF RetryReader, PageAct

LEMMA KeyActs ==
    ASSUME NEW key, OnKey(key)
    PROVE  PageAct
<1>1. CASE DialogKey(key)
  BY <1>1, RetryActs DEF DialogKey, PageAct, pageVars, dialog
<1>2. CASE PageKey(key)
  BY <1>2, RetryActs
  DEF PageKey, SwitchSection, Confirm, GoTo, PageAct, pageVars, dialog
<1>3. QED
  BY <1>1, <1>2 DEF OnKey

(* What every action of NfcApp does to the page.                           *)
LEMMA StepActs ==
    ASSUME [AppNext]_uiVars
    PROVE  \/ AppStart
           \/ AppStop
           \/ Tick
           \/ PageAct /\ appStarted /\ UNCHANGED <<appStarted, highest>>
           \/ UNCHANGED <<reader, dialog, lastFailed, appStarted, highest>>
<1>1. ASSUME NEW key \in Keys, OtherKey(key)
      PROVE  PageAct /\ appStarted /\ UNCHANGED <<appStarted, highest>>
  BY <1>1, KeyActs DEF OtherKey, appVars
<1>2. CASE DialogClicked
  BY <1>2, RetryActs DEF DialogClicked, PageAct, appVars
<1>3. CASE EscPressed
  <2>1. CASE CloseHelp \/ Arm
    BY <2>1, <1>3 DEF EscPressed, CloseHelp, Arm, pageVars
  <2>2. CASE EscToPage
    BY <2>2, <1>3, KeyActs DEF EscPressed, EscToPage
  <2>3. QED
    BY <1>3, <2>1, <2>2 DEF EscPressed
<1>4. CASE HelpPressed \/ HelpReleased \/ EscReleased \/ KeyMoves \/ TimePasses
  BY <1>4 DEF HelpPressed, HelpReleased, EscReleased, KeyMoves, TimePasses,
              pageVars
<1>5. CASE UNCHANGED uiVars
  BY <1>5 DEF uiVars, pageVars, appVars
<1>6. QED
  BY <1>1, <1>2, <1>3, <1>4, <1>5 DEF AppNext

-----------------------------------------------------------------------------
(* The invariant, part by part.                                            *)

(* Statuses stay statuses.                                                 *)
LEMMA StatusStep ==
    ASSUME StatusOK, [AppNext]_uiVars
    PROVE  StatusOK'
<1>1. CASE AppStart
  <2>1. reader' \in Statuses
    BY <1>1, CallsTyped DEF AppStart
  <2>2. lastFailed' = reader'.failedAttempt /\ highest' = reader'.failedAttempt
    BY <1>1 DEF AppStart, OnEnter
  <2>3. QED
    BY <2>1, <2>2, StatusFields DEF StatusOK
<1>2. CASE AppStop
  BY <1>2, CallsTyped DEF AppStop, OnExit, StatusOK
<1>3. CASE Tick
  <2>1. reader' \in Statuses /\ reader'.failedAttempt \in Nat
    BY <1>3, TickTyped
  <2>2. lastFailed' \in {lastFailed, reader'.failedAttempt}
    BY <1>3 DEF Tick, PageTick
  <2>3. highest' \in {highest, reader'.failedAttempt}
    BY <1>3 DEF Tick
  <2>4. QED
    BY <2>1, <2>2, <2>3 DEF StatusOK
<1>4. CASE PageAct /\ UNCHANGED highest
  <2>1. reader' \in Statuses /\ lastFailed' = lastFailed
    BY <1>4, CallsTyped DEF PageAct, StatusOK
  <2>2. QED
    BY <1>4, <2>1 DEF StatusOK
<1>5. CASE UNCHANGED <<reader, lastFailed, highest>>
  BY <1>5 DEF StatusOK
<1>6. QED
  BY <1>1, <1>2, <1>3, <1>4, <1>5, StepActs

(* No number above the highest.                                            *)
LEMMA HighestStep ==
    ASSUME StatusOK, HighestIsHighest, [AppNext]_uiVars
    PROVE  HighestIsHighest'
<1> DEFINE n == reader.failedAttempt
<1>0. /\ n \in Nat /\ n' \in Nat
      /\ lastFailed \in Nat /\ highest \in Nat
  BY StatusStep, StatusFields DEF StatusOK
<1>1. CASE AppStart
  <2>1. lastFailed' = n' /\ highest' = n'
    BY <1>1 DEF AppStart, OnEnter
  <2> HIDE DEF n
  <2>2. n' <= highest' /\ lastFailed' <= highest'
    BY <2>1, <1>0
  <2>3. QED
    BY <2>2 DEF HighestIsHighest, n
<1>2. CASE AppStop
  BY <1>2 DEF AppStop, HighestIsHighest
<1>3. CASE Tick
  <2>1. appStarted /\ (lastFailed' = n' \/ lastFailed' = lastFailed)
    BY <1>3 DEF Tick, PageTick
  <2>2. highest' = IF n' > highest THEN n' ELSE highest
    BY <1>3 DEF Tick
  <2>3. lastFailed <= highest
    BY <2>1 DEF HighestIsHighest
  <2> HIDE DEF n
  <2>4. n' <= highest' /\ lastFailed' <= highest'
    BY <2>1, <2>2, <2>3, <1>0
  <2>5. QED
    BY <2>4 DEF HighestIsHighest, n
<1>4. CASE PageAct /\ UNCHANGED <<appStarted, highest>>
  <2>1. n' = n /\ lastFailed' = lastFailed
    BY <1>4, CallsTyped DEF PageAct, StatusOK
  <2>2. QED
    BY <1>4, <2>1 DEF HighestIsHighest
<1>5. CASE UNCHANGED <<reader, lastFailed, appStarted, highest>>
  BY <1>5 DEF HighestIsHighest
<1>6. QED
  BY <1>1, <1>2, <1>3, <1>4, <1>5, StepActs DEF n

(* A press does one thing and is forgotten with its effect.                *)
LEMMA PressStep ==
    ASSUME PressOK, [AppNext]_uiVars
    PROVE  PressOK'
<1>1. CASE AppStart \/ AppStop
  BY <1>1 DEF AppStart, AppStop, ForgetKeys, PressOK
<1>2. CASE EscPressed
  <2>1. pressDid = {}
    BY <1>2 DEF EscPressed, Repeats, PressOK
  <2>2. \E d : pressDid' = {d}
    BY <1>2, <2>1 DEF EscPressed, CloseHelp, Arm, EscToPage
  <2>3. QED
    BY <1>2, <2>2 DEF EscPressed, PressOK
<1>3. CASE EscReleased
  BY <1>3 DEF EscReleased, Release, PressOK
<1>4. CASE Tick
  BY <1>4 DEF Tick, Release, PressOK
<1>5. CASE UNCHANGED <<escPressed, pressDid>>
  BY <1>5 DEF PressOK
<1>6. ASSUME NEW key \in Keys, OtherKey(key)
      PROVE  UNCHANGED <<escPressed, pressDid>>
  BY <1>6 DEF OtherKey, appVars, inputVars, holdVars
<1>7. CASE UNCHANGED uiVars \/ DialogClicked \/ HelpPressed \/ HelpReleased
             \/ KeyMoves \/ TimePasses
  <2>1. UNCHANGED <<escPressed, pressDid>>
    BY <1>7 DEF uiVars, appVars, inputVars, holdVars, DialogClicked,
                HelpPressed, HelpReleased, KeyMoves, TimePasses
  <2>2. QED
    BY <2>1 DEF PressOK
<1>8. QED
  BY <1>1, <1>2, <1>3, <1>4, <1>5, <1>6, <1>7 DEF AppNext

(* The dialog has the keys while it is on the screen.                      *)
LEMMA DialogStep ==
    ASSUME DialogHasKeys, [AppNext]_uiVars
    PROVE  DialogHasKeys'
<1>1. CASE AppStart
  BY <1>1 DEF AppStart, OnEnter, ShowDialog, NoDialog, DialogHasKeys
<1>2. CASE AppStop
  BY <1>2 DEF AppStop, DialogHasKeys
<1>3. CASE Tick
  BY <1>3 DEF Tick, PageTick, ShowDialog, Hiding, Hidden, dialog, DialogHasKeys
<1>4. CASE PageAct /\ UNCHANGED appStarted
  BY <1>4 DEF PageAct, Dismiss, ShowDialog, dialog, DialogHasKeys
<1>5. CASE UNCHANGED <<dialog, appStarted>>
  BY <1>5 DEF dialog, DialogHasKeys
<1>6. QED
  BY <1>1, <1>2, <1>3, <1>4, <1>5, StepActs

-----------------------------------------------------------------------------
(* The clock and the hold.                                                 *)

(* Remainders of what is less than twice the modulus.                      *)
LEMMA Remainders ==
    ASSUME NEW w \in Nat \ {0}, NEW a \in Nat, a < 2 * w
    PROVE  a % w = IF a < w THEN a ELSE a - w
<1>1. PICK q \in Int : a = (w * q) + (a % w) /\ a % w \in 0..(w - 1)
  <2>1. a = (w * (a \div w)) + (a % w) /\ a \div w \in Int /\ a % w \in 0..(w - 1)
    OBVIOUS
  <2>2. QED
    BY <2>1
<1>2. PICK m \in 0..(w - 1) : m = a % w
  BY <1>1
<1>3. a = (w * q) + m
  BY <1>1, <1>2
<1>4. q \in {0, 1}
  <2>1. CASE q >= 2
    BY <2>1, <1>2, <1>3
  <2>2. CASE q <= -1
    BY <2>2, <1>2, <1>3
  <2>3. QED
    BY <2>1, <2>2
<1>5. QED
  BY <1>2, <1>3, <1>4

(* The age read off two clocks that count modulo w grows with the time.    *)
LEMMA AgeGrows ==
    ASSUME NEW w \in Nat \ {0}, NEW t \in 0..(w - 1), NEW d \in 0..(w - 1),
           ((t + w - d) % w) + 1 < w
    PROVE  (((t + 1) % w) + w - d) % w = ((t + w - d) % w) + 1
<1>1. PICK a \in Nat : a = t + w - d /\ a < 2 * w
  OBVIOUS
<1>2. PICK b \in Nat : b = t + 1 /\ b < 2 * w
  OBVIOUS
<1>3. PICK u : u = b % w
  OBVIOUS
<1>4. u = IF b < w THEN b ELSE b - w
  BY <1>2, <1>3, Remainders
<1>5. PICK c \in Nat : c = u + w - d /\ c < 2 * w
  BY <1>2, <1>4
<1>6. PICK m, n : m = a % w /\ n = c % w
  OBVIOUS
<1>7. m = IF a < w THEN a ELSE a - w
  BY <1>1, <1>6, Remainders
<1>8. n = IF c < w THEN c ELSE c - w
  BY <1>5, <1>6, Remainders
<1>9. m + 1 < w
  BY <1>1, <1>6
<1>10. n = m + 1
  BY <1>1, <1>2, <1>4, <1>5, <1>7, <1>8, <1>9
<1>11. QED
  BY <1>1, <1>2, <1>3, <1>5, <1>6, <1>10

(* The steps that leave the hold and the clock alone, and the others.      *)
LEMMA HoldActs ==
    ASSUME [AppNext]_uiVars
    PROVE  \/ NoHold /\ (escDown' \in {escDown, 0}) /\ UNCHANGED now
           \/ EscPressed /\ Arm
           \/ TimePasses
           \/ UNCHANGED <<escHold, heldFor, escDown, now>>
<1>1. CASE AppStart \/ AppStop
  BY <1>1 DEF AppStart, AppStop, ForgetKeys
<1>2. CASE EscPressed
  BY <1>2 DEF EscPressed, CloseHelp, EscToPage
<1>3. CASE EscReleased
  BY <1>3 DEF EscReleased, Release
<1>4. CASE Tick
  BY <1>4 DEF Tick, Release, HoldTick
<1>5. ASSUME NEW key \in Keys, OtherKey(key)
      PROVE  UNCHANGED <<escHold, heldFor, escDown, now>>
  BY <1>5 DEF OtherKey, appVars, inputVars, holdVars
<1>6. CASE UNCHANGED uiVars \/ DialogClicked \/ HelpPressed \/ HelpReleased
             \/ KeyMoves
  BY <1>6 DEF uiVars, appVars, inputVars, holdVars, DialogClicked,
              HelpPressed, HelpReleased, KeyMoves
<1>7. QED
  BY <1>1, <1>2, <1>3, <1>4, <1>5, <1>6 DEF AppNext

(* The clock stays a clock, and the age of the hold what it says.          *)
LEMMA HoldStep ==
    ASSUME ClockOK, HoldOK, [AppNext]_uiVars
    PROVE  ClockOK' /\ HoldOK'
<1>0. /\ Wrap \in Nat \ {0} /\ ExitDelay + MaxLag \in Nat
      /\ ExitDelay + MaxLag < Wrap
      /\ ExitDelay \in Nat /\ MaxLag \in Nat
  BY AppAssumption
<1>1. CASE NoHold /\ (escDown' \in {escDown, 0}) /\ UNCHANGED now
  <2>1. escHold' = FALSE /\ heldFor' = 0 /\ now' = now
    BY <1>1 DEF NoHold
  <2>2. HoldOK'
    BY <2>1, Zenon DEF HoldOK
  <2>3. escDown' \in 0..(Wrap - 1) /\ heldFor' \in 0..(ExitDelay + MaxLag)
    BY <1>0, <1>1, <2>1 DEF ClockOK
  <2>4. QED
    BY <2>1, <2>2, <2>3 DEF ClockOK
<1>2. CASE EscPressed /\ Arm
  <2>1. /\ escHold' = TRUE /\ escDown' = now /\ heldFor' = 0 /\ now' = now
    BY <1>2 DEF EscPressed, Arm
  <2>2. (now + Wrap - now) % Wrap = 0
    <3>1. now + Wrap - now = Wrap
      BY <1>0 DEF ClockOK
    <3>2. Wrap % Wrap = 0
      BY <1>0, Remainders
    <3>3. QED
      BY <3>1, <3>2
  <2>3. QED
    BY <1>0, <2>1, <2>2 DEF ClockOK, HoldOK
<1>3. CASE TimePasses
  <2>1. /\ now' = (now + 1) % Wrap
        /\ escHold' = escHold /\ escDown' = escDown
        /\ IF escHold THEN /\ heldFor < ExitDelay + MaxLag
                           /\ heldFor' = heldFor + 1
                      ELSE heldFor' = heldFor
    BY <1>3 DEF TimePasses, holdVars
  <2>2. now' \in 0..(Wrap - 1)
    BY <1>0, <2>1 DEF ClockOK
  <2>3. CASE escHold
    <3>1. ((now + Wrap - escDown) % Wrap) + 1 < Wrap
      BY <2>1, <2>3, <1>0 DEF HoldOK, ClockOK
    <3>2. (((now + 1) % Wrap) + Wrap - escDown) % Wrap
            = ((now + Wrap - escDown) % Wrap) + 1
      BY <3>1, <1>0, AgeGrows DEF ClockOK
    <3>3. (now' + Wrap - escDown') % Wrap = heldFor'
      BY <3>2, <2>1, <2>3 DEF HoldOK
    <3>4. heldFor' \in 0..(ExitDelay + MaxLag)
      BY <2>1, <2>3, <1>0 DEF ClockOK
    <3>5. QED
      BY <2>1, <2>2, <2>3, <3>3, <3>4 DEF ClockOK, HoldOK
  <2>4. CASE ~escHold
    BY <2>1, <2>2, <2>4 DEF ClockOK, HoldOK
  <2>5. QED
    BY <2>3, <2>4
<1>4. CASE UNCHANGED <<escHold, heldFor, escDown, now>>
  BY <1>4 DEF ClockOK, HoldOK
<1>5. QED
  BY <1>1, <1>2, <1>3, <1>4, HoldActs

(* All of it holds at the start.                                           *)
LEMMA AppInvStarts == AppInit => AppInv
<1> SUFFICES ASSUME AppInit PROVE AppInv
  OBVIOUS
<1>1. StatusOK
  <2>1. NotStarted \in Statuses
    BY DEF NotStarted, Statuses, Down
  <2>2. QED
    BY <2>1 DEF AppInit, StatusInit, PageInit, StatusOK
<1>2. HighestIsHighest /\ PressOK /\ DialogHasKeys
  BY DEF AppInit, HighestIsHighest, PressOK, PageInit, DialogHasKeys
<1>3. ClockOK /\ HoldOK
  <2>1. /\ now = 0 /\ escDown = 0 /\ heldFor = 0 /\ escHold = FALSE
    BY DEF AppInit
  <2>2. 0 \in 0..(Wrap - 1) /\ 0 \in 0..(ExitDelay + MaxLag)
    BY AppAssumption
  <2>3. QED
    BY <2>1, <2>2, Zenon DEF ClockOK, HoldOK
<1>4. QED
  BY <1>1, <1>2, <1>3 DEF AppInv

(* And every step keeps it.                                                *)
LEMMA AppInvStep == AppInv /\ [AppNext]_uiVars => AppInv'
BY StatusStep, HighestStep, PressStep, HoldStep, DialogStep DEF AppInv

(* Whatever the keyboard reports, and however often: one press of Esc      *)
(* closes the help, goes to the page, or starts a hold, and never two of   *)
(* them.                                                                   *)
THEOREM PressDoesOneThing == AppSpec => []OnePressOneEffect
<1>1. AppInv => OnePressOneEffect
  <2> SUFFICES ASSUME AppInv PROVE Cardinality(pressDid) <= 1
    BY DEF OnePressOneEffect
  <2>1. CASE pressDid = {}
    BY <2>1, FS_EmptySet
  <2>2. CASE \E d : pressDid = {d}
    BY <2>2, FS_Singleton
  <2>3. QED
    BY <2>1, <2>2 DEF AppInv, PressOK
<1>2. QED
  BY <1>1, AppInvStarts, AppInvStep, PTL DEF AppSpec

(* Whatever the reader, the keys and the ticks do: a started page gives    *)
(* the keys to its dialog exactly while the dialog is on the screen.       *)
THEOREM KeysFollowTheDialog == AppSpec => []DialogHasKeys
BY AppInvStarts, AppInvStep, PTL DEF AppSpec, AppInv

(* Every tick, and the start, that brings a failed initialization with a   *)
(* higher number than any before shows the dialog.                         *)
THEOREM FailuresAreShown == AppSpec => NewFailuresShown
<1> DEFINE New == IF appStarted THEN reader'.failedAttempt > highest
                                ELSE reader'.failedAttempt > 0
           Shown == appStarted' /\ reader'.failed /\ New => active'
<1>1. AppInv /\ [AppNext]_uiVars => [Shown]_uiVars
  <2> SUFFICES ASSUME AppInv, [AppNext]_uiVars,
                      appStarted', reader'.failed, New
               PROVE  active'
    OBVIOUS
  <2>0. /\ reader' \in Statuses
        /\ reader.failedAttempt \in Nat /\ reader'.failedAttempt \in Nat
        /\ highest \in Nat /\ lastFailed \in Nat
    BY StatusStep, StatusFields DEF AppInv, StatusOK
  <2>1. CASE AppStart
    <3>1. reader'.failedAttempt # 0
      BY <2>0, <2>1 DEF AppStart
    <3>2. QED
      BY <2>1, <3>1 DEF AppStart, OnEnter, ShowDialog
  <2>2. CASE AppStop
    BY <2>2 DEF AppStop
  <2>3. CASE Tick
    <3>1. /\ lastFailed <= highest /\ reader'.failedAttempt > highest
      BY <2>3 DEF Tick, AppInv, HighestIsHighest
    <3>2. NewFailure(reader')
      BY <2>0, <3>1 DEF NewFailure
    <3>3. QED
      BY <2>3, <3>2 DEF Tick, PageTick, ShowDialog
  <2>4. CASE PageAct /\ appStarted
    <3>1. reader' # reader
      <4>1. reader'.failedAttempt # reader.failedAttempt
        BY <2>0, <2>4 DEF AppInv, HighestIsHighest
      <4>2. QED
        BY <4>1
    <3>2. reader'.failed = FALSE
      BY <3>1, <2>4, CallsTyped DEF PageAct, AppInv, StatusOK
    <3>3. QED
      BY <3>2
  <2>5. CASE UNCHANGED <<reader, appStarted>>
    BY <2>0, <2>5 DEF AppInv, HighestIsHighest
  <2>6. QED
    BY <2>1, <2>2, <2>3, <2>4, <2>5, StepActs
<1>2. QED
  BY <1>1, AppInvStarts, AppInvStep, PTL DEF AppSpec, NewFailuresShown

-----------------------------------------------------------------------------
(* The hold of Esc, step by step.                                          *)

(* The state of EscHold: its age of a hold, and whether Esc would leave.   *)
Age == IF heldFor >= ExitDelay THEN ExitDelay ELSE heldFor
Here == OnFirstPage /\ ~help

(* The age, and when it is enough to quit.                                 *)
LEMMA AgeTold ==
    ASSUME AppInv
    PROVE  /\ heldFor' = 0 => Age' = 0
           /\ escHold => (HeldSince(ExitDelay) <=> Age >= ExitDelay)
           /\ ~escHold => Age = 0
           /\ Age \in Nat
<1>1. ExitDelay \in Nat /\ ExitDelay > 0
  BY AppAssumption
<1>2. heldFor \in Nat
  BY AppAssumption DEF AppInv, ClockOK
<1>3. heldFor' = 0 => Age' = 0
  BY <1>1 DEF Age
<1>4. escHold => (HeldSince(ExitDelay) <=> heldFor >= ExitDelay)
  BY DEF HeldSince, AppInv, HoldOK
<1>5. Age >= ExitDelay <=> heldFor >= ExitDelay
  BY <1>1, <1>2 DEF Age
<1>6. ~escHold => Age = 0
  BY <1>1 DEF Age, AppInv, HoldOK
<1>7. Age \in Nat
  BY <1>1, <1>2 DEF Age
<1>8. QED
  BY <1>3, <1>4, <1>5, <1>6, <1>7

(* A press of Esc is EscHold's.                                            *)
LEMMA PressRefines ==
    ASSUME AppInv, EscPressed
    PROVE  Hold!Press
<1>1. /\ appStarted /\ ~escPressed /\ escPressed' = TRUE
      /\ UNCHANGED <<appStarted, quit>>
  BY DEF EscPressed, Repeats
<1>2. CASE Arm
  <2>1. Here /\ Here' = Here
    BY <1>2 DEF Here, Arm, OnFirstPage, AtRoot, pageVars, dialog
  <2>2. escHold' = TRUE /\ Age' = 0
    BY <1>2, AgeTold DEF Arm
  <2>3. QED
    BY <1>1, <2>1, <2>2 DEF Hold!Press, Here, Age
<1>3. CASE CloseHelp \/ EscToPage
  <2>1. ~Here
    BY <1>3 DEF Here, CloseHelp, EscToPage
  <2>2. UNCHANGED <<escHold, heldFor>>
    BY <1>3 DEF CloseHelp, EscToPage
  <2>3. Here' \in BOOLEAN /\ Age' = Age
    BY <2>2 DEF Here, Age
  <2>4. QED
    BY <1>1, <2>1, <2>2, <2>3 DEF Hold!Press, Here, Age
<1>4. QED
  BY <1>2, <1>3 DEF EscPressed

(* Time is EscHold's.                                                      *)
LEMMA TimeRefines ==
    ASSUME AppInv, TimePasses
    PROVE  Hold!Time
<1>1. ExitDelay \in Nat /\ heldFor \in Nat
  BY AppAssumption DEF AppInv, ClockOK
<1>2. /\ UNCHANGED <<appStarted, quit, escPressed, escHold>>
      /\ Here' = Here
  BY DEF TimePasses, holdVars, Here, OnFirstPage, AtRoot, pageVars, dialog
<1>3. IF escHold THEN heldFor' = heldFor + 1 ELSE heldFor' = heldFor
  BY DEF TimePasses
<1>4. Age' = IF escHold /\ Age < ExitDelay THEN Age + 1 ELSE Age
  <2>1. CASE escHold
    <3>1. heldFor' = heldFor + 1
      BY <1>3, <2>1
    <3>2. Age' = IF Age < ExitDelay THEN Age + 1 ELSE Age
      BY <1>1, <3>1 DEF Age
    <3>3. QED
      BY <2>1, <3>2
  <2>2. CASE ~escHold
    BY <1>3, <2>2 DEF Age
  <2>3. QED
    BY <2>1, <2>2
<1>5. QED
  BY <1>2, <1>4 DEF Hold!Time, Here, Age

(* A tick of the app is a tick of EscHold, or a release it noticed.        *)
LEMMA TickRefines ==
    ASSUME AppInv, Tick
    PROVE  Hold!Tick \/ Hold!TickReleases
<1>1. appStarted /\ ~quit /\ UNCHANGED <<appStarted, help>>
  BY DEF Tick
<1>2. Here' \in BOOLEAN
  BY DEF Here
<1>3. CASE Unheld
  <2>1. escPressed' = FALSE /\ escHold' = FALSE /\ heldFor' = 0 /\ quit' = quit
    BY <1>3 DEF Tick, Release, NoHold
  <2>2. Age' = 0
    BY <2>1, AgeTold
  <2>3. QED
    BY <1>1, <1>2, <2>1, <2>2
    DEF Hold!TickReleases, Hold!Forget, Hold!DropHold, Here, Age
<1>4. CASE ~Unheld
  <2>1. HoldTick /\ escPressed' = escPressed
    BY <1>4 DEF Tick
  <2>2. HoldCancelled <=> ~Here'
    BY <1>1 DEF HoldCancelled, Here, OnFirstPage, AtRoot
  <2>3. CASE ~escHold
    <3>1. UNCHANGED <<quit, escHold>> /\ Age' = Age
      BY <2>1, <2>3 DEF HoldTick, Age
    <3>2. QED
      BY <1>1, <1>2, <2>1, <2>3, <3>1 DEF Hold!Tick, Here, Age
  <2>4. CASE escHold /\ HoldCancelled
    <3>1. escHold' = FALSE /\ heldFor' = 0 /\ quit' = quit
      BY <2>1, <2>4 DEF HoldTick, NoHold
    <3>2. Age' = 0
      BY <3>1, AgeTold
    <3>3. QED
      BY <1>1, <1>2, <2>1, <2>2, <2>4, <3>1, <3>2
      DEF Hold!Tick, Hold!DropHold, Here, Age
  <2>5. CASE escHold /\ ~HoldCancelled /\ HeldSince(ExitDelay)
    <3>1. escHold' = FALSE /\ heldFor' = 0 /\ quit' = TRUE
      BY <2>1, <2>5 DEF HoldTick, NoHold
    <3>2. Age' = 0 /\ Age >= ExitDelay
      BY <2>5, <3>1, AgeTold
    <3>3. QED
      BY <1>1, <1>2, <2>1, <2>2, <2>5, <3>1, <3>2
      DEF Hold!Tick, Hold!DropHold, Here, Age
  <2>6. CASE escHold /\ ~HoldCancelled /\ ~HeldSince(ExitDelay)
    <3>1. UNCHANGED <<quit, escHold>> /\ Age' = Age
      BY <2>1, <2>6 DEF HoldTick, Age
    <3>2. Age < ExitDelay
      BY <2>6, AgeTold, AppAssumption
    <3>3. QED
      BY <1>1, <1>2, <2>1, <2>2, <2>6, <3>1, <3>2 DEF Hold!Tick, Here, Age
  <2>7. QED
    BY <2>3, <2>4, <2>5, <2>6
<1>5. QED
  BY <1>3, <1>4

(* Every step of the app is one of EscHold, or none.                       *)
LEMMA HoldRefines ==
    ASSUME AppInv, [AppNext]_uiVars
    PROVE  Hold!Next \/ UNCHANGED Hold!app
<1>0. Here' \in BOOLEAN
  BY DEF Here
<1>1. CASE AppStart
  <2>1. /\ ~appStarted /\ appStarted' = TRUE /\ quit' = FALSE
        /\ escPressed' = FALSE /\ escHold' = FALSE /\ heldFor' = 0
    BY <1>1 DEF AppStart, ForgetKeys, NoHold
  <2>2. Age' = 0
    BY <2>1, AgeTold
  <2>3. Hold!Start
    BY <1>0, <2>1, <2>2
    DEF Hold!Start, Hold!Forget, Hold!DropHold, Here, Age
  <2>4. QED
    BY <2>3 DEF Hold!Next
<1>2. CASE AppStop
  <2>1. /\ appStarted /\ appStarted' = FALSE /\ quit' = quit
        /\ escPressed' = FALSE /\ escHold' = FALSE /\ heldFor' = 0
    BY <1>2 DEF AppStop, ForgetKeys, NoHold
  <2>2. Age' = 0
    BY <2>1, AgeTold
  <2>3. Hold!Stop
    BY <1>0, <2>1, <2>2
    DEF Hold!Stop, Hold!Forget, Hold!DropHold, Here, Age
  <2>4. QED
    BY <2>3 DEF Hold!Next
<1>3. CASE EscReleased
  <2>1. /\ appStarted /\ UNCHANGED <<appStarted, quit>> /\ Here' = Here
        /\ escPressed' = FALSE /\ escHold' = FALSE /\ heldFor' = 0
    BY <1>3 DEF EscReleased, Release, NoHold, Here, OnFirstPage, AtRoot,
                pageVars, dialog
  <2>2. Age' = 0
    BY <2>1, AgeTold
  <2>3. Hold!Release
    BY <2>1, <2>2 DEF Hold!Release, Hold!Forget, Hold!DropHold, Here, Age
  <2>4. QED
    BY <2>3 DEF Hold!Next
<1>4. CASE HelpPressed \/ HelpReleased \/ DialogClicked
             \/ \E key \in Keys : OtherKey(key)
  <2>1. /\ appStarted
        /\ UNCHANGED <<appStarted, quit, escPressed, escHold, heldFor>>
    BY <1>4 DEF HelpPressed, HelpReleased, DialogClicked, OtherKey, appVars,
                inputVars, holdVars
  <2>2. Age' = Age
    BY <2>1 DEF Age
  <2>3. Hold!OtherInput
    BY <1>0, <2>1, <2>2 DEF Hold!OtherInput, Here, Age
  <2>4. QED
    BY <2>3 DEF Hold!Next
<1>5. CASE KeyMoves \/ UNCHANGED uiVars
  <2>1. /\ UNCHANGED <<appStarted, quit, escPressed, escHold, heldFor>>
        /\ Here' = Here
    BY <1>5 DEF KeyMoves, uiVars, appVars, inputVars, holdVars, Here,
                OnFirstPage, AtRoot, pageVars, dialog
  <2>2. Age' = Age
    BY <2>1 DEF Age
  <2>3. QED
    BY <2>1, <2>2 DEF Hold!app, Here, Age
<1>6. CASE EscPressed
  BY <1>6, PressRefines DEF Hold!Next
<1>7. CASE TimePasses
  BY <1>7, TimeRefines DEF Hold!Next
<1>8. CASE Tick
  BY <1>8, TickRefines DEF Hold!Next
<1>9. QED
  BY <1>1, <1>2, <1>3, <1>4, <1>5, <1>6, <1>7, <1>8 DEF AppNext

(* The app quits only by one press of Esc, held on the first page for the  *)
(* whole delay, on any clock that does not go round within a hold: every   *)
(* step of NfcApp, whatever page, dialog, help and reader do, is a step of *)
(* EscHold or none of its business.                                        *)
THEOREM OnlyAHoldQuits == AppSpec => ImplementsEscHold
<1>1. AppInit => Hold!Init
  <2> SUFFICES ASSUME AppInit PROVE Hold!Init
    OBVIOUS
  <2>1. Age = 0
    BY AppAssumption DEF AppInit, Age
  <2>2. Here \in BOOLEAN
    BY DEF Here
  <2>3. QED
    BY <2>1, <2>2 DEF AppInit, Hold!Init, Age, Here
<1>2. AppInv /\ [AppNext]_uiVars => [Hold!Next]_(Hold!app)
  BY HoldRefines
<1>3. QED
  BY <1>1, <1>2, AppInvStarts, AppInvStep, PTL
  DEF AppSpec, ImplementsEscHold, Hold!Spec

-----------------------------------------------------------------------------
(* NfcModel: a step of the hardware thread that does not push.             *)
Handler == AwakeSteps \/ Wait \/ SpuriousWakeup

UiSteps == UserActs \/ UiContinues

(* A step is one of the UI thread, or one of the hardware thread.          *)
LEMMA ModelCases ==
    ASSUME ModelNext
    PROVE  UiSteps \/ ((Handler \/ Push) /\ UNCHANGED modelVars)
BY DEF ModelNext, UiSteps, WorkerActs, ThreadStep, Handler, AwakeSteps

(* Whatever the model does is a step of the worker, or none.               *)
LEMMA ModelUsesWorker == [ModelNext]_allVars => [Next]_vars
<1> SUFFICES ASSUME [ModelNext]_allVars
             PROVE  [Next]_vars
  OBVIOUS
<1>1. UiThread \in Callers
  BY ModelAssumption
<1>2. ASSUME Calls(UiThread) \/ Continues(UiThread)
      PROVE  Next
  BY <1>1, <1>2 DEF Next
<1>3. CASE UserActs
  <2>1. CASE ModelStart \/ ModelStop
    BY <1>2, <2>1 DEF ModelStart, ModelStop, Calls
  <2>2. CASE ModelRetry
    BY <2>2 DEF ModelRetry
  <2> QED  BY <1>3, <2>1, <2>2 DEF UserActs
<1>4. CASE WorkerStarts \/ WorkerStarted \/ WorkerStops \/ WorkerStopped
           \/ TickEvent
  BY <1>2, <1>4 DEF WorkerStarts, WorkerStarted, WorkerStops, WorkerStopped,
                    TickEvent, Calls, Continues
<1>5. CASE RetryStarts \/ RetryPosted \/ RetryReturns
  <2>1. Retry \in Commands
    BY DEF Commands
  <2> QED  BY <1>2, <1>5, <2>1 DEF RetryStarts, RetryPosted, RetryReturns,
                                   Calls, Continues
<1>6. CASE RetryRefused \/ TickBegin \/ TickEnd
  BY <1>6 DEF RetryRefused, TickBegin, TickEnd
<1>7. CASE UiSteps
  BY <1>3, <1>4, <1>5, <1>6, <1>7 DEF UiSteps, UiContinues
<1>8. CASE Handler \/ Push
  BY <1>8 DEF Handler, AwakeSteps, Next, ThreadStep
<1>9. CASE UNCHANGED allVars
  BY <1>9 DEF allVars
<1> QED  BY <1>7, <1>8, <1>9, ModelCases

-----------------------------------------------------------------------------
(* Where the UI thread is.                                                 *)

Anew == {"start", "retry_begin", "retry_start"}

UiPlaceOK ==
    /\ started \in BOOLEAN
    /\ ~started => ui = "idle"
    /\ \/ /\ ui \in {"idle", "tick", "retry_begin", "retry_post"}
          /\ caller[UiThread] = "idle"
       \/ ui \in {"start", "retry_start"} /\ caller[UiThread] \in InStart
       \/ ui = "stop" /\ caller[UiThread] \in InStop
       \/ ui = "retry_notify" /\ caller[UiThread] \in {"idle", "notify"}

(* The UI thread is in the call of the worker its place in NfcModel says.  *)
LEMMA UiKeepsPlace ==
    ASSUME CallersOK, UiPlaceOK, UiSteps
    PROVE  UiPlaceOK'
<1> DEFINE u == UiThread
<1>1. /\ u \in Callers
      /\ \A p \in CallerPlaces :
            caller' = [caller EXCEPT ![u] = p] => caller'[u] = p
  BY ModelAssumption DEF CallersOK
<1>2. started \in BOOLEAN /\ (~started => ui = "idle")
  BY DEF UiPlaceOK
<1> USE DEF Ui, Go, NotifyAndGo, CallerPlaces, InStart, InStop
<1> HIDE DEF u
<1>3. CASE ModelStart \/ ModelStop \/ RetryStarts
  <2>1. /\ started' = TRUE \/ (started' = started /\ started)
        /\ \/ ui' \in {"start", "retry_start"} /\ caller'[u] = "start_join"
           \/ ui' = "stop" /\ caller'[u] = "stop_notify"
    BY <1>1, <1>2, <1>3
    DEF u, ModelStart, Start, ModelStop, Stop, RetryStarts
  <2> QED  BY <2>1 DEF UiPlaceOK, u
<1>4. CASE WorkerStarts \/ WorkerStops
  <2>1. \/ /\ ui \in {"start", "retry_start"}
           /\ caller'[u] \in {"start_events", "start_thread"}
        \/ ui = "stop" /\ caller'[u] = "stop_join"
    BY <1>1, <1>2, <1>4
    DEF u, WorkerStarts, StartJoin, StartEvents, WorkerStops, StopNotify
  <2>2. ui' = ui /\ started' = started
    BY <1>4 DEF WorkerStarts, WorkerStops, modelVars
  <2> QED  BY <1>2, <2>1, <2>2 DEF UiPlaceOK, u
<1>5. CASE WorkerStarted \/ WorkerStopped
  <2>1. ui' = "idle" /\ caller'[u] = "idle" /\ started' \in BOOLEAN
    BY <1>1, <1>2, <1>5
    DEF u, WorkerStarted, StartThread, WorkerStopped, StopJoin
  <2> QED  BY <2>1 DEF UiPlaceOK, u
<1>6. CASE ModelRetry \/ TickBegin \/ TickEvent \/ TickEnd \/ RetryRefused
  <2>1. /\ caller' = caller /\ started' = started /\ caller[u] = "idle"
        /\ ui' \in {"idle", "tick", "retry_begin", "retry_post"}
    BY <1>6 DEF u, UiPlaceOK, ModelRetry, TickBegin, TickEvent, TryPopEvent,
                TickEnd, RetryRefused, vars, callerVars
  <2>2. started
    BY <1>6, <1>2 DEF ModelRetry, CanRetry, TickBegin, TickEvent, TickEnd,
                      RetryRefused
  <2> QED  BY <1>2, <2>1, <2>2 DEF UiPlaceOK, u
<1>7. CASE RetryPosted
  <2>1. ui' = "retry_notify" /\ started' = started /\ started
    BY <1>2, <1>7 DEF RetryPosted
  <2>2. caller'[u] \in {"idle", "notify"}
    BY <1>1, <1>7 DEF u, RetryPosted, PostRetryAgain, PostCommand
  <2> QED  BY <1>2, <2>1, <2>2 DEF UiPlaceOK, u
<1>8. CASE RetryReturns
  <2>1. ui' = "idle" /\ started' = started
    BY <1>8 DEF RetryReturns
  <2>2. caller'[u] = "idle"
    BY <1>1, <1>8 DEF u, RetryReturns, Notify, vars, callerVars
  <2> QED  BY <1>2, <2>1, <2>2 DEF UiPlaceOK, u
<1> QED  BY <1>3, <1>4, <1>5, <1>6, <1>7, <1>8
         DEF UiSteps, UserActs, UiContinues

(* A hardware thread that goes on is running, and so is the run that is    *)
(* being prepared for one; only stop() requests a stop.                    *)
Over == {"none", "close", "end", "done"}

RunOK ==
    /\ thread \notin Over => running
    /\ caller[UiThread] \in Preparing
         => running /\ ~stopRequested /\ commands = <<>>
    /\ stopRequested => ~started \/ ui \in {"stop", "start"}

(* A handler runs when all is pushed, and touches nothing of the callers.  *)
LEMMA HandlerRuns ==
    ASSUME Handler
    PROVE  /\ thread # "none" /\ outbox = <<>>
           /\ UNCHANGED <<caller, lifecycle, queue, runs, posts>>
           /\ UNCHANGED <<stopRequested, announced>>
           /\ thread' \notin Over => thread \notin Over /\ running' = running
           /\ running' = running \/ thread' \in Over
<1>1. thread # "none" /\ outbox = <<>>
  BY ThreadStepsRun DEF Handler
<1>2. UNCHANGED <<caller, lifecycle, queue, runs, posts>>
      /\ UNCHANGED <<stopRequested, announced>>
  BY ThreadLeavesOthers, ThreadLeavesAnnounced
  DEF Handler, others, callerVars, countVars
<1>3. /\ thread' \notin Over => thread \notin Over /\ running' = running
      /\ running' = running \/ thread' \in Over
  <2> USE DEF At, Move, Take, TakeSetScanning, OpenReturns, GiveUpReader,
              flagVars, Over
  <2>1. CASE InitBegin \/ UnexpectedFailure
    BY <2>1 DEF InitBegin, UnexpectedFailure
  <2>2. CASE OpenSucceeds \/ OpenFails \/ OpenCancelled
    BY <2>2 DEF OpenSucceeds, OpenFails, OpenCancelled
  <2>3. CASE LoopTop \/ NoCommand \/ End \/ Wait \/ SpuriousWakeup
    BY <2>3 DEF LoopTop, NoCommand, End, Wait, SpuriousWakeup
  <2>4. CASE TakeRetry \/ RememberScanning
    BY <2>4 DEF TakeRetry, RememberScanning
  <2>5. CASE ScanningOn \/ ScanningOff \/ ScanningFails \/ ScanningCancelled
    BY <2>5 DEF ScanningOn, ScanningOff, ScanningFails, ScanningCancelled
  <2>6. CASE Poll \/ PollFails \/ PollCancelled
    BY <2>6 DEF Poll, PollFails, PollCancelled
  <2>7. CASE Exit \/ Close
    BY <2>7 DEF Exit, Close
  <2> QED  BY <2>1, <2>2, <2>3, <2>4, <2>5, <2>6, <2>7
           DEF Handler, AwakeSteps
<1> QED  BY <1>1, <1>2, <1>3

(* A push changes the queue, and what is announced, and nothing else.      *)
LEMMA PushRuns ==
    ASSUME Push
    PROVE  /\ outbox # <<>>
           /\ UNCHANGED <<caller, lifecycle, commands, thread, presence>>
           /\ UNCHANGED <<running, stopRequested, attempt, initialized>>
           /\ UNCHANGED <<scanRequested, initInProgress, runs, posts>>
BY DEF Push, callerVars, flagVars, locals, countVars

(* RunOK when the UI thread moves ...                                      *)
LEMMA UiRuns ==
    ASSUME RestInv, UiPlaceOK, RunOK, UiSteps
    PROVE  RunOK'
<1> DEFINE u == UiThread
<1>1. /\ u \in Callers
      /\ \A p \in CallerPlaces :
            caller' = [caller EXCEPT ![u] = p] => caller'[u] = p
  BY ModelAssumption DEF RestInv, RetryInv, LifecycleInv, CallersOK
<1>2. /\ thread \notin Over => running
      /\ caller[u] \in Preparing
           => running /\ ~stopRequested /\ commands = <<>>
      /\ stopRequested => ~started \/ ui \in {"stop", "start"}
      /\ ~started => ui = "idle"
  BY DEF RunOK, UiPlaceOK
<1> USE DEF Ui, Go, NotifyAndGo, CallerPlaces, Preparing, Over, u
<1>3. CASE ModelStart \/ ModelStop \/ RetryStarts
  <2>1. /\ UNCHANGED <<thread, running>>
        /\ caller'[u] \notin Preparing
        /\ ui' \in {"start", "stop"} \/ (ui' = "retry_start" /\ ~stopRequested')
    BY <1>1, <1>2, <1>3
    DEF ModelStart, Start, ModelStop, Stop, RetryStarts, flagVars
  <2> QED  BY <1>2, <2>1 DEF RunOK
<1>4. CASE WorkerStarts /\ StartJoin(u)
  <2>1. /\ thread' = "none" /\ running' /\ ~stopRequested'
        /\ commands' = <<>>
    BY <1>4 DEF StartJoin
  <2> QED  BY <2>1 DEF RunOK
<1>5. CASE WorkerStarts /\ StartEvents(u)
  <2>1. /\ UNCHANGED <<thread, running, stopRequested, commands, started, ui>>
        /\ caller[u] \in Preparing
    BY <1>5 DEF WorkerStarts, StartEvents, flagVars, modelVars
  <2> QED  BY <1>2, <2>1 DEF RunOK
<1>6. CASE WorkerStarted
  <2>1. /\ thread' = "none" \/ (running' = running /\ running)
        /\ caller'[u] = "idle" /\ ~stopRequested'
    BY <1>1, <1>2, <1>6 DEF WorkerStarted, StartThread
  <2> QED  BY <2>1 DEF RunOK
<1>7. CASE WorkerStops
  <2>1. /\ running' = running /\ (thread' \notin Over => thread \notin Over)
        /\ caller'[u] = "stop_join" /\ ui' = "stop"
    BY <1>1, <1>7 DEF WorkerStops, StopNotify, Woken, flagVars, modelVars
  <2> QED  BY <1>2, <2>1 DEF RunOK
<1>8. CASE WorkerStopped
  <2>1. /\ thread' = "none" /\ caller'[u] = "idle" /\ ~started'
    BY <1>1, <1>8 DEF WorkerStopped, StopJoin
  <2> QED  BY <2>1 DEF RunOK
<1>9. CASE ModelRetry \/ TickBegin \/ TickEvent \/ TickEnd \/ RetryRefused
  <2>1. /\ UNCHANGED <<caller, thread, running, stopRequested, started>>
        /\ caller[u] = "idle" /\ ui \notin {"stop", "start"}
    BY <1>9 DEF UiPlaceOK, ModelRetry, TickBegin, TickEvent, TryPopEvent,
                TickEnd, RetryRefused, vars, callerVars, flagVars
  <2> QED  BY <1>2, <2>1 DEF RunOK
<1>10. CASE RetryPosted
  <2>1. /\ UNCHANGED <<thread, running, stopRequested, started>>
        /\ ui \notin {"stop", "start"}
    BY <1>10 DEF RetryPosted, PostRetryAgain, PostCommand, Accept, flagVars
  <2>2. caller'[u] \in {"idle", "notify"}
    BY <1>1, <1>10 DEF RetryPosted, PostRetryAgain, PostCommand
  <2> QED  BY <1>2, <2>1, <2>2 DEF RunOK
<1>11. CASE RetryReturns
  <2>1. /\ running' = running /\ (thread' \notin Over => thread \notin Over)
        /\ UNCHANGED <<stopRequested, started>> /\ ui \notin {"stop", "start"}
    BY <1>11 DEF RetryReturns, Notify, Woken, vars, flagVars
  <2>2. caller'[u] = "idle"
    BY <1>1, <1>11 DEF RetryReturns, Notify, vars, callerVars
  <2> QED  BY <1>2, <2>1, <2>2 DEF RunOK
<1> QED  BY <1>3, <1>4, <1>5, <1>6, <1>7, <1>8, <1>9, <1>10, <1>11
         DEF UiSteps, UserActs, UiContinues, WorkerStarts

(* ... and when the hardware thread does.                                  *)
LEMMA WorkerRuns ==
    ASSUME RestInv, RunOK, Handler \/ Push, UNCHANGED modelVars
    PROVE  RunOK'
<1>1. started' = started /\ ui' = ui
  BY DEF modelVars
<1>2. CASE Push
  BY <1>1, <1>2, PushRuns DEF RunOK
<1>3. CASE Handler
  <2>1. caller[UiThread] \notin Preparing
    BY <1>3, HandlerRuns, ModelAssumption
    DEF RestInv, RetryInv, LifecycleInv, StartStopOK
  <2> QED  BY <1>1, <1>3, <2>1, HandlerRuns DEF RunOK
<1> QED  BY <1>2, <1>3

-----------------------------------------------------------------------------
(* What the hardware thread knows at its places.                           *)

UiCalls == Calls(UiThread) \/ Continues(UiThread) \/ UNCHANGED vars

(* A step of the UI thread is a call of the worker, or leaves it alone.    *)
LEMMA UiStepsCall ==
    ASSUME UiSteps
    PROVE  UiCalls
<1>1. CASE UserActs
  BY <1>1 DEF UserActs, ModelStart, ModelStop, ModelRetry, Calls, UiCalls
<1>2. CASE WorkerStarts \/ WorkerStarted \/ WorkerStops \/ WorkerStopped
           \/ TickEvent
  BY <1>2 DEF WorkerStarts, WorkerStarted, WorkerStops, WorkerStopped,
              TickEvent, Calls, Continues, UiCalls
<1>3. CASE RetryStarts \/ RetryPosted \/ RetryReturns
  <2>1. Retry \in Commands
    BY DEF Commands
  <2> QED  BY <1>3, <2>1 DEF RetryStarts, RetryPosted, RetryReturns,
                             Calls, Continues, UiCalls
<1>4. CASE RetryRefused \/ TickBegin \/ TickEnd
  BY <1>4 DEF RetryRefused, TickBegin, TickEnd, UiCalls
<1> QED  BY <1>1, <1>2, <1>3, <1>4 DEF UiSteps, UiContinues

(* The UI thread changes nothing of the hardware thread's but by creating  *)
(* or joining it, or waking it up.                                         *)
LEMMA UiLeavesHardware ==
    ASSUME UiPlaceOK, UiSteps, ~WorkerStarted
    PROVE  /\ UNCHANGED <<hardware, announced>>
           /\ \/ thread' = thread
              \/ thread = "asleep" /\ thread' = "wait"
              \/ Finished /\ thread' = "none"
<1> DEFINE u == UiThread
<1>1. ~StartThread(u)
  <2>1. CASE ui \in {"start", "retry_start"}
    <3>1. CASE WorkerStarts
      BY <3>1 DEF WorkerStarts, StartJoin, StartEvents, StartThread, Go
    <3>2. CASE ~WorkerStarts
      BY <2>1, <3>2 DEF UiSteps, UserActs, UiContinues, Ui, ModelStart,
         ModelStop, ModelRetry, WorkerStops, WorkerStopped, RetryStarts,
         RetryPosted, RetryReturns, RetryRefused, TickBegin, TickEvent, TickEnd
    <3> QED  BY <3>1, <3>2
  <2>2. CASE ui \notin {"start", "retry_start"}
    BY <2>2 DEF UiPlaceOK, InStop, StartThread, Go
  <2> QED  BY <2>1, <2>2
<1>2. CASE UNCHANGED vars
  BY <1>2 DEF vars, historyVars
<1>3. CASE Calls(u) \/ Continues(u)
  <2>1. UNCHANGED <<hardware, announced>>
    BY <1>1, <1>3, CallersLeaveHardware, ModelAssumption
  <2>2. \/ thread' = thread
        \/ thread = "asleep" /\ thread' = "wait"
        \/ Finished /\ thread' = "none"
    BY <1>1, <1>3
    DEF Calls, Continues, Start, Stop, PostShutdown, PostRetryAgain,
        PostCommand, Accept, TryPopEvent, StartJoin, StartEvents,
        StopJoin, StopNotify, Notify, NotifyAndGo, Woken
  <2> QED  BY <2>1, <2>2
<1> QED  BY <1>2, <1>3, UiStepsCall DEF UiCalls

(* The hardware thread is created when all that it uses is as new.         *)
LEMMA WorkerStartsFresh ==
    ASSUME RestInv, WorkerStarted
    PROVE  /\ outbox = <<>> /\ outbox' = <<>>
           /\ queue = EmptyQueue /\ queue' = queue
           /\ presence' = NoPresence(1) /\ announced' = NoSession
           /\ thread' \in {"none", "init"} /\ attempt' = 0
           /\ UNCHANGED <<commands, posts, runs, retryOwed>>
           /\ caller[UiThread] = "start_thread"
<1>1. UiThread \in Callers /\ StartThread(UiThread)
  BY ModelAssumption DEF WorkerStarted
<1>2. caller[UiThread] = "start_thread"
  BY <1>1 DEF StartThread, Go
<1>3. thread = "none" /\ queue = EmptyQueue
  BY <1>1, <1>2 DEF RestInv, RetryInv, LifecycleInv, StartStopOK, Preparing,
                    FreshOK
<1>4. outbox = <<>>
  BY <1>3 DEF RestInv, PlacesOK
<1> QED  BY <1>1, <1>2, <1>3, <1>4 DEF StartThread, countVars

ThreadKnows ==
    /\ thread = "open" => presence.tag = NoTag
    /\ thread = "poll" => initialized /\ scanRequested
    /\ thread \in {"wait", "asleep"} => ~initialized
    /\ \A i \in 1..Len(outbox) :
          outbox[i].type \in Outcomes => presence.tag = NoTag

(* ThreadKnows when the UI thread moves ...                                *)
LEMMA UiKnows ==
    ASSUME RestInv, UiPlaceOK, ThreadKnows, UiSteps
    PROVE  ThreadKnows'
<1>1. CASE WorkerStarted
  BY <1>1, WorkerStartsFresh DEF ThreadKnows
<1>2. CASE ~WorkerStarted
  BY <1>2, UiLeavesHardware DEF ThreadKnows, hardware, locals
<1> QED  BY <1>1, <1>2

(* What the removal of a tag looks like, if any.                           *)
LEMMA RemovalShape ==
    \/ Removal = <<>>
    \/ \E e : Removal = <<e>> /\ e.type = "TagRemoved"
BY DEF Removal, TagRemoved

(* ... when the hardware thread handles something ...                      *)
LEMMA HandlerKnows ==
    ASSUME RestInv, ThreadKnows, Handler
    PROVE  ThreadKnows'
<1>1. outbox = <<>>
  BY HandlerRuns
<1> USE DEF ThreadKnows, At, Move, Outcomes
<1>2. CASE InitBegin \/ Exit
  <2>1. presence'.tag = NoTag /\ thread' \in {"open", "close"}
    BY <1>2 DEF InitBegin, Exit, ClearPresence, NoPresence
  <2> QED  BY <2>1
<1>3. CASE OpenSucceeds \/ OpenFails
  <2>1. presence'.tag = NoTag /\ thread' = "loop"
    BY <1>3 DEF OpenSucceeds, OpenFails, OpenReturns
  <2> QED  BY <2>1
<1>4. CASE OpenCancelled \/ TakeRetry \/ RememberScanning \/ ScanningCancelled
  <2>1. outbox' = <<>> /\ thread' \in {"init", "loop", "exit"}
    BY <1>1, <1>4 DEF OpenCancelled, TakeRetry, RememberScanning,
                      ScanningCancelled, hardware
  <2> QED  BY <2>1
<1>5. CASE LoopTop \/ NoCommand \/ PollCancelled \/ End \/ Wait
           \/ SpuriousWakeup
  BY <1>1, <1>5 DEF LoopTop, NoCommand, PollCancelled, End, Wait,
                    SpuriousWakeup, hardware, locals
<1>6. CASE ScanningOn \/ Close \/ UnexpectedFailure
  <2>1. /\ thread' \in {"loop", "end", "exit"}
        /\ outbox' \in {<<State("Scanning")>>, <<State("Stopped")>>, <<>>,
                        <<WorkerError(FALSE), State("Error")>>}
    BY <1>6 DEF ScanningOn, Close, UnexpectedFailure
  <2> QED  BY <2>1 DEF State, WorkerError
<1>7. CASE ScanningOff \/ ScanningFails \/ PollFails
  <2>1. ClearPresence /\ thread' = "loop"
    BY <1>7 DEF ScanningOff, ScanningFails, PollFails, GiveUpReader
  <2>2. presence'.tag = NoTag
    BY <2>1 DEF ClearPresence, NoPresence
  <2> QED  BY <2>1, <2>2
<1>8. CASE Poll
  <2>1. thread' = "loop"
    BY <1>8 DEF Poll
  <2>2. \A i \in 1..Len(outbox') : outbox'[i].type \notin Outcomes
    <3>1. CASE outbox' = <<>> \/ outbox' = Removal
      BY <3>1, RemovalShape
    <3>2. CASE \E n, t : outbox' = <<TagUpdated(n, t)>>
      BY <3>2 DEF TagUpdated
    <3>3. ASSUME NEW n, NEW t, outbox' = Removal \o <<TagPresented(n, t)>>
          PROVE  \A i \in 1..Len(outbox') : outbox'[i].type \notin Outcomes
      <4> DEFINE e == TagPresented(n, t)
      <4>1. e.type = "TagPresented"
        BY DEF TagPresented
      <4> HIDE DEF e
      <4>2. \/ outbox' = <<e>>
            \/ \E r : outbox' = <<r, e>> /\ r.type = "TagRemoved"
        BY <3>3, RemovalShape, Concatenations DEF e
      <4> QED  BY <4>1, <4>2
    <3> QED
      BY <1>8, <3>1, <3>2, <3>3
      DEF Poll, ObserveNothing, ObserveNoTag, ObserveTag, ObservePresentTag,
          ObserveCandidate, ObserveConfirmed
  <2> QED  BY <2>1, <2>2
<1> QED  BY <1>2, <1>3, <1>4, <1>5, <1>6, <1>7, <1>8 DEF Handler, AwakeSteps

(* The events a handler leaves are a sequence.                             *)
LEMMA ToldInOrder ==
    ASSUME NEW a, NEW o, NEW b, Tells(a, o, b)
    PROVE  \E S : o \in Seq(S)
<1>1. o = <<>> => o \in Seq({})
  OBVIOUS
<1>2. \A e : o = <<e>> => o \in Seq({e})
  OBVIOUS
<1>3. \A e, f : o = <<e, f>> => o \in Seq({e, f})
  OBVIOUS
<1>4. \A e, f, g : o = <<e, f, g>> => o \in Seq({e, f, g})
  OBVIOUS
<1> QED  BY <1>1, <1>2, <1>3, <1>4 DEF Tells

(* So are the ones it has still to push.                                   *)
LEMMA OutboxIsSequence ==
    ASSUME RestInv
    PROVE  \E S : outbox \in Seq(S)
BY ToldInOrder DEF RestInv, ToldSoFar

(* ... and when it pushes an event.                                        *)
LEMMA PushKnows ==
    ASSUME RestInv, ThreadKnows, Push
    PROVE  ThreadKnows'
<1>1. PICK S : outbox \in Seq(S)
  BY OutboxIsSequence
<1>2. /\ outbox # <<>> /\ outbox' = Tail(outbox)
      /\ UNCHANGED <<thread, presence, initialized, scanRequested>>
  BY PushRuns DEF Push
<1>3. \A i \in 1..Len(Tail(outbox)) :
         i + 1 \in 1..Len(outbox) /\ Tail(outbox)[i] = outbox[i + 1]
  BY <1>1, <1>2
<1> QED  BY <1>2, <1>3 DEF ThreadKnows

-----------------------------------------------------------------------------
(* Initializations are numbered by the Retries accepted.                   *)

AttemptOK ==
    /\ attempt <= posts + 1
    /\ RetryQueued \/ thread = "init" => attempt <= posts
    /\ RetryQueued /\ thread = "init" => attempt < posts

(* AttemptOK when the UI thread moves ...                                  *)
LEMMA UiCounts ==
    ASSUME RestInv, UiPlaceOK, RunOK, AttemptOK, UiSteps
    PROVE  AttemptOK'
<1>1. attempt \in Nat /\ posts \in Nat
  BY WorkerAssumption DEF RestInv, PlacesOK, FlagsOK
<1>2. CASE WorkerStarted
  <2>1. attempt' = 0 /\ posts' = posts /\ commands' = <<>>
    BY <1>2, WorkerStartsFresh DEF RunOK, Preparing
  <2>2. ~RetryQueued'
    BY <2>1 DEF RetryQueued
  <2> QED  BY <1>1, <2>1, <2>2 DEF AttemptOK
<1>3. CASE RetryPosted
  <2>1. attempt' = attempt /\ posts' = posts + 1 /\ thread' = thread
    BY <1>3 DEF RetryPosted, PostRetryAgain, PostCommand, Accept, hardware,
                locals
  <2>2. CASE PostRetryAgain(UiThread)
    BY <1>1, <2>1, <2>2 DEF PostRetryAgain, AttemptOK, RetryQueued
  <2>3. CASE PostCommand(UiThread, Retry)
    <3>1. ~RetryQueued
      BY <2>3 DEF PostCommand, RetryComing
    <3> QED  BY <1>1, <2>1, <3>1 DEF AttemptOK
  <2> QED  BY <1>3, <2>2, <2>3 DEF RetryPosted
<1>4. CASE ~WorkerStarted /\ ~RetryPosted
  <2>1. /\ attempt' = attempt
        /\ thread' = "init" => thread = "init"
    BY <1>4, UiLeavesHardware DEF hardware, locals
  <2>2. posts' = posts
    BY <1>4 DEF UiSteps, UserActs, UiContinues, ModelStart, Start, ModelStop,
       Stop, ModelRetry, WorkerStarts, StartJoin, StartEvents, WorkerStops,
       StopNotify, NotifyAndGo, WorkerStopped, StopJoin, RetryStarts,
       RetryReturns, Notify, RetryRefused, TickBegin, TickEvent, TryPopEvent,
       TickEnd, vars, countVars
  <2>3. commands' = commands \/ commands' = <<>>
    BY <1>4 DEF UiSteps, UserActs, UiContinues, ModelStart, Start, ModelStop,
       Stop, ModelRetry, WorkerStarts, StartJoin, StartEvents, WorkerStops,
       StopNotify, NotifyAndGo, WorkerStopped, StopJoin, RetryStarts,
       RetryReturns, Notify, RetryRefused, TickBegin, TickEvent, TryPopEvent,
       TickEnd, vars
  <2>4. RetryQueued' => RetryQueued
    BY <2>3 DEF RetryQueued
  <2> QED  BY <1>1, <2>1, <2>2, <2>4 DEF AttemptOK
<1> QED  BY <1>2, <1>3, <1>4

(* Taking a command off the queue.                                         *)
LEMMA TakenCommand ==
    ASSUME RestInv, NEW command \in Commands, Take(command)
    PROVE  /\ RetryQueued' => RetryQueued
           /\ command = Retry => RetryQueued /\ ~RetryQueued'
<1>1. /\ commands \in Seq(Commands) /\ commands # <<>>
      /\ commands' = Tail(commands) /\ commands[1] = command
  BY DEF Take, RestInv, RetryInv
<1>2. \A i \in 1..Len(commands') :
         i + 1 \in 1..Len(commands) /\ commands'[i] = commands[i + 1]
  BY <1>1
<1>3. 1 \in 1..Len(commands)
  BY <1>1
<1>4. \A i \in 1..Len(commands') : i \in Nat /\ i + 1 # 1
  BY <1>1
<1> QED  BY <1>1, <1>2, <1>3, <1>4 DEF RetryQueued, RestInv, CommandsOK

(* ... when the hardware thread handles something ...                      *)
LEMMA HandlerCounts ==
    ASSUME RestInv, AttemptOK, Handler
    PROVE  AttemptOK'
<1>1. attempt \in Nat /\ posts \in Nat
  BY WorkerAssumption DEF RestInv, PlacesOK, FlagsOK
<1>2. posts' = posts
  BY HandlerRuns
<1> USE DEF AttemptOK
<1>3. CASE InitBegin \/ UnexpectedFailure
  <2>1. /\ thread = "init" /\ thread' # "init" /\ attempt' = attempt + 1
        /\ commands' = commands
    BY <1>3 DEF InitBegin, UnexpectedFailure, At
  <2>2. RetryQueued' <=> RetryQueued
    BY <2>1 DEF RetryQueued
  <2> QED  BY <1>1, <1>2, <2>1, <2>2
<1>4. CASE TakeRetry
  <2>1. attempt' = attempt
    BY <1>4 DEF TakeRetry, hardware, locals
  <2>2. RetryQueued /\ ~RetryQueued'
    BY <1>4, TakenCommand DEF TakeRetry, Commands
  <2> QED  BY <1>1, <1>2, <2>1, <2>2
<1>5. CASE \E on \in BOOLEAN : TakeSetScanning(on)
  <2>1. PICK on \in BOOLEAN : TakeSetScanning(on)
    BY <1>5
  <2>2. SetScanning(on) \in Commands
    BY DEF Commands
  <2>3. RetryQueued' => RetryQueued
    BY <2>1, <2>2, TakenCommand DEF TakeSetScanning
  <2>4. attempt' = attempt /\ thread = "command"
    BY <2>1 DEF TakeSetScanning, Take, At
  <2>5. thread' # "init"
    BY <2>1, <2>4 DEF Handler, AwakeSteps, InitBegin, OpenSucceeds, OpenFails,
       OpenReturns, OpenCancelled, LoopTop, TakeRetry, Take, RememberScanning,
       ScanningOn, ScanningOff, ScanningFails, GiveUpReader,
       ScanningCancelled, NoCommand, Poll, PollFails, PollCancelled,
       UnexpectedFailure, Exit, Close, End, Wait, SpuriousWakeup, Move, At,
       TakeSetScanning, Retry, SetScanning
  <2> QED  BY <1>1, <1>2, <2>3, <2>4, <2>5
<1>6. CASE /\ ~InitBegin /\ ~UnexpectedFailure /\ ~TakeRetry
           /\ \A on \in BOOLEAN : ~TakeSetScanning(on)
  <2>1. UNCHANGED <<attempt, commands>> /\ thread' # "init"
    <3> USE DEF Move, OpenReturns, locals, hardware
    <3>1. CASE OpenSucceeds \/ OpenFails \/ OpenCancelled
      BY <3>1 DEF OpenSucceeds, OpenFails, OpenCancelled
    <3>2. CASE LoopTop \/ NoCommand \/ End \/ Wait \/ SpuriousWakeup
      BY <3>2 DEF LoopTop, NoCommand, End, Wait, SpuriousWakeup
    <3>3. CASE Poll \/ PollFails \/ PollCancelled
      BY <3>3 DEF Poll, PollFails, GiveUpReader, PollCancelled
    <3>4. CASE Exit \/ Close
      BY <3>4 DEF Exit, Close
    <3>5. ~RememberScanning /\ ~ScanningOn /\ ~ScanningOff /\ ~ScanningFails
          /\ ~ScanningCancelled
      BY <1>6 DEF RememberScanning, ScanningOn, ScanningOff, ScanningFails,
                  ScanningCancelled
    <3> QED  BY <1>6, <3>1, <3>2, <3>3, <3>4, <3>5 DEF Handler, AwakeSteps
  <2>2. RetryQueued' <=> RetryQueued
    BY <2>1 DEF RetryQueued
  <2> QED  BY <1>1, <1>2, <2>1, <2>2
<1> QED  BY <1>3, <1>4, <1>5, <1>6

(* ... and when it pushes an event.                                        *)
LEMMA PushCounts ==
    ASSUME AttemptOK, Push
    PROVE  AttemptOK'
BY PushRuns DEF AttemptOK, RetryQueued

-----------------------------------------------------------------------------
(* The events on their way to the UI thread.                               *)

Elements(s) == {s[i] : i \in 1..Len(s)}

(* The elements of the short sequences a handler builds.                   *)
LEMMA ElementsOfSequences ==
    /\ Elements(<<>>) = {}
    /\ \A e : Elements(<<e>>) = {e}
    /\ \A e, f : Elements(<<e, f>>) = {e, f}
    /\ \A e, f, g : Elements(<<e, f, g>>) = {e, f, g}
<1>1. Elements(<<>>) = {}
  BY DEF Elements
<1>2. ASSUME NEW e PROVE Elements(<<e>>) = {e}
  BY DEF Elements
<1>3. ASSUME NEW e, NEW f PROVE Elements(<<e, f>>) = {e, f}
  <2>1. 1..Len(<<e, f>>) = {1, 2}
    OBVIOUS
  <2> QED  BY <2>1 DEF Elements
<1>4. ASSUME NEW e, NEW f, NEW g PROVE Elements(<<e, f, g>>) = {e, f, g}
  <2>1. 1..Len(<<e, f, g>>) = {1, 2, 3}
    OBVIOUS
  <2> QED  BY <2>1 DEF Elements
<1> QED  BY <1>1, <1>2, <1>3, <1>4

(* The elements of what Append, Head and Tail make of a sequence.          *)
LEMMA ElementsOfParts ==
    ASSUME NEW S, NEW s \in Seq(S)
    PROVE  /\ \A e : Elements(Append(s, e)) = Elements(s) \cup {e}
           /\ s # <<>> => /\ Head(s) \in Elements(s)
                          /\ Elements(Tail(s)) \subseteq Elements(s)
<1>1. ASSUME NEW e
      PROVE  Elements(Append(s, e)) = Elements(s) \cup {e}
  <2>1. /\ Len(Append(s, e)) = Len(s) + 1 /\ Len(s) \in Nat
        /\ \A i \in 1..Len(s) : Append(s, e)[i] = s[i]
        /\ Append(s, e)[Len(s) + 1] = e
    BY AppendProperties
  <2>2. 1..(Len(s) + 1) = 1..Len(s) \cup {Len(s) + 1}
    BY <2>1
  <2> QED  BY <2>1, <2>2, Zenon DEF Elements
<1>2. ASSUME s # <<>>
      PROVE  /\ Head(s) \in Elements(s)
             /\ Elements(Tail(s)) \subseteq Elements(s)
  <2>1. 1 \in 1..Len(s) /\ Head(s) = s[1]
    BY <1>2
  <2>2. \A i \in 1..Len(Tail(s)) :
           i + 1 \in 1..Len(s) /\ Tail(s)[i] = s[i + 1]
    BY <1>2
  <2>3. Head(s) \in Elements(s)
    BY <2>1, Zenon DEF Elements
  <2>4. ASSUME NEW x \in Elements(Tail(s))
        PROVE  x \in Elements(s)
    <3>1. PICK i \in 1..Len(Tail(s)) : x = Tail(s)[i]
      BY Zenon DEF Elements
    <3>2. PICK j \in 1..Len(s) : x = s[j]
      BY <2>2, <3>1
    <3> QED  BY <3>2, Zenon DEF Elements
  <2> QED  BY <2>3, <2>4
<1> QED  BY <1>1, <1>2

(* A sequence with one element erased.                                     *)
LEMMA WithoutOne ==
    ASSUME NEW S, NEW s \in Seq(S), s # <<>>, NEW k
    PROVE  /\ Without(s, k) \in Seq(S)
           /\ Elements(Without(s, k)) \subseteq Elements(s)
<1> DEFINE w == Without(s, k)
<1>1. Len(s) \in Nat /\ Len(s) >= 1
  OBVIOUS
<1>2. \A i \in 1..(Len(s) - 1) : i \in 1..Len(s) /\ i + 1 \in 1..Len(s)
  BY <1>1
<1>3. w = [i \in 1..(Len(s) - 1) |-> IF i < k THEN s[i] ELSE s[i + 1]]
  BY DEF Without
<1>4. w \in [1..(Len(s) - 1) -> S]
  BY <1>2, <1>3
<1>5. Len(s) - 1 \in Nat
  BY <1>1
<1>6. w \in Seq(S) /\ Len(w) = Len(s) - 1
  BY <1>4, <1>5
<1>7. \A i \in 1..Len(w) : \E j \in 1..Len(s) : w[i] = s[j]
  BY <1>2, <1>3, <1>6
<1> QED  BY <1>6, <1>7, Zenon DEF Elements

(* What the UI thread has still to read, oldest first.                     *)
Stream == queue.events \o outbox

(* pushEvent either moves an event from the outbox to the queue, and what  *)
(* is still to be read stays the same, or counts a loss; it makes no       *)
(* event.                                                                  *)
LEMMA PushMoves ==
    ASSUME RestInv, Push
    PROVE  /\ \/ /\ Stream' = Stream /\ queue'.dropped = queue.dropped
              \/ queue'.dropped > 0
           /\ Elements(queue'.events)
                 \subseteq Elements(queue.events) \cup Elements(outbox)
           /\ Elements(outbox') \subseteq Elements(outbox)
<1>1. PICK S : queue.events \in Seq(S)
  BY DEF RestInv, QueueOK
<1>2. PICK T : outbox \in Seq(T)
  BY OutboxIsSequence
<1> DEFINE q == queue.events
           e == Head(outbox)
           U == S \cup T
<1>3. /\ outbox # <<>> /\ outbox' = Tail(outbox)
      /\ queue' = PushEvent(queue, e)
  BY DEF Push
<1>4. q \in Seq(U) /\ outbox \in Seq(U) /\ e \in U
  BY <1>1, <1>2, <1>3
<1>5. e \in Elements(outbox) /\ Elements(outbox') \subseteq Elements(outbox)
  BY <1>2, <1>3, ElementsOfParts
<1>6. queue.dropped \in Nat
  BY DEF RestInv, QueueOK
<1>7. CASE ~IsFull(queue)
  <2>1. queue'.events = Append(q, e) /\ queue'.dropped = queue.dropped
    BY <1>3, <1>7 DEF PushEvent
  <2>2. Append(q, e) \o Tail(outbox) = q \o outbox
    BY <1>3, <1>4, HeadTailProperties
  <2>3. Elements(queue'.events) = Elements(q) \cup {e}
    BY <1>1, <2>1, ElementsOfParts
  <2> QED  BY <1>3, <1>5, <2>1, <2>2, <2>3 DEF Stream
<1>8. CASE IsFull(queue) /\ IsDroppable(e)
  <2>1. queue'.events = q /\ queue'.dropped = queue.dropped + 1
    BY <1>3, <1>8 DEF PushEvent
  <2> QED  BY <1>5, <1>6, <2>1
<1>9. CASE IsFull(queue) /\ ~IsDroppable(e)
  <2> DEFINE w == Without(q, Victim(queue))
  <2>1. queue'.events = Append(w, e) /\ queue'.dropped = queue.dropped + 1
    BY <1>3, <1>9 DEF PushEvent
  <2>2. q # <<>>
    BY <1>1, <1>9, EventCapacityAssumption DEF IsFull
  <2>3. w \in Seq(S) /\ Elements(w) \subseteq Elements(q)
    BY <1>1, <2>2, WithoutOne
  <2>4. Elements(Append(w, e)) = Elements(w) \cup {e}
    BY <2>3, ElementsOfParts
  <2> QED  BY <1>5, <1>6, <2>1, <2>3, <2>4
<1> QED  BY <1>7, <1>8, <1>9

(* tryPopEvent reports the losses first; with none, it takes what has      *)
(* waited longest.                                                         *)
LEMMA PopMoves ==
    ASSUME RestInv, TryPopEvent(UiThread)
    PROVE  /\ queue.dropped # 0
                => Popped(queue).type = "QueueOverflow"
                   /\ queue'.events = queue.events
           /\ queue.dropped = 0
                => /\ queue.events # <<>> /\ Popped(queue) = queue.events[1]
                   /\ Popped(queue) \in Elements(queue.events)
                   /\ Stream # <<>> /\ Stream' = Tail(Stream)
                   /\ Stream[1] = Popped(queue)
           /\ queue'.dropped = 0 /\ outbox' = outbox
           /\ Elements(queue'.events) \subseteq Elements(queue.events)
<1>1. PICK S : queue.events \in Seq(S)
  BY DEF RestInv, QueueOK
<1>2. PICK T : outbox \in Seq(T)
  BY OutboxIsSequence
<1>3. /\ queue' = AfterPop(queue) /\ outbox' = outbox
      /\ queue.dropped # 0 \/ queue.events # <<>>
  BY DEF TryPopEvent, CanPop, hardware
<1>4. CASE queue.dropped # 0
  BY <1>3, <1>4 DEF AfterPop, Popped, QueueOverflow
<1>5. CASE queue.dropped = 0
  <2> DEFINE q == queue.events
             U == S \cup T
  <2>1. q # <<>> /\ queue'.events = Tail(q) /\ queue'.dropped = 0
        /\ Popped(queue) = Head(q)
    BY <1>3, <1>5 DEF AfterPop, Popped
  <2>2. q \in Seq(U) /\ outbox \in Seq(U)
    BY <1>1, <1>2
  <2>3. Head(q) = q[1]
    BY <1>1, <2>1
  <2>4. /\ q \o outbox # <<>> /\ Tail(q) \o outbox = Tail(q \o outbox)
        /\ (q \o outbox)[1] = q[1]
    <3> HIDE DEF q, U
    <3> QED  BY <2>1, <2>2
  <2> QED  BY <1>1, <1>3, <1>5, <2>1, <2>3, <2>4, ElementsOfParts DEF Stream
<1> QED  BY <1>4, <1>5

-----------------------------------------------------------------------------
(* The status the screen shows is a reader status: field by field.         *)

ReaderStates == Status!Working \cup Status!Down

Numbers == 1..(MaxPosts + 1)

StatusType == [state : ReaderStates, failed : BOOLEAN, unavailable : BOOLEAN,
               failedAttempt : {0} \cup Numbers, dropped : BOOLEAN]

Reader(s) ==
    [f \in {"state", "failed", "unavailable", "failedAttempt"} |-> s[f]]

(* A status stays one when its state is set, and so is set the state of    *)
(* the reader status it shows; likewise for the other fields.              *)
LEMMA StateField ==
    ASSUME NEW s \in StatusType, NEW x \in ReaderStates
    PROVE  /\ [s EXCEPT !.state = x] \in StatusType
           /\ Reader([s EXCEPT !.state = x]) = [Reader(s) EXCEPT !.state = x]
BY DEF StatusType, Reader

(* The field "failed".                                                     *)
LEMMA FailedField ==
    ASSUME NEW s \in StatusType, NEW b \in BOOLEAN
    PROVE  /\ [s EXCEPT !.failed = b] \in StatusType
           /\ Reader([s EXCEPT !.failed = b]) = [Reader(s) EXCEPT !.failed = b]
BY DEF StatusType, Reader

(* The field "unavailable".                                                *)
LEMMA UnavailableField ==
    ASSUME NEW s \in StatusType, NEW b \in BOOLEAN
    PROVE  /\ [s EXCEPT !.unavailable = b] \in StatusType
           /\ Reader([s EXCEPT !.unavailable = b])
                = [Reader(s) EXCEPT !.unavailable = b]
BY DEF StatusType, Reader

(* The field "failedAttempt".                                              *)
LEMMA AttemptField ==
    ASSUME NEW s \in StatusType, NEW n \in Numbers
    PROVE  /\ [s EXCEPT !.failedAttempt = n] \in StatusType
           /\ Reader([s EXCEPT !.failedAttempt = n])
                = [Reader(s) EXCEPT !.failedAttempt = n]
BY DEF StatusType, Reader

(* The field "dropped", which is no part of the reader status.             *)
LEMMA DroppedField ==
    ASSUME NEW s \in StatusType, NEW b \in BOOLEAN
    PROVE  /\ [s EXCEPT !.dropped = b] \in StatusType
           /\ Reader([s EXCEPT !.dropped = b]) = Reader(s)
BY DEF StatusType, Reader

(* Several fields set at once are set one after the other.                 *)
LEMMA SetsHealthy ==
    ASSUME NEW s \in StatusType, NEW x \in ReaderStates
    PROVE  LET h == [s EXCEPT !.state = x, !.failed = FALSE,
                              !.unavailable = FALSE]
           IN  /\ h \in StatusType /\ h.state = x
               /\ Reader(h) = [Reader(s) EXCEPT !.state = x, !.failed = FALSE,
                                                !.unavailable = FALSE]
<1> DEFINE p == [s EXCEPT !.state = x]
           q == [p EXCEPT !.failed = FALSE]
           h == [q EXCEPT !.unavailable = FALSE]
<1>1. FALSE \in BOOLEAN
  OBVIOUS
<1>2. p \in StatusType /\ Reader(p) = [Reader(s) EXCEPT !.state = x]
  BY StateField
<1>3. q \in StatusType /\ Reader(q) = [Reader(p) EXCEPT !.failed = FALSE]
  <2> HIDE DEF p
  <2> QED  BY <1>1, <1>2, FailedField, Zenon
<1>4. h \in StatusType /\ Reader(h) = [Reader(q) EXCEPT !.unavailable = FALSE]
  <2> HIDE DEF p, q
  <2> QED  BY <1>1, <1>3, UnavailableField, Zenon
<1>5. p.state = x
  BY DEF StatusType
<1>6. q.state = p.state
  <2> HIDE DEF p
  <2> QED  BY <1>2 DEF StatusType
<1>7. h.state = q.state
  <2> HIDE DEF p, q
  <2> QED  BY <1>3 DEF StatusType
<1>8. h = [s EXCEPT !.state = x, !.failed = FALSE, !.unavailable = FALSE]
  BY Zenon
<1> QED  BY <1>2, <1>3, <1>4, <1>5, <1>6, <1>7, <1>8, Zenon

(* A failed initialization sets them all.                                  *)
LEMMA SetsFailure ==
    ASSUME NEW s \in StatusType, NEW u \in BOOLEAN, NEW n \in Numbers
    PROVE  LET f == [s EXCEPT !.state = "Error", !.failed = TRUE,
                              !.unavailable = u, !.failedAttempt = n]
           IN  /\ f \in StatusType
               /\ Reader(f) = [state |-> "Error", failed |-> TRUE,
                               unavailable |-> u, failedAttempt |-> n]
<1> DEFINE t == TRUE
           f == [s EXCEPT !.state = "Error", !.failed = t,
                          !.unavailable = u, !.failedAttempt = n]
<1>1. t \in BOOLEAN /\ "Error" \in ReaderStates
  BY DEF ReaderStates, Status!Down
<1> HIDE DEF t
<1>2. f \in StatusType
  BY <1>1 DEF StatusType
<1>3. /\ f.state = "Error" /\ f.failed = t /\ f.unavailable = u
      /\ f.failedAttempt = n
  BY <1>1 DEF StatusType
<1>4. Reader(f) = [state |-> "Error", failed |-> t, unavailable |-> u,
                   failedAttempt |-> n]
  <2> HIDE DEF f
  <2> QED  BY <1>3 DEF Reader
<1> QED  BY <1>2, <1>4 DEF t

(* ... and when the thread could not be created.                           *)
LEMMA SetsNoThread ==
    ASSUME NEW s \in StatusType
    PROVE  LET f == [s EXCEPT !.state = "Error", !.failed = TRUE,
                              !.failedAttempt = 1]
           IN  /\ f \in StatusType
               /\ Reader(f) = [Reader(s) EXCEPT !.state = "Error",
                                  !.failed = TRUE, !.failedAttempt = 1]
<1> DEFINE p == [s EXCEPT !.state = "Error"]
           q == [p EXCEPT !.failed = TRUE]
           f == [q EXCEPT !.failedAttempt = 1]
<1>1. TRUE \in BOOLEAN /\ "Error" \in ReaderStates /\ 1 \in Numbers
  BY WorkerAssumption DEF ReaderStates, Status!Down, Numbers
<1>2. p \in StatusType /\ Reader(p) = [Reader(s) EXCEPT !.state = "Error"]
  BY <1>1, StateField
<1>3. q \in StatusType /\ Reader(q) = [Reader(p) EXCEPT !.failed = TRUE]
  <2> HIDE DEF p
  <2> QED  BY <1>1, <1>2, FailedField, Zenon
<1>4. /\ f \in StatusType
      /\ Reader(f) = [Reader(q) EXCEPT !.failedAttempt = 1]
  <2> HIDE DEF p, q
  <2> QED  BY <1>1, <1>3, AttemptField, Zenon
<1> QED  BY <1>2, <1>3, <1>4, Zenon

-----------------------------------------------------------------------------
(* What is in an event.                                                    *)

GoodEvent(e, next) ==
    /\ e.type = "State" => e.state \in ReaderStates
    /\ e.type = "InitializationFailed"
         => e.attempt \in Numbers /\ e.unavailable \in BOOLEAN
    /\ e.type = "TagPresented" => e.session \in Nat /\ e.session < next

EventsOK ==
    \A e \in Elements(queue.events) \cup Elements(outbox) :
       GoodEvent(e, presence.nextSession)

ShownType == [id : Nat, present : BOOLEAN, tag : {shown.tag}]

StatusShape ==
    /\ status \in StatusType
    /\ shown \in ShownType
    /\ ui \in Anew \cup {"retry_post"}
         => status.state = "Initializing" /\ ~shown.present
    /\ shown.present => started /\ shown.id < presence.nextSession

(* What an event makes of the status is what the page may be told.         *)
LEMMA EventTold ==
    ASSUME status \in StatusType, NEW e, NEW next, GoodEvent(e, next)
    PROVE  /\ StatusAfter(e) \in StatusType
           /\ \/ Reader(StatusAfter(e)) \in Status!Told(Reader(status))
              \/ Reader(StatusAfter(e)) = Reader(status)
<1>1. ASSUME NEW x \in Status!Working,
             StatusAfter(e) = [status EXCEPT !.state = x, !.failed = FALSE,
                                             !.unavailable = FALSE]
      PROVE  /\ StatusAfter(e) \in StatusType
             /\ Reader(StatusAfter(e)) \in Status!Told(Reader(status))
  <2>1. x \in ReaderStates
    BY DEF ReaderStates
  <2>2. /\ StatusAfter(e) \in StatusType
        /\ Reader(StatusAfter(e)) =
              [Reader(status) EXCEPT !.state = x, !.failed = FALSE,
                                     !.unavailable = FALSE]
    BY <1>1, <2>1, SetsHealthy, Zenon
  <2> QED  BY <2>2, Zenon DEF Status!Told
<1>2. ASSUME NEW x \in Status!Down,
             StatusAfter(e) = [status EXCEPT !.state = x]
      PROVE  /\ StatusAfter(e) \in StatusType
             /\ Reader(StatusAfter(e)) \in Status!Told(Reader(status))
  <2>1. x \in ReaderStates
    BY DEF ReaderStates
  <2>2. /\ StatusAfter(e) \in StatusType
        /\ Reader(StatusAfter(e)) = [Reader(status) EXCEPT !.state = x]
    BY <1>2, <2>1, StateField, Zenon
  <2> QED  BY <2>2, Zenon DEF Status!Told
<1>3. CASE e.type = "State"
  <2>1. e.state \in Status!Working \cup Status!Down
    BY <1>3 DEF GoodEvent, ReaderStates
  <2>2. CASE e.state \in {"Initializing", "Scanning", "Idle"}
    <3>1. e.state \in Status!Working
      BY <2>2 DEF Status!Working
    <3>2. StatusAfter(e) = [status EXCEPT !.state = e.state, !.failed = FALSE,
                                          !.unavailable = FALSE]
      BY <1>3, <2>2, Zenon DEF StatusAfter, StateOf, Healthy
    <3> QED  BY <1>1, <3>1, <3>2
  <2>3. CASE e.state \notin {"Initializing", "Scanning", "Idle"}
    <3>1. e.state \in Status!Down
      BY <2>1, <2>3 DEF Status!Working
    <3>2. StatusAfter(e) = [status EXCEPT !.state = e.state]
      BY <1>3, <2>3 DEF StatusAfter, StateOf
    <3> QED  BY <1>2, <3>1, <3>2
  <2> QED  BY <2>2, <2>3
<1>4. CASE e.type = "Initialized"
  <2>1. "Scanning" \in Status!Working
    BY DEF Status!Working
  <2>2. StatusAfter(e) = [status EXCEPT !.state = "Scanning",
                             !.failed = FALSE, !.unavailable = FALSE]
    BY <1>4 DEF StatusAfter, Healthy
  <2> QED  BY <1>1, <2>1, <2>2
<1>5. CASE e.type = "WorkerError"
  <2>1. "Error" \in Status!Down
    BY DEF Status!Down
  <2>2. StatusAfter(e) = [status EXCEPT !.state = "Error"]
    BY <1>5 DEF StatusAfter
  <2> QED  BY <1>2, <2>1, <2>2
<1>6. CASE e.type = "InitializationFailed"
  <2>1. e.unavailable \in BOOLEAN /\ e.attempt \in Numbers
    BY <1>6 DEF GoodEvent
  <2> DEFINE u == e.unavailable
             n == e.attempt
  <2>2. StatusAfter(e) = [status EXCEPT !.state = "Error", !.failed = TRUE,
                             !.unavailable = u, !.failedAttempt = n]
    BY <1>6 DEF StatusAfter
  <2>3. u \in BOOLEAN /\ n \in Numbers
    BY <2>1
  <2> HIDE DEF u, n
  <2>4. /\ StatusAfter(e) \in StatusType
        /\ Reader(StatusAfter(e)) =
              [state |-> "Error", failed |-> TRUE, unavailable |-> u,
               failedAttempt |-> n]
    <3> DEFINE f == [status EXCEPT !.state = "Error", !.failed = TRUE,
                                   !.unavailable = u, !.failedAttempt = n]
    <3>1. /\ f \in StatusType
          /\ Reader(f) = [state |-> "Error", failed |-> TRUE,
                          unavailable |-> u, failedAttempt |-> n]
      BY <2>3, SetsFailure
    <3> HIDE DEF f
    <3>2. StatusAfter(e) = f
      BY <2>2 DEF f
    <3> QED  BY <3>1, <3>2, Zenon
  <2>5. ASSUME NEW t
        PROVE  [state |-> "Error", failed |-> t, unavailable |-> u,
                failedAttempt |-> n]
                 \in [state : {"Error"}, failed : {t}, unavailable : BOOLEAN,
                     failedAttempt : Numbers]
    BY <2>3
  <2>6. Reader(StatusAfter(e))
          \in [state : {"Error"}, failed : {TRUE}, unavailable : BOOLEAN,
              failedAttempt : Numbers]
    BY <2>4, <2>5, Zenon
  <2> QED  BY <2>4, <2>6, Zenon DEF Status!Told, Numbers
<1>7. CASE e.type = "QueueOverflow"
  <2>1. StatusAfter(e) = [status EXCEPT !.dropped = TRUE]
    BY <1>7 DEF StatusAfter
  <2> QED  BY <2>1, DroppedField, Zenon
<1>8. CASE e.type \notin {"State", "Initialized", "WorkerError",
                          "InitializationFailed", "QueueOverflow"}
  <2>1. StatusAfter(e) = status
    BY <1>8 DEF StatusAfter
  <2> QED  BY <2>1
<1> QED  BY <1>3, <1>4, <1>5, <1>6, <1>7, <1>8

(* The numbers handed out to tag sessions only grow while a thread runs.   *)
LEMMA HandlerHandsOut ==
    ASSUME RestInv, Handler
    PROVE  /\ presence.nextSession \in Nat /\ presence'.nextSession \in Nat
           /\ presence.nextSession <= presence'.nextSession
<1>1. presence \in PresenceType /\ presence' \in PresenceType
  BY ThreadTells DEF Handler, RestInv, ToldSoFar
<1>2. presence.nextSession \in Nat /\ presence'.nextSession \in Nat
  BY <1>1 DEF PresenceType
<1>3. \/ presence' = presence
      \/ ClearPresence
      \/ Poll
  BY DEF Handler, AwakeSteps, InitBegin, OpenSucceeds, OpenFails, OpenReturns,
     OpenCancelled, LoopTop, TakeRetry, RememberScanning, ScanningOn,
     ScanningOff, ScanningFails, GiveUpReader, ScanningCancelled, NoCommand,
     PollFails, PollCancelled, UnexpectedFailure, Exit, Close, End, Wait,
     SpuriousWakeup, Move, hardware
<1>4. CASE ClearPresence
  BY <1>2, <1>4 DEF ClearPresence, NoPresence
<1>5. CASE Poll
  <2>1. CASE ObserveNothing
    BY <1>1, <1>2, <2>1 DEF ObserveNothing, PresenceType
  <2>2. ASSUME NEW dt, ObserveNoTag(dt)
        PROVE  presence'.nextSession = presence.nextSession
    <3>1. CASE ClearPresence
      BY <3>1 DEF ClearPresence, NoPresence
    <3>2. CASE presence' = WithoutCandidate
      BY <1>1, <3>2 DEF WithoutCandidate, PresenceType
    <3>3. CASE presence' = [WithoutCandidate EXCEPT
                              !.noTags = AtMost(RemoveConfirmations, @ + 1),
                              !.noTagAge = AgeAfter(dt)]
      BY <1>1, <3>3 DEF WithoutCandidate, PresenceType
    <3> QED  BY <2>2, <3>1, <3>2, <3>3 DEF ObserveNoTag
  <2>3. ASSUME NEW t, ObserveTag(t)
        PROVE  presence'.nextSession \in
                 {presence.nextSession, presence.nextSession + 1}
    BY <1>1, <2>3 DEF ObserveTag, ObservePresentTag, ObserveCandidate,
       ObserveConfirmed, WithoutCandidate, NoPresence, PresenceType
  <2> QED  BY <1>2, <1>5, <2>1, <2>2, <2>3 DEF Poll
<1> QED  BY <1>2, <1>3, <1>4, <1>5

(* The events handlers push are good.                                      *)
LEMMA EventsOfHandlers ==
    ASSUME NEW n
    PROVE  /\ \A x \in ReaderStates : GoodEvent(State(x), n)
           /\ GoodEvent(Initialized, n)
           /\ \A r : GoodEvent(WorkerError(r), n)
           /\ \A e : e.type = "TagRemoved" => GoodEvent(e, n)
           /\ \A s, t : GoodEvent(TagUpdated(s, t), n)
BY DEF GoodEvent, State, Initialized, WorkerError, TagUpdated

(* A session that a poll presents has a number already handed out.         *)
LEMMA PollGood ==
    ASSUME RestInv, Poll
    PROVE  \A e \in Elements(outbox') : GoodEvent(e, presence'.nextSession)
<1> DEFINE n == presence'.nextSession
<1>1. CASE outbox' = <<>>
  BY <1>1, ElementsOfSequences
<1>2. CASE outbox' = Removal
  BY <1>2, RemovalShape, ElementsOfSequences, EventsOfHandlers
<1>3. ASSUME NEW s, NEW t, outbox' = <<TagUpdated(s, t)>>
      PROVE  \A e \in Elements(outbox') : GoodEvent(e, n)
  BY <1>3, ElementsOfSequences, EventsOfHandlers
<1>4. ASSUME NEW t, ObserveConfirmed(t)
      PROVE  \A e \in Elements(outbox') : GoodEvent(e, n)
  <2> DEFINE p == TagPresented(presence.nextSession, t)
  <2>1. outbox' = Removal \o <<p>> /\ n = presence.nextSession + 1
    BY <1>4 DEF ObserveConfirmed, NoPresence
  <2>2. presence.nextSession \in Nat
    BY DEF RestInv, ToldSoFar, PresenceType
  <2>3. GoodEvent(p, n)
    BY <2>1, <2>2 DEF GoodEvent, TagPresented
  <2> HIDE DEF p
  <2>4. CASE Removal = <<>>
    BY <2>1, <2>3, <2>4, Concatenations, ElementsOfSequences
  <2>5. ASSUME NEW e, Removal = <<e>>, e.type = "TagRemoved"
        PROVE  \A f \in Elements(outbox') : GoodEvent(f, n)
    <3>1. outbox' = <<e, p>>
      BY <2>1, <2>5, Concatenations
    <3> QED  BY <2>3, <2>5, <3>1, ElementsOfSequences, EventsOfHandlers
  <2> QED  BY <2>4, <2>5, RemovalShape
<1> QED  BY <1>1, <1>2, <1>3, <1>4
         DEF Poll, ObserveNothing, ObserveNoTag, ObserveTag,
             ObservePresentTag, ObserveCandidate

(* Every handler leaves good events only; a failed initialization is told  *)
(* under the number of an attempt.                                         *)
LEMMA HandlerGood ==
    ASSUME RestInv, AttemptOK, Handler
    PROVE  \A e \in Elements(outbox') : GoodEvent(e, presence'.nextSession)
<1> DEFINE n == presence'.nextSession
           Good(s) == \A e \in Elements(s) : GoodEvent(e, n)
<1>1. /\ \A x \in ReaderStates : GoodEvent(State(x), n)
      /\ GoodEvent(Initialized, n)
      /\ \A r : GoodEvent(WorkerError(r), n)
      /\ \A e : e.type = "TagRemoved" => GoodEvent(e, n)
  BY EventsOfHandlers
<1>2. {"Initializing", "Scanning", "Idle", "Error", "Stopping", "Stopped"}
        = ReaderStates
  BY DEF ReaderStates, Status!Working, Status!Down
<1>3. /\ Good(<<>>)
      /\ \A x \in ReaderStates : Good(<<State(x)>>)
      /\ \A e, x : GoodEvent(e, n) /\ x \in ReaderStates
                     => Good(<<e, State(x)>>)
  BY <1>1, ElementsOfSequences
<1>4. ASSUME NEW x \in ReaderStates
      PROVE  /\ Good(<<State(x)>> \o Removal)
             /\ Good(Removal \o <<State(x)>>)
             /\ \A r : Good(<<WorkerError(r)>> \o Removal \o <<State(x)>>)
  <2>1. CASE Removal = <<>>
    <3>1. /\ <<State(x)>> \o Removal = <<State(x)>>
          /\ Removal \o <<State(x)>> = <<State(x)>>
      BY <2>1, Concatenations
    <3>2. \A r : <<WorkerError(r)>> \o Removal \o <<State(x)>>
                   = <<WorkerError(r), State(x)>>
      BY <2>1, Concatenations
    <3> HIDE DEF Good
    <3> QED  BY <1>1, <1>3, <3>1, <3>2
  <2>2. ASSUME NEW e, Removal = <<e>>, e.type = "TagRemoved"
        PROVE  /\ Good(<<State(x)>> \o Removal)
               /\ Good(Removal \o <<State(x)>>)
               /\ \A r : Good(<<WorkerError(r)>> \o Removal \o <<State(x)>>)
    <3>1. /\ <<State(x)>> \o Removal = <<State(x), e>>
          /\ Removal \o <<State(x)>> = <<e, State(x)>>
      BY <2>2, Concatenations
    <3>2. ASSUME NEW r
          PROVE  <<WorkerError(r)>> \o Removal \o <<State(x)>>
                   = <<WorkerError(r), e, State(x)>>
      <4>1. <<WorkerError(r)>> \o <<e>> = <<WorkerError(r), e>>
        BY Concatenations
      <4>2. <<WorkerError(r), e>> \o <<State(x)>>
              = <<WorkerError(r), e, State(x)>>
        BY Concatenations
      <4> QED  BY <2>2, <4>1, <4>2
    <3>3. /\ GoodEvent(State(x), n) /\ GoodEvent(e, n)
          /\ \A r : GoodEvent(WorkerError(r), n)
      BY <1>1, <2>2
    <3>4. \A f, g : GoodEvent(f, n) /\ GoodEvent(g, n) => Good(<<f, g>>)
      BY ElementsOfSequences
    <3>5. \A f, g, h : GoodEvent(f, n) /\ GoodEvent(g, n) /\ GoodEvent(h, n)
                         => Good(<<f, g, h>>)
      BY ElementsOfSequences
    <3> HIDE DEF Good
    <3> QED  BY <3>1, <3>2, <3>3, <3>4, <3>5
  <2> QED  BY <2>1, <2>2, RemovalShape
<1>5. outbox = <<>>
  BY HandlerRuns
<1> HIDE DEF Good
<1>6. CASE Poll
  BY <1>6, PollGood DEF Good
<1>7. CASE InitBegin
  <2>1. outbox' = <<State("Initializing")>> \o Removal
    BY <1>7 DEF InitBegin, InitEvents
  <2> QED  BY <1>2, <1>4, <2>1 DEF Good
<1>8. CASE OpenSucceeds
  <2>1. \/ outbox' = <<Initialized, State("Scanning")>>
        \/ outbox' = <<Initialized, State("Idle")>>
    BY <1>8 DEF OpenSucceeds
  <2> QED  BY <1>1, <1>2, <1>3, <2>1 DEF Good
<1>9. CASE OpenFails
  <2>1. PICK u \in BOOLEAN :
          outbox' = <<InitializationFailed(attempt, u), State("Error")>>
    BY <1>9 DEF OpenFails
  <2>2. attempt \in Numbers
    <3>1. thread = "open"
      BY <1>9 DEF OpenFails, OpenReturns, At
    <3> QED
      BY <3>1, WorkerAssumption
      DEF RestInv, PlacesOK, FlagsOK, AttemptOK, Numbers
  <2>3. GoodEvent(InitializationFailed(attempt, u), n)
    BY <2>2 DEF GoodEvent, InitializationFailed
  <2> QED  BY <1>2, <1>3, <2>1, <2>3 DEF Good
<1>10. CASE ScanningOn \/ Close
  <2>1. \E x \in ReaderStates : outbox' = <<State(x)>>
    BY <1>2, <1>10 DEF ScanningOn, Close
  <2> QED  BY <1>3, <2>1 DEF Good
<1>11. CASE ScanningOff
  <2>1. outbox' = Removal \o <<State("Idle")>>
    BY <1>11 DEF ScanningOff
  <2> QED  BY <1>2, <1>4, <2>1 DEF Good
<1>12. CASE ScanningFails \/ PollFails
  <2>1. outbox' = <<WorkerError(TRUE)>> \o Removal \o <<State("Error")>>
    BY <1>12 DEF ScanningFails, PollFails, GiveUpReader
  <2> QED  BY <1>2, <1>4, <2>1 DEF Good
<1>13. CASE Exit
  <2>1. outbox' = <<State("Stopping")>> \o Removal
    BY <1>13 DEF Exit, ExitEvents
  <2> QED  BY <1>2, <1>4, <2>1 DEF Good
<1>14. CASE UnexpectedFailure
  <2>1. outbox' \in {<<>>, <<WorkerError(FALSE), State("Error")>>}
    BY <1>14 DEF UnexpectedFailure
  <2> QED  BY <1>1, <1>2, <1>3, <2>1 DEF Good
<1>15. CASE OpenCancelled \/ LoopTop \/ TakeRetry \/ RememberScanning
            \/ ScanningCancelled \/ NoCommand \/ PollCancelled \/ End \/ Wait
            \/ SpuriousWakeup
  <2>1. outbox' = <<>>
    BY <1>5, <1>15
    DEF OpenCancelled, LoopTop, TakeRetry, RememberScanning, ScanningCancelled,
        NoCommand, PollCancelled, End, Wait, SpuriousWakeup, Move, hardware
  <2> QED  BY <1>3, <2>1 DEF Good
<1> QED
  BY <1>6, <1>7, <1>8, <1>9, <1>10, <1>11, <1>12, <1>13, <1>14, <1>15
  DEF Handler, AwakeSteps, Good

(* An event stays good while session numbers are handed out.               *)
LEMMA LaterIsGood ==
    ASSUME NEW m \in Nat, NEW n \in Nat, m <= n, NEW e, GoodEvent(e, m)
    PROVE  GoodEvent(e, n)
BY DEF GoodEvent

(* EventsOK when the hardware thread moves ...                             *)
LEMMA WorkerEvents ==
    ASSUME RestInv, AttemptOK, EventsOK, Handler \/ Push
    PROVE  EventsOK'
<1> DEFINE n == presence.nextSession
<1>1. CASE Push
  <2>1. /\ Elements(queue'.events)
             \subseteq Elements(queue.events) \cup Elements(outbox)
        /\ Elements(outbox') \subseteq Elements(outbox)
    BY <1>1, PushMoves
  <2>2. presence' = presence
    BY <1>1, PushRuns
  <2> QED  BY <2>1, <2>2 DEF EventsOK
<1>2. CASE Handler
  <2>1. n \in Nat /\ n' \in Nat /\ n <= n'
    BY <1>2, HandlerHandsOut
  <2>2. \A e \in Elements(outbox') : GoodEvent(e, n')
    BY <1>2, HandlerGood
  <2>3. queue' = queue
    BY <1>2, HandlerRuns
  <2>4. \A e \in Elements(queue.events) : GoodEvent(e, n')
    BY <2>1, LaterIsGood DEF EventsOK
  <2> QED  BY <2>2, <2>3, <2>4 DEF EventsOK
<1> QED  BY <1>1, <1>2

(* ... and when the UI thread does.                                        *)
LEMMA UiEvents ==
    ASSUME RestInv, UiPlaceOK, EventsOK, UiSteps
    PROVE  EventsOK'
<1>1. CASE WorkerStarted
  <2>1. queue' = EmptyQueue /\ outbox' = <<>>
    BY <1>1, WorkerStartsFresh
  <2> QED  BY <2>1, ElementsOfSequences DEF EventsOK, EmptyQueue
<1>2. CASE ~WorkerStarted
  <2>1. UNCHANGED <<presence, outbox>>
    BY <1>2, UiLeavesHardware DEF hardware
  <2>2. Elements(queue'.events) \subseteq Elements(queue.events)
    <3>1. CASE TickEvent
      BY <3>1, PopMoves DEF TickEvent
    <3>2. CASE WorkerStarts
      <4>1. queue' = queue \/ queue' = EmptyQueue
        BY <3>2 DEF WorkerStarts, StartJoin, StartEvents, EventsCleared
      <4> QED  BY <4>1, ElementsOfSequences DEF EmptyQueue
    <3>3. CASE ~TickEvent /\ ~WorkerStarts
      BY <1>2, <3>3
      DEF UiSteps, UserActs, UiContinues, ModelStart, Start, ModelStop, Stop,
          ModelRetry, WorkerStops, StopNotify, NotifyAndGo, WorkerStopped,
          StopJoin, RetryStarts, RetryPosted, PostRetryAgain, PostCommand,
          Accept, RetryReturns, Notify, RetryRefused, TickBegin, TickEnd, vars
    <3> QED  BY <3>1, <3>2, <3>3
  <2> QED  BY <2>1, <2>2 DEF EventsOK
<1> QED  BY <1>1, <1>2

-----------------------------------------------------------------------------
(* What is shown.                                                          *)

(* StatusShape when the hardware thread moves.                             *)
LEMMA WorkerShape ==
    ASSUME RestInv, StatusShape, Handler \/ Push, UNCHANGED modelVars
    PROVE  StatusShape'
<1>1. /\ presence.nextSession \in Nat /\ presence'.nextSession \in Nat
      /\ presence.nextSession <= presence'.nextSession
  <2>1. CASE Push
    BY <2>1, PushRuns DEF RestInv, ToldSoFar, PresenceType
  <2> QED  BY <2>1, HandlerHandsOut
<1>2. UNCHANGED <<started, status, shown, ui>>
  BY DEF modelVars
<1>3. shown.id \in Nat
  BY DEF StatusShape, ShownType
<1>4. shown.present => shown.id < presence'.nextSession
  BY <1>1, <1>3 DEF StatusShape
<1> QED  BY <1>2, <1>4 DEF StatusShape, ShownType

(* A tag that is hidden is not shown.                                      *)
LEMMA HiddenTag ==
    ASSUME shown \in ShownType, HideTag
    PROVE  shown' \in ShownType' /\ ~shown'.present
BY DEF ShownType, HideTag

(* What an event makes of the tag shown.                                   *)
LEMMA EventShown ==
    ASSUME shown \in ShownType, NEW e, NEW n, GoodEvent(e, n),
           shown.present => shown.id < n,
           shown' = ShownAfter(e)
    PROVE  shown' \in ShownType' /\ (shown'.present => shown'.id < n)
<1> USE DEF ShownAfter
<1>1. CASE e.type = "TagPresented"
  <2>1. shown' = [id |-> e.session, present |-> TRUE, tag |-> e.tag]
    BY <1>1
  <2>2. e.session \in Nat /\ e.session < n
    BY <1>1 DEF GoodEvent
  <2>3. ASSUME NEW b \in BOOLEAN, shown' = [id |-> e.session, present |-> b,
                                            tag |-> e.tag]
        PROVE  shown' \in ShownType' /\ shown'.id = e.session
    BY <2>2, <2>3 DEF ShownType
  <2>4. shown' \in ShownType' /\ shown'.id = e.session
    BY <2>1, <2>3
  <2> QED  BY <2>2, <2>4
<1>2. CASE /\ e.type = "TagUpdated"
           /\ shown.present /\ shown.id = e.session
  <2>1. shown' = [shown EXCEPT !.tag = e.tag]
    BY <1>2
  <2> QED  BY <1>2, <2>1 DEF ShownType
<1>3. CASE e.type = "TagRemoved" /\ shown.id = e.session
  <2>1. shown' = [shown EXCEPT !.present = FALSE, !.tag = e.tag]
    BY <1>3 DEF Removed
  <2> QED  BY <2>1 DEF ShownType
<1>4. CASE /\ e.type # "TagPresented"
           /\ ~(e.type = "TagUpdated" /\ shown.present /\ shown.id = e.session)
           /\ ~(e.type = "TagRemoved" /\ shown.id = e.session)
  <2>1. shown' = shown
    BY <1>4
  <2> QED  BY <2>1 DEF ShownType
<1> QED  BY <1>1, <1>2, <1>3, <1>4

(* Neither is any when start() resets the page.                            *)
LEMMA NothingShownIsShown ==
    ASSUME shown' = NothingShown
    PROVE  shown' \in ShownType' /\ ~shown'.present
BY DEF NothingShown, ShownType

(* The event a tick reads is as good as those queued.                      *)
LEMMA TickReadsGood ==
    ASSUME RestInv, EventsOK, TickEvent
    PROVE  GoodEvent(Popped(queue), presence.nextSession)
<1>1. CASE queue.dropped # 0
  <2>1. Popped(queue).type = "QueueOverflow"
    BY <1>1, PopMoves DEF TickEvent
  <2> QED  BY <2>1 DEF GoodEvent
<1>2. CASE queue.dropped = 0
  <2>1. Popped(queue) \in Elements(queue.events)
    BY <1>2, PopMoves DEF TickEvent
  <2> QED  BY <2>1 DEF EventsOK
<1> QED  BY <1>1, <1>2

(* StatusShape when the UI thread moves.                                   *)
LEMMA UiShape ==
    ASSUME RestInv, UiPlaceOK, EventsOK, StatusShape, UiSteps
    PROVE  StatusShape'
<1> DEFINE n == presence.nextSession
<1>1. /\ status \in StatusType /\ shown \in ShownType
      /\ ui \in Anew \cup {"retry_post"}
           => status.state = "Initializing" /\ ~shown.present
      /\ shown.present => started /\ shown.id < n
      /\ ~started => ui = "idle"
  BY DEF StatusShape, UiPlaceOK
<1>2. {"Initializing", "Stopped", "Error"} \subseteq ReaderStates
  BY DEF ReaderStates, Status!Working, Status!Down
<1>3. shown' = shown => shown' \in ShownType'
  BY <1>1 DEF ShownType
<1>4. ~WorkerStarted => presence' = presence
  BY UiLeavesHardware DEF hardware
<1> USE DEF Ui
<1>5. CASE ModelStart
  <2>1. shown' \in ShownType' /\ ~shown'.present
    BY <1>5, NothingShownIsShown DEF ModelStart
  <2>2. status' \in StatusType /\ status'.state = "Initializing"
    <3>1. ASSUME NEW b \in BOOLEAN
          PROVE  [state |-> "Initializing", failed |-> b, unavailable |-> b,
                  failedAttempt |-> 0, dropped |-> b] \in StatusType
      BY <1>2 DEF StatusType
    <3>2. status' = [state |-> "Initializing", failed |-> FALSE,
                     unavailable |-> FALSE, failedAttempt |-> 0,
                     dropped |-> FALSE]
      BY <1>5 DEF ModelStart
    <3> QED  BY <3>1, <3>2
  <2> QED  BY <2>1, <2>2 DEF StatusShape
<1>6. CASE WorkerStarts \/ WorkerStops
  <2>1. UNCHANGED <<started, status, shown, ui>> /\ ~WorkerStarted
    BY <1>6 DEF WorkerStarts, WorkerStops, WorkerStarted, modelVars, Anew
  <2> QED  BY <1>1, <1>3, <1>4, <2>1 DEF StatusShape
<1>7. CASE WorkerStarted
  <2>1. shown' = shown /\ started' = started /\ ui' = "idle" /\ ui \in Anew
    BY <1>7 DEF WorkerStarted, Anew
  <2>2. status' \in StatusType
    <3>1. [status EXCEPT !.state = "Error"] \in StatusType
      BY <1>1, <1>2, StateField
    <3>2. [status EXCEPT !.state = "Error", !.failed = TRUE,
                         !.failedAttempt = 1] \in StatusType
      BY <1>1, SetsNoThread
    <3> QED  BY <1>1, <1>7, <3>1, <3>2 DEF WorkerStarted
  <2> QED  BY <1>1, <1>3, <2>1, <2>2 DEF StatusShape, Anew
<1>8. CASE WorkerStopped
  <2>1. shown' \in ShownType' /\ ~shown'.present
    BY <1>1, <1>8, HiddenTag DEF WorkerStopped
  <2>2. status' \in StatusType
    BY <1>1, <1>2, <1>8, StateField DEF WorkerStopped
  <2>3. ui' = "idle"
    BY <1>8 DEF WorkerStopped
  <2> QED  BY <2>1, <2>2, <2>3 DEF StatusShape, Anew
<1>9. CASE ModelRetry
  <2>1. shown' \in ShownType' /\ ~shown'.present
    BY <1>1, <1>9, HiddenTag DEF ModelRetry
  <2>2. status' \in StatusType /\ status'.state = "Initializing"
    BY <1>1, <1>2, <1>9, SetsHealthy DEF ModelRetry
  <2> QED  BY <2>1, <2>2 DEF StatusShape
<1>10. CASE TickEvent
  <2> DEFINE e == Popped(queue)
  <2>1. GoodEvent(e, n)
    BY <1>10, TickReadsGood
  <2>2. /\ status' = StatusAfter(e) /\ shown' = ShownAfter(e)
        /\ ui' = "tick" /\ ui = "tick" /\ started' = started
    BY <1>10 DEF TickEvent
  <2> HIDE DEF e
  <2>3. status' \in StatusType
    BY <1>1, <2>1, <2>2, EventTold
  <2>4. shown' \in ShownType' /\ (shown'.present => shown'.id < n)
    BY <1>1, <2>1, <2>2, EventShown
  <2>5. started /\ presence' = presence
    BY <1>1, <1>4, <2>2 DEF WorkerStarted
  <2> QED  BY <2>2, <2>3, <2>4, <2>5 DEF StatusShape, Anew
<1>11. CASE ModelStop \/ RetryStarts \/ RetryPosted \/ RetryReturns
            \/ TickBegin \/ TickEnd
  <2>1. /\ UNCHANGED <<started, status, shown>> /\ ~WorkerStarted
        /\ ui' \in Anew \cup {"retry_post"} => ui \in Anew \cup {"retry_post"}
    BY <1>11 DEF ModelStop, RetryStarts, RetryPosted, RetryReturns, TickBegin,
                 TickEnd, WorkerStarted, Anew
  <2> QED  BY <1>1, <1>3, <1>4, <2>1 DEF StatusShape
<1>12. CASE RetryRefused
  <2>1. shown' = shown /\ started' = started /\ ui' = "idle" /\ ~WorkerStarted
    BY <1>12 DEF RetryRefused, WorkerStarted
  <2>2. status' \in StatusType
    BY <1>1, <1>2, <1>12, StateField DEF RetryRefused
  <2> QED  BY <1>1, <1>3, <1>4, <2>1, <2>2 DEF StatusShape, Anew
<1> QED  BY <1>5, <1>6, <1>7, <1>8, <1>9, <1>10, <1>11, <1>12
         DEF UiSteps, UserActs, UiContinues

ModelOK ==
    /\ RestInv
    /\ UiPlaceOK /\ RunOK /\ ThreadKnows /\ AttemptOK
    /\ EventsOK /\ StatusShape

(* ModelOK is inductive: it holds at the start ...                         *)
LEMMA ModelBegins == ModelInit => ModelOK
<1> SUFFICES ASSUME ModelInit
             PROVE  ModelOK
  OBVIOUS
<1> USE DEF ModelInit, Init
<1>1. RestInv
  BY RestInit
<1>2. UiPlaceOK /\ RunOK
  BY ModelAssumption DEF UiPlaceOK, RunOK, Over, Preparing
<1>3. ThreadKnows
  BY DEF ThreadKnows
<1>4. AttemptOK
  BY DEF AttemptOK, RetryQueued
<1>5. EventsOK
  BY ElementsOfSequences DEF EventsOK, EmptyQueue
<1>6. StatusShape
  <2>1. "Stopped" \in ReaderStates
    BY DEF ReaderStates, Status!Down
  <2>2. ASSUME NEW b \in BOOLEAN
        PROVE  [state |-> "Stopped", failed |-> b, unavailable |-> b,
                failedAttempt |-> 0, dropped |-> b] \in StatusType
    BY <2>1 DEF StatusType
  <2>3. status \in StatusType
    BY <2>2
  <2>4. shown \in ShownType /\ ~shown.present
    BY DEF NothingShown, ShownType
  <2> QED  BY <2>3, <2>4 DEF StatusShape, Anew
<1> QED  BY <1>1, <1>2, <1>3, <1>4, <1>5, <1>6 DEF ModelOK

(* ... and is kept by every step ...                                       *)
LEMMA ModelGoesOn == ModelOK /\ [ModelNext]_allVars => ModelOK'
<1> SUFFICES ASSUME ModelOK, [ModelNext]_allVars
             PROVE  ModelOK'
  OBVIOUS
<1> USE DEF ModelOK
<1>1. RestInv'
  BY ModelUsesWorker, StepRests
<1>2. CASE UNCHANGED allVars
  <2>1. /\ UNCHANGED modelVars
        /\ UNCHANGED <<caller, thread, running, stopRequested, commands>>
        /\ UNCHANGED <<presence, outbox, queue, attempt, posts>>
        /\ UNCHANGED <<initialized, scanRequested>>
    BY <1>2 DEF allVars, vars, callerVars, flagVars, hardware, locals,
                countVars, historyVars
  <2>2. UiPlaceOK' /\ RunOK' /\ ThreadKnows'
    BY <2>1 DEF UiPlaceOK, RunOK, ThreadKnows, modelVars
  <2>3. AttemptOK'
    BY <2>1 DEF AttemptOK, RetryQueued
  <2>4. EventsOK' /\ StatusShape'
    BY <2>1 DEF EventsOK, StatusShape, ShownType, modelVars
  <2> QED  BY <1>1, <2>2, <2>3, <2>4
<1>3. CASE UiSteps
  <2>1. CallersOK
    BY DEF RestInv, RetryInv, LifecycleInv
  <2> QED  BY <1>1, <1>3, <2>1, UiKeepsPlace, UiRuns, UiKnows, UiCounts,
              UiEvents, UiShape
<1>4. CASE (Handler \/ Push) /\ UNCHANGED modelVars
  <2>1. UiPlaceOK'
    <3>1. caller' = caller
      BY <1>4, HandlerRuns, PushRuns
    <3> QED  BY <1>4, <3>1 DEF UiPlaceOK, modelVars
  <2>2. RunOK' /\ ThreadKnows' /\ AttemptOK'
    BY <1>4, WorkerRuns, HandlerKnows, PushKnows, HandlerCounts, PushCounts
  <2>3. EventsOK' /\ StatusShape'
    BY <1>4, WorkerEvents, WorkerShape
  <2> QED  BY <1>1, <2>1, <2>2, <2>3
<1> QED  BY <1>2, <1>3, <1>4, ModelCases

(* ... so it holds always.                                                 *)
LEMMA ModelStaysOK == ModelSpec => []ModelOK
<1>1. ModelInit => ModelOK
  BY ModelBegins
<1>2. ModelOK /\ [ModelNext]_allVars => ModelOK'
  BY ModelGoesOn
<1> QED  BY <1>1, <1>2, PTL DEF ModelSpec

-----------------------------------------------------------------------------
(* A step of the UI thread changes the reader status as ReaderStatus       *)
(* allows, or not at all.                                                  *)
LEMMA ModelShowsStatus ==
    ASSUME ModelOK, UiSteps
    PROVE  \/ Status!StatusNext
           \/ Reader(status') = Reader(status)
<1> DEFINE r == Reader(status)
<1>1. /\ status \in StatusType
      /\ ui \in Anew => status.state = "Initializing"
  BY DEF ModelOK, StatusShape
<1>2. {"Initializing", "Stopped", "Error"} \subseteq ReaderStates
  BY DEF ReaderStates, Status!Working, Status!Down
<1>3. r.state = status.state /\ r.unavailable = status.unavailable
  BY DEF Reader
<1>4. CASE ModelStart
  <2> DEFINE b == FALSE
  <2>1. status' = [state |-> "Initializing", failed |-> b, unavailable |-> b,
                   failedAttempt |-> 0, dropped |-> b]
    BY <1>4 DEF ModelStart
  <2>2. Status!Starting = [state |-> "Initializing", failed |-> b,
                           unavailable |-> b, failedAttempt |-> 0]
    <3> HIDE DEF b
    <3>1. [[state |-> "Stopped", failed |-> b, unavailable |-> b,
            failedAttempt |-> 0] EXCEPT !.state = "Initializing"]
            = [state |-> "Initializing", failed |-> b, unavailable |-> b,
               failedAttempt |-> 0]
      OBVIOUS
    <3> QED  BY <3>1 DEF Status!Starting, Status!NotStarted, b
  <2> HIDE DEF b
  <2>3. Reader(status') = [state |-> "Initializing", failed |-> b,
                           unavailable |-> b, failedAttempt |-> 0]
    BY <2>1 DEF Reader
  <2>4. Reader(status') = Status!Starting
    BY <2>2, <2>3
  <2> QED  BY <2>4 DEF Status!StatusNext, Reader
<1>5. CASE WorkerStarted
  <2>1. status.state = "Initializing"
    BY <1>1, <1>5 DEF WorkerStarted, Ui, Anew
  <2>2. CASE status' = status
    BY <2>2
  <2>3. CASE status' = [status EXCEPT !.state = "Error", !.failed = TRUE,
                                      !.failedAttempt = 1]
    <3>1. Reader(status') = Status!NoThread(r)
      BY <1>1, <2>3, SetsNoThread DEF Status!NoThread
    <3> QED  BY <1>3, <2>1, <3>1 DEF Status!StatusNext, Reader
  <2>4. CASE status' = [status EXCEPT !.state = "Error"]
    <3>1. Reader(status') = Status!Refused(r)
      BY <1>1, <1>2, <2>4, StateField DEF Status!Refused
    <3> QED  BY <1>3, <2>1, <3>1 DEF Status!StatusNext, Reader
  <2> QED  BY <1>5, <2>2, <2>3, <2>4 DEF WorkerStarted
<1>6. CASE WorkerStopped
  <2>1. Reader(status') = Status!Halted(r)
    BY <1>1, <1>2, <1>6, StateField DEF WorkerStopped, Status!Halted
  <2> QED  BY <2>1 DEF Status!StatusNext, Reader
<1>7. CASE ModelRetry
  <2>1. Reader(status') = Status!Retrying(r)
    BY <1>1, <1>2, <1>7, SetsHealthy DEF ModelRetry, Status!Retrying
  <2>2. Status!MayRetry(r)
    BY <1>3, <1>7 DEF ModelRetry, CanRetry, Status!MayRetry
  <2> QED  BY <2>1, <2>2 DEF Status!StatusNext, Reader
<1>8. CASE TickEvent
  <2> DEFINE e == Popped(queue)
  <2>1. GoodEvent(e, presence.nextSession)
    BY <1>8, TickReadsGood DEF ModelOK
  <2>2. status' = StatusAfter(e)
    BY <1>8 DEF TickEvent
  <2> HIDE DEF e
  <2>3. Reader(status') \in Status!Told(r) \/ Reader(status') = r
    BY <1>1, <2>1, <2>2, EventTold
  <2> QED  BY <2>3 DEF Status!StatusNext, Reader
<1>9. CASE RetryRefused
  <2>1. status.state = "Initializing"
    BY <1>9 DEF RetryRefused, Ui, ModelOK, StatusShape
  <2>2. Reader(status') = Status!Refused(r)
    BY <1>1, <1>2, <1>9, StateField DEF RetryRefused, Status!Refused
  <2> QED  BY <1>3, <2>1, <2>2 DEF Status!StatusNext, Reader
<1>10. CASE WorkerStarts \/ WorkerStops \/ ModelStop \/ RetryStarts
            \/ RetryPosted \/ RetryReturns \/ TickBegin \/ TickEnd
  <2>1. status' = status
    BY <1>10 DEF WorkerStarts, WorkerStops, ModelStop, RetryStarts,
       RetryPosted, RetryReturns, TickBegin, TickEnd, modelVars
  <2> QED  BY <2>1
<1> QED  BY <1>4, <1>5, <1>6, <1>7, <1>8, <1>9, <1>10
         DEF UiSteps, UserActs, UiContinues

(* NfcModel implements ReaderStatus, for any number of initializations and *)
(* any capacity of the queue, and whatever events were dropped: start,     *)
(* stop, retry and tick change the reader status in the ways NfcViewModel  *)
(* was checked against and in no other, however far behind the events the  *)
(* UI thread reads are.                                                    *)
THEOREM ModelImplementsStatus == ModelSpec => ImplementsReaderStatus
<1>1. ModelInit => Status!StatusInit
  <2> SUFFICES ASSUME ModelInit
               PROVE  Status!StatusInit
    OBVIOUS
  <2> DEFINE b == FALSE
  <2>1. status = [state |-> "Stopped", failed |-> b, unavailable |-> b,
                  failedAttempt |-> 0, dropped |-> b]
    BY DEF ModelInit
  <2> HIDE DEF b
  <2>2. Reader(status) = [state |-> "Stopped", failed |-> b,
                          unavailable |-> b, failedAttempt |-> 0]
    BY <2>1 DEF Reader
  <2> QED  BY <2>2 DEF Status!StatusInit, Status!NotStarted, Reader, b
<1>2. ModelOK /\ [ModelNext]_allVars
        => \/ Status!StatusNext
           \/ UNCHANGED [f \in {"state", "failed", "unavailable",
                                "failedAttempt"} |-> status[f]]
  <2> SUFFICES ASSUME ModelOK, [ModelNext]_allVars
               PROVE  \/ Status!StatusNext
                      \/ Reader(status') = Reader(status)
    BY DEF Reader
  <2>1. CASE UNCHANGED allVars \/ UNCHANGED modelVars
    BY <2>1 DEF allVars, modelVars
  <2> QED  BY <2>1, ModelShowsStatus, ModelCases
<1> QED  BY <1>1, <1>2, ModelStaysOK, PTL
         DEF ModelSpec, ImplementsReaderStatus, Status!StatusSpec

-----------------------------------------------------------------------------
(* The state that is shown.                                                *)

(* An event that does not change the reader's state.                       *)
Mute(e) ==
    e.type \notin {"State", "Initialized", "InitializationFailed",
                   "WorkerError"}

Silent(s) == \A i \in 1..Len(s) : Mute(s[i])

(* The last word of s on the reader's state is x.                          *)
EndsIn(s, x) ==
    \E i \in 1..Len(s) :
       /\ s[i].type = "State" /\ s[i].state = x
       /\ \A j \in 1..Len(s) : j > i => Mute(s[j])

(* Where the events of two sequences are when one follows the other.       *)
LEMMA Joined ==
    ASSUME NEW S, NEW q \in Seq(S), NEW o \in Seq(S)
    PROVE  /\ Len(q \o o) = Len(q) + Len(o)
           /\ Len(q) \in Nat /\ Len(o) \in Nat
           /\ \A i \in 1..Len(q) :
                 i \in 1..Len(q \o o) /\ (q \o o)[i] = q[i]
           /\ \A i \in 1..Len(o) :
                 Len(q) + i \in 1..Len(q \o o) /\ (q \o o)[Len(q) + i] = o[i]
           /\ \A i \in 1..Len(q \o o) :
                 i \in 1..Len(q) \/ i - Len(q) \in 1..Len(o)
BY ConcatProperties

(* The last word is that of the later events, if they have one ...         *)
LEMMA EndsInLater ==
    ASSUME NEW S, NEW q \in Seq(S), NEW o \in Seq(S), NEW x, EndsIn(o, x)
    PROVE  EndsIn(q \o o, x)
<1> DEFINE s == q \o o
<1>1. PICK i \in 1..Len(o) : /\ o[i].type = "State" /\ o[i].state = x
                             /\ \A j \in 1..Len(o) : j > i => Mute(o[j])
  BY DEF EndsIn
<1>2. /\ Len(q) \in Nat /\ Len(o) \in Nat /\ i \in Nat
      /\ Len(q) + i \in 1..Len(s) /\ s[Len(q) + i] = o[i]
  BY Joined
<1>3. ASSUME NEW j \in 1..Len(s), j > Len(q) + i
      PROVE  Mute(s[j])
  <2>1. j - Len(q) \in 1..Len(o) /\ s[Len(q) + (j - Len(q))] = o[j - Len(q)]
    BY <1>2, <1>3, Joined
  <2>2. Len(q) + (j - Len(q)) = j /\ j - Len(q) > i
    BY <1>2, <1>3, Joined
  <2> HIDE DEF s
  <2> QED  BY <1>1, <2>1, <2>2
<1> HIDE DEF s
<1>4. EndsIn(s, x)
  BY <1>1, <1>2, <1>3 DEF EndsIn
<1> QED  BY <1>4 DEF s

(* ... and that of the earlier ones otherwise.                             *)
LEMMA EndsInEarlier ==
    ASSUME NEW S, NEW q \in Seq(S), NEW o \in Seq(S), NEW x,
           EndsIn(q, x), Silent(o)
    PROVE  EndsIn(q \o o, x)
<1> DEFINE s == q \o o
<1>1. PICK i \in 1..Len(q) : /\ q[i].type = "State" /\ q[i].state = x
                             /\ \A j \in 1..Len(q) : j > i => Mute(q[j])
  BY DEF EndsIn
<1>2. i \in 1..Len(s) /\ s[i] = q[i]
  BY Joined
<1>3. ASSUME NEW j \in 1..Len(s), j > i
      PROVE  Mute(s[j])
  <2>1. CASE j \in 1..Len(q)
    BY <1>1, <1>3, <2>1, Joined
  <2>2. CASE j \notin 1..Len(q)
    <3>1. j - Len(q) \in 1..Len(o) /\ s[Len(q) + (j - Len(q))] = o[j - Len(q)]
      BY <2>2, Joined
    <3>2. Len(q) + (j - Len(q)) = j
      BY Joined
    <3> HIDE DEF s
    <3> QED  BY <3>1, <3>2 DEF Silent
  <2> QED  BY <2>1, <2>2
<1> HIDE DEF s
<1>4. EndsIn(s, x)
  BY <1>1, <1>2, <1>3 DEF EndsIn
<1> QED  BY <1>4 DEF s

(* Two silent sequences are silent together.                               *)
LEMMA SilentTogether ==
    ASSUME NEW S, NEW q \in Seq(S), NEW o \in Seq(S), Silent(q), Silent(o)
    PROVE  Silent(q \o o)
<1> DEFINE s == q \o o
<1>1. ASSUME NEW j \in 1..Len(s)
      PROVE  Mute(s[j])
  <2>1. CASE j \in 1..Len(q)
    BY <2>1, Joined DEF Silent
  <2>2. CASE j \notin 1..Len(q)
    <3>1. j - Len(q) \in 1..Len(o) /\ s[Len(q) + (j - Len(q))] = o[j - Len(q)]
      BY <2>2, Joined
    <3>2. Len(q) + (j - Len(q)) = j
      BY Joined
    <3> HIDE DEF s
    <3> QED  BY <3>1, <3>2 DEF Silent
  <2> QED  BY <2>1, <2>2
<1> QED  BY <1>1 DEF Silent

(* The oldest event is read.                                               *)
LEMMA ReadOne ==
    ASSUME NEW S, NEW s \in Seq(S), s # <<>>
    PROVE  /\ Silent(s) => Mute(s[1]) /\ Silent(Tail(s))
           /\ \A x : EndsIn(s, x)
                => \/ EndsIn(Tail(s), x)
                   \/ /\ s[1].type = "State" /\ s[1].state = x
                      /\ Silent(Tail(s))
<1> DEFINE t == Tail(s)
<1>1. /\ Len(s) \in Nat /\ 1 \in 1..Len(s) /\ Len(t) = Len(s) - 1
      /\ \A i \in 1..Len(t) : i + 1 \in 1..Len(s) /\ t[i] = s[i + 1]
  OBVIOUS
<1> HIDE DEF t
<1>2. Silent(s) => Mute(s[1]) /\ Silent(t)
  BY <1>1 DEF Silent
<1>3. ASSUME NEW x, EndsIn(s, x)
      PROVE  \/ EndsIn(t, x)
             \/ s[1].type = "State" /\ s[1].state = x /\ Silent(t)
  <2>1. PICK i \in 1..Len(s) : /\ s[i].type = "State" /\ s[i].state = x
                               /\ \A j \in 1..Len(s) : j > i => Mute(s[j])
    BY <1>3 DEF EndsIn
  <2>2. CASE i = 1
    <3>1. \A j \in 1..Len(t) : j + 1 > 1
      BY <1>1
    <3> QED  BY <1>1, <2>1, <2>2, <3>1 DEF Silent
  <2>3. CASE i # 1
    <3>1. i - 1 \in 1..Len(t) /\ t[i - 1] = s[i]
      BY <1>1, <2>3
    <3>2. ASSUME NEW j \in 1..Len(t), j > i - 1
          PROVE  Mute(t[j])
      <4>1. j + 1 \in 1..Len(s) /\ j + 1 > i /\ t[j] = s[j + 1]
        BY <1>1, <3>2
      <4> QED  BY <2>1, <4>1
    <3> QED  BY <2>1, <3>1, <3>2 DEF EndsIn
  <2> QED  BY <2>2, <2>3
<1> QED  BY <1>2, <1>3 DEF t

(* The last word of the short sequences a handler builds ...               *)
LEMMA ShortEnds ==
    ASSUME NEW x
    PROVE  /\ EndsIn(<<State(x)>>, x)
           /\ \A e : EndsIn(<<e, State(x)>>, x)
           /\ \A e : Mute(e) => EndsIn(<<State(x), e>>, x)
           /\ \A e, f : EndsIn(<<e, f, State(x)>>, x)
<1> DEFINE z == State(x)
<1>1. z.type = "State" /\ z.state = x
  BY DEF State
<1> HIDE DEF z
<1>2. EndsIn(<<z>>, x)
  <2>1. Len(<<z>>) = 1 /\ <<z>>[1] = z
    OBVIOUS
  <2>2. 1 \in 1..1 /\ \A j \in 1..1 : ~(j > 1)
    OBVIOUS
  <2> QED  BY <1>1, <2>1, <2>2 DEF EndsIn
<1>3. ASSUME NEW e
      PROVE  EndsIn(<<e, z>>, x)
  <2> DEFINE s == <<e, z>>
  <2>1. Len(s) = 2 /\ s[2] = z
    OBVIOUS
  <2>2. 2 \in 1..2 /\ \A j \in 1..2 : ~(j > 2)
    OBVIOUS
  <2> HIDE DEF s
  <2>3. EndsIn(s, x)
    BY <1>1, <2>1, <2>2 DEF EndsIn
  <2> QED  BY <2>3 DEF s
<1>4. ASSUME NEW e, Mute(e)
      PROVE  EndsIn(<<z, e>>, x)
  <2> DEFINE s == <<z, e>>
  <2>1. Len(s) = 2 /\ s[1] = z /\ s[2] = e
    OBVIOUS
  <2>2. 1 \in 1..2 /\ \A j \in 1..2 : j > 1 => j = 2
    OBVIOUS
  <2> HIDE DEF s
  <2>3. EndsIn(s, x)
    BY <1>1, <1>4, <2>1, <2>2 DEF EndsIn
  <2> QED  BY <2>3 DEF s
<1>5. ASSUME NEW e, NEW f
      PROVE  EndsIn(<<e, f, z>>, x)
  <2> DEFINE s == <<e, f, z>>
  <2>1. Len(s) = 3 /\ s[3] = z
    OBVIOUS
  <2>2. 3 \in 1..3 /\ \A j \in 1..3 : ~(j > 3)
    OBVIOUS
  <2> HIDE DEF s
  <2>3. EndsIn(s, x)
    BY <1>1, <2>1, <2>2 DEF EndsIn
  <2> QED  BY <2>3 DEF s
<1> QED  BY <1>2, <1>3, <1>4, <1>5 DEF z

(* ... with the removal of a tag among them or not.                        *)
LEMMA EndsWithRemoval ==
    ASSUME NEW x
    PROVE  /\ EndsIn(<<State(x)>> \o Removal, x)
           /\ EndsIn(Removal \o <<State(x)>>, x)
           /\ \A w : EndsIn(<<w>> \o Removal \o <<State(x)>>, x)
<1>1. CASE Removal = <<>>
  <2>1. /\ <<State(x)>> \o Removal = <<State(x)>>
        /\ Removal \o <<State(x)>> = <<State(x)>>
    BY <1>1, Concatenations
  <2>2. \A w : <<w>> \o Removal \o <<State(x)>> = <<w, State(x)>>
    BY <1>1, Concatenations
  <2> QED  BY <2>1, <2>2, ShortEnds
<1>2. ASSUME NEW e, Removal = <<e>>, e.type = "TagRemoved"
      PROVE  /\ EndsIn(<<State(x)>> \o Removal, x)
             /\ EndsIn(Removal \o <<State(x)>>, x)
             /\ \A w : EndsIn(<<w>> \o Removal \o <<State(x)>>, x)
  <2>1. Mute(e)
    BY <1>2 DEF Mute
  <2>2. /\ <<State(x)>> \o Removal = <<State(x), e>>
        /\ Removal \o <<State(x)>> = <<e, State(x)>>
    BY <1>2, Concatenations
  <2>3. ASSUME NEW w
        PROVE  <<w>> \o Removal \o <<State(x)>> = <<w, e, State(x)>>
    <3>1. <<w>> \o <<e>> = <<w, e>>
      BY Concatenations
    <3>2. <<w, e>> \o <<State(x)>> = <<w, e, State(x)>>
      BY Concatenations
    <3> QED  BY <1>2, <3>1, <3>2
  <2> QED  BY <2>1, <2>2, <2>3, ShortEnds
<1> QED  BY <1>1, <1>2, RemovalShape

(* What the page should say of the hardware thread at its place.           *)
ThreadState ==
    IF thread = "open" THEN "Initializing"
    ELSE IF thread \in {"loop", "command", "wait", "asleep", "poll"}
    THEN IF ~initialized THEN "Error"
         ELSE IF scanRequested THEN "Scanning" ELSE "Idle"
    ELSE IF thread = "close" THEN "Stopping"
    ELSE IF thread \in {"end", "done"} THEN "Stopped"
    ELSE "unknown"

(* A poll tells of tags, not of the reader.                                *)
LEMMA PollIsMute ==
    ASSUME Poll
    PROVE  Silent(outbox')
<1> DEFINE Tagged(e) ==
             e.type \in {"TagPresented", "TagUpdated", "TagRemoved"}
<1>1. \A e : Tagged(e) => Mute(e)
  BY DEF Mute
<1>2. outbox' = <<>> => Silent(outbox')
  BY DEF Silent
<1>3. ASSUME NEW e, outbox' = <<e>>, Tagged(e)
      PROVE  Silent(outbox')
  <2>1. \A i \in 1..Len(outbox') : outbox'[i] = e
    BY <1>3
  <2> QED  BY <1>1, <1>3, <2>1 DEF Silent
<1>4. ASSUME NEW e, NEW f, outbox' = <<e, f>>, Tagged(e), Tagged(f)
      PROVE  Silent(outbox')
  <2>1. \A i \in 1..Len(outbox') : outbox'[i] \in {e, f}
    BY <1>4
  <2> QED  BY <1>1, <1>4, <2>1 DEF Silent
<1>5. CASE outbox' = Removal
  BY <1>2, <1>3, <1>5, RemovalShape
<1>6. ASSUME NEW n, NEW t, outbox' = <<TagUpdated(n, t)>>
      PROVE  Silent(outbox')
  <2>1. Tagged(TagUpdated(n, t))
    BY DEF TagUpdated
  <2> HIDE DEF Tagged
  <2> QED  BY <1>3, <1>6, <2>1
<1>7. ASSUME NEW n, NEW t, outbox' = Removal \o <<TagPresented(n, t)>>
      PROVE  Silent(outbox')
  <2> DEFINE p == TagPresented(n, t)
  <2>1. Tagged(p)
    BY DEF TagPresented
  <2> HIDE DEF p
  <2>2. \/ outbox' = <<p>>
        \/ \E r : outbox' = <<r, p>> /\ r.type = "TagRemoved"
    BY <1>7, RemovalShape, Concatenations DEF p
  <2> QED  BY <1>3, <1>4, <2>1, <2>2
<1> QED  BY <1>2, <1>5, <1>6, <1>7
         DEF Poll, ObserveNothing, ObserveNoTag, ObserveTag,
             ObservePresentTag, ObserveCandidate, ObserveConfirmed

(* A handler tells what it has made of the reader, if anything.            *)
LEMMA HandlerTellsState ==
    ASSUME RestInv, ThreadKnows, Handler
    PROVE  \/ ThreadState' = "unknown"
           \/ EndsIn(outbox', ThreadState')
           \/ /\ ThreadState' = ThreadState /\ Silent(outbox')
              /\ UNCHANGED <<running, retryOwed>>
<1>1. outbox = <<>> /\ Silent(<<>>)
  BY HandlerRuns DEF Silent
<1> USE DEF ThreadState, At, Move
<1>2. CASE InitBegin \/ Exit
  <2>1. \/ /\ thread' = "open"
           /\ outbox' = <<State("Initializing")>> \o Removal
        \/ /\ thread' = "close"
           /\ outbox' = <<State("Stopping")>> \o Removal
    BY <1>2 DEF InitBegin, InitEvents, Exit, ExitEvents
  <2> QED  BY <2>1, EndsWithRemoval
<1>3. CASE OpenSucceeds
  <2>1. /\ thread' = "loop" /\ initialized' = TRUE
        /\ scanRequested' = scanRequested
        /\ outbox' = <<Initialized,
                       State(IF scanRequested THEN "Scanning" ELSE "Idle")>>
    BY <1>3 DEF OpenSucceeds, OpenReturns
  <2> QED  BY <2>1, ShortEnds
<1>4. CASE OpenFails
  <2>1. /\ thread' = "loop" /\ ~initialized'
        /\ \E e : outbox' = <<e, State("Error")>>
    BY <1>4 DEF OpenFails, OpenReturns
  <2> QED  BY <2>1, ShortEnds
<1>5. CASE OpenCancelled \/ TakeRetry \/ ScanningCancelled \/ PollCancelled
           \/ UnexpectedFailure
  <2>1. thread' \in {"exit", "init"}
    BY <1>5 DEF OpenCancelled, TakeRetry, ScanningCancelled, PollCancelled,
                UnexpectedFailure
  <2> QED  BY <2>1
<1>6. CASE LoopTop \/ NoCommand \/ End \/ Wait \/ SpuriousWakeup
  <2>1. UNCHANGED <<initialized, scanRequested, outbox, running, retryOwed>>
    BY <1>6 DEF LoopTop, NoCommand, End, Wait, SpuriousWakeup, hardware, locals,
                flagVars, historyVars
  <2>2. \/ thread = "loop" /\ thread' \in {"exit", "command"}
        \/ thread = "command" /\ thread' \in {"wait", "poll", "loop"}
        \/ thread = "end" /\ thread' = "done"
        \/ thread = "wait" /\ thread' \in {"loop", "asleep"}
        \/ thread = "asleep" /\ thread' = "wait"
    BY <1>6 DEF LoopTop, NoCommand, End, Wait, SpuriousWakeup
  <2>3. ThreadState' \in {"unknown", ThreadState}
    BY <2>1, <2>2
  <2> QED  BY <1>1, <2>1, <2>3
<1>7. CASE RememberScanning
  <2>1. /\ thread = "command" /\ thread' = "loop" /\ ~initialized
        /\ UNCHANGED <<initialized, outbox, running, retryOwed>>
    BY <1>7 DEF RememberScanning, TakeSetScanning, Take, flagVars, historyVars
  <2> QED  BY <1>1, <2>1
<1>8. CASE ScanningOn
  <2>1. /\ thread' = "loop" /\ initialized' = initialized /\ initialized
        /\ scanRequested' = TRUE /\ outbox' = <<State("Scanning")>>
    BY <1>8 DEF ScanningOn, TakeSetScanning
  <2> QED  BY <2>1, ShortEnds
<1>9. CASE ScanningOff
  <2>1. /\ thread' = "loop" /\ initialized' = initialized /\ initialized
        /\ scanRequested' = FALSE
        /\ outbox' = Removal \o <<State("Idle")>>
    BY <1>9 DEF ScanningOff, TakeSetScanning
  <2> QED  BY <2>1, EndsWithRemoval
<1>10. CASE ScanningFails \/ PollFails
  <2>1. /\ thread' = "loop" /\ initialized' = FALSE
        /\ outbox' = <<WorkerError(TRUE)>> \o Removal \o <<State("Error")>>
    BY <1>10 DEF ScanningFails, PollFails, GiveUpReader
  <2> QED  BY <2>1, EndsWithRemoval
<1>11. CASE Poll
  <2>1. /\ thread = "poll" /\ thread' = "loop"
        /\ UNCHANGED <<initialized, scanRequested, running, retryOwed>>
    BY <1>11 DEF Poll, locals, flagVars, historyVars
  <2>2. ThreadState' = ThreadState
    BY <2>1
  <2> QED  BY <1>11, <2>1, <2>2, PollIsMute
<1>12. CASE Close
  <2>1. thread' = "end" /\ outbox' = <<State("Stopped")>>
    BY <1>12 DEF Close
  <2> QED  BY <2>1, ShortEnds
<1> QED  BY <1>2, <1>3, <1>4, <1>5, <1>6, <1>7, <1>8, <1>9, <1>10, <1>11, <1>12
         DEF Handler, AwakeSteps

(* Nothing was dropped that the UI thread has not thrown away itself.      *)
Whole == queue.dropped = 0 /\ ~status.dropped /\ ui \notin Anew

(* The state last told, or else the one shown, is the hardware thread's,   *)
(* unless a Retry is on its way, which will have the state told anew.      *)
StateOK ==
    Whole /\ ThreadState # "unknown" =>
      \/ EndsIn(Stream, ThreadState)
      \/ /\ Silent(Stream)
         /\ \/ retryOwed
            \/ ui = "retry_post" /\ running
            \/ ui # "retry_post" /\ status.state = ThreadState

(* What is still to be read is made of two sequences.                      *)
LEMMA StreamParts ==
    ASSUME RestInv
    PROVE  \E S : queue.events \in Seq(S) /\ outbox \in Seq(S)
<1>1. PICK S : queue.events \in Seq(S)
  BY DEF RestInv, QueueOK
<1>2. PICK T : outbox \in Seq(T)
  BY OutboxIsSequence
<1>3. queue.events \in Seq(S \cup T) /\ outbox \in Seq(S \cup T)
  BY <1>1, <1>2
<1> QED  BY <1>3

(* A handler adds its events to what is still to be read.                  *)
LEMMA HandlerStream ==
    ASSUME RestInv, Handler
    PROVE  Stream = queue.events /\ Stream' = Stream \o outbox'
<1>1. PICK S : queue.events \in Seq(S)
  BY DEF RestInv, QueueOK
<1>2. outbox = <<>> /\ queue' = queue
  BY HandlerRuns
<1>3. queue.events \o <<>> = queue.events
  BY <1>1
<1> QED  BY <1>2, <1>3 DEF Stream

(* StateOK when the hardware thread handles something ...                  *)
LEMMA HandlerShowsState ==
    ASSUME RestInv, RestInv', ThreadKnows, StateOK, Handler,
           UNCHANGED modelVars
    PROVE  StateOK'
<1>1. /\ Stream = queue.events /\ Stream' = Stream \o outbox'
      /\ Whole' <=> Whole
      /\ ui' = ui /\ status' = status
  BY HandlerStream, HandlerRuns DEF Whole, modelVars
<1>2. PICK S : queue.events \in Seq(S) /\ outbox' \in Seq(S)
  <2>1. PICK S : queue.events \in Seq(S)
    BY DEF RestInv, QueueOK
  <2>2. Tells(announced', outbox', Present')
    BY DEF RestInv, ToldSoFar
  <2>3. PICK T : outbox' \in Seq(T)
    BY <2>2, ToldInOrder
  <2>4. queue.events \in Seq(S \cup T) /\ outbox' \in Seq(S \cup T)
    BY <2>1, <2>3
  <2> QED  BY <2>4
<1>3. CASE ThreadState' = "unknown"
  BY <1>3 DEF StateOK
<1>4. CASE EndsIn(outbox', ThreadState')
  <2>1. EndsIn(Stream', ThreadState')
    BY <1>1, <1>2, <1>4, EndsInLater
  <2> QED  BY <2>1 DEF StateOK
<1>5. CASE /\ ThreadState' = ThreadState /\ Silent(outbox')
           /\ UNCHANGED <<running, retryOwed>>
  <2>1. EndsIn(Stream, ThreadState) => EndsIn(Stream', ThreadState')
    BY <1>1, <1>2, <1>5, EndsInEarlier
  <2>2. Silent(Stream) => Silent(Stream')
    BY <1>1, <1>2, <1>5, SilentTogether
  <2> QED  BY <1>1, <1>5, <2>1, <2>2 DEF StateOK
<1> QED  BY <1>3, <1>4, <1>5, HandlerTellsState

(* ... when it pushes an event ...                                         *)
LEMMA PushShowsState ==
    ASSUME RestInv, StateOK, Push, UNCHANGED modelVars
    PROVE  StateOK'
<1>1. SUFFICES ASSUME Whole'
               PROVE  StateOK'
  BY DEF StateOK
<1>2. /\ UNCHANGED <<thread, initialized, scanRequested, running>>
      /\ ui' = ui /\ status' = status
  BY PushRuns DEF modelVars
<1>3. Stream' = Stream /\ queue'.dropped = queue.dropped
  <2>1. ~(queue'.dropped > 0)
    BY <1>1 DEF Whole
  <2> QED  BY <2>1, PushMoves
<1>4. Whole /\ ThreadState' = ThreadState
  BY <1>1, <1>2, <1>3 DEF Whole, ThreadState
<1>5. Silent(Stream) => retryOwed' = retryOwed
  <2>1. PICK S : queue.events \in Seq(S) /\ outbox \in Seq(S)
    BY StreamParts
  <2>2. /\ outbox # <<>>
        /\ retryOwed' = (retryOwed /\ Head(outbox).type \notin Outcomes)
    BY DEF Push
  <2>3. 1 \in 1..Len(outbox) /\ Head(outbox) = outbox[1]
    BY <2>1, <2>2
  <2>4. /\ Len(queue.events) + 1 \in 1..Len(Stream)
        /\ Stream[Len(queue.events) + 1] = outbox[1]
    BY <2>1, <2>3, Joined DEF Stream
  <2>5. Silent(Stream) => Mute(Head(outbox))
    BY <2>3, <2>4 DEF Silent
  <2>6. retryOwed \in BOOLEAN
    BY DEF RestInv, FlagsOK
  <2> QED  BY <2>2, <2>5, <2>6 DEF Mute, Outcomes
<1> QED  BY <1>2, <1>3, <1>4, <1>5 DEF StateOK

(* ... when the UI thread reads one ...                                    *)
LEMMA TickShowsState ==
    ASSUME RestInv, UiPlaceOK, StateOK, status \in StatusType, TickEvent
    PROVE  StateOK'
<1> DEFINE e == Popped(queue)
<1>1. SUFFICES ASSUME Whole'
               PROVE  StateOK'
  BY DEF StateOK
<1>2. /\ TryPopEvent(UiThread) /\ status' = StatusAfter(e)
      /\ ui = "tick" /\ ui' = ui
  BY DEF TickEvent
<1>3. queue.dropped = 0
  <2>1. SUFFICES ASSUME queue.dropped # 0
                 PROVE  FALSE
    OBVIOUS
  <2>2. e.type = "QueueOverflow"
    BY <1>2, <2>1, PopMoves
  <2>3. status'.dropped = TRUE
    BY <1>2, <2>2 DEF StatusAfter, StatusType
  <2> QED  BY <1>1, <2>3 DEF Whole
<1>4. Stream # <<>> /\ Stream' = Tail(Stream) /\ Stream[1] = e
  BY <1>2, <1>3, PopMoves
<1>5. UNCHANGED <<thread, initialized, scanRequested, running, retryOwed>>
  BY <1>2 DEF TryPopEvent, hardware, locals, flagVars, historyVars
<1>6. Whole /\ ThreadState' = ThreadState
  <2>1. status.dropped => status'.dropped
    <3>1. ASSUME status.dropped
          PROVE  status'.dropped
      <4>1. status.dropped = TRUE
        BY <3>1 DEF StatusType
      <4> HIDE DEF e
      <4> QED  BY <1>2, <4>1 DEF StatusAfter, Healthy, StatusType
    <3> QED  BY <3>1
  <2> QED  BY <1>1, <1>2, <1>3, <1>5, <2>1 DEF Whole, ThreadState, Anew
<1>7. PICK S : Stream \in Seq(S)
  <2>1. PICK S : queue.events \in Seq(S) /\ outbox \in Seq(S)
    BY StreamParts
  <2> QED  BY <2>1 DEF Stream
<1> HIDE DEF e
<1>8. Mute(e) => status'.state = status.state
  BY <1>2 DEF Mute, StatusAfter, StatusType
<1>9. e.type = "State" => status'.state = e.state
  <2>1. SUFFICES ASSUME e.type = "State"
                 PROVE  status'.state = e.state
    OBVIOUS
  <2> DEFINE s == [status EXCEPT !.state = e.state]
  <2>2. s.state = e.state /\ DOMAIN s = DOMAIN status
    BY DEF StatusType
  <2>3. status' \in {s, Healthy(s)}
    BY <1>2, <2>1 DEF StatusAfter, StateOf
  <2>4. Healthy(s).state = s.state
    <3> HIDE DEF s
    <3> QED  BY <2>2 DEF Healthy, StatusType
  <2> HIDE DEF s
  <2> QED  BY <2>2, <2>3, <2>4
<1>10. CASE EndsIn(Stream, ThreadState)
  BY <1>2, <1>4, <1>5, <1>6, <1>7, <1>9, <1>10, ReadOne DEF StateOK
<1>11. CASE ~EndsIn(Stream, ThreadState) /\ ThreadState # "unknown"
  <2>1. Silent(Stream) /\ (retryOwed \/ status.state = ThreadState)
    BY <1>2, <1>6, <1>11 DEF StateOK
  <2>2. Mute(e) /\ Silent(Stream')
    BY <1>4, <1>7, <2>1, ReadOne
  <2> QED  BY <1>2, <1>5, <1>6, <1>8, <2>1, <2>2 DEF StateOK
<1>12. CASE ThreadState = "unknown"
  BY <1>6, <1>12 DEF StateOK
<1> QED  BY <1>10, <1>11, <1>12

(* ... and when the UI thread does anything else.                          *)
LEMMA UiShowsState ==
    ASSUME RestInv, UiPlaceOK, RunOK, StateOK, status \in StatusType, UiSteps
    PROVE  StateOK'
<1> USE DEF Ui
<1>1. CASE TickEvent
  BY <1>1, TickShowsState
<1>2. CASE ModelStart \/ RetryStarts \/ WorkerStarts
  <2>1. ui' \in Anew
    BY <1>2 DEF ModelStart, RetryStarts, WorkerStarts, Anew, modelVars
  <2> QED  BY <2>1 DEF StateOK, Whole
<1>3. CASE WorkerStarted \/ WorkerStopped
  <2>1. thread' \in {"none", "init"}
    BY <1>3, WorkerStartsFresh DEF WorkerStopped, StopJoin
  <2> QED  BY <2>1 DEF StateOK, ThreadState
<1>4. CASE ModelRetry \/ RetryRefused \/ RetryPosted \/ RetryReturns
           \/ ModelStop \/ WorkerStops \/ TickBegin \/ TickEnd
  <2>1. UNCHANGED <<queue, outbox, initialized, scanRequested, running>>
    BY <1>4 DEF ModelRetry, RetryRefused, RetryPosted, PostRetryAgain,
       PostCommand, Accept, RetryReturns, Notify, NotifyAndGo, ModelStop, Stop,
       WorkerStops, StopNotify, TickBegin, TickEnd, vars, hardware, locals,
       flagVars
  <2>2. thread' \in {thread, Woken}
    BY <1>4 DEF ModelRetry, RetryRefused, RetryPosted, PostRetryAgain,
       PostCommand, Accept, RetryReturns, Notify, NotifyAndGo, ModelStop, Stop,
       WorkerStops, StopNotify, TickBegin, TickEnd, vars
  <2>3. retryOwed => retryOwed'
    <3>1. CASE RetryPosted
      BY <3>1 DEF RetryPosted, PostRetryAgain, PostCommand, Accept
    <3>2. CASE ~RetryPosted
      BY <1>4, <3>2 DEF ModelRetry, RetryRefused, RetryReturns, Notify,
         NotifyAndGo, ModelStop, Stop, WorkerStops, StopNotify, TickBegin,
         TickEnd, vars, historyVars
    <3> QED  BY <3>1, <3>2
  <2>4. ThreadState' = ThreadState /\ Stream' = Stream
    BY <2>1, <2>2 DEF ThreadState, Woken, Stream
  <2>5. Whole' => Whole
    <3>1. status'.dropped = status.dropped
      BY <1>4 DEF ModelRetry, RetryRefused, RetryPosted, RetryReturns,
         ModelStop, WorkerStops, TickBegin, TickEnd, modelVars, StatusType
    <3>2. ui' \notin Anew => ui \notin Anew
      BY <1>4 DEF ModelRetry, RetryRefused, RetryPosted, RetryReturns,
         ModelStop, WorkerStops, TickBegin, TickEnd, modelVars, Anew
    <3> QED  BY <2>1, <3>1, <3>2 DEF Whole
  <2>6. CASE ModelRetry
    <3>1. ui' = "retry_post" => running
      BY <2>6 DEF ModelRetry
    <3>2. ui' \in Anew \/ ui' = "retry_post"
      BY <2>6 DEF ModelRetry, Anew
    <3>3. ui' = "retry_post" => running'
      BY <2>1, <3>1
    <3> QED  BY <2>4, <2>5, <3>2, <3>3 DEF StateOK, Whole
  <2>7. CASE RetryPosted
    <3>1. retryOwed'
      BY <2>7 DEF RetryPosted, PostRetryAgain, PostCommand, Accept
    <3> QED  BY <2>4, <2>5, <3>1 DEF StateOK
  <2>8. CASE RetryRefused
    <3>1. ui = "retry_post" /\ ~running
      BY <2>8 DEF RetryRefused, Accepting, RunOK, UiPlaceOK
    <3> QED  BY <2>3, <2>4, <2>5, <3>1 DEF StateOK
  <2>9. CASE RetryReturns \/ ModelStop \/ WorkerStops \/ TickBegin \/ TickEnd
    <3>1. status' = status /\ ui # "retry_post" /\ ui' # "retry_post"
      BY <2>9 DEF RetryReturns, ModelStop, WorkerStops, TickBegin, TickEnd,
                  modelVars
    <3> QED  BY <2>3, <2>4, <2>5, <3>1 DEF StateOK
  <2> QED  BY <1>4, <2>6, <2>7, <2>8, <2>9
<1> QED  BY <1>1, <1>2, <1>3, <1>4 DEF UiSteps, UserActs, UiContinues

(* When tick() has read all events and none was dropped, the page shows    *)
(* the state the hardware thread is in, unless an accepted Retry has still *)
(* to be answered: whatever retry() put on the page before it asked, and   *)
(* however the answer to the question crossed with the end of the thread.  *)
THEOREM StateIsShown == ModelSpec => []ScreenShowsTheState
<1>1. ModelInit => StateOK
  BY DEF ModelInit, Init, StateOK, ThreadState
<1>2. ModelOK /\ ModelOK' /\ StateOK /\ [ModelNext]_allVars => StateOK'
  <2> SUFFICES ASSUME ModelOK, ModelOK', StateOK, [ModelNext]_allVars
               PROVE  StateOK'
    OBVIOUS
  <2>1. CASE UNCHANGED allVars
    BY <2>1 DEF allVars, vars, modelVars, hardware, locals, flagVars,
                historyVars, StateOK, Whole, ThreadState, Stream
  <2>2. CASE UiSteps
    BY <2>2, UiShowsState DEF ModelOK, StatusShape
  <2>3. CASE (Handler \/ Push) /\ UNCHANGED modelVars
    BY <2>3, HandlerShowsState, PushShowsState DEF ModelOK
  <2> QED  BY <2>1, <2>2, <2>3, ModelCases
<1>3. ModelOK /\ StateOK => ScreenShowsTheState
  <2> SUFFICES ASSUME ModelOK, StateOK,
                      started, ui = "idle", Quiet, ~status.dropped, ~retryOwed
               PROVE  /\ thread = "poll" => status.state = "Scanning"
                      /\ thread = "asleep" => status.state = "Error"
                      /\ thread = "done" => status.state = "Stopped"
    BY DEF ScreenShowsTheState
  <2>1. Whole /\ Stream = <<>>
    BY DEF Quiet, EmptyQueue, Whole, Stream, Anew
  <2>2. \A x : ~EndsIn(Stream, x)
    BY <2>1 DEF EndsIn
  <2>3. ThreadState # "unknown" => status.state = ThreadState
    BY <2>1, <2>2 DEF StateOK
  <2>4. /\ thread = "poll" => initialized /\ scanRequested
        /\ thread = "asleep" => ~initialized
    BY DEF ModelOK, ThreadKnows
  <2> QED  BY <2>3, <2>4 DEF ThreadState
<1> QED  BY <1>1, <1>2, <1>3, ModelStaysOK, PTL DEF ModelSpec

-----------------------------------------------------------------------------
(* The tag that is shown.                                                  *)

(* What is known of the tag after each of the events s: as said[0] has it  *)
(* before the first, as a has it after the last.                           *)
LeadsTo(said, s, a) ==
    /\ \A i \in 1..Len(s) : Says(said[i - 1], s[i], said[i])
    /\ said[Len(s)] = a

(* What a handler tells, event by event.                                   *)
LEMMA ToldStepwise ==
    ASSUME NEW a, NEW o, NEW b, Tells(a, o, b)
    PROVE  \E said : LeadsTo(said, o, b) /\ said[0] = a
<1>1. CASE o = <<>> /\ a = b
  <2> DEFINE t == [i \in 0..0 |-> a]
  <2>1. t[0] = a /\ Len(o) = 0 /\ 1..0 = {}
    BY <1>1
  <2> HIDE DEF t
  <2> QED  BY <1>1, <2>1 DEF LeadsTo
<1>2. ASSUME NEW e, o = <<e>>, Says(a, e, b)
      PROVE  \E said : LeadsTo(said, o, b) /\ said[0] = a
  <2> DEFINE t == [i \in 0..1 |-> IF i = 0 THEN a ELSE b]
  <2>1. t[0] = a /\ t[1] = b
    OBVIOUS
  <2>2. Len(o) = 1 /\ o[1] = e /\ \A i \in 1..1 : i = 1
    BY <1>2
  <2> HIDE DEF t
  <2>3. Says(t[1 - 1], o[1], t[1])
    BY <1>2, <2>1, <2>2
  <2> QED  BY <2>1, <2>2, <2>3 DEF LeadsTo
<1>3. ASSUME NEW e, NEW f, NEW m, o = <<e, f>>,
             Says(a, e, m), Says(m, f, b)
      PROVE  \E said : LeadsTo(said, o, b) /\ said[0] = a
  <2> DEFINE t == [i \in 0..2 |-> IF i = 0 THEN a ELSE IF i = 1 THEN m ELSE b]
  <2>1. t[0] = a /\ t[1] = m /\ t[2] = b
    OBVIOUS
  <2>2. Len(o) = 2 /\ o[1] = e /\ o[2] = f /\ \A i \in 1..2 : i = 1 \/ i = 2
    BY <1>3
  <2> HIDE DEF t
  <2>3. Says(t[1 - 1], o[1], t[1]) /\ Says(t[2 - 1], o[2], t[2])
    BY <1>3, <2>1, <2>2
  <2> QED  BY <2>1, <2>2, <2>3 DEF LeadsTo
<1>4. ASSUME NEW e, NEW f, NEW g, NEW m, NEW n, o = <<e, f, g>>,
             Says(a, e, m), Says(m, f, n), Says(n, g, b)
      PROVE  \E said : LeadsTo(said, o, b) /\ said[0] = a
  <2> DEFINE t == [i \in 0..3 |-> IF i = 0 THEN a ELSE IF i = 1 THEN m
                                  ELSE IF i = 2 THEN n ELSE b]
  <2>1. t[0] = a /\ t[1] = m /\ t[2] = n /\ t[3] = b
    OBVIOUS
  <2>2. /\ Len(o) = 3 /\ o[1] = e /\ o[2] = f /\ o[3] = g
        /\ \A i \in 1..3 : i = 1 \/ i = 2 \/ i = 3
    BY <1>4
  <2> HIDE DEF t
  <2>3. /\ Says(t[1 - 1], o[1], t[1]) /\ Says(t[2 - 1], o[2], t[2])
        /\ Says(t[3 - 1], o[3], t[3])
    BY <1>4, <2>1, <2>2
  <2> QED  BY <2>1, <2>2, <2>3 DEF LeadsTo
<1> QED  BY <1>1, <1>2, <1>3, <1>4 DEF Tells

(* More events are told.                                                   *)
LEMMA ToldMore ==
    ASSUME NEW S, NEW s \in Seq(S), NEW o \in Seq(S), NEW a, NEW b,
           NEW said, LeadsTo(said, s, a), Tells(a, o, b)
    PROVE  \E more : /\ LeadsTo(more, s \o o, b)
                     /\ \A i \in 0..Len(s) : more[i] = said[i]
<1>1. PICK t : LeadsTo(t, o, b) /\ t[0] = a
  BY ToldStepwise
<1> DEFINE z == s \o o
           more == [i \in 0..Len(z) |->
                      IF i <= Len(s) THEN said[i] ELSE t[i - Len(s)]]
<1>2. Len(s) \in Nat /\ Len(o) \in Nat /\ Len(z) = Len(s) + Len(o)
  BY Joined
<1>3. \A i \in 0..Len(s) : more[i] = said[i]
  BY <1>2
<1>4. \A i \in 0..Len(o) : more[Len(s) + i] = t[i]
  <2>1. ASSUME NEW i \in 0..Len(o)
        PROVE  more[Len(s) + i] = t[i]
    <3>1. CASE i = 0
      BY <1>1, <1>2, <3>1 DEF LeadsTo
    <3>2. CASE i # 0
      <4>1. /\ Len(s) + i \in 0..Len(z) /\ ~(Len(s) + i <= Len(s))
            /\ (Len(s) + i) - Len(s) = i
        BY <1>2, <3>2
      <4> HIDE DEF z
      <4> QED  BY <4>1
    <3> QED  BY <3>1, <3>2
  <2> QED  BY <2>1
<1> HIDE DEF more
<1>5. ASSUME NEW i \in 1..Len(z)
      PROVE  Says(more[i - 1], z[i], more[i])
  <2>1. CASE i \in 1..Len(s)
    <3>1. z[i] = s[i] /\ i \in 0..Len(s) /\ i - 1 \in 0..Len(s)
      BY <1>2, <2>1, Joined
    <3>2. Says(said[i - 1], s[i], said[i])
      BY <1>2, <2>1 DEF LeadsTo
    <3> QED  BY <1>3, <3>1, <3>2
  <2>2. CASE i \notin 1..Len(s)
    <3> DEFINE j == i - Len(s)
    <3>1. j \in 1..Len(o) /\ z[Len(s) + j] = o[j]
      BY <2>2, Joined
    <3>2. /\ Len(s) + j = i /\ j \in 0..Len(o) /\ j - 1 \in 0..Len(o)
          /\ Len(s) + (j - 1) = i - 1
      BY <1>2, <3>1
    <3>3. Says(t[j - 1], o[j], t[j])
      BY <1>1, <3>1 DEF LeadsTo
    <3> HIDE DEF j, z
    <3> QED  BY <1>4, <3>1, <3>2, <3>3
  <2> QED  BY <2>1, <2>2
<1>6. more[Len(z)] = b
  <2>1. Len(o) \in 0..Len(o) /\ t[Len(o)] = b
    BY <1>1, <1>2 DEF LeadsTo
  <2> QED  BY <1>2, <1>4, <2>1
<1> QED  BY <1>3, <1>5, <1>6 DEF LeadsTo

(* The first of them is read.                                              *)
LEMMA ToldLess ==
    ASSUME NEW S, NEW s \in Seq(S), s # <<>>, NEW a,
           NEW said, LeadsTo(said, s, a)
    PROVE  /\ Says(said[0], s[1], said[1])
           /\ \E rest : /\ LeadsTo(rest, Tail(s), a)
                        /\ \A i \in 0..Len(Tail(s)) : rest[i] = said[i + 1]
<1> DEFINE t == Tail(s)
           rest == [i \in 0..Len(t) |-> said[i + 1]]
<1>1. /\ Len(s) \in Nat /\ 1 \in 1..Len(s) /\ Len(t) = Len(s) - 1
      /\ \A i \in 1..Len(t) : i + 1 \in 1..Len(s) /\ t[i] = s[i + 1]
  OBVIOUS
<1> HIDE DEF t
<1>2. \A i \in 0..Len(t) : rest[i] = said[i + 1]
  OBVIOUS
<1> HIDE DEF rest
<1>3. Says(said[1 - 1], s[1], said[1])
  BY <1>1 DEF LeadsTo
<1>4. ASSUME NEW i \in 1..Len(t)
      PROVE  Says(rest[i - 1], t[i], rest[i])
  <2>1. Says(said[(i + 1) - 1], s[i + 1], said[i + 1])
    BY <1>1 DEF LeadsTo
  <2>2. i \in 0..Len(t) /\ i - 1 \in 0..Len(t) /\ (i - 1) + 1 = (i + 1) - 1
    BY <1>1
  <2> QED  BY <1>1, <1>2, <2>1, <2>2
<1>5. rest[Len(t)] = a
  <2>1. Len(t) \in 0..Len(t) /\ Len(t) + 1 = Len(s)
    BY <1>1
  <2> QED  BY <1>2, <2>1 DEF LeadsTo
<1>6. \E r : LeadsTo(r, t, a) /\ \A i \in 0..Len(t) : r[i] = said[i + 1]
  BY <1>2, <1>4, <1>5 DEF LeadsTo
<1> QED  BY <1>3, <1>6 DEF t

(* The page shows nothing but what it has been told.                       *)
Shows(tag, a) == tag.present => a.live = tag.id /\ a.tag = tag.tag

(* A tag that is present but not shown was hidden by a retry, which has    *)
(* still to be answered, or its removal is among the events said.          *)
HiddenFor(said, s) ==
    said[0].live # 0 /\ ~shown.present =>
      \/ retryOwed
      \/ ui = "retry_post"
      \/ \E k \in 1..Len(s) : said[k].live = 0

TagsOK ==
    Whole =>
      \E said : /\ LeadsTo(said, Stream, Present)
                /\ Shows(shown, said[0])
                /\ HiddenFor(said, Stream)

(* Nothing more need be shown of a tag that is gone.                       *)
LEMMA GoneIsHidden ==
    ASSUME NEW S, NEW s \in Seq(S), NEW said, NEW a, LeadsTo(said, s, a),
           a.live = 0, said[0].live # 0
    PROVE  \E k \in 1..Len(s) : said[k].live = 0
<1>1. Len(s) \in Nat /\ said[Len(s)].live = 0
  BY DEF LeadsTo
<1>2. Len(s) # 0
  BY <1>1
<1> QED  BY <1>1, <1>2

(* Where no tag is present, no session is.                                 *)
LEMMA NoTagNoSession ==
    ASSUME RestInv, presence.tag = NoTag
    PROVE  Present.live = 0
BY DEF RestInv, ToldSoFar, PresenceOK, Present

(* TagsOK when the hardware thread handles something ...                   *)
LEMMA HandlerShowsTag ==
    ASSUME RestInv, RestInv', TagsOK, Handler, UNCHANGED modelVars
    PROVE  TagsOK'
<1>1. SUFFICES ASSUME Whole'
               PROVE  TagsOK'
  BY DEF TagsOK
<1>2. /\ Stream = queue.events /\ Stream' = Stream \o outbox'
      /\ Whole /\ ui' = ui /\ shown' = shown
  BY <1>1, HandlerStream, HandlerRuns DEF Whole, modelVars
<1>3. Tells(Present, outbox', Present')
  <2>1. outbox = <<>> /\ announced' = announced
    BY HandlerRuns
  <2>2. announced = Present
    BY <2>1 DEF RestInv, ToldSoFar, Tells
  <2>3. Tells(announced', outbox', Present')
    BY DEF RestInv, ToldSoFar
  <2> QED  BY <2>1, <2>2, <2>3
<1>4. PICK S : Stream \in Seq(S) /\ outbox' \in Seq(S)
  <2>1. PICK S : Stream \in Seq(S)
    BY <1>2 DEF RestInv, QueueOK
  <2>2. PICK T : outbox' \in Seq(T)
    BY <1>3, ToldInOrder
  <2>3. Stream \in Seq(S \cup T) /\ outbox' \in Seq(S \cup T)
    BY <2>1, <2>2
  <2> QED  BY <2>3
<1>5. PICK said : /\ LeadsTo(said, Stream, Present)
                  /\ Shows(shown, said[0])
                  /\ HiddenFor(said, Stream)
  BY <1>2 DEF TagsOK
<1>6. PICK more : /\ LeadsTo(more, Stream', Present')
                  /\ \A i \in 0..Len(Stream) : more[i] = said[i]
  BY <1>2, <1>3, <1>4, <1>5, ToldMore
<1>7. more[0] = said[0] /\ \A k \in 1..Len(Stream) : more[k] = said[k]
  BY <1>4, <1>6
<1>8. Stream' \in Seq(S) /\ \A k \in 1..Len(Stream) : k \in 1..Len(Stream')
  BY <1>2, <1>4, Joined
<1>9. retryOwed' = retryOwed \/ Present'.live = 0
  <2>1. CASE Exit
    <3>1. presence'.session = 0
      BY <2>1 DEF Exit, ClearPresence, NoPresence
    <3> QED  BY <3>1 DEF Present
  <2>2. CASE ~Exit
    BY <2>2 DEF Handler, AwakeSteps, InitBegin, OpenSucceeds, OpenFails,
       OpenReturns, OpenCancelled, LoopTop, TakeRetry, RememberScanning,
       ScanningOn, ScanningOff, ScanningFails, ScanningCancelled,
       TakeSetScanning, NoCommand, Poll, PollFails, PollCancelled,
       UnexpectedFailure, Close, End, Wait, SpuriousWakeup, Move, historyVars
  <2> QED  BY <2>1, <2>2
<1>10. (HiddenFor(more, Stream))'
  <2>1. ASSUME more[0].live # 0, ~shown'.present, ~retryOwed',
               ui' # "retry_post"
        PROVE  \E k \in 1..Len(Stream') : more[k].live = 0
    <3>1. CASE Present'.live = 0
      BY <1>6, <1>8, <2>1, <3>1, GoneIsHidden
    <3>2. CASE retryOwed' = retryOwed
      <4>1. \E k \in 1..Len(Stream) : said[k].live = 0
        BY <1>2, <1>5, <1>7, <2>1, <3>2 DEF HiddenFor
      <4> QED  BY <1>7, <1>8, <4>1
    <3> QED  BY <1>9, <3>1, <3>2
  <2> QED  BY <2>1 DEF HiddenFor
<1> QED  BY <1>2, <1>5, <1>6, <1>7, <1>10 DEF TagsOK, Shows

(* ... and when it pushes an event.                                        *)
LEMMA PushShowsTag ==
    ASSUME RestInv, ThreadKnows, TagsOK, Push, UNCHANGED modelVars
    PROVE  TagsOK'
<1>1. SUFFICES ASSUME Whole'
               PROVE  TagsOK'
  BY DEF TagsOK
<1>2. Stream' = Stream /\ queue'.dropped = queue.dropped
  <2>1. ~(queue'.dropped > 0)
    BY <1>1 DEF Whole
  <2> QED  BY <2>1, PushMoves
<1>3. Whole /\ presence' = presence /\ ui' = ui /\ shown' = shown
  BY <1>1, <1>2, PushRuns DEF Whole, modelVars
<1>4. PICK said : /\ LeadsTo(said, Stream, Present)
                  /\ Shows(shown, said[0])
                  /\ HiddenFor(said, Stream)
  BY <1>3 DEF TagsOK
<1>5. PICK S : queue.events \in Seq(S) /\ outbox \in Seq(S)
  BY StreamParts
<1>6. retryOwed => retryOwed' \/ Present.live = 0
  <2>1. /\ outbox # <<>>
        /\ retryOwed' = (retryOwed /\ Head(outbox).type \notin Outcomes)
    BY DEF Push
  <2>2. 1 \in 1..Len(outbox) /\ Head(outbox) = outbox[1]
    BY <1>5, <2>1
  <2>3. Head(outbox).type \in Outcomes => presence.tag = NoTag
    BY <2>2 DEF ThreadKnows
  <2> QED  BY <2>1, <2>3, NoTagNoSession
<1>7. (HiddenFor(said, Stream))'
  <2>1. Stream \in Seq(S)
    BY <1>5 DEF Stream
  <2>2. ASSUME said[0].live # 0, Present.live = 0
        PROVE  \E k \in 1..Len(Stream) : said[k].live = 0
    BY <1>4, <2>1, <2>2, GoneIsHidden
  <2> QED  BY <1>2, <1>3, <1>4, <1>6, <2>2 DEF HiddenFor
<1>8. Present' = Present
  BY <1>3 DEF Present
<1> QED  BY <1>2, <1>3, <1>4, <1>7, <1>8 DEF TagsOK

(* One event says of the tag what it makes the page show.                  *)
LEMMA EventShows ==
    ASSUME shown \in ShownType, NEW a, NEW e, NEW b,
           Shows(shown, a), Says(a, e, b)
    PROVE  /\ Shows(ShownAfter(e), b)
           /\ b.live # 0 /\ ~ShownAfter(e).present
                => a.live # 0 /\ ~shown.present
<1> USE DEF Shows, Says, ShownAfter
<1>1. CASE SaysNothing(e)
  <2>1. e.type \notin {"TagPresented", "TagUpdated", "TagRemoved"}
    BY <1>1 DEF SaysNothing
  <2>2. b = a
    BY <2>1
  <2>3. ShownAfter(e) = shown
    BY <2>1
  <2> QED  BY <2>2, <2>3
<1>2. CASE e.type = "TagPresented"
  <2>1. ShownAfter(e) = [id |-> e.session, present |-> TRUE, tag |-> e.tag]
    BY <1>2
  <2>2. b = [live |-> e.session, tag |-> e.tag, issued |-> e.session]
    BY <1>2 DEF SaysNothing
  <2>3. /\ ShownAfter(e).present /\ ShownAfter(e).id = e.session
        /\ ShownAfter(e).tag = e.tag
        /\ b.live = e.session /\ b.tag = e.tag
    BY <2>1, <2>2
  <2> QED  BY <2>3 DEF Shows
<1>3. CASE e.type = "TagUpdated"
  <2>1. /\ a.live # 0 /\ e.session = a.live
        /\ b.live = a.live /\ b.tag = e.tag
    BY <1>3 DEF SaysNothing
  <2>2. CASE shown.present
    <3>1. shown.id = e.session
      BY <2>1, <2>2
    <3>2. ShownAfter(e) = [shown EXCEPT !.tag = e.tag]
      BY <1>3, <2>2, <3>1
    <3>3. /\ ShownAfter(e).id = shown.id /\ ShownAfter(e).tag = e.tag
          /\ ShownAfter(e).present = shown.present
      BY <3>2 DEF ShownType
    <3> QED  BY <2>1, <2>2, <3>1, <3>3
  <2>3. CASE ~shown.present
    <3>1. ShownAfter(e) = shown
      BY <1>3, <2>3
    <3> QED  BY <2>1, <2>3, <3>1
  <2> QED  BY <2>2, <2>3
<1>4. CASE e.type = "TagRemoved"
  <2>1. a.live # 0 /\ e.session = a.live /\ b.live = 0
    BY <1>4 DEF SaysNothing
  <2>2. ~ShownAfter(e).present
    <3>1. CASE shown.id = e.session
      <4>1. ShownAfter(e) = [shown EXCEPT !.present = FALSE, !.tag = e.tag]
        BY <1>4, <3>1 DEF Removed
      <4> QED  BY <4>1 DEF ShownType
    <3>2. CASE shown.id # e.session
      <4>1. ShownAfter(e) = shown
        BY <1>4, <3>2
      <4> QED  BY <2>1, <3>2, <4>1
    <3> QED  BY <3>1, <3>2
  <2> QED  BY <2>1, <2>2
<1> QED  BY <1>1, <1>2, <1>3, <1>4 DEF SaysNothing

(* TagsOK when the UI thread reads an event.                               *)
LEMMA TickShowsTag ==
    ASSUME RestInv, TagsOK, status \in StatusType, shown \in ShownType,
           TickEvent
    PROVE  TagsOK'
<1> DEFINE e == Popped(queue)
<1>1. SUFFICES ASSUME Whole'
               PROVE  TagsOK'
  BY DEF TagsOK
<1>2. /\ TryPopEvent(UiThread) /\ status' = StatusAfter(e)
      /\ shown' = ShownAfter(e) /\ ui = "tick" /\ ui' = ui
  BY DEF TickEvent
<1>3. queue.dropped = 0 /\ ~status.dropped
  <2>1. CASE queue.dropped # 0
    <3>1. e.type = "QueueOverflow"
      BY <1>2, <2>1, PopMoves
    <3>2. status'.dropped = TRUE
      BY <1>2, <3>1 DEF StatusAfter, StatusType
    <3> QED  BY <1>1, <3>2 DEF Whole
  <2>2. ASSUME status.dropped
        PROVE  FALSE
    <3>1. status.dropped = TRUE
      BY <2>2 DEF StatusType
    <3> HIDE DEF e
    <3> QED  BY <1>1, <1>2, <3>1 DEF StatusAfter, Healthy, StatusType, Whole
  <2> QED  BY <2>1, <2>2
<1>4. Stream # <<>> /\ Stream' = Tail(Stream) /\ Stream[1] = e
  BY <1>2, <1>3, PopMoves
<1>5. presence' = presence /\ retryOwed' = retryOwed
  BY <1>2 DEF TryPopEvent, hardware, historyVars
<1> HIDE DEF e
<1>6. PICK S : Stream \in Seq(S)
  <2>1. PICK S : queue.events \in Seq(S) /\ outbox \in Seq(S)
    BY StreamParts
  <2> QED  BY <2>1 DEF Stream
<1>7. PICK said : /\ LeadsTo(said, Stream, Present)
                  /\ Shows(shown, said[0])
                  /\ HiddenFor(said, Stream)
  BY <1>2, <1>3 DEF TagsOK, Whole, Anew
<1>8. Says(said[0], e, said[1])
  BY <1>4, <1>6, <1>7, ToldLess
<1>9. PICK rest : /\ LeadsTo(rest, Stream', Present)
                  /\ \A i \in 0..Len(Stream') : rest[i] = said[i + 1]
  BY <1>4, <1>6, <1>7, ToldLess
<1>10. /\ Len(Stream) \in Nat /\ Len(Stream') \in Nat
       /\ Len(Stream') = Len(Stream) - 1
  BY <1>4, <1>6
<1>11. rest[0] = said[1]
  BY <1>9, <1>10
<1>12. Shows(shown', rest[0])
  BY <1>2, <1>7, <1>8, <1>11, EventShows
<1>13. (HiddenFor(rest, Stream))'
  <2>1. ASSUME rest[0].live # 0, ~shown'.present, ~retryOwed',
               ui' # "retry_post"
        PROVE  \E k \in 1..Len(Stream') : rest[k].live = 0
    <3>1. said[0].live # 0 /\ ~shown.present
      BY <1>2, <1>7, <1>8, <1>11, <2>1, EventShows
    <3>2. PICK k \in 1..Len(Stream) : said[k].live = 0
      BY <1>2, <1>5, <1>7, <2>1, <3>1 DEF HiddenFor
    <3>3. k # 1
      BY <1>11, <2>1, <3>2
    <3>4. k - 1 \in 1..Len(Stream') /\ rest[k - 1] = said[(k - 1) + 1]
      BY <1>9, <1>10, <3>3
    <3> QED  BY <3>2, <3>4
  <2> QED  BY <2>1 DEF HiddenFor
<1>14. Present' = Present
  BY <1>5 DEF Present
<1> QED  BY <1>9, <1>12, <1>13, <1>14 DEF TagsOK

(* When nothing moves but what hides the tag, or lets it be hidden.        *)
LEMMA StillShowsTag ==
    ASSUME RestInv, TagsOK, Whole' => Whole,
           Stream' = Stream, presence' = presence,
           \/ shown' = shown
           \/ ~shown'.present,
           \/ /\ shown' = shown /\ (retryOwed => retryOwed')
              /\ ui = "retry_post" => ui' = "retry_post"
           \/ retryOwed' \/ ui' = "retry_post" \/ presence.tag = NoTag
    PROVE  TagsOK'
<1>1. SUFFICES ASSUME Whole'
               PROVE  TagsOK'
  BY DEF TagsOK
<1>2. PICK said : /\ LeadsTo(said, Stream, Present)
                  /\ Shows(shown, said[0])
                  /\ HiddenFor(said, Stream)
  BY <1>1 DEF TagsOK
<1>3. PICK S : Stream \in Seq(S)
  <2>1. PICK S : queue.events \in Seq(S) /\ outbox \in Seq(S)
    BY StreamParts
  <2> QED  BY <2>1 DEF Stream
<1>4. Present' = Present /\ LeadsTo(said, Stream', Present')
  BY <1>2 DEF Present
<1>5. Shows(shown', said[0])
  BY <1>2 DEF Shows
<1>6. (HiddenFor(said, Stream))'
  <2>1. CASE /\ shown' = shown /\ (retryOwed => retryOwed')
             /\ ui = "retry_post" => ui' = "retry_post"
    BY <1>2, <2>1 DEF HiddenFor
  <2>2. CASE retryOwed' \/ ui' = "retry_post"
    BY <2>2 DEF HiddenFor
  <2>3. CASE presence.tag = NoTag
    <3>1. said[0].live # 0 => \E k \in 1..Len(Stream) : said[k].live = 0
      BY <1>2, <1>3, <2>3, NoTagNoSession, GoneIsHidden
    <3> QED  BY <3>1 DEF HiddenFor
  <2> QED  BY <2>1, <2>2, <2>3
<1> QED  BY <1>4, <1>5, <1>6 DEF TagsOK

(* TagsOK when the UI thread moves.                                        *)
LEMMA UiShowsTag ==
    ASSUME ModelOK, TagsOK, UiSteps
    PROVE  TagsOK'
<1> USE DEF Ui
<1>1. /\ RestInv /\ UiPlaceOK /\ RunOK
      /\ status \in StatusType /\ shown \in ShownType
      /\ ui \in Anew => ~shown.present
      /\ thread \in Over => presence.tag = NoTag
  BY DEF ModelOK, StatusShape, RestInv, PlacesOK, Over
<1>2. CASE TickEvent
  BY <1>1, <1>2, TickShowsTag
<1>3. CASE ModelStart \/ RetryStarts \/ WorkerStarts
  <2>1. ui' \in Anew
    BY <1>3 DEF ModelStart, RetryStarts, WorkerStarts, Anew, modelVars
  <2> QED  BY <2>1 DEF TagsOK, Whole
<1>4. CASE WorkerStarted
  <2>1. /\ outbox' = <<>> /\ queue' = EmptyQueue /\ presence' = NoPresence(1)
        /\ ~shown.present /\ shown' = shown
    BY <1>1, <1>4, WorkerStartsFresh DEF WorkerStarted, Anew
  <2>2. Stream' = <<>> /\ Present'.live = 0
    BY <2>1 DEF Stream, EmptyQueue, Present, NoPresence
  <2>3. PICK said : LeadsTo(said, <<>>, Present') /\ said[0] = Present'
    <3>1. Tells(Present', <<>>, Present')
      BY DEF Tells
    <3> QED  BY <3>1, ToldStepwise
  <2>4. Shows(shown', said[0]) /\ (HiddenFor(said, Stream))'
    BY <2>1, <2>2, <2>3 DEF Shows, HiddenFor
  <2> QED  BY <2>2, <2>3, <2>4 DEF TagsOK
<1>5. CASE WorkerStopped \/ ModelRetry \/ RetryRefused \/ RetryPosted
           \/ RetryReturns \/ ModelStop \/ WorkerStops \/ TickBegin \/ TickEnd
  <2>1. UNCHANGED <<queue, outbox, presence>>
    BY <1>5 DEF WorkerStopped, StopJoin, ModelRetry, RetryRefused, RetryPosted,
       PostRetryAgain, PostCommand, Accept, RetryReturns, Notify, NotifyAndGo,
       ModelStop, Stop, WorkerStops, StopNotify, TickBegin, TickEnd, vars,
       hardware
  <2>2. Stream' = Stream
    BY <2>1 DEF Stream
  <2>3. ui' \in Anew \/ (Whole' => Whole)
    <3>1. status'.dropped = status.dropped
      BY <1>1, <1>5 DEF WorkerStopped, ModelRetry, RetryRefused, RetryPosted,
         RetryReturns, ModelStop, WorkerStops, TickBegin, TickEnd, modelVars,
         StatusType
    <3>2. ui' \notin Anew => ui \notin Anew
      BY <1>5 DEF WorkerStopped, ModelRetry, RetryRefused, RetryPosted,
         RetryReturns, ModelStop, WorkerStops, TickBegin, TickEnd, modelVars,
         Anew
    <3> QED  BY <2>1, <3>1, <3>2 DEF Whole
  <2>4. ui' \in Anew => TagsOK'
    BY DEF TagsOK, Whole
  <2>5. CASE WorkerStopped
    <3>1. ~shown'.present
      BY <1>1, <2>5, HiddenTag DEF WorkerStopped
    <3>2. presence.tag = NoTag
      BY <1>1, <2>5 DEF WorkerStopped, StopJoin, Finished, Over
    <3> QED  BY <1>1, <2>1, <2>2, <2>3, <2>4, <3>1, <3>2, StillShowsTag
  <2>6. CASE ModelRetry
    <3>1. ~shown'.present
      BY <1>1, <2>6, HiddenTag DEF ModelRetry
    <3>2. ui' \in Anew \/ ui' = "retry_post"
      BY <2>6 DEF ModelRetry, Anew
    <3> QED  BY <1>1, <2>1, <2>2, <2>3, <2>4, <3>1, <3>2, StillShowsTag
  <2>7. CASE RetryPosted
    <3>1. retryOwed' /\ shown' = shown
      BY <2>7 DEF RetryPosted, PostRetryAgain, PostCommand, Accept
    <3> QED  BY <1>1, <2>1, <2>2, <2>3, <2>4, <3>1, StillShowsTag
  <2>8. CASE RetryRefused
    <3>1. ~running /\ shown' = shown
      BY <1>1, <2>8 DEF RetryRefused, Accepting, RunOK, UiPlaceOK
    <3>2. presence.tag = NoTag
      BY <1>1, <3>1 DEF RunOK
    <3> QED  BY <1>1, <2>1, <2>2, <2>3, <2>4, <3>1, <3>2, StillShowsTag
  <2>9. CASE RetryReturns \/ ModelStop \/ WorkerStops \/ TickBegin \/ TickEnd
    <3>1. /\ shown' = shown /\ retryOwed' = retryOwed
          /\ ui # "retry_post"
      BY <2>9 DEF RetryReturns, Notify, NotifyAndGo, ModelStop, Stop,
         WorkerStops, StopNotify, TickBegin, TickEnd, vars, historyVars,
         modelVars
    <3> QED  BY <1>1, <2>1, <2>2, <2>3, <2>4, <3>1, StillShowsTag
  <2> QED  BY <1>5, <2>5, <2>6, <2>7, <2>8, <2>9
<1> QED  BY <1>2, <1>3, <1>4, <1>5 DEF UiSteps, UserActs, UiContinues

(* When tick() has read all events and none was dropped, the page shows    *)
(* the tag the worker has announced, with its last content, and no other;  *)
(* a tag of an earlier run, whose removal start() has thrown away, is      *)
(* never shown, though its number may be handed out again.                 *)
THEOREM TagIsShown == ModelSpec => []ScreenShowsTheTag
<1>1. ModelInit => TagsOK
  <2> SUFFICES ASSUME ModelInit
               PROVE  TagsOK
    OBVIOUS
  <2>1. Stream = <<>> /\ Present.live = 0 /\ ~shown.present
    BY DEF ModelInit, Init, Stream, EmptyQueue, Present, NoPresence,
           NothingShown
  <2>2. PICK said : LeadsTo(said, <<>>, Present) /\ said[0] = Present
    <3>1. Tells(Present, <<>>, Present)
      BY DEF Tells
    <3> QED  BY <3>1, ToldStepwise
  <2> QED  BY <2>1, <2>2 DEF TagsOK, Shows, HiddenFor
<1>2. ModelOK /\ ModelOK' /\ TagsOK /\ [ModelNext]_allVars => TagsOK'
  <2> SUFFICES ASSUME ModelOK, ModelOK', TagsOK, [ModelNext]_allVars
               PROVE  TagsOK'
    OBVIOUS
  <2>1. CASE UNCHANGED allVars
    <3>1. /\ UNCHANGED <<presence, outbox, queue, retryOwed>>
          /\ UNCHANGED <<status, shown, ui>>
      BY <2>1 DEF allVars, vars, modelVars, hardware, historyVars
    <3>2. Stream' = Stream /\ (Whole' <=> Whole)
      BY <3>1 DEF Stream, Whole
    <3> QED  BY <3>1, <3>2, StillShowsTag DEF ModelOK
  <2>2. CASE UiSteps
    BY <2>2, UiShowsTag
  <2>3. CASE (Handler \/ Push) /\ UNCHANGED modelVars
    BY <2>3, HandlerShowsTag, PushShowsTag DEF ModelOK
  <2> QED  BY <2>1, <2>2, <2>3, ModelCases
<1>3. ModelOK /\ TagsOK => ScreenShowsTheTag
  <2> SUFFICES ASSUME ModelOK, TagsOK
               PROVE  ScreenShowsTheTag
    OBVIOUS
  <2>1. shown.present => started /\ shown.id < presence.nextSession
    BY DEF ModelOK, StatusShape
  <2>2. ASSUME started, ui = "idle", Quiet, ~status.dropped
        PROVE  /\ shown.present
                    => announced.live = shown.id /\ shown.tag = announced.tag
               /\ announced.live # 0 /\ ~retryOwed => shown.present
    <3>1. Whole /\ Stream = <<>> /\ outbox = <<>>
      BY <2>2 DEF Quiet, EmptyQueue, Whole, Stream, Anew
    <3>2. announced = Present
      BY <3>1 DEF ModelOK, RestInv, ToldSoFar, Tells
    <3>3. PICK said : /\ LeadsTo(said, <<>>, Present)
                      /\ Shows(shown, said[0])
                      /\ HiddenFor(said, <<>>)
      BY <3>1 DEF TagsOK
    <3>4. said[0] = Present /\ 1..Len(<<>>) = {}
      BY <3>3 DEF LeadsTo
    <3> QED  BY <2>2, <3>2, <3>3, <3>4 DEF Shows, HiddenFor
  <2> QED  BY <2>1, <2>2 DEF ScreenShowsTheTag
<1> QED  BY <1>1, <1>2, <1>3, ModelStaysOK, PTL DEF ModelSpec
=============================================================================
