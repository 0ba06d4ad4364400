--------------------------- MODULE NfcWorkerProofs ---------------------------
(***************************************************************************)
(* What NfcWorker keeps for any number of callers, any capacity of its     *)
(* queues and any bound on runs, commands and sessions: no wake-up is      *)
(* lost, an accepted Retry is never orphaned, a stopped worker leaves      *)
(* nothing behind, and its events tell of one tag session after the other. *)
(***************************************************************************)
EXTENDS NfcWorker, TagPresenceLemmas, SequenceTheorems, TLAPS

(* The steps of the hardware thread that neither put it to sleep nor leave *)
(* it asleep.                                                              *)
AwakeSteps ==
    \/ InitBegin \/ OpenSucceeds \/ OpenFails \/ OpenCancelled
    \/ LoopTop \/ TakeRetry \/ RememberScanning \/ ScanningOn \/ ScanningOff
    \/ ScanningFails \/ ScanningCancelled \/ NoCommand
    \/ Poll \/ PollFails \/ PollCancelled \/ UnexpectedFailure
    \/ Exit \/ Close \/ End

LEMMA AwakeStepsLeaveTheCallers ==
    ASSUME AwakeSteps
    PROVE  thread' # "asleep" /\ caller' = caller
<1> USE DEF At, Move, Take, TakeSetScanning, OpenReturns, GiveUpReader,
            others, callerVars
<1>1. CASE InitBegin \/ UnexpectedFailure
  BY <1>1 DEF InitBegin, UnexpectedFailure
<1>2. CASE OpenSucceeds \/ OpenFails \/ OpenCancelled
  BY <1>2 DEF OpenSucceeds, OpenFails, OpenCancelled
<1>3. CASE LoopTop \/ NoCommand \/ End
  BY <1>3 DEF LoopTop, NoCommand, End
<1>4. CASE TakeRetry \/ RememberScanning
  BY <1>4 DEF TakeRetry, RememberScanning
<1>5. CASE ScanningOn \/ ScanningOff \/ ScanningFails \/ ScanningCancelled
  BY <1>5 DEF ScanningOn, ScanningOff, ScanningFails, ScanningCancelled
<1>6. CASE Poll \/ PollFails \/ PollCancelled
  BY <1>6 DEF Poll, PollFails, PollCancelled
<1>7. CASE Exit \/ Close
  BY <1>7 DEF Exit, Close
<1>8. QED
  BY <1>1, <1>2, <1>3, <1>4, <1>5, <1>6, <1>7 DEF AwakeSteps

-----------------------------------------------------------------------------
(* No wake-up is lost.                                                     *)

CallersOK == caller \in [Callers -> CallerPlaces]

WakeInv == CallersOK /\ NoLostWakeup

(* A caller that goes from one place to another leaves the others alone.   *)
LEMMA GoKeeps ==
    ASSUME CallersOK, NEW c \in Callers, NEW from \in CallerPlaces,
           NEW to \in CallerPlaces, Go(c, from, to)
    PROVE  /\ CallersOK'
           /\ caller'[c] = to
           /\ \A d \in Callers : d # c => caller'[d] = caller[d]
BY DEF Go, CallersOK

(* A caller that owes no notification makes a step that gives no reason to *)
(* wake up.                                                                *)
LEMMA OtherPlaceKeeps ==
    ASSUME WakeInv, NEW c \in Callers, NEW from \in CallerPlaces,
           NEW to \in CallerPlaces, Go(c, from, to),
           from \notin {"notify", "stop_notify"},
           thread' = "asleep" /\ (stopRequested' \/ commands' # <<>>)
             => thread = "asleep" /\ (stopRequested \/ commands # <<>>)
    PROVE  WakeInv'
<1>1. CallersOK'
  BY GoKeeps DEF WakeInv
<1>2. NoLostWakeup'
  <2> SUFFICES ASSUME thread' = "asleep", stopRequested' \/ commands' # <<>>
               PROVE  \E d \in Callers : caller'[d] \in {"notify", "stop_notify"}
    BY DEF NoLostWakeup
  <2>1. PICK d \in Callers : caller[d] \in {"notify", "stop_notify"}
    BY DEF WakeInv, NoLostWakeup
  <2>2. d # c
    BY <2>1 DEF Go
  <2>3. caller'[d] = caller[d]
    BY <2>2, GoKeeps DEF WakeInv
  <2>4. QED
    BY <2>1, <2>3
<1>3. QED
  BY <1>1, <1>2 DEF WakeInv

(* A caller that gives a reason to wake up is the one that notifies.       *)
LEMMA NotifierKeeps ==
    ASSUME WakeInv, NEW c \in Callers, NEW from \in CallerPlaces,
           NEW to \in {"notify", "stop_notify"}, Go(c, from, to)
    PROVE  WakeInv'
<1>1. to \in CallerPlaces
  BY DEF CallerPlaces
<1>2. CallersOK' /\ caller'[c] = to
  BY <1>1, GoKeeps DEF WakeInv
<1>3. QED
  BY <1>2 DEF WakeInv, NoLostWakeup

(* Nobody sleeps after a notification.                                     *)
LEMMA NotificationKeeps ==
    ASSUME WakeInv, NEW c \in Callers, NEW from \in CallerPlaces,
           NEW to \in CallerPlaces, NotifyAndGo(c, from, to)
    PROVE  WakeInv'
<1>1. CallersOK'
  BY GoKeeps DEF WakeInv, NotifyAndGo
<1>2. thread' # "asleep"
  BY DEF NotifyAndGo, Woken
<1>3. QED
  BY <1>1, <1>2 DEF WakeInv, NoLostWakeup

LEMMA CallerWakes ==
    ASSUME WakeInv, NEW c \in Callers, Calls(c) \/ Continues(c)
    PROVE  WakeInv'
<1> USE DEF CallerPlaces
<1>1. CASE Start(c)
  BY <1>1, OtherPlaceKeeps DEF Start, flagVars
<1>2. CASE Stop(c)
  BY <1>2, NotifierKeeps DEF Stop
<1>3. CASE PostShutdown(c)
  BY <1>3, NotifierKeeps DEF PostShutdown
<1>4. CASE PostRetryAgain(c)
  BY <1>4 DEF PostRetryAgain, Accept, flagVars, WakeInv, CallersOK, NoLostWakeup
<1>5. ASSUME NEW command \in Commands, PostCommand(c, command)
      PROVE  WakeInv'
  BY <1>5, NotifierKeeps DEF PostCommand
<1>6. CASE TryPopEvent(c)
  BY <1>6 DEF TryPopEvent, callerVars, flagVars, WakeInv, CallersOK, NoLostWakeup
<1>7. CASE StartJoin(c)
  BY <1>7, OtherPlaceKeeps DEF StartJoin
<1>8. CASE StartEvents(c)
  BY <1>8, OtherPlaceKeeps DEF StartEvents, flagVars
<1>9. CASE StartThread(c)
  <2>1. thread' # "asleep"
    BY <1>9 DEF StartThread
  <2>2. QED
    BY <1>9, <2>1, OtherPlaceKeeps DEF StartThread
<1>10. CASE StopNotify(c)
  BY <1>10, NotificationKeeps DEF StopNotify
<1>11. CASE StopJoin(c)
  <2>1. thread' # "asleep"
    BY <1>11 DEF StopJoin
  <2>2. QED
    BY <1>11, <2>1, OtherPlaceKeeps DEF StopJoin
<1>12. CASE Notify(c)
  BY <1>12, NotificationKeeps DEF Notify
<1>13. QED
  BY <1>1, <1>2, <1>3, <1>4, <1>5, <1>6, <1>7, <1>8, <1>9, <1>10, <1>11, <1>12
  DEF Calls, Continues

LEMMA StepWakes == WakeInv /\ [Next]_vars => WakeInv'
<1> SUFFICES ASSUME WakeInv, [Next]_vars
             PROVE  WakeInv'
  OBVIOUS
<1>1. ASSUME NEW c \in Callers, Calls(c) \/ Continues(c)
      PROVE  WakeInv'
  BY <1>1, CallerWakes
<1>2. CASE AwakeSteps
  BY <1>2, AwakeStepsLeaveTheCallers DEF WakeInv, CallersOK, NoLostWakeup
<1>3. CASE Push
  BY <1>3 DEF Push, callerVars, flagVars, WakeInv, CallersOK, NoLostWakeup
<1>4. CASE Wait
  BY <1>4 DEF Wait, Move, Work, others, callerVars, flagVars, WakeInv,
              CallersOK, NoLostWakeup
<1>5. CASE SpuriousWakeup
  BY <1>5 DEF SpuriousWakeup, Move, others, callerVars, WakeInv, CallersOK,
              NoLostWakeup
<1>6. CASE UNCHANGED vars
  BY <1>6 DEF vars, callerVars, flagVars, WakeInv, CallersOK, NoLostWakeup
<1>7. QED
  BY <1>1, <1>2, <1>3, <1>4, <1>5, <1>6 DEF Next, ThreadStep, AwakeSteps

(* Whoever gives the hardware thread work while it sleeps still has to     *)
(* notify it: stop and post notify after they released the mutex under     *)
(* which the thread tested its predicate and went to sleep.                *)
THEOREM NoWakeupIsLost == Spec => []NoLostWakeup
<1>1. Init => WakeInv
  BY DEF Init, WakeInv, CallersOK, CallerPlaces, NoLostWakeup
<1>2. WakeInv => NoLostWakeup
  BY DEF WakeInv
<1>3. QED
  BY <1>1, <1>2, StepWakes, PTL DEF Spec

-----------------------------------------------------------------------------
(* Only the holder of _lifecycle_mutex is inside start or stop, and a      *)
(* start that has joined the old hardware thread meets no other.           *)

Preparing == {"start_events", "start_thread"}

StartStopOK ==
    /\ \A c \in Callers : caller[c] \in InStart \cup InStop => c \in lifecycle
    /\ \A c, d \in lifecycle : c = d
    /\ \A c \in Callers : caller[c] \in Preparing => thread = "none"

LifecycleInv == CallersOK /\ StartStopOK

(* The steps of the hardware thread are those of one that runs.            *)
LEMMA ThreadStepsRun ==
    ASSUME AwakeSteps \/ Wait \/ SpuriousWakeup
    PROVE  /\ thread # "none" /\ outbox = <<>>
           /\ UNCHANGED callerVars
<1> USE DEF At, Move, Take, TakeSetScanning, OpenReturns, GiveUpReader,
            others, callerVars
<1>1. CASE InitBegin \/ UnexpectedFailure
  BY <1>1 DEF InitBegin, UnexpectedFailure
<1>2. CASE OpenSucceeds \/ OpenFails \/ OpenCancelled
  BY <1>2 DEF OpenSucceeds, OpenFails, OpenCancelled
<1>3. CASE LoopTop \/ NoCommand \/ End
  BY <1>3 DEF LoopTop, NoCommand, End
<1>4. CASE TakeRetry \/ RememberScanning
  BY <1>4 DEF TakeRetry, RememberScanning
<1>5. CASE ScanningOn \/ ScanningOff \/ ScanningFails \/ ScanningCancelled
  BY <1>5 DEF ScanningOn, ScanningOff, ScanningFails, ScanningCancelled
<1>6. CASE Poll \/ PollFails \/ PollCancelled
  BY <1>6 DEF Poll, PollFails, PollCancelled
<1>7. CASE Exit \/ Close
  BY <1>7 DEF Exit, Close
<1>8. CASE Wait \/ SpuriousWakeup
  BY <1>8 DEF Wait, SpuriousWakeup
<1>9. QED
  BY <1>1, <1>2, <1>3, <1>4, <1>5, <1>6, <1>7, <1>8 DEF AwakeSteps

LEMMA CallerLocks ==
    ASSUME LifecycleInv, NEW c \in Callers, Calls(c) \/ Continues(c)
    PROVE  LifecycleInv'
<1> USE DEF CallerPlaces, InStart, InStop, Preparing
<1>1. CASE Start(c)
  BY <1>1 DEF Start, Lock, Go, LifecycleInv, CallersOK, StartStopOK
<1>2. CASE Stop(c)
  BY <1>2 DEF Stop, Lock, Go, LifecycleInv, CallersOK, StartStopOK
<1>3. CASE PostShutdown(c)
  BY <1>3 DEF PostShutdown, Go, LifecycleInv, CallersOK, StartStopOK
<1>4. CASE PostRetryAgain(c)
  BY <1>4 DEF PostRetryAgain, Accept, LifecycleInv, CallersOK, StartStopOK
<1>5. ASSUME NEW command \in Commands, PostCommand(c, command)
      PROVE  LifecycleInv'
  BY <1>5 DEF PostCommand, Accept, Go, LifecycleInv, CallersOK, StartStopOK
<1>6. CASE TryPopEvent(c)
  BY <1>6 DEF TryPopEvent, callerVars, LifecycleInv, CallersOK, StartStopOK
<1>7. CASE StartJoin(c)
  BY <1>7 DEF StartJoin, Go, LifecycleInv, CallersOK, StartStopOK
<1>8. CASE StartEvents(c)
  BY <1>8 DEF StartEvents, Go, LifecycleInv, CallersOK, StartStopOK
<1>9. CASE StartThread(c)
  <2>1. \A d \in Callers : d # c => caller[d] \notin InStart \cup InStop
    BY <1>9 DEF StartThread, Go, LifecycleInv, StartStopOK
  <2>2. QED
    BY <1>9, <2>1 DEF StartThread, Go, Unlock, LifecycleInv, CallersOK,
                      StartStopOK
<1>10. CASE StopNotify(c) \/ Notify(c)
  BY <1>10 DEF StopNotify, Notify, NotifyAndGo, Woken, Go, LifecycleInv,
               CallersOK, StartStopOK
<1>11. CASE StopJoin(c)
  <2>1. \A d \in Callers : d # c => caller[d] \notin InStart \cup InStop
    BY <1>11 DEF StopJoin, Go, LifecycleInv, StartStopOK
  <2>2. QED
    BY <1>11, <2>1 DEF StopJoin, Go, Unlock, LifecycleInv, CallersOK,
                       StartStopOK
<1>12. QED
  BY <1>1, <1>2, <1>3, <1>4, <1>5, <1>6, <1>7, <1>8, <1>9, <1>10, <1>11
  DEF Calls, Continues

LEMMA StepLocks == LifecycleInv /\ [Next]_vars => LifecycleInv'
<1> SUFFICES ASSUME LifecycleInv, [Next]_vars
             PROVE  LifecycleInv'
  OBVIOUS
<1>1. ASSUME NEW c \in Callers, Calls(c) \/ Continues(c)
      PROVE  LifecycleInv'
  BY <1>1, CallerLocks
<1>2. CASE AwakeSteps \/ Wait \/ SpuriousWakeup
  <2>1. thread # "none" /\ UNCHANGED callerVars
    BY <1>2, ThreadStepsRun
  <2>2. QED
    BY <2>1 DEF callerVars, LifecycleInv, CallersOK, StartStopOK
<1>3. CASE Push
  BY <1>3 DEF Push, callerVars, LifecycleInv, CallersOK, StartStopOK
<1>4. CASE UNCHANGED vars
  BY <1>4 DEF vars, callerVars, LifecycleInv, CallersOK, StartStopOK
<1>5. QED
  BY <1>1, <1>2, <1>3, <1>4 DEF Next, ThreadStep, AwakeSteps

Inside(c) == caller[c] \in InStart \cup InStop

OneInside == \A c, d \in Callers : Inside(c) /\ Inside(d) => c = d

PreparedAlone == \A c \in Callers : caller[c] \in Preparing => thread = "none"

(* Two callers are never both inside start or stop, and the data of a new  *)
(* run is prepared while no hardware thread exists.                        *)
THEOREM StartAndStopExclude == Spec => [](OneInside /\ PreparedAlone)
<1>1. Init => LifecycleInv
  BY DEF Init, LifecycleInv, CallersOK, CallerPlaces, StartStopOK, InStart,
         InStop, Preparing
<1>2. LifecycleInv => OneInside /\ PreparedAlone
  BY DEF LifecycleInv, StartStopOK, OneInside, Inside, PreparedAlone
<1>3. QED
  BY <1>1, <1>2, StepLocks, PTL DEF Spec

-----------------------------------------------------------------------------
(* An accepted Retry always has an initialization that will answer it.     *)

(* The outcome of an initialization is the first of two events it leaves.  *)
OutcomeComes == \E e, s : outbox = <<e, s>> /\ e.type \in Outcomes

Owned ==
    retryOwed =>
        \/ RetryQueued
        \/ thread \in {"init", "open", "exit"}
        \/ OutcomeComes
        \/ ~Accepting

RetryInv ==
    /\ LifecycleInv
    /\ commands \in Seq(Commands)
    /\ initInProgress => thread = "open"
    /\ Owned

LEMMA RetryStaysBehind ==
    ASSUME commands \in Seq(Commands), commands # <<>>, RetryQueued,
           Head(commands) # Retry, commands' = Tail(commands)
    PROVE  RetryQueued'
<1>1. PICK i \in 1..Len(commands) : commands[i] = Retry
  BY DEF RetryQueued
<1>2. i - 1 \in 1..Len(Tail(commands)) /\ Tail(commands)[i - 1] = Retry
  BY <1>1
<1>3. QED
  BY <1>2 DEF RetryQueued

LEMMA RetryStaysQueued ==
    ASSUME commands \in Seq(Commands), NEW e \in Commands,
           commands' = Append(commands, e)
    PROVE  /\ RetryQueued \/ e = Retry => RetryQueued'
           /\ commands' \in Seq(Commands)
<1>1. ASSUME RetryQueued PROVE RetryQueued'
  <2>1. PICK i \in 1..Len(commands) : commands[i] = Retry
    BY <1>1 DEF RetryQueued
  <2>2. i \in 1..Len(Append(commands, e)) /\ Append(commands, e)[i] = Retry
    BY <2>1
  <2>3. QED
    BY <2>2 DEF RetryQueued
<1>2. ASSUME e = Retry PROVE RetryQueued'
  <2>1. /\ Len(commands) + 1 \in 1..Len(Append(commands, e))
        /\ Append(commands, e)[Len(commands) + 1] = Retry
    BY <1>2
  <2>2. QED
    BY <2>1 DEF RetryQueued
<1>3. QED
  BY <1>1, <1>2

(* A step that changes neither the retry nor the work in hand for it.      *)
LEMMA NothingOwedAnew ==
    ASSUME Owned, outbox = <<>>, UNCHANGED <<retryOwed, flagVars>>,
           thread \notin {"init", "open", "exit"},
           RetryQueued => RetryQueued'
    PROVE  Owned'
<1>1. ~OutcomeComes
  BY DEF OutcomeComes
<1>2. QED
  BY <1>1 DEF Owned, Accepting, flagVars

LEMMA CallerOwns ==
    ASSUME RetryInv, NEW c \in Callers, Calls(c) \/ Continues(c)
    PROVE  /\ commands' \in Seq(Commands)
           /\ initInProgress' => thread' = "open"
           /\ Owned'
<1> USE DEF RetryInv
<1>1. CASE Start(c)
  BY <1>1 DEF Start, flagVars, hardware, historyVars, Owned, RetryQueued,
              OutcomeComes, Accepting
<1>2. CASE Stop(c)
  BY <1>2 DEF Stop, hardware, historyVars, Owned, Accepting
<1>3. CASE PostShutdown(c)
  BY <1>3 DEF PostShutdown, hardware, historyVars, Owned, Accepting
<1>4. CASE PostRetryAgain(c)
  <2>1. RetryQueued \/ thread = "open"
    BY <1>4 DEF PostRetryAgain, RetryComing
  <2>2. QED
    BY <1>4, <2>1 DEF PostRetryAgain, Accept, hardware, flagVars, Owned,
                      RetryQueued
<1>5. ASSUME NEW command \in Commands, PostCommand(c, command)
      PROVE  /\ commands' \in Seq(Commands)
             /\ initInProgress' => thread' = "open"
             /\ Owned'
  <2>1. /\ RetryQueued \/ command = Retry => RetryQueued'
        /\ commands' \in Seq(Commands)
    BY <1>5, RetryStaysQueued DEF PostCommand
  <2>2. /\ retryOwed' => retryOwed \/ command = Retry
        /\ UNCHANGED <<thread, outbox, running, stopRequested, initInProgress>>
    BY <1>5 DEF PostCommand, Accept, hardware, flagVars
  <2>3. QED
    BY <2>1, <2>2 DEF Owned, OutcomeComes, Accepting
<1>6. CASE TryPopEvent(c)
  BY <1>6 DEF TryPopEvent, flagVars, hardware, historyVars, Owned, RetryQueued,
              OutcomeComes, Accepting
<1>7. CASE StartJoin(c)
  BY <1>7 DEF StartJoin, Finished, hardware, Owned
<1>8. CASE StartEvents(c)
  BY <1>8 DEF StartEvents, flagVars, hardware, historyVars, Owned, RetryQueued,
              OutcomeComes, Accepting
<1>9. CASE StartThread(c)
  <2>1. thread = "none"
    BY <1>9 DEF StartThread, Go, LifecycleInv, StartStopOK, Preparing
  <2>2. QED
    BY <1>9, <2>1 DEF StartThread, Owned, Accepting
<1>10. CASE StopNotify(c) \/ Notify(c)
  BY <1>10 DEF StopNotify, Notify, NotifyAndGo, Woken, flagVars, hardware,
               historyVars, Owned, RetryQueued, OutcomeComes, Accepting
<1>11. CASE StopJoin(c)
  BY <1>11 DEF StopJoin, Finished, hardware, historyVars, Owned, Accepting
<1>12. QED
  BY <1>1, <1>2, <1>3, <1>4, <1>5, <1>6, <1>7, <1>8, <1>9, <1>10, <1>11
  DEF Calls, Continues

(* A SetScanning taken off the queue leaves a Retry behind it there.       *)
LEMMA ScanningTaken ==
    ASSUME RetryInv, NEW on \in BOOLEAN, TakeSetScanning(on)
    PROVE  /\ commands' \in Seq(Commands)
           /\ initInProgress' => FALSE
           /\ Owned'
<1>1. /\ thread = "command" /\ outbox = <<>>
      /\ commands # <<>> /\ Head(commands) = SetScanning(on)
      /\ commands' = Tail(commands)
      /\ UNCHANGED <<flagVars, initInProgress, retryOwed>>
  BY DEF TakeSetScanning, Take, At, historyVars
<1>2. Head(commands) # Retry
  BY <1>1 DEF SetScanning, Retry
<1>3. RetryQueued => RetryQueued'
  BY <1>1, <1>2, RetryStaysBehind DEF RetryInv
<1>4. Owned'
  BY <1>1, <1>3, NothingOwedAnew DEF RetryInv
<1>5. QED
  BY <1>1, <1>4 DEF RetryInv

LEMMA ThreadOwns ==
    ASSUME RetryInv, AwakeSteps \/ Wait \/ SpuriousWakeup \/ Push
    PROVE  /\ commands' \in Seq(Commands)
           /\ initInProgress' => thread' = "open"
           /\ Owned'
<1> USE DEF RetryInv
<1>1. CASE InitBegin
  BY <1>1 DEF InitBegin, Owned
<1>2. CASE OpenSucceeds
  <2>1. /\ outbox' = <<Initialized,
                       State(IF scanRequested THEN "Scanning" ELSE "Idle")>>
        /\ initInProgress' = FALSE /\ commands' = commands
    BY <1>2 DEF OpenSucceeds, OpenReturns, GuardReleased
  <2>2. OutcomeComes'
    BY <2>1 DEF OutcomeComes, Outcomes, Initialized
  <2>3. QED
    BY <2>1, <2>2 DEF Owned
<1>3. CASE OpenFails
  <2>1. PICK unavailable \in BOOLEAN :
          outbox' = <<InitializationFailed(attempt, unavailable),
                      State("Error")>>
    BY <1>3 DEF OpenFails
  <2>2. OutcomeComes'
    BY <2>1 DEF OutcomeComes, Outcomes, InitializationFailed
  <2>3. initInProgress' = FALSE /\ commands' = commands
    BY <1>3 DEF OpenFails, OpenReturns, GuardReleased
  <2>4. QED
    BY <2>2, <2>3 DEF Owned
<1>4. CASE OpenCancelled \/ UnexpectedFailure
  <2>1. thread' = "exit" /\ commands' = commands
    BY <1>4 DEF OpenCancelled, UnexpectedFailure
  <2>2. ~initInProgress'
    BY <1>4 DEF OpenCancelled, UnexpectedFailure, At
  <2>3. QED
    BY <2>1, <2>2 DEF Owned
<1>5. CASE LoopTop \/ NoCommand \/ PollCancelled \/ End \/ Wait \/ SpuriousWakeup
  <2>1. /\ outbox = <<>> /\ thread \notin {"init", "open", "exit"}
        /\ UNCHANGED <<retryOwed, flagVars, commands, initInProgress>>
    BY <1>5 DEF LoopTop, NoCommand, PollCancelled, End, Wait, SpuriousWakeup,
                Move, At, hardware, historyVars
  <2>2. Owned'
    BY <2>1, NothingOwedAnew DEF RetryQueued
  <2>3. QED
    BY <2>1, <2>2
<1>6. CASE TakeRetry
  <2>1. commands' = Tail(commands) /\ commands # <<>> /\ thread' = "init"
    BY <1>6 DEF TakeRetry, Take
  <2>2. initInProgress' = FALSE
    BY <1>6 DEF TakeRetry, Take, At, hardware
  <2>3. QED
    BY <2>1, <2>2 DEF Owned
<1>7. CASE RememberScanning
  BY <1>7, ScanningTaken DEF RememberScanning
<1>8. CASE ScanningOn \/ ScanningFails \/ ScanningCancelled
  <2>1. TakeSetScanning(TRUE)
    BY <1>8 DEF ScanningOn, ScanningFails, ScanningCancelled
  <2>2. QED
    BY <2>1, ScanningTaken
<1>9. CASE ScanningOff
  <2>1. TakeSetScanning(FALSE)
    BY <1>9 DEF ScanningOff
  <2>2. QED
    BY <2>1, ScanningTaken
<1>10. CASE Poll \/ PollFails \/ Close
  <2>1. /\ outbox = <<>> /\ thread \notin {"init", "open", "exit"}
        /\ UNCHANGED <<retryOwed, flagVars, commands, initInProgress>>
    BY <1>10 DEF Poll, PollFails, Close, At, historyVars
  <2>2. Owned'
    BY <2>1, NothingOwedAnew DEF RetryQueued
  <2>3. QED
    BY <2>1, <2>2
<1>11. CASE Exit
  BY <1>11 DEF Exit, At, Owned
<1>12. CASE Push
  <2>1. CASE OutcomeComes
    <3>1. PICK e, s : outbox = <<e, s>> /\ e.type \in Outcomes
      BY <2>1 DEF OutcomeComes
    <3>2. Head(outbox) = e
      BY <3>1
    <3>3. ~retryOwed'
      BY <1>12, <3>1, <3>2 DEF Push
    <3>4. QED
      BY <1>12, <3>3 DEF Push, Owned
  <2>2. CASE ~OutcomeComes
    BY <1>12, <2>2 DEF Push, flagVars, Owned, RetryQueued, Accepting
  <2>3. QED
    BY <2>1, <2>2
<1>13. QED
  BY <1>1, <1>2, <1>3, <1>4, <1>5, <1>6, <1>7, <1>8, <1>9, <1>10, <1>11, <1>12
  DEF AwakeSteps

LEMMA StepOwns == RetryInv /\ [Next]_vars => RetryInv'
<1> SUFFICES ASSUME RetryInv, [Next]_vars
             PROVE  RetryInv'
  OBVIOUS
<1>1. LifecycleInv'
  BY StepLocks DEF RetryInv
<1>2. ASSUME NEW c \in Callers, Calls(c) \/ Continues(c)
      PROVE  RetryInv'
  BY <1>1, <1>2, CallerOwns DEF RetryInv
<1>3. CASE AwakeSteps \/ Wait \/ SpuriousWakeup \/ Push
  BY <1>1, <1>3, ThreadOwns DEF RetryInv
<1>4. CASE UNCHANGED vars
  BY <1>1, <1>4 DEF vars, flagVars, hardware, historyVars, RetryInv, Owned,
                    RetryQueued, OutcomeComes, Accepting
<1>5. QED
  BY <1>2, <1>3, <1>4 DEF Next, ThreadStep, AwakeSteps

(* A Retry that was accepted, queued or not, is answered by an             *)
(* initialization that is queued, under way, or has its outcome in the     *)
(* outbox: post may drop a second Retry, because the flag it looks at is   *)
(* down before the outcome of the initialization is pushed.                *)
THEOREM RetryIsOwned == Spec => []RetryHasOwner
<1>1. Init => RetryInv
  BY DEF Init, RetryInv, LifecycleInv, CallersOK, CallerPlaces, StartStopOK,
         InStart, InStop, Preparing, Owned
<1>2. RetryInv => RetryHasOwner
  <2>1. OutcomeComes => \E i \in 1..Len(outbox) : outbox[i].type \in Outcomes
    <3> SUFFICES ASSUME NEW e, NEW s, outbox = <<e, s>>, e.type \in Outcomes
                 PROVE  \E i \in 1..Len(outbox) : outbox[i].type \in Outcomes
      BY DEF OutcomeComes
    <3>1. 1 \in 1..Len(outbox) /\ outbox[1] = e
      OBVIOUS
    <3>2. QED
      BY <3>1
  <2>2. QED
    BY <2>1 DEF RetryInv, Owned, RetryHasOwner
<1>3. QED
  BY <1>1, <1>2, StepOwns, PTL DEF Spec

-----------------------------------------------------------------------------
(* The hardware thread believes of its reader what it told the backend.    *)

LEMMA CallerStaysInStep ==
    ASSUME BackendInStep, NEW c \in Callers, Calls(c) \/ Continues(c)
    PROVE  BackendInStep'
<1> USE DEF BackendInStep
<1>1. CASE Start(c) \/ Stop(c)
  BY <1>1 DEF Start, Stop, hardware, locals
<1>2. CASE PostShutdown(c) \/ PostRetryAgain(c)
  BY <1>2 DEF PostShutdown, PostRetryAgain, Accept, hardware, locals
<1>3. ASSUME NEW command \in Commands, PostCommand(c, command)
      PROVE  BackendInStep'
  BY <1>3 DEF PostCommand, Accept, hardware, locals
<1>4. CASE TryPopEvent(c) \/ StartEvents(c)
  BY <1>4 DEF TryPopEvent, StartEvents, hardware, locals
<1>5. CASE StartJoin(c) \/ StartThread(c) \/ StopJoin(c)
  BY <1>5 DEF StartJoin, StartThread, StopJoin
<1>6. CASE StopNotify(c) \/ Notify(c)
  BY <1>6 DEF StopNotify, Notify, NotifyAndGo, Woken, hardware, locals
<1>7. QED
  BY <1>1, <1>2, <1>3, <1>4, <1>5, <1>6 DEF Calls, Continues

LEMMA ThreadStaysInStep ==
    ASSUME BackendInStep, AwakeSteps \/ Wait \/ SpuriousWakeup \/ Push
    PROVE  BackendInStep'
<1> USE DEF BackendInStep
<1>1. CASE InitBegin \/ OpenCancelled \/ UnexpectedFailure \/ Exit \/ Close
  BY <1>1 DEF InitBegin, OpenCancelled, UnexpectedFailure, Exit, Close
<1>2. CASE OpenSucceeds \/ OpenFails
  BY <1>2 DEF OpenSucceeds, OpenFails, OpenReturns
<1>3. CASE LoopTop \/ NoCommand \/ PollCancelled \/ End \/ Wait \/ SpuriousWakeup
  <2>1. UNCHANGED <<backend, initialized, scanRequested>>
    BY <1>3 DEF LoopTop, NoCommand, PollCancelled, End, Wait, SpuriousWakeup,
                Move, hardware, locals
  <2>2. /\ thread \in {"loop", "command", "wait", "asleep", "poll", "end"}
        /\ thread = "end" => thread' = "done"
    BY <1>3 DEF LoopTop, NoCommand, PollCancelled, End, Wait, SpuriousWakeup,
                Move, At
  <2>3. QED
    BY <2>1, <2>2
<1>4. CASE TakeRetry
  BY <1>4 DEF TakeRetry
<1>5. CASE RememberScanning
  BY <1>5 DEF RememberScanning, TakeSetScanning, Take, At
<1>6. CASE ScanningOn \/ ScanningOff
  <2>1. /\ initialized' = initialized /\ initialized
        /\ \/ scanRequested' = TRUE /\ backend' = "scanning"
           \/ scanRequested' = FALSE /\ backend' = "open"
    BY <1>6 DEF ScanningOn, ScanningOff, TakeSetScanning
  <2>2. initialized'
    BY <2>1
  <2>3. QED
    BY <2>1, <2>2
<1>7. CASE ScanningFails \/ PollFails
  BY <1>7 DEF ScanningFails, PollFails, GiveUpReader, CloseImmediately
<1>8. CASE ScanningCancelled
  BY <1>8 DEF ScanningCancelled
<1>9. CASE Poll
  BY <1>9 DEF Poll, At, locals
<1>10. CASE Push
  BY <1>10 DEF Push, locals
<1>11. QED
  BY <1>1, <1>2, <1>3, <1>4, <1>5, <1>6, <1>7, <1>8, <1>9, <1>10
  DEF AwakeSteps

(* Whatever fails or is cancelled, the hardware thread polls only a        *)
(* backend in discovery, and one it has given up on is closed.             *)
THEOREM BackendStaysInStep == Spec => []BackendInStep
<1>1. Init => BackendInStep
  BY DEF Init, BackendInStep
<1>2. BackendInStep /\ [Next]_vars => BackendInStep'
  <2>1. CASE UNCHANGED vars
    BY <2>1 DEF vars, hardware, locals, BackendInStep
  <2>2. QED
    BY <2>1, CallerStaysInStep, ThreadStaysInStep
    DEF Next, ThreadStep, AwakeSteps
<1>3. QED
  BY <1>1, <1>2, PTL DEF Spec

-----------------------------------------------------------------------------
(* What the events of one handler say of the tag sessions.                 *)

(* AnnouncedAfter, of any announcement: event e leads from a to b as       *)
(* TagSessions allows, or says nothing of tags.                            *)
SaysNothing(e) == e.type \notin {"TagPresented", "TagUpdated", "TagRemoved"}

Says(a, e, b) ==
    \/ SaysNothing(e) /\ b = a
    \/ /\ e.type = "TagPresented" /\ e.tag \in Tags
       /\ a.live = 0 /\ e.session = a.issued + 1
       /\ b = [live |-> e.session, tag |-> e.tag, issued |-> e.session]
    \/ /\ e.type = "TagUpdated" /\ e.tag \in Tags
       /\ a.live # 0 /\ e.session = a.live
       /\ e.tag.id = a.tag.id /\ e.tag # a.tag
       /\ b = [live |-> a.live, tag |-> e.tag, issued |-> a.issued]
    \/ /\ e.type = "TagRemoved"
       /\ a.live # 0 /\ e.session = a.live
       /\ b = [live |-> 0, tag |-> NoTag, issued |-> a.issued]

(* The events o, three at the most, lead from a to b.                      *)
Tells(a, o, b) ==
    \/ o = <<>> /\ a = b
    \/ \E e : o = <<e>> /\ Says(a, e, b)
    \/ \E e, f, m : o = <<e, f>> /\ Says(a, e, m) /\ Says(m, f, b)
    \/ \E e, f, g, m, n :
          o = <<e, f, g>> /\ Says(a, e, m) /\ Says(m, f, n) /\ Says(n, g, b)

(* The announcement the presence fields stand for.                         *)
Present == [live |-> presence.session, tag |-> presence.tag,
            issued |-> presence.nextSession - 1]

Announcements == [live : Nat, tag : Tags \cup {NoTag}, issued : Nat]

(* Once all events of the running handler are pushed, the events pushed    *)
(* will have told of the tag that is present.                              *)
ToldSoFar ==
    /\ presence \in PresenceType /\ PresenceOK
    /\ announced \in Announcements
    /\ Tells(announced, outbox, Present)

(* Pushing the first event takes the announcement one step on.             *)
LEMMA PushTells ==
    ASSUME NEW b, announced \in Announcements, outbox # <<>>,
           Tells(announced, outbox, b)
    PROVE  /\ Says(announced, Head(outbox), AnnouncedAfter(Head(outbox)))
           /\ Tells(AnnouncedAfter(Head(outbox)), Tail(outbox), b)
<1>1. ASSUME NEW e, NEW m, Says(announced, e, m)
      PROVE  AnnouncedAfter(e) = m
  <2>1. CASE SaysNothing(e)
    BY <1>1, <2>1 DEF Says, SaysNothing, AnnouncedAfter
  <2>2. CASE e.type = "TagPresented"
    BY <1>1, <2>2 DEF Says, SaysNothing, AnnouncedAfter
  <2>3. CASE e.type = "TagUpdated"
    <3>1. AnnouncedAfter(e) = [announced EXCEPT !.tag = e.tag]
      BY <2>3 DEF AnnouncedAfter
    <3>2. m = [live |-> announced.live, tag |-> e.tag,
               issued |-> announced.issued]
      BY <1>1, <2>3 DEF Says, SaysNothing
    <3> QED  BY <3>1, <3>2 DEF Announcements
  <2>4. CASE e.type = "TagRemoved"
    <3>1. AnnouncedAfter(e) = [announced EXCEPT !.live = 0, !.tag = NoTag]
      BY <2>4 DEF AnnouncedAfter
    <3>2. m = [live |-> 0, tag |-> NoTag, issued |-> announced.issued]
      BY <1>1, <2>4 DEF Says, SaysNothing
    <3> QED  BY <3>1, <3>2 DEF Announcements
  <2> QED  BY <2>1, <2>2, <2>3, <2>4 DEF SaysNothing
<1>2. ASSUME NEW e, outbox = <<e>>, Says(announced, e, b)
      PROVE  /\ Says(announced, Head(outbox), AnnouncedAfter(Head(outbox)))
             /\ Tells(AnnouncedAfter(Head(outbox)), Tail(outbox), b)
  <2>1. Head(outbox) = e /\ Tail(outbox) = <<>>
    BY <1>2
  <2>2. AnnouncedAfter(e) = b
    BY <1>1, <1>2
  <2> QED  BY <1>2, <2>1, <2>2 DEF Tells
<1>3. ASSUME NEW e, NEW f, NEW m, outbox = <<e, f>>,
             Says(announced, e, m), Says(m, f, b)
      PROVE  /\ Says(announced, Head(outbox), AnnouncedAfter(Head(outbox)))
             /\ Tells(AnnouncedAfter(Head(outbox)), Tail(outbox), b)
  <2>1. Head(outbox) = e /\ Tail(outbox) = <<f>>
    BY <1>3
  <2>2. AnnouncedAfter(e) = m
    BY <1>1, <1>3
  <2> QED  BY <1>3, <2>1, <2>2 DEF Tells
<1>4. ASSUME NEW e, NEW f, NEW g, NEW m, NEW n, outbox = <<e, f, g>>,
             Says(announced, e, m), Says(m, f, n), Says(n, g, b)
      PROVE  /\ Says(announced, Head(outbox), AnnouncedAfter(Head(outbox)))
             /\ Tells(AnnouncedAfter(Head(outbox)), Tail(outbox), b)
  <2>1. Head(outbox) = e /\ Tail(outbox) = <<f, g>>
    BY <1>4
  <2>2. AnnouncedAfter(e) = m
    BY <1>1, <1>4
  <2> QED  BY <1>4, <2>1, <2>2 DEF Tells
<1> QED  BY <1>2, <1>3, <1>4 DEF Tells

LEMMA SaysType ==
    ASSUME NEW a \in Announcements, NEW e, NEW b, Says(a, e, b)
    PROVE  b \in Announcements
<1>1. CASE e.type = "TagPresented"
  BY <1>1 DEF Says, SaysNothing, Announcements
<1>2. CASE e.type # "TagPresented"
  BY <1>2 DEF Says, SaysNothing, Announcements
<1> QED  BY <1>1, <1>2

(* The short sequences a handler builds.                                   *)
LEMMA Concatenations ==
    /\ \A x : <<x>> \o <<>> = <<x>> /\ <<>> \o <<x>> = <<x>>
    /\ \A x, y : <<x>> \o <<y>> = <<x, y>>
    /\ \A x, y, z : <<x, y>> \o <<z>> = <<x, y, z>>
<1>1. \A x : <<x>> \o <<>> = <<x>> /\ <<>> \o <<x>> = <<x>>
  OBVIOUS
<1>2. ASSUME NEW x, NEW y
      PROVE  <<x>> \o <<y>> = <<x, y>>
  <2> DEFINE S == {x, y}
             s == <<x>> \o <<y>>
             t == <<x, y>>
  <2>1. <<x>> \in Seq(S) /\ <<y>> \in Seq(S) /\ t \in Seq(S)
    OBVIOUS
  <2>2. s \in Seq(S) /\ Len(s) = 2 /\ s[1] = x /\ s[2] = y
    BY <2>1
  <2>3. Len(t) = 2 /\ t[1] = x /\ t[2] = y
    OBVIOUS
  <2> HIDE DEF s, t
  <2>4. Len(s) = Len(t) /\ \A i \in 1..Len(s) : s[i] = t[i]
    BY <2>2, <2>3
  <2> QED  BY <2>1, <2>2, <2>4, SeqEqual DEF s, t
<1>3. ASSUME NEW x, NEW y, NEW z
      PROVE  <<x, y>> \o <<z>> = <<x, y, z>>
  <2> DEFINE S == {x, y, z}
             s == <<x, y>> \o <<z>>
             t == <<x, y, z>>
  <2>1. <<x, y>> \in Seq(S) /\ <<z>> \in Seq(S) /\ t \in Seq(S)
    OBVIOUS
  <2>2. s \in Seq(S) /\ Len(s) = 3 /\ s[1] = x /\ s[2] = y /\ s[3] = z
    BY <2>1
  <2>3. Len(t) = 3 /\ t[1] = x /\ t[2] = y /\ t[3] = z
    OBVIOUS
  <2> HIDE DEF s, t
  <2>4. Len(s) = Len(t) /\ \A i \in 1..Len(s) : s[i] = t[i]
    BY <2>2, <2>3
  <2> QED  BY <2>1, <2>2, <2>4, SeqEqual DEF s, t
<1> QED  BY <1>1, <1>2, <1>3

(* What clearPresence tells, when all before it has been told.             *)
LEMMA RemovalTells ==
    ASSUME presence \in PresenceType, PresenceOK, ClearPresence
    PROVE  /\ Present' = [live |-> 0, tag |-> NoTag,
                          issued |-> presence.nextSession - 1]
           /\ \/ Removal = <<>> /\ Present' = Present
              \/ \E e : Removal = <<e>> /\ Says(Present, e, Present')
<1>1. Present' = [live |-> 0, tag |-> NoTag,
                  issued |-> presence.nextSession - 1]
  BY DEF ClearPresence, NoPresence, Present
<1>2. CASE presence.tag = NoTag
  BY <1>1, <1>2 DEF Removal, Present, PresenceOK
<1>3. CASE presence.tag # NoTag
  <2>1. Removal = <<TagRemoved(presence.session, presence.tag)>>
    BY <1>3 DEF Removal
  <2>2. Says(Present, TagRemoved(presence.session, presence.tag), Present')
    BY <1>1, <1>3 DEF Says, TagRemoved, Present, PresenceOK
  <2> QED  BY <1>1, <2>1, <2>2
<1> QED  BY <1>2, <1>3, <1>1

(* The same among events that say nothing of tags.                         *)
LEMMA RemovalAmongOthers ==
    ASSUME presence \in PresenceType, PresenceOK, ClearPresence,
           NEW x, SaysNothing(x), NEW y, SaysNothing(y)
    PROVE  /\ Tells(Present, Removal, Present')
           /\ Tells(Present, <<x>> \o Removal, Present')
           /\ Tells(Present, Removal \o <<y>>, Present')
           /\ Tells(Present, <<x>> \o Removal \o <<y>>, Present')
<1>1. Says(Present, x, Present) /\ Says(Present', y, Present')
  BY DEF Says
<1>2. CASE Removal = <<>> /\ Present' = Present
  <2>1. /\ <<x>> \o Removal = <<x>> /\ Removal \o <<y>> = <<y>>
        /\ <<x>> \o Removal \o <<y>> = <<x, y>>
    BY <1>2, Concatenations
  <2> QED  BY <1>1, <1>2, <2>1 DEF Tells
<1>3. ASSUME NEW e, Removal = <<e>>, Says(Present, e, Present')
      PROVE  /\ Tells(Present, Removal, Present')
             /\ Tells(Present, <<x>> \o Removal, Present')
             /\ Tells(Present, Removal \o <<y>>, Present')
             /\ Tells(Present, <<x>> \o Removal \o <<y>>, Present')
  <2>1. /\ <<x>> \o Removal = <<x, e>> /\ Removal \o <<y>> = <<e, y>>
        /\ <<x>> \o Removal \o <<y>> = <<x, e, y>>
    <3>1. <<x>> \o <<e>> = <<x, e>> /\ <<e>> \o <<y>> = <<e, y>>
      BY Concatenations
    <3>2. <<x, e>> \o <<y>> = <<x, e, y>>
      BY Concatenations
    <3> QED  BY <1>3, <3>1, <3>2
  <2>2. Tells(Present, <<e>>, Present') /\ Tells(Present, <<x, e>>, Present')
    BY <1>1, <1>3 DEF Tells
  <2>3. Tells(Present, <<e, y>>, Present')
    BY <1>1, <1>3 DEF Tells
  <2>4. Tells(Present, <<x, e, y>>, Present')
    BY <1>1, <1>3 DEF Tells
  <2> QED  BY <1>3, <2>1, <2>2, <2>3, <2>4
<1> QED  BY <1>2, <1>3, RemovalTells

(* What handleDiscoveryResult tells.                                       *)
LEMMA NothingTells ==
    ASSUME presence \in PresenceType, ObserveNothing
    PROVE  Tells(Present, outbox', Present')
BY DEF ObserveNothing, PresenceType, Tells, Present

LEMMA NoTagTells ==
    ASSUME presence \in PresenceType, PresenceOK, NEW dt \in Nat,
           ObserveNoTag(dt)
    PROVE  Tells(Present, outbox', Present')
<1>1. CASE presence' = WithoutCandidate /\ outbox' = <<>>
  BY <1>1 DEF WithoutCandidate, PresenceType, Tells, Present
<1>2. CASE /\ presence' = [WithoutCandidate EXCEPT
                             !.noTags = AtMost(RemoveConfirmations, @ + 1),
                             !.noTagAge = AgeAfter(dt)]
           /\ outbox' = <<>>
  BY <1>2 DEF WithoutCandidate, PresenceType, Tells, Present
<1>3. CASE ClearPresence /\ outbox' = Removal
  BY <1>3, RemovalAmongOthers, SaysNothing(State("Idle"))
  DEF SaysNothing, State
<1> QED  BY <1>1, <1>2, <1>3 DEF ObserveNoTag

LEMMA TagTells ==
    ASSUME presence \in PresenceType, PresenceOK, NEW t \in Tags,
           ObserveTag(t)
    PROVE  Tells(Present, outbox', Present')
<1>1. CASE ObservePresentTag(t)
  <2>1. Present' = [live |-> presence.session, tag |-> t,
                    issued |-> presence.nextSession - 1]
    BY <1>1 DEF ObservePresentTag, WithoutCandidate, PresenceType, Present
  <2>2. CASE t = presence.tag
    BY <1>1, <2>1, <2>2 DEF ObservePresentTag, Tells, Present
  <2>3. CASE t # presence.tag
    <3>1. outbox' = <<TagUpdated(presence.session, t)>>
      BY <1>1, <2>3 DEF ObservePresentTag
    <3>2. /\ presence.tag # NoTag /\ t.id = presence.tag.id
          /\ presence.session # 0
      BY <1>1 DEF ObservePresentTag, SameIdentity, PresenceOK
    <3>3. Says(Present, TagUpdated(presence.session, t), Present')
      BY <2>1, <2>3, <3>2 DEF Says, TagUpdated, Present
    <3> QED  BY <3>1, <3>3 DEF Tells
  <2> QED  BY <2>2, <2>3
<1>2. CASE ObserveCandidate(t)
  BY <1>2 DEF ObserveCandidate, PresenceType, Tells, Present
<1>3. CASE ObserveConfirmed(t)
  <2> DEFINE n == presence.nextSession
             a == [live |-> 0, tag |-> NoTag, issued |-> n - 1]
             p == TagPresented(n, t)
  <2>1. n \in Nat
    BY DEF PresenceType
  <2>2. Present' = [live |-> n, tag |-> t, issued |-> n]
    BY <1>3, <2>1 DEF ObserveConfirmed, NoPresence, Present
  <2>3. Says(a, p, Present')
    BY <2>1, <2>2 DEF Says, TagPresented
  <2>4. outbox' = Removal \o <<p>>
    BY <1>3 DEF ObserveConfirmed
  <2>5. CASE presence.tag = NoTag
    <3>1. Present = a
      BY <2>5 DEF Present, PresenceOK
    <3>2. outbox' = <<p>>
      BY <2>4, <2>5 DEF Removal
    <3> QED  BY <2>3, <3>1, <3>2 DEF Tells
  <2>6. CASE presence.tag # NoTag
    <3> DEFINE e == TagRemoved(presence.session, presence.tag)
    <3>1. outbox' = <<e, p>>
      BY <2>4, <2>6, Concatenations DEF Removal
    <3>2. Says(Present, e, a)
      BY <2>6 DEF Says, TagRemoved, Present, PresenceOK
    <3> HIDE DEF e, p, a
    <3> QED  BY <2>3, <3>1, <3>2 DEF Tells
  <2> QED  BY <2>5, <2>6
<1> QED  BY <1>1, <1>2, <1>3 DEF ObserveTag

-----------------------------------------------------------------------------
(* The invariant that puts a stopped worker to rest.                       *)

(* What the place of the hardware thread says of the rest of its state.    *)
PlacesOK ==
    /\ thread \in ThreadPlaces
    /\ attempt \in Nat
    /\ backend \in {"closed", "open", "scanning"}
    /\ thread \notin {"none", "init"} => attempt # 0
    /\ thread \in {"none", "done"} => outbox = <<>>
    /\ thread \in {"none", "close", "end", "done"} => presence.tag = NoTag
    /\ thread \in {"none", "end", "done"} => backend = "closed"

(* The event queue, whatever its events are.                               *)
QueueOK ==
    /\ \E S : queue.events \in Seq(S)
    /\ Len(queue.events) <= EventCapacity
    /\ queue.dropped \in Nat

(* A new hardware thread, and the call that creates it, find nothing.      *)
FreshOK ==
    /\ \A c \in Callers : caller[c] = "start_thread" => queue = EmptyQueue
    /\ thread = "init" /\ attempt = 0
         => /\ queue = EmptyQueue
            /\ presence = NoPresence(1)
            /\ outbox = <<>>

FlagsOK ==
    /\ running \in BOOLEAN /\ stopRequested \in BOOLEAN
    /\ initInProgress \in BOOLEAN /\ initialized \in BOOLEAN
    /\ scanRequested \in BOOLEAN /\ retryOwed \in BOOLEAN
    /\ runs \in 0..MaxRuns /\ posts \in 0..MaxPosts

HoldersOK ==
    \A c \in Callers : c \in lifecycle => caller[c] \in InStart \cup InStop

CommandsOK ==
    /\ Len(commands) <= CommandCapacity
    /\ \A i, j \in 1..Len(commands) :
          commands[i] = Retry /\ commands[j] = Retry => i = j

RestInv ==
    /\ RetryInv /\ ToldSoFar
    /\ PlacesOK /\ QueueOK /\ FreshOK
    /\ FlagsOK /\ HoldersOK /\ CommandsOK

LEMMA RestInvImplies ==
    RestInv => AtRest
<1> SUFFICES ASSUME RestInv
             PROVE  AtRest
  OBVIOUS
<1> USE DEF RestInv
<1>1. TypeOK
  <2>1. /\ caller \in [Callers -> CallerPlaces]
        /\ \A c \in Callers :
              caller[c] \in InStart \cup InStop <=> c \in lifecycle
        /\ \A c, d \in lifecycle : c = d
        /\ \A c \in Callers :
              caller[c] \in {"start_events", "start_thread"} => thread = "none"
    BY DEF RetryInv, LifecycleInv, CallersOK, StartStopOK, Preparing, HoldersOK
  <2>2. {running, stopRequested, initInProgress, initialized, scanRequested,
         retryOwed} \subseteq BOOLEAN
    BY Zenon DEF FlagsOK
  <2>3. /\ commands \in Seq(Commands) /\ Len(commands) <= CommandCapacity
        /\ \A i, j \in 1..Len(commands) :
              commands[i] = Retry /\ commands[j] = Retry => i = j
    BY DEF RetryInv, CommandsOK
  <2>4. /\ thread \in ThreadPlaces /\ attempt \in Nat
        /\ presence \in PresenceType
        /\ Len(queue.events) <= EventCapacity /\ queue.dropped \in Nat
        /\ backend \in {"closed", "open", "scanning"}
        /\ runs \in 0..MaxRuns /\ posts \in 0..MaxPosts
    BY DEF PlacesOK, ToldSoFar, QueueOK, FlagsOK
  <2> QED  BY <2>1, <2>2, <2>3, <2>4 DEF TypeOK
<1>2. ASSUME Finished
      PROVE  /\ outbox = <<>> /\ ~initInProgress /\ presence.tag = NoTag
             /\ announced.live = 0 /\ backend = "closed"
  <2>1. /\ outbox = <<>> /\ presence.tag = NoTag /\ backend = "closed"
        /\ ~initInProgress
    BY <1>2 DEF Finished, PlacesOK, RetryInv
  <2>2. announced = Present
    BY <2>1 DEF ToldSoFar, Tells
  <2>3. presence.session = 0
    BY <2>1 DEF ToldSoFar, PresenceOK
  <2> QED  BY <2>1, <2>2, <2>3 DEF Present
<1>3. thread = "init" /\ attempt = 0
        => queue = EmptyQueue /\ presence = NoPresence(1) /\ ~initInProgress
  BY DEF FreshOK, RetryInv
<1> QED  BY <1>1, <1>2, <1>3 DEF AtRest

LEMMA RestInit == Init => RestInv
<1> SUFFICES ASSUME Init
             PROVE  RestInv
  OBVIOUS
<1>1. RetryInv
  BY DEF Init, RetryInv, LifecycleInv, CallersOK, CallerPlaces, StartStopOK,
         InStart, InStop, Preparing, Owned
<1>2. presence = NoPresence(1) /\ presence \in PresenceType /\ PresenceOK
  BY PresenceAssumption DEF Init, NoPresence, PresenceType, PresenceOK
<1>3. ToldSoFar
  BY <1>2 DEF Init, ToldSoFar, Tells, Present, NoPresence, NoSession, Announcements
<1>4. PlacesOK /\ FreshOK
  BY <1>2 DEF Init, PlacesOK, ThreadPlaces, FreshOK, NoPresence
<1>5. QueueOK
  BY EventCapacityAssumption DEF Init, QueueOK, EmptyQueue
<1>6. FlagsOK
  <2>1. 0 \in 0..MaxRuns /\ 0 \in 0..MaxPosts
    BY WorkerAssumption
  <2> QED  BY <2>1 DEF Init, FlagsOK
<1>7. HoldersOK
  BY DEF Init, HoldersOK
<1>8. CommandsOK
  <2>1. Len(<<>>) = 0 /\ 0 <= CommandCapacity
    BY WorkerAssumption
  <2> QED  BY <2>1 DEF Init, CommandsOK
<1> QED  BY <1>1, <1>3, <1>4, <1>5, <1>6, <1>7, <1>8 DEF RestInv

(* A caller changes what the hardware thread owns only by creating it.     *)
LEMMA CallersLeaveHardware ==
    ASSUME NEW c \in Callers, Calls(c) \/ Continues(c), ~StartThread(c)
    PROVE  UNCHANGED <<hardware, announced>>
<1>1. CASE Start(c) \/ Stop(c) \/ PostShutdown(c)
  BY <1>1 DEF Start, Stop, PostShutdown, historyVars
<1>2. CASE PostRetryAgain(c)
  BY <1>2 DEF PostRetryAgain, Accept
<1>3. ASSUME NEW command \in Commands, PostCommand(c, command)
      PROVE  UNCHANGED <<hardware, announced>>
  BY <1>3 DEF PostCommand, Accept
<1>4. CASE TryPopEvent(c) \/ StartEvents(c) \/ StopJoin(c)
  BY <1>4 DEF TryPopEvent, StartEvents, StopJoin, historyVars
<1>5. CASE StartJoin(c)
  BY <1>5 DEF StartJoin
<1>6. CASE StopNotify(c) \/ Notify(c)
  BY <1>6 DEF StopNotify, Notify, NotifyAndGo, historyVars
<1> QED  BY <1>1, <1>2, <1>3, <1>4, <1>5, <1>6 DEF Calls, Continues

(* The hardware thread, but for its pushes, changes nothing of theirs.     *)
LEMMA ThreadLeavesOthers ==
    ASSUME AwakeSteps \/ Wait \/ SpuriousWakeup
    PROVE  UNCHANGED <<others, stopRequested>>
<1> USE DEF flagVars
<1>1. CASE InitBegin \/ UnexpectedFailure
  BY <1>1 DEF InitBegin, UnexpectedFailure
<1>2. CASE OpenSucceeds \/ OpenFails \/ OpenCancelled
  BY <1>2 DEF OpenSucceeds, OpenFails, OpenCancelled, OpenReturns
<1>3. CASE LoopTop \/ NoCommand \/ End \/ PollCancelled \/ Wait \/ SpuriousWakeup
  BY <1>3 DEF LoopTop, NoCommand, End, PollCancelled, Wait, SpuriousWakeup, Move
<1>4. CASE TakeRetry \/ RememberScanning
  BY <1>4 DEF TakeRetry, RememberScanning, TakeSetScanning
<1>5. CASE ScanningOn \/ ScanningOff \/ ScanningFails \/ ScanningCancelled
  BY <1>5 DEF ScanningOn, ScanningOff, ScanningFails, ScanningCancelled,
              TakeSetScanning
<1>6. CASE Poll \/ PollFails
  BY <1>6 DEF Poll, PollFails
<1>7. CASE Exit \/ Close
  BY <1>7 DEF Exit, Close
<1> QED  BY <1>1, <1>2, <1>3, <1>4, <1>5, <1>6, <1>7 DEF AwakeSteps

LEMMA ThreadLeavesAnnounced ==
    ASSUME AwakeSteps \/ Wait \/ SpuriousWakeup
    PROVE  announced' = announced
<1>1. CASE InitBegin \/ UnexpectedFailure \/ Exit \/ Close \/ Poll \/ PollFails
  BY <1>1 DEF InitBegin, UnexpectedFailure, Exit, Close, Poll, PollFails,
              historyVars
<1>2. CASE OpenSucceeds \/ OpenFails \/ OpenCancelled
  BY <1>2 DEF OpenSucceeds, OpenFails, OpenCancelled, OpenReturns, historyVars
<1>3. CASE LoopTop \/ NoCommand \/ End \/ PollCancelled \/ Wait \/ SpuriousWakeup
  BY <1>3 DEF LoopTop, NoCommand, End, PollCancelled, Wait, SpuriousWakeup,
              Move, historyVars
<1>4. CASE TakeRetry \/ RememberScanning
  BY <1>4 DEF TakeRetry, RememberScanning, TakeSetScanning, historyVars
<1>5. CASE ScanningOn \/ ScanningOff \/ ScanningFails \/ ScanningCancelled
  BY <1>5 DEF ScanningOn, ScanningOff, ScanningFails, ScanningCancelled,
              TakeSetScanning, historyVars
<1> QED  BY <1>1, <1>2, <1>3, <1>4, <1>5 DEF AwakeSteps

LEMMA CallerTells ==
    ASSUME RestInv, NEW c \in Callers, Calls(c) \/ Continues(c)
    PROVE  ToldSoFar'
<1>1. CASE StartThread(c)
  <2>1. thread = "none" /\ outbox = <<>>
    BY <1>1 DEF StartThread, Go, RestInv, RetryInv, LifecycleInv, StartStopOK,
                Preparing, PlacesOK
  <2>2. /\ presence' = NoPresence(1) /\ announced' = NoSession
        /\ outbox' = <<>>
    BY <1>1, <2>1 DEF StartThread
  <2>3. presence' \in PresenceType /\ PresenceOK'
    BY <2>2, PresenceAssumption DEF NoPresence, PresenceType, PresenceOK
  <2>4. Present' = NoSession /\ NoSession \in Announcements
    BY <2>2 DEF NoPresence, NoSession, Present, Announcements
  <2> QED  BY <2>2, <2>3, <2>4 DEF ToldSoFar, Tells
<1>2. CASE ~StartThread(c)
  <2>1. UNCHANGED <<presence, outbox, announced>>
    BY <1>2, CallersLeaveHardware DEF hardware
  <2> QED  BY <2>1 DEF RestInv, ToldSoFar, PresenceOK, Present
<1> QED  BY <1>1, <1>2

(* A handler begins when everything before it has been told.               *)
LEMMA HandlerTells ==
    ASSUME ToldSoFar, outbox = <<>>, announced' = announced,
           presence' \in PresenceType, PresenceOK',
           Tells(Present, outbox', Present')
    PROVE  ToldSoFar'
<1>1. announced = Present
  BY DEF ToldSoFar, Tells
<1> QED  BY <1>1 DEF ToldSoFar

LEMMA ThreadTells ==
    ASSUME RestInv, AwakeSteps \/ Wait \/ SpuriousWakeup
    PROVE  ToldSoFar'
<1>1. /\ outbox = <<>> /\ ToldSoFar
      /\ presence \in PresenceType /\ PresenceOK
  BY ThreadStepsRun DEF RestInv, ToldSoFar
<1>2. ASSUME announced' = announced, UNCHANGED <<presence, outbox>>
      PROVE  ToldSoFar'
  BY <1>1, <1>2 DEF ToldSoFar, PresenceOK, Present
<1>3. ASSUME announced' = announced, UNCHANGED presence,
             Tells(Present, outbox', Present)
      PROVE  ToldSoFar'
  <2>1. presence' \in PresenceType /\ PresenceOK' /\ Present' = Present
    BY <1>1, <1>3 DEF PresenceOK, Present
  <2> QED  BY <1>1, <1>3, <2>1, HandlerTells
<1>4. ASSUME announced' = announced, ClearPresence,
             Tells(Present, outbox', Present')
      PROVE  ToldSoFar'
  BY <1>1, <1>4, ClearPreserves, HandlerTells
<1>5. CASE InitBegin \/ Exit
  <2>1. /\ announced' = announced /\ ClearPresence
        /\ \/ outbox' = <<State("Initializing")>> \o Removal
           \/ outbox' = <<State("Stopping")>> \o Removal
    BY <1>5 DEF InitBegin, InitEvents, Exit, ExitEvents, historyVars
  <2>2. SaysNothing(State("Initializing")) /\ SaysNothing(State("Stopping"))
    BY DEF SaysNothing, State
  <2> QED  BY <1>1, <1>4, <2>1, <2>2, RemovalAmongOthers
<1>6. CASE OpenSucceeds
  <2>1. PICK e, f : outbox' = <<e, f>> /\ SaysNothing(e) /\ SaysNothing(f)
    BY <1>6 DEF OpenSucceeds, Initialized, State, SaysNothing
  <2>2. Tells(Present, outbox', Present)
    BY <2>1 DEF Tells, Says
  <2> QED  BY <1>3, <1>6, <2>2 DEF OpenSucceeds, OpenReturns, historyVars
<1>7. CASE OpenFails
  <2>1. PICK e, f : outbox' = <<e, f>> /\ SaysNothing(e) /\ SaysNothing(f)
    BY <1>7 DEF OpenFails, InitializationFailed, State, SaysNothing
  <2>2. Tells(Present, outbox', Present)
    BY <2>1 DEF Tells, Says
  <2> QED  BY <1>3, <1>7, <2>2 DEF OpenFails, OpenReturns, historyVars
<1>8. CASE UnexpectedFailure
  <2>1. \/ outbox' = <<>>
        \/ \E e, f : outbox' = <<e, f>> /\ SaysNothing(e) /\ SaysNothing(f)
    BY <1>8 DEF UnexpectedFailure, WorkerError, State, SaysNothing
  <2>2. Tells(Present, outbox', Present)
    BY <2>1 DEF Tells, Says
  <2> QED  BY <1>3, <1>8, <2>2 DEF UnexpectedFailure, historyVars
<1>9. CASE OpenCancelled \/ TakeRetry \/ RememberScanning \/ ScanningCancelled
  BY <1>2, <1>9 DEF OpenCancelled, TakeRetry, RememberScanning,
                    ScanningCancelled, TakeSetScanning, hardware, historyVars
<1>10. CASE LoopTop \/ NoCommand \/ PollCancelled \/ End \/ Wait
            \/ SpuriousWakeup
  BY <1>2, <1>10 DEF LoopTop, NoCommand, PollCancelled, End, Wait,
                     SpuriousWakeup, Move, hardware, historyVars
<1>11. CASE ScanningOn \/ Close
  <2>1. /\ \/ outbox' = <<State("Scanning")>>
           \/ outbox' = <<State("Stopped")>>
        /\ SaysNothing(State("Scanning")) /\ SaysNothing(State("Stopped"))
    BY <1>11 DEF ScanningOn, Close, State, SaysNothing
  <2>2. Tells(Present, outbox', Present)
    BY <2>1 DEF Tells, Says
  <2> QED  BY <1>3, <1>11, <2>2
           DEF ScanningOn, Close, TakeSetScanning, historyVars
<1>12. CASE ScanningOff
  <2>1. /\ announced' = announced /\ ClearPresence
        /\ outbox' = Removal \o <<State("Idle")>>
    BY <1>12 DEF ScanningOff, TakeSetScanning, historyVars
  <2>2. SaysNothing(State("Idle"))
    BY DEF SaysNothing, State
  <2> QED  BY <1>1, <1>4, <2>1, <2>2, RemovalAmongOthers
<1>13. CASE ScanningFails \/ PollFails
  <2>1. /\ announced' = announced /\ ClearPresence
        /\ outbox' = <<WorkerError(TRUE)>> \o Removal \o <<State("Error")>>
    BY <1>13 DEF ScanningFails, PollFails, GiveUpReader, TakeSetScanning,
                 historyVars
  <2>2. SaysNothing(WorkerError(TRUE)) /\ SaysNothing(State("Error"))
    BY DEF SaysNothing, State, WorkerError
  <2> QED  BY <1>1, <1>4, <2>1, <2>2, RemovalAmongOthers
<1>14. CASE Poll
  <2>1. announced' = announced
    BY <1>14 DEF Poll, historyVars
  <2>2. CASE ObserveNothing
    BY <1>1, <2>1, <2>2, ObserveNothingPreserves, NothingTells, HandlerTells
  <2>3. ASSUME NEW dt \in 0..MaxStep, ObserveNoTag(dt)
        PROVE  ToldSoFar'
    <3>1. dt \in Nat
      BY WorkerAssumption
    <3> QED  BY <1>1, <2>1, <2>3, <3>1, ObserveNoTagPreserves, NoTagTells,
                HandlerTells
  <2>4. ASSUME NEW t \in Tags, ObserveTag(t)
        PROVE  ToldSoFar'
    BY <1>1, <2>1, <2>4, ObserveTagPreserves, TagTells, HandlerTells
  <2> QED  BY <1>14, <2>2, <2>3, <2>4 DEF Poll
<1> QED  BY <1>5, <1>6, <1>7, <1>8, <1>9, <1>10, <1>11, <1>12, <1>13, <1>14
         DEF AwakeSteps

LEMMA PushTold ==
    ASSUME RestInv, Push
    PROVE  /\ ToldSoFar'
           /\ Says(announced, Head(outbox), announced')
<1>1. /\ Says(announced, Head(outbox), announced')
      /\ Tells(announced', outbox', Present)
  BY PushTells DEF RestInv, ToldSoFar, Push
<1>2. announced' \in Announcements
  BY <1>1, SaysType DEF RestInv, ToldSoFar
<1>3. Present' = Present /\ presence' = presence
  BY DEF Push, Present
<1> QED  BY <1>1, <1>2, <1>3 DEF RestInv, ToldSoFar, PresenceOK

-----------------------------------------------------------------------------
(* What a caller's steps keep.                                             *)

LEMMA CallerPlacesOK ==
    ASSUME RestInv, NEW c \in Callers, Calls(c) \/ Continues(c)
    PROVE  PlacesOK'
<1>1. CASE StartThread(c)
  <2>1. thread = "none" /\ outbox = <<>> /\ backend = "closed"
    BY <1>1 DEF StartThread, Go, RestInv, RetryInv, LifecycleInv, StartStopOK,
                Preparing, PlacesOK
  <2>2. /\ thread' \in {"none", "init"} /\ attempt' = 0
        /\ presence' = NoPresence(1) /\ outbox' = <<>> /\ backend' = "closed"
    BY <1>1, <2>1 DEF StartThread
  <2> QED  BY <2>2 DEF PlacesOK, ThreadPlaces, NoPresence
<1>2. CASE ~StartThread(c)
  <2>1. UNCHANGED <<attempt, presence, outbox, backend>>
    BY <1>2, CallersLeaveHardware DEF hardware, locals
  <2>2. \/ thread' = thread
        \/ thread = "asleep" /\ thread' = "wait"
        \/ thread \in {"none", "done"} /\ thread' = "none"
    BY <1>2 DEF Calls, Continues, Start, Stop, PostShutdown, PostRetryAgain,
                PostCommand, Accept, TryPopEvent, StartJoin, StartEvents,
                StopJoin, StopNotify, Notify, NotifyAndGo, Woken, Finished
  <2> QED  BY <2>1, <2>2 DEF RestInv, PlacesOK, ThreadPlaces
<1> QED  BY <1>1, <1>2

(* Popping an event leaves a queue that is no longer.                      *)
LEMMA PopKeeps ==
    ASSUME QueueOK, CanPop(queue), queue' = AfterPop(queue)
    PROVE  QueueOK'
<1>1. PICK S : queue.events \in Seq(S)
  BY DEF QueueOK
<1>2. CASE queue.dropped # 0
  BY <1>2 DEF QueueOK, AfterPop
<1>3. CASE queue.dropped = 0
  <2>1. queue.events # <<>>
    BY <1>3 DEF CanPop
  <2>2. /\ queue'.events = Tail(queue.events)
        /\ queue'.dropped = 0
    BY <1>3 DEF AfterPop
  <2>3. /\ Tail(queue.events) \in Seq(S)
        /\ Len(Tail(queue.events)) <= Len(queue.events)
    BY <1>1, <2>1
  <2>4. Len(Tail(queue.events)) <= EventCapacity
    BY <1>1, <2>3, EventCapacityAssumption DEF QueueOK
  <2> QED  BY <2>2, <2>3, <2>4 DEF QueueOK
<1> QED  BY <1>2, <1>3

LEMMA PushKeeps ==
    ASSUME QueueOK, NEW e, queue' = PushEvent(queue, e)
    PROVE  QueueOK'
<1>1. PICK S : queue.events \in Seq(S)
  BY DEF QueueOK
<1> DEFINE s == queue.events
           T == S \cup {e}
<1>2. /\ s \in Seq(T) /\ e \in T
      /\ Len(s) \in Nat /\ Len(s) <= EventCapacity
  BY <1>1 DEF QueueOK
<1>3. CASE ~IsFull(queue)
  <2>1. queue'.events = Append(s, e) /\ queue'.dropped = queue.dropped
    BY <1>3 DEF PushEvent
  <2>2. Append(s, e) \in Seq(T) /\ Len(Append(s, e)) = Len(s) + 1
    BY <1>2
  <2>3. Len(s) + 1 <= EventCapacity
    BY <1>2, <1>3, EventCapacityAssumption DEF IsFull
  <2> QED  BY <2>1, <2>2, <2>3 DEF QueueOK
<1>4. CASE IsFull(queue) /\ IsDroppable(e)
  BY <1>4 DEF PushEvent, QueueOK
<1>5. CASE IsFull(queue) /\ ~IsDroppable(e)
  <2> DEFINE k == Victim(queue)
             w == Without(s, k)
  <2>1. /\ queue'.events = Append(w, e)
        /\ queue'.dropped = queue.dropped + 1
    BY <1>5 DEF PushEvent
  <2>2. Len(s) >= 1
    BY <1>2, <1>5, EventCapacityAssumption DEF IsFull
  <2>3. w \in Seq(T) /\ Len(w) = Len(s) - 1
    <3> HIDE DEF k, T
    <3> DEFINE v == [i \in 1..(Len(s) - 1) |->
                       IF i < k THEN s[i] ELSE s[i + 1]]
    <3>1. Len(s) - 1 \in Nat
      BY <1>2, <2>2
    <3>2. \A i \in 1..(Len(s) - 1) : s[i] \in T /\ s[i + 1] \in T
      BY <1>2
    <3>3. v \in [1..(Len(s) - 1) -> T]
      BY <3>2
    <3>4. v \in Seq(T) /\ Len(v) = Len(s) - 1
      BY <3>1, <3>3
    <3> QED  BY <3>4 DEF Without
  <2>4. Append(w, e) \in Seq(T) /\ Len(Append(w, e)) = Len(w) + 1
    <3> HIDE DEF w, T
    <3> QED  BY <1>2, <2>3
  <2>5. Len(w) + 1 <= EventCapacity
    BY <1>2, <2>3
  <2>6. queue.dropped + 1 \in Nat
    BY DEF QueueOK
  <2> HIDE DEF w, T
  <2> QED  BY <2>1, <2>4, <2>5, <2>6 DEF QueueOK
<1> QED  BY <1>3, <1>4, <1>5

LEMMA EmptyQueueOK ==
    ASSUME queue' = EmptyQueue
    PROVE  QueueOK'
<1>1. queue'.events = <<>> /\ queue'.dropped = 0
  BY DEF EmptyQueue
<1>2. <<>> \in Seq({}) /\ Len(<<>>) = 0 /\ 0 <= EventCapacity
  BY EventCapacityAssumption
<1> QED  BY <1>1, <1>2 DEF QueueOK

(* Only a pop and the preparation of a run touch the event queue.          *)
LEMMA CallersLeaveQueue ==
    ASSUME NEW c \in Callers, Calls(c) \/ Continues(c),
           ~TryPopEvent(c), ~StartEvents(c)
    PROVE  queue' = queue
BY DEF Calls, Continues, Start, Stop, PostShutdown, PostRetryAgain,
       PostCommand, Accept, StartJoin, StartThread, StopJoin, StopNotify,
       Notify, NotifyAndGo

LEMMA CallerQueueOK ==
    ASSUME RestInv, NEW c \in Callers, Calls(c) \/ Continues(c)
    PROVE  QueueOK'
<1>1. CASE TryPopEvent(c)
  BY <1>1, PopKeeps DEF TryPopEvent, RestInv
<1>2. CASE StartEvents(c)
  BY <1>2, EmptyQueueOK DEF StartEvents, EventsCleared
<1>3. CASE ~TryPopEvent(c) /\ ~StartEvents(c)
  BY <1>3, CallersLeaveQueue DEF RestInv, QueueOK
<1> QED  BY <1>1, <1>2, <1>3

(* A queue emptied for a new run stays so until its hardware thread runs.  *)
LEMMA CallerFreshOK ==
    ASSUME RestInv, NEW c \in Callers, Calls(c) \/ Continues(c)
    PROVE  FreshOK'
<1>1. CallersOK
  BY DEF RestInv, RetryInv, LifecycleInv
<1>2. CASE StartEvents(c)
  <2>1. queue' = EmptyQueue
    BY <1>2 DEF StartEvents, EventsCleared
  <2>2. thread = "none" /\ thread' = thread
    BY <1>2 DEF StartEvents, Go, RestInv, RetryInv, LifecycleInv, StartStopOK,
                Preparing
  <2> QED  BY <2>1, <2>2 DEF FreshOK
<1>3. CASE StartThread(c)
  <2>1. queue = EmptyQueue /\ queue' = queue
    BY <1>3 DEF StartThread, Go, RestInv, FreshOK
  <2>2. thread = "none" /\ outbox = <<>>
    BY <1>3 DEF StartThread, Go, RestInv, RetryInv, LifecycleInv, StartStopOK,
                Preparing, PlacesOK
  <2>3. presence' = NoPresence(1) /\ outbox' = <<>>
    BY <1>3, <2>2 DEF StartThread
  <2> QED  BY <2>1, <2>3 DEF FreshOK
<1>4. CASE TryPopEvent(c)
  <2>1. queue # EmptyQueue
    BY <1>4 DEF TryPopEvent, CanPop, EmptyQueue
  <2>2. UNCHANGED <<caller, thread, attempt>>
    BY <1>4 DEF TryPopEvent, callerVars, hardware, locals
  <2> QED  BY <2>1, <2>2 DEF RestInv, FreshOK
<1>5. CASE ~StartEvents(c) /\ ~StartThread(c) /\ ~TryPopEvent(c)
  <2>1. UNCHANGED <<queue, attempt, presence, outbox>>
    BY <1>5, CallersLeaveHardware, CallersLeaveQueue DEF hardware, locals
  <2>2. thread' = "init" => thread = "init"
    BY <1>5 DEF Calls, Continues, Start, Stop, PostShutdown, PostRetryAgain,
                PostCommand, Accept, StartJoin, StopJoin, StopNotify, Notify,
                NotifyAndGo, Woken
  <2>3. \A d \in Callers :
           caller'[d] = "start_thread" => caller[d] = "start_thread"
    BY <1>1, <1>5 DEF CallersOK, Calls, Continues, Start, Stop, PostShutdown,
                PostRetryAgain, PostCommand, Accept, StartJoin, StopJoin,
                StopNotify, Notify, NotifyAndGo, Go
  <2> QED  BY <2>1, <2>2, <2>3 DEF RestInv, FreshOK
<1> QED  BY <1>2, <1>3, <1>4, <1>5

LEMMA CallerFlagsOK ==
    ASSUME RestInv, NEW c \in Callers, Calls(c) \/ Continues(c)
    PROVE  FlagsOK'
<1>1. MaxRuns \in Nat /\ MaxPosts \in Nat
  BY WorkerAssumption
<1>2. /\ runs' \in 0..MaxRuns /\ posts' \in 0..MaxPosts
  <2>1. runs \in 0..MaxRuns /\ posts \in 0..MaxPosts
    BY DEF RestInv, FlagsOK
  <2>2. \/ runs' = runs
        \/ runs < MaxRuns /\ runs' = runs + 1
    BY DEF Calls, Continues, Start, Stop, PostShutdown, PostRetryAgain,
           PostCommand, Accept, TryPopEvent, StartJoin, StartEvents,
           StartThread, StopJoin, StopNotify, Notify, NotifyAndGo, countVars
  <2>3. \/ posts' = posts
        \/ posts < MaxPosts /\ posts' = posts + 1
    BY DEF Calls, Continues, Start, Stop, PostShutdown, PostRetryAgain,
           PostCommand, Accept, TryPopEvent, StartJoin, StartEvents,
           StartThread, StopJoin, StopNotify, Notify, NotifyAndGo, countVars
  <2> QED  BY <1>1, <2>1, <2>2, <2>3
<1>3. /\ running \in BOOLEAN /\ stopRequested \in BOOLEAN
      /\ initInProgress \in BOOLEAN /\ initialized \in BOOLEAN
      /\ scanRequested \in BOOLEAN /\ retryOwed \in BOOLEAN
  BY DEF RestInv, FlagsOK
<1>4. running' \in BOOLEAN /\ stopRequested' \in BOOLEAN
  BY <1>3, Zenon DEF Calls, Continues, Start, Stop, PostShutdown,
     PostRetryAgain, PostCommand, Accept, TryPopEvent, StartJoin, StartEvents,
     StartThread, StopJoin, StopNotify, Notify, NotifyAndGo, flagVars
<1>5. /\ initInProgress' \in BOOLEAN /\ initialized' \in BOOLEAN
      /\ scanRequested' \in BOOLEAN
  <2>1. CASE StartThread(c)
    BY <1>3, <2>1 DEF StartThread
  <2>2. CASE ~StartThread(c)
    BY <1>3, <2>2, CallersLeaveHardware DEF hardware, locals
  <2> QED  BY <2>1, <2>2
<1>6. retryOwed' \in BOOLEAN
  BY <1>3, Zenon DEF Calls, Continues, Start, Stop, PostShutdown,
     PostRetryAgain, PostCommand, Accept, TryPopEvent, StartJoin, StartEvents,
     StartThread, StopJoin, StopNotify, Notify, NotifyAndGo, historyVars
<1> QED  BY <1>2, <1>4, <1>5, <1>6 DEF FlagsOK

LEMMA CallerHoldersOK ==
    ASSUME RestInv, NEW c \in Callers, Calls(c) \/ Continues(c)
    PROVE  HoldersOK'
<1>1. CallersOK /\ HoldersOK /\ StartStopOK
  BY DEF RestInv, RetryInv, LifecycleInv
<1> USE DEF InStart, InStop
<1>2. CASE Start(c) \/ Stop(c)
  BY <1>1, <1>2 DEF Start, Stop, Lock, Go, CallersOK, HoldersOK
<1>3. CASE PostShutdown(c) \/ PostRetryAgain(c) \/ TryPopEvent(c) \/ Notify(c)
  BY <1>1, <1>3 DEF PostShutdown, PostRetryAgain, Accept, TryPopEvent, Notify,
     NotifyAndGo, Go, callerVars, CallersOK, HoldersOK
<1>4. ASSUME NEW command \in Commands, PostCommand(c, command)
      PROVE  HoldersOK'
  BY <1>1, <1>4 DEF PostCommand, Accept, Go, CallersOK, HoldersOK
<1>5. CASE StartJoin(c) \/ StartEvents(c) \/ StopNotify(c)
  BY <1>1, <1>5 DEF StartJoin, StartEvents, StopNotify, NotifyAndGo, Go,
     CallersOK, HoldersOK
<1>6. CASE StartThread(c) \/ StopJoin(c)
  BY <1>1, <1>6 DEF StartThread, StopJoin, Go, Unlock, CallersOK, HoldersOK
<1> QED  BY <1>2, <1>3, <1>4, <1>5, <1>6 DEF Calls, Continues

(* A Retry is queued only where none is.                                   *)
LEMMA CallerCommandsOK ==
    ASSUME RestInv, NEW c \in Callers, Calls(c) \/ Continues(c)
    PROVE  CommandsOK'
<1>1. commands \in Seq(Commands) /\ CommandsOK
  BY DEF RestInv, RetryInv
<1>2. ASSUME NEW command \in Commands, PostCommand(c, command)
      PROVE  CommandsOK'
  <2>1. /\ commands' = Append(commands, command)
        /\ Len(commands) < CommandCapacity
        /\ command = Retry
             => \A i \in 1..Len(commands) : commands[i] # Retry
    BY <1>2 DEF PostCommand, Room, RetryComing, RetryQueued
  <2>2. /\ Len(commands') = Len(commands) + 1
        /\ commands'[Len(commands) + 1] = command
        /\ \A i \in 1..Len(commands) : commands'[i] = commands[i]
    BY <1>1, <2>1
  <2>3. Len(commands) \in Nat
    BY <1>1
  <2>4. Len(commands') <= CommandCapacity
    BY <2>1, <2>2, <2>3, WorkerAssumption
  <2>5. ASSUME NEW i \in 1..Len(commands'), NEW j \in 1..Len(commands'),
               commands'[i] = Retry, commands'[j] = Retry
        PROVE  i = j
    <3>1. /\ i \in 1..Len(commands) \/ i = Len(commands) + 1
          /\ j \in 1..Len(commands) \/ j = Len(commands) + 1
      BY <2>2, <2>3
    <3> QED  BY <1>1, <2>1, <2>2, <2>5, <3>1 DEF CommandsOK
  <2> QED  BY <2>4, <2>5 DEF CommandsOK
<1>3. CASE StartJoin(c)
  <2>1. commands' = <<>>
    BY <1>3 DEF StartJoin
  <2>2. Len(<<>>) = 0 /\ 0 <= CommandCapacity
    BY WorkerAssumption
  <2> QED  BY <2>1, <2>2 DEF CommandsOK
<1>4. ASSUME \A command \in Commands : ~PostCommand(c, command),
             ~StartJoin(c)
      PROVE  CommandsOK'
  <2>1. commands' = commands
    BY <1>4 DEF Calls, Continues, Start, Stop, PostShutdown, PostRetryAgain,
       TryPopEvent, StartEvents, StartThread, StopJoin, StopNotify, Notify,
       NotifyAndGo
  <2> QED  BY <1>1, <2>1 DEF CommandsOK
<1> QED  BY <1>2, <1>3, <1>4

LEMMA CallerRests ==
    ASSUME RestInv, NEW c \in Callers, Calls(c) \/ Continues(c)
    PROVE  RestInv'
<1>1. RetryInv'
  BY StepOwns DEF Next, RestInv
<1> QED
  BY <1>1, CallerTells, CallerPlacesOK, CallerQueueOK, CallerFreshOK,
     CallerFlagsOK, CallerHoldersOK, CallerCommandsOK DEF RestInv

-----------------------------------------------------------------------------
(* What a step of the hardware thread keeps, before its events are pushed. *)

(* A command taken off the queue.                                          *)
LEMMA TailKeeps ==
    ASSUME commands \in Seq(Commands), CommandsOK, commands # <<>>,
           commands' = Tail(commands)
    PROVE  CommandsOK'
<1>1. /\ Len(commands) \in Nat /\ Len(commands) >= 1
      /\ Len(commands') = Len(commands) - 1
      /\ \A i \in 1..(Len(commands) - 1) : commands'[i] = commands[i + 1]
  OBVIOUS
<1>2. Len(commands') <= CommandCapacity
  BY <1>1, WorkerAssumption DEF CommandsOK
<1>3. ASSUME NEW i \in 1..Len(commands'), NEW j \in 1..Len(commands'),
             commands'[i] = Retry, commands'[j] = Retry
      PROVE  i = j
  <2>1. i + 1 \in 1..Len(commands) /\ j + 1 \in 1..Len(commands)
    BY <1>1
  <2>2. commands[i + 1] = Retry /\ commands[j + 1] = Retry
    BY <1>1, <1>3
  <2>3. i + 1 = j + 1
    BY <2>1, <2>2 DEF CommandsOK
  <2> QED  BY <1>1, <2>3
<1> QED  BY <1>2, <1>3 DEF CommandsOK

LEMMA ThreadCommandsOK ==
    ASSUME RestInv, AwakeSteps \/ Wait \/ SpuriousWakeup
    PROVE  CommandsOK'
<1>1. commands \in Seq(Commands) /\ CommandsOK
  BY DEF RestInv, RetryInv
<1>2. CASE \E command \in Commands : Take(command)
  BY <1>1, <1>2, TailKeeps DEF Take
<1>3. CASE \A command \in Commands : ~Take(command)
  <2>1. /\ ~TakeRetry
        /\ \A on \in BOOLEAN : ~TakeSetScanning(on)
    BY <1>3 DEF TakeRetry, TakeSetScanning, Commands
  <2>2. commands' = commands
    BY <2>1 DEF AwakeSteps, InitBegin, OpenSucceeds, OpenFails, OpenReturns,
       OpenCancelled, LoopTop, RememberScanning, ScanningOn, ScanningOff,
       ScanningFails, ScanningCancelled, NoCommand, Poll, PollFails,
       PollCancelled, UnexpectedFailure, Exit, Close, End, Wait,
       SpuriousWakeup, Move
  <2> QED  BY <1>1, <2>2 DEF CommandsOK
<1> QED  BY <1>2, <1>3

LEMMA ThreadPlacesOK ==
    ASSUME RestInv, AwakeSteps \/ Wait \/ SpuriousWakeup
    PROVE  PlacesOK'
<1> USE DEF PlacesOK, ThreadPlaces
<1>1. PlacesOK /\ outbox = <<>>
  BY ThreadStepsRun DEF RestInv
<1>2. CASE InitBegin \/ UnexpectedFailure
  <2>1. /\ attempt \in Nat /\ attempt' = attempt + 1
        /\ thread' \in {"open", "exit"}
        /\ backend' = "closed" \/ backend' = backend
    BY <1>1, <1>2 DEF InitBegin, UnexpectedFailure
  <2>2. attempt' \in Nat /\ attempt' # 0
    BY <2>1
  <2> QED  BY <1>1, <2>1, <2>2
<1>3. CASE OpenSucceeds \/ OpenFails
  BY <1>1, <1>3 DEF OpenSucceeds, OpenFails, OpenReturns, At
<1>4. CASE OpenCancelled
  BY <1>1, <1>4 DEF OpenCancelled, At, locals
<1>5. CASE LoopTop \/ NoCommand \/ PollCancelled \/ End \/ Wait
           \/ SpuriousWakeup
  <2>1. UNCHANGED <<attempt, presence, outbox, backend>>
    BY <1>5 DEF LoopTop, NoCommand, PollCancelled, End, Wait, SpuriousWakeup,
                Move, hardware, locals
  <2>2. /\ thread \in {"loop", "command", "wait", "asleep", "poll", "end"}
        /\ \/ thread' \in {"exit", "command", "wait", "asleep", "poll", "loop"}
           \/ thread = "end" /\ thread' = "done"
    BY <1>5 DEF LoopTop, NoCommand, PollCancelled, End, Wait, SpuriousWakeup,
                Move, At
  <2> QED  BY <1>1, <2>1, <2>2
<1>6. CASE TakeRetry
  BY <1>1, <1>6 DEF TakeRetry, Take, At, hardware, locals
<1>7. CASE RememberScanning \/ ScanningOn \/ ScanningOff \/ ScanningCancelled
  BY <1>1, <1>7 DEF RememberScanning, ScanningOn, ScanningOff,
     ScanningCancelled, TakeSetScanning, Take, At
<1>8. CASE ScanningFails \/ PollFails
  BY <1>1, <1>8 DEF ScanningFails, PollFails, GiveUpReader, CloseImmediately,
     TakeSetScanning, Take, At
<1>9. CASE Poll
  BY <1>1, <1>9 DEF Poll, At, locals
<1>10. CASE Exit
  BY <1>1, <1>10 DEF Exit, At, locals, ClearPresence, NoPresence
<1>11. CASE Close
  BY <1>1, <1>11 DEF Close, At, locals
<1> QED  BY <1>2, <1>3, <1>4, <1>5, <1>6, <1>7, <1>8, <1>9, <1>10, <1>11
         DEF AwakeSteps

LEMMA ThreadFreshOK ==
    ASSUME RestInv, AwakeSteps \/ Wait \/ SpuriousWakeup
    PROVE  FreshOK'
<1>1. UNCHANGED <<caller, queue>>
  BY ThreadLeavesOthers DEF others, callerVars
<1>2. thread' = "init" => attempt' # 0
  <2>1. CASE TakeRetry
    BY <2>1 DEF TakeRetry, Take, At, hardware, locals, RestInv, PlacesOK
  <2>2. CASE ~TakeRetry
    BY <2>2 DEF AwakeSteps, InitBegin, OpenSucceeds, OpenFails, OpenReturns,
       OpenCancelled, LoopTop, RememberScanning, ScanningOn, ScanningOff,
       ScanningFails, ScanningCancelled, NoCommand, Poll, PollFails,
       GiveUpReader, PollCancelled, UnexpectedFailure, Exit, Close, End, Wait,
       SpuriousWakeup, Move
  <2> QED  BY <2>1, <2>2
<1> QED  BY <1>1, <1>2 DEF RestInv, FreshOK

LEMMA ThreadFlagsOK ==
    ASSUME RestInv, AwakeSteps \/ Wait \/ SpuriousWakeup
    PROVE  FlagsOK'
<1>1. /\ running \in BOOLEAN /\ stopRequested \in BOOLEAN
      /\ initInProgress \in BOOLEAN /\ initialized \in BOOLEAN
      /\ scanRequested \in BOOLEAN /\ retryOwed \in BOOLEAN
  BY DEF RestInv, FlagsOK
<1>2. UNCHANGED <<runs, posts, stopRequested>>
  BY ThreadLeavesOthers DEF others, countVars
<1>3. /\ running' \in BOOLEAN /\ retryOwed' \in BOOLEAN
      /\ initInProgress' \in BOOLEAN
  BY <1>1, Zenon DEF AwakeSteps, InitBegin, OpenSucceeds, OpenFails,
     OpenReturns, GuardReleased, OpenCancelled, LoopTop, TakeRetry,
     RememberScanning, ScanningOn, ScanningOff, ScanningFails,
     ScanningCancelled, TakeSetScanning, NoCommand, Poll, PollFails,
     PollCancelled, UnexpectedFailure, Exit, Close, End, Wait, SpuriousWakeup,
     Move, flagVars, hardware, historyVars
<1>4. initialized' \in BOOLEAN
  BY <1>1, Zenon DEF AwakeSteps, InitBegin, OpenSucceeds, OpenFails,
     OpenCancelled, LoopTop, TakeRetry,
     RememberScanning, ScanningOn, ScanningOff, ScanningFails, GiveUpReader,
     ScanningCancelled, NoCommand, Poll, PollFails,
     PollCancelled, UnexpectedFailure, Exit, Close, End, Wait, SpuriousWakeup,
     Move, locals, hardware
<1>5. scanRequested' \in BOOLEAN
  BY <1>1, Zenon DEF AwakeSteps, InitBegin, OpenSucceeds, OpenFails,
     OpenReturns, OpenCancelled, LoopTop, TakeRetry,
     RememberScanning, ScanningOn, ScanningOff, ScanningFails,
     ScanningCancelled, TakeSetScanning, NoCommand, Poll, PollFails,
     PollCancelled, UnexpectedFailure, Exit, Close, End, Wait, SpuriousWakeup,
     Move, locals, hardware
<1> QED  BY <1>1, <1>2, <1>3, <1>4, <1>5 DEF RestInv, FlagsOK

LEMMA ThreadRests ==
    ASSUME RestInv, AwakeSteps \/ Wait \/ SpuriousWakeup
    PROVE  RestInv'
<1>1. RetryInv'
  BY StepOwns DEF Next, ThreadStep, AwakeSteps, RestInv
<1>2. QueueOK' /\ HoldersOK'
  BY ThreadLeavesOthers DEF others, callerVars, RestInv, QueueOK, HoldersOK
<1> QED
  BY <1>1, <1>2, ThreadTells, ThreadPlacesOK, ThreadFreshOK, ThreadFlagsOK,
     ThreadCommandsOK DEF RestInv

LEMMA PushRests ==
    ASSUME RestInv, Push
    PROVE  RestInv'
<1>1. RetryInv'
  BY StepOwns DEF Next, ThreadStep, RestInv
<1>2. ToldSoFar'
  BY PushTold
<1>3. QueueOK'
  BY PushKeeps DEF Push, RestInv
<1>4. outbox # <<>> /\ UNCHANGED <<caller, lifecycle, commands, thread>>
      /\ UNCHANGED <<attempt, presence, backend, running, stopRequested>>
      /\ UNCHANGED <<initInProgress, initialized, scanRequested, runs, posts>>
  BY DEF Push, callerVars, flagVars, locals, countVars
<1>5. PlacesOK' /\ FreshOK'
  <2>1. thread \notin {"none", "done"}
    BY <1>4 DEF RestInv, PlacesOK
  <2>2. ~(thread = "init" /\ attempt = 0)
    BY <1>4 DEF RestInv, FreshOK
  <2>3. \A c \in Callers : caller[c] # "start_thread"
    BY <2>1 DEF RestInv, RetryInv, LifecycleInv, StartStopOK, Preparing
  <2> QED  BY <1>4, <2>1, <2>2, <2>3 DEF RestInv, PlacesOK, FreshOK
<1>6. FlagsOK'
  <2>1. retryOwed' \in BOOLEAN
    BY DEF Push, RestInv, FlagsOK
  <2> QED  BY <1>4, <2>1 DEF RestInv, FlagsOK
<1>7. HoldersOK' /\ CommandsOK'
  BY <1>4 DEF RestInv, HoldersOK, CommandsOK
<1> QED  BY <1>1, <1>2, <1>3, <1>5, <1>6, <1>7 DEF RestInv

LEMMA StepRests == RestInv /\ [Next]_vars => RestInv'
<1> SUFFICES ASSUME RestInv, [Next]_vars
             PROVE  RestInv'
  OBVIOUS
<1>1. CASE UNCHANGED vars
  <2>1. RetryInv'
    BY StepOwns DEF RestInv
  <2>2. UNCHANGED <<caller, lifecycle, commands, thread, queue, attempt>>
        /\ UNCHANGED <<presence, outbox, backend, running, stopRequested>>
        /\ UNCHANGED <<initInProgress, initialized, scanRequested, runs>>
        /\ UNCHANGED <<posts, retryOwed, announced>>
    BY <1>1 DEF vars, callerVars, flagVars, hardware, locals, countVars,
                historyVars
  <2>3. ToldSoFar' /\ PlacesOK' /\ QueueOK' /\ FreshOK'
    BY <2>2 DEF RestInv, ToldSoFar, PresenceOK, Present, PlacesOK, QueueOK, FreshOK
  <2>4. FlagsOK' /\ HoldersOK' /\ CommandsOK'
    BY <2>2 DEF RestInv, FlagsOK, HoldersOK, CommandsOK
  <2> QED  BY <2>1, <2>3, <2>4 DEF RestInv
<1> QED
  BY <1>1, CallerRests, ThreadRests, PushRests
  DEF Next, ThreadStep, AwakeSteps

(* A stopped worker leaves nothing behind, whatever its last run went      *)
(* through, and a new run finds nothing of the one before: no event, no    *)
(* tag, no announced session, no open radio.                               *)
THEOREM WorkerComesToRest == Spec => []AtRest
<1>1. QED
  BY RestInit, StepRests, RestInvImplies, PTL DEF Spec

(* The backend follows the worker for the whole of its life, from run to   *)
(* run: whatever fails, it is polled only in discovery, closed when given  *)
(* up, and closed in the end.                                              *)
THEOREM BackendFollowsWorker == Spec => []InStepAndAtRest
<1>1. BackendInStep /\ AtRest => InStepAndAtRest
  BY DEF InStepAndAtRest
<1>2. QED
  BY <1>1, BackendStaysInStep, WorkerComesToRest, PTL

-----------------------------------------------------------------------------
(* The pushed events tell of one tag session after the other.              *)

LEMMA PushAnnounces ==
    ASSUME RestInv, Push
    PROVE  [Announced!SessionNext]_(Announced!sessionVars)
<1> DEFINE e == Head(outbox)
<1>1. Says(announced, e, announced') /\ announced \in Announcements
  BY PushTold DEF RestInv, ToldSoFar
<1> HIDE DEF e
<1>2. CASE SaysNothing(e)
  <2>1. announced' = announced
    BY <1>1, <1>2 DEF Says, SaysNothing
  <2> QED  BY <2>1 DEF Announced!sessionVars
<1>3. CASE e.type = "TagPresented"
  <2>1. /\ e.tag \in Tags /\ announced.live = 0
        /\ announced' = [live |-> e.session, tag |-> e.tag,
                         issued |-> e.session]
        /\ e.session = announced.issued + 1
    BY <1>1, <1>3 DEF Says, SaysNothing
  <2>2. Announced!Present(e.tag)
    BY <2>1 DEF Announced!Present
  <2>3. e.tag \in Announced!SessionTags
    BY <2>1 DEF Announced!SessionTags, Tags
  <2> QED  BY <2>2, <2>3 DEF Announced!SessionNext
<1>4. CASE e.type = "TagUpdated"
  <2>1. /\ e.tag \in Tags /\ announced.live # 0
        /\ e.tag.id = announced.tag.id /\ e.tag # announced.tag
        /\ announced' = [live |-> announced.live, tag |-> e.tag,
                         issued |-> announced.issued]
    BY <1>1, <1>4 DEF Says, SaysNothing
  <2>2. Announced!Update(e.tag)
    BY <2>1 DEF Announced!Update
  <2>3. e.tag \in Announced!SessionTags
    BY <2>1 DEF Announced!SessionTags, Tags
  <2> QED  BY <2>2, <2>3 DEF Announced!SessionNext
<1>5. CASE e.type = "TagRemoved"
  <2>1. /\ announced.live # 0
        /\ announced' = [live |-> 0, tag |-> NoTag,
                         issued |-> announced.issued]
    BY <1>1, <1>5 DEF Says, SaysNothing
  <2>2. Announced!Remove
    BY <2>1 DEF Announced!Remove
  <2> QED  BY <2>2 DEF Announced!SessionNext
<1> QED  BY <1>2, <1>3, <1>4, <1>5 DEF SaysNothing

LEMMA StartAnnounces ==
    ASSUME RestInv, NEW c \in Callers, StartThread(c)
    PROVE  Announced!Restart
<1>1. thread = "none" /\ announced' = NoSession
  BY DEF StartThread, Go, RestInv, RetryInv, LifecycleInv, StartStopOK,
         Preparing
<1>2. outbox = <<>> /\ presence.tag = NoTag
  BY <1>1 DEF RestInv, PlacesOK
<1>3. announced = Present /\ presence.session = 0
  BY <1>2 DEF RestInv, ToldSoFar, Tells, PresenceOK
<1>4. announced.live = 0 /\ announced.tag = NoTag
  BY <1>2, <1>3 DEF Present
<1> QED  BY <1>1, <1>4 DEF Announced!Restart, NoSession

LEMMA StepAnnounces ==
    ASSUME RestInv, [Next]_vars
    PROVE  [Announced!SessionNext]_(Announced!sessionVars)
<1>1. ASSUME announced' = announced
      PROVE  [Announced!SessionNext]_(Announced!sessionVars)
  BY <1>1 DEF Announced!sessionVars
<1>2. CASE UNCHANGED vars
  BY <1>1, <1>2 DEF vars, historyVars
<1>3. ASSUME NEW c \in Callers, Calls(c) \/ Continues(c)
      PROVE  [Announced!SessionNext]_(Announced!sessionVars)
  <2>1. CASE StartThread(c)
    BY <2>1, StartAnnounces DEF Announced!SessionNext
  <2>2. CASE ~StartThread(c)
    BY <1>1, <1>3, <2>2, CallersLeaveHardware
  <2> QED  BY <2>1, <2>2
<1>4. CASE AwakeSteps \/ Wait \/ SpuriousWakeup
  BY <1>1, <1>4, ThreadLeavesAnnounced
<1>5. CASE Push
  BY <1>5, PushAnnounces
<1> QED
  BY <1>2, <1>3, <1>4, <1>5 DEF Next, ThreadStep, AwakeSteps

(* Whatever fails, is retried or is stopped, the events of a run present,  *)
(* update and remove one tag after the other: the worker implements        *)
(* TagSessions.                                                            *)
THEOREM WorkerAnnouncesSessions == Spec => AnnouncesSessions
<1>1. Init => Announced!SessionInit
  BY DEF Init, NoSession, Announced!SessionInit
<1>2. RestInv /\ [Next]_vars => [Announced!SessionNext]_(Announced!sessionVars)
  BY StepAnnounces
<1>3. QED
  BY <1>1, <1>2, RestInit, StepRests, PTL
  DEF Spec, AnnouncesSessions, Announced!SessionSpec
=============================================================================
