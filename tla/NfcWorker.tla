------------------------------ MODULE NfcWorker ------------------------------
(***************************************************************************)
(* NfcWorker (src/nfc/nfc_worker.cpp): the hardware thread that owns the   *)
(* NFC backend, and the threads that call start, stop, post and            *)
(* tryPopEvent.                                                            *)
(*                                                                         *)
(* The grain is that of the code's locks: what happens under one hold of a *)
(* mutex is one step, and so is what only the hardware thread can see.     *)
(* A handler of the hardware thread leaves the events it pushes in         *)
(* "outbox"; they enter the queue one step at a time, and the thread goes  *)
(* on when all are in.                                                     *)
(*                                                                         *)
(* The backend is an environment: every call may succeed, throw, or, once  *)
(* a stop is requested, throw NfcCancelled.                                *)
(***************************************************************************)
EXTENDS TagPresence, EventQueue, FiniteSets

CONSTANTS
    Callers,           \* threads that use the worker
    CommandCapacity,   \* kCommandQueueCapacity
    MaxStep,           \* bound: ticks between two polls
    MaxRuns,           \* bound: successful calls of start
    MaxPosts,          \* bound: Retry and SetScanning commands accepted
    MaxSessions,       \* bound: tags presented in one run
    MaxDropped         \* bound: losses pending when a poll makes an event

ASSUME WorkerAssumption ==
    /\ CommandCapacity \in Nat \ {0}
    /\ {MaxStep, MaxRuns, MaxPosts, MaxSessions, MaxDropped} \subseteq Nat

VARIABLES
    caller,          \* caller -> what it is in the middle of
    lifecycle,       \* callers holding _lifecycle_mutex (at most one)
    running,         \* _running
    stopRequested,   \* _stop_requested
    initInProgress,  \* _initialization_in_progress
    commands,        \* _commands
    thread,          \* where the hardware thread is
    attempt,         \* _attempt
    initialized,     \* local of run()
    scanRequested,   \* local of run()
    queue,           \* _events, _pending_dropped_events
    backend,         \* what the backend was last told: closed, open, scanning
    runs, posts,     \* counters for MaxRuns and MaxPosts
    retryOwed,       \* history: an accepted Retry has had no outcome yet
    announced        \* history: the tag session the pushed events speak of

callerVars  == <<caller, lifecycle>>
flagVars    == <<running, stopRequested>>
countVars   == <<runs, posts>>
historyVars == <<retryOwed, announced>>
locals      == <<attempt, initialized, scanRequested>>

(* What no call of a running worker touches, and no step of its thread.    *)
hardware == <<initInProgress, locals, presence, outbox, backend>>
others   == <<callerVars, countVars, queue>>

vars == <<callerVars, flagVars, commands, thread, queue, hardware, countVars,
          historyVars>>

-----------------------------------------------------------------------------
Retry == [type |-> "Retry"]
SetScanning(on) == [type |-> "SetScanning", enabled |-> on]
Commands == {Retry} \cup {SetScanning(on) : on \in BOOLEAN}

State(s)       == [type |-> "State", state |-> s]
Initialized    == [type |-> "Initialized"]
WorkerError(r) == [type |-> "WorkerError", recoverable |-> r]
InitializationFailed(n, u) ==
    [type |-> "InitializationFailed", attempt |-> n, unavailable |-> u]

Outcomes == {"Initialized", "InitializationFailed"}

CallerPlaces == {"idle", "notify", "start_join", "start_events",
                 "start_thread", "stop_notify", "stop_join"}

(* "none": _thread is not joinable; "done": run() has returned.            *)
ThreadPlaces == {"none", "init", "open", "loop", "command", "wait", "asleep",
                 "poll", "exit", "close", "end", "done"}

NoSession == [live |-> 0, tag |-> NoTag, issued |-> 0]

Init ==
    /\ caller = [c \in Callers |-> "idle"]
    /\ lifecycle = {}
    /\ running = FALSE /\ stopRequested = FALSE
    /\ initInProgress = FALSE
    /\ commands = <<>>
    /\ thread = "none"
    /\ attempt = 0 /\ initialized = FALSE /\ scanRequested = FALSE
    /\ presence = NoPresence(1)
    /\ outbox = <<>>
    /\ queue = EmptyQueue
    /\ backend = "closed"
    /\ runs = 0 /\ posts = 0
    /\ retryOwed = FALSE
    /\ announced = NoSession

-----------------------------------------------------------------------------
(* Callers.                                                                *)

Go(c, from, to) == caller[c] = from /\ caller' = [caller EXCEPT ![c] = to]

Lock(c) == lifecycle = {} /\ lifecycle' = {c}

Unlock(c) == lifecycle' = lifecycle \ {c}

Finished == thread \in {"none", "done"}

(* start(): a running worker is left alone, and then start returns false.  *)
Start(c) ==
    /\ runs < MaxRuns
    /\ Lock(c)
    /\ ~running
    /\ Go(c, "idle", "start_join")
    /\ runs' = runs + 1
    /\ UNCHANGED <<flagVars, commands, thread, queue, hardware, posts,
                   historyVars>>

StartJoin(c) ==
    /\ Go(c, "start_join", "start_events")
    /\ Finished
    /\ thread' = "none"
    /\ commands' = <<>>
    /\ stopRequested' = FALSE
    /\ running' = TRUE
    /\ retryOwed' = FALSE
    /\ UNCHANGED <<lifecycle, queue, hardware, countVars, announced>>

EventsCleared == queue' = EmptyQueue

StartEvents(c) ==
    /\ Go(c, "start_events", "start_thread")
    /\ EventsCleared
    /\ UNCHANGED <<lifecycle, flagVars, commands, thread, hardware, countVars,
                   historyVars>>

(* Resets the rest and creates the thread, whose locals start anew.        *)
StartThread(c) ==
    /\ Go(c, "start_thread", "idle")
    /\ Unlock(c)
    /\ attempt' = 0
    /\ presence' = NoPresence(1)
    /\ announced' = NoSession
    /\ scanRequested' \in BOOLEAN
    /\ initialized' = FALSE
    /\ \/ thread' = "init" /\ UNCHANGED running
       \/ thread' = "none" /\ running' = FALSE    \* std::thread threw
    /\ UNCHANGED <<stopRequested, initInProgress, commands, outbox, queue,
                   backend, countVars, retryOwed>>

(* stop()                                                                  *)
Stop(c) ==
    /\ Lock(c)
    /\ Go(c, "idle", "stop_notify")
    /\ stopRequested' = TRUE
    /\ UNCHANGED <<running, commands, thread, queue, hardware, countVars,
                   historyVars>>

NotWoken == thread         \* mutant: nobody is notified

Woken == IF thread = "asleep" THEN "wait" ELSE thread

NotifyAndGo(c, from, to) ==
    /\ Go(c, from, to)
    /\ thread' = Woken
    /\ UNCHANGED <<lifecycle, flagVars, commands, queue, hardware, countVars,
                   historyVars>>

StopNotify(c) == NotifyAndGo(c, "stop_notify", "stop_join")

StopJoin(c) ==
    /\ Go(c, "stop_join", "idle")
    /\ Unlock(c)
    /\ Finished
    /\ thread' = "none"
    /\ running' = FALSE
    /\ UNCHANGED <<stopRequested, commands, queue, hardware, countVars,
                   historyVars>>

(* post(): under _command_mutex; the notification follows the unlock.      *)
Accepting == running /\ ~stopRequested

RetryQueued == \E i \in 1..Len(commands) : commands[i] = Retry

RetryComing == initInProgress \/ RetryQueued

Room == Len(commands) < CommandCapacity

PostShutdown(c) ==
    /\ Accepting
    /\ Go(c, "idle", "notify")
    /\ stopRequested' = TRUE
    /\ UNCHANGED <<lifecycle, running, commands, thread, queue, hardware,
                   countVars, historyVars>>

Accept(command) ==
    /\ Accepting
    /\ posts < MaxPosts
    /\ posts' = posts + 1
    /\ retryOwed' = (retryOwed \/ command = Retry)
    /\ UNCHANGED <<lifecycle, flagVars, thread, queue, hardware, runs,
                   announced>>

(* A Retry that an initialization under way, or one already queued, will   *)
(* answer is accepted and not queued.                                      *)
PostRetryAgain(c) ==
    /\ Accept(Retry)
    /\ RetryComing
    /\ caller[c] = "idle"
    /\ UNCHANGED <<caller, commands>>

(* A full queue refuses the command: QueueFull, and nothing changes.       *)
PostCommand(c, command) ==
    /\ Accept(command)
    /\ command = Retry => ~RetryComing
    /\ Room
    /\ commands' = Append(commands, command)
    /\ Go(c, "idle", "notify")

Notify(c) == NotifyAndGo(c, "notify", "idle")

TryPopEvent(c) ==
    /\ caller[c] = "idle"
    /\ CanPop(queue)
    /\ queue' = AfterPop(queue)
    /\ UNCHANGED <<callerVars, flagVars, commands, thread, hardware,
                   countVars, historyVars>>

-----------------------------------------------------------------------------
(* The hardware thread.                                                    *)

(* It is at this place, and every event of the last handler is queued.     *)
At(place) == thread = place /\ outbox = <<>>

(* A step that changes nothing but the place.                              *)
Move(from, to) ==
    /\ At(from)
    /\ thread' = to
    /\ UNCHANGED <<others, flagVars, commands, hardware, historyVars>>

(* The session the pushed events speak of, after one more event.           *)
AnnouncedAfter(e) ==
    CASE e.type = "TagPresented" ->
           [live |-> e.session, tag |-> e.tag, issued |-> e.session]
      [] e.type = "TagUpdated" -> [announced EXCEPT !.tag = e.tag]
      [] e.type = "TagRemoved" -> [announced EXCEPT !.live = 0, !.tag = NoTag]
      [] OTHER -> announced

Push ==
    /\ outbox # <<>>
    /\ queue' = PushEvent(queue, Head(outbox))
    /\ outbox' = Tail(outbox)
    /\ announced' = AnnouncedAfter(Head(outbox))
    /\ retryOwed' = (retryOwed /\ Head(outbox).type \notin Outcomes)
    /\ UNCHANGED <<callerVars, flagVars, initInProgress, commands, thread,
                   locals, presence, backend, countVars>>

InitSilently == <<State("Initializing")>>     \* mutant: clearPresence(false)

InitEvents == <<State("Initializing")>> \o Removal

(* initializeBackend(), up to the call of open().                          *)
InitBegin ==
    /\ At("init")
    /\ initInProgress' = TRUE
    /\ attempt' = attempt + 1
    /\ outbox' = InitEvents
    /\ ClearPresence
    /\ backend' = "closed"
    /\ thread' = "open"
    /\ UNCHANGED <<others, flagVars, commands, initialized, scanRequested,
                   historyVars>>

GuardKept == UNCHANGED initInProgress         \* mutant: never released

GuardReleased == initInProgress' = FALSE

(* The guard is released before the outcome is pushed.                     *)
OpenReturns ==
    /\ At("open")
    /\ GuardReleased
    /\ thread' = "loop"
    /\ UNCHANGED <<others, flagVars, commands, attempt, scanRequested,
                   presence, historyVars>>

OpenSucceeds ==
    /\ OpenReturns
    /\ backend' = IF scanRequested THEN "scanning" ELSE "open"
    /\ initialized' = TRUE
    /\ outbox' = <<Initialized,
                   State(IF scanRequested THEN "Scanning" ELSE "Idle")>>

OpenFails ==
    /\ OpenReturns
    /\ backend' = "closed"
    /\ initialized' = FALSE
    /\ \E unavailable \in BOOLEAN :
          outbox' = <<InitializationFailed(attempt, unavailable),
                       State("Error")>>

(* NfcCancelled leaves initializeBackend and run()'s loop; the guard's     *)
(* destructor clears the flag, the backend stays as far as it got.         *)
OpenCancelled ==
    /\ At("open")
    /\ stopRequested
    /\ backend' \in {"closed", "open"}
    /\ initInProgress' = FALSE
    /\ thread' = "exit"
    /\ UNCHANGED <<others, flagVars, commands, locals, presence, outbox,
                   historyVars>>

LoopTop == Move("loop", IF stopRequested THEN "exit" ELSE "command")

(* tryPopCommand                                                           *)
Take(command) ==
    /\ At("command")
    /\ commands # <<>>
    /\ Head(commands) = command
    /\ commands' = Tail(commands)

TakeRetry ==
    /\ Take(Retry)
    /\ thread' = "init"
    /\ UNCHANGED <<others, flagVars, hardware, historyVars>>

TakeSetScanning(on) ==
    /\ Take(SetScanning(on))
    /\ scanRequested' = on
    /\ UNCHANGED <<others, flagVars, initInProgress, attempt, historyVars>>

(* Without a reader the request is only remembered.                        *)
RememberScanning ==
    /\ \E on \in BOOLEAN : TakeSetScanning(on)
    /\ ~initialized
    /\ thread' = "loop"
    /\ UNCHANGED <<initialized, presence, outbox, backend>>

ScanningOn ==
    /\ TakeSetScanning(TRUE)
    /\ initialized
    /\ backend' = "scanning"
    /\ outbox' = <<State("Scanning")>>
    /\ thread' = "loop"
    /\ UNCHANGED <<initialized, presence>>

ScanningOff ==
    /\ TakeSetScanning(FALSE)
    /\ initialized
    /\ backend' = "open"
    /\ outbox' = Removal \o <<State("Idle")>>
    /\ ClearPresence
    /\ thread' = "loop"
    /\ UNCHANGED initialized

LeftOpen == UNCHANGED backend     \* mutant: no closeImmediately

CloseImmediately == backend' = "closed"

(* What a failed call of the backend does in handleCommand and in run().   *)
GiveUpReader ==
    /\ outbox' = <<WorkerError(TRUE)>> \o Removal \o <<State("Error")>>
    /\ ClearPresence
    /\ CloseImmediately
    /\ initialized' = FALSE
    /\ thread' = "loop"

ScanningFails == TakeSetScanning(TRUE) /\ initialized /\ GiveUpReader

ScanningCancelled ==
    /\ TakeSetScanning(TRUE)
    /\ initialized
    /\ stopRequested
    /\ thread' = "exit"
    /\ UNCHANGED <<initialized, presence, outbox, backend>>

(* No command: wait for one, rest 100 ms, or poll.  The timed waits of     *)
(* run() end by themselves and are a delay before the next step here.      *)
NoCommand ==
    /\ commands = <<>>
    /\ Move("command", IF ~initialized THEN "wait"
                       ELSE IF scanRequested THEN "poll" ELSE "loop")

NoWork == FALSE            \* mutant: wait without a predicate

Work == stopRequested \/ commands # <<>>

(* _command_cv.wait: the predicate is tested and the thread put to sleep   *)
(* under _command_mutex.                                                   *)
Wait == Move("wait", IF Work THEN "loop" ELSE "asleep")

SpuriousWakeup == Move("asleep", "wait")

(* pollDiscovery returns, and handleDiscoveryResult acts on the result.    *)
Poll ==
    /\ At("poll")
    /\ \/ ObserveNothing
       \/ \E dt \in 0..MaxStep : ObserveNoTag(dt)
       \/ \E t \in Tags : ObserveTag(t)
    /\ presence'.nextSession <= MaxSessions + 1
    /\ outbox' # <<>> => queue.dropped < MaxDropped
    /\ thread' = "loop"
    /\ UNCHANGED <<others, flagVars, initInProgress, commands, locals,
                   backend, historyVars>>

PollFails ==
    /\ At("poll")
    /\ GiveUpReader
    /\ UNCHANGED <<others, flagVars, initInProgress, commands, attempt,
                   scanRequested, historyVars>>

PollCancelled == stopRequested /\ Move("poll", "exit")

(* An exception no handler inside the loop catches (std::bad_alloc while a *)
(* State event is built); initializeBackend's guard clears its flag.       *)
UnexpectedFailure ==
    /\ At("init")
    /\ attempt' = attempt + 1
    /\ outbox' = IF stopRequested THEN <<>>
                 ELSE <<WorkerError(FALSE), State("Error")>>
    /\ thread' = "exit"
    /\ UNCHANGED <<others, flagVars, initInProgress, commands, initialized,
                   scanRequested, presence, backend, historyVars>>

ExitEvents == <<State("Stopping")>> \o Removal

(* The end of run().                                                       *)
Exit ==
    /\ At("exit")
    /\ running' = FALSE
    /\ outbox' = ExitEvents
    /\ ClearPresence
    /\ retryOwed' = FALSE
    /\ thread' = "close"
    /\ UNCHANGED <<others, stopRequested, initInProgress, commands, locals,
                   backend, announced>>

Close ==
    /\ At("close")
    /\ backend' = "closed"
    /\ outbox' = <<State("Stopped")>>
    /\ thread' = "end"
    /\ UNCHANGED <<others, flagVars, initInProgress, commands, locals,
                   presence, historyVars>>

End == Move("end", "done")

-----------------------------------------------------------------------------
Calls(c) ==
    \/ Start(c) \/ Stop(c) \/ PostShutdown(c) \/ PostRetryAgain(c)
    \/ \E command \in Commands : PostCommand(c, command)
    \/ TryPopEvent(c)

Continues(c) ==
    \/ StartJoin(c) \/ StartEvents(c) \/ StartThread(c)
    \/ StopNotify(c) \/ StopJoin(c) \/ Notify(c)

ThreadStep ==
    \/ Push \/ InitBegin \/ OpenSucceeds \/ OpenFails \/ OpenCancelled
    \/ LoopTop \/ TakeRetry \/ RememberScanning \/ ScanningOn \/ ScanningOff
    \/ ScanningFails \/ ScanningCancelled \/ NoCommand \/ Wait
    \/ Poll \/ PollFails \/ PollCancelled \/ UnexpectedFailure
    \/ Exit \/ Close \/ End

Next ==
    \/ \E c \in Callers : Calls(c) \/ Continues(c)
    \/ ThreadStep
    \/ SpuriousWakeup

Spec == Init /\ [][Next]_vars

-----------------------------------------------------------------------------
InStart == {"start_join", "start_events", "start_thread"}
InStop  == {"stop_notify", "stop_join"}

(* The shape of the state: with the types, that only the holder of         *)
(* _lifecycle_mutex is inside start or stop, that a start prepares the     *)
(* next run with no hardware thread about, and that Retries coalesce.      *)
TypeOK ==
    /\ caller \in [Callers -> CallerPlaces]
    /\ \A c \in Callers : caller[c] \in InStart \cup InStop <=> c \in lifecycle
    /\ \A c, d \in lifecycle : c = d
    /\ \A c \in Callers :
          caller[c] \in {"start_events", "start_thread"} => thread = "none"
    /\ {running, stopRequested, initInProgress, initialized, scanRequested,
        retryOwed} \subseteq BOOLEAN
    /\ commands \in Seq(Commands)
    /\ Len(commands) <= CommandCapacity
    /\ \A i, j \in 1..Len(commands) :
          commands[i] = Retry /\ commands[j] = Retry => i = j
    /\ thread \in ThreadPlaces
    /\ attempt \in Nat
    /\ presence \in PresenceType
    /\ Len(queue.events) <= EventCapacity
    /\ queue.dropped \in Nat
    /\ backend \in {"closed", "open", "scanning"}
    /\ runs \in 0..MaxRuns /\ posts \in 0..MaxPosts

(* No wake-up is lost: the hardware thread never sleeps on a command or a  *)
(* stop request that nobody is about to notify it of.                      *)
NoLostWakeup ==
    thread = "asleep" /\ (stopRequested \/ commands # <<>>)
      => \E c \in Callers : caller[c] \in {"notify", "stop_notify"}

(* An accepted Retry, queued or not, always has an initialization that     *)
(* will answer it: one queued, one under way, or one whose outcome is      *)
(* about to be pushed; unless the worker is stopping or stopped.           *)
RetryHasOwner ==
    retryOwed =>
      \/ RetryQueued
      \/ thread \in {"init", "open", "exit"}
      \/ \E i \in 1..Len(outbox) : outbox[i].type \in Outcomes
      \/ ~Accepting

(* What the hardware thread believes of its reader is what it told the     *)
(* backend: it polls only a backend in discovery, and a reader it has      *)
(* given up is closed.                                                     *)
BackendInStep ==
    thread \in {"loop", "command", "wait", "asleep", "poll"}
      => backend = IF ~initialized THEN "closed"
                   ELSE IF scanRequested THEN "scanning" ELSE "open"

(* Nothing crosses from one run into the next.  A worker that was stopped, *)
(* or never started, is at rest: nothing is initialising, no tag is or was *)
(* left announced as present, and the backend has been closed, radio off.  *)
(* A new hardware thread finds no event, no count of dropped events, no    *)
(* tag or candidate of the previous run.                                   *)
AtRest ==
    /\ TypeOK
    /\ Finished =>
          /\ outbox = <<>>
          /\ ~initInProgress
          /\ presence.tag = NoTag
          /\ announced.live = 0
          /\ backend = "closed"
    /\ thread = "init" /\ attempt = 0
          => queue = EmptyQueue /\ presence = NoPresence(1) /\ ~initInProgress

(* Both: the backend follows the hardware thread from its first run to the *)
(* rest after its last, through every failure and every stop.              *)
InStepAndAtRest == BackendInStep /\ AtRest

(* The events pushed in a run tell of one tag session after the other, as  *)
(* TagSessions promises: no removal is missing or doubled, whatever        *)
(* failure, retry, or stop came between.                                   *)
Announced == INSTANCE TagSessions WITH
    live <- announced.live, tag <- announced.tag, issued <- announced.issued

AnnouncesSessions == Announced!SessionSpec
=============================================================================
