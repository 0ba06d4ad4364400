------------------------------ MODULE NfcModel ------------------------------
(***************************************************************************)
(* NfcModel (src/models/nfc_model.cpp) on top of NfcWorker: the UI thread  *)
(* starts and stops the worker, asks it for a retry, and on every tick     *)
(* turns up to kMaxEventsPerTick queued events into what the screen shows. *)
(*                                                                         *)
(* The UI thread is the only caller of the worker here, as in the program. *)
(* A call of NfcModel that calls the worker is as many steps as the        *)
(* worker's own, and the UI thread does nothing else until it returns;     *)
(* neither does it between two events of one tick.  Texts, timestamps, and *)
(* "ready" (true exactly in Scanning and Idle) are left out.               *)
(***************************************************************************)
EXTENDS NfcWorker

CONSTANTS
    UiThread,        \* the UI thread
    EventsPerTick    \* kMaxEventsPerTick

ASSUME ModelAssumption ==
    /\ Callers = {UiThread}
    /\ EventsPerTick \in Nat \ {0}

VARIABLES
    started,     \* _started
    status,      \* _reader_status
    shown,       \* _tag_session
    ui,          \* which call of NfcModel the UI thread is in
    budget       \* events the current tick may still take

modelVars == <<started, status, shown, ui, budget>>
allVars == <<vars, modelVars>>

NothingShown == [id |-> 0, present |-> FALSE, tag |-> NoTag]

ModelInit ==
    /\ Init
    /\ started = FALSE
    /\ status = [state |-> "Stopped", failed |-> FALSE, unavailable |-> FALSE,
                 failedAttempt |-> 0, dropped |-> FALSE]
    /\ shown = NothingShown
    /\ ui = "idle"
    /\ budget = 0

(* The UI thread goes on inside a call, or from one to the next.           *)
Ui(from, to) == ui = from /\ ui' = to

-----------------------------------------------------------------------------
(* start().  Nobody else starts the worker, so worker->start is not        *)
(* refused; it may throw when the thread cannot be created.                *)
ModelStart ==
    /\ Ui("idle", "start")
    /\ ~started
    /\ Start(UiThread)
    /\ started' = TRUE
    /\ shown' = NothingShown
    /\ status' = [state |-> "Initializing", failed |-> FALSE,
                  unavailable |-> FALSE, failedAttempt |-> 0,
                  dropped |-> FALSE]
    /\ UNCHANGED budget

WorkerStarts ==
    /\ ui \in {"start", "retry_start"}
    /\ StartJoin(UiThread) \/ StartEvents(UiThread)
    /\ UNCHANGED modelVars

WorkerStarted ==
    /\ \E call \in {"start", "retry_start"} : Ui(call, "idle")
    /\ StartThread(UiThread)
    /\ scanRequested' = TRUE
    /\ status' = IF running' THEN status
                 ELSE IF ui = "start"
                 THEN [status EXCEPT !.state = "Error", !.failed = TRUE,
                                     !.failedAttempt = 1]
                 ELSE [status EXCEPT !.state = "Error"]
    /\ UNCHANGED <<started, shown, budget>>

(* stop()                                                                  *)
ModelStop ==
    /\ Ui("idle", "stop")
    /\ started
    /\ Stop(UiThread)
    /\ UNCHANGED <<started, status, shown, budget>>

WorkerStops == ui = "stop" /\ StopNotify(UiThread) /\ UNCHANGED modelVars

HideTag == shown' = [shown EXCEPT !.present = FALSE]

WorkerStopped ==
    /\ Ui("stop", "idle")
    /\ StopJoin(UiThread)
    /\ HideTag
    /\ status' = [status EXCEPT !.state = "Stopped"]
    /\ started' = FALSE
    /\ UNCHANGED budget

-----------------------------------------------------------------------------
(* retry(): the screen changes first; then the worker is started again if  *)
(* it has ended, and asked to initialise again otherwise.                  *)
CanRetry ==
    /\ started
    /\ ~status.unavailable
    /\ status.state \in {"Error", "Stopped"}

ModelRetry ==
    /\ Ui("idle", IF running THEN "retry_post" ELSE "retry_begin")
    /\ CanRetry
    /\ posts < MaxPosts
    /\ running \/ runs < MaxRuns
    /\ status' = [status EXCEPT !.state = "Initializing", !.failed = FALSE,
                                !.unavailable = FALSE]
    /\ HideTag
    /\ UNCHANGED <<vars, started, budget>>

RetryStarts ==
    /\ Ui("retry_begin", "retry_start")
    /\ Start(UiThread)
    /\ UNCHANGED <<started, status, shown, budget>>

RetryPosted ==
    /\ Ui("retry_post", "retry_notify")
    /\ PostRetryAgain(UiThread) \/ PostCommand(UiThread, Retry)
    /\ UNCHANGED <<started, status, shown, budget>>

(* post() notifies after it has released the mutex, unless it queued       *)
(* nothing.                                                                *)
RetryReturns ==
    /\ Ui("retry_notify", "idle")
    /\ Notify(UiThread) \/ (caller[UiThread] = "idle" /\ UNCHANGED vars)
    /\ UNCHANGED <<started, status, shown, budget>>

(* The worker ended between the two looks at it: post() says NotRunning.   *)
RetryRefused ==
    /\ Ui("retry_post", "idle")
    /\ ~Accepting
    /\ status' = [status EXCEPT !.state = "Error"]
    /\ UNCHANGED <<vars, started, shown, budget>>

-----------------------------------------------------------------------------
(* tick(): what each event changes.                                        *)
StateUnlessError(e) ==     \* mutant: an error hides the states after it
    IF status.state = "Error" THEN "Error" ELSE e.state

StateOf(e) == e.state

StillFailed(s) == s        \* mutant: an old failure outlives the retry

Healthy(s) == [s EXCEPT !.failed = FALSE, !.unavailable = FALSE]

StatusAfter(e) ==
    CASE e.type = "State" ->
           LET s == [status EXCEPT !.state = StateOf(e)]
           IN  IF e.state \in {"Initializing", "Scanning", "Idle"}
               THEN Healthy(s) ELSE s
      [] e.type = "Initialized" ->
           Healthy([status EXCEPT !.state = "Scanning"])
      [] e.type = "InitializationFailed" ->
           [status EXCEPT !.state = "Error", !.failed = TRUE,
                          !.unavailable = e.unavailable,
                          !.failedAttempt = e.attempt]
      [] e.type = "WorkerError" -> [status EXCEPT !.state = "Error"]
      [] e.type = "QueueOverflow" -> [status EXCEPT !.dropped = TRUE]
      [] OTHER -> status

StillShown(e) == shown     \* mutant: a removal is ignored

Removed(e) == [shown EXCEPT !.present = FALSE, !.tag = e.tag]

ShownAfter(e) ==
    CASE e.type = "TagPresented" ->
           [id |-> e.session, present |-> TRUE, tag |-> e.tag]
      [] e.type = "TagUpdated" /\ shown.present /\ shown.id = e.session ->
           [shown EXCEPT !.tag = e.tag]
      [] e.type = "TagRemoved" /\ shown.id = e.session -> Removed(e)
      [] OTHER -> shown

TickBegin ==
    /\ Ui("idle", "tick")
    /\ started
    /\ CanPop(queue)
    /\ budget' = EventsPerTick
    /\ UNCHANGED <<vars, started, status, shown>>

TickEvent ==
    /\ ui = "tick"
    /\ budget > 0
    /\ TryPopEvent(UiThread)
    /\ status' = StatusAfter(Popped(queue))
    /\ shown' = ShownAfter(Popped(queue))
    /\ budget' = budget - 1
    /\ UNCHANGED <<started, ui>>

TickEnd ==
    /\ Ui("tick", "idle")
    /\ budget = 0 \/ ~CanPop(queue)
    /\ budget' = 0
    /\ UNCHANGED <<vars, started, status, shown>>

-----------------------------------------------------------------------------
UiContinues ==
    \/ WorkerStarts \/ WorkerStarted \/ WorkerStops \/ WorkerStopped
    \/ RetryStarts \/ RetryPosted \/ RetryReturns \/ RetryRefused
    \/ TickBegin \/ TickEvent \/ TickEnd

UserActs == ModelStart \/ ModelStop \/ ModelRetry

WorkerActs == ThreadStep /\ UNCHANGED modelVars

ModelNext ==
    \/ UserActs
    \/ UiContinues
    \/ WorkerActs
    \/ SpuriousWakeup /\ UNCHANGED modelVars

ModelSpec == ModelInit /\ [][ModelNext]_allVars

(* The UI thread's timer keeps ticking, and the scheduler runs both        *)
(* threads; the user need not do anything.                                 *)
ModelFairSpec ==
    ModelSpec /\ WF_allVars(UiContinues) /\ WF_allVars(WorkerActs)

-----------------------------------------------------------------------------
Quiet == queue = EmptyQueue /\ outbox = <<>>

(* Once the UI has read everything and nothing was dropped, the screen     *)
(* shows the tag the worker last announced, and no other.  A tag from      *)
(* before a stop, or from a run that has ended, is never shown as present, *)
(* though stop and start throw away the event that removes it: its number  *)
(* would be taken for one of the new run.                                  *)
ScreenShowsTheTag ==
    /\ started /\ ui = "idle" /\ Quiet /\ ~status.dropped
         => /\ shown.present
                 => announced.live = shown.id /\ shown.tag = announced.tag
            /\ announced.live # 0 /\ ~retryOwed => shown.present
    /\ shown.present => started /\ shown.id < presence.nextSession

(* ... and the state the hardware thread is in: scanning while it polls,   *)
(* an error while it waits for a retry, stopped when it has ended.         *)
ScreenShowsTheState ==
    started /\ ui = "idle" /\ Quiet /\ ~status.dropped /\ ~retryOwed
      => /\ thread = "poll" => status.state = "Scanning"
         /\ thread = "asleep" => status.state = "Error"
         /\ thread = "done" => status.state = "Stopped"

(* The status changes only in the ways NfcViewModel was checked against: a *)
(* failure is cleared only by a reader that works or by a retry, and a     *)
(* retry that is refused ends in Error.                                    *)
Status == INSTANCE ReaderStatus WITH
    Attempts <- 1..(MaxPosts + 1),
    reader <- [f \in {"state", "failed", "unavailable", "failedAttempt"}
                 |-> status[f]]

ImplementsReaderStatus == Status!StatusSpec

(* "Retrying" and "Starting" end: whatever the backend does, the screen    *)
(* leaves Initializing, unless it was told that events were dropped.       *)
InitializingEnds ==
    status.state = "Initializing"
      ~> (status.state # "Initializing" \/ status.dropped)

(* A stop from the UI comes back, with the reader shown as stopped.        *)
ModelStopReturns == ui = "stop" ~> ~started
=============================================================================
