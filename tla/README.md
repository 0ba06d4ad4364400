# Cap-CC1101-NFC: a TLA+ model of the NFC reader

The program is an NFC reader with a small LVGL user interface. One hardware
thread owns the radio; the UI thread talks to it through two queues. The
specifications in this directory model the parts where that gets hard: what the
hardware thread and its callers may do to each other, what becomes of the events
between them, how raw poll results are turned into tag sessions, how one radio is
shared by two protocols and what each exchange with a tag is worth, what the
process takes from the machine and gives back, and how it starts and ends. Paths
below are relative to the repository.

## Inventory

Component | State | Operations | Hard behaviour | What makes it correct
---|---|---|---|---
`NfcWorker` (`src/nfc/nfc_worker.cpp`) | command queue (32), event queue (64), `_running`, `_stop_requested`, `_initialization_in_progress`, the thread, the presence fields | `start`, `stop`, `post`, `tryPopEvent`; the loop `run` | three mutexes, three atomics, a condition variable, a backend that fails or is cancelled anywhere | no lost wake-up; an accepted Retry is answered; `stop` returns; a finished worker leaves the tag removed and the radio off
Presence filter (`handleDiscoveryResult`, `clearPresence`) | present tag, candidate, two counters, a time, session numbers | one call per poll result | counters that reset each other | a session opens only after two sightings in a row and closes only after three absences over 160 ms, and then at once
Event queue (`pushEvent`, `tryPopEvent`) | events, pending losses | push, pop | overflow while the UI is away | order, no silent loss, the newest events that matter survive
Discovery arbiter (`LinuxNfcBackend`) | probe and locked protocol, three counters | `startDiscovery`, `stopDiscovery`, `pollDiscovery` | a phone that answers both protocols, noise, silence | NFC-F has precedence, NFC-A is not starved, a lock outlives a missed answer
`LinuxNfcBackend` resources | overlay, GPIO line, power, SPI, driver | `open`, `close` | failure, cancellation or death between two acquisitions | everything acquired is released, in the one safe order
SPI overlay loader (`src/hal/cap_spi_overlay.cpp`) | the device, the lock file, a child | `ensureCapSpiOverlay` | two processes at once, a loader that hangs, a device that comes late | loaded once, by one at a time; the lock ends with its stage
`St25r3916Driver`: exchange | interrupt latch, FIFO, the IRQ line and its edges | `transceive`, `requestWakeup`, `haltSelectedTag`, SENSF, `waitForInterrupt` | two registers read one after the other, edges missed or left over, a FIFO that lags | a verdict is about the exchange that was asked for, doubt has a reason, every exchange ends
`St25r3916Driver`: poll A | the states of the tags, the uid so far | `pollNfcA`, `selectTag`, `readType2Ndef` | collisions, a tag that leaves half-way, HLTA without an answer | uid and content are one tag's; a miss has a cause
`St25r3916Driver`: field, NDEF cache | field on or off, protocol, cache | initialise, poll A, poll F, stop | the lock of the backend and the cache expire by different counters | a content is the tag's of now
NDEF parser | a cursor over tag bytes | `parseNdefMessage` | lengths chosen by the tag | never past the end, accepts exactly what can be written
`NfcModel` (`src/models/nfc_model.cpp`) | reader status, tag session, `_started` | `start`, `stop`, `retry`, `tick` | looks at the worker and acts later; reads events of the past | the screen ends up showing the reader's state
`NfcViewModel` | section, failure dialog, last failed attempt | keys, tick | a dialog still fading out, attempts numbered anew | every failure is shown, a retry is offered when it can work
`NfcApp`, `NfcRouter` | page, help, hold of ESC | start, stop, keys, tick | key repeat, wrap of a 32-bit clock | quits only on a deliberate hold
`NfcKeypad` (`src/input/nfc_keypad.cpp`) | devices, modifiers | `openDefault`, `poll`, `close` | events that wait in several queues while the app draws | the hold of Esc is judged after its release was read
`main` | signal flag, alarm | start-up, loop, shutdown | a signal in any of them, steps that hang | the process ends, and is not killed before its time
HAL: power, GPIO, SPI | pins, line handle, file descriptors | request, release, enable, disable, transfer | several steps of which one fails | pins and handles are given back
Mock and unavailable backends, views, build, packaging, tests | | | | stand-ins, drawing, tooling

The UI thread runs `main`'s loop: keypad, LVGL, `NfcApp::tick`, and through it
`NfcModel::tick`; `NfcModel` calls `tryPopEvent`, `start`, `stop`, `post` of
`NfcWorker`; the hardware thread calls the backend, which calls the driver, which
calls the HAL. Nothing else crosses threads. A signal handler sets a flag and an
alarm.

## Modules

The worker and what it is made of:

- `TagSessions`: what the reader promises about tags, with nothing of how: one
  session at a time, numbered upwards, presented, updated, removed or replaced.
- `TagPresence`: the presence fields of `NfcWorker` and one operator for each way
  through `handleDiscoveryResult` and `clearPresence`. An operator leaves the
  events it pushes in `outbox`. Time is the age of the first NoTag, in ticks.
- `TagDebounce`: `TagPresence` driven by every sequence of poll results, with the
  sequence and its times kept in `log`, so that the counters can be judged by the
  raw results. It implements `TagSessions`.
- `EventQueue`, `EventDelivery`: `pushEvent` and `tryPopEvent` as operators on a
  queue, and a thread that pushes against a thread that pops.
- `NfcWorker`: all of `nfc_worker.cpp`. Callers and the hardware thread are
  interleaved at the grain of the mutexes: one step is what happens under one hold
  of a mutex, or what only the hardware thread can see. The place in `run` is
  `thread`; the place of a caller inside `start`, `stop` or `post` is `caller[c]`.
  The backend may succeed, throw, or throw `NfcCancelled` once a stop is requested.

The user interface on top of it:

- `NfcModel`: `nfc_model.cpp` composed with `NfcWorker`, the UI thread being its
  only caller. A call that blocks (`stop` joins the thread) is several steps, during
  which the UI thread does nothing else.
- `ReaderStatus`: the abstract specification between model and page: the ways the
  shown status may change. `NfcModel` implements it; the page is built on it.
- `NfcViewModel`: the page: sections, failure dialog, retry; operators and actions
  used by `NfcApp`. A dialog is `active`, then fades, then is off the screen.
- `NfcApp`: the application: start, stop, every key, every tick, with the hold of
  Esc that quits, the help overlay, and both builds (keypad, SDL).
- `EscHold`: the abstract specification between app and main loop: what a press, a
  release, a tick and the passing of time may do to the hold. `NfcApp` implements
  it, with a clock that wraps; `AppProcess` is built on it, with time that does not.
- `NfcKeypad`: `openDefault` (the board's keyboard, or all that have a key for the
  app), the kernel's queues, `poll`, which reads device after device until each is
  empty, and `translateKey`.
- `AppProcess`: `main()` on the device: `NfcKeypad` and `EscHold` in its loop, the
  handlers of SIGINT, SIGTERM and SIGALRM, the user at the keyboards. `place` is
  where `main` is; a slow step (display, start, drawing, ticks, stop, close) may
  take any time, the others take none.

The reader below it:

- `DiscoveryArbiter`: `startDiscovery`, `stopDiscovery`, `pollDiscovery` of
  `LinuxNfcBackend`, one action per way through `pollDiscovery`; what an exchange
  of the radio ends in is the environment's choice.
- `St25r3916Driver`: the driver's protocol, field and NDEF cache as a record, one
  operator per call.
- `TagReader`: arbiter and driver composed, with the tags somebody holds to the
  antenna. It is where two classes' counters must agree.
- `RadioExchange`: the abstract exchange: a verdict is about what was heard since
  the request.
- `NfcExchange`: one exchange of the driver in full, beside the chip: what the chip
  latches and when, the two registers a read clears, the IRQ line, the kernel's
  queue of edges, the FIFO; `waitForInterrupt` with its drain of four passes and its
  wait in slices; the four kinds of exchange and their judgement. It implements
  `RadioExchange`.
- `NfcAPoll`: `pollNfcA`, one exchange to a step: wake-up, anticollision and select
  over up to three levels, reading, halt, or the reset of the field; against the
  tags in the field, each in its state of ISO 14443-3. Frames are lost, tags come
  and go. `Anticollision` has the outcomes of the loop in `anticollisionLevel`, not
  its bits. A tag that answers alone, or several that say the same, are heard
  unless something disturbs them. Where answers differ in a bit (`Collide`) the loop
  may end, undisturbed, in any of three ways, because the merge of the bits already
  sent (`src/nfc/st25r3916_driver.cpp:1158-1161`) comes before the `readFifo` that
  overwrites it, `responseOffset` (1156) counts from the last answer only, and a
  collision in bit 7 shifts the next one: it fails (1124-1142), or the checksum does
  (389-392); bytes of no tag pass the checksum (`Garbled`), to which no tag answers;
  or the bytes are those of one tag, where it drowns the other out or the chip puts
  the bits back. Nothing in the repository promises more for two tags.
- `Type2Tag`: the memory of a Type 2 tag: how TLV blocks are laid out (the
  reference), and `readType2Ndef`, which walks them; used by `NfcAPoll`.
- `NdefEncoding`, `NdefParser`: how an NDEF message is written (the reference), and
  `parseNdefMessage`, which reads one, one step per record. Bytes are numbers.
- `TagContent`: `NfcAPoll` and `NdefParser` composed: what a poll read is parsed
  before it returns.
- `ReaderResources`: `open` and `closeImpl` of `LinuxNfcBackend` with
  `CardputerZeroCapPower`, one action per acquisition or release, each of which may
  fail or be cancelled; the process may die between any two. `Supply` succeeds also
  where EXT5V still reads 0 after the write, or cannot be read back: `enable` warns
  and leaves it to the probe (`src/hal/cardputerzero_cap_power.cpp:248-262`). So
  what `LinesInOrder` says of the supplies while a driver exists is about POWER_EN
  (GPIO26) only.
- `SpiOverlay`: `ensureCapSpiOverlay`, any number of processes, one loader child
  each, a file lock, a device that appears late.
- `ReaderStartup`: both composed: the first stage of `open` is a call of
  `ensureCapSpiOverlay` by this process, beside the others.

`MC...` modules and `.cfg` files hold the instances TLC checks; `...Proofs` and
`TagPresenceLemmas` the theorems TLAPS checks. A definition marked "mutant" is not
part of a model: it is the same piece of code with a plausible bug, kept to show
that a property notices it.

## What the runs show

Run | Properties | What it shows | Instance
---|---|---|---
`debounce` | `PresentedOnlyIfAgreed`, `RemovedOnlyIfAbsent`, `FilterIsPrompt`, `ImplementsSessions` | a tag is presented or removed exactly when the raw results justify it: no sooner, no later | 2 identities with 2 contents, up to 6 polls, the code's thresholds 2 and 3; 160 ms is 2 ticks, a poll comes 0 to 2 ticks after the one before
`delivery` | `Accounted`, `OnlyOldEventsLost` | every loss is reported once; an event that must be kept is lost only to a queue's worth of later ones | capacity 3, 9 pushes: three times round the queue
`worker` | `NoLostWakeup`, `RetryHasOwner`, `InStepAndAtRest`, `AnnouncesSessions` | no interleaving of two callers with the hardware thread loses a wake-up, orphans a Retry, leaves a radio on or a tag announced; no deadlock | 2 callers, 2 runs, 3 commands, 2 tags, 2 sessions; queues of 2 and 1, so both overflow
`model` | `ScreenShowsTheTag`, `ScreenShowsTheState`, `ImplementsReaderStatus`, `InitializingEnds`, `ModelStopReturns` | with everything read, screen and hardware thread agree, in every run; "Initializing" ends; `stop` returns | 1 UI thread, 2 runs, 2 retries, 1 tag with 2 contents, 2 events a tick, a queue of 1, where every second event displaces one or is lost
`app` | `OnePressOneEffect`, `DialogHasKeys`, `ImplementsEscHold`, `NewFailuresShown` | one press of Esc has one effect; a hold is counted right over the wrap of the clock and ends with whatever comes up; no failure is missed | both builds, hint after 0 and exit after 1, a clock modulo 3, attempts 1 and 2
`process` | `ForcedOnlyAfterTimeout`, `QuitIsPhysical`, `EndsWhenAsked` | whoever is asked to end does, wherever it hangs; nobody is killed early; only a key that was really held quits | 2 keyboards, 2 unread events, a delay of 1, a timeout of 2, 2 signals
`reader` | `InStep`, `ReportsWhatWasThere`, `ALocksOnlyAfterF`, `LockKeptThroughDoubt`, `ANotStarved` | NFC-F has precedence; a lock survives single misses; NFC-A gets its turn; the cache never outlives the lock, and no tag is reported with a content it did not have while held | the code's thresholds 3, 2, 3; the last 4 exchanges remembered; a tag with two contents, another, a phone that speaks both protocols
`arbiter_lock` | `NoPermanentFLock` (violated) | finding 1 | the code's thresholds
`reader_unread` | `TagIsRead` (violated) | finding 2 | the same tags as `reader`
`exchange` | `InterruptsAccounted`, `DoubtHasReason`, `ImplementsExchange`, `ExchangeEnds` | no interrupt is lost or taken from an earlier exchange; a verdict is earned; a missed edge costs time and nothing else; no deadlock | the code's 4 passes, 2 edges in the queue, 2 slices of waiting
`ndef` | `ParsesWhatWasWritten`, `ReportsOneTag`, `ReadsWhatWasWritten`, `RecordsAreTheTags`, `MissHasCause` | two tags are never joined into one; what was written is what is read, up to the capacity; the parser accepts exactly the encodings of some records; the records handed on are those on the tag whose uid is reported; a tag alone is not lost without a cause, two may be to their collision | tags that share a level of their uid or break the standard, in disturbed fields; calm tags with up to 3 TLV blocks of 6 kinds at every capacity, blocks of 4 bytes; 111,000 messages
`resources` | `LeavesMachineClean`, `LinesInOrder`, `LoadedOnce`, `LockEndsWithStage` | whichever step fails, is cancelled or is the process's last: nothing is kept, lines are used in a safe order (EXT5V up or not), one process loads at a time and once | 2 processes, 2 calls of the loader each; the rest is finite

### Bounds

Each counter that grows for ever has a bound, named in its module (most are
`Max...`), and each bound is a guard of the action that counts. What the bounds
leave out: more than two runs (nothing but `_attempt` and the session number tells
the second run from a third), queues of 32 and 64 (their operators depend on "full"
only, and small queues are full sooner), longer presence thresholds in `worker` and
`model` (the filter itself is checked in `debounce` with the real ones, and proved
for all), and a third keyboard. In `worker` the tags are interchangeable and so are
the callers; in `debounce` tags and contents; the symmetry is used for properties
without liveness, and no formula names one of them.

- `Window` in `reader`: 4 exchanges are one more than the largest threshold, which
  is what the two properties of the history need (and what the theorems about them
  assume).
- `exchange`: one edge can be left over from the exchange before and one be new; a
  third wakes the driver as the second does. Two slices tell a wait that ends in the
  first from one that goes on.
- `process`: a release behind a press in one queue and on two keyboards needs two
  events; a second signal is one that arms a running alarm.
- `ndef`: blocks of 4 instead of 16 bytes and a last page of 16 make the ends of
  block, capacity and sector fall on every part of a TLV block.

`CHECK_DEADLOCK FALSE` stands where the system stops for good: `debounce`,
`delivery`, `resources` and `model` run out of polls, pushes, calls, posts or runs;
`process` and `ndef` end. `worker`, `app`, `reader` and `exchange` are checked for
deadlock.

### Fairness

- `ModelFairSpec` (`model`): the UI thread goes on with what it is in the middle of
  and its timer keeps ticking; the operating system schedules the hardware thread,
  whose backend calls return, as they take a cancellation token or time out. The
  user does nothing for certain: start, stop and retry have no fairness.
- `FairProcess` (`process`): `main` is scheduled where it does not wait, time goes on,
  and the kernel delivers SIGALRM. A slow step has no fairness: it may hang, which
  is what the alarm is for. Neither have signals and the user.
- `FairExchangeSpec` (`exchange`): the driver's thread is scheduled. The chip, the tag and
  the edges have no fairness; the deadline ends a wait.
- `PolledSpec` (`reader`): a worker that scans polls again, by the loop in `run`.
  The outcome of an exchange has no fairness. `ANotStarved` assumes in its own
  statement that polling goes on and that NFC-F is of one mind.
- `ScanSpec` (`arbiter_lock`): the same for a reader that is never stopped.
- `ReadFairSpec` (`reader_unread`): polls go on, and a reading that can succeed again
  and again does at some time, which is what a radio link gives.

## Findings

1. `arbiter_lock`: the lock on NFC-F may be kept for ever without a tag. A clean
   silence resets the count of noisy exchanges, a noisy exchange the count of
   silences (`src/nfc/linux_nfc_backend.cpp:348,366`), so a locked protocol
   that sees both in turn reaches neither threshold, and NFC-A is not probed. The
   comment above `fallbackToA` says that an NFC-A tag "cannot be hidden behind a
   permanent F lock".
2. `reader_unread`: a tag whose first NDEF reading was disturbed is cached without
   its content (`src/nfc/st25r3916_driver.cpp:424`); as long as it stays, the
   content is copied from the cache and never read again.

## What is proved

The theorems hold for all values of the constants under the named `ASSUME`s of the
modules. Most of these say that thresholds and capacities are positive numbers and
that model values differ; `ExpiryAssumption` (`TagReader`) says that the driver's
cache expires no later than the backend's lock, 3 and 3 in the code;
`AppAssumption` (`NfcApp`) that the clock does not go round within a hold, which
with 32 bits and ticks some milliseconds apart it does not; `FieldsAssumption`
(`NfcAPoll`) that a tag has one to three levels of four bytes and that their first
byte says whether another follows, as ISO 14443-3 has it, and that `NobodysBytes`,
which stand for what a collision leaves, are not those of any tag; `TagsAssumption`
(`NfcAPoll`) that the tags in the field have different uids, that tags whose uids
have a level in common say the same of what follows it, and that the bytes of a tag
are a list of TLV blocks, each with a length its form can say, then a terminator or
nothing (`LaidOut`), with no blocks on a tag that is not of Type 2, which the driver
does not read; `Type2Assumption` that the first page of the data area is not behind
the last page read. Two theorems have a
hypothesis of their own, `WindowReaches`: the history that their property reads
must be long enough for it; and one `Passes >= 4`, see below. The bounds that TLC
needs are constants too, so that no theorem depends on their size.

- `NfcWorkerProofs!NoWakeupIsLost`: no wake-up is lost, for any number of callers.
  With the type of `caller`, `NoLostWakeup` is inductive: who gives the sleeping
  thread a reason to wake up becomes the notifier in the same step, a notifier leaves
  its place only by waking the thread, and the thread goes to sleep only in the step
  that finds nothing to do.
- `NfcWorkerProofs!StartAndStopExclude`: callers exclude each other in `start` and
  `stop`, and a start that has joined the old thread meets no other.
- `NfcWorkerProofs!RetryIsOwned`: an accepted Retry is never orphaned. The inductive
  invariant adds to the previous one that `_initialization_in_progress` is set only
  while the backend is being opened, so that the Retry `post` drops because of it is
  answered by that very opening, and that an outcome is the first event a handler
  leaves.
- `NfcWorkerProofs!BackendStaysInStep`: `BackendInStep` is inductive as it stands.
  With `AtRest` below it makes up `InStepAndAtRest` (`BackendFollowsWorker`).
- `NfcWorkerProofs!WorkerComesToRest`, `WorkerAnnouncesSessions`: `AtRest`, and the
  sequence of the events about tags is one of `TagSessions`. The invariant `RestInv`
  says what is announced at each place of the hardware thread (`ToldSoFar`: what was
  pushed and what is in `outbox` together are what `presence` says), which of its
  places may hold what (`PlacesOK`), that a run starts with what the one before left
  clean (`FreshOK`), and the types of queues, flags and holders. The lemmas of
  `TagPresenceLemmas` give what each poll result leaves in `outbox`.
- `TagEventsProofs!Invariance`: `Spec => []IInv`. `IInv` is inductive as it
  stands: besides types it says that a candidate exists exactly while it has
  confirmations, fewer than needed, and is not the present tag; that absences are
  counted only for a present tag; and that a tag is present exactly while its
  session is live. The induction is one case per way through the handler.
- `TagEventsProofs!Refinement`: each step of the filter is a step of
  `TagSessions` or a stutter, from `IInv` and the same lemmas.
- `TagEventsProofs!NoSessionByMisread`, `RemovalIsJustified`,
  `FilterMissesNothing`: the three properties of `debounce` that judge the counters
  by the raw results. Each direction needs its own half of "the counters agree with
  the log": the confirmations of the candidate and the absences of the present tag
  are in the log (`CandidateSeen`, `AbsenceBacked`), which makes an event justified;
  and what is in the log is counted, up to the thresholds, and is not yet enough
  (`SightingsCounted`, `AbsenceCounted`), which makes the filter prompt.
- `TagEventsProofs!LossesAddUp`, `LastStateSurvives`: both properties of
  `delivery`, for any capacity and any number of pushes. `DeliveryInv` adds that the
  queue is in order and that the lost events, too, are as old as promised.
- `TagReaderProofs!FHasPrecedence`: the arbiter's invariant, inductive as it stands:
  the conjuncts on each mode's counters are what keeps them from leaking into the
  next mode, and with it the thresholds from being passed.
- `TagReaderProofs!AWaitsForF`, `LockSurvivesDoubt`: `HistoryInv` adds that each
  counter is the number of exchanges of its kind that the history ends in.
- `TagReaderProofs!DriverInStep`, `NothingIsMadeUp`: `ReaderInv` relates the two
  classes: the driver's field and protocol are those the arbiter has chosen
  (`IsDriver`), both count the same silences while the cache holds something
  (`Agree`),
  and what the cache holds was on the antenna since the lock (`Recalls`). The lemma
  `PollCases` says once which polls there are.
- `ProcessProofs!ResourcesAreSafe`, `LinesStayInOrder`, `SuppliesStayUp`,
  `LockWorks`, `OverlayLoadedOnce`, `OverlayBeforeReader`: the properties of
  `resources`, without a bound on failures, cancellations, deaths, processes and
  calls. `RInv` lists, for each stage of opening and closing, exactly which
  resources are held there, and what is still owed to the owner of the selector;
  `OInv` says who may hold the lock; `Undisturbed` follows one loader from the look
  for the device to its appearance; `Joined` ties the stage of the one to the place
  in the other.
- `NdefParserProofs!CursorStaysInside`, `EveryTurnReadsOn`: for every message, of
  any length, and whatever lengths it claims, the cursor stays inside, and each turn
  of the loop moves it on, so that the parser terminates.
- `NdefParserProofs!Utf8Agree`, `WhatWasWrittenIsParsed`: for every message,
  `parseNdefMessage` accepts exactly what can be written, and hands on what was
  written. `Utf8Agree` sets the bounds of `isValidUtf8` against the definition of
  UTF-8 by code points; `MeaningIs` sets `decodeRecord` against what a payload says;
  `RecordsIs` and `RecordAhead` show that bytes are the encoding of a record in at
  most one way, the one their header describes, and that the parser takes them for
  that record and for no other. The inductive invariant is `ReadSoFar`: the ways to
  read the message from its start are what was parsed, followed by the ways to read
  it from the cursor; none, if a mark for the last record was missed or came early.
  The induction theorems of the library take operators as parameters and cannot be
  used here; that numbers are well-founded can, and from it the module proves the
  two lemmas it needs (`Induction`, `Recursion`).
- `TagContentProofs!UidIsOneTags`, `NoTagIsMissed`: of a poll of NFC-A, for any
  tags, collisions, losses and number of polls. An undisturbed poll of a tag alone
  reports it, unless it is awake from the end of the poll before; of two tags the
  field is not found empty either, but their collision may end the poll without a
  conclusion. `UidOK` follows the selection: the levels collected so far are
  those of every tag that can still answer the next select, and when the last
  level was acknowledged, of one. `MissInv` says why a tag is awake: at each step of the poll, a tag that will not hear the wake-up was
  selected or left awake in a way `trouble` records, or the reset of the field is
  still to come.
- `TagContentProofs!ReportedIsOneTags`, `WhatWasWrittenIsRead`: `ReportsOneTag` and
  `ReadsWhatWasWritten`, for any tags whose blocks lie anywhere in any number of
  pages, and any capacity. `LaidIs` and `AreaIs` say where each block begins and ends
  on the tag (`Placed`); `BlockRequired`, `BeyondRequired` and `Paging` what the walk
  asks for and what it can still get. The inductive invariant is `ReadingOK`: whoever
  is active has the whole uid that was collected (`ActiveOK`); the memory is the
  beginning of that tag, in whole READ answers up to the capacity, and the cursor
  stands in front of a block, with neither a message nor a terminator before it, or
  behind them all (`Walked`); and a poll that is over, or a cache, has the message of
  that tag, or none, and none only in a field that was disturbed (`Tells`, `CacheOK`).
  Two tags with the same uid would satisfy none of this, since the cache goes by it.
- `TagContentProofs!RecordsAreTheTagsOwn`, `DeliveredIsParsed`: poll and parser put
  together. Between the end of a poll and the start of the next, what the parser has
  in its hands is the message of the tag whose uid is reported (`Given`); with the
  parser's own invariant, which begins anew with each delivery, the records are those
  that were written on that tag.
- `TagContentProofs!NoInterruptIsLost`, `DoubtIsEarned`, `VerdictsAreEarned`: of one
  exchange, for any number of passes, slices and edges. `ExchangeInv` says, for each
  place of the driver, what the chip may have raised that the driver has not seen
  (`PlaceOK`, `RegistersOK`, `RadioOK`), what the judgement has in its hands
  (`JudgeOK`), what a deadline must explain (`DoubtOK`) and how far a drain has come
  (`DrainOK`). The refinement of `RadioExchange` needs `Passes >= 4`: damage that
  shows in the main register must have been read from the error register before
  the frame's end is matched, and up to three other interrupts (TXE, NRE, RXS) may
  take a pass each before it. The code makes four passes; with three TLC finds a
  damaged frame taken for an answer.
- `UiProofs!StateIsShown`, `TagIsShown`, `ModelImplementsStatus`: the safety
  properties of `model`, for any capacity of the queues and any number of runs,
  retries and sessions. They stand on `RestInv` of the worker, to whose steps
  `ModelUsesWorker` maps every step of `NfcModel`. `ModelOK` adds where the UI
  thread is (`UiPlaceOK`, `RunOK`), what the hardware thread knows at its places
  (`ThreadKnows`), that attempts are numbered by the retries accepted (`AttemptOK`),
  and what events and status are made of (`EventsOK`, `StatusShape`). The two
  invariants that matter are about `Stream`, the events not yet read, in the queue
  or still in a handler's hands, while none was dropped: its last word on the
  reader is the state of the hardware thread, or it has none and the page has that
  state already, or a Retry is on its way (`StateOK`); and read event by event it
  leads from the tag on the page to the tag that is present, while a tag the page
  hides was hidden by a retry not yet answered, or its removal is in the stream
  (`TagsOK`). Neither is inductive without the retries: `retry` writes "Initializing"
  on the page and hides the tag before the worker knows of it.
- `UiProofs!PressDoesOneThing`, `KeysFollowTheDialog`, `FailuresAreShown`,
  `OnlyAHoldQuits`: all properties of `app`. `AppInv` adds that what a press has
  done is forgotten with it (`PressOK`), that neither the page nor the status knows
  of an attempt above the highest seen (`HighestIsHighest`), and that the difference
  of the two readings of the clock, modulo its wrap, is the age of the hold
  (`HoldOK`); with that each action maps to one of `EscHold` or to a stutter.
- `ProcessProofs!NotKilledEarly`: what is left of the alarm and what was waited
  make up the whole timeout (`AlarmInv`), whoever armed it.
- `ProcessProofs!QuitIsTheUsers`: `QuitIsPhysical`, for any keyboards and queues.
  `QuitInv` says that every unread press is of a key that is down or has its release
  behind it, that a hold is of a key that is down and no younger, or its end is
  still to be read, and, once the loop polls, the same of the devices it has yet to
  come to; so that at the end of the poll the second possibility is gone.

Only model-checked is all liveness (`ANotStarved`, `InitializingEnds`,
`ModelStopReturns`, `EndsWhenAsked`, `ExchangeEnds`), which the prover cannot do. Every
invariant and every action property of a passing run is a theorem.

## Not modelled

- The registers of the two radio profiles, their read-back, the start of the
  oscillator and the check of the field (`configureNfcA`, `configureNfcF`,
  `ensureNfcAField`, `ensureNfcFField`, `enableOscillator`, `enableField`):
  `initialize` and a switch of the protocol are one step that succeeds or fails.
- SPI transfers (ioctl I/O); they succeed or throw, which ends an exchange.
- A SENSF answer that is taken from the FIFO before its CRC error could be seen
  (`src/nfc/st25r3916_driver.cpp:522`): what `RadioExchange` promises of an answer is
  about what the chip had shown when it was last looked at.
- A tag that is awake is assumed to hear WUPA as the standard says, and to go back
  to sleep on a frame it does not expect.
- The bits of a collision: attempts, collision register, positions and merges in
  `anticollisionLevel` are abstracted to what they may lead to (see `NfcAPoll`).
- A keyboard that vanishes, or whose queue overflows in the kernel (SYN_DROPPED),
  while Esc is held: `poll` knows neither, and the hold would go on. Nothing in the
  repository says what should happen.
- A worker that ended by itself offers no retry (`src/view_models/nfc_view_model.cpp:161`
  offers one for Error only); nothing says which is meant.
- LVGL's own queue of keys: `onLvglKeyState` takes every key, so it stays empty. The
  SDL build has neither keypad nor alarm; its keys are in `NfcApp`.
- Drawing, router history (there is one page), mock backends, configuration,
  packaging, build.
- Timestamps, texts, logging. Memory is not bounded anywhere. The atomics are
  sequentially consistent in the model; the code uses acquire and release, and
  the decisions that matter are taken under a mutex.

## Plan

Done, in this order: presence filter, event queue, worker, arbiter, model, app,
resources, driver cache, overlay, parser; then the exchange, the poll of NFC-A, Type
2 memory, the content from antenna to records, keypad and process, the reader's
start-up beside other processes; with the theorems above.

Left, in order of what it would add:

1. To model: the two radio profiles as sets of registers with their read-back, and
   what a failed switch leaves behind.
