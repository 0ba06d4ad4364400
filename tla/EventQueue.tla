------------------------------ MODULE EventQueue ------------------------------
(***************************************************************************)
(* The event queue between the hardware thread and the UI thread: _events  *)
(* and _pending_dropped_events of NfcWorker, with the only operations that *)
(* touch them, pushEvent (hardware thread) and tryPopEvent (UI thread).    *)
(* Each of them holds _event_mutex from its first read to its last write,  *)
(* so each is one atomic change of a queue q.                              *)
(***************************************************************************)
EXTENDS Integers, Sequences

CONSTANT EventCapacity      \* kEventQueueCapacity

ASSUME EventCapacityAssumption == EventCapacity \in Nat \ {0}

EmptyQueue == [events |-> <<>>, dropped |-> 0]

IsDroppable(e) == e.type \in {"TagUpdated", "QueueOverflow"}

Droppable(q) == {i \in 1..Len(q.events) : IsDroppable(q.events[i])}

IsFull(q) == Len(q.events) >= EventCapacity

VictimNewest(q) ==              \* mutant: pop_back instead of pop_front
    IF Droppable(q) = {}
    THEN Len(q.events)
    ELSE CHOOSE i \in Droppable(q) : \A j \in Droppable(q) : i <= j

(* Which queued event makes room for an event that must be kept: the       *)
(* oldest droppable one, or the oldest of all when none is droppable.      *)
Victim(q) ==
    IF Droppable(q) = {}
    THEN 1
    ELSE CHOOSE i \in Droppable(q) : \A j \in Droppable(q) : i <= j

Without(s, k) ==
    [i \in 1..(Len(s) - 1) |-> IF i < k THEN s[i] ELSE s[i + 1]]

PushUncounted(q, e) ==          \* mutant: an erased event is not counted
    IF ~IsFull(q)
    THEN [events |-> Append(q.events, e), dropped |-> q.dropped]
    ELSE IF IsDroppable(e)
    THEN [events |-> q.events, dropped |-> q.dropped + 1]
    ELSE [events |-> Append(Without(q.events, Victim(q)), e),
          dropped |-> q.dropped]

PushEvent(q, e) ==
    IF ~IsFull(q)
    THEN [events |-> Append(q.events, e), dropped |-> q.dropped]
    ELSE IF IsDroppable(e)
    THEN [events |-> q.events, dropped |-> q.dropped + 1]
    ELSE [events |-> Append(Without(q.events, Victim(q)), e),
          dropped |-> q.dropped + 1]

(* tryPopEvent: the losses are reported before any event is handed out.    *)
QueueOverflow(n) == [type |-> "QueueOverflow", lost |-> n]

CanPop(q) == q.dropped # 0 \/ q.events # <<>>

Popped(q) == IF q.dropped # 0 THEN QueueOverflow(q.dropped) ELSE Head(q.events)

AfterPop(q) ==
    IF q.dropped # 0
    THEN [events |-> q.events, dropped |-> 0]
    ELSE [events |-> Tail(q.events), dropped |-> q.dropped]
=============================================================================
