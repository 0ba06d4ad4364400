---------------------------- MODULE EventDelivery ----------------------------
(***************************************************************************)
(* The event queue between a hardware thread that pushes events without    *)
(* waiting and a UI thread that takes them when it gets to run.  Pushed    *)
(* events are numbered in the order of the pushes; "received" and          *)
(* "reported" record what tryPopEvent gave the UI thread.                  *)
(***************************************************************************)
EXTENDS EventQueue, FiniteSets

CONSTANT MaxPushes      \* bound: events pushed in a behaviour

ASSUME MaxPushesAssumption == MaxPushes \in Nat

VARIABLES
    queue,       \* _events and _pending_dropped_events
    pushed,      \* the types of the events pushed so far, in order
    received,    \* numbers of the events delivered, in order of delivery
    reported     \* sum of the losses the UI thread was told of

deliveryVars == <<queue, pushed, received, reported>>

(* A state change, which must be kept, and an update, which may be lost.   *)
Types == {"State", "TagUpdated"}

Event(n, type) == [type |-> type, number |-> n]

Events == [type : Types, number : 1..MaxPushes]

DeliveryInit ==
    /\ queue = EmptyQueue
    /\ pushed = <<>>
    /\ received = <<>>
    /\ reported = 0

Push ==
    /\ Len(pushed) < MaxPushes
    /\ \E type \in Types :
          /\ queue' = PushEvent(queue, Event(Len(pushed) + 1, type))
          /\ pushed' = Append(pushed, type)
    /\ UNCHANGED <<received, reported>>

PopEvent ==
    /\ queue.dropped = 0
    /\ CanPop(queue)
    /\ queue' = AfterPop(queue)
    /\ received' = Append(received, Popped(queue).number)
    /\ UNCHANGED <<pushed, reported>>

PopOverflow ==
    /\ queue.dropped # 0
    /\ CanPop(queue)
    /\ queue' = AfterPop(queue)
    /\ reported' = reported + Popped(queue).lost
    /\ UNCHANGED <<pushed, received>>

DeliveryNext == Push \/ PopEvent \/ PopOverflow

DeliverySpec == DeliveryInit /\ [][DeliveryNext]_deliveryVars

-----------------------------------------------------------------------------
DeliveryTypeOK ==
    /\ queue.events \in Seq(Events)
    /\ Len(queue.events) <= EventCapacity
    /\ queue.dropped \in Nat
    /\ queue = [events |-> queue.events, dropped |-> queue.dropped]
    /\ pushed \in Seq(Types)
    /\ received \in Seq(1..MaxPushes)
    /\ reported \in Nat

(* No loss is silent and none is counted twice: every event pushed was     *)
(* delivered, is still queued, or is in the count of dropped events the UI *)
(* thread has been or will be told.                                        *)
NothingUnaccounted ==
    Len(pushed) = Len(received) + Len(queue.events) + queue.dropped + reported

(* The queue keeps its bound and the losses add up.                        *)
Accounted == DeliveryTypeOK /\ NothingUnaccounted

Numbers == received \o [i \in 1..Len(queue.events) |-> queue.events[i].number]

Lost == (1..Len(pushed)) \ {Numbers[i] : i \in 1..Len(Numbers)}

(* An event that must be kept is lost only to at least EventCapacity later *)
(* ones that must be kept too: the last state of the reader always reaches *)
(* the UI, however long the UI thread was away.                            *)
OnlyOldEventsLost ==
    \A n \in Lost :
        pushed[n] = "State"
          => Cardinality({m \in (n + 1)..Len(pushed) : pushed[m] = "State"})
               >= EventCapacity
=============================================================================
