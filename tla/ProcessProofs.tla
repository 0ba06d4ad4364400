------------------------------ MODULE ProcessProofs -------------------------
(***************************************************************************)
(* What a process of the application takes from the machine, and how it    *)
(* comes to its end.                                                       *)
(*                                                                         *)
(* What ReaderStartup keeps, for any number of processes and calls: first  *)
(* the reader's resources by themselves, then the lock of the overlay by   *)
(* itself, then the two together.                                          *)
(*                                                                         *)
(* What is held of the machine follows from the stage alone: an opening    *)
(* has taken the resources of the stages before it, a closing has yet to   *)
(* give back those of the stages after it.  Undoing starts at "stop field" *)
(* after anything but a step of enable(), and then all that was taken is   *)
(* still there.                                                            *)
(*                                                                         *)
(* The alarm and the hold of Esc in main(), for every timeout and delay,   *)
(* any number of signals and any keyboards.                                *)
(*                                                                         *)
(* The alarm: what is left of it and what has been waited make up the      *)
(* whole timeout, whoever armed it last.  That is what makes the property  *)
(* inductive: by itself it says nothing of an alarm that is still running. *)
(*                                                                         *)
(* The hold: as long as it lasts its key is down, and has been for at      *)
(* least as long, or the release that ends it is still in a queue; of a    *)
(* queue that the poll has passed, what the loop saw when the turn began.  *)
(***************************************************************************)
EXTENDS ReaderStartup, AppProcess, TLAPS

(* The stages at which a resource may be held.                             *)
IrqStages == Stages \ {"closed", "overlay", "gpio", "release pins",
                       "release route"}
SpiStages == {"probe", "open", "stop field", "close spi"}
DriverStages == {"probe", "open", "stop field"}
PinsStages == {"settle", "spi", "probe", "open", "undo pins", "stop field",
               "close spi", "release irq", "release pins"}
PoweredStages == (PinsStages \ {"undo pins"}) \cup {"release route"}
DebtStages == {"pinctrl", "supply", "undo route", "release route"}
                \cup PinsStages

HeldByStage ==
    /\ irq => stage \in IrqStages
    /\ spi => stage \in SpiStages
    /\ driver # "none" => stage \in DriverStages
    /\ pins => stage \in PinsStages
    /\ powered => stage \in PoweredStages
    /\ restore => stage \in DebtStages

(* The stages at which a resource must be there.                           *)
Needed ==
    /\ stage \in {"power", "route", "pinctrl", "supply", "settle", "spi",
                  "probe", "open"} => irq
    /\ stage \in {"settle", "spi", "probe", "open"} => pins /\ powered
    /\ powered => stage \in {"release route"} \/ pins
    /\ stage \in {"pinctrl", "supply"} => selector # "usb"
    /\ pins => selector # "usb"
    /\ powered => "gpio26" \in rails
    /\ stage \in {"probe", "open"} => spi /\ driver # "none"

(* The selector is as found, or the thread still owes it to its owner.     *)
Owed ==
    /\ ~restore => selector = found
    /\ restore => found = "usb"

RInv ==
    /\ ResourcesTypeOK
    /\ HeldByStage
    /\ Needed
    /\ Owed
    /\ DriverHasItsLines
    /\ FieldOffAtRest
    /\ field /\ driver = "none" => unheard

(* Nothing is held at first, and nothing is owed.                          *)
LEMMA ResourcesInitially == ResourcesInit => RInv
  BY DEF ResourcesInit, RInv, ResourcesTypeOK, HeldByStage, Needed, Owed,
         DriverHasItsLines, FieldOffAtRest, Stages, Opening, Undoing, Closing,
         IrqStages, SpiStages, DriverStages, PinsStages, PoweredStages,
         DebtStages

(* Every step of open(), of its undoing, of closeImpl() and of what        *)
(* happens around them leaves the stage in line with what is held.         *)
LEMMA ResourcesStep == RInv /\ [ResourcesNext]_resourceVars => RInv'
<1> SUFFICES ASSUME RInv, [ResourcesNext]_resourceVars PROVE RInv'
  OBVIOUS
<1> USE DEF Goto, Move, FirstUndone, lines, power, machine, history, Opening, Undoing,
            Closing, Stages, IrqStages, SpiStages, DriverStages, PinsStages,
            PoweredStages, DebtStages, ResourcesTypeOK, HeldByStage, Needed,
            Owed, RInv, DriverHasItsLines, FieldOffAtRest
<1>1. CASE OpenBegin
  BY <1>1 DEF OpenBegin
<1>2. CASE OverlayReady
  BY <1>2 DEF OverlayReady
<1>3. CASE RequestIrq
  BY <1>3 DEF RequestIrq
<1>4. CASE PowerBegin
  BY <1>4 DEF PowerBegin
<1>5. CASE Route
  BY <1>5 DEF Route, Remember
<1>6. CASE NoSelector
  BY <1>6 DEF NoSelector
<1>7. CASE RouteFails
  <2>1. CASE UNCHANGED <<restore, selector>>
    BY <1>7, <2>1 DEF RouteFails
  <2>2. CASE selector = "usb" /\ restore' /\ previous' = selector
    BY <1>7, <2>2 DEF RouteFails
  <2> QED
    BY <1>7, <2>1, <2>2 DEF RouteFails
<1>8. CASE PinctrlDone
  BY <1>8 DEF PinctrlDone
<1>9. CASE PinctrlFails
  BY <1>9 DEF PinctrlFails
<1>10. CASE Supply
  BY <1>10 DEF Supply
<1>11. CASE SupplyFails
  BY <1>11 DEF SupplyFails
<1>12. CASE Settle
  BY <1>12 DEF Settle
<1>13. CASE OpenSpi
  BY <1>13 DEF OpenSpi
<1>14. CASE Probe
  BY <1>14 DEF Probe
<1>15. CASE ProbeFails
  BY <1>15 DEF ProbeFails
<1>16. CASE StepFails
  <2>1. PICK from \in {"overlay", "gpio", "power", "settle", "spi"} :
           Move(from, FirstUndone)
    BY <1>16 DEF StepFails
  <2> QED
    BY <2>1
<1>17. CASE SwitchField
  BY <1>17 DEF SwitchField
<1>18. CASE UndoPins
  BY <1>18 DEF UndoPins, ReleasePins, PinReleased
<1>19. CASE UndoRoute
  BY <1>19 DEF UndoRoute, ReleaseRoute
<1>20. CASE CloseBegin
  BY <1>20 DEF CloseBegin
<1>21. CASE StopDriver
  <2>1. CASE field' = FALSE
    BY <1>21, <2>1 DEF StopDriver, Stoppable
  <2>2. CASE driver # "none" /\ unheard' = field /\ UNCHANGED field
    BY <1>21, <2>2 DEF StopDriver, Stoppable
  <2>3. CASE driver = "none" /\ UNCHANGED <<field, unheard>>
    BY <1>21, <2>3 DEF StopDriver, Stoppable
  <2> QED
    BY <1>21, <2>1, <2>2, <2>3 DEF StopDriver, Stoppable
<1>22. CASE CloseSpi
  BY <1>22 DEF CloseSpi
<1>23. CASE ReleaseIrq
  BY <1>23 DEF ReleaseIrq, GivenBack
<1>24. CASE DisablePins
  BY <1>24 DEF DisablePins, ReleasePins, PinReleased
<1>25. CASE DisableRoute
  BY <1>25 DEF DisableRoute, ReleaseRoute
<1>26. CASE Cancel
  BY <1>26 DEF Cancel
<1>27. CASE NewRun
  BY <1>27 DEF NewRun
<1>28. CASE ProcessDies
  BY <1>28 DEF ProcessDies
<1>29. CASE OwnerMovesSelector
  BY <1>29 DEF OwnerMovesSelector
<1>30. CASE UNCHANGED resourceVars
  BY <1>30 DEF resourceVars
<1> QED
  BY <1>1, <1>2, <1>3, <1>4, <1>5, <1>6, <1>7, <1>8, <1>9, <1>10, <1>11,
     <1>12, <1>13, <1>14, <1>15, <1>16, <1>17, <1>18, <1>19, <1>20, <1>21,
     <1>22, <1>23, <1>24, <1>25, <1>26, <1>27, <1>28, <1>29, <1>30
     DEF ResourcesNext

(* Each property the runs check, for every behaviour.                      *)
THEOREM ResourcesAreSafe ==
    ResourcesSpec => [](ResourcesTypeOK /\ LinesInOrder /\ LeavesMachineClean)
<1>1. RInv => ResourcesTypeOK /\ LinesInOrder /\ LeavesMachineClean
  BY DEF LeavesMachineClean, ClosedHoldsNothing, LinesInOrder, PinsOnlyWhenRouted,
         SelectorGivenBack, RInv, HeldByStage, Needed, Owed, IrqStages, SpiStages, DriverStages,
         PinsStages, PoweredStages, DebtStages, Stages
<1> QED
  BY <1>1, ResourcesInitially, ResourcesStep, PTL DEF ResourcesSpec

(* No step of opening or closing, and no death, takes a supply from the    *)
(* bus the LCD shares.                                                     *)
THEOREM SuppliesStayUp == ResourcesSpec => RailsStayUp
<1>1. ResourcesTypeOK /\ [ResourcesNext]_resourceVars => rails \subseteq rails'
  <2> SUFFICES ASSUME ResourcesTypeOK, [ResourcesNext]_resourceVars
               PROVE rails \subseteq rails'
    OBVIOUS
  <2>1. CASE Supply \/ SupplyFails \/ PinctrlDone \/ PinctrlFails
    BY <2>1 DEF ResourcesTypeOK, Supply, SupplyFails, PinctrlDone,
                PinctrlFails, Goto
  <2>2. CASE rails' = rails
    BY <2>2
  <2> QED
    BY <2>1, <2>2 DEF ResourcesNext, resourceVars, machine, Move, OpenBegin,
       OverlayReady, RequestIrq, PowerBegin, Route, NoSelector, RouteFails,
       Settle, OpenSpi, Probe, ProbeFails, StepFails, SwitchField, UndoPins,
       UndoRoute, ReleasePins, PinReleased, ReleaseRoute, CloseBegin, StopDriver, CloseSpi,
       ReleaseIrq, DisablePins, DisableRoute, Cancel, NewRun, ProcessDies,
       OwnerMovesSelector
<1>2. RInv => ResourcesTypeOK
  BY DEF RInv
<1> QED
  BY <1>1, <1>2, ResourcesInitially, ResourcesStep, PTL
     DEF ResourcesSpec, RailsStayUp

-----------------------------------------------------------------------------
(* HolderAlone and TrueMeansDevice are inductive together with the types:  *)
(* the lock is taken and given back in the same steps as the place in the  *)
(* call changes, and the device stays.                                     *)
OInv == OverlayTypeOK /\ HolderAlone /\ TrueMeansDevice

LEMMA OverlayInitially == OverlayInit => OInv
<1> SUFFICES ASSUME OverlayInit PROVE OInv
  OBVIOUS
<1>1. OverlayTypeOK
  <2>1. calls \in [Procs -> 0..MaxCalls]
    BY OverlayAssumption DEF OverlayInit
  <2>2. token \in [Procs -> BOOLEAN] /\ result \in [Procs -> BOOLEAN]
    BY DEF OverlayInit
  <2>3. /\ at \in [Procs -> {"idle", "lock", "check", "loader", "device"}]
        /\ child \in [Procs -> {"none", "running", "exited"}]
    BY DEF OverlayInit
  <2>4. /\ device \in BOOLEAN /\ disturbed \in BOOLEAN
        /\ applied \in Nat /\ strays \in Nat /\ lock \in Procs \cup {None}
    BY DEF OverlayInit
  <2> QED
    BY <2>1, <2>2, <2>3, <2>4 DEF OverlayTypeOK
<1>2. HolderAlone
  BY OverlayAssumption DEF OverlayInit, HolderAlone
<1>3. TrueMeansDevice
  BY DEF OverlayInit, TrueMeansDevice
<1> QED
  BY <1>1, <1>2, <1>3 DEF OInv

(* A way out of the call keeps what is known of the lock, whoever holds it.*)
LEMMA ReturnKeepsOrder ==
  ASSUME NEW p \in Procs, NEW r \in BOOLEAN, OInv, Return(p, r),
         r => device', device => device'
  PROVE  /\ lock' \in Procs \cup {None}
         /\ at' \in [Procs -> {"idle", "lock", "check", "loader", "device"}]
         /\ result' \in [Procs -> BOOLEAN]
         /\ HolderAlone' /\ TrueMeansDevice'
  BY OverlayAssumption
     DEF OInv, OverlayTypeOK, HolderAlone, TrueMeansDevice, Return, Goes

LEMMA OverlayStep == OInv /\ [OverlayNext]_overlayVars => OInv'
<1> SUFFICES ASSUME OInv, [OverlayNext]_overlayVars PROVE OInv'
  OBVIOUS
<1> USE OverlayAssumption
        DEF OInv, OverlayTypeOK, HolderAlone, TrueMeansDevice, loaders
<1>1. ASSUME NEW p \in Procs, Call(p) PROVE OInv'
  <2>0. calls' \in [Procs -> 0..MaxCalls]
    BY <1>1 DEF Call
  <2>1. CASE device /\ Return(p, TRUE)
    <3>1. device' = device
      BY <1>1 DEF Call
    <3>2. /\ lock' \in Procs \cup {None}
          /\ at' \in [Procs -> {"idle", "lock", "check", "loader", "device"}]
          /\ result' \in [Procs -> BOOLEAN]
          /\ HolderAlone' /\ TrueMeansDevice'
      BY <2>1, <3>1, ReturnKeepsOrder
    <3> QED
      BY <1>1, <2>0, <3>2 DEF Call
  <2>2. CASE ~device /\ Return(p, FALSE)
    <3>1. device' = device
      BY <1>1 DEF Call
    <3>2. /\ lock' \in Procs \cup {None}
          /\ at' \in [Procs -> {"idle", "lock", "check", "loader", "device"}]
          /\ result' \in [Procs -> BOOLEAN]
          /\ HolderAlone' /\ TrueMeansDevice'
      BY <2>2, <3>1, ReturnKeepsOrder
    <3> QED
      BY <1>1, <2>0, <3>2 DEF Call
  <2>3. CASE ~device /\ ~token[p] /\ Goes(p, "lock") /\ UNCHANGED <<result, lock>>
    BY <1>1, <2>3 DEF Call, Goes
  <2> QED
    BY <1>1, <2>1, <2>2, <2>3 DEF Call
<1>2. ASSUME NEW p \in Procs, TakeLock(p) PROVE OInv'
  BY <1>2 DEF TakeLock, LockFree, Goes
<1>3. ASSUME NEW p \in Procs, LockFails(p) PROVE OInv'
  BY <1>3, ReturnKeepsOrder DEF LockFails
<1>4. ASSUME NEW p \in Procs, FoundUnderLock(p) PROVE OInv'
  BY <1>4, ReturnKeepsOrder DEF FoundUnderLock, StillMissing
<1>5. ASSUME NEW p \in Procs, StartLoader(p) PROVE OInv'
  BY <1>5 DEF StartLoader, Goes
<1>6. ASSUME NEW p \in Procs, LoaderExited(p) PROVE OInv'
  BY <1>6 DEF LoaderExited, Goes
<1>7. ASSUME NEW p \in Procs, LoaderGivenUp(p) PROVE OInv'
  BY <1>7 DEF LoaderGivenUp, Goes
<1>8. ASSUME NEW p \in Procs, DeviceFound(p) PROVE OInv'
  BY <1>8, ReturnKeepsOrder DEF DeviceFound
<1>9. ASSUME NEW p \in Procs, DeviceGivenUp(p) PROVE OInv'
  BY <1>9, ReturnKeepsOrder DEF DeviceGivenUp
<1>10. ASSUME NEW p \in Procs, LoaderEnds(p) PROVE OInv'
  BY <1>10 DEF LoaderEnds
<1>11. CASE StrayEnds
  BY <1>11 DEF StrayEnds
<1>12. CASE DeviceAppears
  BY <1>12 DEF DeviceAppears
<1>13. ASSUME NEW p \in Procs, CancelCall(p) PROVE OInv'
  BY <1>13 DEF CancelCall
<1>14. ASSUME NEW p \in Procs, Dies(p) PROVE OInv'
  <2>1. device' = device
    BY <1>14 DEF Dies
  <2>2. /\ lock' \in Procs \cup {None}
        /\ at' \in [Procs -> {"idle", "lock", "check", "loader", "device"}]
        /\ result' \in [Procs -> BOOLEAN]
        /\ HolderAlone' /\ TrueMeansDevice'
    <3>1. Return(p, FALSE)
      BY <1>14 DEF Dies
    <3> QED
      BY <2>1, <3>1, ReturnKeepsOrder
  <2>3. disturbed' \in BOOLEAN
    BY <1>14 DEF Dies
  <2>4. strays' \in Nat
    BY <1>14 DEF Dies
  <2>5. child' \in [Procs -> {"none", "running", "exited"}]
    BY <1>14 DEF Dies
  <2>6. token' \in [Procs -> BOOLEAN]
    BY <1>14 DEF Dies
  <2>7. UNCHANGED <<device, applied, calls>>
    BY <1>14 DEF Dies
  <2> QED
    BY <2>2, <2>3, <2>4, <2>5, <2>6, <2>7
<1>15. CASE UNCHANGED overlayVars
  BY <1>15 DEF overlayVars
<1> QED
  BY <1>1, <1>2, <1>3, <1>4, <1>5, <1>6, <1>7, <1>8, <1>9, <1>10, <1>11,
     <1>12, <1>13, <1>14, <1>15 DEF OverlayNext, Step

(* At most one process looks for the device, loads and waits at a time,    *)
(* the lock is held exactly then, and true is returned only for a device   *)
(* that is there.                                                          *)
THEOREM LockWorks == OverlaySpec => [](HolderAlone /\ TrueMeansDevice)
<1>1. OInv => HolderAlone /\ TrueMeansDevice
  BY DEF OInv
<1> QED
  BY <1>1, OverlayInitially, OverlayStep, PTL DEF OverlaySpec

-----------------------------------------------------------------------------
(* As long as every loader and its device are waited for, the overlay is   *)
(* put in place once: whoever finds no device knows that no loader runs,   *)
(* and that none has succeeded, for that one's caller would hold the lock. *)
Undisturbed ==
    /\ applied \in 0..1 /\ strays = 0
    /\ \A p \in Procs : child[p] # "none" => at[p] = "loader"
    /\ \A p \in Procs : child[p] = "running" => applied = 0
    /\ applied > 0 /\ ~device
         => \E p \in Procs : \/ at[p] = "device"
                             \/ at[p] = "loader" /\ child[p] = "exited"

OnceInv == OInv /\ (disturbed \/ Undisturbed)

LEMMA OnceStep == OnceInv /\ [OverlayNext]_overlayVars => OnceInv'
<1> SUFFICES ASSUME OInv, Undisturbed, ~disturbed', ~disturbed,
                    [OverlayNext]_overlayVars
             PROVE  Undisturbed'
  <2>1. disturbed /\ [OverlayNext]_overlayVars => disturbed'
    BY DEF OverlayNext, Step, Call, TakeLock, LockFails, FoundUnderLock,
           StartLoader, LoaderExited, LoaderGivenUp, DeviceFound,
           DeviceGivenUp, LoaderEnds, StrayEnds, DeviceAppears, CancelCall,
           Dies, overlayVars
  <2> QED  BY <2>1, OverlayStep DEF OnceInv
<1>a. /\ at \in [Procs -> {"idle", "lock", "check", "loader", "device"}]
      /\ child \in [Procs -> {"none", "running", "exited"}]
      /\ \A p, q \in Procs :
            /\ at[p] \in {"check", "loader", "device"}
            /\ at[q] \in {"check", "loader", "device"}
            => p = q
  BY DEF OInv, OverlayTypeOK, HolderAlone
<1> USE DEF Undisturbed, Goes, Return, loaders
<1>1. ASSUME NEW p \in Procs,
             Call(p) \/ TakeLock(p) \/ LockFails(p) \/ CancelCall(p)
      PROVE  Undisturbed'
  <2>1. UNCHANGED <<applied, strays, child, device>>
    BY <1>1 DEF Call, TakeLock, LockFails, CancelCall
  <2>2. \A q \in Procs :
           at[q] \in {"loader", "device"} => at'[q] = at[q]
    BY <1>1, <1>a DEF Call, TakeLock, LockFails, CancelCall
  <2> QED  BY <2>1, <2>2
<1>2. ASSUME NEW p \in Procs, FoundUnderLock(p) \/ DeviceFound(p)
      PROVE  Undisturbed'
  <2>1. device' /\ UNCHANGED <<applied, strays, child>>
    BY <1>2 DEF FoundUnderLock, DeviceFound, StillMissing
  <2>2. at[p] # "loader" /\ at' = [at EXCEPT ![p] = "idle"]
    BY <1>2 DEF FoundUnderLock, DeviceFound
  <2> QED  BY <1>a, <2>1, <2>2
<1>3. ASSUME NEW p \in Procs, StartLoader(p)
      PROVE  Undisturbed'
  <2>1. /\ applied' = applied /\ strays' = strays /\ device' = device
        /\ at[p] = "check" /\ ~device
        /\ \/ /\ child' = [child EXCEPT ![p] = "running"]
              /\ at' = [at EXCEPT ![p] = "loader"]
           \/ child' = child /\ at' = [at EXCEPT ![p] = "device"]
    BY <1>3 DEF StartLoader, StillMissing
  <2>2. ~(applied > 0)
    BY <1>a, <2>1
  <2> QED  BY <1>a, <2>1, <2>2
<1>4. ASSUME NEW p \in Procs, LoaderExited(p)
      PROVE  Undisturbed'
  <2>1. /\ applied' = applied /\ strays' = strays /\ device' = device
        /\ child' = [child EXCEPT ![p] = "none"]
        /\ at' = [at EXCEPT ![p] = "device"]
    BY <1>4 DEF LoaderExited
  <2> QED  BY <1>a, <2>1
<1>5. ASSUME NEW p \in Procs, LoaderGivenUp(p)
      PROVE  Undisturbed'
  BY <1>5 DEF LoaderGivenUp
<1>6. ASSUME NEW p \in Procs, DeviceGivenUp(p)
      PROVE  Undisturbed'
  <2>1. /\ applied' = applied /\ strays' = strays /\ child' = child
        /\ at[p] = "device" /\ at' = [at EXCEPT ![p] = "idle"]
        /\ ~(applied > 0)
    BY <1>6 DEF DeviceGivenUp
  <2> QED  BY <1>a, <2>1
<1>7. ASSUME NEW p \in Procs, LoaderEnds(p)
      PROVE  Undisturbed'
  <2>1. /\ child[p] = "running" /\ strays' = strays /\ device' = device
        /\ child' = [child EXCEPT ![p] = "exited"] /\ at' = at
        /\ applied' \in {applied, applied + 1}
    BY <1>7 DEF LoaderEnds
  <2>2. at[p] = "loader" /\ applied = 0
    BY <2>1
  <2>3. \A q \in Procs : child'[q] # "running"
    BY <1>a, <2>1, <2>2
  <2> QED  BY <1>a, <2>1, <2>2, <2>3
<1>8. CASE StrayEnds
  BY <1>8 DEF StrayEnds
<1>9. CASE DeviceAppears
  BY <1>9 DEF DeviceAppears
<1>10. ASSUME NEW p \in Procs, Dies(p)
       PROVE  Undisturbed'
  <2>1. /\ applied' = applied /\ device' = device
        /\ child' = [child EXCEPT ![p] = "none"]
        /\ at' = [at EXCEPT ![p] = "idle"]
        /\ at[p] # "idle" => child[p] # "running" /\ ~(applied > 0)
    BY <1>10 DEF Dies
  <2>2. child[p] # "running"
    BY <2>1
  <2>3. strays' = strays
    BY <1>10, <2>2 DEF Dies
  <2> QED  BY <1>a, <2>1, <2>3
<1>11. CASE UNCHANGED overlayVars
  BY <1>11 DEF overlayVars
<1> QED
  BY <1>1, <1>2, <1>3, <1>4, <1>5, <1>6, <1>7, <1>8, <1>9, <1>10, <1>11
  DEF OverlayNext, Step

(* For any number of processes and calls, the overlay is never put in      *)
(* place twice, unless a loader was given up or died with its parent, or   *)
(* the device took longer than the wait.                                   *)
THEOREM OverlayLoadedOnce == OverlaySpec => []LoadedOnce
<1>1. OverlayInit => OnceInv
  BY OverlayInitially DEF OverlayInit, OnceInv, Undisturbed
<1>2. OnceInv => LoadedOnce
  BY DEF OnceInv, Undisturbed, LoadedOnce
<1> QED  BY <1>1, <1>2, OnceStep, PTL DEF OverlaySpec

-----------------------------------------------------------------------------
(* The two together.  A call of ensureCapSpiOverlay is the stage "overlay" *)
(* and nothing else, and the stages after it have been told of a device.   *)
DeviceStages == (Opening \ {"overlay"}) \cup {"open"}

Joined ==
    /\ at[Me] # "idle" => stage = "overlay"
    /\ stage \in DeviceStages => device

StartupInv == RInv /\ OInv /\ Joined

(* Every step of the composition is a step of each part, or none of it.    *)
LEMMA StepsOfBoth ==
    StartupNext => [ResourcesNext]_resourceVars /\ [OverlayNext]_overlayVars
<1> SUFFICES ASSUME StartupNext
             PROVE  [ResourcesNext]_resourceVars /\ [OverlayNext]_overlayVars
  OBVIOUS
<1> USE StartupAssumption
<1>1. CASE BeginOverlay
  BY <1>1 DEF BeginOverlay, ResourcesNext, OverlayNext
<1>2. CASE OverlayReturned
  BY <1>2 DEF OverlayReturned, PastOverlay, ResourcesNext
<1>3. CASE Onwards
  BY <1>3 DEF Onwards, PastOverlay, ResourcesNext
<1>4. CASE CancelBoth
  BY <1>4 DEF CancelBoth, ResourcesNext, OverlayNext
<1>5. CASE DiesInBoth
  BY <1>5 DEF DiesInBoth, ResourcesNext, OverlayNext
<1>6. CASE Others
  BY <1>6 DEF Others, InOverlay, OverlayNext
<1>7. QED
  BY <1>1, <1>2, <1>3, <1>4, <1>5, <1>6 DEF StartupNext

(* A device that is there stays, and a call of p is p's own business.      *)
LEMMA OnlyOwnCall ==
    ASSUME OverlayTypeOK, NEW p \in Procs \ {Me},
           Call(p) \/ Step(p) \/ LoaderEnds(p) \/ CancelCall(p) \/ Dies(p)
    PROVE  at'[Me] = at[Me] /\ device' = device
BY StartupAssumption
DEF OverlayTypeOK, Call, Step, TakeLock, LockFails, FoundUnderLock,
    StartLoader, LoaderExited, LoaderGivenUp, DeviceFound, DeviceGivenUp,
    LoaderEnds, CancelCall, Dies, Return, Goes, loaders

LEMMA JoinedStep == StartupInv /\ [StartupNext]_startupVars => Joined'
<1> SUFFICES ASSUME StartupInv, [StartupNext]_startupVars
             PROVE  Joined'
  OBVIOUS
<1>a. OverlayTypeOK /\ TrueMeansDevice /\ Joined
  BY DEF StartupInv, OInv
<1>1. CASE BeginOverlay
  BY <1>1 DEF BeginOverlay, OpenBegin, Move, Goto, Joined, DeviceStages
<1>2. CASE OverlayReturned
  <2>1. at[Me] = "idle" /\ at' = at /\ device' = device
    BY <1>2
    DEF OverlayReturned, OverlayCall, PastOverlay, overlayVars
  <2>2. CASE result[Me] /\ OverlayReady
    BY <1>a, <2>1, <2>2, StartupAssumption
    DEF TrueMeansDevice, Joined
  <2>3. CASE StepFails
    BY <2>1, <2>3
    DEF StepFails, Move, Goto, FirstUndone, Joined, DeviceStages, Opening
  <2>4. QED
    BY <1>2, <2>2, <2>3 DEF OverlayReturned
<1>3. CASE Onwards
  <2>1. at[Me] = "idle" /\ at' = at /\ device' = device
    BY <1>3, <1>a DEF Onwards, PastOverlay, overlayVars, Joined
  <2>2. stage' \in DeviceStages => stage \in DeviceStages
    BY <1>3
    DEF Onwards, RequestIrq, PowerBegin, Route, NoSelector, RouteFails,
        PinctrlDone, PinctrlFails, Supply, SupplyFails, Settle, OpenSpi,
        Probe, ProbeFails, StepFails, SwitchField, UndoPins, UndoRoute,
        CloseBegin, StopDriver, CloseSpi, ReleaseIrq, DisablePins,
        DisableRoute, ReleasePins, ReleaseRoute, OwnerMovesSelector, Move,
        Goto, FirstUndone, DeviceStages, Opening
  <2>3. QED
    BY <1>a, <2>1, <2>2 DEF Joined
<1>4. CASE CancelBoth
  BY <1>4, <1>a DEF CancelBoth, Cancel, NewRun, CancelCall, Joined
<1>5. CASE DiesInBoth
  BY <1>5, <1>a, StartupAssumption
  DEF DiesInBoth, ProcessDies, Dies, Return, Goes, OverlayTypeOK, Joined,
      DeviceStages, Opening
<1>6. CASE Others
  <2>1. stage' = stage
    BY <1>6 DEF Others, InOverlay, resourceVars
  <2>2. CASE Step(Me)
    <3>1. at[Me] # "idle" /\ device' = device
      BY <2>2
      DEF Step, TakeLock, LockFails, FoundUnderLock, StartLoader,
          LoaderExited, LoaderGivenUp, DeviceFound, DeviceGivenUp
    <3>2. QED
      BY <1>a, <2>1, <3>1 DEF Joined
  <2>3. CASE LoaderEnds(Me) \/ StrayEnds \/ DeviceAppears
    BY <1>a, <2>1, <2>3
    DEF LoaderEnds, StrayEnds, DeviceAppears, Joined
  <2>4. CASE \E p \in Procs \ {Me} :
               Call(p) \/ Step(p) \/ LoaderEnds(p) \/ CancelCall(p) \/ Dies(p)
    BY <1>a, <2>1, <2>4, OnlyOwnCall DEF Joined
  <2>5. QED
    BY <1>6, <2>2, <2>3, <2>4 DEF Others
<1>7. CASE UNCHANGED startupVars
  BY <1>7, <1>a DEF startupVars, resourceVars, overlayVars, Joined
<1>8. QED
  BY <1>1, <1>2, <1>3, <1>4, <1>5, <1>6, <1>7 DEF StartupNext

LEMMA StartupSafe == StartupSpec => []StartupInv
<1>1. StartupInit => StartupInv
  <2> SUFFICES ASSUME StartupInit PROVE StartupInv
    OBVIOUS
  <2>1. Joined
    BY StartupAssumption
    DEF StartupInit, ResourcesInit, OverlayInit, Joined, DeviceStages, Opening
  <2>2. QED
    BY <2>1, ResourcesInitially, OverlayInitially DEF StartupInit, StartupInv
<1>2. StartupInv /\ [StartupNext]_startupVars => StartupInv'
  <2> SUFFICES ASSUME StartupInv, [StartupNext]_startupVars
               PROVE  StartupInv'
    OBVIOUS
  <2>1. [ResourcesNext]_resourceVars /\ [OverlayNext]_overlayVars
    BY StepsOfBoth DEF startupVars
  <2>2. QED
    BY <2>1, JoinedStep, ResourcesStep, OverlayStep DEF StartupInv
<1>3. QED
  BY <1>1, <1>2, PTL DEF StartupSpec

(* Each of any number of processes may open its reader beside this one, be *)
(* cancelled and die: it opens SPI only on a device that is there, and its *)
(* lock on the overlay ends with the stage that needs it.                  *)
THEOREM OverlayBeforeReader == StartupSpec => []LockEndsWithStage
<1>1. StartupInv => LockEndsWithStage
  BY StartupAssumption
  DEF StartupInv, OInv, Joined, HolderAlone, LockEndsWithStage, DeviceStages,
      Opening
<1>2. QED
  BY <1>1, StartupSafe, PTL

(* The reader's lines stay in order whatever the overlay's call does.      *)
THEOREM LinesStayInOrder == StartupSpec => []LinesInOrder
<1>1. StartupInv => LinesInOrder
  BY DEF StartupInv, RInv, HeldByStage, Needed, LinesInOrder,
         PinsOnlyWhenRouted
<1>2. QED
  BY <1>1, StartupSafe, PTL

-----------------------------------------------------------------------------
(* main(): the alarm and the hold of Esc.                                  *)

AlarmCounts ==
    /\ alarm \in {Off} \cup 0..ShutdownTimeout
    /\ waited \in 0..ShutdownTimeout
    /\ alarm # Off => waited = ShutdownTimeout - alarm

AlarmInv == AlarmCounts /\ ForcedOnlyAfterTimeout

(* A step of main() neither touches the alarm, but where the loop ends and *)
(* where the shutdown is over, nor kills the process.                      *)
LEMMA MainKeeps == AlarmInv /\ Main => AlarmInv'
<1> SUFFICES ASSUME AlarmInv, Main
             PROVE  AlarmInv'
  OBVIOUS
<1>1. CASE Arm
  BY <1>1, ProcessAssumption
  DEF Arm, Go, Rearmed, AlarmInv, AlarmCounts, ForcedOnlyAfterTimeout, Off
<1>2. CASE Disarmed
  BY <1>2, ProcessAssumption
  DEF Disarmed, Go, clocks, AlarmInv, AlarmCounts, ForcedOnlyAfterTimeout
<1>3. CASE ~Arm /\ ~Disarmed
  <2>1. alarm' = alarm /\ waited' = waited
    BY <1>3 DEF Main, Prompt, DisplayOpened, KeypadOpened, AppStarted, Check,
                Read, Empty, Interrupted, Polled, Rendered, AppStopped, Closed,
                Unmoved, clocks
  <2>2. place' # "forced" \/ place' = place
    BY <1>3 DEF Main, Prompt, DisplayOpened, KeypadOpened, AppStarted, Check,
                Read, Empty, Interrupted, Polled, Rendered, AppStopped, Closed,
                Go
  <2>3. QED
    BY <2>1, <2>2 DEF AlarmInv, AlarmCounts, ForcedOnlyAfterTimeout
<1>4. QED
  BY <1>1, <1>2, <1>3

LEMMA AlarmStep == AlarmInv /\ [ProcessNext]_processVars => AlarmInv'
<1> SUFFICES ASSUME AlarmInv, [ProcessNext]_processVars
             PROVE  AlarmInv'
  OBVIOUS
<1>1. CASE Main
  BY <1>1, MainKeeps
<1>2. CASE Signal
  BY <1>2, ProcessAssumption
  DEF Signal, ArmedBySignal, Over, AlarmInv, AlarmCounts,
      ForcedOnlyAfterTimeout
<1>3. CASE Forced
  BY <1>3, ProcessAssumption
  DEF Forced, clocks, Off, AlarmInv, AlarmCounts, ForcedOnlyAfterTimeout
<1>4. CASE UserMoves
  BY <1>4 DEF UserMoves, AlarmInv, AlarmCounts, ForcedOnlyAfterTimeout
<1>5. CASE TimePasses
  <2>1. place' = place /\ place # "forced"
    BY <1>5 DEF TimePasses, Slow
  <2>2. AlarmCounts'
    BY <1>5, ProcessAssumption
    DEF TimePasses, Longer, Off, AlarmInv, AlarmCounts
  <2>3. QED
    BY <2>1, <2>2 DEF AlarmInv, ForcedOnlyAfterTimeout
<1>6. CASE UNCHANGED processVars
  BY <1>6 DEF processVars, mainVars, clocks, AlarmInv, AlarmCounts,
              ForcedOnlyAfterTimeout
<1>7. QED
  BY <1>1, <1>2, <1>3, <1>4, <1>5, <1>6 DEF ProcessNext

(* Whatever the timeout, however often a signal arms the alarm again and   *)
(* wherever main() hangs, the process is killed only when the whole        *)
(* timeout has passed since the alarm was armed last.                      *)
THEOREM NotKilledEarly == ProcessSpec => []ForcedOnlyAfterTimeout
<1>1. ProcessInit => AlarmInv
  BY ProcessAssumption
  DEF ProcessInit, AlarmInv, AlarmCounts, ForcedOnlyAfterTimeout, Off
<1>2. AlarmInv => ForcedOnlyAfterTimeout
  BY DEF AlarmInv
<1>3. QED
  BY <1>1, <1>2, AlarmStep, PTL DEF ProcessSpec

-----------------------------------------------------------------------------
(* A quit by Esc.  The user's side: a release that nobody has read yet is  *)
(* still in the queue of its device, behind the press it belongs to.       *)

Events == [code : UNION {Codes[d] : d \in Devices}, value : 0..2]

EscRelease(e) == e.code = "Esc" /\ e.value = 0

EscPress(e) == e.code = "Esc" /\ e.value = 1

(* The release of Esc is among the unread events of device d.              *)
Released(d) == \E i \in 1..Len(unread[d]) : EscRelease(unread[d][i])

PressesOK ==
    \A d \in Devices : \A i \in 1..Len(unread[d]) :
        EscPress(unread[d][i])
          => \/ d \in down
             \/ \E j \in (i + 1)..Len(unread[d]) : EscRelease(unread[d][j])

KeypadOK ==
    /\ eventFds \in Seq(Devices)
    /\ unread \in [Devices -> Seq(Events)]
    /\ down \subseteq Devices
    /\ reading \in Nat
    /\ PressesOK

HoldTimes ==
    /\ since \in 0..ExitDelay
    /\ turn \in 0..ExitDelay
    /\ atTurn \in {Off} \cup 0..ExitDelay
    /\ age \in 0..ExitDelay
    /\ place \in {"display", "keypad", "start", "rest", "poll"} => turn = 0

(* In the loop a hold is of a key that is down, and no older than the key  *)
(* is, or its end is still to be read.                                     *)
HoldIsDown ==
    hold =>
        \/ \E i \in DOMAIN eventFds : Released(eventFds[i])
        \/ down # {} /\ age <= since

(* Once the loop polls, the same of the devices that it has yet to come    *)
(* to, and of the age the key had when the turn began.                     *)
HoldIsOfTurn ==
    hold =>
        \/ \E i \in DOMAIN eventFds : i >= reading /\ Released(eventFds[i])
        \/ atTurn # Off /\ age <= atTurn + turn

HoldOK ==
    /\ place \in {"display", "keypad", "start"} => ~hold
    /\ ~signalled =>
         /\ place \in {"rest", "poll", "render"} => HoldIsDown
         /\ place \in {"poll", "render"} /\ down # {} => atTurn # Off
         /\ place = "poll" => HoldIsOfTurn
         /\ place = "render" /\ hold => atTurn # Off /\ age <= atTurn + turn

QuitInv == KeypadOK /\ HoldTimes /\ HoldOK

(* What an event does to the queue it comes to.                            *)
LEMMA KeyMovesDoes ==
    ASSUME NEW d \in Devices, NEW code \in Codes[d], NEW value \in 0..2,
           KeyMoves(d, code, value)
    PROVE  /\ code = "Esc" => (value = 1 <=> d \notin down)
           /\ down' = IF code # "Esc" THEN down
                      ELSE IF value = 0 THEN down \ {d} ELSE down \cup {d}
           /\ unread' = [unread EXCEPT
                           ![d] = Append(@, [code |-> code, value |-> value])]
           /\ UNCHANGED <<eventFds, shifts, reading>>
BY DEF KeyMoves

LEMMA QuitStarts == ProcessInit => QuitInv
<1> SUFFICES ASSUME ProcessInit PROVE QuitInv
  OBVIOUS
<1>1. KeypadOK
  BY DEF ProcessInit, KeypadInit, KeypadOK, PressesOK
<1>2. HoldTimes
  BY ProcessAssumption DEF ProcessInit, Init, HoldTimes, Off
<1>3. HoldOK
  BY DEF ProcessInit, Init, HoldOK
<1>4. QED
  BY <1>1, <1>2, <1>3 DEF QuitInv

(* An event that is read takes its claim with it: a release ends the hold, *)
(* a press that starts one leaves its key down or its release to be read.  *)
LEMMA ReadKeepsQuit == QuitInv /\ Read => QuitInv'
<1> SUFFICES ASSUME QuitInv, Read PROVE QuitInv'
  OBVIOUS
<1> DEFINE q == unread[Device]
<1>1. /\ Device \in Devices /\ q \in Seq(Events) /\ q # <<>>
      /\ reading \in DOMAIN eventFds /\ Device = eventFds[reading]
      /\ unread' = [unread EXCEPT ![Device] = Tail(@)]
      /\ UNCHANGED <<eventFds, down, reading>>
      /\ UNCHANGED <<place, signalled, since, atTurn, turn>> /\ place = "poll"
  BY DEF Read, ReadEvent, Polling, Device, ReadOn, Unmoved, clocks,
         QuitInv, KeypadOK
<1>2. /\ Len(q) \in Nat /\ Len(q) > 0 /\ Tail(q) \in Seq(Events)
      /\ Len(Tail(q)) = Len(q) - 1
      /\ \A k \in 1..Len(Tail(q)) : Tail(q)[k] = q[k + 1]
      /\ Head(q) = q[1]
  BY <1>1
<1>3. /\ unread'[Device] = Tail(q)
      /\ \A d \in Devices \ {Device} : unread'[d] = unread[d]
      /\ unread' \in [Devices -> Seq(Events)]
  BY <1>1, <1>2 DEF QuitInv, KeypadOK
<1> HIDE DEF q
<1>4. PressesOK'
  <2> SUFFICES ASSUME NEW d \in Devices, NEW i \in 1..Len(unread'[d]),
                      EscPress(unread'[d][i])
               PROVE  \/ d \in down
                      \/ \E j \in (i + 1)..Len(unread'[d]) :
                            EscRelease(unread'[d][j])
    BY <1>1 DEF PressesOK
  <2>1. CASE d # Device
    BY <2>1, <1>3 DEF QuitInv, KeypadOK, PressesOK
  <2>2. CASE d = Device
    <3>1. i \in Nat /\ i + 1 \in 1..Len(q) /\ EscPress(q[i + 1])
      BY <2>2, <1>2, <1>3
    <3>2. CASE d \notin down
      <4>0. \E j \in ((i + 1) + 1)..Len(q) : EscRelease(q[j])
        <5>1. ASSUME NEW k \in 1..Len(q), EscPress(q[k])
              PROVE  \E j \in (k + 1)..Len(q) : EscRelease(q[j])
          BY <5>1, <3>2, <2>2, <1>1 DEF QuitInv, KeypadOK, PressesOK, q
        <5>2. QED
          BY <3>1, <5>1
      <4>1. PICK j \in (i + 2)..Len(q) : EscRelease(q[j])
        BY <4>0, <3>1
      <4>2. j - 1 \in (i + 1)..Len(Tail(q)) /\ Tail(q)[j - 1] = q[j]
        BY <4>1, <3>1, <1>2
      <4>3. QED
        BY <4>1, <4>2, <1>3, <2>2
    <3>3. QED
      BY <3>2
  <2>3. QED
    BY <2>1, <2>2
<1>5. KeypadOK'
  BY <1>1, <1>3, <1>4 DEF QuitInv, KeypadOK
<1>6. age' \in {0, age} /\ (hold' => hold \/ age' = 0)
  BY DEF Read, Report, Release, Press, OtherInput, Forget, DropHold, app
<1>7. HoldTimes'
  BY <1>1, <1>6, ProcessAssumption DEF QuitInv, HoldTimes
<1>8. ASSUME NEW d \in Devices, Released(d), ~EscRelease(Head(q))
      PROVE  Released(d)'
  <2>1. CASE d # Device
    BY <2>1, <1>3, <1>8 DEF Released
  <2>2. CASE d = Device
    <3>1. PICK i \in 1..Len(q) : EscRelease(q[i])
      BY <2>2, <1>8 DEF Released, q
    <3>2. i - 1 \in 1..Len(Tail(q)) /\ Tail(q)[i - 1] = q[i]
      BY <3>1, <1>2, <1>8
    <3>3. QED
      BY <3>1, <3>2, <2>2, <1>3 DEF Released
  <2>3. QED
    BY <2>1, <2>2
<1>9. ASSUME ~signalled, hold'
      PROVE  /\ HoldIsDown'
             /\ HoldIsOfTurn'
             /\ down # {} => atTurn # Off
  <2>1. /\ Key = "Esc" <=> Head(q).code = "Esc"
        /\ Head(q).code = "Esc" => (IsReport <=> Head(q).value \in {0, 1})
    <3>1. Head(q) \in Events
      BY <1>1, <1>2
    <3>2. QED
      BY <3>1 DEF IsReport, Key, Heard, Translate, Named, Characters, Shifts,
                  Events, q
  <2>2. ~EscRelease(Head(q))
    <3>1. SUFFICES ASSUME EscRelease(Head(q)) PROVE ~hold'
      BY <1>9
    <3>2. IsReport /\ Key = "Esc" /\ ~IsPress
      BY <3>1, <2>1 DEF EscRelease, IsPress, Heard, q
    <3>3. QED
      BY <3>2 DEF Read, Report, Release, Forget, DropHold
  <2>3. CASE hold /\ age' = age
    <3>1. HoldIsDown'
      BY <2>2, <2>3, <1>1, <1>8, <1>9
      DEF QuitInv, KeypadOK, HoldOK, HoldIsDown
    <3>2. HoldIsOfTurn' /\ (down # {} => atTurn # Off)
      BY <2>2, <2>3, <1>1, <1>8, <1>9
      DEF QuitInv, KeypadOK, HoldOK, HoldIsOfTurn
    <3>3. QED
      BY <3>1, <3>2
  <2>4. CASE ~(hold /\ age' = age)
    <3>1. IsReport /\ Key = "Esc" /\ IsPress /\ age' = 0
      BY <2>4, <1>9
      DEF Read, Report, Release, Press, OtherInput, Forget, DropHold, app
    <3>2. EscPress(q[1])
      BY <3>1, <2>1, <1>2 DEF EscPress, IsPress, IsReport, Heard, q, Key,
        Translate, Named, Characters
    <3>3. PICK c \in Devices : c = Device
      BY <1>1
    <3>4. c \in down \/ Released(c)'
      <4>1. SUFFICES ASSUME c \notin down PROVE Released(c)'
        OBVIOUS
      <4>2. 1 \in 1..Len(q)
        BY <1>2
      <4>3. PICK j \in (1 + 1)..Len(q) : EscRelease(q[j])
        BY <3>2, <3>3, <4>1, <4>2, <1>1 DEF QuitInv, KeypadOK, PressesOK, q
      <4>4. Released(c)
        BY <4>3, <3>3, <1>2 DEF Released, q
      <4>5. QED
        BY <4>4, <2>2, <1>8
    <3>5. down # {} => atTurn # Off
      BY <1>1, <1>9 DEF QuitInv, HoldOK
    <3>6. 0 <= since /\ (atTurn # Off => 0 <= atTurn + turn)
      BY ProcessAssumption DEF QuitInv, HoldTimes, Off
    <3>7. CASE c \in down
      BY <3>7, <3>1, <3>5, <3>6, <1>1 DEF HoldIsDown, HoldIsOfTurn
    <3>8. CASE Released(c)'
      <4>1. /\ reading \in DOMAIN eventFds' /\ eventFds'[reading] = c
            /\ reading >= reading'
        BY <1>1, <3>3 DEF QuitInv, KeypadOK
      <4>2. QED
        BY <3>8, <4>1, <3>5, <1>1 DEF HoldIsDown, HoldIsOfTurn
    <3>9. QED
      BY <3>4, <3>7, <3>8
  <2>5. QED
    BY <2>3, <2>4
<1>10. HoldOK'
  <2>1. CASE signalled \/ ~hold'
    BY <2>1, <1>1
    DEF HoldOK, HoldIsDown, HoldIsOfTurn, QuitInv
  <2>2. CASE ~signalled /\ hold'
    BY <2>2, <1>1, <1>9 DEF HoldOK
  <2>3. QED
    BY <2>1, <2>2
<1>11. QED
  BY <1>5, <1>7, <1>10 DEF QuitInv

(* A key that moves leaves its event behind: when the last Esc goes up,    *)
(* the release that says so is queued on a device the loop has open.       *)
LEMMA UserKeepsQuit == QuitInv /\ UserMoves => QuitInv'
<1> SUFFICES ASSUME QuitInv, UserMoves PROVE QuitInv'
  OBVIOUS
<1>1. PICK d \in ToSet(eventFds), value \in 0..2 :
        \E code \in Codes[d] : KeyMoves(d, code, value)
  BY DEF UserMoves
<1>2. PICK code \in Codes[d] : KeyMoves(d, code, value)
  BY <1>1
<1>3. d \in Devices /\ \E k \in DOMAIN eventFds : eventFds[k] = d
  BY DEF ToSet, QuitInv, KeypadOK
<1> DEFINE e == [code |-> code, value |-> value]
           q == unread[d]
<1>4. e \in Events /\ q \in Seq(Events)
  BY <1>3 DEF Events, QuitInv, KeypadOK
<1>5. /\ code = "Esc" => (value = 1 <=> d \notin down)
      /\ down' = IF code # "Esc" THEN down
                 ELSE IF value = 0 THEN down \ {d} ELSE down \cup {d}
      /\ unread' = [unread EXCEPT ![d] = Append(@, e)]
      /\ UNCHANGED <<eventFds, reading>>
  BY <1>2, <1>3, KeyMovesDoes
<1>6. /\ EscRelease(e) <=> code = "Esc" /\ value = 0
      /\ EscPress(e) <=> code = "Esc" /\ value = 1
  BY DEF EscRelease, EscPress
<1> HIDE DEF e
<1>7. /\ unread' \in [Devices -> Seq(Events)]
      /\ unread'[d] = Append(q, e)
      /\ \A c \in Devices \ {d} : unread'[c] = unread[c]
  BY <1>3, <1>4, <1>5 DEF QuitInv, KeypadOK
<1>8. /\ Len(q) \in Nat /\ Len(Append(q, e)) = Len(q) + 1
      /\ \A k \in 1..Len(q) : Append(q, e)[k] = q[k]
      /\ Append(q, e)[Len(q) + 1] = e
  BY <1>4
<1> HIDE DEF q
<1>9. /\ down' \subseteq Devices
      /\ \A c \in Devices \ {d} : c \in down' <=> c \in down
  BY <1>3, <1>5 DEF QuitInv, KeypadOK
<1>10. PressesOK'
  <2> SUFFICES ASSUME NEW c \in Devices, NEW i \in 1..Len(unread'[c]),
                      EscPress(unread'[c][i]), c \notin down'
               PROVE  \E j \in (i + 1)..Len(unread'[c]) :
                         EscRelease(unread'[c][j])
    BY DEF PressesOK
  <2>1. CASE c # d
    BY <2>1, <1>7, <1>9 DEF QuitInv, KeypadOK, PressesOK
  <2>2. CASE c = d
    <3>1. CASE i \in 1..Len(q)
      <4>1. CASE EscRelease(e)
        <5>1. Len(q) + 1 \in (i + 1)..Len(unread'[c])
          BY <2>2, <3>1, <1>7, <1>8
        <5>2. QED
          BY <5>1, <4>1, <2>2, <1>7, <1>8
      <4>2. CASE ~EscRelease(e)
        <5>1. c \notin down
          BY <4>2, <2>2, <1>5, <1>6
        <5>2. EscPress(q[i])
          BY <2>2, <3>1, <1>7, <1>8
        <5>3. PICK j \in (i + 1)..Len(q) : EscRelease(q[j])
          BY <5>1, <5>2, <3>1, <2>2 DEF QuitInv, KeypadOK, PressesOK, q
        <5>4. j \in 1..Len(q) /\ j \in (i + 1)..Len(unread'[c])
          BY <3>1, <2>2, <1>7, <1>8
        <5>5. QED
          BY <5>3, <5>4, <2>2, <1>7, <1>8
      <4>3. QED
        BY <4>1, <4>2
    <3>2. CASE i = Len(q) + 1
      <4>1. EscPress(e)
        BY <3>2, <2>2, <1>7, <1>8
      <4>2. QED
        BY <4>1, <2>2, <1>5, <1>6
    <3>3. QED
      BY <3>1, <3>2, <2>2, <1>7, <1>8
  <2>3. QED
    BY <2>1, <2>2
<1>11. KeypadOK'
  BY <1>5, <1>7, <1>9, <1>10 DEF QuitInv, KeypadOK
<1>12. /\ UNCHANGED <<place, signalled, turn, age, hold>> /\ ~signalled
       /\ since' = IF down # {} /\ down' # {} THEN since ELSE 0
       /\ atTurn' = IF /\ atTurn = Off /\ down' # {}
                       /\ place \in {"poll", "render"}
                    THEN 0 ELSE atTurn
       /\ place \in {"start", "poll", "render", "rest"}
  BY DEF UserMoves, app
<1>13. HoldTimes'
  BY <1>12, ProcessAssumption DEF QuitInv, HoldTimes, Off
<1>14. ASSUME NEW c \in Devices, Released(c)
       PROVE  Released(c)'
  <2>1. CASE c = d
    <3>1. PICK i \in 1..Len(q) : EscRelease(q[i])
      BY <2>1, <1>14 DEF Released, q
    <3>2. QED
      BY <3>1, <2>1, <1>7, <1>8 DEF Released
  <2>2. CASE c # d
    BY <2>2, <1>7, <1>14 DEF Released
  <2>3. QED
    BY <2>1, <2>2
<1>15. EscRelease(e) => Released(d)'
  BY <1>7, <1>8 DEF Released
<1>16. place \in {"rest", "poll", "render"} /\ hold => HoldIsDown'
  <2> SUFFICES ASSUME place \in {"rest", "poll", "render"}, hold
               PROVE  HoldIsDown'
    OBVIOUS
  <2>1. CASE \E i \in DOMAIN eventFds : Released(eventFds[i])
    BY <2>1, <1>5, <1>14 DEF HoldIsDown, QuitInv, KeypadOK
  <2>2. CASE down # {} /\ age <= since /\ down' # {}
    BY <2>2, <1>12 DEF HoldIsDown
  <2>3. CASE down # {} /\ down' = {}
    <3>1. EscRelease(e)
      BY <2>3, <1>5, <1>6
    <3>2. QED
      BY <3>1, <1>15, <1>3, <1>5 DEF HoldIsDown
  <2>4. QED
    BY <2>1, <2>2, <2>3, <1>12 DEF QuitInv, HoldOK, HoldIsDown
<1>17. place \in {"poll", "render"} => (down' # {} => atTurn' # Off)
  BY <1>12 DEF Off
<1>18. (atTurn # Off /\ age <= atTurn + turn)
         => (atTurn' # Off /\ age <= atTurn' + turn)
  BY <1>12
<1>19. place = "poll" /\ hold => HoldIsOfTurn'
  <2> SUFFICES ASSUME place = "poll", hold PROVE HoldIsOfTurn'
    OBVIOUS
  <2>1. CASE atTurn # Off /\ age <= atTurn + turn
    BY <2>1, <1>12, <1>18 DEF HoldIsOfTurn
  <2>2. CASE \E i \in DOMAIN eventFds : i >= reading /\ Released(eventFds[i])
    BY <2>2, <1>5, <1>14 DEF HoldIsOfTurn, QuitInv, KeypadOK
  <2>3. QED
    BY <2>1, <2>2, <1>12 DEF QuitInv, HoldOK, HoldIsOfTurn
<1>20. place = "render" /\ hold => atTurn' # Off /\ age <= atTurn' + turn
  BY <1>12, <1>18 DEF QuitInv, HoldOK
<1>21. place = "start" => ~hold
  BY DEF QuitInv, HoldOK
<1>22. HoldOK'
  <2>1. CASE hold
    BY <2>1, <1>12, <1>16, <1>17, <1>19, <1>20, <1>21 DEF HoldOK
  <2>2. CASE ~hold
    BY <2>2, <1>12, <1>17 DEF HoldOK, HoldIsDown, HoldIsOfTurn
  <2>3. QED
    BY <2>1, <2>2
<1>23. QED
  BY <1>11, <1>13, <1>22 DEF QuitInv

(* The hold and the key grow old together, up to the delay; in the turn    *)
(* that renders, the hold and that turn do.                                *)
LEMMA TimeKeepsQuit == QuitInv /\ TimePasses => QuitInv'
<1> SUFFICES ASSUME QuitInv, TimePasses PROVE QuitInv'
  OBVIOUS
<1>1. /\ UNCHANGED <<place, signalled, atTurn, hold>>
      /\ UNCHANGED <<eventFds, unread, down, reading>>
      /\ place # "poll"
      /\ age' = IF hold /\ age < ExitDelay THEN age + 1 ELSE age
      /\ since' = IF down # {} THEN Longer(since, ExitDelay) ELSE since
      /\ turn' = IF place = "render" THEN Longer(turn, ExitDelay) ELSE 0
  BY DEF TimePasses, Time, keypadVars, Slow
<1>2. KeypadOK'
  BY <1>1 DEF QuitInv, KeypadOK, PressesOK
<1>3. /\ since \in 0..ExitDelay /\ turn \in 0..ExitDelay
      /\ atTurn \in {Off} \cup 0..ExitDelay
      /\ age \in 0..ExitDelay /\ ExitDelay \in Nat
  BY ProcessAssumption DEF QuitInv, HoldTimes
<1>4. HoldTimes'
  <2>1. /\ since' \in 0..ExitDelay /\ turn' \in 0..ExitDelay
        /\ age' \in 0..ExitDelay
    BY <1>1, <1>3 DEF Longer
  <2>2. QED
    BY <2>1, <1>1, <1>3 DEF HoldTimes
<1>5. down # {} /\ age <= since => age' <= since'
  BY <1>1, <1>3 DEF Longer
<1>6. place = "render" /\ atTurn # Off /\ age <= atTurn + turn
        => age' <= atTurn + turn'
  BY <1>1, <1>3 DEF Longer, Off
<1>7. \A d : Released(d)' <=> Released(d)
  BY <1>1 DEF Released
<1>8. HoldIsDown => HoldIsDown'
  BY <1>1, <1>5, <1>7 DEF HoldIsDown
<1>9. HoldOK'
  BY <1>1, <1>6, <1>8 DEF QuitInv, HoldOK
<1>10. QED
  BY <1>2, <1>4, <1>9 DEF QuitInv

(* A turn begins: what holds of the key now is what the turn remembers.    *)
LEMMA CheckKeepsQuit == QuitInv /\ Check => QuitInv'
<1> SUFFICES ASSUME QuitInv, Check PROVE QuitInv'
  OBVIOUS
<1>1. CASE quit \/ signalled
  <2>1. /\ UNCHANGED <<signalled, since, atTurn, turn, age, hold>>
        /\ UNCHANGED <<eventFds, unread, down, reading>> /\ place' = "arm"
    BY <1>1 DEF Check, Go, keypadVars, app
  <2>2. QED
    BY <2>1 DEF QuitInv, KeypadOK, PressesOK, HoldTimes, HoldOK
<1>2. CASE ~(quit \/ signalled)
  <2>1. /\ UNCHANGED <<signalled, since, turn, age, hold>>
        /\ UNCHANGED <<eventFds, unread, down>> /\ reading' = 1
        /\ place = "rest" /\ place' = "poll" /\ ~signalled
        /\ atTurn' = IF down # {} THEN since ELSE Off
    BY <1>2 DEF Check, Go, PollBegin, app
  <2>2. KeypadOK'
    BY <2>1 DEF QuitInv, KeypadOK, PressesOK
  <2>3. HoldTimes'
    BY <2>1 DEF QuitInv, HoldTimes
  <2>4. since # Off /\ turn = 0 /\ since \in Int /\ age \in Int
    BY <2>1, ProcessAssumption DEF QuitInv, HoldTimes, Off
  <2>5. HoldIsDown /\ (\A d : Released(d)' <=> Released(d))
    BY <2>1 DEF QuitInv, HoldOK, Released
  <2>6. HoldIsDown'
    BY <2>1, <2>5 DEF HoldIsDown
  <2>7. \A i \in DOMAIN eventFds : i >= 1
    BY DEF QuitInv, KeypadOK
  <2>8. HoldIsOfTurn'
    BY <2>1, <2>4, <2>5, <2>7 DEF HoldIsDown, HoldIsOfTurn
  <2>9. HoldOK'
    BY <2>1, <2>4, <2>6, <2>8 DEF HoldOK
  <2>10. QED
    BY <2>2, <2>3, <2>9 DEF QuitInv
<1>3. QED
  BY <1>1, <1>2

(* A device that is passed over has nothing unread; at the end of the      *)
(* poll no release is left that could still end the hold.                  *)
LEMMA PollKeepsQuit == QuitInv /\ (Empty \/ Interrupted \/ Polled) => QuitInv'
<1> SUFFICES ASSUME QuitInv, Empty \/ Interrupted \/ Polled PROVE QuitInv'
  OBVIOUS
<1>1. /\ UNCHANGED <<signalled, since, atTurn, turn, age, hold>>
      /\ UNCHANGED <<eventFds, unread, down>> /\ place = "poll"
  BY DEF Empty, Interrupted, Polled, NextDevice, PollEnd, Unmoved, clocks, app,
         Go
<1>2. reading' \in Nat
  BY DEF Empty, Interrupted, Polled, NextDevice, PollEnd, QuitInv, KeypadOK
<1>3. KeypadOK'
  BY <1>1, <1>2 DEF QuitInv, KeypadOK, PressesOK
<1>4. HoldTimes'
  <2>1. place' \in {"poll", "arm", "render"}
    BY DEF Empty, Interrupted, Polled, Go
  <2>2. QED
    BY <2>1, <1>1 DEF QuitInv, HoldTimes
<1>5. \A d : Released(d)' <=> Released(d)
  BY <1>1 DEF Released
<1>6. HoldIsDown => HoldIsDown'
  BY <1>1, <1>5 DEF HoldIsDown
<1>7. CASE signalled
  <2>1. place' \in {"poll", "arm"}
    BY <1>1, <1>7 DEF Empty, Interrupted, Polled, Go
  <2>2. QED
    BY <2>1, <1>1, <1>3, <1>4, <1>7 DEF QuitInv, HoldOK
<1>8. CASE ~signalled /\ Empty
  <2>1. /\ place' = "poll" /\ reading' = reading + 1
        /\ reading \in DOMAIN eventFds /\ unread[eventFds[reading]] = <<>>
    BY <1>1, <1>8 DEF Empty, NextDevice, Polling, Device
  <2>2. ~Released(eventFds[reading])
    BY <2>1 DEF Released
  <2>3. \A i \in DOMAIN eventFds :
           i >= reading /\ Released(eventFds[i]) => i >= reading + 1
    BY <2>2 DEF QuitInv, KeypadOK
  <2>4. HoldIsOfTurn => HoldIsOfTurn'
    BY <2>1, <2>3, <1>1, <1>5 DEF HoldIsOfTurn
  <2>5. HoldOK'
    BY <2>1, <2>4, <1>1, <1>6, <1>8 DEF QuitInv, HoldOK
  <2>6. QED
    BY <2>5, <1>3, <1>4 DEF QuitInv
<1>9. CASE ~signalled /\ Polled
  <2>1. place' = "render" /\ reading > Len(eventFds)
    BY <1>9 DEF Polled, Go, PollEnd, PollDone
  <2>2. \A i \in DOMAIN eventFds : ~(i >= reading)
    BY <2>1 DEF QuitInv, KeypadOK
  <2>3. hold => atTurn # Off /\ age <= atTurn + turn
    BY <2>2, <1>1, <1>9 DEF QuitInv, HoldOK, HoldIsOfTurn
  <2>4. HoldOK'
    BY <2>1, <2>3, <1>1, <1>6, <1>9 DEF QuitInv, HoldOK
  <2>5. QED
    BY <2>4, <1>3, <1>4 DEF QuitInv
<1>10. QED
  BY <1>7, <1>8, <1>9 DEF Interrupted

LEMMA MainKeepsQuit == QuitInv /\ Main => QuitInv'
<1> SUFFICES ASSUME QuitInv, Main PROVE QuitInv'
  OBVIOUS
<1>1. CASE DisplayOpened
  BY <1>1 DEF DisplayOpened, Go, Unmoved, clocks, keypadVars, app,
              QuitInv, KeypadOK, PressesOK, HoldTimes, HoldOK
<1>2. CASE KeypadOpened
  <2>1. PICK fds \in {eventFds}
                       \cup UNION {[1..n -> Devices] : n \in 0..Len(Keyboards)} :
          /\ OpenDefault(fds)
          /\ Go("keypad", IF fds = <<>> THEN "failed" ELSE "start")
    BY <1>2 DEF KeypadOpened
  <2>2. fds \in Seq(Devices)
    <3>1. CASE fds = eventFds
      BY <3>1 DEF QuitInv, KeypadOK
    <3>2. CASE fds # eventFds
      <4>1. PICK n \in 0..Len(Keyboards) : fds \in [1..n -> Devices]
        BY <3>2
      <4>2. n \in Nat
        OBVIOUS
      <4>3. QED
        BY <4>1, <4>2
    <3>3. QED
      BY <3>1, <3>2
  <2>3. /\ UNCHANGED <<unread, down, reading>> /\ eventFds' = fds
        /\ UNCHANGED <<signalled, since, atTurn, turn, age, hold>>
        /\ place' \in {"failed", "start"} /\ place = "keypad"
    BY <2>1, <1>2 DEF KeypadOpened, OpenDefault, Go, Unmoved, clocks, app
  <2>4. QED
    BY <2>2, <2>3 DEF QuitInv, KeypadOK, PressesOK, HoldTimes, HoldOK
<1>3. CASE AppStarted
  <2>1. /\ UNCHANGED <<eventFds, unread, down, reading>>
        /\ UNCHANGED <<signalled, since, atTurn, turn>>
        /\ hold' = FALSE /\ age' = 0 /\ place = "start" /\ place' = "rest"
    BY <1>3 DEF AppStarted, Start, Forget, DropHold, Go, Unmoved, clocks,
                keypadVars
  <2>2. KeypadOK' /\ HoldOK'
    BY <2>1 DEF QuitInv, KeypadOK, PressesOK, HoldOK, HoldIsDown
  <2>3. QED
    BY <2>1, <2>2 DEF QuitInv, HoldTimes
<1>4. CASE Rendered
  <2>1. /\ UNCHANGED <<eventFds, unread, down, reading>>
        /\ UNCHANGED <<signalled, since>>
        /\ place = "render" /\ place' = IF signalled THEN "arm" ELSE "rest"
        /\ hold' => (hold /\ age' = age)
        /\ age' \in {0, age}
        /\ \/ UNCHANGED <<atTurn, turn>>
           \/ atTurn' = Off /\ turn' = 0
        /\ ~signalled => turn' = 0
    BY <1>4 DEF Rendered, Go, keypadVars, app, Tick, DropHold
  <2>2. KeypadOK'
    BY <2>1 DEF QuitInv, KeypadOK, PressesOK
  <2>3. HoldTimes'
    BY <2>1, ProcessAssumption DEF QuitInv, HoldTimes, Off
  <2>4. ~signalled => HoldIsDown'
    BY <2>1 DEF QuitInv, HoldOK, HoldIsDown, Released
  <2>5. HoldOK'
    BY <2>1, <2>4 DEF HoldOK
  <2>6. QED
    BY <2>2, <2>3, <2>5 DEF QuitInv
<1>5. CASE Arm \/ Disarmed
  <2>1. /\ UNCHANGED <<eventFds, unread, down, reading, age, hold>>
        /\ place' \in {"stop", "done"}
        /\ \/ UNCHANGED <<since, atTurn, turn>>
           \/ since' = 0 /\ atTurn' = Off /\ turn' = 0
    BY <1>5 DEF Arm, Disarmed, Go, clocks, keypadVars, app
  <2>2. QED
    BY <2>1, ProcessAssumption
    DEF QuitInv, KeypadOK, PressesOK, HoldTimes, HoldOK, Off
<1>6. CASE AppStopped
  <2>1. /\ UNCHANGED <<eventFds, unread, down, reading, since, atTurn, turn>>
        /\ place' = "close" /\ age' = 0
    BY <1>6 DEF AppStopped, Go, Stop, Forget, DropHold, Unmoved, clocks,
                keypadVars
  <2>2. QED
    BY <2>1, ProcessAssumption
    DEF QuitInv, KeypadOK, PressesOK, HoldTimes, HoldOK
<1>7. CASE Closed
  <2>1. /\ UNCHANGED <<down, since, atTurn, turn, age>>
        /\ place' = "disarm" /\ reading' = 0 /\ eventFds' = <<>>
        /\ unread' = [d \in Devices |-> <<>>]
    BY <1>7 DEF Closed, Go, CloseKeypad, Unmoved, clocks, app
  <2>2. QED
    BY <2>1 DEF QuitInv, KeypadOK, PressesOK, HoldTimes, HoldOK
<1>8. QED
  BY <1>1, <1>2, <1>3, <1>4, <1>5, <1>6, <1>7,
     ReadKeepsQuit, CheckKeepsQuit, PollKeepsQuit
  DEF Main, Prompt

LEMMA QuitStep == QuitInv /\ [ProcessNext]_processVars => QuitInv'
<1> SUFFICES ASSUME QuitInv, [ProcessNext]_processVars PROVE QuitInv'
  OBVIOUS
<1>1. CASE Signal
  BY <1>1 DEF Signal, Over, keypadVars, app, QuitInv, KeypadOK, PressesOK,
              HoldTimes, HoldOK
<1>2. CASE Forced
  BY <1>2 DEF Forced, clocks, keypadVars, app, QuitInv, KeypadOK, PressesOK,
              HoldTimes, HoldOK
<1>3. CASE UNCHANGED processVars
  BY <1>3 DEF processVars, mainVars, clocks, keypadVars, app, QuitInv, KeypadOK,
              PressesOK, HoldTimes, HoldOK, HoldIsDown, HoldIsOfTurn, Released
<1>4. QED
  BY <1>1, <1>2, <1>3, MainKeepsQuit, UserKeepsQuit, TimeKeepsQuit
  DEF ProcessNext

(* Only a tick quits, and only with a hold that is as old as the delay:    *)
(* whatever keyboards there are and whatever their queues hold, the hold   *)
(* is then of a key that was down when the turn began.                     *)
LEMMA QuitNeedsKey ==
    QuitInv /\ [ProcessNext]_processVars
      => (quit' /\ ~quit => atTurn # Off /\ atTurn + turn >= ExitDelay)
<1> SUFFICES ASSUME QuitInv, ProcessNext, quit', ~quit
             PROVE  atTurn # Off /\ atTurn + turn >= ExitDelay
  BY DEF processVars, app
<1>1. Rendered /\ ~signalled
  BY DEF ProcessNext, Main, Prompt, Signal, Forced, UserMoves, TimePasses, Time,
         DisplayOpened, KeypadOpened, AppStarted, Start, Check, Read, Report,
         Release, Press, OtherInput, Empty, Interrupted, Polled, Rendered, Arm,
         AppStopped, Stop, Closed, Disarmed, app
<1>2. hold /\ age >= ExitDelay /\ place = "render"
  BY <1>1 DEF Rendered, Tick, Go
<1>3. atTurn # Off /\ age <= atTurn + turn
  BY <1>1, <1>2 DEF QuitInv, HoldOK
<1>4. age \in Int /\ atTurn \in Int /\ turn \in Int /\ ExitDelay \in Int
  BY <1>3, ProcessAssumption DEF QuitInv, HoldTimes
<1>5. QED
  BY <1>2, <1>3, <1>4

(* For any keyboards, any keys held when the program starts and any delay: *)
(* the app does not quit by Esc unless a key that says Esc was down when   *)
(* the turn of the loop began, or went down in it, for the whole delay.    *)
THEOREM QuitIsTheUsers == ProcessSpec => QuitIsPhysical
<1>1. QED
  BY QuitStarts, QuitStep, QuitNeedsKey, PTL DEF ProcessSpec, QuitIsPhysical
=============================================================================
