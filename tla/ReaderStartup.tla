---------------------------- MODULE ReaderStartup ----------------------------
(***************************************************************************)
(* The reader's way to its resources, beside another process that opens it *)
(* too: the first stage of LinuxNfcBackend::open (ReaderResources) is a    *)
(* call of ensureCapSpiOverlay (SpiOverlay), with one cancellation token,  *)
(* and the process may die in either.                                      *)
(***************************************************************************)
EXTENDS ReaderResources, SpiOverlay

CONSTANT Me          \* the process ReaderResources is about

ASSUME StartupAssumption == Me \in Procs

startupVars == <<resourceVars, overlayVars>>

StartupInit == ResourcesInit /\ OverlayInit

InOverlay == UNCHANGED resourceVars

PastOverlay == UNCHANGED overlayVars

OverlayCall == stage = "overlay" /\ at[Me] # "idle"

(* open() calls ensureCapSpiOverlay.                                       *)
BeginOverlay == OpenBegin /\ Call(Me)

(* It has returned true or false.                                          *)
OverlayReturned ==
    /\ stage = "overlay" /\ ~OverlayCall
    /\ IF result[Me] THEN OverlayReady ELSE StepFails
    /\ PastOverlay

Onwards ==
    /\ stage # "overlay"
    /\ \/ RequestIrq \/ PowerBegin \/ Route \/ NoSelector \/ RouteFails
       \/ PinctrlDone \/ PinctrlFails \/ Supply \/ SupplyFails \/ Settle
       \/ OpenSpi \/ Probe \/ ProbeFails \/ StepFails \/ SwitchField
       \/ UndoPins \/ UndoRoute \/ CloseBegin \/ StopDriver \/ CloseSpi
       \/ ReleaseIrq \/ DisablePins \/ DisableRoute \/ OwnerMovesSelector
    /\ PastOverlay

CancelBoth == (Cancel \/ NewRun) /\ CancelCall(Me)

DiesInBoth == ProcessDies /\ Dies(Me)

Others ==
    /\ \/ Step(Me) \/ LoaderEnds(Me) \/ StrayEnds \/ DeviceAppears
       \/ \E p \in Procs \ {Me} :
             Call(p) \/ Step(p) \/ LoaderEnds(p) \/ CancelCall(p) \/ Dies(p)
    /\ InOverlay

StartupNext ==
    \/ BeginOverlay \/ OverlayReturned \/ Onwards
    \/ CancelBoth \/ DiesInBoth \/ Others

StartupSpec == StartupInit /\ [][StartupNext]_startupVars

-----------------------------------------------------------------------------
(* While this process opens the reader it has the lock file just while it  *)
(* looks for the device and loads, never past that stage; nobody else      *)
(* loads meanwhile; and SPI is opened only on a device that is there.      *)
LockEndsWithStage ==
    /\ HolderAlone
    /\ lock = Me => stage = "overlay"
    /\ stage \in {"spi", "probe", "open"} => device
=============================================================================
