---------------------------- MODULE ReaderResources ----------------------------
(***************************************************************************)
(* What the reader holds of the machine: LinuxNfcBackend::open and         *)
(* closeImpl with CardputerZeroCapPower, step by step, on the hardware     *)
(* thread.  Every step may fail; a stop may cancel the opening at any      *)
(* time; and the process may die at any time (the shutdown watchdog, a     *)
(* kill), after which the next one finds what the hardware kept.           *)
(*                                                                         *)
(* The lines and the SPI device belong to the process: the kernel takes    *)
(* them back.  The HAT selector, the levels of the two supply switches     *)
(* (GPIO26, EXT5V) and the chip's field do not.  Nobody else moves the     *)
(* selector while a process runs the reader.                               *)
(***************************************************************************)

VARIABLES
    stage,        \* the hardware thread's place in open() or closeImpl()
    cancel,       \* the cancellation token
    irq,          \* _interrupt, its line requested
    spi,          \* _spi is open
    driver,       \* _driver: "none", "made", "ready"
    pins,         \* gpio26_requested
    powered,      \* CardputerZeroCapPower::Impl::enabled
    previous,     \* previous_gpio_fun_brightness
    restore,      \* gpio_fun_restore_needed
    rails,        \* the supply switches that are on
    selector,     \* ext_usb_gpio_fun: "gpio", "usb", or "absent"
    field,        \* the chip's transmitter is on
    unheard,      \* history: the field was on, and the last stop was lost
    found         \* history: the selector as its owner left it

lines == <<irq, spi, driver>>
power == <<pins, powered, previous, restore>>
machine == <<rails, selector, field>>
history == <<unheard, found>>
resourceVars == <<stage, cancel, lines, power, machine, history>>

Opening == {"overlay", "gpio", "power", "route", "pinctrl", "supply",
            "settle", "spi", "probe"}
Undoing == {"undo pins", "undo route"}
Closing == {"stop field", "close spi", "release irq", "release pins",
            "release route"}
Stages == {"closed", "open"} \cup Opening \cup Undoing \cup Closing

ResourcesInit ==
    /\ stage = "closed" /\ cancel = FALSE
    /\ irq = FALSE /\ spi = FALSE /\ driver = "none"
    /\ pins = FALSE /\ powered = FALSE
    /\ previous = "gpio" /\ restore = FALSE
    /\ rails \in SUBSET {"gpio26", "ext5v"}
    /\ selector \in {"gpio", "usb", "absent"}
    /\ field = FALSE /\ unheard = FALSE
    /\ found = selector

Goto(from, to) == stage = from /\ stage' = to

(* A step that changes nothing but the place.                              *)
Move(from, to) ==
    Goto(from, to) /\ UNCHANGED <<cancel, lines, power, machine, history>>

FirstGiven == "undo pins"  \* mutant: the supply is given up before the driver

(* open() has failed or was cancelled: closeImmediately().                 *)
FirstUndone == "stop field"

(* An exception out of a step that has not changed anything yet.           *)
StepFails ==
    \E from \in {"overlay", "gpio", "power", "settle", "spi"} :
        Move(from, FirstUndone)

-----------------------------------------------------------------------------
(* open()                                                                  *)

OpenBegin == Move("closed", "overlay")

OverlayReady == Move("overlay", "gpio")

RequestIrq ==
    /\ Goto("gpio", "power")
    /\ irq' = TRUE
    /\ UNCHANGED <<cancel, spi, driver, power, machine, history>>

(* enable() goes on only if EXT5V can be controlled and nobody cancelled.  *)
PowerBegin == ~cancel /\ Move("power", "route")

Remember == previous' = selector

(* The HAT pins are switched from USB to GPIO, and read back.              *)
Route ==
    /\ Goto("route", "pinctrl")
    /\ selector # "absent"
    /\ Remember
    /\ selector' = "gpio"
    /\ restore' = (selector = "usb")
    /\ UNCHANGED <<cancel, lines, pins, powered, rails, field, history>>

NoSelector == selector = "absent" /\ Move("route", "pinctrl")

(* It cannot be read or written, or stays in USB mode after a write.       *)
RouteFails ==
    /\ Goto("route", "undo pins")
    /\ selector # "absent"
    /\ \/ previous' \in {previous, selector}
          /\ UNCHANGED <<restore, selector>>
       \/ /\ selector = "usb" /\ selector' \in {"usb", "gpio"}
          /\ previous' = selector
          /\ restore' = TRUE
    /\ UNCHANGED <<cancel, lines, pins, powered, rails, field, history>>

(* runPinctrl(): the child does its work, or fails, or hangs and is killed *)
(* when a stop is requested or two seconds are over.                       *)
PinctrlDone ==
    /\ Goto("pinctrl", "supply")
    /\ rails' = rails \cup {"gpio26"}
    /\ UNCHANGED <<cancel, lines, power, selector, field, history>>

PinctrlFails ==
    /\ Goto("pinctrl", "undo pins")
    /\ rails' \in {rails, rails \cup {"gpio26"}}
    /\ UNCHANGED <<cancel, lines, power, selector, field, history>>

(* POWER_EN is held high, EXT5V switched on unless it was.  Whether it     *)
(* came on is not insisted upon: a readback of 0, or one that fails, is a  *)
(* warning, and the probe will tell.                                       *)
Supply ==
    /\ Goto("supply", "settle")
    /\ ~cancel
    /\ pins' = TRUE
    /\ powered' = TRUE
    /\ rails' \in {rails \cup {"gpio26"}, {"gpio26", "ext5v"}}
    /\ UNCHANGED <<cancel, lines, previous, restore, selector, field, history>>

SupplyFails ==
    /\ Goto("supply", "undo pins")
    /\ \/ UNCHANGED <<pins, rails>>
       \/ /\ pins' = TRUE
          /\ rails' \in {rails \cup {"gpio26"}, {"gpio26", "ext5v"}}
    /\ UNCHANGED <<cancel, lines, powered, previous, restore, selector, field,
                   history>>

Settle == ~cancel /\ Move("settle", "spi")

OpenSpi ==
    /\ Goto("spi", "probe")
    /\ spi' = TRUE
    /\ driver' = "made"
    /\ UNCHANGED <<cancel, irq, power, machine, history>>

(* initialize() stops the chip, then sets it up and switches it on.        *)
Probe ==
    /\ Goto("probe", "open")
    /\ driver' = "ready"
    /\ field' = TRUE
    /\ unheard' = FALSE
    /\ UNCHANGED <<cancel, irq, spi, power, rails, selector, found>>

ProbeFails ==
    /\ Goto("probe", FirstUndone)
    /\ field' \in BOOLEAN
    /\ UNCHANGED <<cancel, lines, power, rails, selector, history>>

(* Discovery starts, stops and polls.                                      *)
SwitchField ==
    /\ Goto("open", "open")
    /\ field' \in BOOLEAN
    /\ UNCHANGED <<cancel, lines, power, rails, selector, history>>

-----------------------------------------------------------------------------
(* enable() undoes itself with disable(), in two steps; so does close.     *)

(* The line is released as an input: the level it was driven to stays.     *)
PinReleased == pins' = FALSE /\ UNCHANGED rails

ReleasePins(from, to) ==
    /\ Goto(from, to)
    /\ PinReleased
    /\ UNCHANGED <<cancel, lines, powered, previous, restore, selector, field,
                   history>>

(* The selector goes back to what it was, if that can still be written.    *)
ReleaseRoute(from, to) ==
    /\ Goto(from, to)
    /\ \/ restore /\ selector' = previous /\ UNCHANGED found
       \/ restore /\ UNCHANGED selector /\ found' = selector
       \/ ~restore /\ UNCHANGED <<selector, found>>
    /\ restore' = FALSE
    /\ powered' = FALSE
    /\ UNCHANGED <<cancel, lines, pins, previous, rails, field, unheard>>

UndoPins == ReleasePins("undo pins", "undo route")

UndoRoute == ReleaseRoute("undo route", "stop field")

-----------------------------------------------------------------------------
(* closeImpl()                                                             *)

CloseBegin == Move("open", "stop field")

Stoppable == driver # "none"

(* The driver's stop() reaches the chip if the transfers work.             *)
StopDriver ==
    /\ Goto("stop field", "close spi")
    /\ \/ Stoppable /\ spi /\ field' = FALSE /\ unheard' = FALSE
       \/ Stoppable /\ unheard' = field /\ UNCHANGED field
       \/ ~Stoppable /\ UNCHANGED <<field, unheard>>
    /\ driver' = "none"
    /\ UNCHANGED <<cancel, irq, spi, power, rails, selector, found>>

CloseSpi ==
    /\ Goto("close spi", "release irq")
    /\ spi' = FALSE
    /\ UNCHANGED <<cancel, irq, driver, power, machine, history>>

GivenIfPowered == irq' = (irq /\ ~powered)   \* mutant: not where power failed

GivenBack == irq' = FALSE

ReleaseIrq ==
    /\ Goto("release irq", "release pins")
    /\ GivenBack
    /\ UNCHANGED <<cancel, spi, driver, power, machine, history>>

DisablePins == ReleasePins("release pins", "release route")

DisableRoute == ReleaseRoute("release route", "closed")

-----------------------------------------------------------------------------
(* Around it: stop(), a new run of the worker, the end of the process, the *)
(* owner of the machine.                                                   *)

Cancel ==
    /\ ~cancel /\ cancel' = TRUE
    /\ UNCHANGED <<stage, lines, power, machine, history>>

NewRun ==
    /\ stage = "closed"
    /\ cancel /\ cancel' = FALSE
    /\ UNCHANGED <<stage, lines, power, machine, history>>

ProcessDies ==
    /\ stage' = "closed" /\ cancel' = FALSE
    /\ irq' = FALSE /\ spi' = FALSE /\ driver' = "none"
    /\ pins' = FALSE /\ powered' = FALSE
    /\ previous' = "gpio" /\ restore' = FALSE
    /\ unheard' = field
    /\ found' = selector
    /\ UNCHANGED machine

OwnerMovesSelector ==
    /\ stage = "closed"
    /\ selector \in {"gpio", "usb"}
    /\ selector' \in {"gpio", "usb"} \ {selector}
    /\ found' = selector'
    /\ UNCHANGED <<stage, cancel, lines, power, rails, field, unheard>>

ResourcesNext ==
    \/ OpenBegin \/ OverlayReady \/ RequestIrq \/ PowerBegin
    \/ Route \/ NoSelector \/ RouteFails
    \/ PinctrlDone \/ PinctrlFails
    \/ Supply \/ SupplyFails \/ Settle \/ OpenSpi \/ Probe \/ ProbeFails
    \/ StepFails \/ SwitchField
    \/ UndoPins \/ UndoRoute
    \/ CloseBegin \/ StopDriver \/ CloseSpi \/ ReleaseIrq
    \/ DisablePins \/ DisableRoute
    \/ Cancel \/ NewRun \/ ProcessDies \/ OwnerMovesSelector

ResourcesSpec == ResourcesInit /\ [][ResourcesNext]_resourceVars

-----------------------------------------------------------------------------
ResourcesTypeOK ==
    /\ stage \in Stages
    /\ {cancel, irq, spi, pins, powered, restore, field, unheard}
         \subseteq BOOLEAN
    /\ driver \in {"none", "made", "ready"}
    /\ rails \subseteq {"gpio26", "ext5v"}
    /\ previous \in {"gpio", "usb", "absent"}
    /\ {selector, found} \subseteq {"gpio", "usb", "absent"}
    /\ restore => previous = "usb"

(* Whichever step failed or was cancelled, a reader that is closed holds   *)
(* no line, no device and no debt: the next open() cannot find any of them *)
(* busy.                                                                   *)
ClosedHoldsNothing ==
    stage = "closed" => ~irq /\ ~spi /\ driver = "none" /\ ~pins /\ ~powered
                        /\ ~restore

(* The driver lives only while what it speaks through is there: POWER_EN   *)
(* high and held, SPI and the interrupt line, on pins that are routed to   *)
(* the Cap.  It needs them to switch the field off.  EXT5V is not among    *)
(* them, for nobody insists that it came on.                               *)
DriverHasItsLines ==
    driver # "none" =>
        /\ spi /\ irq /\ pins /\ powered
        /\ "gpio26" \in rails /\ selector # "usb"

(* POWER_EN is held only while the HAT pins are GPIO: on the way in and on *)
(* the way out, and after any failure.                                     *)
PinsOnlyWhenRouted == pins => selector # "usb"

(* Both: lines are taken and given back in the one order that is safe.     *)
LinesInOrder == DriverHasItsLines /\ PinsOnlyWhenRouted

(* A closed reader has left the selector as its owner had it, unless it    *)
(* could not be written or the process died (then found starts anew).      *)
SelectorGivenBack == stage = "closed" => selector = found

(* The Cap stays powered when the reader is closed, so the field must be   *)
(* switched off: it is on only if the chip could not be told.              *)
FieldOffAtRest == stage = "closed" => ~field \/ unheard

(* All three: a closed reader leaves the machine as it should be.          *)
LeavesMachineClean == ClosedHoldsNothing /\ SelectorGivenBack /\ FieldOffAtRest

(* A supply that is up is never taken from the LCD, which shares its bus.  *)
RailsStayUp == [][rails \subseteq rails']_resourceVars
=============================================================================
