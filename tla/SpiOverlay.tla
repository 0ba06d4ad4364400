----------------------------- MODULE SpiOverlay -----------------------------
(***************************************************************************)
(* ensureCapSpiOverlay (src/hal/cap_spi_overlay.cpp): the kernel overlay   *)
(* that gives the SPI device is loaded once, though several processes may  *)
(* find it missing.  A file lock serialises them; the loader is a child in *)
(* a process group of its own, which may hang, be given up by its parent   *)
(* or outlive it; the device appears some time after the overlay is in     *)
(* place and stays until reboot.                                           *)
(***************************************************************************)
EXTENDS Integers

CONSTANTS
    Procs,      \* the processes that open the reader
    MaxCalls,   \* bound: calls of each
    None        \* no process

ASSUME OverlayAssumption == None \notin Procs /\ MaxCalls \in Nat

VARIABLES
    device,     \* the SPI device node exists
    applied,    \* external: how many loaders put the overlay in place
    lock,       \* the holder of the lock file
    at,         \* at[p]: where p's call is
    child,      \* child[p]: p's loader: "none", "running", "exited"
    strays,     \* loaders that run on without a parent who waits
    token,     \* token[p]: p's cancellation token
    result,     \* result[p]: what p's last call returned
    calls,      \* bound: calls of p so far
    disturbed   \* history: a loader or its device was not waited for

loaders == <<applied, child, strays>>
overlayVars == <<device, loaders, lock, at, token, result, calls, disturbed>>

OverlayInit ==
    /\ device \in BOOLEAN
    /\ applied = 0
    /\ lock = None
    /\ at = [p \in Procs |-> "idle"]
    /\ child = [p \in Procs |-> "none"]
    /\ strays = 0
    /\ token = [p \in Procs |-> FALSE]
    /\ result = [p \in Procs |-> FALSE]
    /\ calls = [p \in Procs |-> 0]
    /\ disturbed = FALSE

Goes(p, s) == at' = [at EXCEPT ![p] = s]

(* Every way out of the call releases the lock if it was taken.            *)
Return(p, r) ==
    /\ Goes(p, "idle")
    /\ result' = [result EXCEPT ![p] = r]
    /\ lock' = IF lock = p THEN None ELSE lock

(* The device is there, or the lock has to be taken; or cancelled, or no   *)
(* overlay file.                                                           *)
Call(p) ==
    /\ at[p] = "idle" /\ calls[p] < MaxCalls
    /\ calls' = [calls EXCEPT ![p] = @ + 1]
    /\ \/ device /\ Return(p, TRUE)
       \/ ~device /\ Return(p, FALSE)
       \/ ~device /\ ~token[p] /\ Goes(p, "lock") /\ UNCHANGED <<result, lock>>
    /\ UNCHANGED <<device, loaders, token, disturbed>>

LockShared == TRUE         \* mutant: flock is asked for a shared lock

LockFree == lock = None

TakeLock(p) ==
    /\ at[p] = "lock"
    /\ LockFree
    /\ lock' = p
    /\ Goes(p, "check")
    /\ UNCHANGED <<device, loaders, token, result, calls, disturbed>>

(* It cannot be opened, the wait is cancelled, or eight seconds are over.  *)
LockFails(p) ==
    /\ at[p] = "lock"
    /\ Return(p, FALSE)
    /\ UNCHANGED <<device, loaders, token, calls, disturbed>>

NotThere == TRUE           \* mutant: not looked for again under the lock

StillMissing == ~device

FoundUnderLock(p) ==
    /\ at[p] = "check"
    /\ ~StillMissing
    /\ Return(p, TRUE)
    /\ UNCHANGED <<device, loaders, token, calls, disturbed>>

(* runOverlayLoader(), which may also fail to start the child.  Its result *)
(* only changes the wording of an error.                                   *)
StartLoader(p) ==
    /\ at[p] = "check"
    /\ StillMissing
    /\ \/ child' = [child EXCEPT ![p] = "running"] /\ Goes(p, "loader")
       \/ UNCHANGED child /\ Goes(p, "device")
    /\ UNCHANGED <<device, applied, lock, strays, token, result, calls, disturbed>>

LoaderExited(p) ==
    /\ at[p] = "loader"
    /\ child[p] = "exited"
    /\ child' = [child EXCEPT ![p] = "none"]
    /\ Goes(p, "device")
    /\ UNCHANGED <<device, applied, lock, strays, token, result, calls, disturbed>>

(* Cancelled, or six seconds are over: the child is killed, not waited for.*)
LoaderGivenUp(p) ==
    /\ at[p] = "loader"
    /\ child[p] = "running"
    /\ child' = [child EXCEPT ![p] = "none"]
    /\ strays' = strays + 1
    /\ disturbed' = TRUE
    /\ Goes(p, "device")
    /\ UNCHANGED <<device, applied, lock, token, result, calls>>

DeviceFound(p) ==
    /\ at[p] = "device"
    /\ device
    /\ Return(p, TRUE)
    /\ UNCHANGED <<device, loaders, token, calls, disturbed>>

(* Cancelled, or two seconds are over.                                     *)
DeviceGivenUp(p) ==
    /\ at[p] = "device"
    /\ ~device
    /\ Return(p, FALSE)
    /\ disturbed' = (disturbed \/ applied > 0)
    /\ UNCHANGED <<device, loaders, token, calls>>

-----------------------------------------------------------------------------
(* The loader, the kernel, the worker's stop and the end of a process.     *)

LoaderEnds(p) ==
    /\ child[p] = "running"
    /\ child' = [child EXCEPT ![p] = "exited"]
    /\ applied' \in {applied, applied + 1}
    /\ UNCHANGED <<device, lock, at, strays, token, result, calls, disturbed>>

StrayEnds ==
    /\ strays > 0
    /\ strays' = strays - 1
    /\ applied' \in {applied, applied + 1}
    /\ UNCHANGED <<device, lock, at, child, token, result, calls, disturbed>>

DeviceAppears ==
    /\ ~device /\ applied > 0
    /\ device' = TRUE
    /\ UNCHANGED <<applied, lock, at, child, strays, token, result, calls, disturbed>>

CancelCall(p) ==
    /\ token' = [token EXCEPT ![p] = ~@]
    /\ token[p] => at[p] = "idle"
    /\ UNCHANGED <<device, applied, lock, at, child, strays, result, calls, disturbed>>

Dies(p) ==
    /\ Return(p, FALSE)
    /\ strays' = IF child[p] = "running" THEN strays + 1 ELSE strays
    /\ child' = [child EXCEPT ![p] = "none"]
    /\ disturbed' = \/ disturbed
                    \/ at[p] # "idle" /\ (child[p] = "running" \/ applied > 0)
    /\ token' = [token EXCEPT ![p] = FALSE]
    /\ UNCHANGED <<device, applied, calls>>

Step(p) ==
    \/ TakeLock(p) \/ LockFails(p)
    \/ FoundUnderLock(p) \/ StartLoader(p)
    \/ LoaderExited(p) \/ LoaderGivenUp(p)
    \/ DeviceFound(p) \/ DeviceGivenUp(p)

OverlayNext ==
    \/ \E p \in Procs : Call(p) \/ Step(p) \/ LoaderEnds(p) \/ CancelCall(p) \/ Dies(p)
    \/ StrayEnds \/ DeviceAppears

OverlaySpec == OverlayInit /\ [][OverlayNext]_overlayVars

-----------------------------------------------------------------------------
OverlayTypeOK ==
    /\ device \in BOOLEAN /\ disturbed \in BOOLEAN
    /\ applied \in Nat /\ strays \in Nat
    /\ lock \in Procs \cup {None}
    /\ at \in [Procs -> {"idle", "lock", "check", "loader", "device"}]
    /\ child \in [Procs -> {"none", "running", "exited"}]
    /\ token \in [Procs -> BOOLEAN] /\ result \in [Procs -> BOOLEAN]
    /\ calls \in [Procs -> 0..MaxCalls]

(* Whoever is past the lock holds it: at most one process looks, loads and *)
(* waits for the device at a time, and one that has returned holds nothing.*)
HolderAlone ==
    \A p \in Procs : at[p] \in {"check", "loader", "device"} <=> lock = p

(* The overlay is never put in place twice, unless a loader was given up   *)
(* or died with its parent, or the device took longer than the wait.       *)
LoadedOnce == disturbed \/ applied <= 1

(* A call returns true only when the device is there to be opened.         *)
TrueMeansDevice == \A p \in Procs : result[p] => device
=============================================================================
