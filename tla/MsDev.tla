------------------------------- MODULE MsDev -------------------------------
(***************************************************************************)
(* The life of a host mass storage device and of its logical units         *)
(* (usbh_ms_drv.c): creation in steps that may fail, handles on the device *)
(* and on its units, removal, and the library that lists the devices.      *)
(* The transport of a command is left to MsBot.                            *)
(***************************************************************************)
EXTENDS Naturals, FiniteSets

CONSTANTS
    Lus,        \* numbers of units the device reports: 0 .. n_lu - 1
    MaxHandles  \* bound on the handles open at a time

VARIABLES
    lib,        \* the library: [init, deiniting, ref]
    at,         \* the object: "none", "init", "list", "count", "up", "freed"
    ref,        \* p_ms->ref_cnt
    removed,    \* p_ms->is_removed
    listed,     \* p_ms is on the list of the library
    ready,      \* the units with is_init
    bufs,       \* the units with p_buf
    next,       \* the unit __ms_init is at
    devs,       \* handles on the device
    lus,        \* handles on each unit
    finder,     \* usbh_ms_open has found p_ms and not yet counted it
    devRef,     \* references on the USB device
    fault       \* freed memory has been used

msDevVars == <<lib, at, ref, removed, listed, ready, bufs, next, devs, lus, finder, devRef, fault>>

NLu == Cardinality(ready)
Handles == devs + Cardinality(lus)

Init ==
    /\ lib = [init |-> FALSE, deiniting |-> FALSE, ref |-> 0]
    /\ at = "none" /\ ref = 0 /\ removed = FALSE /\ listed = FALSE
    /\ ready = {} /\ bufs = {} /\ next = 0 /\ devs = 0 /\ lus = {}
    /\ finder = FALSE /\ devRef = 0 /\ fault = FALSE
-----------------------------------------------------------------------------
\* usbh_ms_lib_init: what is initialised stays as it is.
LibInit ==
    /\ ~lib.init
    /\ lib' = [init |-> TRUE, deiniting |-> FALSE, ref |-> 1]
    /\ UNCHANGED <<at, ref, removed, listed, ready, bufs, next, devs, lus, finder, devRef, fault>>

\* usbh_ms_lib_deinit and __ums_lib_release.  A device takes a reference and
\* never gives it back: after the first device the library stays.
LibDeinit ==
    /\ lib.init /\ ~lib.deiniting
    /\ lib' = IF lib.ref = 1 THEN [init |-> FALSE, deiniting |-> TRUE, ref |-> 0]
                             ELSE [lib EXCEPT !.deiniting = TRUE, !.ref = @ - 1]
    /\ UNCHANGED <<at, ref, removed, listed, ready, bufs, next, devs, lus, finder, devRef, fault>>

\* usbh_ms_create up to __ms_init, which makes the object with one reference.
Create ==
    /\ lib.init /\ ~lib.deiniting /\ at = "none"
    /\ at' = "init" /\ ref' = 1 /\ next' = 0 /\ devRef' = devRef + 1
    /\ UNCHANGED <<lib, removed, listed, ready, bufs, devs, lus, finder, fault>>

\* __ms_deinit and the end of a failing create: the buffers of the first NLu.
Undo ==
    /\ at' = "freed" /\ devRef' = devRef - 1
    /\ bufs' = bufs \ {i \in Lus : i < NLu} /\ ref' = 0

\* __ms_init for one unit: the medium may not be ready, and then the unit is
\* passed over; an allocation that fails ends the creation.
InitLu(ok) ==
    /\ at = "init" /\ next \in Lus
    /\ next' = next + 1
    /\ IF ok THEN ready' = ready \cup {next} /\ bufs' = bufs \cup {next}
             ELSE UNCHANGED <<ready, bufs>>
    /\ UNCHANGED <<lib, at, ref, removed, listed, devs, lus, finder, devRef, fault>>

InitFails ==
    /\ at = "init" /\ Undo
    /\ UNCHANGED <<lib, removed, listed, ready, next, devs, lus, finder, fault>>

\* usb_lib_dev_add
CreateList ==
    /\ at = "init" /\ next \notin Lus
    /\ IF lib.init THEN at' = "list" /\ listed' = TRUE /\ UNCHANGED <<ref, bufs, devRef>>
                   ELSE Undo /\ UNCHANGED listed
    /\ UNCHANGED <<lib, removed, ready, next, devs, lus, finder, fault>>

\* usb_refcnt_get of the library, and the data of the function.
CreateCount ==
    /\ at = "list"
    /\ IF lib.ref > 0
       THEN lib' = [lib EXCEPT !.ref = @ + 1] /\ at' = "up" /\ UNCHANGED <<listed, ref, bufs, devRef, fault>>
       ELSE Undo /\ listed' = FALSE /\ fault' = (fault \/ Handles > 0) /\ UNCHANGED lib
    /\ UNCHANGED <<removed, ready, next, devs, lus, finder>>

\* __ms_ref_put: at zero __ms_release takes the object off the list and frees it.
\* The reference of the USB device is given back through freed memory.
Put ==
    IF ref > 1 THEN ref' = ref - 1 /\ UNCHANGED <<listed, at, bufs, devRef>>
               ELSE Undo /\ listed' = FALSE

\* usbh_ms_destory, once, when the function has gone.
Destroy ==
    /\ at = "up" /\ ~removed
    /\ removed' = TRUE /\ Put
    /\ UNCHANGED <<lib, ready, next, devs, lus, finder, fault>>

\* usbh_ms_open finds the object under the lock of the library ...
OpenFind ==
    /\ lib.init /\ ~lib.deiniting /\ listed /\ ~finder /\ Handles < MaxHandles
    /\ finder' = TRUE
    /\ UNCHANGED <<lib, at, ref, removed, listed, ready, bufs, next, devs, lus, devRef, fault>>

\* ... and counts it after: it may have been freed.
OpenRef ==
    /\ finder /\ finder' = FALSE
    /\ IF at = "freed" THEN fault' = TRUE /\ UNCHANGED <<ref, devs>>
                       ELSE ref' = ref + 1 /\ devs' = devs + 1 /\ UNCHANGED fault
    /\ UNCHANGED <<lib, at, removed, listed, ready, bufs, next, lus, devRef>>

\* usbh_ms_close
Close ==
    /\ devs > 0 /\ devs' = devs - 1 /\ Put
    /\ UNCHANGED <<lib, removed, ready, next, lus, finder, fault>>

\* Mutant of LuOpen: without a reference of its own.
LuOpenBare(i) ==
    /\ devs > 0 /\ ~removed /\ i < NLu /\ i \in ready \ lus
    /\ lus' = lus \cup {i} /\ UNCHANGED ref
    /\ UNCHANGED <<lib, at, removed, listed, ready, bufs, next, devs, finder, devRef, fault>>

\* usbh_ms_lu_open, by the holder of a handle on the device: the number is
\* compared with the number of units that are ready.
LuOpen(i) ==
    /\ devs > 0 /\ ~removed /\ i < NLu /\ i \in ready \ lus /\ Handles < MaxHandles
    /\ lus' = lus \cup {i} /\ ref' = ref + 1
    /\ UNCHANGED <<lib, at, removed, listed, ready, bufs, next, devs, finder, devRef, fault>>

\* usbh_ms_lu_close, whether or not the device is still open.
LuClose(i) ==
    /\ i \in lus /\ lus' = lus \ {i} /\ Put
    /\ UNCHANGED <<lib, removed, ready, next, devs, finder, fault>>

\* After freed memory has been used anything may happen: nothing more is said.
Next ==
    /\ ~fault
    /\ \/ LibInit \/ LibDeinit \/ Create \/ InitFails \/ CreateList \/ CreateCount
       \/ Destroy \/ OpenFind \/ OpenRef \/ Close
       \/ \E ok \in BOOLEAN : InitLu(ok)
       \/ \E i \in Lus : LuOpen(i) \/ LuClose(i)

Spec == Init /\ [][Next]_msDevVars
-----------------------------------------------------------------------------
(* Properties                                                              *)

TypeOK ==
    /\ at \in {"none", "init", "list", "up", "freed"} /\ ref \in 0 .. MaxHandles + 2
    /\ ready \subseteq Lus /\ bufs \subseteq Lus /\ next \in 0 .. Cardinality(Lus)
    /\ devs \in 0 .. MaxHandles /\ lus \subseteq Lus /\ devRef \in 0 .. 1

\* Every handle counts: an object with a handle on it or on one of its units is
\* there with its buffers, also after the removal and after the device handle
\* is closed, and without one it goes with the removal (usbh_ms_drv.c:960-1020).
HandlesCount ==
    ~fault =>
        /\ at \in {"list", "up"} => ref = (IF removed THEN 0 ELSE 1) + Handles
        /\ Handles > 0 => at \in {"list", "up"} /\ lus \subseteq bufs
        /\ at = "freed" => devRef = 0 /\ ~listed
=============================================================================
