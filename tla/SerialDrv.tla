----------------------------- MODULE SerialDrv -----------------------------
(***************************************************************************)
(* The life of a USB serial device (usbh_cdc_serial_drv.c and the common   *)
(* chip driver): the library with its reference count, the objects it      *)
(* lists, their count of handles and open ports, the read TRPs, and the    *)
(* reference each object holds on its USB device.  The last put runs       *)
(* __drv_release in the task that made it, outside every lock.             *)
(*                                                                         *)
(* A function is given to usbh_serial_create once: after a destroy its     *)
(* driver data still names the freed object.  usbh_serial_destroy is       *)
(* called once per object and usbh_serial_lib_deinit once per init.        *)
(***************************************************************************)
EXTENDS Naturals, FiniteSets

CONSTANTS
    Devs,      \* USB functions of type USBH_FUNC_USERIAL
    Trps,      \* read TRPs of a device (COMMON_N_TRP)
    MaxOpen    \* bound on handles and on open ports of a device

VARIABLES
    lib,       \* __g_userial_lib: is_lib_init, is_lib_deiniting, ref_cnt
    list,      \* lib_dev_list
    obj,       \* struct usbh_serial of each device
    trp,       \* read TRPs the controller holds
    cb,        \* read TRPs whose callback has found is_removed false
    held,      \* references on the USB device
    finder     \* objects an open has found and not yet counted

serialVars == <<lib, list, obj, trp, cb, held, finder>>

Stages == {"none", "chip", "listed", "up", "unlist", "unlib", "free",
           "freed", "dropped"}   \* freed by the release, or by a failed create

TypeOK ==
    /\ lib \in [init : BOOLEAN, deiniting : BOOLEAN, ref : Nat]
    /\ list \subseteq Devs /\ finder \subseteq Devs
    /\ obj \in [Devs -> [stage : Stages, ref : Nat, removed : BOOLEAN,
                         open : Nat, ports : Nat]]
    /\ trp \in [Devs -> SUBSET Trps] /\ cb \in [Devs -> SUBSET Trps]
    /\ held \in [Devs -> Nat]

NoObj == [stage |-> "none", ref |-> 0, removed |-> FALSE, open |-> 0, ports |-> 0]

Init ==
    /\ lib = [init |-> FALSE, deiniting |-> FALSE, ref |-> 0]
    /\ list = {} /\ finder = {} /\ obj = [d \in Devs |-> NoObj]
    /\ trp = [d \in Devs |-> {}] /\ cb = [d \in Devs |-> {}]
    /\ held = [d \in Devs |-> 0]
-----------------------------------------------------------------------------
\* usbh_serial_lib_init; an initialised library is left as it is.
LibInit ==
    /\ ~lib.init
    /\ lib' = [init |-> TRUE, deiniting |-> FALSE, ref |-> 1]
    /\ UNCHANGED <<list, obj, trp, cb, held, finder>>

\* usb_refcnt_put of the library; __userial_lib_release runs usb_lib_deinit.
LibPut(l) == [l EXCEPT !.ref = @ - 1, !.init = @ /\ l.ref > 1]

\* usbh_serial_lib_deinit
LibDeinit ==
    /\ lib.init /\ ~lib.deiniting
    /\ lib' = LibPut([lib EXCEPT !.deiniting = TRUE])
    /\ UNCHANGED <<list, obj, trp, cb, held, finder>>

\* usbh_serial_create to the end of __serial_chip_init: the object, its port
\* and the read TRPs.  A TRP that cannot be submitted ends it, with the
\* earlier ones left at the controller though their memory is freed.
ChipInit(d) ==
    /\ lib.init /\ ~lib.deiniting /\ obj[d] = NoObj
    /\ \E S \in SUBSET Trps :
         /\ trp' = [trp EXCEPT ![d] = S]
         /\ IF S = Trps
              THEN /\ obj' = [obj EXCEPT ![d].stage = "chip", ![d].ref = 1]
                   /\ held' = [held EXCEPT ![d] = @ + 1]
              ELSE /\ obj' = [obj EXCEPT ![d].stage = "dropped"]
                   /\ UNCHANGED held
    /\ UNCHANGED <<lib, list, cb, finder>>

\* __failed2 and __failed1 of usbh_serial_create: the chip is taken down, the
\* object freed whatever its count (an open may have found it in the list), and
\* the device reference put.
CreateFails(d) ==
    /\ obj' = [obj EXCEPT ![d].stage = "dropped"]
    /\ trp' = [trp EXCEPT ![d] = {}]
    /\ held' = [held EXCEPT ![d] = @ - 1]

\* usb_lib_dev_add, refused when the library has gone meanwhile.
CreateList(d) ==
    /\ obj[d].stage = "chip"
    /\ IF lib.init
         THEN /\ list' = list \cup {d}
              /\ obj' = [obj EXCEPT ![d].stage = "listed"]
              /\ UNCHANGED <<trp, held>>
         ELSE CreateFails(d) /\ UNCHANGED list
    /\ UNCHANGED <<lib, cb, finder>>

\* usb_refcnt_get of the library, refused at zero, and the end of the create.
CreateRef(d) ==
    /\ obj[d].stage = "listed"
    /\ IF lib.ref > 0
         THEN /\ lib' = [lib EXCEPT !.ref = @ + 1]
              /\ obj' = [obj EXCEPT ![d].stage = "up"]
              /\ UNCHANGED <<list, trp, held>>
         ELSE CreateFails(d) /\ list' = list \ {d} /\ UNCHANGED lib
    /\ UNCHANGED <<cb, finder>>
-----------------------------------------------------------------------------
Alive == {d \in Devs : obj[d].stage \in Stages \ {"none", "freed", "dropped"}}

\* usb_refcnt_put of an object o: at zero __drv_release starts.
Put(o) == [o EXCEPT !.ref = @ - 1,
                    !.stage = IF o.ref = 1 THEN "unlist" ELSE @]

\* usbh_serial_destroy
Destroy(d) ==
    /\ obj[d].stage = "up" /\ ~obj[d].removed
    /\ obj' = [obj EXCEPT ![d] = Put([@ EXCEPT !.removed = TRUE])]
    /\ UNCHANGED <<lib, list, trp, cb, held, finder>>

\* usbh_serial_open by name: the object found is counted after the lock of the
\* library is given back.
OpenFind(d) ==
    /\ lib.init /\ ~lib.deiniting /\ d \in list \ finder
    /\ finder' = finder \cup {d}
    /\ UNCHANGED <<lib, list, obj, trp, cb, held>>

\* A get that does not look at the count.
OpenRefAny(d) ==
    /\ d \in finder
    /\ finder' = finder \ {d}
    /\ obj' = IF d \in Alive /\ obj[d].open < MaxOpen
                THEN [obj EXCEPT ![d].ref = @ + 1, ![d].open = @ + 1] ELSE obj
    /\ UNCHANGED <<lib, list, trp, cb, held>>

\* __serial_ref_get: refused when the count is zero.  Of an object freed since
\* the count read is that of freed memory: the handle, if any, counts nothing.
OpenRef(d) ==
    /\ d \in finder
    /\ finder' = finder \ {d}
    /\ obj' = IF d \in Alive /\ obj[d].ref > 0 /\ obj[d].open < MaxOpen
                THEN [obj EXCEPT ![d].ref = @ + 1, ![d].open = @ + 1] ELSE obj
    /\ UNCHANGED <<lib, list, trp, cb, held>>

\* usbh_serial_close
Close(d) ==
    /\ d \in Alive /\ obj[d].open > 0
    /\ obj' = [obj EXCEPT ![d] = Put([obj[d] EXCEPT !.open = obj[d].open - 1])]
    /\ UNCHANGED <<lib, list, trp, cb, held, finder>>

\* usbh_serial_port_open, by the holder of a handle.
PortOpen(d) ==
    /\ d \in Alive /\ obj[d].open > 0 /\ obj[d].ports < MaxOpen
    /\ obj' = [obj EXCEPT ![d].ref = @ + 1, ![d].ports = @ + 1]
    /\ UNCHANGED <<lib, list, trp, cb, held, finder>>

\* usbh_serial_port_close
PortClose(d) ==
    /\ d \in Alive /\ obj[d].ports > 0
    /\ obj' = [obj EXCEPT ![d] = Put([obj[d] EXCEPT !.ports = obj[d].ports - 1])]
    /\ UNCHANGED <<lib, list, trp, cb, held, finder>>
-----------------------------------------------------------------------------
\* __drv_release: usb_lib_dev_del
ReleaseList(d) ==
    /\ obj[d].stage = "unlist"
    /\ list' = list \ {d}
    /\ obj' = [obj EXCEPT ![d].stage = "unlib"]
    /\ UNCHANGED <<lib, trp, cb, held, finder>>

\* ... usb_refcnt_put of the library, before the object is done with it
ReleaseLib(d) ==
    /\ obj[d].stage = "unlib"
    /\ lib' = LibPut(lib)
    /\ obj' = [obj EXCEPT ![d].stage = "free"]
    /\ UNCHANGED <<list, trp, cb, held, finder>>

\* ... the chip, whose read TRPs are cancelled and freed, the object, and the
\* reference on the device.
ReleaseFree(d) ==
    /\ obj[d].stage = "free"
    /\ trp' = [trp EXCEPT ![d] = {}]
    /\ obj' = [obj EXCEPT ![d].stage = "freed"]
    /\ held' = [held EXCEPT ![d] = @ - 1]
    /\ UNCHANGED <<lib, list, cb, finder>>

\* __read_bulk_cb up to the submission: after a destroy the TRP rests.
ReadDone(d, t) ==
    /\ t \in trp[d] /\ d \in Alive
    /\ trp' = [trp EXCEPT ![d] = @ \ {t}]
    /\ cb' = IF obj[d].removed THEN cb ELSE [cb EXCEPT ![d] = @ \cup {t}]
    /\ UNCHANGED <<lib, list, obj, held, finder>>

\* usbh_trp_submit in the callback, refused once the device is ejected.
ReadAgain(d, t) ==
    /\ t \in cb[d]
    /\ cb' = [cb EXCEPT ![d] = @ \ {t}]
    /\ \/ trp' = [trp EXCEPT ![d] = @ \cup {t}]
       \/ UNCHANGED trp
    /\ UNCHANGED <<lib, list, obj, held, finder>>

Next ==
    \/ LibInit \/ LibDeinit
    \/ \E d \in Devs :
        \/ ChipInit(d) \/ CreateList(d) \/ CreateRef(d) \/ Destroy(d)
        \/ OpenFind(d) \/ OpenRef(d) \/ Close(d) \/ PortOpen(d) \/ PortClose(d)
        \/ ReleaseList(d) \/ ReleaseLib(d) \/ ReleaseFree(d)
        \/ \E t \in Trps : ReadDone(d, t) \/ ReadAgain(d, t)

Spec == Init /\ [][Next]_serialVars
-----------------------------------------------------------------------------
\* The objects that hold a reference on the library.
InLib == {d \in Devs : obj[d].stage \in {"up", "unlist", "unlib"}}

\* The count of an object is that of its creator, its handles and its open
\* ports: no handle or port is left when its release has begun.  (An object that
\* a failed create drops may leave a handle that was opened meanwhile.)
ObjCounted ==
    \A d \in Devs :
        /\ d \in Alive =>
             obj[d].ref = (IF obj[d].removed THEN 0 ELSE 1) + obj[d].open + obj[d].ports
        /\ obj[d].stage \in {"unlist", "unlib", "free", "freed"} =>
             obj[d].open + obj[d].ports = 0

\* The count of the library is that of its user and of its objects, and it is
\* initialised exactly while it has one.
LibCounted ==
    /\ lib.ref = Cardinality(InLib) + (IF lib.init /\ ~lib.deiniting THEN 1 ELSE 0)
    /\ lib.init <=> lib.ref > 0

\* Each object holds one reference on its device as long as it lives.
DevCounted == \A d \in Devs : held[d] = IF d \in Alive THEN 1 ELSE 0

\* Whatever the order of creations, opens, closes, removals and the end of the
\* library, every count says who still uses what (:199-233, :452-574, :881-1027).
CountsExact == ObjCounted /\ LibCounted /\ DevCounted
=============================================================================
