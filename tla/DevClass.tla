----------------------------- MODULE DevClass -----------------------------
(***************************************************************************)
(* The classes of the device side (virtual serial port, printer, HID,      *)
(* WCID, mass storage): a class device is created by calls of which each   *)
(* may fail, and is destroyed.                                             *)
(*                                                                         *)
(* What usbd_dev_create and the calls on the device keep (DevBuild) goes   *)
(* with the device: "dev" stands for all of it.                            *)
(***************************************************************************)
EXTENDS Naturals, Sequences

CONSTANTS Classes, NPorts

VARIABLES
    class,      \* the class of the device
    at,         \* "none", "create", "made" or "failed"
    done,       \* how many calls of the creation have succeeded
    held,       \* what has been allocated and not freed
    ret         \* what the last creation returned

classVars == <<class, at, done, held, ret>>

\* The calls of a creation, each named for what it allocates.
Config == <<"cfg", "func", "pipe in", "pipe out">>

\* usbd_cdc_vs_create: the ring buffer, functions and pipes of each port.  What is
\* allocated is told apart by its port, 0 if it is not of a port.
PortCalls == <<"rb", "func", "pipe cmd", "pipe in", "pipe out">>
Rb(i) == <<"rb", i>>
VsCalls(k) == IF k <= 4 THEN <<<<"struct", "ports", "dev", "cfg">>[k], 0>>
              ELSE <<PortCalls[((k - 5) % 5) + 1], ((k - 5) \div 5) + 1>>
\* usbd_virtual_printer_create
VpCalls == <<"struct", "buf", "id", "lock", "dev">> \o Config
\* usbd_hid_create
HidCalls == <<"struct", "dev">> \o Config
\* usbd_wcid_create
WcidCalls == <<"struct", "dev">> \o Config
\* usbd_ms_create
MsCalls == <<"struct", "buf", "lock", "dev">> \o Config

Names == CASE class = "vp" -> VpCalls [] class = "hid" -> HidCalls
           [] class = "wcid" -> WcidCalls [] class = "ms" -> MsCalls

\* What the k-th call of the creation allocates, and how many there are.
Gets(k) == IF class = "vs" THEN VsCalls(k) ELSE <<Names[k], 0>>
NCalls == IF class = "vs" THEN 4 + 5 * NPorts ELSE Len(Names)

\* What the functions of the device (func, cfg, pipe) keep is the device's.
InDev == {"cfg", "func", "pipe in", "pipe out", "pipe cmd"}

\* The ports that usbd_cdc_vs_create has finished: n_ports.
PortsDone == IF done < 4 THEN 0 ELSE (done - 4) \div 5

Own(names) == names \X {0}

\* Mutant of VsUndo: the ring buffers go before n_ports counts them.
VsUndoNone == Own({"struct", "ports", "dev"})

\* What the failing exits free: __failed2 and __failed1.
VsUndo == Own({"struct", "ports", "dev"}) \cup {Rb(i) : i \in 1 .. PortsDone}
VpUndo == Own({"struct", "buf", "id", "lock", "dev"})
HidUndo == Own({"struct", "dev"})
WcidUndo == Own({"struct", "dev"})
MsUndo == Own({"struct", "buf", "lock", "dev"})
Undo == CASE class = "vs" -> VsUndo [] class = "vp" -> VpUndo [] class = "hid" -> HidUndo
          [] class = "wcid" -> WcidUndo [] class = "ms" -> MsUndo

\* The same in the destroying functions, once usbd_dev_destroy has succeeded.
VsFreed == Own({"struct", "ports", "dev"}) \cup {Rb(i) : i \in 1 .. NPorts}
VpFreed == Own({"struct", "buf", "id", "lock", "dev"})
HidFreed == Own({"struct", "dev"})
WcidFreed == Own({"struct", "dev"})
MsFreed == Own({"struct", "buf", "lock", "dev"})
Freed == CASE class = "vs" -> VsFreed [] class = "vp" -> VpFreed [] class = "hid" -> HidFreed
           [] class = "wcid" -> WcidFreed [] class = "ms" -> MsFreed

Init ==
    /\ class \in Classes /\ at = "none" /\ done = 0 /\ held = {}
    /\ ret = "OK"
-----------------------------------------------------------------------------
Create ==
    /\ at = "none" /\ at' = "create"
    /\ done' = 0
    /\ UNCHANGED <<class, held, ret>>

\* The next call of the creation succeeds; after the last, the device is made.
CallOk ==
    /\ at = "create"
    /\ held' = IF Gets(done + 1)[1] \in InDev THEN held ELSE held \cup {Gets(done + 1)}
    /\ done' = done + 1
    /\ at' = IF done + 1 = NCalls THEN "made" ELSE "create"
    /\ ret' = IF done + 1 = NCalls THEN "OK" ELSE ret
    /\ UNCHANGED class

\* It fails.  The failure of usb_lib_rb_create leaves ret as the call before set it.
CallFails ==
    /\ at = "create"
    /\ ret' = IF Gets(done + 1)[1] = "rb" THEN "OK" ELSE "error"
    /\ held' = held \ Undo
    /\ at' = "failed"
    /\ UNCHANGED <<class, done>>

\* The application tries again once it has forgotten the first try.
Retry ==
    /\ at = "failed" /\ held = {}
    /\ at' = "none" /\ done' = 0 /\ UNCHANGED <<class, held, ret>>

\* usbd_dev_destroy stops the device, which shuts its functions down, and may
\* fail: then nothing more is done.
Destroy(ok) ==
    /\ at = "made"
    /\ held' = IF ok THEN held \ Freed ELSE held
    /\ at' = IF ok THEN "none" ELSE at
    /\ UNCHANGED <<class, done, ret>>

Next == Create \/ CallOk \/ CallFails \/ Retry \/ \E ok \in BOOLEAN : Destroy(ok)

Spec == Init /\ [][Next]_classVars
-----------------------------------------------------------------------------
(* Properties                                                              *)

TypeOK ==
    /\ class \in Classes /\ at \in {"none", "create", "made", "failed"}
    /\ done \in 0 .. NCalls /\ ret \in {"OK", "error"}

\* A creation that has failed, at whichever call, keeps nothing but the ring
\* buffer of the port it was at (usbd_cdc_virtual_serial.c:393, :404), and a
\* device that is destroyed leaves nothing.
CreateBalanced ==
    /\ at = "failed" =>
         held \subseteq (IF class = "vs" /\ done >= 4 THEN {Rb(PortsDone + 1)} ELSE {})
    /\ at = "none" => held = {}
=============================================================================
