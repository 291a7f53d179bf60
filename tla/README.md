# Formal models of the c_usb stack

TLA+ models of the USB host and device stack in `src/`, the TLC configurations
that check them, and TLAPS proofs. File names below are relative to
`src/core/source/` unless they start with `src/`; E, X and R are `usbh_ehci.c`,
`usbh_ehci_xfer.c` and `usbh_ehci_rh.c` in `host/controller/ehci/`, D, N and C are
`usbh_dev.c`, `usbh_dev_enum.c` and `usbh_core.c` in `host/core/`; other files are named
without their directory where the name is unique.

    tlc -config EhciXfer.cfg MCEhciXfer      # about half a minute
    tlc -config HostPort.cfg HostPort        # about a minute
    tlc -config Parts.cfg MCParts            # about two minutes
    tlapm EhciXferProofs.tla                 # and the other *Proofs modules, about an hour

## 1. Inventory

The stack is C, without tests or a manual; its comments (in Chinese) are the only
statement of intent. It is built with or without an operating system
(`USB_OS_EN`). The models are of the build with one: without it
`usbh_trp_sync_xfer_wait` (E:185) has no body.

| Component | State | Operations | What is hard | What makes it correct | Module |
|---|---|---|---|---|---|
| **EHCI transfer engine** (E, X) | QH states, `async_count`, `intr_count`, `trp_done_list`, two mutexes | request, cancel, endpoint disable, `qh_handle`, scans, delivery | three kinds of task deliver; callbacks submit; mutexes time out | each TRP delivered once per submission, cancel lets go of it, none stranded, no freed QH scanned | EhciXfer |
| its **queues** (X, `usbh_ehci_mem.c`, `src/common/pool`) | qTD pool, chains, overlay | make, link, take off, free | the hardware runs the chain while it is edited | every qTD in one place, the hardware on queued ones only | EhciQtd |
| its **frame list** (X:1204-1600) | QHs with one next pointer in many lists | link, unlink | lists share tails | what is linked is reached, nothing else | EhciPeriod |
| **isochronous streams** (X:1667-3220) | iTDs, references, frame counters | schedule, link, scan, release | circular time | references even, frames apart | EhciIso |
| **Synchronous transfers** (D:554, E:168) | a TRP on the stack, a semaphore per endpoint | submit, wait, cancel, wait again | the time-out races the completion | no dead stack frame on a list, no token left | SyncXfer |
| **EHCI events, root hub** (E:90-1104, R) | `evt`, `status`, semaphore, mask, port states | give, take, `irq_handle`, task, port handling | interrupt against task | no event lost while it is masked | HostPort |
| **Host core, devices, hub events, enumeration** (C, D, N) | address bitmap, device list, hub event list, references | connect, enumerate, inject, eject, release | retries, partial failure, replug | addresses and references owned, every event handled | HostPort |
| **Host configuration** (N, D) | interfaces, functions, endpoint table | parse, group, switch a setting, free | what a device claims | one function per interface, no freed endpoint in the table | HostCfg |
| **Device monitor** | monitors, jobs, library count | register, notify, deregister | registration against injection | no device missed | DevMonitor |
| **Hub driver** | status TRP, port states | callback, handle, port events, start, stop | changes while they are cleared | polled as long as it runs, no stale device | HubDrv |
| **Mass storage** (host and device) | phases of a command; units and handles | command, stall, reset, retry; open, close, remove | host out of step with device | own status and own data; counts | MsBot, MsDev, MsUnits |
| **Serial host class** | library, devices, handles, ports, TRPs | probe, open, close, remove | release outside locks | counts of everything | SerialDrv |
| **Network class** | receive TRPs and buffer | start, process, stop, callbacks, read | stop against callbacks | each TRP on one list, bytes in order | NetRx, NetRing |
| **HID host class** | report parser | scan, parse | nesting | nested descriptors only | HidReport |
| **Audio class** | formats, parameters, buffer, TRPs | parse, refine, prepare, trigger, write, callback | wrapping pointers | what is played is what was written | UacFormats, UacRule, UacRate, UacPcm, UacLife |
| **Video class** | formats, entities, controls, TRPs, frames | parse, chain, set, start, decode, stop | callbacks against stop, lost packets | whole frames, kept settings, quiet after stop | UvcParse, UvcChain, UvcField, UvcCtrl, UvcStream, UvcDecode |
| **Device core** (`usbd_core.c`, `usbd_dev.c`) | endpoint 0, configuration, pipes, descriptors | set-up, completion, reset, transfers, building | a reset in any stage | endpoint 0 always takes the next set-up | DevCtrl, DevPipe, DevBuild |
| **Device classes** | ports, identity, class devices | create, start, read, requests | failures half way, resubmission | nothing left behind, bytes once | DevClass, VsPort, VpPrinter |
| **Library base, ring buffer** (`usb_lib.c`) | device list, ring buffer | add, delete, traverse; put, get | limits, a kept place | FIFO order, each device once | LibList, RingBuf |
| **Adapters** (`src/adapter`) | none: weak stubs | OS, memory, register access | | external | |

Interaction: class drivers and the enumerator call `usbh_trp_submit`, `_cancel` and
`_sync_xfer` (D), which take the device's mutex, then the controller's (`usbh_core.c`),
then the driver's (E). The controller interrupts; `irq_handle` wakes the EHCI task,
which scans the schedules under the driver's mutex, collects finished TRPs on
`trp_done_list` and calls their `p_fn_done` under `p_trp_done_lock`. A cancellation
delivers in the same way, in its caller's context. Callbacks give semaphores, submit
again or queue hub events for the hub thread, which enumerates. On the device side the
application calls the class devices, which call `usbd_dev.c`, which calls the controller's
driver through `usbd_core.c`; that driver, not part of the repository, calls back with
set-ups, completions, resets and disconnections.

The components with their status, and the hazards with their lines, are listed in
`PROJECT.json`.

## 2. Plan

Done: the engine, the synchronous transfers over it, and the path from a port to a
device, with their proofs; then the other components, one module each, from the
controller outwards.

Left, in this order:

1. Suspend and resume of the controller (E:230-420) over EhciXfer, and siTDs, which the
   code does not finish (`__sitd_trp_link` starts from a null siTD).
2. An abstract specification of HostPort: a port is empty, connecting or holds one
   device with one address, and a device is used only between its injection and its
   last reference; HostPort shown to implement it while no replug outruns its event.
3. The shared `p_ctrl` of control transfers in SyncXfer (D:644).
4. The interrupt side of HostPort as the implementation of EhciXfer's flag `irq`.
5. The life of a camera (`usbh_vc_drv.c`), the requests of a hub's ports, sending in
   `usbh_net.c`, the SCSI commands of `usbd_ms_scsi_bbb.c`.

Theorems left: the playback buffer (`UacPcm`), the iTDs of a stream (`EhciIso`), and
`PartsTypeOK` of the parts whose types are not yet in an inductive invariant.

## 3. The modules

### EhciXfer

State: the owners of the three mutexes (`hcLock` is `p_hc->p_lock`, with the device's
mutex, always taken just before it, merged in; `lock` is `p_ehci->p_lock`; `doneLock`
is `p_trp_done_lock`), per endpoint the QH state `st`, its TRPs `queue`, its halt bit
and `xact_errs`; per TRP how many qTDs are left, how many of those the hardware has
retired and how the next one stopped; the done list; the counters; where each task
is (`pc`), the frame of the one `qh_handle` that can be running (`scan`), the QHs the
current scan has still to visit, and per task the TRP it cancels and the one whose
callback it runs.

| Action | Code |
|---|---|
| `Submit`, `SubmitFail`, `Request` | `usbh_trp_submit` D:436, `__ehci_xfer_request` E:576, `async_link` X:652, `intr_req` X:1511 |
| `CancelBegin` | `__ehci_xfer_cancel` E:676 up to its `qh_handle` |
| `EpDisable`, `DisableEnd` | `__ehci_ep_disable` E:492 |
| `WorkBegin`, `WorkNext`, `ScanEnd` | `usbh_ehci_work` E:950, `async_scan` X:1076, `intr_scan` X:1601 |
| `HandleRetry`, `HandleQtd`, `HandleTrp`, `HandleEnd` | one qTD of `usbh_ehci_qh_handle` X:777, with `__ehci_trp_done` X:79 |
| `DrainBegin`, `DrainOne`, `CbReturn`, `CbResubmit`, `DrainEnd` | `__ehci_trp_done_handle` E:202, `usbh_trp_done` |
| `HandleTrpTimeout`, `DrainTimeout`, `CbTimeout` | the mutex time-outs X:88, E:211, D:451 |
| `HwRetire`, `HwStop` | the controller (external) |

Grain: a region that only needs locks it can take at once is one step. The loops of
`qh_handle` and of the delivery take one step per qTD and per TRP, since the hardware
resp. other tasks run between two of them. A mutex time-out (5 s) is only possible in
a cycle of waits (`LockCycle`): a task that merely queues for a mutex is assumed to get
it in time. Mutexes are recursive, which `__period_intr_link` (X:1390, called with
the same mutex held) needs to work at all.

Abstractions: lengths, tokens and addresses of qTDs; errors other than a halt are one
status; the retry limit is `MaxXact` instead of 32; the frame list is the number of
slots an interrupt QH is in (`NSlots`); a refusal of `intr_req` or of a pool is the
choice `SubmitFail`; the event and interrupt of the task are one flag `irq`;
`usbh_ehci_guard_work`, which nothing in `src/` calls, is left out.

### SyncXfer

Composes `usbh_trp_sync_xfer` with the engine (it EXTENDS EhciXfer): every TRP is the
stack TRP of one user, whose call is in `call`, and `sem` holds the tokens of each
endpoint. Each call step that enters the engine is an engine action with the caller's
control point; `Quietly` has the engine steps in which no call takes part. A time-out
may fire whenever there is no token, which covers every length of the time-out.

### HostPort

From the root hub's port to the device object. Per controller: the hardware's `port`
(PORTSC), the address the plugged device answers to, `sts` (USBSTS) and whether the
driver has `masked` the interrupt; the driver's `status`, `evt`, `p_sem` and `p_psta`, and
where its EHCI task is. Shared: `hub_evt_list` with `p_hub_evt_sem`, the hub thread `thr`
(its place, the event it handles, the PORTSC it read, its loop counters, the device and
the address in hand), the devices, the ports' `p_ports`, the address bitmaps `map`, and
the device each user holds a reference to.

| Action | Code |
|---|---|
| `IrqHandle` | `usbh_ehci_irq_handle` E:1079 |
| `TaskTake`, `TaskReadEvt`, `TaskClearEvt` | `__evt_take` E:101, one step per access |
| `TaskReadStatus`, `TaskClearStatus`, `TaskUnmask` | `__ehci_task` E:1012-1032 |
| `TaskPortChange`, `TaskEvtAdd`, `TaskEvtGive` | `usbh_ehci_rh_port_change` R:21, `usbh_hub_evt_add` D:1290: test, list, token |
| `ThreadTake`, `ThreadNext` | `usbh_hub_evt_process` D:1365 |
| `RhRead`, `RhClearCsc`, `RhDebounce`, `RhClearPec` | `usbh_ehci_rh_handle` R:267, with `__dev_create` D:838 |
| `ResetBegin`, `ResetEnd` | `usbh_ehci_rh_reset` R:360, `feature_set` R:114, `feature_clr` R:179 |
| `DescOk`, `DescFail`, `DescBad` | `usbh_dev_enumerate` N:814 to its second reset |
| `AddrAlloc`, `SetAddrOk`, `SetAddrFail` | `__dev_addr_alloc_set` N:167, `usb_hc_dev_addr_alloc`, `_free` C:846 |
| `CfgOk`, `CfgFail` | the rest of `usbh_dev_enumerate` N:955 |
| `ConnectRetry`, `Inject` | `usbh_basic_hub_dev_connect` D:1082, `__dev_inject` D:975 |
| `Disconnect`, `EjectPutFun`, `DisconnectPut`, `UserPut` | `usbh_basic_hub_dev_disconnect` D:1179, `__dev_eject` D:1023, `usbh_dev_ref_put` |
| `Plug`, `Unplug`, `PortError`, `RaiseInt` | the hardware (external) |

Grain: every access to a variable that another task or the interrupt handler touches
outside a common lock is a step of its own; the handler is one step, since the mask it
sets first keeps everything else away (proved, section 5). A read-modify-write of PORTSC
is one step, and so are two resets with nothing between them that matters; a reset that
does not enable the port writes PORTSC once more (R:411), with the same effect as
`ResetEnd`. Writing PORTSC back clears all its change bits (`WriteBack`): a plug or
unplug that happens before a reset's write is lost to the next event, as in the code.

A control request may fail at any time, and succeeds only if the device is plugged in,
enabled and listens at the address in its object. So an attempt after one that set the
address and then failed cannot succeed: the object keeps the address (nothing resets
`p_usb_dev->addr`), the device loses it in the reset.

Abstractions: one port per controller (R:38 reads the first PORTSC for every port, and
R:139 adds the port number as a byte offset); devices have one function, and users take
their reference in its notification; the semaphores count; speed, over-current, suspend,
reset time-outs, mutex time-outs and failures of an allocation or of an endpoint's reset
are left out. The bitmap is larger than the number of devices (`MaxDev < MaxAddr`); at its
limit `usb_hc_dev_addr_alloc` returns USB_OK without an address (C:875-879).

### RingBuf and ByteFifo

`Put` and `Get` are `usb_lib_rb_put` (`usb_lib.c`:180) and `usb_lib_rb_get` (:253), with
their two copies and wraps; each runs under one mutex and is one step. The memory is
as it was allocated. `ByteFifo` is the abstract queue of bytes. Its `Overrun` is the
one deviation RingBuf has: a put that does not fit may leave the queue empty. When
`rd_pos` is after `data_pos` it copies `rd_pos - data_pos` bytes (`usb_lib.c`:195), one more than
the limit it has just tested: the positions meet, and the full buffer reads as empty
although the put reported its bytes as stored. `__vs_trans_done` (virtual serial port)
puts whatever arrives.

### The parts and MCParts

The other components each have a module that can be used alone (`Spec` and its
properties are in it). For TLC they are put together in `MCParts`: its variable `part`
is chosen in the initial state and never changes, and the modules are instanced over
the variables `x1`, `x2`, ..., which stand for those of the part. So a behaviour of
`PartsSpec` is a behaviour of one component, and a property such as `LifeSafe` says of
each part what the part's own module states. The parts do not interact in this
composition: where a module needs another's behaviour, it has the calls in it.

Each module starts with a comment that says what it is a model of and what is taken for
granted; `PROJECT.json` maps every definition to its lines. The actions are the code's
calls, callbacks and requests; a call is one step where it holds its lock throughout,
and several where other tasks, callbacks or the hardware run between.

| Module | Code | Its actions | Left out or assumed |
|---|---|---|---|
| `EhciQtd` | `usb_pool.c`, `usbh_ehci_mem.c`, X:412-900 | `Enable`, `Submit`, `SubmitNoMem`, `SubmitNoRoom`; `Scan` or `Unlink` and then `Look`, `LookRetry`, `Cut`, `LookEnd`, `QhFree` of one `qh_handle`; the controller's `HwLoad`, `HwDone` | one QH; control transfers; the schedules and what TRPs are told (EhciXfer); the controller leaves an unlinked QH at once |
| `EhciPeriod` | X:1204-1600, E:528 | `EpEnable`, `IntrReq`, `IntrCancel`, `EpDisable` | iTDs among the QHs; `p_shadow`, never filled |
| `EhciIso` | X:1667-3222 | `Enable`, `Disable`, `Request`, `Refuse`, `Scan`, `Deliver`; the controller's `Execute`, `Tick` | siTDs, buffer pages, what a packet reports |
| `HostCfg` | N:208-744, D:340-970, N:1164-1281 | parsing (`CfgInit`, `OwnEps`, `Assoc`, `Rest`), `IntfSet`, endpoint resets, `Release`, `Unenumerate`, `DevDestroy` | text of strings |
| `DevMonitor` | `usbh_dev_monitor.c`, D:991-1050 | `Register`, `List`, `Found`, `Chk`, `Job`, `Deregister`, `Freed`, `Inject`, `Eject` | failures of a mutex |
| `HubDrv` | `usbh_hub_drv.c`, D:1082-1214, D:1365 | `IntrDone`, `HubEvt`, `HandleBegin`, the port steps, `Resubmit`, `HandleEnd`, `Start`, `StopCancel`, `StopDone`; `Plug`, `Unplug` | port reset, power and hub descriptor as one outcome |
| `MsBot` | `usbh_ms_drv.c`:426-588, `usbd_ms_scsi_bbb.c` | the host's phases, the device's phases, time-outs and recovery of both, transfers piece by piece | contents of commands; one unit |
| `MsDev` | `usbh_ms_drv.c`:95-1020, 1378-1615 | library, creation in steps, handles, removal | the transport (MsBot) |
| `MsUnits` | `usbd_ms.c`, `usbd_ms_scsi_bbb.c`:48-141, 1196-1241 | add and delete a unit, process, shutdown | the data of a command |
| `SerialDrv` | `usbh_cdc_serial_drv.c`, `usbh_cdc_serial_common.c` | library, create, destroy, open, close, port open and close, the release in steps, the read callback | chips, modes; calls are made once (its header) |
| `NetRx`, `NetRing` | `usbh_net.c` | start, process, stop in steps, completion and callback, halt; put and read of the buffer | sending; the life of the device |
| `HidReport` | `usbh_hid_report.c` | `Scan`, `Item` (one per kind), `End` | the driver, unfinished in the code |
| `UacFormats`, `UacRule`, `UacRate` | `uac_stream.c`, `uac_format.c`, `uac_hw_rule.c`, `uac_endpoint.c` | parsing a setting; one rule or one pick; one packet | clock entities, the synchronisation endpoint |
| `UacPcm`, `UacLife` | `uac_pcm.c`, `usbh_uac_operation.c`, `uac_endpoint.c` | prepare, write in steps, start, stop, the callback; open, set, close in any order | capture; positions' time stamps |
| `UvcParse`, `UvcChain` | `usbh_vc_stream.c`, `usbh_vc_drv.c`, `usbh_vc_entity.c` | the two passes over the descriptors; parse, scan of one entity, registration | what the formats say |
| `UvcField`, `UvcCtrl` | `usbh_vc_ctrl.c` | set of a field; initialisation, get, set, free of the controls of a device | |
| `UvcStream`, `UvcDecode` | `usbh_vc_stream.c`, `usbh_vc_video.c`, `usbh_vc_queue.c` | the calls of a user with the wait for TRPs, completion, removal; a TRP's packets, get and put of a frame | negotiation, bulk cameras |
| `DevCtrl` | `usbd_core.c`, `usbd_dev.c`:1365-2382 | `Setup` by kind of request, `StageDone`, `BusReset`, `Disconnect`, `Start` | the controller's driver is external: it completes what it accepts |
| `DevPipe` | `usbd_core.c`:328-752, `usbd_dev.c`:1365-1523 | `usbd_dev_trans_sync` in steps, completion, halt, enable, disable | the same |
| `DevBuild` | `usbd_dev.c`:40-1243, 1430-1721 | every call that builds a device, with its failures | text of strings |
| `DevClass` | creation and destruction of the five classes | `Create`, one call of it succeeding or failing, undo, `Destroy` | what `usbd_dev.c` keeps (DevBuild) |
| `VsPort`, `VpPrinter` | `usbd_cdc_virtual_serial.c`, `usbd_virtual_printer.c` | set, shutdown, start, completion, read; identity set and asked for in halves | |
| `LibList` | `usb_lib.c`:476-698 | initialise, add, delete, traverse, reset | the debugging counters |

Some properties carry a condition, because the code does not keep them without it. The
condition is then a named operator or a ghost with a comment that gives the line: for
example `EhciQtd!PutBack` (X:878), `EhciIso!misplaced` (X:2462), `EhciPeriod!Trees` (X:285),
`HubDrv!deaf` and `wiped`, `UacPcm!fault`, `MsDev!fault`, `LibList!fault`, `UvcChain!Apart`.
What they stand for is listed at the end of section 6.

## 4. The runs

| Run | Instance | Shows |
|---|---|---|
| `ehci_xfer` | bulk endpoint with 2 TRPs, interrupt endpoint with 1 in 2 slots, 2 users, 2 qTDs, all faults; 578 thousand states up to symmetry | the safety of the engine without resubmission |
| `ehci_xfer_live` | one TRP of one qTD on each endpoint, 1 user | `FinishedDelivered` |
| `ehci_xfer_resubmit` | a TRP whose callback submits it again, with time-outs | `PendingScheduled`, `OnePlace` still hold |
| `ehci_xfer_cancel` | as above | violated: `CancelFinal` |
| `ehci_xfer_dropped` | as above with an interrupt endpoint | violated: `NoneDropped` |
| `ehci_xfer_intr` | two interrupt endpoints | violated: `IntrCountActive` |
| `sync_xfer` | two callers on two endpoints, disabling included | the three properties of a synchronous call |
| `sync_xfer_shared` | two callers on one endpoint | violated: `NoDanglingFrame` |
| `parts` | every part of MCParts and the ring buffer (4 bytes, calls of 0 to 5 bytes); 826 thousand states | the properties of section 3's parts; bounds, `FittingPutExact` and the refinement of `ByteFifo` |
| `host_port` | 2 controllers, 1 user, 3 hardware events, 2 attempts of 2 tries, 3 device objects; 1.9 million states | interrupts, hub events, addresses, references and ports stay in step |
| `host_port_live` | the same with 2 hardware events | `ChangeSeen`, `EventHandled` |
| `host_port_enum` | the same | violated: `PortEnumerated` |

What the run `parts` shows, by property:

| Property | Parts | In words |
|---|---|---|
| `PosOK`, `CopiesInBounds`, `FittingPutExact`, `ImplementsFifo` | ring | positions and copies in bounds; a put that fits is stored whole; the ring is a queue of bytes but for `Overrun` |
| `CtrlSafe`, `ResetClean` | `DevCtrl` | one stage at a time, a configured device has its functions, a reset leaves nothing queued |
| `PipeSafe` | `DevPipe` | no transfer outlives its call, no call returns for another |
| `BuildSafe` | `DevBuild` | descriptors count what they hold, a string index has one owner |
| `BotSafe` | `MsBot` | a command that succeeds got its own status and data |
| `HubSafe` | `HubDrv` | a running hub is polled; ports name the device that is there |
| `NetSafe` | `NetRx`, `NetRing` | each TRP on one list; bytes in order, once |
| `LifeSafe` | `SerialDrv`, `MsDev`, `LibList`, `DevMonitor`, `UacLife` | handles, references and libraries counted; no device missed or traversed twice; a TRP of a sound card submitted once |
| `DescSafe` | `HostCfg`, `UvcParse`, `HidReport` | interfaces in one function and no freed endpoint in the table; the second pass stays in what the first counted; nesting |
| `ClassSafe` | `DevClass`, `VsPort`, `MsUnits`, `VpPrinter` | failed creations leave nothing; bytes once; a command's unit stays; whole identities |
| `VideoSafe` | `UvcStream`, `UvcDecode`, `UvcCtrl` | nothing with the controller after a stop; whole frames; settings kept, what controls allocate freed |
| `PeriodicSafe` | `EhciIso`, `EhciPeriod`, `EhciQtd` | the controller reaches what was requested and not what was given back; qTDs and iTDs come back to their pools |
| `MediaSafe` | `UacPcm`, `UacFormats`, `UacRate`, `UacRule`, `UvcField`, `UvcCtrl`, `UvcChain` | frames played once and in their place, formats grouped and found, rates kept, no possible choice of parameters lost; fields apart; settings on a step; each entity in one chain |

Why the bounds are enough. Two TRPs on one QH are needed for a QH that holds another's
TRP when it is cancelled, and for a TRP boundary within one `qh_handle`; two qTDs for a
short packet before the last one and for a TRP retired in part; two users for two
deliveries beside the task's; `MaxXact` = 2 for one retry and one exhaustion; two slots
for the repeated decrement. More of any of these repeats the same transitions. Symmetry
(two TRPs of one endpoint, two users) is used for safety only, never in the liveness
run.

In `host_port` two controllers are needed for an event that waits behind one whose
handler fails, and for two adders; three hardware events for plug, unplug and plug again
around one another, or a transfer interrupt between two of them; two attempts of two
tries for a first, a repeated and a last failure, with an address set before and without;
three device objects for a lost one, a removed one a user still holds and a new one;
`Debounce` is 1 since each check is the same test.

In `parts` every instance is chosen so that each action and each branch of it happens:
three qTDs for a dummy and two TRPs of one or one TRP of two; three QHs with periods of
1, 2 and 4 in eight frames, for lists that join, part and end alike; five iTDs for two
TRPs that overlap around the frame list; two chunks and three tags, so that a second
command follows one that was given up in each phase; three plugs, so that a device can go
and come within one handling; three TRPs of which two may be queued; devices and handles
of two kinds, so that the last holder can be either; a buffer of four frames with a
boundary of eight, so that both pointers wrap at both; six configurations, among them
associations, alternate settings on one address and one that claims fewer interfaces than
it has; the whole tables of the camera's controls, with values around the ends of every
field. Larger instances of single parts were run while they were written (four qTDs with
two TRPs of two and six made, 6.3 million states).

The five violations are findings: `PROJECT.json` quotes the comment and the lines for
each. In short:

* **Cancel does not stop a resubmitting callback.** The status -USB_ECANCEL set at
  E:709 is overwritten with USB_OK (X:84, 94) before the callback can see it.
* **A completed TRP can be dropped** when a callback that submits meets a scan or a
  cancellation: opposite lock orders, broken by a time-out that forgets the TRP.
* **`intr_count` is taken down once per frame list slot**, so cancelling one interrupt
  endpoint stops the scan of another.
* **Two synchronous calls on one endpoint** take each other's tokens; control transfers
  of two class drivers of one device share endpoint 0.
* **A device that cannot be enumerated is connected all the same**: D:1113 overwrites
  the result of the fourth failure with that of the port check.

In the runs that pass, `IntrCountActive` has one interrupt endpoint with one TRP: that
is the case in which the extra decrements meet the guard at zero and do no harm.

Every property of a passing run is paired in `PROJECT.json` with a mutant, an operator
in the module that changes one definition as a plausible bug would, under which the run
fails. The modules of the parts have such operators for their other properties too; one
per grouped property is listed.

Fairness (`Fairness` in EhciXfer). Each task that can go on in `qh_handle`, in a scan or
in a delivery does (weak fairness): tasks are scheduled and the loops have no other
wait. Steps that take `p_trp_done_lock` or `p_ehci->p_lock` have strong fairness: a
waiter of an OS mutex is served in the end although others take it in between. Nothing
is assumed of the hardware, of users starting calls, or of time-outs.

In HostPort a pending, unmasked interrupt is served, and each EHCI task and the hub
thread take their next step (weak fairness): none of their waits is for a lock others
keep taking. Nothing is assumed of the hardware, of the outcome of a request or of users
putting their references. `ChangeSeen` ends where the task looks at the port: whether a
connect change is always acted on is not claimed, because `usbh_ehci_rh_port_change` makes
an event only if PORTSC differs from the value it saw last (R:44), so that a bounce can
go unnoticed.

The parts state safety only.

## 5. Proofs

| Module | Theorems about |
|---|---|
| `EhciXferProofs` | EhciXfer, SyncXfer over it, and the qTDs of a QH (EhciQtd) |
| `HostPortProofs` | HostPort |
| `RingBufProofs` | RingBuf and ByteFifo |
| `ComponentProofs` | components of the parts, each for all values of its constants |
| `CountProofs` | what sums over a set add up, and the components that count: what a device describes, on either side |
| `PartsProofs`, `PartsCountProofs` | the same for the instances of `MCParts`: the properties the run `parts` checks |

The theorems about EhciXfer, SyncXfer, RingBuf and HostPort hold for any sets of
endpoints, TRPs and tasks and any bounds that satisfy
the assumption named in the module (`EhciXferAssumption`, `RingBufAssumption`,
`HostPortAssumption`, `SyncXferAssumption`): the controllers and the users of
devices are finitely many, the asynchronous endpoints are finitely many, the two kinds of endpoint disjoint, each TRP
has one endpoint, an interrupt QH is in at least one slot.

* `TypeCorrect`: `Spec => []TypeOK`, one step per action (`NextActions` breaks the
  next-state relation up once for all proofs). `TypeOK` says that the counters are
  naturals: the code's are unsigned and would wrap.
* `SchedulesCorrect`: `Spec => []SchedInv`. `AsyncCountExact` is not inductive: the end
  of a disable sets a QH's state to NONE, and the count is right only if that QH was
  not linked. So `DisableFrame` says the QH being disabled is unlinked; that stays true
  because no other task can link it, which needs `LockOwner` (a task inside `qh_handle`
  holds `p_lock`) and `ScanLocked`. `PendingScheduled` needs that a frame that is
  abandoned early (`scan.work`) is of a linked QH (`WorkLinked`), and that the QHs still
  to scan are linked, which `todo # {} => lock = EhciTask` protects from cancellations.
  The steps of `qh_handle` are proved together (`ScanStepKeeps`), as are those that
  leave the schedules alone (`QuietStep`).
* `AsyncCount`, `PendingOnSchedule`, `NoScanOfFreedQh`: `[]AsyncCountExact`,
  `[]PendingScheduled`, `[]ScanAlive`, from that invariant.
* `NoneDroppedQuietly`: `NoneDropped` when `Resubmits = {}`. Beside the violation of
  `ehci_xfer_dropped` it says where the fault lies: only in callbacks that submit.
* `DeliveredOnce` : `OnePlace`. `PlaceInv` says that each list holds a
  TRP at most once, no TRP is on two, and one that is being delivered is on none; that
  the deliverer holds `p_trp_done_lock` makes the deliveries exclude each other. It holds
  with callbacks that submit, too.
* `CancelledTrpReturned` : `CancelFinal` when `Resubmits = {}`; with a
  callback that submits, `ehci_xfer_cancel` shows it violated. `CancelInv` follows the
  call: its TRP is on the QH it is emptying, or on no QH, and stays off because every
  submission needs `p_hc->p_lock`, which the canceller holds.
* `SyncImplementsEngine`, `StackTrpReturned`, `TokensTaken`, `SecondWaitAtOnce`
  (also there): SyncXfer has the code's submission, without EhciXfer's condition
  that the TRP is not in use. If no two callers share an endpoint (`Apart`; the run
  `sync_xfer_shared` shows what happens otherwise) the condition holds by itself:
  `Served` says that the endpoint's semaphore has a token exactly when the call's TRP has
  been delivered and the call has not taken it. So SyncXfer implements EhciXfer, whose
  invariants hold of it, and the second wait rests on `CancelInv`.
* `PositionsInRange`, `NoCopyOutOfBounds`, `FittingPutStored` (`RingBufProofs`): the three safety
  properties of RingBuf, for every size and length, by the arithmetic of the two copies
  (`PutLengths`, `GetLengths`).
* `RingBufImplementsFifo`: `ImplementsFifo`, the refinement of ByteFifo, for every size.
  `PutTotal` says how much a put stores, `PutAppends` and `GetTakes` where the bytes are
  afterwards, position by position.
* `InterruptsNotLost` (`HostPortProofs`): `InterruptNotLost` of HostPort, for any number of controllers.
  `Cycle` says, per controller, that the interrupt is masked exactly from the handler to
  the unmasking; so the handler's unlocked writes of `status` and `evt` never fall between
  the task's read and its reset, and what the reset of `status` throws away the task has
  read. It needs `p_sem` at most 1, which holds for the same reason.
* `EventsHaveWakers`: `EventHasWaker` of HostPort. `Covered` counts: the list is no longer
  than the tokens given, those about to be given, and one if the thread is emptying it.
  The property alone is not inductive, since a handler's failure sends the thread back
  to wait with a list of any length.
* `HostPortTypeCorrect`, `HeldDevicesAlive`, `PortDevicesAlive`, `AddressesOwned`
  (also there): `TypeOK`, `HeldAlive`, `PortAlive` and `AddrOwned` of HostPort,
  for any number of devices, users and addresses. None is inductive. `LifeInv` adds what
  they rest on: the reference count of a device is exactly the number of its holders, the
  list's own reference and the enumeration's (`Counted`), so the count that reaches zero
  belongs to a device nobody can name; `n_dev` is the number of injected devices; the
  object that the thread enumerates is live, on no port, held by nobody, and without a
  configuration until it is injected (`Place`); an address being set is no other
  device's, and an object whose address is being undone is out of everybody's reach
  (`Addresses`). The steps that leave the devices alone are proved together
  (`MoveKeeps`), the others one lemma each. The
  types of the tasks and of the event list come from `WakerInv`, so the two are one
  invariant, `LifeAll`.

* `IntrCountOfOne` (`EhciXferProofs`): `IntrCountActive` for one interrupt endpoint, with
  any number of TRPs and of slots; the run `ehci_xfer_intr` shows it violated with two.
  `IntrInv` says it of every state: while a cancellation or a disable empties a QH the count
  is at most the number of TRPs on it, since it may have met the guard at zero already;
  otherwise it is that number.

* `QtdsAccounted` (`EhciXferProofs`, EhciQtd): each qTD is in one place, the controller works
  on the queue only, in its order and on each qTD once, and it is not left with work that
  nobody tells it of, for a pool of any size and TRPs of any length. This is the `"qtd"` part of
  `PeriodicSafe`, with no bound on what is made. `QtdInv` has five parts. `QtdPlaces`: the free list, the
  queue, the dummy, the qTD that is to be given back and the lost ones share out the pool.
  `QhChained`: the queue is linked in the order in which its qTDs were made, and its last
  one interrupts; a request puts newer ones behind (`QhLongerLinks`) and a cut takes the
  oldest off. `QhHandled`: where the handler can be when the queue is empty or not linked.
  `HwLinked` is about a linked QH whose old overlay was not taken up again (`resumed`, the
  case in which the property does not hold): what the controller is executing is the oldest
  active qTD (`HwWorks`); where it goes next is not behind an active qTD, and if it
  goes nowhere it has the last one (`HwGoes`); a halt or a short packet that ends a transfer
  is where the overlay stands, so that the handler takes off what is behind it only while
  the controller does nothing (`HwStops`). That an element behind an active or halted one is active is
  what a retry needs, which puts the head back to active. The overlay's copy of the
  alternate pointer must agree with the qTD's even while it is halted, as the retry goes on
  from there.

### The components

`ComponentProofs` and `CountProofs` instance components over variables of their own and prove
their properties for every value of the constants; the hypotheses (`CtrlParams`, `HubParams`,
...) say that sets are finite, bounds are numbers and a "none" value is none of the
others. `PartsProofs` and `PartsCountProofs` then take these theorems over to `MCParts`: a step of
`PartsNext` is one of the chosen part (`StepOfPart`), each operator of an instance in
`MCParts` is that of the instance in those modules with the run's values (the `Maps`
lemmas), and the values satisfy the hypotheses. So `PipePartSafe`, `CtrlPartSafe`, `CtrlPartReset`,
`NetPartSafe`, `HubPartSafe`, `BotPartSafe`, `LifePartSafe`, `ClassPartSafe`, `VideoPartSafe`,
`BuildPartSafe` and `DescPartSafe` are the properties of the run, and the theorems of the two modules what they say beyond its bounds. What makes
each inductive:

* `PipeTransfersOver` (DevPipe): a caller between its submission and its return has the
  lock of its pipe (`PipeLocked`), and the semaphore has one token exactly when the
  controller has let go of its transfer (`PipeTokens`); so a wait takes its own token,
  although a call that leaves may leave a token for the next to drain.
* `CtrlStagesApart`, `CtrlConfigured`, `CtrlResetClean` (DevCtrl): one request is queued at most
  (`OneOf`), a device that does not run was never configured. The second needs that no
  function fails: a function that does leaves a device that answers as configured.
* `RxListsExact`, `RingReadsInOrder` (NetRx, NetRing): the lists are disjoint and the counters
  their lengths; what is still to be read is ascending by its distance from the reader
  (`Ahead`, `Pending`), which the wrap of either position leaves as it is.
* `HubFollowsPorts` (HubDrv): until the connection of a port changes, and is neither
  reported nor wiped, the port has the object of its device or none (`HubKept`); what the
  handler enumerates is what is plugged in.
* `BotInStep` (MsBot): the largest of them. What is on the way belongs to the stage the host
  is in or to one it has given up (`BotOffer`), host and device that agree on a tag agree
  on the stage (`BotMatched`), and the chunks got or stored are those of the command as far
  as both have come (`BotRead`, `BotWrite`).
* `WatchMissesNone` (DevMonitor): a monitor that looks for what exists and a thread that
  tells what comes: a device that is there has been told, is being told, or will be found
  by a registration that is under way (`WatchSeen`).
* `StoreStays`, `SerialCountsExact` (MsDev, SerialDrv): each count is the number of its
  holders, with the references of the steps of a release under way. For MsDev as long
  as memory is not used after it is freed (`msFault`, section 6).
* `WalkReturnsOnce` (LibList): the place kept by the traversal is that of what it has
  returned: exactly the devices before it that are still listed (`WalkAt`).
* `CreationBalanced` (DevClass): what a creation holds is what its last call has reached
  (`MadeMay`), port by port for any number of ports (`CallGets`, `UndoLeaves`).
* `PortReadsOnce` (VsPort): the transfer is out once at most, since only the one start and its
  own completion submit it; the ring ascends from what was read to what was sent
  (`PortInv`, `PortPuts`).
* `UnitsAlive`, `PrinterIdWhole` (MsUnits, VpPrinter): the numbers below `n_lu` are those of the
  units listed and freed (`UnitInv`); the halves differ only while the application copies,
  and then it has the lock (`IdInv`).
* `LifeTrpOnce` (UacLife): as long as no start has failed, a stream that may be prepared without
  being set up has been started, so the preparation submits nothing; after a set-up the TRPs
  are new ones, none of which flies (`LifeInv`).
* `StreamStoppedQuiet` (UvcStream): `n_trp_act` is at least the number of TRPs that are with the
  controller or in a callback, at any time and not only during the calls the property names,
  and there are none of a frozen stream when no call is under way (`StreamInv`).
* `FramesWhole` (UvcDecode): a buffer that is filled without an error has packets of one frame, the
  last of them the one sent last and not the frame's end, with the mark the decoder has
  (`VidInv`, `VidFilling`); the next packet is of that frame or has the other mark.
* `SettingsKept` (UvcCtrl): a control that is not loaded has nothing set, and whatever is
  allocated is freed at the end but a field whose menu could not be had (`CamInv`). It needs that what a
  value is settled to is never the model's mark of "none", which the values of the run
  satisfy (`CamParamsHold`).
* `BuildExactly` (DevBuild): per configuration `wTotalLength` is the sum over the interfaces
  that are there, with the endpoints of each (`BuiltExact`), and a string index in use is
  the device's, one configuration's, one function's or one association's, never two's
  (`BuiltOwned`). What is added up is a sum over a set; its value does not depend on the
  order and grows by what is put in (`SumAdd`, `SumRemove`, `SumLess`), which is shown by a
  least set for which it would not.
* `ParseInRoom` (UvcParse): what has been filled so far is at most what was counted over the
  descriptors before `pos`, sum by sum (`ParseInv`): the frames of a format are descriptors
  after it that no other format takes, and a digital video format is one of one interval in
  both passes.
* `HidNested` (HidReport): the parser's stacks, counts and locals are those of the items read
  so far (`HidState`), computed beside it as functions of the position (`HidDepth`,
  `HidKept`, `HidSets`, `HidOpened`); from an item that is refused on, the descriptor is not
  nested (`HidBad`).
* `ConfigWhole` (HostCfg): `ConfInv` holds of any configuration and of every failure: the
  interfaces that are allocated are listed or in a function, and the table has endpoints of
  theirs. `ConfOne` is about a well-formed one: the counter `n_assoc` with the number of
  associations passed is the number of interfaces they take, so that there are as many
  functions as associations and interfaces in none (`OneTable`), each of the first taken up
  by an association and each of the others by the interfaces of one number. An association of
  no interfaces takes up a function for itself, which is why `WellFormed` has none.

### What was checked before, and what is not proved

`SchedInv` was checked with TLC on the instances of `ehci_xfer` and
`ehci_xfer_resubmit`, `PlaceInv` and `CancelInv` on that of
`ehci_xfer`, `QtdInv` with a pool of four and TRPs of two qTDs, `IntInv`, `Covered` and `LifeInv` on that of `host_port`, and those of
`ComponentProofs` on the instances of `parts`, before they were proved.

Only model-checked: `FinishedDelivered`, `ChangeSeen` and `EventHandled`, liveness
properties under fairness, which the prover cannot treat; `PeriodicSafe`, but for its qTDs (`QtdsAccounted`): its iTDs are
counted over the frame list and its lists are linked by folds over the slots of a QH;
`MediaSafe`, whose fields, rates and steps are powers of two, products and quotients and whose
formats and chains are folds; and `PartsTypeOK`, of
which the parts above have what they need in their invariants. The induction theorems
of the library cannot be instantiated, so that what a fold or a recursive function
computes needs another argument each time, as the least set for the sums of `CountProofs`.

## 6. Not modelled

Suspend, resume, start and stop of the controller, siTDs, per-port change bits (R:28,
which reads bits the handler has cleared at E:1095), over-current and companion ports;
the bandwidth search, which finds every microframe free since `p_shadow` is never filled;
`usbh_ctrl_trp_sync_xfer`; matching of drivers; the ports' requests of an external hub;
sending in `usbh_net.c`, ECM and RNDIS; the HID driver; audio capture, clocks and
synchronisation endpoints; negotiation of video formats and bulk cameras; the contents of
SCSI commands, HID reports and serial requests of the device classes. The chip files of
the serial class, `usb_common.c` and the adapters are pure functions of their input, control
requests one after the other, or have no code of their own.

### Seen while modelling

Places where the code departs from what it seems to want. The properties exclude them by
a named condition where they matter, or the model has them as they are.

EHCI: a write of the overlay's next pointer can put the controller back to the qTD it is
working on (X:878), where it stops at the end until another interrupt; an interrupt QH
that is linked again after a cancellation keeps an active overlay (X:1384), and no linked
QH has its halt or alternate pointer reset (X:630, X:844); with no bandwidth a TRP's qTDs are lost
(X:1555), and a TRP without data has none (X:505); an endpoint that is disabled leaves its
TRPs undelivered on the done list (E:548); periods that are no power of two break the lists
(X:285), which confuse QHs and iTDs (X:1378, 1435, 1451); the first frame of a stream takes
frames for microframes (X:2462) and its scan does not move on while there is nothing in it
(X:3218); a pool takes one item too many (`usb_pool.c`:174); `usbh_ehci_mem_init` frees an
advanced pointer when it fails.

Host core: a failed DMA mapping is only traced (C:1047); the last address (C:875); the hub
event list is read outside its lock (D:1377); an unsupported port reset ends the enumeration
(N:926); endpoints of a released or replaced interface stay enabled (D:712, 738, N:413); a
failed parse loses what it made (N:343, 491, 526), a descriptor of length 0 never ends
(N:349, 499); `p_ctrl` is filled without a lock (D:644); an event overwrites an older one in a
monitor's state (`usbh_dev_monitor.c`:143), wildcard monitors are not told of devices that
exist (:31), deregistering an exist-only monitor takes an unlisted node off (:313), and a
failed registration uses what it freed (:272).

Hub, mass storage, serial, network: a hub whose TRP cannot be submitted is deaf
(`usbh_hub_drv.c`:393), and the clear meant for a reset may take a change of connection (:507);
tags are compared with themselves (`usbh_ms_drv.c`:576), memory is used after it is freed (:334);
the serial library's time-outs and a callback that submits during a cancellation
(`usbh_cdc_serial_common.c`:116, 240); a network TRP whose cancellation fails stays on its list
(`usbh_net.c`:660).

HID: no descriptor with a field is accepted, since `__hid_field_add` refuses when the
registration succeeds (`usbh_hid_report.c`:283).

Audio and video: stopping a stream never changes its state (`uac_pcm.c`:829), parameters
refused return with the mutex held (`usbh_uac_operation.c`:122), a start that fails half way
leads to TRPs submitted twice (`uac_endpoint.c`:610, `uac_pcm.c`:1440), `fill_max` packets exceed
their buffer (`uac_endpoint.c`:284); camera settings are cached and never sent
(`usbh_vc_ctrl.c`:1345), one that fills its control is lost at the next read (:1306, 1424), an
input terminal of a selector may be put in two chains (`usbh_vc_entity.c`:338), two paths return with
the stream's mutex held (`usbh_vc_stream.c`:1276, 1383).

Device side: a failed creation keeps a port's ring buffer (`usbd_cdc_virtual_serial.c`:393), a
printer's lock is not given back when the host asks for another interface
(`usbd_virtual_printer.c`:87), and automatic endpoint numbers depend on the order of the calls
(`usbd_dev.c`:489).
