------------------------------ MODULE HostPort ------------------------------
(***************************************************************************)
(* From the port of an EHCI root hub to the device object: usbh_ehci.c     *)
(* (interrupt handler, event word, task), usbh_ehci_rh.c (port change,     *)
(* port handling, reset), usbh_dev.c (hub events, connect, disconnect,     *)
(* references) and usbh_dev_enum.c (enumeration).                          *)
(*                                                                         *)
(* Every controller has an interrupt, a task and one port; one hub thread  *)
(* serves the events of all of them, and users hold references to devices. *)
(***************************************************************************)
EXTENDS Integers, Sequences, FiniteSets

CONSTANTS
    Hcs,          \* the controllers
    MaxAddr,      \* addresses of one controller's bitmap (128 in the code)
    MaxDev,       \* device objects the memory has room for
    Users,        \* holders of references taken in a notification
    NoDev, NoHc,
    MaxChanges,   \* bound: hardware events of a behaviour
    Debounce,     \* checks of a stable connection (5 in the code)
    Attempts,     \* enumerations of one connection (4)
    DescTries,    \* reads of the device descriptor (3)
    AddrTries     \* SET_ADDRESS requests (3)

Addrs == 1..MaxAddr
Devs == 1..MaxDev

ASSUME HostPortAssumption ==
    /\ IsFiniteSet(Hcs) /\ NoHc \notin Hcs /\ NoDev \notin Devs
    /\ IsFiniteSet(Users)
    /\ {MaxAddr, MaxDev, Debounce, Attempts, DescTries, AddrTries} \subseteq Nat \ {0}
    /\ MaxDev < MaxAddr
    /\ MaxChanges \in Nat

VARIABLES
    \* the hardware, per controller
    port,          \* PORTSC
    hwaddr,        \* the address the plugged device answers to
    sts,           \* USBSTS
    masked,        \* the driver has cleared USBINTR
    changes,       \* hardware events so far
    \* struct usbh_ehci, and where its task is
    status, evt, p_sem, task, p_psta,
    \* the event list and its semaphore, and the hub thread
    hub_evt_list, p_hub_evt_sem, thr,
    \* devices
    p_ports, dev, map, n_dev, held

hwVars == <<port, hwaddr, sts, masked, changes>>
ehciVars == <<status, evt, p_sem, task, p_psta>>
listVars == <<hub_evt_list, p_hub_evt_sem>>
devVars == <<p_ports, dev, map, n_dev, held>>
vars == <<hwVars, ehciVars, listVars, thr, devVars>>

PortSc == [conn : BOOLEAN, csc : BOOLEAN, pec : BOOLEAN, pe : BOOLEAN, rst : BOOLEAN]
EmptyPort == [conn |-> FALSE, csc |-> FALSE, pec |-> FALSE, pe |-> FALSE, rst |-> FALSE]
Unseen == {}    \* a p_psta of 0, which no PORTSC of a powered port equals
NoDevice == [live |-> FALSE, hc |-> NoHc, addr |-> 0, ref_cnt |-> 0, inject |-> FALSE,
             desc |-> FALSE, cfg |-> FALSE]
IdleTask == [pc |-> "take", evt |-> FALSE, status |-> {}]
IdleThread == [pc |-> "wait", hc |-> NoHc, rd |-> EmptyPort, n |-> 0, try |-> 0,
               dev |-> NoDev, addr |-> 0, after |-> "desc"]

Init ==
    /\ port = [h \in Hcs |-> EmptyPort]
    /\ hwaddr = [h \in Hcs |-> 0]
    /\ sts = [h \in Hcs |-> {}]
    /\ masked = [h \in Hcs |-> FALSE]
    /\ changes = 0
    /\ status = [h \in Hcs |-> {}]
    /\ evt = [h \in Hcs |-> FALSE]
    /\ p_sem = [h \in Hcs |-> 0]
    /\ task = [h \in Hcs |-> IdleTask]
    /\ p_psta = [h \in Hcs |-> Unseen]
    /\ hub_evt_list = <<>>
    /\ p_hub_evt_sem = 0
    /\ thr = IdleThread
    /\ p_ports = [h \in Hcs |-> NoDev]
    /\ dev = [d \in Devs |-> NoDevice]
    /\ map = [h \in Hcs |-> {}]
    /\ n_dev = 0
    /\ held = [u \in Users |-> NoDev]
-----------------------------------------------------------------------------
(* The hardware *)

\* A change bit that rises raises "port change detect".
Change(h, p) ==
    /\ changes < MaxChanges
    /\ changes' = changes + 1
    /\ port' = [port EXCEPT ![h] = p]
    /\ sts' = IF (p.csc /\ ~port[h].csc) \/ (p.pec /\ ~port[h].pec)
              THEN [sts EXCEPT ![h] = @ \cup {"PCD"}] ELSE sts
    /\ UNCHANGED <<masked, ehciVars, listVars, thr, devVars>>

Plug(h) ==
    /\ ~port[h].conn
    /\ Change(h, [port[h] EXCEPT !.conn = TRUE, !.csc = TRUE])
    /\ hwaddr' = [hwaddr EXCEPT ![h] = 0]

Unplug(h) ==
    /\ port[h].conn
    /\ Change(h, [port[h] EXCEPT !.conn = FALSE, !.csc = TRUE, !.pe = FALSE])
    /\ UNCHANGED hwaddr

PortError(h) ==
    /\ port[h].pe
    /\ Change(h, [port[h] EXCEPT !.pe = FALSE, !.pec = TRUE])
    /\ UNCHANGED hwaddr

\* A transfer ends: the other interrupt of the controller.
RaiseInt(h) ==
    /\ "INT" \notin sts[h] /\ changes < MaxChanges
    /\ changes' = changes + 1
    /\ sts' = [sts EXCEPT ![h] = @ \cup {"INT"}]
    /\ UNCHANGED <<port, hwaddr, masked, ehciVars, listVars, thr, devVars>>
-----------------------------------------------------------------------------
(* The interrupt handler and the EHCI task *)

\* Mutant of IrqHandle: the interrupt is left unmasked.
IrqUnmasked(h) ==
    /\ ~masked[h] /\ sts[h] # {}
    /\ status' = [status EXCEPT ![h] = @ \cup sts[h]]
    /\ sts' = [sts EXCEPT ![h] = {}]
    /\ evt' = [evt EXCEPT ![h] = TRUE]
    /\ p_sem' = [p_sem EXCEPT ![h] = @ + 1]
    /\ UNCHANGED <<port, hwaddr, masked, changes, task, p_psta, listVars, thr, devVars>>

\* usbh_ehci_irq_handle masks, moves USBSTS into the driver and gives the event.
IrqHandle(h) ==
    /\ ~masked[h] /\ sts[h] # {}
    /\ masked' = [masked EXCEPT ![h] = TRUE]
    /\ status' = [status EXCEPT ![h] = @ \cup sts[h]]
    /\ sts' = [sts EXCEPT ![h] = {}]
    /\ evt' = [evt EXCEPT ![h] = TRUE]
    /\ p_sem' = [p_sem EXCEPT ![h] = @ + 1]
    /\ UNCHANGED <<port, hwaddr, changes, task, p_psta, listVars, thr, devVars>>

TaskAt(h, s) == task[h].pc = s
TaskTo(h, s) ==
    task' = [task EXCEPT ![h] = IF s = "take" THEN IdleTask ELSE [@ EXCEPT !.pc = s]]

\* __evt_take: the token, the event word, and its reset are three accesses.
TaskTake(h) ==
    /\ TaskAt(h, "take") /\ p_sem[h] > 0
    /\ p_sem' = [p_sem EXCEPT ![h] = @ - 1]
    /\ TaskTo(h, "evt")
    /\ UNCHANGED <<hwVars, status, evt, p_psta, listVars, thr, devVars>>

TaskReadEvt(h) ==
    /\ TaskAt(h, "evt")
    /\ task' = [task EXCEPT ![h] = [pc |-> "clear_evt", evt |-> evt[h], status |-> {}]]
    /\ UNCHANGED <<hwVars, status, evt, p_sem, p_psta, listVars, thr, devVars>>

TaskClearEvt(h) ==
    /\ TaskAt(h, "clear_evt")
    /\ evt' = [evt EXCEPT ![h] = FALSE]
    /\ TaskTo(h, IF task[h].evt THEN "status" ELSE "unmask")
    /\ UNCHANGED <<hwVars, status, p_sem, p_psta, listVars, thr, devVars>>

\* The interrupt handler does not take the lock under which status is read and reset.
TaskReadStatus(h) ==
    /\ TaskAt(h, "status")
    /\ task' = [task EXCEPT ![h].pc = "clear_status", ![h].status = status[h]]
    /\ UNCHANGED <<hwVars, status, evt, p_sem, p_psta, listVars, thr, devVars>>

TaskClearStatus(h) ==
    /\ TaskAt(h, "clear_status")
    /\ status' = [status EXCEPT ![h] = {}]
    /\ TaskTo(h, "unmask")
    /\ UNCHANGED <<hwVars, evt, p_sem, p_psta, listVars, thr, devVars>>

AfterUnmask(h) == TaskTo(h, IF "PCD" \in task[h].status THEN "change" ELSE "take")

\* Mutant of TaskUnmask: only a transfer's interrupt is unmasked.
TaskUnmaskInt(h) ==
    /\ TaskAt(h, "unmask")
    /\ masked' = [masked EXCEPT ![h] = @ /\ "INT" \notin task[h].status]
    /\ AfterUnmask(h)
    /\ UNCHANGED <<port, hwaddr, sts, changes, status, evt, p_sem, p_psta, listVars, thr, devVars>>

TaskUnmask(h) ==
    /\ TaskAt(h, "unmask")
    /\ masked' = [masked EXCEPT ![h] = FALSE]
    /\ AfterUnmask(h)
    /\ UNCHANGED <<port, hwaddr, sts, changes, status, evt, p_sem, p_psta, listVars, thr, devVars>>

InList(h) == \E i \in 1..Len(hub_evt_list) : hub_evt_list[i] = h

\* usbh_ehci_rh_port_change, up to the unlocked test of usbh_hub_evt_add: only a
\* PORTSC that differs from the last one seen makes an event.
TaskPortChange(h) ==
    /\ TaskAt(h, "change")
    /\ p_psta' = [p_psta EXCEPT ![h] = {port[h]}]
    /\ TaskTo(h, IF port[h] \notin p_psta[h] /\ ~InList(h) THEN "add" ELSE "take")
    /\ UNCHANGED <<hwVars, status, evt, p_sem, listVars, thr, devVars>>

\* Mutant of TaskEvtAdd: a token is given only for the first event of the list.
TaskEvtAddFirst(h) ==
    /\ TaskAt(h, "add")
    /\ hub_evt_list' = Append(hub_evt_list, h)
    /\ TaskTo(h, IF hub_evt_list = <<>> THEN "give" ELSE "take")
    /\ UNCHANGED <<hwVars, status, evt, p_sem, p_psta, p_hub_evt_sem, thr, devVars>>

TaskEvtAdd(h) ==
    /\ TaskAt(h, "add")
    /\ hub_evt_list' = Append(hub_evt_list, h)
    /\ TaskTo(h, "give")
    /\ UNCHANGED <<hwVars, status, evt, p_sem, p_psta, p_hub_evt_sem, thr, devVars>>

TaskEvtGive(h) ==
    /\ TaskAt(h, "give")
    /\ p_hub_evt_sem' = p_hub_evt_sem + 1
    /\ TaskTo(h, "take")
    /\ UNCHANGED <<hwVars, status, evt, p_sem, p_psta, hub_evt_list, thr, devVars>>
-----------------------------------------------------------------------------
(* The hub thread: events and the root hub's port *)

At(s) == thr.pc = s
To(s) == thr' = [thr EXCEPT !.pc = s]
P == port[thr.hc]
D == dev[thr.dev]

\* usbh_hub_evt_process takes a token and then empties the list, unless a handler
\* fails: the rest of the list then waits for the next token.
ThreadTake ==
    /\ At("wait") /\ p_hub_evt_sem > 0
    /\ p_hub_evt_sem' = p_hub_evt_sem - 1
    /\ To("loop")
    /\ UNCHANGED <<hwVars, ehciVars, hub_evt_list, devVars>>

\* Mutant of ThreadNext: the list is emptied when its first event is taken.
ThreadNextDropsRest ==
    /\ At("loop")
    /\ hub_evt_list' = <<>>
    /\ thr' = IF hub_evt_list = <<>> THEN IdleThread
              ELSE [IdleThread EXCEPT !.pc = "read", !.hc = Head(hub_evt_list)]
    /\ UNCHANGED <<hwVars, ehciVars, p_hub_evt_sem, devVars>>

ThreadNext ==
    /\ At("loop")
    /\ IF hub_evt_list = <<>>
       THEN thr' = IdleThread /\ UNCHANGED hub_evt_list
       ELSE /\ hub_evt_list' = Tail(hub_evt_list)
            /\ thr' = [IdleThread EXCEPT !.pc = "read", !.hc = Head(hub_evt_list)]
    /\ UNCHANGED <<hwVars, ehciVars, p_hub_evt_sem, devVars>>

\* usbh_ehci_rh_handle reads PORTSC once and acts on what it read.
RhRead ==
    /\ At("read")
    /\ thr' = [thr EXCEPT !.rd = P, !.pc = IF P.csc THEN "clear_csc" ELSE "clear_pec"]
    /\ UNCHANGED <<hwVars, ehciVars, listVars, devVars>>

\* The change bits are cleared by writing 1: writing a PORTSC back clears all of them.
WriteBack(p) == [p EXCEPT !.csc = FALSE, !.pec = FALSE]

\* usbh_ehci_rh_feature_clr of CSC.
RhClearCsc ==
    /\ At("clear_csc")
    /\ port' = [port EXCEPT ![thr.hc] = WriteBack(@)]
    /\ To(IF thr.rd.conn THEN "stable" ELSE "disconnect")
    /\ UNCHANGED <<hwaddr, sts, masked, changes, ehciVars, listVars, devVars>>

\* usbh_ehci_rh_pc_check.
PortConnected == P.conn /\ ~P.csc

\* The connection must hold for Debounce checks; then a device object is made.
\* Nothing looks at what p_ports holds.
RhDebounce ==
    /\ At("stable")
    /\ IF ~PortConnected
       THEN To("clear_pec") /\ UNCHANGED dev
       ELSE IF thr.n + 1 < Debounce
       THEN thr' = [thr EXCEPT !.n = @ + 1] /\ UNCHANGED dev
       ELSE LET d == CHOOSE d \in Devs : ~dev[d].live /\ \A c \in 1..(d - 1) : dev[c].live
            IN  /\ \E c \in Devs : ~dev[c].live
                /\ dev' = [dev EXCEPT ![d] = [NoDevice EXCEPT !.live = TRUE, !.hc = thr.hc,
                                                         !.ref_cnt = 1, !.inject = TRUE]]
                /\ thr' = [thr EXCEPT !.pc = "reset", !.n = 0, !.dev = d, !.after = "desc"]
    /\ UNCHANGED <<hwVars, ehciVars, listVars, p_ports, map, n_dev, held>>

RhClearPec ==
    /\ At("clear_pec")
    /\ port' = IF thr.rd.pec THEN [port EXCEPT ![thr.hc] = WriteBack(@)] ELSE port
    /\ thr' = [IdleThread EXCEPT !.pc = "loop"]
    /\ UNCHANGED <<hwaddr, sts, masked, changes, ehciVars, listVars, devVars>>
-----------------------------------------------------------------------------
(* The hub thread: enumeration *)

\* usbh_ehci_rh_reset: set RESET, wait, clear it.  Both write PORTSC back.
ResetBegin ==
    /\ At("reset")
    /\ port' = [port EXCEPT ![thr.hc] = [WriteBack(@) EXCEPT !.rst = TRUE, !.pe = FALSE]]
    /\ p_psta' = [p_psta EXCEPT ![thr.hc] = Unseen]
    /\ hwaddr' = [hwaddr EXCEPT ![thr.hc] = 0]
    /\ To("reset_end")
    /\ UNCHANGED <<sts, masked, changes, status, evt, p_sem, task, listVars, devVars>>

ResetEnd ==
    /\ At("reset_end")
    /\ port' = [port EXCEPT ![thr.hc] = [WriteBack(@) EXCEPT !.rst = FALSE, !.pe = P.conn]]
    /\ To(thr.after)
    /\ UNCHANGED <<hwaddr, sts, masked, changes, ehciVars, listVars, devVars>>

\* A control transfer can succeed: the device listens at the address of its object.
Answers == P.conn /\ P.pe /\ hwaddr[thr.hc] = D.addr

AttemptFailed == To("check")

\* The first descriptor.  After the last failure the loop ends with the USB_OK of
\* the reset, and enumeration goes on without a descriptor.  The reset that follows
\* the loop is one with the reset of a failed last try.
DescOk ==
    /\ At("desc") /\ Answers
    /\ dev' = [dev EXCEPT ![thr.dev].desc = TRUE]
    /\ thr' = [thr EXCEPT !.pc = "reset", !.after = "addr", !.n = 0]
    /\ UNCHANGED <<hwVars, ehciVars, listVars, p_ports, map, n_dev, held>>

DescFail ==
    /\ At("desc")
    /\ IF ~PortConnected THEN AttemptFailed
       ELSE IF thr.n + 1 < DescTries
       THEN thr' = [thr EXCEPT !.pc = "reset", !.n = @ + 1]
       ELSE thr' = [thr EXCEPT !.pc = "reset", !.after = "addr", !.n = 0]
    /\ UNCHANGED <<hwVars, ehciVars, listVars, devVars>>

\* A short descriptor, or a packet size that is none.
DescBad ==
    /\ At("desc") /\ Answers
    /\ AttemptFailed
    /\ UNCHANGED <<hwVars, ehciVars, listVars, devVars>>

\* Mutant of AddrFailed: one try too many.
AddrFailedLate ==
    IF PortConnected /\ thr.n < AddrTries
    THEN thr' = [thr EXCEPT !.pc = "addr", !.n = @ + 1, !.addr = 0]
    ELSE thr' = [thr EXCEPT !.pc = "check", !.addr = 0]

\* A try to set an address has failed: another one, or the attempt fails.
AddrFailed ==
    IF PortConnected /\ thr.n + 1 < AddrTries
    THEN thr' = [thr EXCEPT !.pc = "addr", !.n = @ + 1, !.addr = 0]
    ELSE thr' = [thr EXCEPT !.pc = "check", !.addr = 0]

\* __dev_addr_alloc_set: the lowest free address, SET_ADDRESS, and on failure the
\* address goes back.  There is a free one, since MaxDev < MaxAddr.
AddrAlloc ==
    /\ At("addr")
    /\ LET free == Addrs \ map[thr.hc]
       IN  \E a \in free :
               /\ \A x \in free : a <= x
               /\ map' = [map EXCEPT ![thr.hc] = @ \cup {a}]
               /\ thr' = [thr EXCEPT !.pc = "set_addr", !.addr = a]
    /\ UNCHANGED <<hwVars, ehciVars, listVars, p_ports, dev, n_dev, held>>

SetAddrOk ==
    /\ At("set_addr") /\ Answers
    /\ hwaddr' = [hwaddr EXCEPT ![thr.hc] = thr.addr]
    /\ dev' = [dev EXCEPT ![thr.dev].addr = thr.addr]
    /\ thr' = [thr EXCEPT !.pc = "cfg", !.addr = 0]
    /\ UNCHANGED <<port, sts, masked, changes, ehciVars, listVars, p_ports, map, n_dev, held>>

\* The device may have taken the address although its answer was lost.
TookAddress ==
    \/ UNCHANGED hwaddr
    \/ Answers /\ hwaddr' = [hwaddr EXCEPT ![thr.hc] = thr.addr]

\* Mutant of SetAddrFail: the address is not given back.
SetAddrFailLeaks ==
    /\ At("set_addr")
    /\ TookAddress
    /\ AddrFailed
    /\ UNCHANGED <<port, sts, masked, changes, ehciVars, listVars, devVars>>

SetAddrFail ==
    /\ At("set_addr")
    /\ TookAddress
    /\ map' = [map EXCEPT ![thr.hc] = @ \ {thr.addr}]
    /\ AddrFailed
    /\ UNCHANGED <<port, sts, masked, changes, ehciVars, listVars, p_ports, dev, n_dev, held>>

\* The full descriptor and __dev_cfg_set; endpoint 0 works only if its packet size
\* was read.
CfgOk ==
    /\ At("cfg") /\ Answers /\ D.desc
    /\ dev' = [dev EXCEPT ![thr.dev].cfg = TRUE]
    /\ To("inject")
    /\ UNCHANGED <<hwVars, ehciVars, listVars, p_ports, map, n_dev, held>>

CfgFail ==
    /\ At("cfg")
    /\ AttemptFailed
    /\ UNCHANGED <<hwVars, ehciVars, listVars, devVars>>

\* An address goes back with the object that owns it.
FreeAddr(d) == [map EXCEPT ![dev[d].hc] = @ \ {dev[d].addr}]

\* usbh_basic_hub_dev_connect after a failed attempt.  Its result is overwritten by
\* that of the port check, so that after the last attempt it is USB_OK.
ConnectRetry ==
    /\ At("check")
    /\ IF PortConnected
       THEN /\ thr' = IF thr.try + 1 < Attempts
                      THEN [thr EXCEPT !.pc = "reset", !.after = "desc", !.n = 0, !.try = @ + 1]
                      ELSE [thr EXCEPT !.pc = "inject"]
            /\ UNCHANGED <<dev, map>>
       ELSE /\ dev' = [dev EXCEPT ![thr.dev] = NoDevice]
            /\ map' = FreeAddr(thr.dev)
            /\ thr' = IdleThread
    /\ UNCHANGED <<hwVars, ehciVars, listVars, p_ports, n_dev, held>>
-----------------------------------------------------------------------------
(* Devices: references, connection and removal *)

\* Users that take a reference in the notification of a configured device.
Takers(S) == held' = [u \in Users |-> IF u \in S THEN thr.dev ELSE held[u]]
MayTake == IF D.cfg THEN {u \in Users : held[u] = NoDev} ELSE {}

\* Mutant of Inject: the function's own reference is not taken.
InjectNoRef ==
    /\ At("inject")
    /\ \E S \in SUBSET MayTake :
        /\ Takers(S)
        /\ dev' = [dev EXCEPT ![thr.dev].ref_cnt = @ + Cardinality(S)]
    /\ p_ports' = [p_ports EXCEPT ![thr.hc] = thr.dev]
    /\ n_dev' = n_dev + 1
    /\ To("clear_pec")
    /\ UNCHANGED <<hwVars, ehciVars, listVars, map>>

\* The device goes to its port, and __dev_inject takes a reference for its function,
\* if it has one, and notifies the users.
Inject ==
    /\ At("inject")
    /\ \E S \in SUBSET MayTake :
        /\ Takers(S)
        /\ dev' = [dev EXCEPT ![thr.dev].ref_cnt =
                       @ + (IF D.cfg THEN 1 ELSE 0) + Cardinality(S)]
    /\ p_ports' = [p_ports EXCEPT ![thr.hc] = thr.dev]
    /\ n_dev' = n_dev + 1
    /\ To("clear_pec")
    /\ UNCHANGED <<hwVars, ehciVars, listVars, map>>

\* usbh_dev_ref_put; the last reference frees the address and the object.
Put(d) ==
    IF dev[d].ref_cnt > 1
    THEN dev' = [dev EXCEPT ![d].ref_cnt = @ - 1] /\ UNCHANGED map
    ELSE dev' = [dev EXCEPT ![d] = NoDevice] /\ map' = FreeAddr(d)

\* Mutant of Disconnect: the port keeps the device.
DisconnectKeepsPort ==
    /\ At("disconnect")
    /\ LET d == p_ports[thr.hc]
       IN  IF d = NoDev
           THEN To("clear_pec") /\ UNCHANGED <<dev, n_dev>>
           ELSE /\ dev' = [dev EXCEPT ![d].inject = FALSE]
                /\ n_dev' = IF n_dev > 0 THEN n_dev - 1 ELSE 0
                /\ thr' = [thr EXCEPT !.pc = IF dev[d].cfg THEN "put_fun" ELSE "put", !.dev = d]
    /\ UNCHANGED <<hwVars, ehciVars, listVars, p_ports, map, held>>

\* usbh_basic_hub_dev_disconnect and __dev_eject up to the references.
Disconnect ==
    /\ At("disconnect")
    /\ p_ports' = [p_ports EXCEPT ![thr.hc] = NoDev]
    /\ LET d == p_ports[thr.hc]
       IN  IF d = NoDev
           THEN To("clear_pec") /\ UNCHANGED <<dev, n_dev>>
           ELSE /\ dev' = [dev EXCEPT ![d].inject = FALSE]
                /\ n_dev' = IF n_dev > 0 THEN n_dev - 1 ELSE 0
                /\ thr' = [thr EXCEPT !.pc = IF dev[d].cfg THEN "put_fun" ELSE "put", !.dev = d]
    /\ UNCHANGED <<hwVars, ehciVars, listVars, map, held>>

EjectPutFun ==
    /\ At("put_fun")
    /\ Put(thr.dev)
    /\ To("put")
    /\ UNCHANGED <<hwVars, ehciVars, listVars, p_ports, n_dev, held>>

DisconnectPut ==
    /\ At("put")
    /\ Put(thr.dev)
    /\ To("clear_pec")
    /\ UNCHANGED <<hwVars, ehciVars, listVars, p_ports, n_dev, held>>

UserPut(u) ==
    /\ held[u] # NoDev
    /\ Put(held[u])
    /\ held' = [held EXCEPT ![u] = NoDev]
    /\ UNCHANGED <<hwVars, ehciVars, listVars, thr, p_ports, n_dev>>
-----------------------------------------------------------------------------
Hardware == \E h \in Hcs : Plug(h) \/ Unplug(h) \/ PortError(h) \/ RaiseInt(h)

TaskStep(h) ==
    \/ TaskTake(h) \/ TaskReadEvt(h) \/ TaskClearEvt(h) \/ TaskReadStatus(h)
    \/ TaskClearStatus(h) \/ TaskUnmask(h) \/ TaskPortChange(h)
    \/ TaskEvtAdd(h) \/ TaskEvtGive(h)

ThreadStep ==
    \/ ThreadTake \/ ThreadNext \/ RhRead \/ RhClearCsc \/ RhDebounce \/ RhClearPec
    \/ ResetBegin \/ ResetEnd \/ DescOk \/ DescFail \/ DescBad \/ AddrAlloc \/ SetAddrOk \/ SetAddrFail
    \/ CfgOk \/ CfgFail \/ ConnectRetry \/ Inject \/ Disconnect \/ EjectPutFun \/ DisconnectPut

Next ==
    \/ Hardware
    \/ \E h \in Hcs : IrqHandle(h) \/ TaskStep(h)
    \/ ThreadStep
    \/ \E u \in Users : UserPut(u)

\* The interrupt is served, and the tasks and the hub thread are scheduled.
Fairness ==
    /\ \A h \in Hcs : WF_vars(IrqHandle(h)) /\ WF_vars(TaskStep(h))
    /\ WF_vars(ThreadStep)

Spec == Init /\ [][Next]_vars /\ Fairness
-----------------------------------------------------------------------------
(* Properties *)

ThreadPcs == {"wait", "loop", "read", "clear_csc", "stable", "clear_pec", "reset", "reset_end",
              "desc", "addr", "set_addr", "cfg", "check", "inject", "disconnect", "put_fun", "put"}

\* Types, and the bounds on the tries of one enumeration.
TypeOK ==
    /\ port \in [Hcs -> PortSc]
    /\ hwaddr \in [Hcs -> Addrs \cup {0}]
    /\ sts \in [Hcs -> SUBSET {"PCD", "INT"}]
    /\ masked \in [Hcs -> BOOLEAN]
    /\ changes \in 0..MaxChanges
    /\ status \in [Hcs -> SUBSET {"PCD", "INT"}]
    /\ evt \in [Hcs -> BOOLEAN]
    /\ p_sem \in [Hcs -> Nat]
    /\ task \in [Hcs -> [pc : {"take", "evt", "clear_evt", "status", "clear_status", "unmask",
                               "change", "add", "give"},
                         evt : BOOLEAN, status : SUBSET {"PCD", "INT"}]]
    /\ \A h \in Hcs : p_psta[h] \subseteq PortSc
    /\ hub_evt_list \in Seq(Hcs)
    /\ p_hub_evt_sem \in Nat
    /\ thr \in [pc : ThreadPcs, hc : Hcs \cup {NoHc}, rd : PortSc, n : Nat,
                try : 0..(Attempts - 1), dev : Devs \cup {NoDev}, addr : Addrs \cup {0},
                after : {"desc", "addr"}]
    /\ \E bound \in {Debounce, DescTries, AddrTries} : thr.n < bound
    /\ p_ports \in [Hcs -> Devs \cup {NoDev}]
    /\ dev \in [Devs -> [live : BOOLEAN, hc : Hcs \cup {NoHc}, addr : Addrs \cup {0},
                         ref_cnt : 0..(2 + Cardinality(Users)), inject : BOOLEAN,
                         desc : BOOLEAN, cfg : BOOLEAN]]
    /\ map \in [Hcs -> SUBSET Addrs]
    /\ n_dev \in 0..MaxDev
    /\ held \in [Users -> Devs \cup {NoDev}]

\* An interrupt is never lost: while it is masked, or its status is in the driver and
\* not yet read by the task, the task has a token or is on its way to unmask and to
\* look.  The interrupt handler writes status and evt without the task's lock
\* (usbh_ehci.c:1090-1098 against :112-114 and :1013-1024).
InterruptNotLost ==
    \A h \in Hcs :
        /\ masked[h] => p_sem[h] > 0 \/ task[h].pc \in {"evt", "clear_evt", "status", "clear_status", "unmask"}
        /\ status[h] # {} =>
               \/ p_sem[h] > 0 /\ evt[h]
               \/ task[h].pc = "evt" /\ evt[h]
               \/ task[h].pc \in {"clear_evt", "status"} /\ task[h].evt
               \/ task[h].pc = "clear_status" /\ status[h] \subseteq task[h].status

\* A hub event in the list has somebody to wake or keep the hub thread, also after a
\* handler failed and left the rest of the list (usbh_dev.c:1371, 1399-1402).
EventHasWaker ==
    hub_evt_list # <<>> =>
        p_hub_evt_sem > 0 \/ thr.pc # "wait" \/ \E h \in Hcs : task[h].pc = "give"

\* The addresses in a controller's bitmap are exactly those of its device objects and
\* the one being set, and no two objects share one: through retries, failures,
\* removal and late references (usbh_dev_enum.c:167-203, 1060).
AddrOwned ==
    \A h \in Hcs :
        LET owners == {d \in Devs : dev[d].live /\ dev[d].hc = h /\ dev[d].addr # 0}
            setting == IF thr.pc = "set_addr" /\ thr.hc = h THEN {thr.addr} ELSE {}
        IN  /\ map[h] = {dev[d].addr : d \in owners} \cup setting
            /\ Cardinality(map[h]) = Cardinality(owners) + Cardinality(setting)

\* A device a user holds, and one the hub thread is about to put, is alive, and its
\* count is exactly that of its holders (usbh_dev.c:975-1071, usb_refcnt.c).
HeldAlive ==
    \A d \in Devs :
        LET users == Cardinality({u \in Users : held[u] = d})
            thread == CASE thr.dev = d /\ thr.pc = "put" -> 1
                        [] thr.dev = d /\ thr.pc = "put_fun" -> 2
                        [] OTHER -> 0
        IN  /\ users + thread > 0 => dev[d].live
            /\ dev[d].live => dev[d].ref_cnt =
                   users + thread + (IF ~dev[d].inject THEN 0
                                     ELSE IF dev[d].cfg /\ ~(thr.dev = d /\ thr.pc = "inject") THEN 2 ELSE 1)

\* The device of a port is an object in use that nobody has begun to remove.
PortAlive ==
    \A h \in Hcs : p_ports[h] # NoDev =>
        dev[p_ports[h]].live /\ dev[p_ports[h]].inject /\ dev[p_ports[h]].hc = h

\* usbh_basic_hub_dev_connect returns USB_OK for success (usbh_dev.c:1080): the device
\* it puts on a port has been enumerated.
PortEnumerated == \A h \in Hcs : p_ports[h] # NoDev => dev[p_ports[h]].cfg

\* A port change the controller signals is looked at (usbh_ehci.c:1053).
ChangeSeen == \A h \in Hcs : "PCD" \in sts[h] ~> task[h].pc = "change"

\* Every hub event in the list is handled (usbh_dev.c:1398), other handlers' failures
\* notwithstanding.
EventHandled == \A h \in Hcs : InList(h) ~> thr.pc = "read" /\ thr.hc = h
=============================================================================
