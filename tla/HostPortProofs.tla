-------------------------- MODULE HostPortProofs --------------------------
(***************************************************************************)
(* Proofs about HostPort, for any controllers, users and bounds: no        *)
(* interrupt is lost between the handler and the task, and no hub event    *)
(* is left without somebody to wake the hub thread.  Then the life of a    *)
(* device object: its count is exactly that of its holders, the addresses  *)
(* of a controller are those of its devices, and a port's device is an     *)
(* object in use.                                                          *)
(***************************************************************************)
EXTENDS HostPort, FiniteSetTheorems, WellFoundedInduction, TLAPS

Bits == {"PCD", "INT"}
TaskPcs == {"take", "evt", "clear_evt", "status", "clear_status", "unmask",
            "change", "add", "give"}
TaskState == [pc : TaskPcs, evt : BOOLEAN, status : SUBSET Bits]

\* The steps that are neither the interrupt handler's nor a task's.
OtherStep == Hardware \/ ThreadStep \/ \E u \in Users : UserPut(u)

\* They touch nothing the handler and the task exchange; the hardware may raise bits.
LEMMA OtherFrame ==
    ASSUME sts \in [Hcs -> SUBSET Bits], OtherStep
    PROVE  /\ sts' \in [Hcs -> SUBSET Bits]
           /\ UNCHANGED <<masked, status, evt, p_sem, task>>
<1>1. CASE Hardware
  <2>1. PICK h \in Hcs : Plug(h) \/ Unplug(h) \/ PortError(h) \/ RaiseInt(h)
    BY <1>1 DEF Hardware
  <2>2. ASSUME NEW p, Change(h, p)
        PROVE  /\ sts' \in [Hcs -> SUBSET Bits]
               /\ UNCHANGED <<masked, status, evt, p_sem, task>>
    BY <2>2 DEF Change, Bits, ehciVars
  <2>3. CASE RaiseInt(h)
    BY <2>3 DEF RaiseInt, Bits, ehciVars
  <2> QED BY <2>1, <2>2, <2>3 DEF Plug, Unplug, PortError
<1>2. CASE ThreadStep
  BY <1>2 DEF ThreadStep, ThreadTake, ThreadNext, RhRead, RhClearCsc, RhDebounce, RhClearPec,
     ResetBegin, ResetEnd, DescOk, DescFail, DescBad, AddrAlloc, SetAddrOk, SetAddrFail,
     CfgOk, CfgFail, ConnectRetry, Inject, Disconnect, EjectPutFun, DisconnectPut,
     hwVars, ehciVars
<1>3. ASSUME NEW u \in Users, UserPut(u)
      PROVE  UNCHANGED <<sts, masked, status, evt, p_sem, task>>
  BY <1>3 DEF UserPut, hwVars, ehciVars
<1> QED BY <1>1, <1>2, <1>3 DEF OtherStep

LEMMA NextSteps ==
    ASSUME Next
    PROVE  OtherStep \/ \E h \in Hcs : IrqHandle(h) \/ TaskStep(h)
BY DEF Next, OtherStep
-----------------------------------------------------------------------------
(* The interrupt                                                           *)

\* The task has a token, or is on its way from the token to the unmasking.
Early == {"evt", "clear_evt", "status", "clear_status", "unmask"}

IntTypes ==
    /\ sts \in [Hcs -> SUBSET Bits]
    /\ masked \in [Hcs -> BOOLEAN]
    /\ status \in [Hcs -> SUBSET Bits]
    /\ evt \in [Hcs -> BOOLEAN]
    /\ p_sem \in [Hcs -> {0, 1}]
    /\ task \in [Hcs -> TaskState]

\* The handler runs only unmasked, and the interrupt is masked exactly from the
\* handler to the unmasking: the handler never runs between the task's reading and
\* its resetting of the event word and of the status.
Cycle(h) ==
    /\ masked[h] <=> p_sem[h] = 1 \/ task[h].pc \in Early
    /\ task[h].pc \in Early => p_sem[h] = 0
    /\ p_sem[h] = 1 \/ task[h].pc = "evt" => evt[h]
    /\ task[h].pc \in {"clear_evt", "status"} => task[h].evt
    /\ status[h] # {} => p_sem[h] = 1 \/ task[h].pc \in {"evt", "clear_evt", "status", "clear_status"}
    /\ task[h].pc = "clear_status" => status[h] \subseteq task[h].status

IntInv == IntTypes /\ \A h \in Hcs : Cycle(h)

LEMMA IntInvInit == Init => IntInv
BY DEF Init, IntInv, IntTypes, Cycle, Early, Bits, TaskState, TaskPcs, IdleTask

\* A step of one controller leaves the others' cycle alone.
LEMMA CycleFrame ==
    ASSUME NEW g \in Hcs, Cycle(g), masked'[g] = masked[g], status'[g] = status[g],
           evt'[g] = evt[g], p_sem'[g] = p_sem[g], task'[g] = task[g]
    PROVE  Cycle(g)'
BY DEF Cycle

LEMMA IntInvStep == IntInv /\ [Next]_vars => IntInv'
<1> SUFFICES ASSUME IntInv, [Next]_vars PROVE IntInv'
  OBVIOUS
<1> USE DEF IntInv
<1>1. CASE UNCHANGED vars
  BY <1>1 DEF vars, hwVars, ehciVars, IntTypes, Cycle
<1>2. CASE OtherStep
  BY <1>2, OtherFrame DEF IntTypes, Cycle
<1>3. ASSUME NEW h \in Hcs, IrqHandle(h)
      PROVE  IntInv'
  <2>1. p_sem[h] = 0 /\ task[h].pc \notin Early
    BY <1>3 DEF IrqHandle, Cycle, IntTypes
  <2>2. IntTypes'
    BY <1>3, <2>1 DEF IrqHandle, IntTypes, Bits
  <2>3. Cycle(h)'
    BY <1>3, <2>1 DEF IrqHandle, Cycle, IntTypes, Early
  <2>4. ASSUME NEW g \in Hcs, g # h PROVE Cycle(g)'
    BY <1>3, <2>4, CycleFrame DEF IrqHandle, IntTypes
  <2> QED BY <2>2, <2>3, <2>4
<1>4. ASSUME NEW h \in Hcs, TaskStep(h)
      PROVE  IntInv'
  <2> USE DEF TaskAt, TaskTo, hwVars, ehciVars
  <2>1. IntTypes'
    <3>1. task[h] \in TaskState /\ IdleTask \in TaskState
      BY DEF IntTypes, IdleTask, TaskState, TaskPcs
    <3>2. \A s \in TaskPcs : TaskTo(h, s) => task' \in [Hcs -> TaskState]
      BY <3>1 DEF IntTypes, TaskState
    <3>3. CASE TaskTake(h)
      BY <3>2, <3>3 DEF TaskTake, IntTypes, TaskPcs
    <3>4. CASE TaskReadEvt(h)
      BY <3>4 DEF TaskReadEvt, IntTypes, TaskState, TaskPcs
    <3>5. CASE TaskClearEvt(h)
      BY <3>2, <3>5 DEF TaskClearEvt, IntTypes, TaskPcs
    <3>6. CASE TaskReadStatus(h)
      BY <3>1, <3>6 DEF TaskReadStatus, IntTypes, TaskState, TaskPcs
    <3>7. CASE TaskClearStatus(h)
      BY <3>2, <3>7 DEF TaskClearStatus, IntTypes, TaskPcs
    <3>8. CASE TaskUnmask(h)
      BY <3>2, <3>8 DEF TaskUnmask, AfterUnmask, IntTypes, TaskPcs
    <3>9. CASE TaskPortChange(h) \/ TaskEvtAdd(h) \/ TaskEvtGive(h)
      BY <3>2, <3>9 DEF TaskPortChange, TaskEvtAdd, TaskEvtGive, IntTypes, TaskPcs
    <3> QED BY <1>4, <3>3, <3>4, <3>5, <3>6, <3>7, <3>8, <3>9 DEF TaskStep
  <2>2. Cycle(h)'
    <3> USE DEF Cycle, IntTypes, Early, TaskState, IdleTask
    <3>1. CASE TaskTake(h)
      BY <3>1 DEF TaskTake
    <3>2. CASE TaskReadEvt(h)
      BY <3>2 DEF TaskReadEvt
    <3>3. CASE TaskClearEvt(h)
      BY <3>3 DEF TaskClearEvt
    <3>4. CASE TaskReadStatus(h)
      BY <3>4 DEF TaskReadStatus
    <3>5. CASE TaskClearStatus(h)
      BY <3>5 DEF TaskClearStatus
    <3>6. CASE TaskUnmask(h)
      BY <3>6 DEF TaskUnmask, AfterUnmask
    <3>7. CASE TaskPortChange(h) \/ TaskEvtAdd(h) \/ TaskEvtGive(h)
      BY <3>7 DEF TaskPortChange, TaskEvtAdd, TaskEvtGive
    <3> QED BY <1>4, <3>1, <3>2, <3>3, <3>4, <3>5, <3>6, <3>7 DEF TaskStep
  <2>3. ASSUME NEW g \in Hcs, g # h PROVE Cycle(g)'
    BY <1>4, <2>3, CycleFrame DEF TaskStep, TaskTake, TaskReadEvt, TaskClearEvt, TaskReadStatus,
       TaskClearStatus, TaskUnmask, AfterUnmask, TaskPortChange, TaskEvtAdd, TaskEvtGive, IntTypes
  <2> QED BY <2>1, <2>2, <2>3
<1> QED BY <1>1, <1>2, <1>3, <1>4, NextSteps

LEMMA IntInvImplies == IntInv => InterruptNotLost
BY DEF IntInv, IntTypes, Cycle, Early, InterruptNotLost

\* An interrupt is never lost: while the interrupt is masked, or its status is kept in
\* the driver and unread, the EHCI task has a token or is about to unmask and to look,
\* although the handler takes no lock (usbh_ehci.c:1079-1106 against :101-117, 1007-1034).
THEOREM InterruptsNotLost == Spec => []InterruptNotLost
BY IntInvInit, IntInvStep, IntInvImplies, PTL DEF Spec
-----------------------------------------------------------------------------
(* Hub events                                                              *)

\* Tasks that have put an event in the list and not given its token yet.
Givers == {h \in Hcs : task[h].pc = "give"}

\* Every event in the list has a token, given or about to be, or the thread emptying
\* the list.  A token may be left over, an event may not: the thread that meets a
\* failed handler leaves the rest of the list to the tokens.
Covered ==
    /\ hub_evt_list \in Seq(Hcs)
    /\ p_hub_evt_sem \in Nat
    /\ "pc" \in DOMAIN thr
    /\ Len(hub_evt_list) <=
           p_hub_evt_sem + Cardinality(Givers) + (IF thr.pc = "loop" THEN 1 ELSE 0)

WakerInv == IntInv /\ Covered

LEMMA GiversFinite == IsFiniteSet(Givers) /\ Cardinality(Givers) \in Nat
BY HostPortAssumption, FS_Subset, FS_CardinalityType DEF Givers

LEMMA WakerInvInit == Init => WakerInv
<1> SUFFICES ASSUME Init PROVE Covered
  BY IntInvInit DEF WakerInv
<1> QED BY GiversFinite DEF Init, Covered, IdleThread

\* The steps of the hub thread that neither take a token nor an event.
RootStep ==
    \/ RhRead \/ RhClearCsc \/ RhDebounce \/ RhClearPec \/ ResetBegin \/ ResetEnd
    \/ DescOk \/ DescFail \/ DescBad \/ AddrAlloc \/ SetAddrOk \/ SetAddrFail
    \/ CfgOk \/ CfgFail \/ ConnectRetry \/ Inject \/ Disconnect \/ EjectPutFun \/ DisconnectPut

\* The thread's program counter is a field of its record.
LEMMA ToPc ==
    ASSUME NEW s, To(s), "pc" \in DOMAIN thr
    PROVE  "pc" \in DOMAIN thr' /\ thr'.pc = s
BY Zenon DEF To

LEMMA RootFrame ==
    ASSUME RootStep, "pc" \in DOMAIN thr
    PROVE  /\ UNCHANGED <<hub_evt_list, p_hub_evt_sem, task>>
           /\ thr.pc # "loop" /\ "pc" \in DOMAIN thr'
<1>1. UNCHANGED <<hub_evt_list, p_hub_evt_sem, task>>
  BY DEF RootStep, RhRead, RhClearCsc, RhDebounce, RhClearPec, ResetBegin, ResetEnd, DescOk,
     DescFail, DescBad, AddrAlloc, SetAddrOk, SetAddrFail, CfgOk, CfgFail, ConnectRetry, Inject,
     Disconnect, EjectPutFun, DisconnectPut, hwVars, ehciVars, listVars
<1>2. thr.pc # "loop"
  BY DEF RootStep, RhRead, RhClearCsc, RhDebounce, RhClearPec, ResetBegin, ResetEnd, DescOk,
     DescFail, DescBad, AddrAlloc, SetAddrOk, SetAddrFail, CfgOk, CfgFail, ConnectRetry, Inject,
     Disconnect, EjectPutFun, DisconnectPut, At
<1>3. "pc" \in DOMAIN thr'
  <2>1. "pc" \in DOMAIN IdleThread
    BY Zenon DEF IdleThread
  <2>2. "pc" \in DOMAIN [IdleThread EXCEPT !.pc = "loop"]
    BY <2>1, Zenon
  <2>3. AddrFailed => "pc" \in DOMAIN thr'
    BY Zenon DEF AddrFailed
  <2>4. AttemptFailed => "pc" \in DOMAIN thr'
    BY ToPc DEF AttemptFailed
  <2>5. CASE RhRead
    BY <2>5, Zenon DEF RhRead
  <2>6. CASE RhClearCsc
    BY <2>6, ToPc DEF RhClearCsc
  <2>7. CASE RhDebounce
    BY <2>7, ToPc, Zenon DEF RhDebounce
  <2>8. CASE RhClearPec
    BY <2>1, <2>2, <2>8, Zenon DEF RhClearPec
  <2>9. CASE ResetBegin
    BY <2>9, ToPc DEF ResetBegin
  <2>10. CASE ResetEnd
    BY <2>10, ToPc DEF ResetEnd
  <2>11. CASE DescOk
    BY <2>11, Zenon DEF DescOk
  <2>12. CASE DescFail
    BY <2>4, <2>12, Zenon DEF DescFail
  <2>13. CASE DescBad
    BY <2>4, <2>13, Zenon DEF DescBad
  <2>14. CASE AddrAlloc
    BY <2>3, <2>14, Zenon DEF AddrAlloc
  <2>15. CASE SetAddrOk
    BY <2>15, Zenon DEF SetAddrOk
  <2>16. CASE SetAddrFail
    BY <2>3, <2>16, Zenon DEF SetAddrFail
  <2>17. CASE CfgOk
    BY <2>17, ToPc DEF CfgOk
  <2>18. CASE CfgFail
    BY <2>4, <2>18, Zenon DEF CfgFail
  <2>19. CASE ConnectRetry
    BY <2>1, <2>2, <2>19, Zenon DEF ConnectRetry
  <2>20. CASE Inject
    BY <2>20, ToPc DEF Inject
  <2>21. CASE Disconnect
    BY <2>21, ToPc, Zenon DEF Disconnect
  <2>22. CASE EjectPutFun
    BY <2>22, ToPc DEF EjectPutFun
  <2>23. CASE DisconnectPut
    BY <2>23, ToPc DEF DisconnectPut
  <2> QED BY <2>5, <2>6, <2>7, <2>8, <2>9, <2>10, <2>11, <2>12, <2>13,
       <2>14, <2>15, <2>16, <2>17, <2>18, <2>19, <2>20, <2>21, <2>22, <2>23 DEF RootStep
<1> QED BY <1>1, <1>2, <1>3

LEMMA WakerInvStep == WakerInv /\ [Next]_vars => WakerInv'
<1> SUFFICES ASSUME IntInv, Covered, [Next]_vars PROVE Covered'
  BY IntInvStep DEF WakerInv
<1>1. ASSUME UNCHANGED <<hub_evt_list, p_hub_evt_sem, thr, task>>
      PROVE  Covered'
  BY <1>1 DEF Covered, Givers
<1>2. CASE UNCHANGED vars
  BY <1>1, <1>2 DEF vars, ehciVars, listVars
<1>3. CASE Hardware
  BY <1>1, <1>3 DEF Hardware, Plug, Unplug, PortError, RaiseInt, Change, ehciVars, listVars
<1>4. ASSUME NEW u \in Users, UserPut(u) PROVE Covered'
  BY <1>1, <1>4 DEF UserPut, ehciVars, listVars
<1>5. ASSUME NEW h \in Hcs, IrqHandle(h) PROVE Covered'
  BY <1>1, <1>5 DEF IrqHandle, listVars
<1>6. CASE ThreadTake
  <2>1. thr.pc = "wait" /\ thr'.pc = "loop" /\ "pc" \in DOMAIN thr'
    BY <1>6, ToPc DEF ThreadTake, At, Covered
  <2> QED BY <1>6, <2>1, GiversFinite DEF ThreadTake, Covered, Givers, ehciVars
<1>7. CASE ThreadNext
  <2>1. CASE hub_evt_list = <<>>
    BY <1>7, <2>1, GiversFinite DEF ThreadNext, At, Covered, Givers, IdleThread, ehciVars, listVars
  <2>2. CASE hub_evt_list # <<>>
    <3>1. thr.pc = "loop" /\ "pc" \in DOMAIN thr'
      <4>1. "pc" \in DOMAIN IdleThread
        BY Zenon DEF IdleThread
      <4> QED BY <1>7, <2>2, <4>1, Zenon DEF ThreadNext, At
    <3>2. Len(Tail(hub_evt_list)) = Len(hub_evt_list) - 1 /\ Tail(hub_evt_list) \in Seq(Hcs)
      BY <2>2 DEF Covered
    <3>3. hub_evt_list' = Tail(hub_evt_list) /\ UNCHANGED <<p_hub_evt_sem, task>>
      BY <1>7, <2>2 DEF ThreadNext, ehciVars
    <3> QED BY <3>1, <3>2, <3>3, GiversFinite DEF Covered, Givers
  <2> QED BY <2>1, <2>2
<1>8. CASE RootStep
  BY <1>8, RootFrame, GiversFinite DEF Covered, Givers
<1>9. ASSUME NEW h \in Hcs, TaskStep(h) PROVE Covered'
  <2> USE DEF TaskAt, TaskTo, IdleTask
  <2>1. task \in [Hcs -> TaskState]
    BY DEF IntInv, IntTypes
  <2>2. CASE TaskEvtAdd(h)
    <3>1. h \notin Givers /\ Givers' = Givers \cup {h}
      BY <2>1, <2>2 DEF TaskEvtAdd, Givers, TaskState
    <3>2. Cardinality(Givers') = Cardinality(Givers) + 1
      BY <3>1, GiversFinite, FS_AddElement
    <3> QED BY <2>2, <3>2, GiversFinite DEF TaskEvtAdd, Covered
  <2>3. CASE TaskEvtGive(h)
    <3>1. h \in Givers /\ Givers' = Givers \ {h}
      BY <2>1, <2>3 DEF TaskEvtGive, Givers, TaskState
    <3>2. Cardinality(Givers') = Cardinality(Givers) - 1
      BY <3>1, GiversFinite, FS_RemoveElement
    <3> QED BY <2>3, <3>2, GiversFinite DEF TaskEvtGive, Covered
  <2>4. CASE \/ TaskTake(h) \/ TaskReadEvt(h) \/ TaskClearEvt(h) \/ TaskReadStatus(h)
             \/ TaskClearStatus(h) \/ TaskUnmask(h) \/ TaskPortChange(h)
    <3>1. /\ task[h].pc # "give" /\ task'[h].pc # "give"
          /\ \A g \in Hcs \ {h} : task'[g] = task[g]
      BY <2>1, <2>4 DEF TaskTake, TaskReadEvt, TaskClearEvt, TaskReadStatus, TaskClearStatus,
         TaskUnmask, AfterUnmask, TaskPortChange, TaskState
    <3>2. Givers' = Givers
      BY <3>1 DEF Givers
    <3>3. UNCHANGED <<hub_evt_list, p_hub_evt_sem, thr>>
      BY <2>4 DEF TaskTake, TaskReadEvt, TaskClearEvt, TaskReadStatus, TaskClearStatus,
         TaskUnmask, TaskPortChange, listVars
    <3> QED BY <3>2, <3>3 DEF Covered
  <2> QED BY <1>9, <2>2, <2>3, <2>4 DEF TaskStep
<1> QED BY <1>2, <1>3, <1>4, <1>5, <1>6, <1>7, <1>8, <1>9 DEF Next, ThreadStep, RootStep

LEMMA WakerInvImplies == WakerInv => EventHasWaker
<1> SUFFICES ASSUME Covered, hub_evt_list # <<>>, p_hub_evt_sem = 0, thr.pc = "wait"
             PROVE  \E h \in Hcs : task[h].pc = "give"
  BY DEF WakerInv, Covered, EventHasWaker
<1>1. Len(hub_evt_list) > 0
  BY DEF Covered
<1>2. Cardinality(Givers) # 0
  BY <1>1, GiversFinite DEF Covered
<1>3. Givers # {}
  BY <1>2, FS_EmptySet
<1> QED BY <1>3 DEF Givers

\* A hub event in the list always has a token given or about to be, or the hub thread
\* at work, whatever handlers fail: events of any number of controllers are added and
\* given in two steps each (usbh_dev.c:1310-1320) and taken without a lock around the
\* whole (usbh_dev.c:1371-1402).
THEOREM EventsHaveWakers == Spec => []EventHasWaker
BY WakerInvInit, WakerInvStep, WakerInvImplies, PTL DEF Spec
-----------------------------------------------------------------------------
(* Devices: types and parameters                                          *)

ThrType == [pc : ThreadPcs, hc : Hcs \cup {NoHc}, rd : PortSc, n : Nat,
            try : 0..(Attempts - 1), dev : Devs \cup {NoDev}, addr : Addrs \cup {0},
            after : {"desc", "addr"}]
DevType == [live : BOOLEAN, hc : Hcs \cup {NoHc}, addr : Addrs \cup {0}, ref_cnt : Nat,
            inject : BOOLEAN, desc : BOOLEAN, cfg : BOOLEAN]

\* The types that the interrupt's invariant does not give.
Types ==
    /\ port \in [Hcs -> PortSc]
    /\ hwaddr \in [Hcs -> Addrs \cup {0}]
    /\ changes \in 0..MaxChanges
    /\ p_psta \in [Hcs -> SUBSET PortSc]
    /\ thr \in ThrType
    /\ p_ports \in [Hcs -> Devs \cup {NoDev}]
    /\ dev \in [Devs -> DevType]
    /\ map \in [Hcs -> SUBSET Addrs]
    /\ held \in [Users -> Devs \cup {NoDev}]

\* The tries of every loop of an enumeration, by the loop the thread is in.
Tries ==
    /\ thr.pc \in {"read", "clear_csc"} => thr.n = 0
    /\ thr.pc = "stable" => thr.n < Debounce
    /\ thr.pc \in {"reset", "reset_end", "desc"} =>
           thr.n < (IF thr.after = "desc" THEN DescTries ELSE 1)
    /\ thr.pc = "desc" => thr.after = "desc"
    /\ thr.pc \in {"addr", "set_addr"} => thr.n < AddrTries
    /\ \E bound \in {Debounce, DescTries, AddrTries} : thr.n < bound

\* The thread enumerates a device object, or puts its references to one.
Enumerating == {"reset", "reset_end", "desc", "addr", "set_addr", "cfg", "check", "inject"}
Putting == {"put_fun", "put"}

Place ==
    /\ thr.pc \notin {"wait", "loop"} => thr.hc \in Hcs
    /\ thr.pc \in Enumerating =>
           /\ thr.dev \in Devs
           /\ dev[thr.dev].live /\ dev[thr.dev].inject /\ dev[thr.dev].hc = thr.hc
           /\ \A h \in Hcs : p_ports[h] # thr.dev
           /\ \A u \in Users : held[u] # thr.dev
           /\ thr.pc # "inject" => ~dev[thr.dev].cfg
    /\ thr.pc \in Putting => thr.dev \in Devs /\ ~dev[thr.dev].inject

Holders(d) == {u \in Users : held[u] = d}
ThreadRefs(d) ==
    IF thr.dev = d /\ thr.pc = "put" THEN 1
    ELSE IF thr.dev = d /\ thr.pc = "put_fun" THEN 2 ELSE 0
OwnRefs(d) ==
    IF ~dev[d].inject THEN 0
    ELSE IF dev[d].cfg /\ ~(thr.dev = d /\ thr.pc = "inject") THEN 2 ELSE 1

\* The count of a device object.
Counted(d) ==
    /\ Cardinality(Holders(d)) + ThreadRefs(d) > 0 => dev[d].live
    /\ dev[d].live => dev[d].ref_cnt = Cardinality(Holders(d)) + ThreadRefs(d) + OwnRefs(d)
    /\ ~dev[d].live => dev[d].ref_cnt = 0

\* The devices n_dev counts: a port's, and those a later connection took the port from.
Injected ==
    {d \in Devs : dev[d].live /\ dev[d].inject /\ ~(thr.pc \in Enumerating /\ thr.dev = d)}

Owner(d, h) == dev[d].live /\ dev[d].hc = h /\ dev[d].addr # 0

\* The bitmaps, and the device under reset: one that has an address already is not
\* reached, for it listens at address zero.
Addresses ==
    /\ \A h \in Hcs, a \in Addrs : a \in map[h] <=>
           \/ \E d \in Devs : Owner(d, h) /\ dev[d].addr = a
           \/ thr.pc = "set_addr" /\ thr.hc = h /\ thr.addr = a
    /\ \A d, e \in Devs, h \in Hcs :
           Owner(d, h) /\ Owner(e, h) /\ dev[d].addr = dev[e].addr => d = e
    /\ thr.pc = "set_addr" =>
           thr.addr # 0 /\ \A d \in Devs : Owner(d, thr.hc) => dev[d].addr # thr.addr
    /\ \A d \in Devs : dev[d].live => dev[d].hc \in Hcs
    /\ thr.pc \in {"reset_end", "desc", "addr", "set_addr"} /\ dev[thr.dev].addr # 0 =>
           hwaddr[thr.hc] = 0

LifeInv ==
    /\ Types /\ Tries /\ Place /\ PortAlive
    /\ \A d \in Devs : Counted(d)
    /\ n_dev = Cardinality(Injected)
    /\ Addresses
-----------------------------------------------------------------------------
(* Types                                                                   *)

LEMMA Constants ==
    /\ {MaxAddr, MaxDev, Debounce, Attempts, DescTries, AddrTries} \subseteq Nat \ {0}
    /\ NoHc \notin Hcs /\ NoDev \notin Devs /\ MaxChanges \in Nat
    /\ 0 \notin Addrs
    /\ EmptyPort \in PortSc /\ IdleThread \in ThrType /\ NoDevice \in DevType
BY HostPortAssumption DEF Addrs, EmptyPort, PortSc, IdleThread, ThrType, ThreadPcs, NoDevice,
   DevType

LEMMA TypesInit == Init => Types
BY Constants DEF Init, Types, Unseen

\* The steps of the tasks and the interrupt handler only look at a port.
LEMMA TaskFrame ==
    ASSUME Types, NEW h \in Hcs, IrqHandle(h) \/ TaskStep(h)
    PROVE  /\ p_psta' \in [Hcs -> SUBSET PortSc]
           /\ UNCHANGED <<port, hwaddr, changes, thr, devVars>>
<1>1. UNCHANGED <<port, hwaddr, changes, thr, devVars>>
  BY DEF IrqHandle, TaskStep, TaskTake, TaskReadEvt, TaskClearEvt, TaskReadStatus,
     TaskClearStatus, TaskUnmask, TaskPortChange, TaskEvtAdd, TaskEvtGive, hwVars, devVars
<1>2. p_psta' \in [Hcs -> SUBSET PortSc]
  <2>1. CASE TaskPortChange(h)
    <3>1. {port[h]} \in SUBSET PortSc
      BY DEF Types
    <3> QED BY <2>1, <3>1 DEF TaskPortChange, Types
  <2>2. CASE UNCHANGED p_psta
    BY <2>2 DEF Types
  <2> QED BY <2>1, <2>2 DEF IrqHandle, TaskStep, TaskTake, TaskReadEvt, TaskClearEvt,
       TaskReadStatus, TaskClearStatus, TaskUnmask, TaskEvtAdd, TaskEvtGive
<1> QED BY <1>1, <1>2

LEMMA HardwareFrame ==
    ASSUME Types, Hardware
    PROVE  /\ port' \in [Hcs -> PortSc] /\ changes' \in 0..MaxChanges
           /\ UNCHANGED <<p_psta, thr, devVars>>
           /\ hwaddr' = hwaddr \/ \E h \in Hcs : hwaddr' = [hwaddr EXCEPT ![h] = 0]
<1>1. PICK h \in Hcs : Plug(h) \/ Unplug(h) \/ PortError(h) \/ RaiseInt(h)
  BY DEF Hardware
<1>2. port[h] \in PortSc
  BY DEF Types
<1>3. ASSUME NEW p \in PortSc, Change(h, p)
      PROVE  /\ port' \in [Hcs -> PortSc] /\ changes' \in 0..MaxChanges
             /\ UNCHANGED <<p_psta, thr, devVars>>
  BY <1>3, Constants DEF Change, Types, ehciVars
<1>4. CASE Plug(h)
  <2>1. [port[h] EXCEPT !.conn = TRUE, !.csc = TRUE] \in PortSc
    BY <1>2 DEF PortSc
  <2> QED BY <1>3, <1>4, <2>1 DEF Plug
<1>5. CASE Unplug(h)
  <2>1. [port[h] EXCEPT !.conn = FALSE, !.csc = TRUE, !.pe = FALSE] \in PortSc
    BY <1>2 DEF PortSc
  <2> QED BY <1>3, <1>5, <2>1 DEF Unplug
<1>6. CASE PortError(h)
  <2>1. [port[h] EXCEPT !.pe = FALSE, !.pec = TRUE] \in PortSc
    BY <1>2 DEF PortSc
  <2> QED BY <1>3, <1>6, <2>1 DEF PortError
<1>7. CASE RaiseInt(h)
  BY <1>7, Constants DEF RaiseInt, Types, ehciVars
<1> QED BY <1>1, <1>4, <1>5, <1>6, <1>7

\* Moving the hub thread keeps its type.
LEMMA ToType ==
    ASSUME thr \in ThrType, NEW s \in ThreadPcs, To(s)
    PROVE  thr' \in ThrType
BY DEF To, ThrType

LEMMA FieldType ==
    ASSUME NEW r \in ThrType
    PROVE  /\ \A s \in ThreadPcs : [r EXCEPT !.pc = s] \in ThrType
           /\ \A f \in {"desc", "addr"} : [r EXCEPT !.after = f] \in ThrType
           /\ \A k \in Nat : [r EXCEPT !.n = k] \in ThrType
           /\ \A a \in Addrs \cup {0} : [r EXCEPT !.addr = a] \in ThrType
           /\ \A i \in 0..(Attempts - 1) : [r EXCEPT !.try = i] \in ThrType
BY DEF ThrType

\* The moves of an enumeration that set more fields than the program counter.
LEMMA MoveTypes ==
    ASSUME thr \in ThrType
    PROVE  /\ [thr EXCEPT !.pc = "check"] \in ThrType
           /\ [thr EXCEPT !.pc = "inject"] \in ThrType
           /\ [thr EXCEPT !.pc = "check", !.addr = 0] \in ThrType
           /\ [thr EXCEPT !.pc = "reset", !.n = thr.n + 1] \in ThrType
           /\ [thr EXCEPT !.pc = "addr", !.n = thr.n + 1, !.addr = 0] \in ThrType
           /\ [thr EXCEPT !.pc = "reset", !.after = "addr", !.n = 0] \in ThrType
           /\ thr.try + 1 < Attempts =>
                  [thr EXCEPT !.pc = "reset", !.after = "desc", !.n = 0, !.try = thr.try + 1]
                      \in ThrType
<1>1. \A s \in {"check", "inject", "reset", "addr"} :
          s \in ThreadPcs /\ [thr EXCEPT !.pc = s] \in ThrType
  BY FieldType DEF ThreadPcs
<1>2. thr.n + 1 \in Nat /\ 0 \in Addrs \cup {0} /\ 0 \in Nat
  BY DEF ThrType
<1>3. [thr EXCEPT !.pc = "check", !.addr = 0] \in ThrType
  BY <1>1, <1>2, FieldType
<1>4. [thr EXCEPT !.pc = "reset", !.n = thr.n + 1] \in ThrType
  BY <1>1, <1>2, FieldType
<1>5. [thr EXCEPT !.pc = "addr", !.n = thr.n + 1, !.addr = 0] \in ThrType
  <2>1. [thr EXCEPT !.pc = "addr", !.n = thr.n + 1] \in ThrType
    BY <1>1, <1>2, FieldType
  <2> QED BY <1>2, <2>1, FieldType
<1>6. \A f \in {"desc", "addr"} : [thr EXCEPT !.pc = "reset", !.after = f, !.n = 0] \in ThrType
  <2>1. \A f \in {"desc", "addr"} : [thr EXCEPT !.pc = "reset", !.after = f] \in ThrType
    BY <1>1, FieldType
  <2> QED BY <1>2, <2>1, FieldType
<1>7. ASSUME thr.try + 1 < Attempts
      PROVE  [thr EXCEPT !.pc = "reset", !.after = "desc", !.n = 0, !.try = thr.try + 1] \in ThrType
  <2>1. thr.try + 1 \in 0..(Attempts - 1)
    BY <1>7, HostPortAssumption DEF ThrType
  <2> QED BY <1>6, <2>1, FieldType
<1> QED BY <1>1, <1>3, <1>4, <1>5, <1>6, <1>7

\* A write to the port of the event being handled keeps the types.
LEMMA WriteType ==
    ASSUME NEW p \in PortSc
    PROVE  /\ WriteBack(p) \in PortSc
           /\ [WriteBack(p) EXCEPT !.rst = TRUE, !.pe = FALSE] \in PortSc
           /\ \A b \in BOOLEAN : [WriteBack(p) EXCEPT !.rst = FALSE, !.pe = b] \in PortSc
BY DEF WriteBack, PortSc

LEMMA HoldersFinite ==
    /\ \A d : IsFiniteSet(Holders(d)) /\ Cardinality(Holders(d)) \in Nat
    /\ \A S \in SUBSET Users : IsFiniteSet(S) /\ Cardinality(S) \in Nat
<1>1. ASSUME NEW S \in SUBSET Users PROVE IsFiniteSet(S) /\ Cardinality(S) \in Nat
  BY HostPortAssumption, FS_Subset, FS_CardinalityType
<1>2. \A d : Holders(d) \in SUBSET Users
  BY DEF Holders
<1> QED BY <1>1, <1>2

LEMMA InjectedFinite ==
    /\ IsFiniteSet(Devs) /\ Cardinality(Devs) = MaxDev
    /\ IsFiniteSet(Injected) /\ Cardinality(Injected) \in 0..MaxDev
<1>1. 1 \in Int /\ MaxDev \in Int /\ MaxDev > 0
  BY HostPortAssumption
<1>2. IsFiniteSet(Devs) /\ Cardinality(Devs) = MaxDev
  BY <1>1, FS_Interval DEF Devs
<1>3. Injected \in SUBSET Devs
  BY DEF Injected
<1> QED BY <1>1, <1>2, <1>3, FS_Subset, FS_CardinalityType

\* Putting a reference keeps the types.
LEMMA PutType ==
    ASSUME Types, NEW d \in Devs, Put(d)
    PROVE  dev' \in [Devs -> DevType] /\ map' \in [Hcs -> SUBSET Addrs]
<1>1. dev[d] \in DevType
  BY DEF Types
<1>2. CASE dev[d].ref_cnt > 1
  <2>1. [dev[d] EXCEPT !.ref_cnt = dev[d].ref_cnt - 1] \in DevType
    BY <1>1, <1>2 DEF DevType
  <2>2. dev' = [dev EXCEPT ![d] = [dev[d] EXCEPT !.ref_cnt = dev[d].ref_cnt - 1]] /\ map' = map
    BY <1>2 DEF Put
  <2> QED BY <2>1, <2>2 DEF Types
<1>3. CASE ~(dev[d].ref_cnt > 1)
  <2>1. dev' = [dev EXCEPT ![d] = NoDevice] /\ map' = FreeAddr(d)
    BY <1>3 DEF Put
  <2> QED BY <2>1, Constants DEF Types, FreeAddr
<1> QED BY <1>2, <1>3

\* A device object is made where none is.
LEMMA Lowest ==
    ASSUME NEW T, T \subseteq Nat, T # {}
    PROVE  \E x \in T : \A y \in T : x <= y
<1>1. PICK x \in T : \A y \in T : <<y, x>> \notin OpToRel(<, Nat)
  BY WFMin, NatLessThanWellFounded
<1>2. \A y \in T : ~(y < x)
  BY <1>1 DEF OpToRel
<1> QED BY <1>2

NewDevice == [NoDevice EXCEPT !.live = TRUE, !.hc = thr.hc, !.ref_cnt = 1, !.inject = TRUE]

LEMMA DebounceCases ==
    ASSUME RhDebounce
    PROVE  \/ To("clear_pec") /\ UNCHANGED dev
           \/ thr.n + 1 < Debounce /\ thr' = [thr EXCEPT !.n = @ + 1] /\ UNCHANGED dev
           \/ \E d \in Devs :
                  /\ ~dev[d].live
                  /\ dev' = [dev EXCEPT ![d] = NewDevice]
                  /\ thr' = [thr EXCEPT !.pc = "reset", !.n = 0, !.dev = d, !.after = "desc"]
<1> DEFINE Free == {d \in Devs : ~dev[d].live}
           Fit(d) == ~dev[d].live /\ \A c \in 1..(d - 1) : dev[c].live
           first == CHOOSE d \in Devs : Fit(d)
<1>1. SUFFICES ASSUME \E c \in Devs : ~dev[c].live,
                      dev' = [dev EXCEPT ![first] = NewDevice],
                      thr' = [thr EXCEPT !.pc = "reset", !.n = 0, !.dev = first, !.after = "desc"]
               PROVE  first \in Devs /\ ~dev[first].live
  BY Zenon DEF RhDebounce, NewDevice
<1>2. PICK d \in Free : \A c \in Free : d <= c
  <2>1. Free \subseteq Nat /\ Free # {}
    BY <1>1, Constants DEF Devs
  <2> HIDE DEF Free
  <2> QED BY <2>1, Lowest
<1>3. d \in Devs /\ Fit(d)
  <2>1. d \in Devs /\ ~dev[d].live
    OBVIOUS
  <2>2. ASSUME NEW c \in 1..(d - 1) PROVE dev[c].live
    <3>1. c \in Devs /\ c < d
      BY <2>1, Constants DEF Devs
    <3> QED BY <1>2, <3>1, <2>1, Constants DEF Devs
  <2> QED BY <2>1, <2>2
<1> HIDE DEF Fit
<1>4. first \in Devs /\ Fit(first)
  BY <1>3, Zenon
<1> QED BY <1>4 DEF Fit

LEMMA ThreadTypes ==
    ASSUME Types, Place, hub_evt_list \in Seq(Hcs), ThreadStep
    PROVE  Types'
<1> USE Constants
<1>1. thr \in ThrType /\ IdleThread \in ThrType
  BY DEF Types
<1>2. ASSUME At("wait") \/ At("loop"), ThreadTake \/ ThreadNext
      PROVE Types'
  <2>1. thr' \in ThrType
    <3>1. CASE ThreadTake
      BY <1>1, <3>1, ToType DEF ThreadTake, ThreadPcs
    <3>2. CASE ThreadNext
      <4>1. hub_evt_list # <<>> => Head(hub_evt_list) \in Hcs
        OBVIOUS
      <4>2. \A h \in Hcs : [IdleThread EXCEPT !.pc = "read", !.hc = h] \in ThrType
        BY <1>1 DEF ThrType, ThreadPcs
      <4> QED BY <3>2, <4>1, <4>2 DEF ThreadNext
    <3> QED BY <1>2, <3>1, <3>2
  <2> QED BY <1>2, <2>1 DEF Types, ThreadTake, ThreadNext, hwVars, ehciVars, devVars
<1>3. ASSUME RhRead \/ RhClearCsc \/ RhClearPec \/ ResetBegin \/ ResetEnd
      PROVE  Types'
  <2>1. thr.hc \in Hcs /\ P \in PortSc
    BY <1>3 DEF Place, Types, RhRead, RhClearCsc, RhClearPec, ResetBegin, ResetEnd, At, P
  <2>2. CASE RhRead
    <3>1. \A s \in ThreadPcs : [thr EXCEPT !.rd = P, !.pc = s] \in ThrType
      BY <1>1, <2>1 DEF ThrType
    <3>2. thr' \in ThrType
      BY <2>2, <3>1 DEF RhRead, ThreadPcs
    <3> QED BY <2>2, <3>2 DEF RhRead, Types, hwVars, ehciVars, devVars
  <2>3. CASE RhClearCsc
    <3>1. thr' \in ThrType
      BY <1>1, <2>3, ToType DEF RhClearCsc, ThreadPcs
    <3>2. port' \in [Hcs -> PortSc]
      BY <2>1, <2>3, WriteType DEF RhClearCsc, Types, P
    <3> QED BY <2>3, <3>1, <3>2 DEF RhClearCsc, Types, ehciVars, devVars
  <2>4. CASE RhClearPec
    <3>1. thr' \in ThrType
      BY <1>1, <2>4 DEF RhClearPec, ThrType, ThreadPcs
    <3>2. port' \in [Hcs -> PortSc]
      BY <2>1, <2>4, WriteType DEF RhClearPec, Types, P
    <3> QED BY <2>4, <3>1, <3>2 DEF RhClearPec, Types, ehciVars, devVars
  <2>5. CASE ResetBegin
    <3>1. thr' \in ThrType
      BY <1>1, <2>5, ToType DEF ResetBegin, ThreadPcs
    <3>2. port' \in [Hcs -> PortSc]
      BY <2>1, <2>5, WriteType DEF ResetBegin, Types, P
    <3>3. hwaddr' \in [Hcs -> Addrs \cup {0}] /\ p_psta' \in [Hcs -> SUBSET PortSc]
      BY <2>5 DEF ResetBegin, Types, Unseen
    <3> QED BY <2>5, <3>1, <3>2, <3>3 DEF ResetBegin, Types, devVars
  <2>6. CASE ResetEnd
    <3>1. thr.after \in ThreadPcs
      BY <1>1 DEF ThrType, ThreadPcs
    <3>2. thr' \in ThrType
      BY <1>1, <2>6, <3>1, ToType DEF ResetEnd
    <3>3. P.conn \in BOOLEAN
      BY <2>1 DEF PortSc
    <3>4. port' \in [Hcs -> PortSc]
      BY <2>1, <2>6, <3>3, WriteType DEF ResetEnd, Types, P
    <3> QED BY <2>6, <3>2, <3>4 DEF ResetEnd, Types, ehciVars, devVars
  <2> QED BY <1>3, <2>2, <2>3, <2>4, <2>5, <2>6
<1>4. CASE RhDebounce
  <2>1. thr.hc \in Hcs
    BY <1>4 DEF Place, RhDebounce, At
  <2>2. ASSUME UNCHANGED dev, To("clear_pec") \/ thr' = [thr EXCEPT !.n = @ + 1]
        PROVE  Types'
    <3>1. thr' \in ThrType
      <4>1. thr.n + 1 \in Nat
        BY <1>1 DEF ThrType
      <4>2. CASE thr' = [thr EXCEPT !.n = thr.n + 1]
        BY <1>1, <4>1, <4>2, FieldType
      <4>3. CASE To("clear_pec")
        BY <1>1, <4>3, ToType DEF ThreadPcs
      <4> QED BY <2>2, <4>2, <4>3
    <3> QED BY <1>4, <2>2, <3>1 DEF RhDebounce, Types, hwVars, ehciVars
  <2>3. ASSUME NEW d \in Devs, dev' = [dev EXCEPT ![d] = NewDevice],
               thr' = [thr EXCEPT !.pc = "reset", !.n = 0, !.dev = d, !.after = "desc"]
        PROVE  Types'
    <3>1. NewDevice \in DevType
      BY <2>1 DEF NewDevice, NoDevice, DevType
    <3>2. thr' \in ThrType
      BY <1>1, <2>3 DEF ThrType, ThreadPcs
    <3>3. dev' \in [Devs -> DevType]
      BY <2>3, <3>1 DEF Types
    <3> QED BY <1>4, <3>2, <3>3 DEF RhDebounce, Types, hwVars, ehciVars
  <2> QED BY <1>4, <2>2, <2>3, DebounceCases
<1>5. ASSUME DescOk \/ CfgOk \/ SetAddrOk
      PROVE  Types'
  <2>1. thr.dev \in Devs /\ thr.hc \in Hcs /\ dev[thr.dev] \in DevType
    BY <1>5 DEF Place, Enumerating, DescOk, CfgOk, SetAddrOk, At, Types
  <2>2. thr' \in ThrType
    <3>1. CASE DescOk
      <4>1. thr' = [thr EXCEPT !.pc = "reset", !.after = "addr", !.n = 0]
        BY <3>1, Zenon DEF DescOk
      <4> QED BY <1>1, <4>1, MoveTypes, Zenon
    <3>2. CASE CfgOk
      BY <1>1, <3>2, ToType DEF CfgOk, ThreadPcs
    <3>3. CASE SetAddrOk
      BY <1>1, <3>3 DEF SetAddrOk, ThrType, ThreadPcs
    <3> QED BY <1>5, <3>1, <3>2, <3>3
  <2>3. thr.addr \in Addrs \cup {0}
    BY <1>1 DEF ThrType
  <2>4. dev' \in [Devs -> DevType]
    <3>1. /\ [dev[thr.dev] EXCEPT !.desc = TRUE] \in DevType
          /\ [dev[thr.dev] EXCEPT !.cfg = TRUE] \in DevType
          /\ [dev[thr.dev] EXCEPT !.addr = thr.addr] \in DevType
      BY <2>1, <2>3 DEF DevType
    <3>2. \/ dev' = [dev EXCEPT ![thr.dev] = [dev[thr.dev] EXCEPT !.desc = TRUE]]
          \/ dev' = [dev EXCEPT ![thr.dev] = [dev[thr.dev] EXCEPT !.cfg = TRUE]]
          \/ dev' = [dev EXCEPT ![thr.dev] = [dev[thr.dev] EXCEPT !.addr = thr.addr]]
      BY <1>5 DEF DescOk, CfgOk, SetAddrOk
    <3> QED BY <3>1, <3>2 DEF Types
  <2>5. hwaddr' \in [Hcs -> Addrs \cup {0}]
    BY <1>5, <2>3 DEF DescOk, CfgOk, SetAddrOk, Types, hwVars
  <2> QED BY <1>5, <2>2, <2>4, <2>5 DEF DescOk, CfgOk, SetAddrOk, Types, hwVars, ehciVars
<1>6. CASE DescFail \/ DescBad \/ CfgFail
  <2>1. thr' \in ThrType
    <3>1. \/ thr' = [thr EXCEPT !.pc = "check"]
          \/ thr' = [thr EXCEPT !.pc = "reset", !.n = thr.n + 1]
          \/ thr' = [thr EXCEPT !.pc = "reset", !.after = "addr", !.n = 0]
      BY <1>6, Zenon DEF DescFail, DescBad, CfgFail, AttemptFailed, To
    <3> QED BY <1>1, <3>1, MoveTypes, Zenon
  <2> QED BY <1>6, <2>1 DEF DescFail, DescBad, CfgFail, Types, hwVars, ehciVars, devVars
<1>7. CASE AddrAlloc
  <2>1. PICK a \in Addrs : /\ map' = [map EXCEPT ![thr.hc] = @ \cup {a}]
                           /\ thr' = [thr EXCEPT !.pc = "set_addr", !.addr = a]
    BY <1>7 DEF AddrAlloc
  <2>2. thr' \in ThrType
    BY <1>1, <2>1 DEF ThrType, ThreadPcs
  <2>3. map' \in [Hcs -> SUBSET Addrs]
    BY <2>1 DEF Types
  <2> QED BY <1>7, <2>2, <2>3 DEF AddrAlloc, Types, hwVars, ehciVars
<1>8. CASE SetAddrFail
  <2>1. thr' \in ThrType
    <3>1. \/ thr' = [thr EXCEPT !.pc = "addr", !.n = thr.n + 1, !.addr = 0]
          \/ thr' = [thr EXCEPT !.pc = "check", !.addr = 0]
      BY <1>8, Zenon DEF SetAddrFail, AddrFailed
    <3> QED BY <1>1, <3>1, MoveTypes, Zenon
  <2>2. thr.addr \in Addrs \cup {0}
    BY <1>1 DEF ThrType
  <2>3. hwaddr' \in [Hcs -> Addrs \cup {0}] /\ map' \in [Hcs -> SUBSET Addrs]
    BY <1>8, <2>2 DEF SetAddrFail, TookAddress, Types
  <2> QED BY <1>8, <2>1, <2>3 DEF SetAddrFail, Types, ehciVars
<1>9. CASE ConnectRetry
  <2>1. thr' \in ThrType
    <3>1. \/ /\ thr.try + 1 < Attempts
             /\ thr' = [thr EXCEPT !.pc = "reset", !.after = "desc", !.n = 0, !.try = thr.try + 1]
          \/ thr' = [thr EXCEPT !.pc = "inject"]
          \/ thr' = IdleThread
      BY <1>9, Zenon DEF ConnectRetry
    <3> QED BY <1>1, <3>1, MoveTypes, Zenon
  <2>2. dev' \in [Devs -> DevType] /\ map' \in [Hcs -> SUBSET Addrs]
    BY <1>9 DEF ConnectRetry, FreeAddr, Types
  <2> QED BY <1>9, <2>1, <2>2 DEF ConnectRetry, Types, hwVars, ehciVars
<1>10. CASE Inject
  <2>1. thr.dev \in Devs /\ thr.hc \in Hcs /\ dev[thr.dev] \in DevType
    BY <1>10 DEF Place, Enumerating, Inject, At, Types
  <2>2. PICK S \in SUBSET MayTake :
            /\ Takers(S)
            /\ dev' = [dev EXCEPT ![thr.dev].ref_cnt =
                          @ + (IF D.cfg THEN 1 ELSE 0) + Cardinality(S)]
    BY <1>10 DEF Inject
  <2>3. Cardinality(S) \in Nat
    BY HoldersFinite DEF MayTake
  <2>4. dev' \in [Devs -> DevType]
    <3>1. \A k \in Nat : [dev[thr.dev] EXCEPT !.ref_cnt = k] \in DevType
      BY <2>1 DEF DevType
    <3>2. dev[thr.dev].ref_cnt + (IF D.cfg THEN 1 ELSE 0) + Cardinality(S) \in Nat
      BY SMTT(30), <2>1, <2>3 DEF DevType
    <3> QED BY <2>2, <3>1, <3>2 DEF Types
  <2>5. held' \in [Users -> Devs \cup {NoDev}]
    BY <2>1, <2>2 DEF Takers, Types
  <2>6. thr' \in ThrType
    BY <1>1, <1>10, ToType DEF Inject, ThreadPcs
  <2>7. p_ports' \in [Hcs -> Devs \cup {NoDev}]
    BY <1>10, <2>1 DEF Inject, Types
  <2> QED BY <1>10, <2>4, <2>5, <2>6, <2>7 DEF Inject, Types, hwVars, ehciVars
<1>11. CASE Disconnect
  <2>1. thr.hc \in Hcs
    BY <1>11 DEF Place, Disconnect, At
  <2>2. p_ports[thr.hc] \in Devs \cup {NoDev}
    BY <2>1 DEF Types
  <2>3. thr' \in ThrType /\ dev' \in [Devs -> DevType]
    <3>1. CASE p_ports[thr.hc] = NoDev
      <4>1. To("clear_pec") /\ dev' = dev
        BY <1>11, <3>1 DEF Disconnect
      <4> QED BY <1>1, <4>1, ToType DEF Types, ThreadPcs
    <3>2. CASE p_ports[thr.hc] # NoDev
      <4>1. dev[p_ports[thr.hc]] \in DevType /\ p_ports[thr.hc] \in Devs
        BY <2>2, <3>2 DEF Types
      <4>2. [dev[p_ports[thr.hc]] EXCEPT !.inject = FALSE] \in DevType
        BY <4>1 DEF DevType
      <4>3. /\ dev' = [dev EXCEPT ![p_ports[thr.hc]] = [dev[p_ports[thr.hc]] EXCEPT !.inject = FALSE]]
            /\ \E s \in {"put_fun", "put"} : thr' = [thr EXCEPT !.pc = s, !.dev = p_ports[thr.hc]]
        BY <1>11, <3>2 DEF Disconnect
      <4> QED BY ZenonT(60), <1>1, <4>1, <4>2, <4>3 DEF ThrType, ThreadPcs, Types
    <3> QED BY <3>1, <3>2
  <2>4. p_ports' \in [Hcs -> Devs \cup {NoDev}]
    BY <1>11 DEF Disconnect, Types
  <2> QED BY <1>11, <2>3, <2>4 DEF Disconnect, Types, hwVars, ehciVars
<1>12. CASE EjectPutFun \/ DisconnectPut
  <2>1. thr.dev \in Devs /\ Put(thr.dev)
    BY <1>12 DEF Place, Putting, EjectPutFun, DisconnectPut, At
  <2>2. thr' \in ThrType
    BY <1>1, <1>12, ToType DEF EjectPutFun, DisconnectPut, ThreadPcs
  <2> QED BY <1>12, <2>1, <2>2, PutType DEF EjectPutFun, DisconnectPut, Types, hwVars, ehciVars
<1> QED BY <1>2, <1>3, <1>4, <1>5, <1>6, <1>7, <1>8, <1>9, <1>10, <1>11, <1>12
     DEF ThreadStep, ThreadTake, ThreadNext
-----------------------------------------------------------------------------
(* Steps that leave the devices alone                                      *)

\* Where a request to the device under enumeration may be sent.
Reaching == {"reset_end", "desc", "addr", "set_addr"}

SameDev(d) ==
    /\ dev'[d].live = dev[d].live /\ dev'[d].hc = dev[d].hc /\ dev'[d].addr = dev[d].addr
    /\ dev'[d].ref_cnt = dev[d].ref_cnt /\ dev'[d].inject = dev[d].inject
    /\ dev'[d].cfg = dev[d].cfg

\* The thread moves inside an enumeration, or outside of all, or stays.
Move ==
    /\ UNCHANGED <<p_ports, map, n_dev, held>>
    /\ \A d \in Devs : SameDev(d)
    /\ \/ thr' = thr
       \/ /\ thr.pc \notin Enumerating \cup Putting /\ thr'.pc \notin Enumerating \cup Putting
          /\ thr'.pc \notin {"wait", "loop"} => thr'.hc \in Hcs
       \/ /\ thr.pc \in Enumerating \ {"set_addr", "inject"}
          /\ thr'.pc \in Enumerating \ {"set_addr"}
          /\ thr'.dev = thr.dev /\ thr'.hc = thr.hc
    /\ thr'.pc \in Reaching =>
           \/ hwaddr'[thr'.hc] = 0
           \/ thr.pc \in Reaching /\ hwaddr'[thr'.hc] = hwaddr[thr.hc]

\* All of the invariant but the types and the tries.
Life ==
    /\ Place /\ PortAlive
    /\ \A d \in Devs : Counted(d)
    /\ n_dev = Cardinality(Injected)
    /\ Addresses

LEMMA MoveKeeps ==
    ASSUME Types, Life, Move, thr' \in ThrType
    PROVE  Life'
<1>1. /\ UNCHANGED <<p_ports, map, n_dev, held>>
      /\ \A d \in Devs : SameDev(d)
  BY DEF Move
<1>2. CASE thr' = thr
  <2>1. Place'
    BY <1>1, <1>2 DEF Life, Place, SameDev, Types, ThrType, Enumerating, Putting
  <2>2. \A d \in Devs : Counted(d)'
    BY <1>1, <1>2 DEF Life, Counted, SameDev, Holders, ThreadRefs, OwnRefs
  <2>3. Injected' = Injected
    BY <1>1, <1>2 DEF Injected, SameDev
  <2>4. Addresses'
    <3>1. \A d \in Devs, h \in Hcs : Owner(d, h)' <=> Owner(d, h)
      BY <1>1 DEF Owner, SameDev
    <3>2. \A d \in Devs : thr.pc = "set_addr" => (Owner(d, thr.hc)' <=> Owner(d, thr.hc))
      BY <1>1, <1>2 DEF Owner, SameDev
    <3>3. thr.pc \in Reaching => thr.dev \in Devs
      BY DEF Life, Place, Reaching, Enumerating
    <3> QED BY <1>1, <1>2, <3>1, <3>2, <3>3 DEF Life, Addresses, SameDev, Move, Reaching
  <2>5. PortAlive'
    BY <1>1 DEF Life, PortAlive, SameDev, Types
  <2> QED BY <1>1, <2>1, <2>2, <2>3, <2>4, <2>5 DEF Life
<1>3. CASE thr' # thr
  <2>1. \/ /\ thr.pc \notin Enumerating \cup Putting /\ thr'.pc \notin Enumerating \cup Putting
           /\ thr'.pc \notin {"wait", "loop"} => thr'.hc \in Hcs
        \/ /\ thr.pc \in Enumerating \ {"set_addr", "inject"}
           /\ thr'.pc \in Enumerating \ {"set_addr"}
           /\ thr'.dev = thr.dev /\ thr'.hc = thr.hc
    BY <1>3 DEF Move
  <2>2. Place'
    BY <1>1, <2>1 DEF Life, Place, SameDev, Enumerating, Putting
  <2>3. \A d \in Devs : Counted(d)'
    <3> SUFFICES ASSUME NEW d \in Devs PROVE Counted(d)'
      OBVIOUS
    <3>1. Holders(d)' = Holders(d)
      BY <1>1 DEF Holders
    <3>2. ThreadRefs(d)' = ThreadRefs(d)
      BY <2>1 DEF ThreadRefs, Enumerating, Putting
    <3>3. OwnRefs(d)' = OwnRefs(d)
      BY <1>1, <2>1 DEF OwnRefs, SameDev, Life, Place, Enumerating, Putting
    <3> QED BY <1>1, <3>1, <3>2, <3>3 DEF Life, Counted, SameDev
  <2>4. Injected' = Injected
    BY <1>1, <2>1 DEF Injected, SameDev
  <2>5. Addresses'
    <3>1. \A d \in Devs, h \in Hcs : Owner(d, h)' <=> Owner(d, h)
      BY <1>1 DEF Owner, SameDev
    <3>2. thr.pc # "set_addr" /\ thr'.pc # "set_addr"
      BY <2>1 DEF Enumerating
    <3>3. thr'.pc \in Reaching => thr.pc \in Enumerating /\ thr.dev \in Devs /\ thr'.dev = thr.dev
                                  /\ thr'.hc = thr.hc
      BY <2>1 DEF Life, Place, Reaching, Enumerating
    <3>4. thr'.pc \in Reaching /\ dev'[thr'.dev].addr # 0 => hwaddr'[thr'.hc] = 0
      BY <1>1, <3>3 DEF Life, Addresses, SameDev, Move, Reaching
    <3> QED BY <1>1, <3>1, <3>2, <3>4 DEF Life, Addresses, SameDev, Reaching
  <2>6. PortAlive'
    BY <1>1 DEF Life, PortAlive, SameDev, Types
  <2> QED BY <1>1, <2>2, <2>3, <2>4, <2>5, <2>6 DEF Life
<1> QED BY <1>2, <1>3

\* The steps of the hardware, of the interrupts and of the tasks.
LEMMA OutsideMoves ==
    ASSUME Types, Life,
           \/ UNCHANGED vars
           \/ Hardware
           \/ \E h \in Hcs : IrqHandle(h) \/ TaskStep(h)
    PROVE  Move /\ Types' /\ thr' = thr
<1>1. /\ UNCHANGED <<thr, devVars>>
      /\ hwaddr' = hwaddr \/ \E h \in Hcs : hwaddr' = [hwaddr EXCEPT ![h] = 0]
  BY HardwareFrame, TaskFrame DEF vars, hwVars
<1>2. Types'
  <2>1. CASE UNCHANGED vars
    BY <2>1 DEF vars, hwVars, ehciVars, devVars, Types
  <2>2. CASE Hardware
    BY <1>1, <2>2, HardwareFrame, Constants DEF Types, devVars
  <2>3. CASE \E h \in Hcs : IrqHandle(h) \/ TaskStep(h)
    BY <2>3, TaskFrame DEF Types, devVars
  <2> QED BY <2>1, <2>2, <2>3
<1>3. thr.pc \in Reaching => hwaddr'[thr.hc] \in {0, hwaddr[thr.hc]}
  BY <1>1 DEF Types, Life, Place, Reaching
<1> QED BY <1>1, <1>2, <1>3 DEF Move, SameDev, devVars

\* Those of the hub thread that touch no device object, and the first descriptor.
LEMMA ThreadMoves ==
    ASSUME Types, Life, hub_evt_list \in Seq(Hcs),
           \/ ThreadTake \/ ThreadNext \/ RhRead \/ RhClearCsc \/ RhClearPec
           \/ ResetBegin \/ ResetEnd \/ DescOk \/ DescFail \/ DescBad \/ CfgFail
           \/ RhDebounce /\ UNCHANGED dev
           \/ ConnectRetry /\ UNCHANGED dev
    PROVE  Move
<1>1. thr \in ThrType /\ Place
  BY DEF Types, Life
<1>2. SUFFICES ASSUME UNCHANGED <<p_ports, map, n_dev, held>>,
                      \A d \in Devs : SameDev(d)
               PROVE  Move
  <2>1. CASE DescOk
    BY <2>1 DEF DescOk, Types, DevType, SameDev
  <2>2. UNCHANGED dev => \A d \in Devs : SameDev(d)
    BY DEF SameDev
  <2>3. CASE UNCHANGED devVars
    BY <2>2, <2>3 DEF devVars
  <2>4. ASSUME ConnectRetry, UNCHANGED dev
        PROVE  UNCHANGED <<p_ports, map, n_dev, held>>
    <3>1. dev[thr.dev] # NoDevice
      BY <1>1, <2>4, Constants DEF Place, Enumerating, ConnectRetry, At, NoDevice
    <3>2. thr.dev \in Devs
      BY <1>1, <2>4 DEF Place, Enumerating, ConnectRetry, At
    <3> QED BY <2>4, <3>1, <3>2 DEF ConnectRetry, Types
  <2>5. ASSUME RhDebounce, UNCHANGED dev
        PROVE  UNCHANGED <<p_ports, map, n_dev, held>>
    BY <2>5 DEF RhDebounce
  <2> QED BY <2>1, <2>2, <2>3, <2>4, <2>5 DEF ThreadTake, ThreadNext, RhRead, RhClearCsc,
       RhClearPec, ResetBegin, ResetEnd, DescOk, DescFail, DescBad, CfgFail
<1> USE DEF Move, At, Enumerating, Putting, Reaching
<1>3. CASE ThreadTake
  BY <1>1, <1>2, <1>3 DEF ThreadTake, To, ThrType
<1>4. CASE ThreadNext
  <2>1. CASE hub_evt_list = <<>>
    BY <1>2, <1>4, <2>1 DEF ThreadNext, IdleThread
  <2>2. CASE hub_evt_list # <<>>
    <3>1. thr' = [IdleThread EXCEPT !.pc = "read", !.hc = Head(hub_evt_list)]
      BY <1>4, <2>2 DEF ThreadNext
    <3>2. thr'.pc = "read" /\ thr'.hc \in Hcs
      BY <2>2, <3>1 DEF IdleThread
    <3> QED BY <1>2, <1>4, <3>2 DEF ThreadNext
  <2> QED BY <2>1, <2>2
<1>5. CASE RhRead
  <2>1. thr'.pc \in {"clear_csc", "clear_pec"} /\ thr'.hc = thr.hc
    BY <1>1, <1>5 DEF RhRead, ThrType
  <2> QED BY <1>1, <1>2, <1>5, <2>1 DEF RhRead, Place
<1>6. CASE RhClearCsc
  BY <1>1, <1>2, <1>6 DEF RhClearCsc, To, ThrType, Place
<1>7. CASE RhClearPec
  BY <1>1, <1>2, <1>7 DEF RhClearPec, IdleThread
<1>8. CASE ResetBegin
  BY <1>1, <1>2, <1>8 DEF ResetBegin, To, ThrType, Types, Place
<1>9. CASE ResetEnd
  <2>1. thr'.pc \in {"desc", "addr"} /\ thr'.hc = thr.hc /\ thr'.dev = thr.dev
    BY <1>1, <1>9 DEF ResetEnd, To, ThrType
  <2> QED BY <1>2, <1>9, <2>1 DEF ResetEnd
<1>10. CASE DescOk
  <2>1. thr' = [thr EXCEPT !.pc = "reset", !.after = "addr", !.n = 0]
    BY <1>10, Zenon DEF DescOk
  <2> QED BY <1>1, <1>2, <1>10, <2>1 DEF DescOk, ThrType
<1>11. CASE DescFail \/ DescBad \/ CfgFail
  <2>1. \/ thr' = [thr EXCEPT !.pc = "check"]
        \/ thr' = [thr EXCEPT !.pc = "reset", !.n = thr.n + 1]
        \/ thr' = [thr EXCEPT !.pc = "reset", !.after = "addr", !.n = 0]
    BY <1>11, Zenon DEF DescFail, DescBad, CfgFail, AttemptFailed, To
  <2>2. thr'.pc \in {"check", "reset"} /\ thr'.hc = thr.hc /\ thr'.dev = thr.dev
    BY <1>1, <2>1 DEF ThrType
  <2> QED BY <1>2, <1>11, <2>2 DEF DescFail, DescBad, CfgFail
<1>12. CASE RhDebounce /\ UNCHANGED dev
  <2>1. To("clear_pec") \/ thr' = [thr EXCEPT !.n = thr.n + 1]
    <3>1. ASSUME NEW d \in Devs, ~dev[d].live, dev' = [dev EXCEPT ![d] = NewDevice] PROVE FALSE
      BY <1>12, <3>1 DEF NewDevice, NoDevice, Types
    <3> QED BY <1>12, <3>1, DebounceCases
  <2>2. thr'.pc \in {"clear_pec", "stable"} /\ thr'.hc = thr.hc
    BY <1>1, <1>12, <2>1 DEF RhDebounce, To, ThrType
  <2> QED BY <1>1, <1>2, <1>12, <2>2 DEF RhDebounce, Place
<1>13. CASE ConnectRetry /\ UNCHANGED dev
  <2>1. \/ thr' = [thr EXCEPT !.pc = "reset", !.after = "desc", !.n = 0, !.try = thr.try + 1]
        \/ thr' = [thr EXCEPT !.pc = "inject"]
    <3>1. thr.dev \in Devs /\ dev[thr.dev].live
      BY <1>1, <1>13 DEF Place, ConnectRetry
    <3>2. dev[thr.dev] # NoDevice
      BY <3>1 DEF NoDevice
    <3>3. dev' # [dev EXCEPT ![thr.dev] = NoDevice]
      BY <1>13, <3>1, <3>2 DEF Types
    <3> QED BY <1>13, <3>3, Zenon DEF ConnectRetry
  <2>2. thr'.pc \in {"inject", "reset"} /\ thr'.hc = thr.hc /\ thr'.dev = thr.dev
    BY <1>1, <2>1 DEF ThrType
  <2> QED BY <1>2, <1>13, <2>2 DEF ConnectRetry
<1> QED BY <1>3, <1>4, <1>5, <1>6, <1>7, <1>8, <1>9, <1>10, <1>11, <1>12, <1>13
-----------------------------------------------------------------------------
(* Steps that change a device                                              *)

LEMMA CreateKeeps ==
    ASSUME Types, Life, RhDebounce, ~UNCHANGED dev
    PROVE  Life'
<1>1. PICK d \in Devs :
          /\ ~dev[d].live
          /\ dev' = [dev EXCEPT ![d] = NewDevice]
          /\ thr' = [thr EXCEPT !.pc = "reset", !.n = 0, !.dev = d, !.after = "desc"]
  BY DebounceCases
<1>2. /\ thr.pc = "stable" /\ thr.hc \in Hcs
      /\ UNCHANGED <<p_ports, map, n_dev, held, hwaddr>>
  BY DEF RhDebounce, At, Life, Place, hwVars
<1>3. thr'.pc = "reset" /\ thr'.dev = d /\ thr'.hc = thr.hc
  BY <1>1 DEF Types, ThrType
<1>4. /\ dev'[d].live /\ dev'[d].inject /\ ~dev'[d].cfg /\ dev'[d].hc = thr.hc
      /\ dev'[d].addr = 0 /\ dev'[d].ref_cnt = 1
      /\ \A c \in Devs \ {d} : dev'[c] = dev[c]
  BY <1>1 DEF Types, NewDevice, NoDevice
<1>5. Holders(d) = {} /\ Cardinality(Holders(d)) = 0
  <2>1. ~(Cardinality(Holders(d)) > 0)
    BY <1>1, HoldersFinite DEF Life, Counted, ThreadRefs
  <2>2. Cardinality(Holders(d)) = 0
    BY <2>1, HoldersFinite
  <2> QED BY <2>2, HoldersFinite, FS_EmptySet
<1>6. Place'
  <2>1. \A h \in Hcs : p_ports[h] # d
    BY <1>1, Constants DEF Life, PortAlive
  <2>2. \A u \in Users : held[u] # d
    BY <1>5 DEF Holders
  <2> QED BY <1>2, <1>3, <1>4, <2>1, <2>2 DEF Place, Enumerating, Putting
<1>7. PortAlive'
  BY <1>1, <1>2, <1>4 DEF Life, PortAlive, Types
<1>8. ASSUME NEW c \in Devs PROVE Counted(c)'
  <2>1. Holders(c)' = Holders(c)
    BY <1>2 DEF Holders
  <2>2. ThreadRefs(c) = 0 /\ ThreadRefs(c)' = 0
    BY <1>2, <1>3 DEF ThreadRefs
  <2>3. CASE c = d
    BY <1>3, <1>4, <1>5, <2>1, <2>2, <2>3 DEF Counted, OwnRefs
  <2>4. CASE c # d
    <3>1. OwnRefs(c)' = OwnRefs(c)
      BY <1>2, <1>3, <1>4, <2>4 DEF OwnRefs
    <3> QED BY <1>4, <2>1, <2>2, <2>4, <3>1 DEF Life, Counted
  <2> QED BY <2>3, <2>4
<1>9. Injected' = Injected
  BY <1>1, <1>2, <1>3, <1>4 DEF Injected, Enumerating
<1>10. Addresses'
  <2>1. \A c \in Devs, h \in Hcs : Owner(c, h)' <=> Owner(c, h)
    BY <1>1, <1>4 DEF Owner
  <2>2. \A c \in Devs, h \in Hcs : Owner(c, h) => dev'[c].addr = dev[c].addr
    BY <1>1, <1>4 DEF Owner
  <2>3. \A c \in Devs : dev'[c].live => dev'[c].hc \in Hcs
    BY <1>2, <1>4 DEF Life, Addresses
  <2>4. thr.pc # "set_addr" /\ thr'.pc \notin {"set_addr", "reset_end", "desc", "addr"}
    BY <1>2, <1>3
  <2> QED BY <1>2, <2>1, <2>2, <2>3, <2>4 DEF Life, Addresses
<1> QED BY <1>2, <1>6, <1>7, <1>8, <1>9, <1>10 DEF Life

\* An address is marked before the request that sets it.
LEMMA AllocKeeps ==
    ASSUME Types, Life, AddrAlloc
    PROVE  Life'
<1>1. PICK a \in Addrs \ map[thr.hc] :
          /\ map' = [map EXCEPT ![thr.hc] = @ \cup {a}]
          /\ thr' = [thr EXCEPT !.pc = "set_addr", !.addr = a]
  BY DEF AddrAlloc
<1>2. /\ thr.pc = "addr" /\ thr.hc \in Hcs /\ thr.dev \in Devs
      /\ UNCHANGED <<p_ports, dev, n_dev, held, hwaddr>>
  BY DEF AddrAlloc, At, Life, Place, Enumerating, hwVars
<1>3. thr'.pc = "set_addr" /\ thr'.dev = thr.dev /\ thr'.hc = thr.hc /\ thr'.addr = a
  BY <1>1 DEF Types, ThrType
<1>4. Place' /\ PortAlive'
  BY <1>2, <1>3 DEF Life, Place, PortAlive, Enumerating, Putting
<1>5. \A d \in Devs : Counted(d)'
  BY <1>2, <1>3 DEF Life, Counted, Holders, ThreadRefs, OwnRefs
<1>6. Injected' = Injected
  BY <1>2, <1>3 DEF Injected, Enumerating
<1>7. Addresses'
  <2>1. \A d \in Devs, h \in Hcs : Owner(d, h)' <=> Owner(d, h)
    BY <1>2 DEF Owner
  <2>2. \A d \in Devs : Owner(d, thr.hc) => dev[d].addr # a
    BY <1>1, <1>2 DEF Life, Addresses
  <2>3. /\ map'[thr.hc] = map[thr.hc] \cup {a}
        /\ \A h \in Hcs \ {thr.hc} : map'[h] = map[h]
    BY <1>1, <1>2 DEF Types
  <2>4. \A h \in Hcs, x \in Addrs : x \in map'[h] <=>
           \/ \E d \in Devs : Owner(d, h) /\ dev[d].addr = x
           \/ thr.hc = h /\ a = x
    BY <1>2, <2>3 DEF Life, Addresses
  <2>5. dev[thr.dev].addr # 0 => hwaddr[thr.hc] = 0
    BY <1>2 DEF Life, Addresses
  <2>6. a # 0
    BY Constants
  <2>7. \A d, e \in Devs, h \in Hcs :
           Owner(d, h) /\ Owner(e, h) /\ dev[d].addr = dev[e].addr => d = e
    BY DEF Life, Addresses
  <2>8. \A d \in Devs : dev[d].live => dev[d].hc \in Hcs
    BY DEF Life, Addresses
  <2>9. \A d \in Devs : Owner(d, thr.hc)' <=> Owner(d, thr.hc)
    BY <1>2, <1>3 DEF Owner
  <2> QED BY <1>2, <1>3, <2>1, <2>2, <2>4, <2>5, <2>6, <2>7, <2>8, <2>9 DEF Addresses
<1> QED BY <1>2, <1>4, <1>5, <1>6, <1>7 DEF Life

\* The failed request gives its address back.
LEMMA SetFailKeeps ==
    ASSUME Types, Life, SetAddrFail
    PROVE  Life'
<1>1. /\ thr.pc = "set_addr" /\ thr.hc \in Hcs /\ thr.dev \in Devs
      /\ map' = [map EXCEPT ![thr.hc] = @ \ {thr.addr}]
      /\ UNCHANGED <<p_ports, dev, n_dev, held>>
  BY DEF SetAddrFail, At, Life, Place, Enumerating
<1>2. thr'.pc \in {"addr", "check"} /\ thr'.dev = thr.dev /\ thr'.hc = thr.hc
  <2>1. \/ thr' = [thr EXCEPT !.pc = "addr", !.n = thr.n + 1, !.addr = 0]
        \/ thr' = [thr EXCEPT !.pc = "check", !.addr = 0]
    BY Zenon DEF SetAddrFail, AddrFailed
  <2> QED BY <2>1 DEF Types, ThrType
<1>3. Place' /\ PortAlive'
  BY <1>1, <1>2 DEF Life, Place, PortAlive, Enumerating, Putting
<1>4. \A d \in Devs : Counted(d)'
  BY <1>1, <1>2 DEF Life, Counted, Holders, ThreadRefs, OwnRefs
<1>5. Injected' = Injected
  BY <1>1, <1>2 DEF Injected, Enumerating
<1>6. Addresses'
  <2>1. \A d \in Devs, h \in Hcs : Owner(d, h)' <=> Owner(d, h)
    BY <1>1 DEF Owner
  <2>2. \A d \in Devs : Owner(d, thr.hc) => dev[d].addr # thr.addr
    BY <1>1 DEF Life, Addresses
  <2>3. /\ map'[thr.hc] = map[thr.hc] \ {thr.addr}
        /\ \A h \in Hcs \ {thr.hc} : map'[h] = map[h]
    BY <1>1 DEF Types
  <2>4. \A h \in Hcs, x \in Addrs : x \in map'[h] <=>
           \E d \in Devs : Owner(d, h) /\ dev[d].addr = x
    BY <1>1, <2>2, <2>3 DEF Life, Addresses
  <2>5. dev[thr.dev].addr # 0 => hwaddr[thr.hc] = 0 /\ ~Answers
    <3>1. dev[thr.dev].addr # 0 => hwaddr[thr.hc] = 0
      BY <1>1 DEF Life, Addresses
    <3> QED BY <3>1 DEF Answers, D
  <2>6. dev[thr.dev].addr # 0 => hwaddr'[thr.hc] = 0
    BY <2>5 DEF SetAddrFail, TookAddress
  <2>7. \A d, e \in Devs, h \in Hcs :
           Owner(d, h) /\ Owner(e, h) /\ dev[d].addr = dev[e].addr => d = e
    BY DEF Life, Addresses
  <2>8. \A d \in Devs : dev[d].live => dev[d].hc \in Hcs
    BY DEF Life, Addresses
  <2> QED BY <1>1, <1>2, <2>1, <2>4, <2>6, <2>7, <2>8 DEF Addresses
<1> QED BY <1>1, <1>3, <1>4, <1>5, <1>6 DEF Life

\* Only a device without an address takes one: one that has an address is not reached.
LEMMA SetOkKeeps ==
    ASSUME Types, Life, SetAddrOk
    PROVE  Life'
<1>1. /\ thr.pc = "set_addr" /\ thr.hc \in Hcs /\ thr.dev \in Devs
      /\ UNCHANGED <<p_ports, map, n_dev, held>>
      /\ thr' = [thr EXCEPT !.pc = "cfg", !.addr = 0]
      /\ dev' = [dev EXCEPT ![thr.dev].addr = thr.addr]
  BY DEF SetAddrOk, At, Life, Place, Enumerating
<1>2. thr'.pc = "cfg" /\ thr'.dev = thr.dev /\ thr'.hc = thr.hc
  BY <1>1 DEF Types, ThrType
<1>3. /\ dev'[thr.dev].addr = thr.addr /\ dev'[thr.dev].live /\ dev'[thr.dev].hc = thr.hc
      /\ dev'[thr.dev].inject = dev[thr.dev].inject /\ dev'[thr.dev].cfg = dev[thr.dev].cfg
      /\ dev'[thr.dev].ref_cnt = dev[thr.dev].ref_cnt
      /\ \A d \in Devs \ {thr.dev} : dev'[d] = dev[d]
  BY <1>1 DEF Types, DevType, Life, Place, Enumerating
<1>4. dev[thr.dev].live /\ dev[thr.dev].hc = thr.hc /\ dev[thr.dev].addr = 0
  <2>1. dev[thr.dev].live /\ dev[thr.dev].hc = thr.hc
    BY <1>1 DEF Life, Place, Enumerating
  <2>2. dev[thr.dev].addr # 0 => hwaddr[thr.hc] = 0
    BY <1>1 DEF Life, Addresses
  <2> QED BY <2>1, <2>2 DEF SetAddrOk, Answers, D
<1>5. Place' /\ PortAlive'
  BY <1>1, <1>2, <1>3, <1>4 DEF Life, Place, PortAlive, Enumerating, Putting, Types
<1>6. \A d \in Devs : Counted(d)'
  <2> SUFFICES ASSUME NEW d \in Devs PROVE Counted(d)'
    OBVIOUS
  <2>1. Holders(d)' = Holders(d)
    BY <1>1 DEF Holders
  <2>2. ThreadRefs(d)' = ThreadRefs(d)
    BY <1>1, <1>2 DEF ThreadRefs
  <2>3. OwnRefs(d)' = OwnRefs(d)
    BY <1>1, <1>2, <1>3 DEF OwnRefs
  <2> QED BY <1>3, <1>4, <2>1, <2>2, <2>3 DEF Life, Counted
<1>7. Injected' = Injected
  BY <1>1, <1>2, <1>3, <1>4 DEF Injected, Enumerating
<1>8. Addresses'
  <2>1. thr.addr # 0 /\ \A d \in Devs : Owner(d, thr.hc) => dev[d].addr # thr.addr
    BY <1>1 DEF Life, Addresses
  <2>2. \A d \in Devs, h \in Hcs : Owner(d, h)' <=> Owner(d, h) \/ (d = thr.dev /\ h = thr.hc)
    BY <1>3, <1>4, <2>1 DEF Owner
  <2>3. \A d \in Devs, h \in Hcs : Owner(d, h) => d # thr.dev /\ dev'[d].addr = dev[d].addr
    BY <1>3, <1>4 DEF Owner
  <2>4. \A h \in Hcs, x \in Addrs : x \in map[h] <=>
           \/ \E d \in Devs : Owner(d, h) /\ dev[d].addr = x
           \/ thr.hc = h /\ thr.addr = x
    BY <1>1 DEF Life, Addresses
  <2>5. \A h \in Hcs, x \in Addrs : x \in map'[h] <=>
           \E d \in Devs : Owner(d, h)' /\ dev'[d].addr = x
    BY <1>1, <1>3, <2>2, <2>3, <2>4
  <2>6. \A d, e \in Devs, h \in Hcs :
           Owner(d, h) /\ Owner(e, h) /\ dev[d].addr = dev[e].addr => d = e
    BY DEF Life, Addresses
  <2>7. \A d, e \in Devs, h \in Hcs :
           Owner(d, h)' /\ Owner(e, h)' /\ dev'[d].addr = dev'[e].addr => d = e
    BY <1>3, <2>1, <2>2, <2>3, <2>6
  <2>8. \A d \in Devs : dev'[d].live => dev'[d].hc \in Hcs
    BY <1>1, <1>3 DEF Life, Addresses
  <2> QED BY <1>2, <2>5, <2>7, <2>8 DEF Addresses
<1> QED BY <1>1, <1>5, <1>6, <1>7, <1>8 DEF Life

\* The object that goes takes its address with it.
LEMMA FreeKeepsAddresses ==
    ASSUME Types, Life, NEW d \in Devs, dev[d].live,
           dev' = [dev EXCEPT ![d] = NoDevice], map' = FreeAddr(d), UNCHANGED hwaddr,
           \/ thr' = thr /\ ~(thr.pc \in Reaching /\ thr.dev = d)
           \/ {thr.pc, thr'.pc} \cap Reaching = {}
    PROVE  Addresses'
<1>1. ~dev'[d].live /\ \A c \in Devs \ {d} : dev'[c] = dev[c]
  BY DEF Types, NoDevice
<1>2. \A c \in Devs, h \in Hcs : Owner(c, h)' <=> Owner(c, h) /\ c # d
  BY <1>1 DEF Owner
<1>3. dev[d].hc \in Hcs /\ \A c \in Devs : dev[c].live => dev[c].hc \in Hcs
  BY DEF Life, Addresses
<1>4. /\ map'[dev[d].hc] = map[dev[d].hc] \ {dev[d].addr}
      /\ \A h \in Hcs \ {dev[d].hc} : map'[h] = map[h]
  BY <1>3 DEF FreeAddr, Types
<1>5. \A e, c \in Devs, h \in Hcs :
          Owner(e, h) /\ Owner(c, h) /\ dev[e].addr = dev[c].addr => e = c
  BY DEF Life, Addresses
<1>6. thr.pc = "set_addr" <=> thr'.pc = "set_addr"
  BY DEF Reaching
<1>7. thr.pc = "set_addr" =>
          /\ thr' = thr /\ thr.addr # 0
          /\ \A c \in Devs : Owner(c, thr.hc) => dev[c].addr # thr.addr
  BY DEF Life, Addresses, Reaching
<1>8. ASSUME NEW h \in Hcs, NEW x \in Addrs
      PROVE  x \in map'[h] <=>
                 \/ \E c \in Devs : Owner(c, h)' /\ dev'[c].addr = x
                 \/ thr'.pc = "set_addr" /\ thr'.hc = h /\ thr'.addr = x
  <2>1. x \in map[h] <=>
            \/ \E c \in Devs : Owner(c, h) /\ dev[c].addr = x
            \/ thr.pc = "set_addr" /\ thr.hc = h /\ thr.addr = x
    BY DEF Life, Addresses
  <2>2. x # 0
    BY Constants
  <2>3. CASE h = dev[d].hc /\ x = dev[d].addr
    <3>1. Owner(d, h)
      BY <2>2, <2>3 DEF Owner
    <3>2. \A c \in Devs : Owner(c, h) /\ dev[c].addr = x => c = d
      BY <1>5, <2>3, <3>1
    <3>3. ~\E c \in Devs : Owner(c, h)' /\ dev'[c].addr = x
      BY <1>1, <1>2, <3>2
    <3>4. ~(thr'.pc = "set_addr" /\ thr'.hc = h /\ thr'.addr = x)
      BY <1>6, <1>7, <2>3, <3>1
    <3> QED BY <1>4, <2>3, <3>3, <3>4
  <2>4. CASE ~(h = dev[d].hc /\ x = dev[d].addr)
    <3>1. x \in map'[h] <=> x \in map[h]
      BY <1>3, <1>4, <2>4
    <3>2. Owner(d, h) => dev[d].addr # x
      BY <2>4 DEF Owner
    <3>3. (\E c \in Devs : Owner(c, h)' /\ dev'[c].addr = x) <=>
          (\E c \in Devs : Owner(c, h) /\ dev[c].addr = x)
      BY <1>1, <1>2, <3>2
    <3> QED BY <1>6, <1>7, <2>1, <3>1, <3>3
  <2> QED BY <2>3, <2>4
<1>9. \A e, c \in Devs, h \in Hcs :
          Owner(e, h)' /\ Owner(c, h)' /\ dev'[e].addr = dev'[c].addr => e = c
  BY <1>1, <1>2, <1>5
<1>10. thr'.pc = "set_addr" =>
           thr'.addr # 0 /\ \A c \in Devs : Owner(c, thr.hc)' => dev'[c].addr # thr'.addr
  <2> SUFFICES ASSUME thr'.pc = "set_addr"
               PROVE  thr'.addr # 0 /\ \A c \in Devs : Owner(c, thr.hc)' => dev'[c].addr # thr'.addr
    OBVIOUS
  <2>1. thr' = thr /\ thr.hc \in Hcs
    BY <1>6, <1>7 DEF Life, Place
  <2>2. \A c \in Devs : Owner(c, thr.hc)' => Owner(c, thr.hc) /\ c # d
    BY <1>1, <2>1 DEF Owner
  <2> QED BY <1>1, <1>6, <1>7, <2>1, <2>2
<1>11. thr'.pc \in Reaching /\ dev'[thr'.dev].addr # 0 => hwaddr'[thr'.hc] = 0
  <2> SUFFICES ASSUME thr'.pc \in Reaching, dev'[thr'.dev].addr # 0
               PROVE  hwaddr'[thr'.hc] = 0
    OBVIOUS
  <2>1. thr' = thr /\ thr.dev # d
    OBVIOUS
  <2>2. thr.dev \in Devs
    BY <2>1 DEF Life, Place, Reaching, Enumerating
  <2> QED BY <1>1, <2>1, <2>2 DEF Life, Addresses, Reaching
<1>12. \A c \in Devs : dev'[c].live => dev'[c].hc \in Hcs
  BY <1>1, <1>3
<1> QED BY <1>8, <1>9, <1>10, <1>11, <1>12 DEF Addresses, Reaching

\* One reference less, a user's or the thread's: the object goes exactly with its last.
LEMMA PutKeeps ==
    ASSUME Types, Life, NEW d \in Devs, Put(d), UNCHANGED <<p_ports, n_dev, hwaddr>>,
           \/ thr' = thr
           \/ /\ thr.pc \in Putting /\ thr'.pc \in {"put", "clear_pec"}
              /\ thr'.dev = thr.dev /\ thr'.hc = thr.hc,
           \A c \in Devs \ {d} :
               /\ Cardinality(Holders(c)') = Cardinality(Holders(c))
               /\ ThreadRefs(c)' = ThreadRefs(c),
           Cardinality(Holders(d)') + ThreadRefs(d)' + 1 = Cardinality(Holders(d)) + ThreadRefs(d),
           \A u \in Users : held'[u] \in {held[u], NoDev}
    PROVE  Life'
<1>1. /\ Cardinality(Holders(d)) \in Nat /\ Cardinality(Holders(d)') \in Nat
      /\ ThreadRefs(d) \in Nat /\ ThreadRefs(d)' \in Nat
  <2>1. Holders(d)' \in SUBSET Users
    BY DEF Holders
  <2> QED BY <2>1, HoldersFinite DEF ThreadRefs
<1>2. dev[d].live /\ dev[d].ref_cnt = Cardinality(Holders(d)) + ThreadRefs(d) + OwnRefs(d)
  BY <1>1 DEF Life, Counted
<1>3. OwnRefs(d) \in Nat /\ (dev[d].inject => OwnRefs(d) > 0) /\ (~dev[d].inject => OwnRefs(d) = 0)
  BY DEF OwnRefs
<1>4. \A c \in Devs \ {d} : dev'[c] = dev[c]
  BY DEF Put, Types
<1>5. \A c \in Devs : dev'[c].inject = dev[c].inject /\ dev'[c].cfg = dev[c].cfg
          => OwnRefs(c)' = OwnRefs(c)
  BY DEF OwnRefs, Putting
<1>6. ASSUME NEW c \in Devs \ {d} PROVE Counted(c)'
  BY <1>4, <1>5 DEF Life, Counted
<1>7. CASE dev[d].ref_cnt > 1
  <2>1. dev' = [dev EXCEPT ![d].ref_cnt = @ - 1] /\ map' = map
    BY <1>7 DEF Put
  <2>2. /\ dev'[d].live /\ dev'[d].live = dev[d].live
        /\ dev'[d].inject = dev[d].inject /\ dev'[d].cfg = dev[d].cfg
        /\ dev'[d].hc = dev[d].hc /\ dev'[d].addr = dev[d].addr
        /\ dev'[d].ref_cnt = dev[d].ref_cnt - 1
    BY <1>2, <2>1 DEF Types, DevType
  <2>3. Counted(d)'
    BY <1>1, <1>2, <1>3, <1>5, <2>2 DEF Counted
  <2>4. Place'
    BY <1>2, <1>4, <2>2, Constants DEF Life, Place, Enumerating, Putting
  <2>5. PortAlive'
    BY <1>4, <2>2 DEF Life, PortAlive, Types
  <2>6. Injected' = Injected
    BY <1>2, <1>4, <2>2 DEF Injected, Enumerating, Putting
  <2>7. Addresses'
    <3>2. \A c \in Devs, h \in Hcs : Owner(c, h)' <=> Owner(c, h)
      BY <1>2, <1>4, <2>2 DEF Owner
    <3>3. \A c \in Devs : dev'[c].addr = dev[c].addr /\ dev'[c].hc = dev[c].hc
                         /\ dev'[c].live = dev[c].live
      BY <1>4, <2>2
    <3>4. CASE thr' = thr
      <4>1. \A c \in Devs : thr.pc = "set_addr" => (Owner(c, thr.hc)' <=> Owner(c, thr.hc))
        BY <3>3, <3>4 DEF Owner
      <4>2. thr.pc \in {"reset_end", "desc", "addr", "set_addr"} => thr.dev \in Devs
        BY DEF Life, Place, Enumerating
      <4> QED BY <2>1, <3>2, <3>3, <3>4, <4>1, <4>2 DEF Life, Addresses
    <3>5. CASE thr' # thr
      <4>1. thr.pc # "set_addr" /\ thr'.pc \notin {"set_addr", "reset_end", "desc", "addr"}
        BY <3>5 DEF Putting
      <4> QED BY <2>1, <3>2, <3>3, <4>1 DEF Life, Addresses
    <3> QED BY <3>4, <3>5
  <2> QED BY <1>6, <2>3, <2>4, <2>5, <2>6, <2>7 DEF Life
<1>8. CASE ~(dev[d].ref_cnt > 1)
  <2>1. dev' = [dev EXCEPT ![d] = NoDevice] /\ map' = FreeAddr(d)
    BY <1>8 DEF Put
  <2>2. ~dev'[d].live /\ ~dev'[d].inject /\ dev'[d].ref_cnt = 0
    BY <2>1 DEF Types, NoDevice
  <2>3. ~dev[d].inject /\ Cardinality(Holders(d)') + ThreadRefs(d)' = 0
    BY <1>1, <1>2, <1>3, <1>8
  <2>4. Counted(d)'
    BY <2>2, <2>3 DEF Counted
  <2>5. Place'
    BY <1>4, <2>2, <2>3, Constants DEF Life, Place, Enumerating, Putting
  <2>6. PortAlive'
    BY <1>4, <2>3 DEF Life, PortAlive, Types
  <2>7. Injected' = Injected
    BY <1>4, <2>2, <2>3 DEF Injected, Enumerating, Putting
  <2>8. Addresses'
    <3>1. \/ thr' = thr /\ ~(thr.pc \in Reaching /\ thr.dev = d)
          \/ {thr.pc, thr'.pc} \cap Reaching = {}
      BY <2>3 DEF Life, Place, Reaching, Enumerating, Putting
    <3> QED BY <1>2, <2>1, <3>1, FreeKeepsAddresses
  <2> QED BY <1>6, <2>4, <2>5, <2>6, <2>7, <2>8 DEF Life
<1> QED BY <1>7, <1>8

\* A user's put, and the thread's.
LEMMA UserPutKeeps ==
    ASSUME Types, Life, NEW u \in Users, UserPut(u)
    PROVE  Life'
<1>0. PICK d \in Devs : d = held[u]
  BY DEF UserPut, Types
<1>1. /\ d \in Devs /\ Put(d) /\ held' = [held EXCEPT ![u] = NoDev]
      /\ UNCHANGED <<thr, p_ports, n_dev, hwaddr>>
  BY <1>0 DEF UserPut, hwVars
<1>2. /\ Holders(d)' = Holders(d) \ {u} /\ u \in Holders(d)
      /\ \A c \in Devs \ {d} : Holders(c)' = Holders(c)
  BY <1>0, <1>1, Constants DEF Holders, Types
<1>3. Cardinality(Holders(d) \ {u}) = Cardinality(Holders(d)) - 1
  BY <1>2, HoldersFinite, FS_RemoveElement
<1>4. \A c \in Devs : ThreadRefs(c)' = ThreadRefs(c)
  BY <1>1 DEF ThreadRefs
<1>5. Cardinality(Holders(d)) \in Nat /\ ThreadRefs(d) \in Nat
  BY HoldersFinite DEF ThreadRefs
<1>6. \A c \in Devs \ {d} :
          /\ Cardinality(Holders(c)') = Cardinality(Holders(c))
          /\ ThreadRefs(c)' = ThreadRefs(c)
  BY <1>2, <1>4
<1>7. Cardinality(Holders(d)') + ThreadRefs(d)' + 1 = Cardinality(Holders(d)) + ThreadRefs(d)
  BY <1>1, <1>2, <1>3, <1>4, <1>5
<1>8. \A v \in Users : held'[v] \in {held[v], NoDev}
  BY <1>1 DEF Types
<1> QED BY <1>1, <1>6, <1>7, <1>8, PutKeeps

LEMMA ThreadPutKeeps ==
    ASSUME Types, Life, EjectPutFun \/ DisconnectPut
    PROVE  Life'
<1>0. PICK d \in Devs : d = thr.dev
  BY DEF EjectPutFun, DisconnectPut, At, Life, Place, Putting
<1>1. /\ d \in Devs /\ Put(d)
      /\ UNCHANGED <<p_ports, n_dev, hwaddr, held>>
  BY <1>0 DEF EjectPutFun, DisconnectPut, At, Life, Place, Putting, hwVars
<1>2. /\ thr'.dev = thr.dev /\ thr'.hc = thr.hc
      /\ \/ thr.pc = "put_fun" /\ thr'.pc = "put"
         \/ thr.pc = "put" /\ thr'.pc = "clear_pec"
  BY DEF EjectPutFun, DisconnectPut, At, To, Types, ThrType
<1>3. \A c \in Devs : Holders(c)' = Holders(c)
  BY <1>1 DEF Holders
<1>4. \A c \in Devs \ {d} : ThreadRefs(c)' = ThreadRefs(c)
  BY <1>0, <1>2 DEF ThreadRefs
<1>5. ThreadRefs(d)' + 1 = ThreadRefs(d) /\ ThreadRefs(d)' \in Nat
  BY <1>0, <1>2 DEF ThreadRefs
<1>6. Cardinality(Holders(d)) \in Nat
  BY HoldersFinite
<1>7. \A c \in Devs \ {d} :
          /\ Cardinality(Holders(c)') = Cardinality(Holders(c))
          /\ ThreadRefs(c)' = ThreadRefs(c)
  BY <1>3, <1>4
<1>8. Cardinality(Holders(d)') + ThreadRefs(d)' + 1 = Cardinality(Holders(d)) + ThreadRefs(d)
  BY <1>1, <1>3, <1>5, <1>6
<1>9. thr.pc \in Putting /\ thr'.pc \in {"put", "clear_pec"}
  BY <1>2 DEF Putting
<1> QED BY <1>1, <1>2, <1>7, <1>8, <1>9, PutKeeps

\* The configuration succeeds: the object is not injected yet.
LEMMA ConfigureKeeps ==
    ASSUME Types, Life, CfgOk
    PROVE  Life'
<1>1. /\ thr.pc = "cfg" /\ thr.hc \in Hcs /\ thr.dev \in Devs /\ dev[thr.dev].inject
      /\ UNCHANGED <<p_ports, map, n_dev, held, hwaddr>>
      /\ dev' = [dev EXCEPT ![thr.dev].cfg = TRUE]
  BY DEF CfgOk, At, Life, Place, Enumerating, hwVars
<1>2. thr'.pc = "inject" /\ thr'.dev = thr.dev /\ thr'.hc = thr.hc
  BY DEF CfgOk, To, Types, ThrType
<1>3. /\ dev'[thr.dev].addr = dev[thr.dev].addr /\ dev'[thr.dev].live = dev[thr.dev].live
      /\ dev'[thr.dev].hc = dev[thr.dev].hc /\ dev'[thr.dev].inject = dev[thr.dev].inject
      /\ dev'[thr.dev].ref_cnt = dev[thr.dev].ref_cnt
      /\ \A d \in Devs \ {thr.dev} : dev'[d] = dev[d]
  BY <1>1 DEF Types, DevType
<1>4. ~dev[thr.dev].cfg
  BY <1>1 DEF Life, Place, Enumerating
<1>5. Place' /\ PortAlive'
  BY <1>1, <1>2, <1>3 DEF Life, Place, PortAlive, Enumerating, Putting, Types
<1>6. \A d \in Devs : Counted(d)'
  <2> SUFFICES ASSUME NEW d \in Devs PROVE Counted(d)'
    OBVIOUS
  <2>1. Holders(d)' = Holders(d)
    BY <1>1 DEF Holders
  <2>2. ThreadRefs(d)' = ThreadRefs(d)
    BY <1>1, <1>2 DEF ThreadRefs
  <2>3. OwnRefs(d)' = OwnRefs(d)
    BY <1>1, <1>2, <1>3, <1>4 DEF OwnRefs
  <2> QED BY <1>3, <2>1, <2>2, <2>3 DEF Life, Counted
<1>7. Injected' = Injected
  BY <1>1, <1>2, <1>3 DEF Injected, Enumerating
<1>8. Addresses'
  <2>1. \A d \in Devs, h \in Hcs : Owner(d, h)' <=> Owner(d, h)
    BY <1>3 DEF Owner
  <2>2. \A d \in Devs : /\ dev'[d].addr = dev[d].addr /\ dev'[d].hc = dev[d].hc
                        /\ dev'[d].live = dev[d].live
    BY <1>3
  <2> QED BY <1>1, <1>2, <2>1, <2>2 DEF Life, Addresses
<1> QED BY <1>1, <1>5, <1>6, <1>7, <1>8 DEF Life

\* The attempt is given up: the object under enumeration, which nobody holds, goes.
LEMMA GiveUpKeeps ==
    ASSUME Types, Life, ConnectRetry, ~UNCHANGED dev
    PROVE  Life'
<1>0. PICK d \in Devs : d = thr.dev
  BY DEF ConnectRetry, At, Life, Place, Enumerating
<1>1. /\ thr.pc = "check" /\ dev[d].live
      /\ UNCHANGED <<p_ports, n_dev, held, hwaddr>>
      /\ dev' = [dev EXCEPT ![d] = NoDevice] /\ map' = FreeAddr(d) /\ thr' = IdleThread
  BY <1>0 DEF ConnectRetry, At, Life, Place, Enumerating, hwVars
<1>2. thr'.pc = "wait"
  BY <1>1 DEF IdleThread
<1>3. ~dev'[d].live /\ dev'[d].ref_cnt = 0 /\ \A c \in Devs \ {d} : dev'[c] = dev[c]
  BY <1>1 DEF Types, NoDevice
<1>4. (\A h \in Hcs : p_ports[h] # d) /\ Holders(d) = {}
  BY <1>0, <1>1 DEF Life, Place, Enumerating, Holders
<1>5. Place' /\ PortAlive'
  BY <1>1, <1>2, <1>3, <1>4 DEF Life, Place, PortAlive, Enumerating, Putting, Types
<1>6. ASSUME NEW c \in Devs PROVE Counted(c)'
  <2>1. Holders(c)' = Holders(c)
    BY <1>1 DEF Holders
  <2>2. ThreadRefs(c)' = 0 /\ ThreadRefs(c) = 0
    BY <1>1, <1>2 DEF ThreadRefs
  <2>3. CASE c = d
    BY <1>3, <1>4, <2>1, <2>2, <2>3, FS_EmptySet DEF Counted
  <2>4. CASE c # d
    <3>1. OwnRefs(c)' = OwnRefs(c)
      BY <1>0, <1>1, <1>2, <1>3, <2>4 DEF OwnRefs
    <3> QED BY <1>3, <2>1, <2>2, <2>4, <3>1 DEF Life, Counted
  <2> QED BY <2>3, <2>4
<1>7. Injected' = Injected
  BY <1>0, <1>1, <1>2, <1>3 DEF Injected, Enumerating
<1>8. Addresses'
  <2>1. {thr.pc, thr'.pc} \cap Reaching = {}
    BY <1>1, <1>2 DEF Reaching
  <2> QED BY <1>1, <2>1, FreeKeepsAddresses
<1> QED BY <1>1, <1>5, <1>6, <1>7, <1>8 DEF Life

\* The enumerated object is on its port, with the references of its function and of
\* the users that were told of it.
LEMMA InjectKeeps ==
    ASSUME Types, Life, Inject
    PROVE  Life'
<1>0. PICK d \in Devs : d = thr.dev
  BY DEF Inject, At, Life, Place, Enumerating
<1>1. PICK S \in SUBSET MayTake :
          /\ Takers(S)
          /\ dev' = [dev EXCEPT ![thr.dev].ref_cnt =
                        @ + (IF D.cfg THEN 1 ELSE 0) + Cardinality(S)]
  BY DEF Inject
<1>2. /\ thr.pc = "inject" /\ thr.hc \in Hcs
      /\ p_ports' = [p_ports EXCEPT ![thr.hc] = d] /\ n_dev' = n_dev + 1
      /\ UNCHANGED <<map, hwaddr>>
  BY <1>0 DEF Inject, At, Life, Place, hwVars
<1>3. thr'.pc = "clear_pec" /\ thr'.hc = thr.hc /\ thr'.dev = thr.dev
  BY DEF Inject, To, Types, ThrType
<1>4. /\ dev[d].live /\ dev[d].inject /\ dev[d].hc = thr.hc
      /\ (\A h \in Hcs : p_ports[h] # d) /\ Holders(d) = {}
  BY <1>0, <1>2 DEF Life, Place, Enumerating, Holders
<1>5. S \subseteq Users /\ Cardinality(S) \in Nat /\ (~dev[d].cfg => S = {})
  <2>1. S \in SUBSET Users
    BY DEF MayTake
  <2> QED BY <1>0, <2>1, HoldersFinite DEF MayTake, D
<1>6. /\ dev'[d].live /\ dev'[d].inject /\ dev'[d].hc = dev[d].hc /\ dev'[d].addr = dev[d].addr
      /\ dev'[d].cfg = dev[d].cfg
      /\ dev'[d].ref_cnt = dev[d].ref_cnt + (IF dev[d].cfg THEN 1 ELSE 0) + Cardinality(S)
      /\ \A c \in Devs \ {d} : dev'[c] = dev[c]
  BY <1>0, <1>1, <1>4 DEF Types, DevType, D
<1>7. Holders(d)' = S /\ \A c \in Devs \ {d} : Holders(c)' = Holders(c)
  <2>1. \A u \in Users : held'[u] = IF u \in S THEN d ELSE held[u]
    BY <1>0, <1>1 DEF Takers
  <2>2. \A u \in S : held[u] = NoDev
    BY DEF MayTake
  <2> QED BY <1>4, <1>5, <2>1, <2>2, Constants DEF Holders
<1>8. Place'
  BY <1>2, <1>3 DEF Place, Enumerating, Putting
<1>9. PortAlive'
  <2>1. \A h \in Hcs \ {thr.hc} : p_ports'[h] = p_ports[h]
    BY <1>2 DEF Types
  <2>2. p_ports'[thr.hc] = d
    BY <1>2 DEF Types
  <2> QED BY <1>4, <1>6, <2>1, <2>2 DEF Life, PortAlive, Types
<1>10. ASSUME NEW c \in Devs PROVE Counted(c)'
  <2>1. ThreadRefs(c)' = 0 /\ ThreadRefs(c) = 0
    BY <1>2, <1>3 DEF ThreadRefs
  <2>2. CASE c = d
    <3>1. dev[d].ref_cnt = 1
      <4>1. OwnRefs(d) = 1 /\ Cardinality(Holders(d)) = 0
        BY <1>0, <1>2, <1>4, FS_EmptySet DEF OwnRefs
      <4>2. dev[d].ref_cnt = Cardinality(Holders(d)) + ThreadRefs(d) + OwnRefs(d)
        BY <1>4 DEF Life, Counted
      <4>3. ThreadRefs(d) = 0
        BY <2>1, <2>2
      <4> QED BY <4>1, <4>2, <4>3
    <3>2. OwnRefs(d)' = IF dev[d].cfg THEN 2 ELSE 1
      BY <1>3, <1>6 DEF OwnRefs
    <3>3. Cardinality(Holders(d)') = Cardinality(S)
      BY <1>7
    <3> QED BY <1>5, <1>6, <2>1, <2>2, <3>1, <3>2, <3>3 DEF Counted
  <2>3. CASE c # d
    <3>1. OwnRefs(c)' = OwnRefs(c)
      BY <1>0, <1>3, <1>6, <2>3 DEF OwnRefs
    <3>2. Holders(c)' = Holders(c)
      BY <1>7, <2>3
    <3> QED BY <1>6, <2>1, <2>3, <3>1, <3>2 DEF Life, Counted
  <2> QED BY <2>2, <2>3
<1>11. n_dev' = Cardinality(Injected')
  <2>1. Injected' = Injected \cup {d} /\ d \notin Injected
    BY <1>0, <1>2, <1>3, <1>4, <1>6 DEF Injected, Enumerating
  <2>2. IsFiniteSet(Injected)
    BY InjectedFinite
  <2> QED BY <1>2, <2>1, <2>2, FS_AddElement, FS_CardinalityType DEF Life
<1>12. Addresses'
  <2>1. \A c \in Devs, h \in Hcs : Owner(c, h)' <=> Owner(c, h)
    BY <1>4, <1>6 DEF Owner
  <2>2. \A c \in Devs : /\ dev'[c].addr = dev[c].addr /\ dev'[c].hc = dev[c].hc
                        /\ dev'[c].live <=> dev[c].live
    BY <1>4, <1>6
  <2> QED BY <1>2, <1>3, <2>1, <2>2 DEF Life, Addresses
<1> QED BY <1>8, <1>9, <1>10, <1>11, <1>12 DEF Life

\* The device leaves its port; the thread has its references to put.
LEMMA DisconnectKeeps ==
    ASSUME Types, Life, Disconnect
    PROVE  Life'
<1>1. thr.pc = "disconnect" /\ thr.hc \in Hcs /\ UNCHANGED <<map, held, hwaddr>>
      /\ p_ports' = [p_ports EXCEPT ![thr.hc] = NoDev]
  BY DEF Disconnect, At, Life, Place, hwVars
<1>2. /\ p_ports'[thr.hc] = NoDev
      /\ \A h \in Hcs \ {thr.hc} : p_ports'[h] = p_ports[h]
  BY <1>1 DEF Types
<1>3. CASE p_ports[thr.hc] = NoDev
  <2>1. UNCHANGED <<dev, n_dev>> /\ To("clear_pec")
    BY <1>3 DEF Disconnect
  <2>2. p_ports' = p_ports
    BY <1>1, <1>3 DEF Types
  <2>3. thr'.pc = "clear_pec" /\ thr'.hc = thr.hc
    BY <2>1 DEF To, Types, ThrType
  <2>4. Move
    BY <1>1, <2>1, <2>2, <2>3 DEF Move, SameDev, Enumerating, Putting, Reaching
  <2>5. thr' \in ThrType
    BY <2>1, ToType DEF Types, ThreadPcs
  <2> QED BY <2>4, <2>5, MoveKeeps
<1>4. CASE p_ports[thr.hc] # NoDev
  <2>0. PICK d \in Devs : d = p_ports[thr.hc]
    BY <1>1, <1>4 DEF Types
  <2>1. /\ dev' = [dev EXCEPT ![d].inject = FALSE]
        /\ n_dev' = IF n_dev > 0 THEN n_dev - 1 ELSE 0
        /\ thr' = [thr EXCEPT !.pc = IF dev[d].cfg THEN "put_fun" ELSE "put", !.dev = d]
    BY <1>4, <2>0 DEF Disconnect
  <2>2. /\ thr'.pc = (IF dev[d].cfg THEN "put_fun" ELSE "put") /\ thr'.dev = d
        /\ thr'.hc = thr.hc
    BY <2>1 DEF Types, ThrType
  <2>3. dev[d].live /\ dev[d].inject /\ dev[d].hc = thr.hc
    BY <1>1, <1>4, <2>0 DEF Life, PortAlive
  <2>4. /\ dev'[d].live = dev[d].live /\ ~dev'[d].inject /\ dev'[d].hc = dev[d].hc
        /\ dev'[d].addr = dev[d].addr /\ dev'[d].ref_cnt = dev[d].ref_cnt
        /\ \A c \in Devs \ {d} : dev'[c] = dev[c]
    BY <2>1 DEF Types, DevType
  <2>5. \A h \in Hcs : p_ports'[h] # d
    BY <1>2, <2>0, <2>3, Constants DEF Life, PortAlive
  <2>6. Place'
    BY <1>1, <2>2, <2>4 DEF Place, Enumerating, Putting
  <2>7. PortAlive'
    BY <1>2, <2>4, <2>5 DEF Life, PortAlive, Types
  <2>8. ASSUME NEW c \in Devs PROVE Counted(c)'
    <3>1. Holders(c)' = Holders(c) /\ ThreadRefs(c) = 0 /\ Cardinality(Holders(c)) \in Nat
      BY <1>1, HoldersFinite DEF Holders, ThreadRefs
    <3>2. CASE c = d
      <4>1. ThreadRefs(d)' = (IF dev[d].cfg THEN 2 ELSE 1) /\ OwnRefs(d)' = 0
        BY <2>2, <2>4 DEF ThreadRefs, OwnRefs
      <4>2. OwnRefs(d) = IF dev[d].cfg THEN 2 ELSE 1
        BY <1>1, <2>3 DEF OwnRefs
      <4>3. /\ Holders(d)' = Holders(d) /\ Cardinality(Holders(d)) \in Nat
            /\ dev[d].ref_cnt = Cardinality(Holders(d)) + OwnRefs(d)
        <5>1. ThreadRefs(d) = 0 /\ OwnRefs(d) \in Nat /\ Cardinality(Holders(d)) \in Nat
          BY <3>1, <3>2, <4>2
        <5> QED BY <2>3, <3>1, <3>2, <5>1 DEF Life, Counted
      <4>4. dev'[d].ref_cnt = Cardinality(Holders(d)) + ThreadRefs(d)' + OwnRefs(d)'
        BY <2>4, <4>1, <4>2, <4>3
      <4>5. dev'[d].live
        BY <2>3, <2>4
      <4> QED BY <3>2, <4>3, <4>4, <4>5 DEF Counted
    <3>3. CASE c # d
      <4>1. ThreadRefs(c)' = 0 /\ OwnRefs(c)' = OwnRefs(c)
        BY <1>1, <2>2, <2>4, <3>3 DEF ThreadRefs, OwnRefs
      <4>2. dev'[c] = dev[c] /\ Counted(c)
        BY <2>4, <3>3 DEF Life
      <4> QED BY <3>1, <4>1, <4>2 DEF Counted
    <3> QED BY <3>2, <3>3
  <2>9. n_dev' = Cardinality(Injected')
    <3>1. Injected' = Injected \ {d} /\ d \in Injected
      BY <1>1, <2>2, <2>3, <2>4 DEF Injected, Enumerating
    <3>2. IsFiniteSet(Injected)
      BY InjectedFinite
    <3>3. Cardinality(Injected) \in Nat /\ Cardinality(Injected) # 0
      BY <3>1, <3>2, FS_CardinalityType, FS_EmptySet
    <3>4. Cardinality(Injected \ {d}) = Cardinality(Injected) - 1
      BY <3>1, <3>2, FS_RemoveElement
    <3> QED BY <2>1, <3>1, <3>3, <3>4 DEF Life
  <2>10. Addresses'
    <3>1. \A c \in Devs, h \in Hcs : Owner(c, h)' <=> Owner(c, h)
      BY <2>4 DEF Owner
    <3>2. \A c \in Devs : /\ dev'[c].addr = dev[c].addr /\ dev'[c].hc = dev[c].hc
                          /\ dev'[c].live = dev[c].live
      BY <2>4
    <3>3. thr'.pc \in {"put_fun", "put"}
      BY <2>2
    <3> QED BY <1>1, <2>2, <3>1, <3>2, <3>3 DEF Life, Addresses
  <2> QED BY <2>6, <2>7, <2>8, <2>9, <2>10 DEF Life
<1> QED BY <1>3, <1>4
-----------------------------------------------------------------------------
(* The tries                                                               *)

\* Beyond the loops the count of tries only has to be one that some loop reached.
Few(n) == \E bound \in {Debounce, DescTries, AddrTries} : n < bound

LEMMA TriesStep ==
    ASSUME Types, Tries, ThreadStep
    PROVE  Tries'
<1>1. thr \in ThrType /\ thr.n \in Nat /\ Few(thr.n) /\ Few(0)
  BY HostPortAssumption DEF Types, ThrType, Tries, Few
<1>2. Tries' <=>
          /\ thr'.pc \in {"read", "clear_csc"} => thr'.n = 0
          /\ thr'.pc = "stable" => thr'.n < Debounce
          /\ thr'.pc \in {"reset", "reset_end", "desc"} =>
                 thr'.n < (IF thr'.after = "desc" THEN DescTries ELSE 1)
          /\ thr'.pc = "desc" => thr'.after = "desc"
          /\ thr'.pc \in {"addr", "set_addr"} => thr'.n < AddrTries
          /\ Few(thr'.n)
  BY DEF Tries, Few
<1>3. IdleThread.n = 0 /\ IdleThread.pc = "wait"
  BY DEF IdleThread
<1> USE DEF At, To
<1>4. CASE \/ ThreadTake \/ Inject \/ EjectPutFun \/ DisconnectPut \/ CfgOk \/ CfgFail
           \/ DescBad \/ SetAddrOk \/ Disconnect
  <2>1. /\ thr'.n = thr.n
        /\ thr'.pc \in {"loop", "clear_pec", "put", "put_fun", "inject", "check", "cfg"}
    <3>1. CASE ThreadTake
      BY <1>1, <3>1 DEF ThreadTake, ThrType
    <3>2. CASE Inject
      BY <1>1, <3>2 DEF Inject, ThrType
    <3>3. CASE EjectPutFun \/ DisconnectPut
      BY <1>1, <3>3 DEF EjectPutFun, DisconnectPut, ThrType
    <3>4. CASE CfgOk
      BY <1>1, <3>4 DEF CfgOk, ThrType
    <3>5. CASE CfgFail \/ DescBad
      BY <1>1, <3>5 DEF CfgFail, DescBad, AttemptFailed, ThrType
    <3>6. CASE SetAddrOk
      <4>1. thr' = [thr EXCEPT !.pc = "cfg", !.addr = 0]
        BY <3>6 DEF SetAddrOk
      <4> QED BY <1>1, <4>1 DEF ThrType
    <3>7. CASE Disconnect
      <4>1. \/ thr' = [thr EXCEPT !.pc = "clear_pec"]
            \/ \E s \in {"put", "put_fun"} : \E d : thr' = [thr EXCEPT !.pc = s, !.dev = d]
        BY <3>7, Zenon DEF Disconnect
      <4> QED BY <1>1, <4>1 DEF ThrType
    <3> QED BY <1>4, <3>1, <3>2, <3>3, <3>4, <3>5, <3>6, <3>7
  <2> QED BY <1>1, <1>2, <2>1
<1>5. CASE ThreadNext
  <2>1. thr'.n = 0 /\ thr'.pc \in {"wait", "read"}
    <3>1. thr' = IdleThread \/ \E h : thr' = [IdleThread EXCEPT !.pc = "read", !.hc = h]
      BY <1>5, Zenon DEF ThreadNext
    <3> QED BY <1>3, <3>1, Constants DEF ThrType
  <2> QED BY <1>1, <1>2, <2>1
<1>6. CASE RhRead
  <2>1. thr'.n = 0 /\ thr'.pc \in {"clear_csc", "clear_pec"}
    <3>1. thr.n = 0
      BY <1>6 DEF RhRead, Tries
    <3>2. \E s \in {"clear_csc", "clear_pec"} : thr' = [thr EXCEPT !.rd = P, !.pc = s]
      BY <1>6 DEF RhRead
    <3> QED BY <1>1, <3>1, <3>2 DEF ThrType
  <2> QED BY <1>1, <1>2, <2>1
<1>7. CASE RhClearCsc
  <2>1. thr'.n = 0 /\ thr'.pc \in {"stable", "disconnect"}
    <3>1. thr.n = 0
      BY <1>7 DEF RhClearCsc, Tries
    <3>2. \E s \in {"stable", "disconnect"} : thr' = [thr EXCEPT !.pc = s]
      BY <1>7 DEF RhClearCsc
    <3> QED BY <1>1, <3>1, <3>2 DEF ThrType
  <2>2. 0 < Debounce
    BY HostPortAssumption
  <2> QED BY <1>1, <1>2, <2>1, <2>2
<1>8. CASE RhClearPec
  <2>1. thr'.n = 0 /\ thr'.pc = "loop"
    BY <1>8 DEF RhClearPec, IdleThread
  <2> QED BY <1>1, <1>2, <2>1
<1>9. CASE RhDebounce
  <2>1. \/ thr'.pc = "clear_pec" /\ thr'.n = thr.n
        \/ thr'.pc = "stable" /\ thr'.n = thr.n + 1 /\ thr.n + 1 < Debounce
        \/ thr'.pc = "reset" /\ thr'.n = 0 /\ thr'.after = "desc"
    <3>1. thr.pc = "stable"
      BY <1>9 DEF RhDebounce
    <3>2. \/ thr' = [thr EXCEPT !.pc = "clear_pec"]
          \/ thr.n + 1 < Debounce /\ thr' = [thr EXCEPT !.n = thr.n + 1]
          \/ \E d \in Devs :
                 thr' = [thr EXCEPT !.pc = "reset", !.n = 0, !.dev = d, !.after = "desc"]
      BY <1>9, DebounceCases
    <3> QED BY <1>1, <3>1, <3>2 DEF ThrType
  <2>2. 0 < DescTries
    BY HostPortAssumption
  <2>3. thr.n + 1 < Debounce => Few(thr.n + 1)
    BY DEF Few
  <2> QED BY <1>1, <1>2, <2>1, <2>2, <2>3
<1>10. CASE ResetBegin
  <2>1. thr.pc = "reset" /\ thr'.pc = "reset_end" /\ thr'.n = thr.n /\ thr'.after = thr.after
    BY <1>1, <1>10 DEF ResetBegin, ThrType
  <2> QED BY <1>1, <1>2, <2>1 DEF Tries
<1>11. CASE ResetEnd
  <2>1. /\ thr.pc = "reset_end" /\ thr.after \in {"desc", "addr"}
        /\ thr'.pc = thr.after /\ thr'.n = thr.n /\ thr'.after = thr.after
    BY <1>1, <1>11 DEF ResetEnd, ThrType
  <2>2. thr.n < (IF thr.after = "desc" THEN DescTries ELSE 1)
    BY <2>1 DEF Tries
  <2>3. 1 <= AddrTries /\ AddrTries \in Nat
    BY HostPortAssumption
  <2>4. thr.after = "addr" => thr.n < AddrTries
    BY <1>1, <2>2, <2>3
  <2> QED BY <1>1, <1>2, <2>1, <2>2, <2>4
<1>12. CASE DescOk \/ DescFail
  <2>1. thr.pc = "desc" /\ thr.after = "desc"
    BY <1>12 DEF DescOk, DescFail, Tries
  <2>2. \/ thr'.pc = "check" /\ thr'.n = thr.n
        \/ /\ thr.n + 1 < DescTries
           /\ thr'.pc = "reset" /\ thr'.n = thr.n + 1 /\ thr'.after = thr.after
        \/ thr'.pc = "reset" /\ thr'.after = "addr" /\ thr'.n = 0
    <3>1. \/ thr' = [thr EXCEPT !.pc = "check"]
          \/ thr.n + 1 < DescTries /\ thr' = [thr EXCEPT !.pc = "reset", !.n = thr.n + 1]
          \/ thr' = [thr EXCEPT !.pc = "reset", !.after = "addr", !.n = 0]
      BY <1>12, Zenon DEF DescOk, DescFail, AttemptFailed
    <3> QED BY <1>1, <3>1 DEF ThrType
  <2>3. thr.n + 1 < DescTries => Few(thr.n + 1)
    BY DEF Few
  <2> QED BY <1>1, <1>2, <2>1, <2>2, <2>3
<1>13. CASE AddrAlloc
  <2>1. thr.pc = "addr" /\ thr'.pc = "set_addr" /\ thr'.n = thr.n
    <3>1. \E a : thr' = [thr EXCEPT !.pc = "set_addr", !.addr = a]
      BY <1>13 DEF AddrAlloc
    <3> QED BY <1>1, <1>13, <3>1 DEF AddrAlloc, ThrType
  <2> QED BY <1>1, <1>2, <2>1 DEF Tries
<1>14. CASE SetAddrFail
  <2>1. \/ thr'.pc = "addr" /\ thr'.n = thr.n + 1 /\ thr.n + 1 < AddrTries
        \/ thr'.pc = "check" /\ thr'.n = thr.n
    <3>1. \/ /\ thr.n + 1 < AddrTries
             /\ thr' = [thr EXCEPT !.pc = "addr", !.n = thr.n + 1, !.addr = 0]
          \/ thr' = [thr EXCEPT !.pc = "check", !.addr = 0]
      BY <1>14, Zenon DEF SetAddrFail, AddrFailed
    <3> QED BY <1>1, <3>1 DEF ThrType
  <2>2. thr.n + 1 < AddrTries => Few(thr.n + 1)
    BY DEF Few
  <2> QED BY <1>1, <1>2, <2>1, <2>2
<1>15. CASE ConnectRetry
  <2>1. \/ thr'.pc = "reset" /\ thr'.after = "desc" /\ thr'.n = 0
        \/ thr'.pc = "inject" /\ thr'.n = thr.n
        \/ thr'.pc = "wait" /\ thr'.n = 0
    <3>1. \/ thr' = [thr EXCEPT !.pc = "reset", !.after = "desc", !.n = 0, !.try = thr.try + 1]
          \/ thr' = [thr EXCEPT !.pc = "inject"]
          \/ thr' = IdleThread
      BY <1>15, Zenon DEF ConnectRetry
    <3> QED BY <1>1, <1>3, <3>1 DEF ThrType
  <2>2. 0 < DescTries
    BY HostPortAssumption
  <2> QED BY <1>1, <1>2, <2>1, <2>2
<1> QED BY <1>4, <1>5, <1>6, <1>7, <1>8, <1>9, <1>10, <1>11, <1>12, <1>13, <1>14, <1>15
     DEF ThreadStep
-----------------------------------------------------------------------------
(* The invariant and what follows                                          *)

LifeAll == WakerInv /\ LifeInv

LEMMA LifeInit == Init => LifeAll
<1> SUFFICES ASSUME Init PROVE LifeInv
  BY WakerInvInit DEF LifeAll
<1>1. Types
  BY TypesInit
<1>2. thr.pc = "wait" /\ thr.n = 0 /\ thr.dev = NoDev
  BY DEF Init, IdleThread
<1>3. \A d \in Devs : ~dev[d].live /\ dev[d].ref_cnt = 0 /\ Holders(d) = {}
  BY Constants DEF Init, NoDevice, Holders
<1>4. Tries
  BY <1>2, HostPortAssumption DEF Tries
<1>5. Place /\ PortAlive
  BY <1>2 DEF Init, Place, PortAlive, Enumerating, Putting
<1>6. \A d \in Devs : Counted(d)
  BY <1>2, <1>3, FS_EmptySet DEF Counted, ThreadRefs
<1>7. n_dev = Cardinality(Injected)
  <2>1. Injected = {}
    BY <1>3 DEF Injected
  <2> QED BY <2>1, FS_EmptySet DEF Init
<1>8. Addresses
  BY <1>2, <1>3 DEF Init, Addresses, Owner
<1> QED BY <1>1, <1>4, <1>5, <1>6, <1>7, <1>8 DEF LifeInv

LEMMA LifeStep == LifeAll /\ [Next]_vars => LifeAll'
<1> SUFFICES ASSUME WakerInv, LifeInv, [Next]_vars PROVE LifeInv'
  BY WakerInvStep DEF LifeAll
<1>1. Types /\ Tries /\ Life /\ hub_evt_list \in Seq(Hcs)
  BY DEF LifeInv, Life, WakerInv, Covered
<1>2. SUFFICES Types' /\ Tries' /\ Life'
  BY DEF LifeInv, Life
<1>3. CASE \/ UNCHANGED vars
           \/ Hardware
           \/ \E h \in Hcs : IrqHandle(h) \/ TaskStep(h)
  <2>1. Move /\ Types' /\ thr' = thr
    BY <1>1, <1>3, OutsideMoves
  <2>2. Tries'
    BY <1>1, <2>1 DEF Tries
  <2>3. thr' \in ThrType
    BY <2>1 DEF Types
  <2> QED BY <1>1, <2>1, <2>2, <2>3, MoveKeeps
<1>4. ASSUME NEW u \in Users, UserPut(u) PROVE Types' /\ Tries' /\ Life'
  <2>1. held[u] \in Devs /\ Put(held[u]) /\ thr' = thr
    BY <1>1, <1>4 DEF UserPut, Types
  <2>2. Types'
    BY <1>1, <1>4, <2>1, PutType DEF UserPut, Types, hwVars, ehciVars
  <2>3. Tries'
    BY <1>1, <2>1 DEF Tries
  <2> QED BY <1>1, <1>4, <2>2, <2>3, UserPutKeeps
<1>5. CASE ThreadStep
  <2>1. Types'
    BY <1>1, <1>5, ThreadTypes DEF Life
  <2>2. Tries'
    BY <1>1, <1>5, TriesStep
  <2>3. thr' \in ThrType
    BY <2>1 DEF Types
  <2>4. CASE \/ ThreadTake \/ ThreadNext \/ RhRead \/ RhClearCsc \/ RhClearPec
             \/ ResetBegin \/ ResetEnd \/ DescOk \/ DescFail \/ DescBad \/ CfgFail
             \/ RhDebounce /\ UNCHANGED dev
             \/ ConnectRetry /\ UNCHANGED dev
    BY <1>1, <2>1, <2>2, <2>3, <2>4, ThreadMoves, MoveKeeps
  <2>5. CASE RhDebounce /\ ~UNCHANGED dev
    BY <1>1, <2>1, <2>2, <2>5, CreateKeeps
  <2>6. CASE ConnectRetry /\ ~UNCHANGED dev
    BY <1>1, <2>1, <2>2, <2>6, GiveUpKeeps
  <2>7. CASE \/ AddrAlloc \/ SetAddrOk \/ SetAddrFail \/ CfgOk \/ Inject \/ Disconnect
             \/ EjectPutFun \/ DisconnectPut
    BY <1>1, <2>1, <2>2, <2>7, AllocKeeps, SetOkKeeps, SetFailKeeps, ConfigureKeeps, InjectKeeps,
       DisconnectKeeps, ThreadPutKeeps
  <2> QED BY <1>5, <2>4, <2>5, <2>6, <2>7 DEF ThreadStep
<1> QED BY <1>3, <1>4, <1>5 DEF Next

LEMMA LifeTypeOK == LifeAll => TypeOK
<1> SUFFICES ASSUME LifeAll PROVE TypeOK
  OBVIOUS
<1>1. Types /\ Tries /\ IntTypes /\ hub_evt_list \in Seq(Hcs) /\ p_hub_evt_sem \in Nat
  BY DEF LifeAll, LifeInv, WakerInv, Covered, IntInv
<1>2. /\ sts \in [Hcs -> SUBSET {"PCD", "INT"}]
      /\ masked \in [Hcs -> BOOLEAN]
      /\ status \in [Hcs -> SUBSET {"PCD", "INT"}]
      /\ evt \in [Hcs -> BOOLEAN]
      /\ p_sem \in [Hcs -> Nat]
      /\ task \in [Hcs -> [pc : {"take", "evt", "clear_evt", "status", "clear_status", "unmask",
                                 "change", "add", "give"},
                           evt : BOOLEAN, status : SUBSET {"PCD", "INT"}]]
  <2>1. p_sem \in [Hcs -> Nat]
    BY <1>1 DEF IntTypes
  <2> QED BY <1>1, <2>1 DEF IntTypes, Bits, TaskState, TaskPcs
<1>3. dev \in [Devs -> [live : BOOLEAN, hc : Hcs \cup {NoHc}, addr : Addrs \cup {0},
                       ref_cnt : 0..(2 + Cardinality(Users)), inject : BOOLEAN,
                       desc : BOOLEAN, cfg : BOOLEAN]]
  <2>1. ASSUME NEW d \in Devs PROVE dev[d].ref_cnt \in 0..(2 + Cardinality(Users))
    <3>1. /\ Holders(d) \in SUBSET Users /\ Cardinality(Users) \in Nat
          /\ Cardinality(Holders(d)) \in Nat
      BY HoldersFinite DEF Holders
    <3>2. Cardinality(Holders(d)) <= Cardinality(Users)
      BY <3>1, HostPortAssumption, FS_Subset
    <3>3. ThreadRefs(d) + OwnRefs(d) \in 0..2
      <4>1. ThreadRefs(d) # 0 => ~dev[d].inject
        BY DEF LifeAll, LifeInv, Place, Putting, ThreadRefs
      <4> QED BY <4>1 DEF ThreadRefs, OwnRefs
    <3>4. CASE dev[d].live
      <4>1. /\ dev[d].ref_cnt = Cardinality(Holders(d)) + ThreadRefs(d) + OwnRefs(d)
            /\ ThreadRefs(d) \in Nat /\ OwnRefs(d) \in Nat
        BY <3>4 DEF LifeAll, LifeInv, Counted, ThreadRefs, OwnRefs
      <4> QED BY <3>1, <3>2, <3>3, <4>1
    <3>5. CASE ~dev[d].live
      BY <3>1, <3>5 DEF LifeAll, LifeInv, Counted
    <3> QED BY <3>4, <3>5
  <2>2. \A d \in Devs : dev[d] \in DevType
    BY <1>1 DEF Types
  <2>3. ASSUME NEW d \in Devs
        PROVE  dev[d] \in [live : BOOLEAN, hc : Hcs \cup {NoHc}, addr : Addrs \cup {0},
                           ref_cnt : 0..(2 + Cardinality(Users)), inject : BOOLEAN,
                           desc : BOOLEAN, cfg : BOOLEAN]
    BY <2>1, <2>2 DEF DevType
  <2> QED BY <1>1, <2>3 DEF Types
<1>4. n_dev \in 0..MaxDev
  BY InjectedFinite DEF LifeAll, LifeInv
<1>5. \A h \in Hcs : p_psta[h] \subseteq PortSc
  BY <1>1 DEF Types
<1>6. \E bound \in {Debounce, DescTries, AddrTries} : thr.n < bound
  BY <1>1 DEF Tries
<1> QED BY <1>1, <1>2, <1>3, <1>4, <1>5, <1>6 DEF TypeOK, Types, ThrType

LEMMA LifeHeldAlive == LifeAll => HeldAlive
<1> SUFFICES ASSUME LifeAll, NEW d \in Devs
             PROVE  LET users == Cardinality({u \in Users : held[u] = d})
                        thread == CASE thr.dev = d /\ thr.pc = "put" -> 1
                                    [] thr.dev = d /\ thr.pc = "put_fun" -> 2
                                    [] OTHER -> 0
                    IN  /\ users + thread > 0 => dev[d].live
                        /\ dev[d].live => dev[d].ref_cnt =
                               users + thread + (IF ~dev[d].inject THEN 0
                                   ELSE IF dev[d].cfg /\ ~(thr.dev = d /\ thr.pc = "inject")
                                   THEN 2 ELSE 1)
  BY Zenon DEF HeldAlive
<1>1. (CASE thr.dev = d /\ thr.pc = "put" -> 1
         [] thr.dev = d /\ thr.pc = "put_fun" -> 2
         [] OTHER -> 0) = ThreadRefs(d)
  BY DEF ThreadRefs
<1> QED BY <1>1, Zenon DEF LifeAll, LifeInv, Counted, Holders, OwnRefs

\* The addresses of a controller's objects, one each.
LEMMA LifeAddrOwned == LifeAll => AddrOwned
<1> SUFFICES ASSUME LifeAll, NEW h \in Hcs
             PROVE  LET owners == {d \in Devs : dev[d].live /\ dev[d].hc = h /\ dev[d].addr # 0}
                        setting == IF thr.pc = "set_addr" /\ thr.hc = h THEN {thr.addr} ELSE {}
                    IN  /\ map[h] = {dev[d].addr : d \in owners} \cup setting
                        /\ Cardinality(map[h]) = Cardinality(owners) + Cardinality(setting)
  BY Zenon DEF AddrOwned
<1> DEFINE owners == {d \in Devs : dev[d].live /\ dev[d].hc = h /\ dev[d].addr # 0}
           setting == IF thr.pc = "set_addr" /\ thr.hc = h THEN {thr.addr} ELSE {}
           owned == {dev[d].addr : d \in owners}
<1>1. Types /\ Addresses
  BY DEF LifeAll, LifeInv
<1>2. \A d \in Devs : d \in owners <=> Owner(d, h)
  BY DEF Owner
<1>3. map[h] \subseteq Addrs /\ owned \subseteq Addrs /\ setting \subseteq Addrs
  <2>1. map[h] \subseteq Addrs /\ owned \subseteq Addrs
    BY <1>1 DEF Types, DevType
  <2>2. thr.pc = "set_addr" => thr.addr \in Addrs
    BY <1>1 DEF Types, ThrType, Addresses
  <2> QED BY <2>1, <2>2
<1>4. map[h] = owned \cup setting
  <2>1. ASSUME NEW x \in Addrs PROVE x \in map[h] <=> x \in owned \cup setting
    <3>1. x \in map[h] <=> \/ \E d \in Devs : Owner(d, h) /\ dev[d].addr = x
                           \/ thr.pc = "set_addr" /\ thr.hc = h /\ thr.addr = x
      BY <1>1 DEF Addresses
    <3>2. x \in owned <=> \E d \in Devs : Owner(d, h) /\ dev[d].addr = x
      BY <1>2
    <3>3. x \in setting <=> thr.pc = "set_addr" /\ thr.hc = h /\ thr.addr = x
      OBVIOUS
    <3> QED BY <3>1, <3>2, <3>3
  <2> QED BY <1>3, <2>1
<1>5. IsFiniteSet(owners) /\ IsFiniteSet(owned) /\ Cardinality(owned) = Cardinality(owners)
  <2> DEFINE f == [d \in owners |-> dev[d].addr]
  <2>1. owners \in SUBSET Devs
    OBVIOUS
  <2>2. IsFiniteSet(owners)
    BY <2>1, InjectedFinite, FS_Subset
  <2>3. f \in Surjection(owners, owned)
    BY DEF Surjection
  <2>4. f \in Injection(owners, owned)
    <3>1. \A d, e \in Devs : Owner(d, h) /\ Owner(e, h) /\ dev[d].addr = dev[e].addr => d = e
      BY <1>1 DEF Addresses
    <3>2. \A d, e \in owners : dev[d].addr = dev[e].addr => d = e
      BY <1>2, <3>1
    <3> QED BY <3>2 DEF Injection, IsInjective
  <2> HIDE DEF f, owners, owned
  <2> QED BY <2>2, <2>3, <2>4, FS_Surjection
<1>6. CASE setting = {}
  <2>1. Cardinality(owners) \in Nat
    BY <1>5, FS_CardinalityType
  <2>2. map[h] = owned /\ Cardinality(setting) = 0
    BY <1>4, <1>6, FS_EmptySet
  <2> HIDE DEF owners, owned, setting
  <2>3. Cardinality(map[h]) = Cardinality(owners) + Cardinality(setting)
    BY <1>5, <2>1, <2>2
  <2> QED BY <1>4, <2>3 DEF owners, owned, setting
<1>7. CASE setting # {}
  <2>1. thr.pc = "set_addr" /\ thr.hc = h /\ setting = {thr.addr}
    BY <1>7
  <2>2. thr.addr \notin owned
    BY <1>1, <1>2, <2>1 DEF Addresses
  <2>3. Cardinality(setting) = 1
    BY <2>1, FS_Singleton
  <2>4. Cardinality(owners) \in Nat
    BY <1>5, FS_CardinalityType
  <2> HIDE DEF owners, owned, setting
  <2>5. Cardinality(map[h]) = Cardinality(owned) + 1
    BY ZenonT(60), <1>4, <1>5, <2>1, <2>2, FS_AddElement
  <2>6. Cardinality(map[h]) = Cardinality(owners) + Cardinality(setting)
    BY <1>5, <2>3, <2>4, <2>5
  <2> QED BY <1>4, <2>6 DEF owners, owned, setting
<1> QED BY <1>6, <1>7

\* Every variable keeps its type; the count of a device never passes its users and two,
\* n_dev never its bound, and no loop of an enumeration its tries (usbh_dev_enum.c).
THEOREM HostPortTypeCorrect == Spec => []TypeOK
BY LifeInit, LifeStep, LifeTypeOK, PTL DEF Spec

\* A device a user holds, or the thread is about to put, is alive, and its count is
\* exactly that of its holders, whatever user puts its reference when
\* (usbh_dev.c:975-1071, usb_refcnt.c).
THEOREM HeldDevicesAlive == Spec => []HeldAlive
BY LifeInit, LifeStep, LifeHeldAlive, PTL DEF Spec

\* The device of a port is an object in use that nobody has begun to remove
\* (usbh_dev.c:1046-1071, 1079-1136).
THEOREM PortDevicesAlive == Spec => []PortAlive
<1>1. LifeAll => PortAlive
  BY DEF LifeAll, LifeInv
<1> QED BY <1>1, LifeInit, LifeStep, PTL DEF Spec

\* The bitmap of a controller holds exactly the addresses of its device objects and the
\* one being set, and no two share one, through retries, failures, removal and late
\* references (usbh_dev_enum.c:167-203, usbh_dev.c:1060).
THEOREM AddressesOwned == Spec => []AddrOwned
BY LifeInit, LifeStep, LifeAddrOwned, PTL DEF Spec
=============================================================================
