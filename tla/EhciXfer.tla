------------------------------ MODULE EhciXfer ------------------------------
(***************************************************************************)
(* The queue-head (QH) transfer engine of the EHCI host controller driver: *)
(* requests, cancellation, endpoint disabling, the scan of the schedules   *)
(* by the EHCI task and the delivery of completed transfer requests (TRPs) *)
(* from trp_done_list (usbh_ehci.c, usbh_ehci_xfer.c, usbh_core.c).        *)
(*                                                                         *)
(* Three mutexes order the steps: p_hc->p_lock (hcLock, user calls only),  *)
(* p_ehci->p_lock (lock) and p_ehci->p_trp_done_lock (doneLock).  A region *)
(* that takes no further lock is one step; the qTD loop of qh_handle and   *)
(* the loop over trp_done_list take one step per iteration, because the    *)
(* hardware, resp. the owners of the TRPs, run between two iterations.     *)
(***************************************************************************)
EXTENDS Naturals, Sequences, FiniteSets

CONSTANTS AsyncEps,   \* control and bulk endpoints
          IntrEps,    \* interrupt endpoints
          Trps,       \* transfer requests
          EpOf,       \* the endpoint each TRP is for
          Resubmits,  \* TRPs whose p_fn_done submits them again if all went well
          Users,      \* tasks that call into the stack
          EhciTask,   \* the driver's own task
          NSlots,     \* frame list slots an interrupt QH is linked into
          MaxQtds,    \* qTDs of one TRP, at most
          MaxXact,    \* QH_XACTERR_MAX
          Faults,     \* the ways the hardware may stop a qTD in this model
          Nobody      \* a mutex nobody holds; an endpoint nobody scans

Eps == AsyncEps \cup IntrEps
Actors == Users \cup {EhciTask}
Stops == {"SHORT", "HALT", "XACT"}

ASSUME EhciXferAssumption ==
    /\ IsFiniteSet(AsyncEps)
    /\ AsyncEps \cap IntrEps = {}
    /\ EpOf \in [Trps -> Eps]
    /\ Resubmits \subseteq Trps
    /\ EhciTask \notin Users
    /\ Nobody \notin Actors \cup Eps \cup Trps
    /\ NSlots \in [IntrEps -> Nat \ {0}]
    /\ MaxQtds \in Nat \ {0}
    /\ MaxXact \in Nat \ {0}
    /\ Faults \subseteq Stops

VARIABLES
    hcLock, lock, doneLock,  \* the three mutexes: their owner or Nobody
    st,         \* p_qh->state; "NONE" when p_ep->p_hw_priv is NULL
    queue,      \* the TRPs whose qTDs are on p_qh->qtds, in order
    qtd,        \* of each TRP: qTDs left, of those retired, how the next stopped
    halted,     \* the halt bit of the QH overlay
    xactErrs,   \* p_qh->xact_errs
    status,     \* p_trp->status
    doneList,   \* p_ehci->trp_done_list
    asyncCount, intrCount,   \* p_ehci->async_count, p_ehci->intr_count
    pse,        \* the periodic schedule is enabled
    irq,        \* an interrupt the EHCI task has not served yet
    pc,         \* where each task is in the driver
    todo,       \* QHs the current scan has not handled yet
    scan,       \* the frame of usbh_ehci_qh_handle: its QH, is_work, status
    target,     \* the TRP each task's usbh_trp_xfer_cancel call is cancelling
    cb          \* the TRP whose p_fn_done each task is running

locks == <<hcLock, lock, doneLock>>
counts == <<asyncCount, intrCount, pse>>
calls == <<target, cb>>
vars == <<locks, st, queue, qtd, halted, xactErrs, status, doneList, counts,
          irq, pc, todo, scan, calls>>
-----------------------------------------------------------------------------
Free == [left |-> 0, ran |-> 0, stop |-> "NONE"]
NoScan == [ep |-> Nobody, work |-> FALSE, acc |-> "INPROGRESS"]
Frame(e, w) == [ep |-> e, work |-> w, acc |-> "INPROGRESS"]

OnList(t, s) == \E i \in DOMAIN s : s[i] = t
OnQueue(t) == OnList(t, queue[EpOf[t]])
\* A TRP the driver still refers to.
Outstanding(t) == OnQueue(t) \/ OnList(t, doneList)

Init ==
    /\ hcLock = Nobody /\ lock = Nobody /\ doneLock = Nobody
    /\ st = [e \in Eps |-> "NONE"]
    /\ queue = [e \in Eps |-> <<>>]
    /\ qtd = [t \in Trps |-> Free]
    /\ halted = [e \in Eps |-> FALSE]
    /\ xactErrs = [e \in Eps |-> 0]
    /\ status = [t \in Trps |-> "INPROGRESS"]
    /\ doneList = <<>>
    /\ asyncCount = 0 /\ intrCount = 0 /\ pse = FALSE
    /\ irq = FALSE
    /\ pc = [a \in Actors |-> "idle"]
    /\ todo = {}
    /\ scan = NoScan
    /\ target = [a \in Actors |-> Nobody]
    /\ cb = [a \in Actors |-> Nobody]
-----------------------------------------------------------------------------
(* The hardware: it executes the qTDs of a linked QH in order and stops at *)
(* a qTD that faults.                                                      *)

\* t is the TRP the hardware works on at endpoint e.
HwAt(e, t) ==
    /\ st[e] = "LINKED" /\ ~halted[e]
    /\ e \in IntrEps => pse
    /\ \E i \in DOMAIN queue[e] :
          /\ queue[e][i] = t
          /\ qtd[t].stop = "NONE" /\ qtd[t].ran < qtd[t].left
          /\ \A j \in 1 .. i - 1 : /\ qtd[queue[e][j]].stop = "NONE"
                                   /\ qtd[queue[e][j]].ran = qtd[queue[e][j]].left

\* One qTD is executed; only the last qTD of a TRP interrupts (IOC).
HwRetire(e) ==
    /\ \E t \in Trps :
          /\ HwAt(e, t)
          /\ qtd' = [qtd EXCEPT ![t].ran = @ + 1]
          /\ irq' = (irq \/ qtd[t].ran + 1 = qtd[t].left)
    /\ UNCHANGED <<locks, st, queue, halted, xactErrs, status, doneList,
                   counts, pc, todo, scan, calls>>

\* One qTD stops: halted by an error, or by a short packet before the last
\* qTD, whose alternate next pointer parks the queue on the dummy qTD.
HwStop(e) ==
    /\ \E t \in Trps, f \in Faults :
          /\ HwAt(e, t)
          /\ f = "SHORT" => e \in AsyncEps /\ qtd[t].ran + 1 < qtd[t].left
          /\ qtd' = [qtd EXCEPT ![t].stop = f]
          /\ halted' = [halted EXCEPT ![e] = (f # "SHORT")]
    /\ irq' = TRUE
    /\ UNCHANGED <<locks, st, queue, xactErrs, status, doneList, counts, pc,
                   todo, scan, calls>>
-----------------------------------------------------------------------------
(* Submitting a TRP, with the user-call locks free or held by the caller.  *)

\* Mutant of AsyncLink: a linked QH is counted again.
AsyncLinkTwice(e) ==
    /\ asyncCount' = asyncCount + 1
    /\ halted' = [halted EXCEPT ![e] = @ /\ st[e] = "LINKED"]
    /\ UNCHANGED <<intrCount, pse, xactErrs>>

\* usbh_ehci_async_link: a QH that enters the ring has its halt bit cleared.
AsyncLink(e) ==
    /\ asyncCount' = IF st[e] = "LINKED" THEN asyncCount ELSE asyncCount + 1
    /\ halted' = [halted EXCEPT ![e] = @ /\ st[e] = "LINKED"]
    /\ UNCHANGED <<intrCount, pse, xactErrs>>

\* Mutant of IntrLink: a request on a linked QH is not counted.
IntrLinkOnce(e) ==
    /\ intrCount' = IF st[e] = "LINKED" THEN intrCount ELSE intrCount + 1
    /\ pse' = (pse \/ intrCount = 0)
    /\ xactErrs' = [xactErrs EXCEPT ![e] = IF st[e] = "LINKED" THEN @ ELSE 0]
    /\ UNCHANGED <<asyncCount, halted>>

\* usbh_ehci_intr_req: every request counts, the first one starts the schedule.
IntrLink(e) ==
    /\ intrCount' = intrCount + 1
    /\ pse' = (pse \/ intrCount = 0)
    /\ xactErrs' = [xactErrs EXCEPT ![e] = IF st[e] = "LINKED" THEN @ ELSE 0]
    /\ UNCHANGED <<asyncCount, halted>>

\* usbh_trp_submit: the endpoint is enabled if it is not, the qTDs are made
\* and linked, and the QH is put on its schedule if it is not there.
Submit(a, t) ==
    LET e == EpOf[t] IN
    /\ hcLock \in {Nobody, a} /\ lock = Nobody
    /\ \E n \in 1 .. MaxQtds : qtd' = [qtd EXCEPT ![t] = [Free EXCEPT !.left = n]]
    /\ status' = [status EXCEPT ![t] = "OK"]
    /\ queue' = [queue EXCEPT ![e] = Append(@, t)]
    /\ IF e \in AsyncEps THEN AsyncLink(e) ELSE IntrLink(e)
    /\ st' = [st EXCEPT ![e] = "LINKED"]
    /\ UNCHANGED <<locks, doneList, irq, pc, todo, scan, target>>

\* No qTD, or no bandwidth: the endpoint is enabled and the status cleared.
SubmitFail(a, t) ==
    LET e == EpOf[t] IN
    /\ hcLock \in {Nobody, a} /\ lock = Nobody
    /\ status' = [status EXCEPT ![t] = "OK"]
    /\ st' = [st EXCEPT ![e] = IF @ = "NONE" THEN "IDLE" ELSE @]
    /\ UNCHANGED <<locks, queue, qtd, halted, xactErrs, doneList, counts, irq,
                   pc, todo, scan, target>>
-----------------------------------------------------------------------------
(* User calls, made with p_hc->p_lock held.                                *)

\* Mutant of Idle: a call does not wait for p_ehci->p_lock.
IdleUnlocked(u) == pc[u] = "idle" /\ hcLock = Nobody

Idle(u) == pc[u] = "idle" /\ hcLock = Nobody /\ lock = Nobody

\* The owner of a TRP submits it once it has it back.
Request(u, t) ==
    /\ Idle(u) /\ ~Outstanding(t) /\ \A a \in Actors : cb[a] # t
    /\ Submit(u, t) \/ SubmitFail(u, t)
    /\ UNCHANGED cb

\* usbh_ehci_async_unlink: the QH leaves the ring.
AsyncUnlink ==
    /\ asyncCount' = IF asyncCount > 0 THEN asyncCount - 1 ELSE 0
    /\ UNCHANGED <<intrCount, pse>>

\* Mutant of IntrUnlink: the count may go below zero.
IntrUnlinkWraps(e) ==
    /\ intrCount' = intrCount - NSlots[e]
    /\ pse' = (pse /\ intrCount' # 0)
    /\ UNCHANGED asyncCount

\* usbh_ehci_intr_cancel: __period_intr_unlink counts down once per slot.
IntrUnlink(e) ==
    /\ intrCount' = IF intrCount > NSlots[e] THEN intrCount - NSlots[e] ELSE 0
    /\ pse' = (pse /\ intrCount' # 0)
    /\ UNCHANGED asyncCount

\* A linked QH is taken off its schedule.
Unlink(e) ==
    /\ IF e \in AsyncEps THEN AsyncUnlink ELSE IntrUnlink(e)
    /\ st' = [st EXCEPT ![e] = "UNLINKED"]

\* __ehci_xfer_cancel up to its qh_handle; the QH of the TRP is emptied,
\* whatever other TRPs it holds.  It fails when the endpoint is disabled.
CancelBegin(u, t) ==
    LET e == EpOf[t] IN
    /\ Idle(u)
    /\ hcLock' = u
    /\ IF st[e] = "NONE"
         THEN UNCHANGED <<target, status>>
         ELSE /\ target' = [target EXCEPT ![u] = t]
              /\ status' = [status EXCEPT ![t] = "CANCEL"]
    /\ IF st[e] = "LINKED"
         THEN /\ Unlink(e)
              /\ lock' = u
              /\ scan' = Frame(e, FALSE)
              /\ pc' = [pc EXCEPT ![u] = "scan"]
         ELSE /\ pc' = [pc EXCEPT ![u] = "drain"]
              /\ UNCHANGED <<counts, st, lock, scan>>
    /\ UNCHANGED <<doneLock, queue, qtd, halted, xactErrs, doneList, irq, todo,
                   cb>>

\* __ehci_ep_disable up to its qh_handle.
EpDisable(u, e) ==
    /\ Idle(u) /\ st[e] # "NONE"
    /\ hcLock' = u /\ lock' = u
    /\ IF st[e] = "LINKED" THEN Unlink(e) ELSE UNCHANGED <<counts, st>>
    /\ scan' = Frame(e, FALSE)
    /\ pc' = [pc EXCEPT ![u] = "disable"]
    /\ UNCHANGED <<doneLock, queue, qtd, halted, xactErrs, status, doneList,
                   irq, todo, calls>>
-----------------------------------------------------------------------------
(* usbh_ehci_qh_handle, run by the holder of p_ehci->p_lock.               *)

\* What the first qTD left of TRP t shows the driver.
Token(t) == IF qtd[t].ran > 0 THEN "DONE"
            ELSE IF qtd[t].stop # "NONE" THEN qtd[t].stop ELSE "ACTIVE"

Retriable(e, t) == Token(t) = "XACT" /\ xactErrs[e] + 1 < MaxXact

\* a is at the first qTD of its QH, which is of TRP t.
AtQtd(a, t) ==
    /\ lock = a /\ scan.ep # Nobody
    /\ queue[scan.ep] # <<>> /\ t = Head(queue[scan.ep])

\* A transaction error is retried: the qTD and the QH overlay run again.
HandleRetry(a) ==
    /\ \E t \in Trps : /\ AtQtd(a, t) /\ Retriable(scan.ep, t)
                       /\ qtd' = [qtd EXCEPT ![t].stop = "NONE"]
    /\ xactErrs' = [xactErrs EXCEPT ![scan.ep] = @ + 1]
    /\ halted' = [halted EXCEPT ![scan.ep] = FALSE]
    /\ scan' = IF scan.work THEN NoScan ELSE scan
    /\ UNCHANGED <<locks, st, queue, status, doneList, counts, irq, pc, todo,
                   calls>>

\* The qTD is to be removed: retired or stopped, or still active on a QH that
\* was unlinked or has stopped.
Removable(a, t) ==
    /\ AtQtd(a, t) /\ ~Retriable(scan.ep, t)
    /\ scan.work => Token(t) # "ACTIVE"

\* The TRP's status after one more qTD: the first fault stays.
Acc(t) == IF scan.acc # "INPROGRESS" THEN scan.acc
          ELSE CASE Token(t) \in {"HALT", "XACT"} -> "ERROR"
                 [] Token(t) = "SHORT" -> "SHORT"
                 [] OTHER -> "INPROGRESS"

WithoutFirst(q) ==
    IF q.ran > 0 THEN [left |-> q.left - 1, ran |-> q.ran - 1, stop |-> q.stop]
    ELSE [left |-> q.left - 1, ran |-> 0, stop |-> "NONE"]

RemoveQtd(t) ==
    /\ qtd' = [qtd EXCEPT ![t] = WithoutFirst(@)]
    /\ xactErrs' = [xactErrs EXCEPT ![scan.ep] = 0]
    /\ UNCHANGED <<locks, st, halted, asyncCount, pse, irq, pc, todo, calls>>

\* The TRP has more qTDs.
HandleQtd(a) ==
    /\ \E t \in Trps :
          /\ Removable(a, t) /\ qtd[t].left > 1
          /\ RemoveQtd(t)
          /\ scan' = [scan EXCEPT !.work = @ /\ Token(t) \notin Stops,
                                  !.acc = Acc(t)]
    /\ UNCHANGED <<queue, status, doneList, intrCount>>

\* The TRP has lost its last qTD.
LastQtd(a, t) ==
    LET e == scan.ep IN
    /\ Removable(a, t) /\ qtd[t].left = 1
    /\ RemoveQtd(t)
    /\ queue' = [queue EXCEPT ![e] = Tail(@)]
    /\ intrCount' = IF e \in IntrEps /\ intrCount > 0 THEN intrCount - 1
                    ELSE intrCount
    /\ scan' = Frame(e, scan.work /\ Token(t) \notin Stops)

\* The status __ehci_trp_done reports for what qh_handle accumulated.
Reported(acc) == IF acc = "ERROR" THEN "ERROR" ELSE "OK"

\* Mutant of HandleTrp: p_trp_done_lock is only tried.
HandleTrpTryLock(a) ==
    \E t \in Trps :
        /\ LastQtd(a, t)
        /\ IF doneLock = Nobody
             THEN /\ status' = [status EXCEPT ![t] = Reported(Acc(t))]
                  /\ doneList' = Append(doneList, t)
             ELSE UNCHANGED <<status, doneList>>

\* __ehci_trp_done, under p_trp_done_lock.
HandleTrp(a) ==
    \E t \in Trps :
        /\ LastQtd(a, t)
        /\ doneLock = Nobody
        /\ status' = [status EXCEPT ![t] = Reported(Acc(t))]
        /\ doneList' = Append(doneList, t)

\* b, which holds p_trp_done_lock, is in a callback that submits a TRP.
Resubmitting(b) == cb[b] \in Resubmits /\ status[cb[b]] # "CANCEL"

\* a waits for p_trp_done_lock, in __ehci_trp_done or before delivering.
AwaitsDone(a) == \/ pc[a] = "drain"
                 \/ \E t \in Trps : Removable(a, t) /\ qtd[t].left = 1

\* a waits for p_trp_done_lock with p_hc->p_lock or p_ehci->p_lock held, and
\* b, in a callback with p_trp_done_lock held, for that lock.
LockCycle(a, b) ==
    /\ a # b
    /\ a \in {hcLock, lock} /\ AwaitsDone(a)
    /\ doneLock = b /\ Resubmitting(b)

\* p_trp_done_lock times out in __ehci_trp_done, which returns without
\* putting the TRP on the list.
HandleTrpTimeout(a) ==
    /\ \E b \in Actors : LockCycle(a, b)
    /\ \E t \in Trps : LastQtd(a, t)
    /\ UNCHANGED <<status, doneList>>

\* Mutant of HandleEnd: an active qTD also stops the emptying of a QH.
HandleEndActive(a) ==
    /\ lock = a /\ scan.ep # Nobody /\ pc[a] = "scan"
    /\ \/ queue[scan.ep] = <<>>
       \/ \E t \in Trps : AtQtd(a, t) /\ Token(t) = "ACTIVE"
    /\ scan' = NoScan
    /\ UNCHANGED <<locks, st, queue, qtd, halted, xactErrs, status, doneList,
                   counts, irq, pc, todo, calls>>

\* The list is empty, or its first qTD is still active on a live QH.
HandleEnd(a) ==
    /\ lock = a /\ scan.ep # Nobody /\ pc[a] = "scan"
    /\ \/ queue[scan.ep] = <<>>
       \/ scan.work /\ \E t \in Trps : AtQtd(a, t) /\ Token(t) = "ACTIVE"
    /\ scan' = NoScan
    /\ UNCHANGED <<locks, st, queue, qtd, halted, xactErrs, status, doneList,
                   counts, irq, pc, todo, calls>>
-----------------------------------------------------------------------------
(* usbh_ehci_work and the ends of the three users of qh_handle.            *)

Linked(E) == {e \in E : st[e] = "LINKED"}

\* The schedules whose counter is not zero are scanned.
WorkBegin ==
    /\ pc[EhciTask] = "idle" /\ lock = Nobody /\ irq
    /\ irq' = FALSE
    /\ lock' = EhciTask
    /\ todo' = (IF asyncCount > 0 THEN Linked(AsyncEps) ELSE {})
               \cup (IF intrCount > 0 THEN Linked(IntrEps) ELSE {})
    /\ pc' = [pc EXCEPT ![EhciTask] = "scan"]
    /\ UNCHANGED <<hcLock, doneLock, st, queue, qtd, halted, xactErrs, status,
                   doneList, counts, scan, calls>>

WorkNext ==
    /\ lock = EhciTask /\ scan = NoScan
    /\ \E e \in todo : /\ scan' = Frame(e, TRUE)
                       /\ todo' = todo \ {e}
    /\ UNCHANGED <<locks, st, queue, qtd, halted, xactErrs, status, doneList,
                   counts, irq, pc, calls>>

\* usbh_ehci_work and __ehci_xfer_cancel release p_lock and then deliver.
ScanEnd(a) ==
    /\ pc[a] = "scan" /\ scan = NoScan
    /\ a = EhciTask => todo = {}
    /\ lock' = Nobody
    /\ pc' = [pc EXCEPT ![a] = "drain"]
    /\ UNCHANGED <<hcLock, doneLock, st, queue, qtd, halted, xactErrs, status,
                   doneList, counts, irq, todo, scan, calls>>

\* __ehci_ep_disable frees the QH and returns; it does not deliver.
DisableEnd(u) ==
    /\ pc[u] = "disable" /\ queue[scan.ep] = <<>>
    /\ st' = [st EXCEPT ![scan.ep] = "NONE"]
    /\ halted' = [halted EXCEPT ![scan.ep] = FALSE]
    /\ xactErrs' = [xactErrs EXCEPT ![scan.ep] = 0]
    /\ scan' = NoScan
    /\ lock' = Nobody /\ hcLock' = Nobody
    /\ pc' = [pc EXCEPT ![u] = "idle"]
    /\ UNCHANGED <<doneLock, queue, qtd, status, doneList, counts, irq, todo,
                   calls>>
-----------------------------------------------------------------------------
(* __ehci_trp_done_handle: deliver the done list, under p_trp_done_lock.   *)

\* Mutant of DrainBegin: p_trp_done_lock is not waited for.
DrainBeginUnlocked(a) ==
    /\ pc[a] = "drain"
    /\ doneLock' = a
    /\ pc' = [pc EXCEPT ![a] = "draining"]
    /\ UNCHANGED <<hcLock, lock, st, queue, qtd, halted, xactErrs, status,
                   doneList, counts, irq, todo, scan, calls>>

DrainBegin(a) ==
    /\ pc[a] = "drain" /\ doneLock = Nobody
    /\ doneLock' = a
    /\ pc' = [pc EXCEPT ![a] = "draining"]
    /\ UNCHANGED <<hcLock, lock, st, queue, qtd, halted, xactErrs, status,
                   doneList, counts, irq, todo, scan, calls>>

\* Mutant of DrainOne: the TRP stays on the list while it is delivered.
DrainOneListed(a) ==
    /\ pc[a] = "draining" /\ cb[a] = Nobody /\ doneList # <<>>
    /\ cb' = [cb EXCEPT ![a] = Head(doneList)]
    /\ UNCHANGED <<locks, st, queue, qtd, halted, xactErrs, status, doneList,
                   counts, irq, pc, todo, scan, target>>

\* usbh_trp_done: the TRP leaves the list and its p_fn_done is called.
DrainOne(a) ==
    /\ pc[a] = "draining" /\ cb[a] = Nobody /\ doneList # <<>>
    /\ cb' = [cb EXCEPT ![a] = Head(doneList)]
    /\ doneList' = Tail(doneList)
    /\ UNCHANGED <<locks, st, queue, qtd, halted, xactErrs, status, counts,
                   irq, pc, todo, scan, target>>

\* p_fn_done returns, without or after submitting its TRP again.
CbReturn(a) ==
    /\ cb[a] # Nobody /\ ~Resubmitting(a)
    /\ cb' = [cb EXCEPT ![a] = Nobody]
    /\ UNCHANGED <<locks, st, queue, qtd, halted, xactErrs, status, doneList,
                   counts, irq, pc, todo, scan, target>>

CbResubmit(a) ==
    /\ cb[a] # Nobody /\ Resubmitting(a)
    /\ Submit(a, cb[a]) \/ SubmitFail(a, cb[a])
    /\ cb' = [cb EXCEPT ![a] = Nobody]

\* The mutex times out in usbh_trp_submit: p_fn_done reports it and returns.
CbTimeout(b) ==
    /\ \E a \in Actors : LockCycle(a, b)
    /\ cb' = [cb EXCEPT ![b] = Nobody]
    /\ UNCHANGED <<locks, st, queue, qtd, halted, xactErrs, status, doneList,
                   counts, irq, pc, todo, scan, target>>

\* The task is done: the EHCI task waits for the next event, a cancellation
\* returns to its caller.
Return(a) ==
    /\ hcLock' = IF hcLock = a THEN Nobody ELSE hcLock
    /\ pc' = [pc EXCEPT ![a] = "idle"]
    /\ target' = [target EXCEPT ![a] = Nobody]
    /\ UNCHANGED <<lock, st, queue, qtd, halted, xactErrs, status, doneList,
                   counts, irq, todo, scan, cb>>

\* Mutant of DrainEnd: the list need not be empty.
DrainEndEarly(a) ==
    /\ pc[a] = "draining" /\ cb[a] = Nobody
    /\ doneLock' = Nobody
    /\ Return(a)

DrainEnd(a) ==
    /\ pc[a] = "draining" /\ cb[a] = Nobody /\ doneList = <<>>
    /\ doneLock' = Nobody
    /\ Return(a)

\* p_trp_done_lock times out in __ehci_trp_done_handle: nothing is delivered.
DrainTimeout(a) ==
    /\ pc[a] = "drain"
    /\ \E b \in Actors : LockCycle(a, b)
    /\ Return(a)
    /\ UNCHANGED doneLock
-----------------------------------------------------------------------------
Handle(a) == HandleRetry(a) \/ HandleQtd(a) \/ HandleTrp(a) \/ HandleEnd(a)
Drain(a) == DrainBegin(a) \/ DrainOne(a) \/ CbReturn(a) \/ CbResubmit(a) \/ DrainEnd(a)
Engine(a) == Handle(a) \/ ScanEnd(a) \/ Drain(a)

Task == WorkBegin \/ WorkNext \/ Engine(EhciTask)
Hardware == \E e \in Eps : HwRetire(e) \/ HwStop(e)
Timeouts == \E a \in Actors : HandleTrpTimeout(a) \/ DrainTimeout(a) \/ CbTimeout(a)
User(u) ==
    \/ \E e \in Eps : EpDisable(u, e)
    \/ \E t \in Trps : Request(u, t) \/ CancelBegin(u, t)
    \/ DisableEnd(u)
    \/ Engine(u)

Next == Hardware \/ Task \/ Timeouts \/ \E u \in Users : User(u)

Spec == Init /\ [][Next]_vars

\* The EHCI task runs and a task in the driver goes on; a task that waits for
\* a mutex or the event that others keep taking gets it in the end.
Fairness ==
    /\ \A a \in Actors : /\ WF_vars(Handle(a)) /\ WF_vars(ScanEnd(a))
                         /\ SF_vars(HandleTrp(a)) /\ SF_vars(DrainBegin(a))
                         /\ WF_vars(DrainOne(a)) /\ WF_vars(CbReturn(a))
                         /\ SF_vars(CbResubmit(a)) /\ WF_vars(DrainEnd(a))
    /\ SF_vars(WorkBegin) /\ WF_vars(WorkNext)
    /\ \A u \in Users : WF_vars(DisableEnd(u))
FairSpec == Spec /\ Fairness
-----------------------------------------------------------------------------
(* Properties                                                              *)

ScanFrames == [ep : Eps \cup {Nobody}, work : BOOLEAN,
               acc : {"INPROGRESS", "ERROR", "SHORT"}]
QtdState == [left : 0 .. MaxQtds, ran : 0 .. MaxQtds, stop : Stops \cup {"NONE"}]

TypeOK ==
    /\ {hcLock, lock, doneLock} \subseteq Actors \cup {Nobody}
    /\ st \in [Eps -> {"NONE", "IDLE", "LINKED", "UNLINKED"}]
    /\ queue \in [Eps -> Seq(Trps)]
    /\ qtd \in [Trps -> QtdState]
    /\ halted \in [Eps -> BOOLEAN]
    /\ xactErrs \in [Eps -> Nat]
    /\ status \in [Trps -> {"INPROGRESS", "OK", "ERROR", "CANCEL"}]
    /\ doneList \in Seq(Trps)
    /\ asyncCount \in Nat /\ intrCount \in Nat
    /\ pse \in BOOLEAN /\ irq \in BOOLEAN
    /\ pc \in [Actors -> {"idle", "scan", "disable", "drain", "draining"}]
    /\ todo \subseteq Eps
    /\ scan \in ScanFrames
    /\ target \in [Actors -> Trps \cup {Nobody}]
    /\ cb \in [Actors -> Trps \cup {Nobody}]

\* async_count is the number of QHs in the asynchronous ring.  usbh_ehci_work
\* skips the ring when it is zero, so one decrement too many strands every
\* bulk and control transfer.
AsyncCountExact == asyncCount = Cardinality(Linked(AsyncEps))

\* Between two scans intr_count is the number of interrupt transfers queued,
\* and none is queued with the periodic schedule off.
IntrCountActive ==
    lock = Nobody =>
        /\ intrCount = Cardinality({t \in Trps : EpOf[t] \in IntrEps /\ OnQueue(t)})
        /\ (\E e \in IntrEps : queue[e] # <<>>) => pse

\* A TRP with qTDs is on a QH of a schedule, or on the QH that the holder of
\* p_lock is emptying: no transfer waits where neither the hardware nor
\* usbh_ehci_work will look.
PendingScheduled ==
    \A e \in Eps : queue[e] # <<>> => (st[e] = "LINKED" \/ scan.ep = e)

\* The EHCI task keeps no QH of a disabled endpoint, which is freed memory.
ScanAlive == \A e \in todo \cup ({scan.ep} \ {Nobody}) : st[e] # "NONE"

\* The places that refer to a TRP; each is one reference.
Places(t) ==
    {<<"queue", i>> : i \in {i \in DOMAIN queue[EpOf[t]] : queue[EpOf[t]][i] = t}}
    \cup {<<"done", i>> : i \in {i \in DOMAIN doneList : doneList[i] = t}}
    \cup {<<"callback", a>> : a \in {a \in Actors : cb[a] = t}}

\* A TRP is delivered once for each submission: it is never on two lists, on
\* one list twice (its only list node), or delivered by two tasks at a time.
OnePlace == \A t \in Trps : Cardinality(Places(t)) <= 1

\* When usbh_trp_xfer_cancel succeeds, the driver has let go of the TRP, which
\* its caller may free: it is on no list and no other task is delivering it.
CancelFinal ==
    \A u \in Users :
        (pc[u] = "draining" /\ doneList = <<>> /\ cb[u] = Nobody) =>
            (target[u] # Nobody => Places(target[u]) = {})

\* A TRP that leaves its QH goes on trp_done_list: none is dropped.
NoneDropped ==
    [][\A t \in Trps : OnQueue(t) /\ ~OnQueue(t)' => OnList(t, doneList')]_vars

\* All qTDs of the first TRP of its QH have been retired, or one
\* has stopped.
Finished(t) ==
    /\ queue[EpOf[t]] # <<>> /\ Head(queue[EpOf[t]]) = t
    /\ qtd[t].ran = qtd[t].left \/ qtd[t].stop \in {"HALT", "SHORT"}

\* A TRP the hardware has finished with is delivered.
FinishedDelivered == \A t \in Trps : Finished(t) ~> ~Outstanding(t)
=============================================================================
