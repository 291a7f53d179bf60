------------------------------ MODULE EhciQtd ------------------------------
(***************************************************************************)
(* The qTDs of one QH, from the pool and back (usb_pool.c,                 *)
(* usbh_ehci_mem.c, usbh_ehci_xfer.c): a TRP is a chain of them that is    *)
(* put behind those in the queue, the controller goes along the chain from *)
(* the overlay of the QH, and the handler takes off what is done while the *)
(* controller goes on.                                                     *)
(*                                                                         *)
(* Requests, cancellations and the handler hold p_ehci->p_lock; what the   *)
(* TRPs are told, and the schedules, are in EhciXfer.  An unlinked QH is   *)
(* left alone by the controller at once: usbh_ehci_intr_cancel does not    *)
(* wait for that, and usbh_ehci_async_unlink not longer than 10 ms.        *)
(***************************************************************************)
EXTENDS Naturals, Sequences, FiniteSets, SequencesExt

CONSTANTS
    Items,     \* the qTDs of the pool: 1 .. n_qtd
    Kinds,     \* kinds of endpoint: "in" and "out" of bulk transfers, "intr"
    MaxQtds,   \* qTDs of a TRP
    MaxMade    \* bound: qTDs that are made

VARIABLES
    kind,      \* the kind of the endpoint
    free,      \* the pool's p_free, as far as p_next leads
    n_free,
    state,     \* of the QH; "NONE" without one
    dummy,     \* p_dummy of the QH, or 0
    list,      \* p_qh->qtds
    qtd,       \* what is in each qTD, made how-manieth
    ov,        \* the overlay: the qTD it was loaded from, hw_next_qtd, and so on
    irq,       \* the controller has an interrupt pending
    scan,      \* usbh_ehci_qh_handle: where it is, p_qtd_prev, is_work
    made,      \* qTDs made so far
    ran,       \* ghost: the last one that was executed and is not tried again
    lost,      \* ghost: qTDs in no list
    resumed    \* ghost: an old overlay of an interrupt QH was active when it was linked

qtdVars == <<kind, free, n_free, state, dummy, list, qtd, ov, irq, scan, made, ran, lost,
             resumed>>

Null == 0
Blank == [active |-> FALSE, short |-> FALSE, halt |-> FALSE, next |-> Null, alt |-> FALSE,
          ioc |-> FALSE, no |-> 0]
NoOv == [cur |-> Null, next |-> Null, alt |-> FALSE, active |-> FALSE, short |-> FALSE,
         halt |-> FALSE]
AtRest == [at |-> "idle", prev |-> Null, work |-> FALSE, then |-> "UNLINKED"]

Init ==
    /\ kind \in Kinds /\ free = SetToSeq(Items) /\ n_free = Cardinality(Items)
    /\ state = "NONE" /\ dummy = Null /\ list = <<>> /\ qtd = [i \in Items |-> Blank]
    /\ ov = NoOv /\ irq = FALSE /\ scan = AtRest /\ made = 0 /\ ran = 0 /\ lost = {}
    /\ resumed = FALSE

Unlocked == scan.at = "idle"
-----------------------------------------------------------------------------
\* usb_pool_item_get, n times, and usb_pool_item_return.
Get(n) == free' = SubSeq(free, n + 1, Len(free)) /\ n_free' = n_free - n
Return(i) ==
    IF i \in Items /\ n_free <= Cardinality(Items)
    THEN free' = <<i>> \o free /\ n_free' = n_free + 1
    ELSE UNCHANGED <<free, n_free>>

\* __ehci_ep_enable: usbh_ehci_qh_alloc takes a qTD for the dummy.
Enable ==
    /\ Unlocked /\ state = "NONE" /\ free # <<>>
    /\ Get(1) /\ dummy' = Head(free) /\ qtd' = [qtd EXCEPT ![Head(free)] = Blank]
    /\ state' = "IDLE" /\ ov' = NoOv
    /\ UNCHANGED <<kind, list, irq, scan, made, ran, lost, resumed>>

\* The chain of the n first free qTDs: only the last interrupts.  A short packet of a
\* bulk IN transfer leads to the dummy of the ring's head, but from the last.
Chain(n) ==
    [i \in Items |->
        IF \E k \in 1 .. n : free[k] = i
        THEN LET k == CHOOSE j \in 1 .. n : free[j] = i
             IN [Blank EXCEPT !.active = TRUE, !.next = IF k = n THEN Null ELSE free[k + 1],
                    !.alt = (kind = "in" /\ k < n), !.ioc = (k = n), !.no = made + k]
        ELSE qtd[i]]

\* __qtds_link: behind the last of the queue, or in the overlay if that is empty and
\* leads nowhere.
InOverlay == list = <<>> /\ ov.next = Null
Link(n) ==
    LET first == free[1]
        chain == Chain(n)
    IN /\ list' = list \o SubSeq(free, 1, n)
       /\ qtd' = IF InOverlay THEN chain ELSE [chain EXCEPT ![Last(list)].next = first]

\* __async_link resets the overlay; __period_intr_link does not.
Relinked(first) ==
    LET next == IF InOverlay THEN first ELSE ov.next
    IN CASE state = "LINKED" -> [ov EXCEPT !.next = next]
         [] kind = "intr" -> [ov EXCEPT !.next = next]
         [] OTHER -> [NoOv EXCEPT !.cur = ov.cur, !.next = next]

\* __ehci_xfer_request of a TRP of n qTDs.
Submit(n) ==
    /\ Unlocked /\ state # "NONE" /\ n <= Len(free) /\ made + n <= MaxMade
    /\ Get(n) /\ Link(n) /\ ov' = Relinked(free[1]) /\ made' = made + n
    /\ resumed' = (resumed \/ (state # "LINKED" /\ kind = "intr" /\ ov.active))
    /\ state' = "LINKED"
    /\ UNCHANGED <<kind, dummy, irq, scan, ran, lost>>

\* The pool is empty too soon: usbh_ehci_qtds_make gives back what it took, in turn.
SubmitNoMem(n) ==
    /\ Unlocked /\ state # "NONE" /\ n > Len(free)
    /\ free' = Reverse(free)
    /\ UNCHANGED <<kind, n_free, state, dummy, list, qtd, ov, irq, scan, made, ran, lost, resumed>>

\* No bandwidth: usbh_ehci_intr_req returns and the qTDs are forgotten.
SubmitNoRoom(n) ==
    /\ Unlocked /\ kind = "intr" /\ state \in {"IDLE", "UNLINKED"} /\ n <= Len(free)
    /\ Get(n) /\ lost' = lost \cup ToSet(SubSeq(free, 1, n))
    /\ UNCHANGED <<kind, state, dummy, list, qtd, ov, irq, scan, made, ran, resumed>>
-----------------------------------------------------------------------------
\* usbh_ehci_qh_handle for a scan, which any interrupt starts, ...
Scan ==
    /\ Unlocked /\ state = "LINKED" /\ irq' = FALSE
    /\ scan' = IF list = <<>> THEN AtRest
               ELSE [at |-> "look", prev |-> Null, work |-> TRUE, then |-> "LINKED"]
    /\ UNCHANGED <<kind, free, n_free, state, dummy, list, qtd, ov, made, ran, lost, resumed>>

\* ... and after the unlinking of a cancellation or a disable.
Unlink(then) ==
    /\ Unlocked /\ IF then = "NONE" THEN state # "NONE" ELSE state = "LINKED"
    /\ state' = IF state = "LINKED" THEN "UNLINKED" ELSE state
    /\ scan' = [at |-> "look", prev |-> Null, work |-> FALSE, then |-> then]
    /\ UNCHANGED <<kind, free, n_free, dummy, list, qtd, ov, irq, made, ran, lost, resumed>>

GivePrev == IF scan.prev = Null THEN UNCHANGED <<free, n_free>> ELSE Return(scan.prev)

\* The last qTD is given back and the next one looked at: it ends here if the controller
\* still works on it, and has stopped for good at a halt or a short packet.
Look ==
    /\ scan.at = "look" /\ list # <<>> /\ GivePrev
    /\ LET q == qtd[Head(list)]
       IN IF q.active /\ scan.work
          THEN scan' = AtRest
          ELSE scan' = [scan EXCEPT !.at = "cut", !.prev = Null,
                           !.work = @ /\ ~q.halt /\ ~(q.short /\ q.alt)]
    /\ UNCHANGED <<kind, state, dummy, list, qtd, ov, irq, made, ran, lost, resumed>>

\* A transaction error is tried again, in the qTD and in the overlay.
LookRetry ==
    /\ scan.at = "look" /\ list # <<>> /\ GivePrev /\ qtd[Head(list)].halt
    /\ qtd' = [qtd EXCEPT ![Head(list)].halt = FALSE, ![Head(list)].active = TRUE]
    /\ ov' = [ov EXCEPT !.halt = FALSE, !.active = TRUE]
    /\ scan' = IF scan.work THEN AtRest ELSE [scan EXCEPT !.at = "cut", !.prev = Null]
    /\ ran' = qtd[Head(list)].no - 1
    /\ UNCHANGED <<kind, state, dummy, list, irq, made, lost, resumed>>

\* Mutant of Cut: the overlay is left alone.
CutKeeps ==
    /\ scan.at = "cut"
    /\ list' = Tail(list) /\ scan' = [scan EXCEPT !.at = "look", !.prev = Head(list)]
    /\ UNCHANGED <<kind, free, n_free, state, dummy, qtd, ov, irq, made, ran, lost, resumed>>

\* It is taken out of the queue, and the overlay goes on with the next.
Cut ==
    /\ scan.at = "cut"
    /\ ov' = [ov EXCEPT !.next = qtd[Head(list)].next]
    /\ list' = Tail(list) /\ scan' = [scan EXCEPT !.at = "look", !.prev = Head(list)]
    /\ UNCHANGED <<kind, free, n_free, state, dummy, qtd, irq, made, ran, lost, resumed>>

\* The queue is empty.
LookEnd ==
    /\ scan.at = "look" /\ list = <<>> /\ GivePrev
    /\ scan' = IF scan.then = "NONE" THEN [scan EXCEPT !.at = "free", !.prev = Null] ELSE AtRest
    /\ UNCHANGED <<kind, state, dummy, list, qtd, ov, irq, made, ran, lost, resumed>>

\* usbh_ehci_qh_free gives back the dummy, and the QH.
QhFree ==
    /\ scan.at = "free" /\ Return(dummy) /\ dummy' = Null /\ state' = "NONE" /\ scan' = AtRest
    /\ UNCHANGED <<kind, list, qtd, ov, irq, made, ran, lost, resumed>>
-----------------------------------------------------------------------------
\* The controller goes on to the next qTD, if that is active; after a short packet to
\* the alternate, which never is.
HwLoad ==
    /\ state = "LINKED" /\ ~ov.active /\ ~ov.halt /\ ~(ov.short /\ ov.alt)
    /\ ov.next # Null /\ qtd[ov.next].active
    /\ ov' = [NoOv EXCEPT !.cur = ov.next, !.next = qtd[ov.next].next, !.alt = qtd[ov.next].alt,
                 !.active = TRUE]
    /\ UNCHANGED <<kind, free, n_free, state, dummy, list, qtd, irq, scan, made, ran, lost, resumed>>

\* It has executed one, wholly or not, and writes that in the qTD.
HwDone ==
    /\ state = "LINKED" /\ ov.active /\ ov.cur # Null
    /\ \E end \in {"whole", "short", "halt"} :
         /\ end = "short" => kind # "out"
         /\ ov' = [ov EXCEPT !.active = FALSE, !.short = (end = "short"), !.halt = (end = "halt")]
         /\ qtd' = [qtd EXCEPT ![ov.cur].active = FALSE, ![ov.cur].short = (end = "short"),
                       ![ov.cur].halt = (end = "halt")]
         /\ irq' = (irq \/ end # "whole" \/ qtd[ov.cur].ioc)
    /\ ran' = qtd[ov.cur].no
    /\ UNCHANGED <<kind, free, n_free, state, dummy, list, scan, made, lost, resumed>>

Next ==
    \/ Enable \/ \E n \in 1 .. MaxQtds : Submit(n) \/ SubmitNoMem(n) \/ SubmitNoRoom(n)
    \/ Scan \/ \E then \in {"NONE", "UNLINKED"} : Unlink(then)
    \/ Look \/ LookRetry \/ Cut \/ LookEnd \/ QhFree
    \/ HwLoad \/ HwDone

Spec == Init /\ [][Next]_qtdVars
-----------------------------------------------------------------------------
(* Properties                                                              *)

TypeOK ==
    /\ ToSet(free) \subseteq Items /\ n_free \in 0 .. Cardinality(Items)
    /\ state \in {"NONE", "IDLE", "LINKED", "UNLINKED"} /\ ToSet(list) \subseteq Items
    /\ {dummy, ov.cur, ov.next, scan.prev} \subseteq Items \cup {Null}
    /\ scan.at \in {"idle", "look", "cut", "free"}

\* Each qTD is in one place: free, the dummy of the QH, in its queue, or between the two;
\* none is given back twice, after any refusals, cancellations and disables.  Those
\* of a request without bandwidth are lost (usbh_ehci_xfer.c:1555).
PoolExact ==
    /\ n_free = Len(free)
    /\ IsInjective(free \o list)
    /\ LET single == {dummy, scan.prev} \ {Null}
       IN /\ dummy # Null => dummy # scan.prev
          /\ single \cap (ToSet(free) \cup ToSet(list)) = {}
          /\ Items \ lost = ToSet(free) \cup ToSet(list) \cup single
    /\ lost \cap (ToSet(free) \cup ToSet(list)) = {}

\* The controller works on the qTDs of the queue only, in their order and on each once,
\* though they are taken off, freed and used again while it does.  Not so when an
\* interrupt QH is linked again after a cancellation: what was in the overlay goes on,
\* into a buffer and a qTD that have been given back (usbh_ehci_xfer.c:1384).
HwInQueue ==
    /\ list = <<>> => ov.next = Null
    /\ state = "LINKED" /\ ~resumed =>
        /\ ov.active => ov.cur \in ToSet(list) /\ qtd[ov.cur].no > ran
        /\ ov.next \in ToSet(list) \cup {Null}

\* Where the handler's write of the overlay has put the controller back to a qTD that it
\* is working on, it stops at its end; if that does not interrupt, until another
\* endpoint's interrupt (usbh_ehci_xfer.c:878).
PutBack == ov.next # Null /\ ~qtd[ov.next].active /\ ~qtd[ov.next].ioc
\* A qTD that is queued while the controller finishes the last one, or is taken off
\* meanwhile, is not forgotten: the controller is at work or goes on, or an interrupt is
\* pending.  Not after a halt, nor after a short packet in the middle of a bulk IN
\* transfer: nothing resets the overlay of a linked QH (usbh_ehci_xfer.c:630, :844).
NotStranded ==
    state = "LINKED" /\ Unlocked /\ ~resumed /\ ~ov.halt /\ ~(ov.short /\ ov.alt)
      /\ (\E i \in ToSet(list) : qtd[i].active) =>
        ov.active \/ irq \/ PutBack \/ (ov.next # Null /\ qtd[ov.next].active)
=============================================================================
