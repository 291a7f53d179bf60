------------------------------- MODULE NetRx -------------------------------
(***************************************************************************)
(* The receive side of a USB network device (usbh_net.c): a pool of TRPs   *)
(* that usbh_net_start allocates and submits, that submit themselves again *)
(* from their callback, that usbh_net_process tops up and usbh_net_stop    *)
(* cancels and frees; and the events that drive usbh_net_process.          *)
(*                                                                         *)
(* start, stop and process hold p_lock; the callback takes it only to move *)
(* a TRP it could not submit again.  A cancel fails when the controller    *)
(* does not hold the TRP, and delivers before it returns when it does.     *)
(***************************************************************************)
EXTENDS Naturals, FiniteSets

CONSTANTS
    Trps,      \* the TRPs memory has room for
    QLen,      \* rx_qlen
    Batch      \* TRPs one call submits at most (10)

VARIABLES
    free, start,        \* trp_free and trp_start
    lost,               \* allocated and on neither list
    n_total, n_start,   \* n_trp_total and n_trp_start
    busy,               \* the TRPs the controller holds
    done,               \* TRPs whose callback runs: it read event_flags before ...
    kill,               \* ... USB_NET_EVENT_RX_KILL
    halt,               \* USB_NET_EVENT_TX_HALT and USB_NET_EVENT_RX_HALT
    op                  \* "idle", or "stop" in the 100 ms of usbh_net_stop

netVars == <<free, start, lost, n_total, n_start, busy, done, kill, halt, op>>

Alloc == free \cup start \cup lost

TypeOK ==
    /\ free \subseteq Trps /\ start \subseteq Trps /\ lost \subseteq Trps
    /\ busy \subseteq Trps /\ done \subseteq Trps
    /\ n_total \in Nat /\ n_start \in Nat /\ kill \in BOOLEAN
    /\ halt \subseteq {"tx", "rx"} /\ op \in {"idle", "stop"}

Init ==
    /\ free = {} /\ start = {} /\ lost = {} /\ n_total = 0 /\ n_start = 0
    /\ busy = {} /\ done = {} /\ kill = FALSE /\ halt = {} /\ op = "idle"
-----------------------------------------------------------------------------
\* __net_rx_trp_alloc, n times or until memory is out.
Allocated(n, S) ==
    /\ S \subseteq Trps \ Alloc
    /\ Cardinality(S) = n \/ (Cardinality(S) < n /\ S = Trps \ Alloc)

\* __net_rx_trps_submit with the lists f (free) and s (started) and the TRPs b
\* at the controller: it stops after Batch TRPs, at the queue length, at the end
\* of the list, or at a TRP that cannot be submitted, which is then on no list.
Submit(f, s, b) ==
    LET room(S) == S \subseteq f /\ Cardinality(S) <= Batch
                   /\ (S = {} \/ Cardinality(s \cup S) <= QLen)
        full(S) == S = f \/ Cardinality(S) = Batch \/ Cardinality(s \cup S) >= QLen
    IN \E S \in SUBSET f :
        /\ room(S) /\ start' = s \cup S /\ busy' = b \cup S
        /\ n_start' = Cardinality(s \cup S) + n_start - Cardinality(start)
        /\ \/ full(S) /\ free' = f \ S /\ UNCHANGED lost
           \/ /\ ~full(S)
              /\ \E t \in f \ S : free' = f \ (S \cup {t}) /\ lost' = lost \cup {t}

\* With USB_NET_EVENT_RX_HALT nothing is submitted.
NoSubmit(f) == free' = f /\ UNCHANGED <<start, lost, n_start, busy>>

\* usbh_net_start: rx_qlen more TRPs, whatever is left of the last time.
NetStart ==
    /\ op = "idle"
    /\ \E S \in SUBSET Trps :
        /\ Allocated(QLen, S) /\ n_total' = n_total + Cardinality(S)
        /\ IF Cardinality(S) = QLen /\ "rx" \notin halt
           THEN Submit(free \cup S, start, busy) ELSE NoSubmit(free \cup S)
    /\ UNCHANGED <<done, kill, halt, op>>

\* usbh_net_stop: the callbacks of the next 100 ms do not submit again.
StopKill ==
    /\ op = "idle" /\ op' = "stop" /\ kill' = TRUE
    /\ UNCHANGED <<free, start, lost, n_total, n_start, busy, done, halt>>

\* Mutant of Cancelled: the result of the cancel is not looked at.
CancelledAll == start

\* __net_rx_trps_cancel moves those the controller held to the free list; one
\* it does not hold keeps its place.
Cancelled == start \cap busy

\* The rest of usbh_net_stop: the free list is freed, the events are cleared.
StopFree ==
    /\ op = "stop" /\ op' = "idle" /\ kill' = FALSE /\ halt' = {}
    /\ start' = start \ Cancelled /\ busy' = busy \ Cancelled /\ free' = {}
    /\ n_start' = n_start - Cardinality(Cancelled)
    /\ n_total' = n_total - Cardinality(free \cup Cancelled)
    /\ UNCHANGED <<lost, done>>

\* The controller completes a TRP: __net_rx_done reads the events ...
Complete(t) ==
    /\ t \in busy /\ busy' = busy \ {t}
    /\ done' = IF kill THEN done ELSE done \cup {t}
    /\ UNCHANGED <<free, start, lost, n_total, n_start, kill, halt, op>>

\* ... and submits it again, or takes it off the started ones under the lock.
RxDone(t) ==
    /\ t \in done /\ done' = done \ {t}
    /\ \/ busy' = busy \cup {t} /\ UNCHANGED <<free, start, n_start>>
       \/ /\ op = "idle" /\ start' = start \ {t} /\ free' = free \cup {t}
          /\ n_start' = n_start - 1 /\ UNCHANGED busy
    /\ UNCHANGED <<lost, n_total, kill, halt, op>>

\* Driver and writer set the halt events of the two endpoints.
Halt(d) ==
    /\ halt' = halt \cup {d}
    /\ UNCHANGED <<free, start, lost, n_total, n_start, busy, done, kill, op>>

\* What usbh_net_process cancels before it clears the halt of the IN endpoint.
Flushed == IF "rx" \in halt THEN Cancelled ELSE {}

\* usbh_net_process: a halt that cannot be cleared ends it; then TRPs up to the
\* queue length.
Process ==
    /\ op = "idle"
    /\ \/ /\ halt' = {}
          /\ \E S \in SUBSET Trps :
              /\ Allocated(IF n_total <= QLen THEN QLen - n_total ELSE 0, S)
              /\ n_total' = n_total + Cardinality(S)
              /\ Submit(free \cup S \cup Flushed, start \ Flushed, busy \ Flushed)
       \/ /\ halt # {} /\ halt' \in {halt, halt \ {"tx"}} \ {{}}
          /\ LET C == IF "tx" \in halt' THEN {} ELSE Flushed
             IN /\ start' = start \ C /\ busy' = busy \ C /\ free' = free \cup C
                /\ n_start' = n_start - Cardinality(C)
          /\ UNCHANGED <<lost, n_total>>
    /\ UNCHANGED <<done, kill, op>>

Next ==
    \/ NetStart \/ StopKill \/ StopFree \/ Process
    \/ \E d \in {"tx", "rx"} : Halt(d)
    \/ \E t \in Trps : Complete(t) \/ RxDone(t)

Spec == Init /\ [][Next]_netVars
-----------------------------------------------------------------------------
(* Properties                                                              *)

\* A TRP that the controller holds or whose callback runs is allocated and on
\* the list of the started ones, whatever stop, process and a callback that
\* read the events before them do: none is freed or submitted twice.  And the
\* counters are those of the lists, with the TRPs that a failed submit lost.
RxOwned ==
    /\ busy \cup done \subseteq start /\ busy \cap done = {}
    /\ start \cap free = {} /\ lost \cap (free \cup start) = {}
    /\ n_start = Cardinality(start) /\ n_total = Cardinality(Alloc)
=============================================================================
