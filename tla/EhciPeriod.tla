----------------------------- MODULE EhciPeriod -----------------------------
(***************************************************************************)
(* Interrupt QHs in the periodic frame list (usbh_ehci_xfer.c): a QH has   *)
(* one next pointer and is reached from the head of every period-th frame, *)
(* so the lists of the frames are to join into trees.  All of it runs      *)
(* under p_ehci->p_lock.  hw_next and p_next always change together and    *)
(* are one pointer here; p_shadow is left out, for no QH is ever put in it *)
(* and the bandwidth search, which reads it, finds every microframe free.  *)
(* iTDs in the same frames are left out too: the code mixes up the two     *)
(* kinds (:1378, :1435, :1451).                                            *)
(***************************************************************************)
EXTENDS Integers, Sequences, SequencesExt, FiniteSets, FiniteSetsExt

CONSTANTS
    Qhs,         \* numbers
    FrameCount,  \* p_ehci->frame_list_size
    Intervals,   \* polling intervals of endpoints, in frames; 0 is less than one
    MaxPeriod    \* USBH_EHCI_BANDWIDTH_SIZE in frames, which bounds frame_period

VARIABLES
    head,        \* p_ehci->p_periodic: the first QH of each frame, 0 for none
    next,        \* of each QH: p_next
    state,       \* of each QH; "NONE" without an endpoint
    period,      \* frame_period
    phase        \* frame_phase

periodVars == <<head, next, state, period, phase>>

List == 0 .. FrameCount - 1

TypeOK ==
    /\ head \in [List -> Qhs \cup {0}] /\ next \in [Qhs -> Qhs \cup {0}]
    /\ state \in [Qhs -> {"NONE", "IDLE", "LINKED", "UNLINKED"}]
    /\ period \in [Qhs -> 0 .. MaxPeriod] /\ phase \in [Qhs -> List]

Init ==
    /\ head = [f \in List |-> 0] /\ next = [q \in Qhs |-> 0]
    /\ state = [q \in Qhs |-> "NONE"]
    /\ period = [q \in Qhs |-> 0] /\ phase = [q \in Qhs |-> 0]
-----------------------------------------------------------------------------
\* The QHs the controller visits in a frame, from its head on.
Chain(h, nx, f) ==
    LET at[k \in 1 .. Cardinality(Qhs) + 1] ==
            IF k = 1 THEN h[f] ELSE IF at[k - 1] = 0 THEN 0 ELSE nx[at[k - 1]]
    IN SelectSeq([k \in 1 .. Cardinality(Qhs) + 1 |-> at[k]], LAMBDA q : q # 0)

Step(q) == IF period[q] = 0 THEN 1 ELSE period[q]
Slots(q, from) ==
    [k \in 1 .. (FrameCount - from + Step(q) - 1) \div Step(q) |-> from + (k - 1) * Step(q)]

\* The pointer to the k-th of a list, its head or a next, is set to q.
PointAt(l, f, c, k, q) ==
    IF k = 1 THEN [l EXCEPT !.head[f] = q] ELSE [l EXCEPT !.next[c[k - 1]] = q]

\* In a frame the QH comes after those of its period and longer ones.  Where it
\* is found already nothing is to be done: the list was joined before.
LinkIn(q, f, l) ==
    LET c == Chain(l.head, l.next, f)
        stops == {k \in DOMAIN c : c[k] = q \/ period[q] > period[c[k]]}
        k == IF stops = {} THEN Len(c) + 1 ELSE Min(stops)
        before == IF k > Len(c) THEN 0 ELSE c[k]
    IN IF before = q THEN l
       ELSE PointAt([l EXCEPT !.next[q] = before], f, c, k, q)

UnlinkIn(q, f, l) ==
    LET c == Chain(l.head, l.next, f)
        ks == {k \in DOMAIN c : c[k] = q}
    IN IF ks = {} THEN l ELSE PointAt(l, f, c, Min(ks), l.next[q])

Lists == [head |-> head, next |-> next]
-----------------------------------------------------------------------------
EpEnable(q, i) ==
    /\ state[q] = "NONE"
    /\ state' = [state EXCEPT ![q] = "IDLE"]
    /\ period' = [period EXCEPT ![q] = Min({i, MaxPeriod})]
    /\ phase' = [phase EXCEPT ![q] = 0] /\ next' = [next EXCEPT ![q] = 0]
    /\ UNCHANGED head

\* r & mask: the bits they share.
Bit(n, k) == (n \div 2 ^ k) % 2
Masked(r, mask) == MapThenSumSet(LAMBDA k : 2 ^ k * Bit(r, k) * Bit(mask, k), 0 .. mask)

\* The phase comes from a counter that all endpoints move on, masked as if the
\* period were a power of two.
Phases(q) == IF period[q] = 0 THEN {phase[q]} ELSE {Masked(r, period[q] - 1) : r \in List}

\* The first request since the QH was enabled or cancelled links it.
IntrReq(q) ==
    /\ state[q] \in {"IDLE", "UNLINKED"}
    /\ \E p \in Phases(q) :
          LET l == FoldSeq(LAMBDA f, x : LinkIn(q, f, x), Lists, Slots(q, p))
          IN /\ phase' = [phase EXCEPT ![q] = p]
             /\ head' = l.head /\ next' = l.next
    /\ state' = [state EXCEPT ![q] = "LINKED"]
    /\ UNCHANGED period

Unlinked(q) ==
    FoldSeq(LAMBDA f, x : UnlinkIn(q, f, x), Lists, Slots(q, phase[q]))

\* Mutant of IntrCancel: only the frame of its phase is looked at.
IntrCancelFirst(q) ==
    /\ state[q] = "LINKED"
    /\ LET l == UnlinkIn(q, phase[q], Lists)
       IN head' = l.head /\ next' = [l.next EXCEPT ![q] = 0]
    /\ state' = [state EXCEPT ![q] = "UNLINKED"]
    /\ UNCHANGED <<period, phase>>

IntrCancel(q) ==
    /\ state[q] = "LINKED"
    /\ head' = Unlinked(q).head
    /\ next' = [Unlinked(q).next EXCEPT ![q] = 0]
    /\ state' = [state EXCEPT ![q] = "UNLINKED"]
    /\ UNCHANGED <<period, phase>>

\* ep_disable cancels a linked QH and frees it.
EpDisable(q) ==
    /\ state[q] \in {"IDLE", "UNLINKED"}
    /\ state' = [state EXCEPT ![q] = "NONE"]
    /\ UNCHANGED <<head, next, period, phase>>

Next ==
    \E q \in Qhs :
        \/ \E i \in Intervals : EpEnable(q, i)
        \/ IntrReq(q) \/ IntrCancel(q) \/ EpDisable(q)

Spec == Init /\ [][Next]_periodVars
-----------------------------------------------------------------------------
(* Properties                                                              *)

\* frame_period takes other values too (:285); then the one next pointer of a QH
\* cannot serve lists that part again after it, and neither property holds.
PowerOfTwo(n) == n \in {0, 1, 2, 4, 8, 16, 32}
Trees == \A i \in Intervals : PowerOfTwo(Min({i, MaxPeriod}))

\* With periods that are powers of two the controller reaches no QH that was
\* cancelled, whose memory may be freed and used again, through any order of
\* requests and cancellations of endpoints that share frames.
CancelledUnreached ==
    Trees => \A f \in List : \A q \in ToSet(Chain(head, next, f)) : state[q] = "LINKED"

\* Every linked QH is visited in each of its frames and in no other.
VisitedInTurn ==
    Trees => \A f \in List :
        ToSet(Chain(head, next, f)) =
            {q \in Qhs : state[q] = "LINKED" /\ f \in ToSet(Slots(q, phase[q]))}
=============================================================================
