------------------------------ MODULE EhciIso ------------------------------
(***************************************************************************)
(* The isochronous transfers of high-speed endpoints (usbh_ehci_xfer.c,    *)
(* from __iso_stream_alloc to usbh_ehci_isoc_scan): the stream of an       *)
(* endpoint, its iTDs, their place in the frame list, and the scan that    *)
(* takes the frames the controller has passed.  Everything runs under      *)
(* p_ehci->p_lock, so a request, a scan or a change of the endpoint is one  *)
(* step; the controller runs at any moment.                                *)
(*                                                                         *)
(* Left out: what a packet reports, the buffer pages, bd_width_allocated   *)
(* (written, never read), siTDs (__sitd_trp_link starts from a null one)   *)
(* and interrupt QHs in the same frames.                                   *)
(***************************************************************************)
EXTENDS Integers, FiniteSets, Sequences, SequencesExt, FiniteSetsExt

CONSTANTS
    Frames,     \* p_ehci->frame_list_size
    PerFrame,   \* the microframes of a frame, 8
    Ahead,      \* USBH_EHCI_BANDWIDTH_SIZE, how far ahead a stream starts
    Interval,   \* of the endpoint and of its TRPs, in microframes
    Packets,    \* of a TRP
    Trps, Streams,
    MaxItds,    \* the iTDs of the pool
    NoStream    \* a null p_hw_priv

VARIABLES
    now,        \* the frame the controller is in
    last,       \* p_ehci->iso_frame_last
    list,       \* the iTDs linked in each frame, in the order of p_shadow: their
                \* stream, TRP, packets, and whether one is still active
    pool,       \* the number of free iTDs
    hw_priv,    \* p_ep->p_hw_priv
    stream,     \* of each stream: its life, its references, the number of iTDs on
                \* its free_list, and its next microframe; its td_list is in list
    trp,        \* where each TRP is
    isoc_count,
    misplaced   \* some TRP was linked, or left, where a scan takes it for past

isoVars == <<now, last, list, pool, hw_priv, stream, trp, isoc_count, misplaced>>

Mod == Frames * PerFrame
NoneYet == [life |-> "none", ref |-> 0, free |-> 0, next |-> 0]

Linked == UNION {ToSet(list[f]) : f \in 0 .. Frames - 1}
Count(Test(_)) ==
    MapThenSumSet(LAMBDA f : Len(SelectSeq(list[f], Test)), 0 .. Frames - 1)
NLinked(s) == Count(LAMBDA d : d.s = s)
Queued == {t \in Trps : trp[t] = "queued"}

TypeOK ==
    /\ now \in 0 .. Frames - 1 /\ last \in 0 .. Frames - 1
    /\ Linked \subseteq [s : Streams, t : Trps, index : SUBSET (1 .. Packets), active : BOOLEAN]
    /\ pool \in 0 .. MaxItds /\ hw_priv \in Streams \cup {NoStream}
    /\ stream \in [Streams -> [life : {"none", "live", "released"}, ref : Nat,
                               free : 0 .. MaxItds, next : 0 .. Mod - 1]]
    /\ trp \in [Trps -> {"idle", "queued", "done"}]
    /\ isoc_count \in 0 .. Cardinality(Trps) /\ misplaced \in BOOLEAN

Init ==
    /\ now = 0 /\ last = 0 /\ misplaced = FALSE
    /\ list = [f \in 0 .. Frames - 1 |-> <<>>]
    /\ pool = MaxItds /\ hw_priv = NoStream
    /\ stream = [s \in Streams |-> NoneYet]
    /\ trp = [t \in Trps |-> "idle"] /\ isoc_count = 0
-----------------------------------------------------------------------------
(* The stream of the endpoint                                              *)

Enable(s) ==
    /\ hw_priv = NoStream /\ stream[s].life = "none"
    /\ hw_priv' = s
    /\ stream' = [stream EXCEPT ![s] = [NoneYet EXCEPT !.life = "live", !.ref = 1]]
    /\ UNCHANGED <<now, last, list, pool, trp, isoc_count, misplaced>>

\* A stream with other references lives on until the last of them is put; only
\* without them would the iTDs of td_list be freed, in the schedule or not.
Disable ==
    /\ hw_priv # NoStream
    /\ LET s == hw_priv
           busy == stream[s].ref # 1
       IN /\ pool' = pool + stream[s].free
                       + IF busy THEN 0 ELSE NLinked(s)
          /\ stream' = [stream EXCEPT ![s] =
                          IF busy THEN [@ EXCEPT !.free = 0, !.life = "released"] ELSE NoneYet]
    /\ hw_priv' = NoStream
    /\ UNCHANGED <<now, last, list, trp, isoc_count, misplaced>>

\* Mutant of Put: the last but the stream's own reference does not end it.
PutLate(r) == [r EXCEPT !.ref = IF @ > 1 THEN @ - 1 ELSE @]

\* A reference is put; with the last but the stream's own the free iTDs go back
\* to the pool, and a released stream ends.
Put(r) ==
    LET n == IF r.ref > 1 THEN r.ref - 1 ELSE r.ref
    IN IF n > 1 THEN [r EXCEPT !.ref = n]
       ELSE IF r.life = "released" THEN NoneYet
       ELSE [r EXCEPT !.ref = n, !.free = 0]
-----------------------------------------------------------------------------
(* A request                                                               *)

\* The iTDs a TRP takes, before its place is known: more than it may need.
Span == Packets * Interval
NItds == IF Interval < PerFrame THEN 1 + (Span + PerFrame - 1) \div PerFrame ELSE Packets

FromFree(s) == Min({NItds, stream[s].free})
FromPool(s) == Min({NItds - FromFree(s), pool})

\* The first microframe of a TRP.  The frame number of the controller is used
\* as if it were its microframe.  No slot is ever refused: __periodic_usecs
\* counts no iTD.
Start(s) ==
    IF NLinked(s) = 0
    THEN Ahead + now - (now % PerFrame)
    ELSE LET excess == (stream[s].next - Interval - now) % Mod
             far == (Mod - excess + Interval - 1) \div Interval
         IN IF excess >= Mod - 2 * Ahead
            THEN now + excess - Mod + Interval * far
            ELSE now + excess + Interval

Fits(s) == Span <= Mod - Ahead /\ Start(s) - now < Mod

FrameAt(s, p) == ((Start(s) + (p - 1) * Interval) % Mod) \div PerFrame
FramesOf(s) == {FrameAt(s, p) : p \in 1 .. Packets}
PacketsIn(s, f) == {p \in 1 .. Packets : FrameAt(s, p) = f}

\* The next scan looks at every frame from the last one it finished to this one.
Past(f) == (f - last) % Frames <= (now - last) % Frames

\* There is not enough memory, or the TRP does not fit the schedule: what was
\* taken stays with the stream.
Refuse(t) ==
    /\ trp[t] = "idle" /\ hw_priv # NoStream
    /\ FromFree(hw_priv) + FromPool(hw_priv) < NItds \/ ~Fits(hw_priv)
    /\ stream' = [stream EXCEPT ![hw_priv].free = @ + FromPool(hw_priv)]
    /\ pool' = pool - FromPool(hw_priv)
    /\ UNCHANGED <<now, last, list, hw_priv, trp, isoc_count, misplaced>>

\* One iTD for each frame with packets of the TRP; the others taken become free.
\* A bound on the states: no TRP is requested while one is misplaced.
Request(t) ==
    /\ trp[t] = "idle" /\ hw_priv # NoStream /\ ~misplaced
    /\ FromFree(hw_priv) + FromPool(hw_priv) = NItds /\ Fits(hw_priv)
    /\ LET s == hw_priv
           used == Cardinality(FramesOf(s))
           itd(f) == [s |-> s, t |-> t, index |-> PacketsIn(s, f), active |-> TRUE]
       IN /\ list' = [f \in DOMAIN list |->
                        IF f \in FramesOf(s) THEN Append(list[f], itd(f)) ELSE list[f]]
          /\ pool' = pool - FromPool(s)
          /\ stream' = [stream EXCEPT ![s] =
                [@ EXCEPT !.ref = @ + 1 + used,
                          !.free = @ + FromPool(s) - used,
                          !.next = (Start(s) + Span) % Mod]]
          /\ misplaced' = (misplaced \/ \E f \in FramesOf(s) : Past(f))
    /\ trp' = [trp EXCEPT ![t] = "queued"]
    /\ isoc_count' = isoc_count + 1
    /\ UNCHANGED <<now, last, hw_priv>>
-----------------------------------------------------------------------------
(* The controller                                                          *)

\* It executes the last active packet of an iTD of its frame, or comes too late.
Execute ==
    /\ \E k \in DOMAIN list[now] :
          /\ list[now][k].active
          /\ list' = [list EXCEPT ![now][k].active = FALSE]
    /\ UNCHANGED <<now, last, pool, hw_priv, stream, trp, isoc_count, misplaced>>

Tick ==
    /\ now' = (now + 1) % Frames
    /\ misplaced' = (misplaced \/ (now' = last /\ Linked # {}))
    /\ UNCHANGED <<last, list, pool, hw_priv, stream, trp, isoc_count>>
-----------------------------------------------------------------------------
(* The scan                                                                *)

\* The iTDs it completes, in order: all those of the frames passed, and those of
\* the frame the controller is in with no packet left.  What the controller does
\* meanwhile is as if done before or after.
PassedFrames == [k \in 1 .. (now - last) % Frames |-> (last + k - 1) % Frames]
Completed ==
    FlattenSeq([k \in DOMAIN PassedFrames |-> list[PassedFrames[k]]])
        \o SelectSeq(list[now], LAMBDA d : ~d.active)

\* One iTD is completed and becomes free.  With the TRP's last packet in it the
\* TRP is done, and a second reference is put.
CompleteOne(d, x) ==
    LET whole == Packets \in d.index
        moved == [x.stream[d.s] EXCEPT !.free = @ + 1]
        left == IF whole THEN Put(Put(moved)) ELSE Put(moved)
    IN [stream |-> [x.stream EXCEPT ![d.s] = left],
        pool |-> x.pool + moved.free - left.free,
        done |-> IF whole THEN x.done \cup {d.t} ELSE x.done,
        count |-> IF whole /\ x.count > 0 THEN x.count - 1 ELSE x.count]

\* The EHCI task scans when there are TRPs, a cancellation in any case: it only
\* marks its TRP and scans, so a TRP whose frames are to come stays.
Scan ==
    /\ LET x == FoldSeq(CompleteOne, [stream |-> stream, pool |-> pool, done |-> {},
                                      count |-> isoc_count], Completed)
       IN /\ stream' = x.stream /\ pool' = x.pool /\ isoc_count' = x.count
          /\ trp' = [t \in Trps |-> IF t \in x.done THEN "done" ELSE trp[t]]
    /\ list' = [f \in DOMAIN list |->
                  IF f = now THEN SelectSeq(list[f], LAMBDA d : d.active)
                  ELSE IF Past(f) THEN <<>> ELSE list[f]]
    /\ last' = IF now = last THEN last ELSE (now - 1) % Frames
    /\ misplaced' = (misplaced /\ \E f \in DOMAIN list : list'[f] # <<>>)
    /\ UNCHANGED <<now, hw_priv>>

Deliver(t) ==
    /\ trp[t] = "done"
    /\ trp' = [trp EXCEPT ![t] = "idle"]
    /\ UNCHANGED <<now, last, list, pool, hw_priv, stream, isoc_count, misplaced>>

Next ==
    \/ \E s \in Streams : Enable(s)
    \/ Disable \/ Scan \/ Tick \/ Execute
    \/ \E t \in Trps : Request(t) \/ Refuse(t) \/ Deliver(t)

Spec == Init /\ [][Next]_isoVars
-----------------------------------------------------------------------------
(* Properties                                                              *)

\* A stream has one reference for itself, one for each of its TRPs and one for
\* each of its iTDs in the frame list, so it lives as long as they do and no
\* longer, and isoc_count, which keeps the periodic schedule enabled, is that of
\* the TRPs: through disabled endpoints, refusals and cancellations.
IsoCounted ==
    /\ \A s \in Streams :
          LET trps == Count(LAMBDA d : d.s = s /\ Packets \in d.index)
          IN /\ stream[s].ref = IF stream[s].life = "none" THEN 0 ELSE 1 + trps + NLinked(s)
             /\ stream[s].life = "none" => NLinked(s) = 0
             /\ stream[s].life = "released" => NLinked(s) > 0
    /\ isoc_count = Cardinality(Queued)
    /\ pool + Count(LAMBDA d : TRUE) + MapThenSumSet(LAMBDA s : stream[s].free, Streams)
         = MaxItds

\* A TRP that is done is in no frame any more: its memory may be freed.  That is
\* so only while no TRP is linked in a frame that a scan takes for past: the
\* start of a stream is computed from a frame taken for a microframe, and
\* iso_frame_last is not moved on while there is nothing to scan.
IsoWhole == misplaced \/ \A d \in Linked : trp[d.t] = "queued"
=============================================================================
