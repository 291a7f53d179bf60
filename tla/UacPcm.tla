------------------------------- MODULE UacPcm -------------------------------
(***************************************************************************)
(* Playback of the host audio class (uac_pcm.c): a user writes frames to   *)
(* the buffer of a substream, the callback of a finished TRP copies the    *)
(* next ones from it, and played frames are overwritten with silence.      *)
(* appl_ptr and hw_ptr run to a boundary of several buffers.               *)
(*                                                                         *)
(* The callback is one step: it runs in the task of the controller.  The   *)
(* mutex of the substream is held only while a user copies, so the user's  *)
(* update of hw_ptr is two steps.  A frame is one byte (stride).           *)
(* hw_ptr_interrupt, the delays and the time stamps decide nothing and are *)
(* left out.  usbh_uac_stop keeps the state, so a stopped stream is never  *)
(* prepared again (usbh_uac_operation.c:225).                              *)
(***************************************************************************)
EXTENDS Integers, Sequences, FiniteSetsExt

CONSTANTS
    Frames,      \* runtime->buffer_frame_size
    PeriodSize,  \* runtime->period_size
    Boundary,    \* runtime->boundary, a multiple of Frames
    Counts,      \* frames in a packet
    Packets,     \* packets of a TRP
    TrpFrames,   \* ep->max_trp_frames
    MaxWritten   \* bound: frames written

VARIABLES
    status,      \* of the substream; "STOPPED" is RUNNING with its TRPs given up
    running,     \* subs->running: prepare_data_trp is set
    appl_ptr, hw_ptr, hw_base,
    silence,     \* silence_start and silence_filled
    ring,        \* runtime->buffer: numbers of frames, 0 is silence
    xfer,        \* subs: hwptr_done, transfer_done and frame_limit
    call,        \* where the user's uac_pcm_write is, and what its update has read
    written,     \* ghost: frames written
    sent,        \* ghost: frames sent since the trigger, those of the last TRP, and
                 \* the frames written when it was filled
    fault        \* ghost: an update was interrupted, or a frame written too late

pcmVars == <<status, running, appl_ptr, hw_ptr, hw_base, silence, ring, xfer, call,
             written, sent, fault>>

Slots == 0 .. Frames - 1
Idle == [at |-> "idle", hw |-> 0, base |-> 0, pos |-> 0]

TypeOK ==
    /\ status \in {"SETUP", "PREPARED", "RUNNING", "STOPPED"} /\ running \in BOOLEAN
    /\ appl_ptr \in 0 .. Boundary - 1 /\ hw_ptr \in 0 .. Boundary - 1
    /\ hw_base \in {Frames * k : k \in 0 .. (Boundary \div Frames) - 1}
    /\ silence \in [start : 0 .. Boundary + Frames, filled : 0 .. Frames]
    /\ ring \in [Slots -> 0 .. MaxWritten]
    /\ xfer.hwptr \in Slots /\ xfer.done \in 0 .. PeriodSize - 1 /\ xfer.limit \in Nat
    /\ call.at \in {"idle", "update", "write", "start"}
    /\ written \in 0 .. MaxWritten /\ fault \subseteq {"raced", "late"}

Init ==
    /\ status = "SETUP" /\ running = FALSE
    /\ appl_ptr = 0 /\ hw_ptr = 0 /\ hw_base = 0
    /\ silence = [start |-> 0, filled |-> 0]
    /\ ring = [i \in Slots |-> 0]
    /\ xfer = [hwptr |-> 0, done |-> 0, limit |-> 0]
    /\ call = Idle /\ written = 0 /\ fault = {}
    /\ sent = [n |-> 0, data |-> <<>>, by |-> 0]

\* A difference of two pointers.
Ahead(n) == IF n < 0 THEN n + Boundary ELSE n
\* uac_pcm_playback_avail
PlaybackAvail ==
    LET a == Ahead(hw_ptr + Frames - appl_ptr) IN IF a >= Boundary THEN a - Boundary ELSE a

Silenced(r, from, n) == [i \in Slots |-> IF (i - from) % Frames < n THEN 0 ELSE r[i]]
-----------------------------------------------------------------------------
\* uac_pcm_playback_silence up to a new hw_ptr: what was played since the last is
\* filled.
PlaybackSilence(new) ==
    LET left == silence.filled - Ahead(new - hw_ptr)
        s == IF left < 0 THEN [start |-> new, filled |-> 0]
             ELSE [start |-> hw_ptr, filled |-> left]
    IN /\ ring' = Silenced(ring, s.start % Frames, Frames - s.filled)
       /\ silence' = [s EXCEPT !.filled = Frames]

\* Mutant of HwAdvance: the base is not moved when the buffer has wrapped.
HwAdvanceStuck(old, base, pos) == [hw |-> base + pos, base |-> base]

\* The new hw_ptr from the position in the buffer.
HwAdvance(old, base, pos) ==
    LET next == IF base + pos >= old THEN base
                ELSE IF base + Frames >= Boundary THEN 0 ELSE base + Frames
    IN [hw |-> next + pos, base |-> next]

\* uac_pcm_update_hw_ptr, from what it has read.
UpdateHwPtr(old, base, pos) ==
    LET a == HwAdvance(old, base, pos)
    IN IF Ahead(a.hw - old) >= Frames + PeriodSize \/ a.hw = hw_ptr
       THEN UNCHANGED <<hw_ptr, hw_base, silence, ring>>
       ELSE /\ PlaybackSilence(a.hw)
            /\ hw_ptr' = a.hw /\ hw_base' = a.base
-----------------------------------------------------------------------------
\* usbh_uac_prepare
Prepare ==
    /\ status \in {"SETUP", "PREPARED"} /\ call = Idle
    /\ status' = "PREPARED"
    /\ xfer' = [xfer EXCEPT !.hwptr = 0, !.done = 0]
    /\ hw_ptr' = 0 /\ hw_base' = 0 /\ appl_ptr' = 0
    /\ silence' = [start |-> 0, filled |-> 0]
    /\ UNCHANGED <<running, ring, call, written, sent, fault>>

\* uac_pcm_write: a running stream first updates hw_ptr; it reads everything,
WriteBegin ==
    /\ call = Idle /\ status \in {"PREPARED", "RUNNING", "STOPPED"} /\ written < MaxWritten
    /\ call' = [at |-> IF status = "PREPARED" THEN "write" ELSE "update",
                hw |-> hw_ptr, base |-> hw_base, pos |-> xfer.hwptr]
    /\ UNCHANGED <<status, running, appl_ptr, hw_ptr, hw_base, silence, ring, xfer,
                   written, sent, fault>>

\* and then writes.
WriteUpdate ==
    /\ call.at = "update"
    /\ UpdateHwPtr(call.hw, call.base, call.pos)
    /\ call' = [Idle EXCEPT !.at = "write"]
    /\ UNCHANGED <<status, running, appl_ptr, xfer, written, sent, fault>>

\* One round of its loop: at most to the end of the buffer.  With no room it waits
\* until hw_ptr has moved.
WriteFrames ==
    /\ call.at = "write"
    /\ \E n \in 1 .. Min({PlaybackAvail, Frames - (appl_ptr % Frames), MaxWritten - written}) :
          /\ ring' = [i \in Slots |->
                IF (i - appl_ptr) % Frames < n THEN written + 1 + ((i - appl_ptr) % Frames)
                ELSE ring[i]]
          /\ appl_ptr' = (appl_ptr + n) % Boundary
          /\ written' = written + n
    /\ fault' = IF written < sent.n THEN fault \cup {"late"} ELSE fault
    /\ call' = [Idle EXCEPT !.at = IF status = "PREPARED" THEN "start" ELSE "write"]
    /\ running' = (running \/ status = "PREPARED")   \* uac_pcm_start: the trigger
    /\ UNCHANGED <<status, hw_ptr, hw_base, silence, xfer, sent>>

\* The rest of uac_pcm_start: all but the data is silence.
Start ==
    /\ call.at = "start"
    /\ status' = "RUNNING" /\ call' = [Idle EXCEPT !.at = "write"]
    /\ LET avail == Min({Frames, Frames - PlaybackAvail})
       IN /\ ring' = Silenced(ring, (hw_ptr + avail) % Frames, Frames - avail)
          /\ silence' = [start |-> (hw_ptr + avail) % Boundary, filled |-> Frames]
    /\ UNCHANGED <<running, appl_ptr, hw_ptr, hw_base, xfer, written, sent, fault>>

WriteEnd ==
    /\ call.at = "write" /\ call' = Idle
    /\ UNCHANGED <<status, running, appl_ptr, hw_ptr, hw_base, silence, ring, xfer,
                   written, sent, fault>>

\* usbh_uac_stop
Stop ==
    /\ status = "RUNNING" /\ call = Idle
    /\ status' = "STOPPED" /\ running' = FALSE
    /\ UNCHANGED <<appl_ptr, hw_ptr, hw_base, silence, ring, xfer, call, written, sent, fault>>
-----------------------------------------------------------------------------
\* prepare_playback_trp: packets are added until a period is full or the limit is
\* reached.
Fill(counts) ==
    LET limit == xfer.limit + TrpFrames
        total[i \in 0 .. Len(counts)] == IF i = 0 THEN 0 ELSE total[i - 1] + counts[i]
        ends == {i \in DOMAIN counts : xfer.done + total[i] >= Min({PeriodSize, limit})}
        n == IF ends = {} THEN Len(counts) ELSE Min(ends)
        elapsed == xfer.done + total[n] >= PeriodSize
    IN [frames |-> total[n], elapsed |-> elapsed,
        done |-> xfer.done + total[n] - (IF elapsed THEN PeriodSize ELSE 0),
        limit |-> IF elapsed THEN 0 ELSE limit]

\* Mutant of Copied: the part of a TRP that wraps is read past the end.
CopiedFlat(n) == [k \in 1 .. n |-> IF xfer.hwptr + k > Frames THEN 0 ELSE ring[xfer.hwptr + k - 1]]

\* What is copied from the buffer, in two parts where it wraps.
Copied(n) == [k \in 1 .. n |-> ring[(xfer.hwptr + k - 1) % Frames]]

\* The callback of a TRP that the controller has sent fills it again.  At the end
\* of a period it updates hw_ptr.  (Before the trigger, and once it is stopped,
\* TRPs are all silence.)
TrpDone ==
    /\ running /\ sent.n <= MaxWritten
    /\ \E c \in [1 .. Packets -> Counts] :
          LET f == Fill(c)
              pos == (xfer.hwptr + f.frames) % Frames
          IN /\ sent' = [n |-> sent.n + f.frames, data |-> Copied(f.frames),
                         by |-> written]
             /\ xfer' = [hwptr |-> pos, done |-> f.done, limit |-> f.limit]
             /\ IF f.elapsed /\ status = "RUNNING"
                THEN UpdateHwPtr(hw_ptr, hw_base, pos)
                ELSE UNCHANGED <<hw_ptr, hw_base, silence, ring>>
    /\ fault' = IF call.at \in {"update", "start"} THEN fault \cup {"raced"} ELSE fault
    /\ UNCHANGED <<status, running, appl_ptr, call, written>>

Next ==
    \/ Prepare \/ WriteBegin \/ WriteUpdate \/ WriteFrames \/ Start \/ WriteEnd \/ Stop
    \/ TrpDone

Spec == Init /\ [][Next]_pcmVars
-----------------------------------------------------------------------------
(* Properties                                                              *)

\* The frames sent, whose first is the (sent.n - Len(sent.data))-th since the start.
Place(k) == sent.n - Len(sent.data) + k

\* Until the user falls behind, every frame that is sent is the one written for
\* its place or, if none was by then, silence: no write overwrites a frame that
\* is still to be sent and none is sent again, across the wraps of the buffer and
\* of the pointers (:302-388, :560-766, :1031-1119).  A user that has fallen
\* behind is not told, and hears his late frames a buffer later; an update of
\* hw_ptr in which a TRP ends sets it wrong by a buffer; the end of a period
\* between the trigger and RUNNING (:925-930) is missed.
PlayedExact ==
    fault = {} =>
        \A k \in DOMAIN sent.data :
            sent.data[k] = IF Place(k) <= sent.by THEN Place(k) ELSE 0
=============================================================================
