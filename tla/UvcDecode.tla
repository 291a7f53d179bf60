----------------------------- MODULE UvcDecode -----------------------------
(***************************************************************************)
(* Frames of a USB camera from isochronous packets (usbh_vc_video.c): the  *)
(* device toggles the frame identifier and marks the last packet of a      *)
(* frame.  Packets are lost, which the controller reports, or are too      *)
(* short to have a header, which only a counter notes.  The callback of a  *)
(* TRP picks a buffer no user holds, fills it, and goes on to the next     *)
(* buffer of the queue at the end of each frame.  The callback and         *)
(* usbh_vc_stream_video_get/put exclude each other by p_stream->p_lock.    *)
(*                                                                         *)
(* The identifier has one bit: a gap of two whole frames cannot be seen,   *)
(* so at most Packets packets in a row are short.  The queue has the three *)
(* buffers that __vc_video_complete counts on (:966).                      *)
(***************************************************************************)
EXTENDS Naturals, Sequences, FiniteSets

CONSTANTS
    Packets,   \* packets of a frame: max_video_frame_size
    MaxFrame   \* bound on the frames the device sends

VARIABLES
    queue,     \* irqqueue
    buf,       \* struct usbh_vc_buffer
    cur,       \* the buffer of the TRP being decoded, 0 between TRPs
    last_fid,  \* 2 stands for the -1 of a new stream
    p_buf_tmp, \* the buffer of the last video_get, 0 when put
    sent,      \* the packets the device has sent
    gap,       \* how many of the last of them were short
    compressed \* UVC_FMT_FLAG_COMPRESSED of the format

decodeVars == <<queue, buf, cur, last_fid, p_buf_tmp, sent, gap, compressed>>

Bufs == 1 .. 3
Skipped == 4   \* cur of a TRP that found every buffer in use

States == {"IDLE", "QUEUED", "ACTIVE", "READY", "DONE"}

TypeOK ==
    /\ queue \in [Bufs -> Bufs] /\ Cardinality({queue[i] : i \in Bufs}) = 3
    /\ buf \in [Bufs -> [state : States, data : SUBSET (0 .. MaxFrame * Packets),
                         error : BOOLEAN, used : BOOLEAN]]
    /\ cur \in 0 .. Skipped /\ last_fid \in 0 .. 2 /\ p_buf_tmp \in 0 .. 3
    /\ sent \in 0 .. MaxFrame * Packets /\ gap \in 0 .. Packets
    /\ compressed \in BOOLEAN

Empty == [state |-> "IDLE", data |-> {}, error |-> FALSE, used |-> FALSE]

Init ==
    /\ queue = <<1, 2, 3>> /\ buf = [b \in Bufs |-> Empty]
    /\ cur = 0 /\ last_fid = 2 /\ p_buf_tmp = 0 /\ sent = 0 /\ gap = 0
    /\ compressed \in BOOLEAN
-----------------------------------------------------------------------------
\* The packets of a frame are numbered on from those of the frame before.
FrameOf(p) == p \div Packets
Fid(p) == FrameOf(p) % 2
Eof(p) == p % Packets = Packets - 1

\* list_move_tail of the buffer b.
MoveTail(q, b) ==
    LET i == CHOOSE j \in Bufs : q[j] = b
    IN SubSeq(q, 1, i - 1) \o SubSeq(q, i + 1, 3) \o <<b>>

\* The first buffer no user holds is at i: those before it go to the tail.
Unused(i) == ~buf[queue[i]].used /\ \A j \in 1 .. i - 1 : buf[queue[j]].used

\* __vc_video_complete up to the decoding: the first buffer that is not in use,
\* its frame dropped if no one took it; without one the TRP is submitted again.
TrpBegin ==
    /\ cur = 0
    /\ IF \A b \in Bufs : buf[b].used
         THEN cur' = Skipped /\ UNCHANGED <<queue, buf>>
         ELSE /\ \E i \in Bufs :
                    /\ Unused(i)
                    /\ queue' = SubSeq(queue, i, 3) \o SubSeq(queue, 1, i - 1)
                    /\ cur' = queue[i]
              /\ buf' = IF buf[cur'].state = "DONE"
                          THEN [buf EXCEPT ![cur'] = [@ EXCEPT !.state = "IDLE",
                                                  !.data = {}, !.error = FALSE]]
                          ELSE buf
    /\ UNCHANGED <<last_fid, p_buf_tmp, sent, gap, compressed>>

TrpEnd ==
    /\ cur # 0 /\ cur' = 0
    /\ UNCHANGED <<queue, buf, last_fid, p_buf_tmp, sent, gap, compressed>>
-----------------------------------------------------------------------------
\* What decoding works on: the queue, the buffers, the current one, last_fid.
Decoder == [queue |-> queue, buf |-> buf, cur |-> cur, last |-> last_fid]

Fresh(b) == [b EXCEPT !.state = "QUEUED", !.data = {}, !.error = FALSE]

\* __vc_video_buffer_validate: the size of an uncompressed frame is known.
Invalid(b) == b.error \/ (~compressed /\ Cardinality(b.data) # Packets)

\* __vc_queue_next_buffer: a buffer with an error is filled anew; else it is
\* done, and the head of the queue comes next, though a user may hold it.
NextBuffer(s) ==
    LET b == s.buf[s.cur]
        q == MoveTail(s.queue, s.cur)
        done == [s.buf EXCEPT ![s.cur].state = "DONE"]
    IN IF Invalid(b)
         THEN [s EXCEPT !.buf[s.cur] = Fresh(b)]
         ELSE [s EXCEPT !.queue = q, !.cur = Head(q),
                        !.buf = [done EXCEPT ![Head(q)] = Fresh(@)]]

\* The flush at a new identifier left out.
FlushedNot(s, p) == s

\* __vc_video_decode_start finds the identifier changed and data in the buffer:
\* the end of that frame was lost, and the packet is for the next buffer.
Flushed(s, p) ==
    IF s.buf[s.cur].state = "ACTIVE" /\ Fid(p) # s.last /\ s.buf[s.cur].data # {}
      THEN NextBuffer(s) ELSE s

\* A packet is not for a buffer that waits for the start of the next frame.
Waits(s, p) == s.buf[s.cur].state # "ACTIVE" /\ Fid(p) = s.last

\* __vc_video_data_decode and __vc_video_decode_end; a full buffer is ready too.
Filled(s, p) ==
    LET b == s.buf[s.cur]
        full == Cardinality(b.data) = Packets
        t == [s EXCEPT !.last = Fid(p),
                       !.buf[s.cur] = [b EXCEPT !.state = "ACTIVE",
                              !.data = IF full THEN b.data ELSE b.data \cup {p}]]
    IN IF full \/ Eof(p) THEN NextBuffer(t) ELSE t

\* __vc_video_isoc_decode of one packet.
Decoded(s, p) ==
    LET t == Flushed(s, p) IN IF Waits(t, p) THEN t ELSE Filled(t, p)

\* The next packet of the device, in the TRP being decoded.
Packet ==
    /\ cur # 0 /\ sent < MaxFrame * Packets
    /\ sent' = sent + 1
    /\ IF cur = Skipped
         THEN UNCHANGED <<queue, buf, cur, last_fid>>
         ELSE LET s == Decoded(Decoder, sent)
              IN queue' = s.queue /\ buf' = s.buf /\ cur' = s.cur /\ last_fid' = s.last
    /\ gap' = 0 /\ UNCHANGED <<p_buf_tmp, compressed>>

\* A packet is lost, which its status says.
Lost ==
    /\ cur # 0 /\ sent < MaxFrame * Packets
    /\ sent' = sent + 1
    /\ buf' = IF cur = Skipped THEN buf ELSE [buf EXCEPT ![cur].error = TRUE]
    /\ gap' = 0 /\ UNCHANGED <<queue, cur, last_fid, p_buf_tmp, compressed>>

\* A packet without a header is passed over.
Short ==
    /\ cur # 0 /\ sent < MaxFrame * Packets /\ gap < Packets
    /\ sent' = sent + 1 /\ gap' = gap + 1
    /\ UNCHANGED <<queue, buf, cur, last_fid, p_buf_tmp, compressed>>
-----------------------------------------------------------------------------
\* usbh_vc_video_buf_get: the first frame that is done.
VideoGet ==
    /\ cur = 0
    /\ \E i \in Bufs :
        /\ buf[queue[i]].state = "DONE"
        /\ \A j \in 1 .. i - 1 : buf[queue[j]].state # "DONE"
        /\ buf' = [buf EXCEPT ![queue[i]].used = TRUE]
        /\ p_buf_tmp' = queue[i]
    /\ UNCHANGED <<queue, cur, last_fid, sent, gap, compressed>>

\* usbh_vc_video_buf_put: the buffer of the last get, whichever is meant.
VideoPut ==
    /\ cur = 0 /\ p_buf_tmp # 0
    /\ buf' = [buf EXCEPT ![p_buf_tmp] = [Fresh(@) EXCEPT !.used = FALSE]]
    /\ p_buf_tmp' = 0
    /\ UNCHANGED <<queue, cur, last_fid, sent, gap, compressed>>

Next == TrpBegin \/ TrpEnd \/ Packet \/ Lost \/ Short \/ VideoGet \/ VideoPut

Spec == Init /\ [][Next]_decodeVars
-----------------------------------------------------------------------------
\* A frame that is done holds packets of one frame of the device only, and, when
\* its size is known, all of them: whichever packets are lost, wherever a TRP
\* ends in a frame, and whoever holds buffers (:40-86, :433-626, :947-978).
FrameWhole ==
    \A b \in Bufs : buf[b].state = "DONE" =>
        /\ \A p, r \in buf[b].data : FrameOf(p) = FrameOf(r)
        /\ compressed \/ Cardinality(buf[b].data) = Packets
=============================================================================
