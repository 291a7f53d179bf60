----------------------------- MODULE UvcParse -----------------------------
(***************************************************************************)
(* The descriptors of a video streaming interface (usbh_vc_stream.c): the  *)
(* formats, frames and frame intervals are counted, one block is allocated *)
(* for them all, and a second pass over the descriptors fills it.          *)
(***************************************************************************)
EXTENDS Integers, Sequences, FiniteSets, Functions

CONSTANTS
    Kinds,     \* kinds of descriptors: formats "fu", "fm", "fb", "fdv", frames "u", "m",
               \* "b", and "still", "color" and "other"
    Counts,    \* numbers of intervals that a frame gives; 0 is a range
    MaxDescs   \* bound: descriptors

VARIABLES
    descs,     \* the descriptors: kind, whole (long enough) and n (intervals)
    at,        \* "header", "count", "fill", "ready" or "failed"
    pos,       \* the descriptor in turn
    room,      \* n_formats, n_frames and n_intervals, counted
    used,      \* how far p_frame and p_interval have gone
    formats,   \* what was filled: the frames and intervals of each
    held,      \* what has been allocated
    listed     \* the stream is on the list of the device

parseVars == <<descs, at, pos, room, used, formats, held, listed>>

IsFormat(d) == d.kind \in {"fu", "fm", "fb", "fdv"}
IsFrame(d) == d.kind \in {"u", "m", "b"}
\* A frame without a number of intervals has a range of three values.
Intervals(d) == IF d.n = 0 THEN 3 ELSE d.n
\* The frames that belong to a format: ftype.
FrameKind(d) ==
    CASE d.kind = "fu" -> "u" [] d.kind = "fm" -> "m" [] d.kind = "fb" -> "b"
      [] d.kind = "fdv" -> "none"

Descs == [kind : Kinds, whole : BOOLEAN, n : Counts]

Init ==
    /\ descs \in UNION {[1 .. k -> {d \in Descs : (d.n # 1 => IsFrame(d)) /\ (~d.whole => d.kind # "other")}] :
                          k \in 0 .. MaxDescs}
    /\ at = "header" /\ pos = 1 /\ formats = <<>> /\ held = {} /\ listed = FALSE
    /\ room = [formats |-> 0, frames |-> 0, intervals |-> 0] /\ used = room

\* The failing exit; the two mutexes of the stream are not destroyed, and what it
\* returns was not always set.
Fail == at' = "failed" /\ held' = held \ {"stream", "controls", "formats"}

\* usbh_vc_stream_parse to the header: the stream, its mutexes and its controls.
Header ==
    /\ at = "header"
    /\ \/ at' = "count" /\ held' = {"stream", "clock lock", "lock", "controls"}
       \/ at' = "failed" /\ held' = {}                      \* no memory or mutex
       \/ at' = "failed" /\ held' = {"clock lock", "lock"}  \* an illegal header
    /\ UNCHANGED <<descs, pos, room, used, formats, listed>>

\* What a descriptor counts for: a digital video format is one frame of one interval.
FormatsIn(d) == IF IsFormat(d) THEN 1 ELSE 0
FramesIn(d) == IF IsFrame(d) \/ d.kind = "fdv" THEN 1 ELSE 0
IntervalsIn(d) == IF d.kind = "fdv" THEN 1 ELSE IF IsFrame(d) THEN Intervals(d) ELSE 0

Sum(f(_), S) == SumFunctionOnSet([i \in DOMAIN descs |-> f(descs[i])], S)
Total(f(_)) == Sum(f, DOMAIN descs)

\* Mutant of Count: a range is not counted as three intervals.
CountNone ==
    /\ at = "count"
    /\ room' = [formats |-> Total(FormatsIn), frames |-> Total(FramesIn),
                intervals |-> Total(LAMBDA d : IF d.n = 0 THEN 0 ELSE IntervalsIn(d))]
    /\ at' = "fill" /\ held' = held \cup {"formats"}
    /\ UNCHANGED <<descs, pos, used, formats, listed>>

\* The first pass, and the block for what it counted.
Count ==
    /\ at = "count"
    /\ room' = [formats |-> Total(FormatsIn), frames |-> Total(FramesIn),
                intervals |-> Total(IntervalsIn)]
    /\ \/ Fail       \* no formats, or no memory
       \/ room'.formats > 0 /\ at' = "fill" /\ held' = held \cup {"formats"}
    /\ UNCHANGED <<descs, pos, used, formats, listed>>

\* The frames after the format at position p that are its own, and the first
\* descriptor after them.
OwnFrames(p) ==
    LET own(q) == \A i \in p + 1 .. q : descs[i].kind = FrameKind(descs[p])
    IN {q \in p + 1 .. Len(descs) : own(q)}

\* One descriptor at q is passed over if it is of that kind.
Past(q, kind) == IF q <= Len(descs) /\ descs[q].kind = kind THEN q + 1 ELSE q

\* __vc_format_parse: a format with its frames and their intervals, then a still
\* image and a colour descriptor.
Format ==
    /\ at = "fill" /\ pos <= Len(descs) /\ IsFormat(descs[pos])
    /\ LET own == OwnFrames(pos)
           dv == descs[pos].kind = "fdv"
           frames == Cardinality(own) + (IF dv THEN 1 ELSE 0)
           ints == Sum(Intervals, own) + (IF dv THEN 1 ELSE 0)
           still == Past(pos + Cardinality(own) + 1, "still")
           end == Past(still, "color")
       IN IF ~descs[pos].whole \/ (\E i \in own : ~descs[i].whole)
             \/ (end # still /\ ~descs[still].whole)
          THEN Fail /\ UNCHANGED <<pos, used, formats>>
          ELSE /\ formats' = Append(formats, [frames |-> used.frames + 1 .. used.frames + frames,
                                   intervals |-> used.intervals + 1 .. used.intervals + ints])
               /\ used' = [formats |-> used.formats + 1, frames |-> used.frames + frames,
                           intervals |-> used.intervals + ints]
               /\ pos' = end /\ UNCHANGED <<at, held>>
    /\ UNCHANGED <<descs, room, listed>>

\* Any other descriptor is passed over.
Skip ==
    /\ at = "fill" /\ pos <= Len(descs) /\ ~IsFormat(descs[pos])
    /\ pos' = pos + 1
    /\ UNCHANGED <<descs, at, room, used, formats, held, listed>>

\* The end: the largest packet of its endpoints is found and the stream is listed.
Listed ==
    /\ at = "fill" /\ pos > Len(descs)
    /\ at' = "ready" /\ listed' = TRUE
    /\ UNCHANGED <<descs, pos, room, used, formats, held>>

Next == Header \/ Count \/ Format \/ Skip \/ Listed

Spec == Init /\ [][Next]_parseVars
-----------------------------------------------------------------------------
(* Properties                                                              *)

TypeOK ==
    /\ at \in {"header", "count", "fill", "ready", "failed"} /\ pos \in 1 .. MaxDescs + 1
    /\ held \subseteq {"stream", "clock lock", "lock", "controls", "formats"}

\* What the second pass fills lies in what the first counted, each format apart from
\* the others, wherever frames stand among the descriptors; the formats that the
\* stream says it has are filled (usbh_vc_stream.c:635-670, :695-725).
FilledInRoom ==
    /\ at \in {"fill", "ready"} =>
         /\ used.frames <= room.frames /\ used.intervals <= room.intervals
         /\ used.formats <= room.formats
    /\ at = "ready" => Len(formats) = room.formats /\ "formats" \in held
    /\ \A i, j \in DOMAIN formats : i # j =>
         formats[i].frames \cap formats[j].frames = {}
         /\ formats[i].intervals \cap formats[j].intervals = {}
=============================================================================
