----------------------------- MODULE UacFormats -----------------------------
(***************************************************************************)
(* The alternate settings of an audio streaming interface are parsed into  *)
(* formats, the formats grouped in streams (uac_stream.c, uac_format.c),   *)
(* and one is later looked for by its rate (find_format).                  *)
(***************************************************************************)
EXTENDS Integers, Sequences, SequencesExt, FiniteSetsExt

CONSTANTS
    Eps,         \* endpoints, as [ep, dir]: "play" or "capture"
    Types,       \* bFormatType of the supported ones
    Kinds,       \* [async, mps]: whether the sync type is to be avoided, packet size
    RateLists,   \* rates of the descriptor; 0 is an unused entry, <<>> the range Ranges
    Ranges,      \* [min, max] of a continuous format
    MaxAlts      \* bound: alternate settings

VARIABLES
    parsed,      \* how many settings have been parsed
    streams      \* p_audio->stream_list: [type, play, capture], of lists of formats

formatVars == <<parsed, streams>>

Rates == UNION ({ToSet(l) : l \in RateLists} \cup {r.min .. r.max : r \in Ranges})
Alts == [at : Eps, type : Types, kind : Kinds, list : RateLists, range : Ranges]

Init == parsed = 0 /\ streams = <<>>

\* parse_audio_format_rates_v1
ParseRates(a) ==
    LET used == SelectSeq(a.list, LAMBDA r : r # 0)
    IN IF a.list = <<>> THEN [min |-> a.range.min, max |-> a.range.max, table |-> <<>>, any |-> TRUE]
       ELSE [min |-> Min(ToSet(used)), max |-> Max(ToSet(used)), table |-> used, any |-> FALSE]

\* The format of a setting, which is number n.
Format(a, n) ==
    [id |-> n, type |-> a.type, ep |-> a.at.ep, async |-> a.kind.async, mps |-> a.kind.mps,
     rates |-> ParseRates(a)]
-----------------------------------------------------------------------------
EpOf(s, dir) == IF s[dir] = <<>> THEN 0 ELSE s[dir][1].ep

\* Mutant of AddStream: a stream with another type of format is used.
AddStreamAnyType(f, dir) ==
    LET same == {k \in DOMAIN streams : EpOf(streams[k], dir) = f.ep}
        free == {k \in DOMAIN streams : EpOf(streams[k], dir) = 0}
    IN IF same # {} THEN [streams EXCEPT ![Min(same)][dir] = Append(@, f)]
       ELSE IF free # {} THEN [streams EXCEPT ![Min(free)][dir] = <<f>>]
       ELSE <<[[type |-> f.type, play |-> <<>>, capture |-> <<>>] EXCEPT ![dir] = <<f>>]>> \o streams

\* uac_add_audio_stream: with the others of its endpoint, or in a stream with no
\* format for this direction, or in a new one at the head of the list.
AddStream(f, dir) ==
    LET typed == {k \in DOMAIN streams : streams[k].type = f.type}
        same == {k \in typed : EpOf(streams[k], dir) = f.ep}
        free == {k \in typed : EpOf(streams[k], dir) = 0}
    IN IF same # {} THEN [streams EXCEPT ![Min(same)][dir] = Append(@, f)]
       ELSE IF free # {} THEN [streams EXCEPT ![Min(free)][dir] = <<f>>]
       ELSE <<[[type |-> f.type, play |-> <<>>, capture |-> <<>>] EXCEPT ![dir] = <<f>>]>> \o streams

\* One setting in usbh_uac_parse_audio_interface.  A list of zeros is skipped.
Parse ==
    \E a \in Alts :
        /\ parsed < MaxAlts
        /\ parsed' = parsed + 1
        /\ streams' = IF a.list # <<>> /\ \A k \in DOMAIN a.list : a.list[k] = 0 THEN streams
                      ELSE AddStream(Format(a, parsed + 1), a.at.dir)

Next == Parse

Spec == Init /\ [][Next]_formatVars
-----------------------------------------------------------------------------
Has(f, rate) ==
    /\ rate \in f.rates.min .. f.rates.max
    /\ f.rates.any \/ rate \in ToSet(f.rates.table)

NoFormat == [id |-> 0]

\* Mutant of Better: an asynchronous one is as good.
BetterAnySync(f, found) == f.mps > found.mps

\* The comparison of find_format: no asynchronous endpoint if there is another
\* (adaptive for capture), then the larger packet.
Better(f, found) ==
    IF f.async # found.async THEN ~f.async ELSE f.mps > found.mps

\* find_format, over the formats of a substream.
FindFormat(fmts, rate) ==
    LET found[k \in 0 .. Len(fmts)] ==
            IF k = 0 THEN NoFormat
            ELSE LET f == fmts[k] before == found[k - 1]
                 IN IF Has(f, rate) /\ (before = NoFormat \/ Better(f, before))
                    THEN f ELSE before
    IN found[Len(fmts)]
-----------------------------------------------------------------------------
(* Properties                                                              *)

TypeOK == /\ parsed \in 0 .. MaxAlts /\ Len(streams) <= parsed
          /\ \A k \in DOMAIN streams : streams[k].type \in Types

Listed(dir) == {e \in (DOMAIN streams) \X UNION {ToSet(s[dir]) : s \in ToSet(streams)} :
                   e[2] \in ToSet(streams[e[1]][dir])}

\* Whatever the order of the settings, the formats of one endpoint and type are
\* in one substream, which has no others, and each is in one (uac_stream.c:171).
Grouped ==
    \A dir \in {"play", "capture"} : \A p, q \in Listed(dir) :
        (p[1] = q[1]) <=> (p[2].ep = q[2].ep /\ p[2].type = q[2].type)

\* The format found for a rate has it, and no other that has it is better: of a
\* synchronous one and the largest packet (uac_format.c:234).
FormatBest ==
    \A k \in DOMAIN streams, dir \in {"play", "capture"}, rate \in Rates :
        LET fits == {f \in ToSet(streams[k][dir]) : Has(f, rate)}
            found == FindFormat(streams[k][dir], rate)
        IN IF fits = {} THEN found = NoFormat
           ELSE /\ found \in fits
                /\ \A f \in fits : f.async = found.async => f.mps <= found.mps
                /\ found.async => \A f \in fits : f.async
=============================================================================
