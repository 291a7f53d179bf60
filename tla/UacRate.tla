------------------------------ MODULE UacRate ------------------------------
(***************************************************************************)
(* The packets of a playback endpoint (uac_endpoint.c): how many frames    *)
(* each holds, from the sample rate in 16.16 fixed point, and how its TRPs *)
(* are sized from the period.                                              *)
(***************************************************************************)
EXTENDS Integers, FiniteSetsExt

CONSTANTS
    Rates,       \* sample rates
    Intervals,   \* datainterval
    Strides,     \* bytes of a frame
    MaxPacks,    \* wMaxPacketSize
    Periods,     \* frames of a period
    Buffers,     \* periods of the buffer
    PacketLimit  \* bound: packets sent

VARIABLES
    fmt,         \* rate, high (speed), di (datainterval), stride, maxpack and fill_max
    conf,        \* what data_ep_set_params has set
    phase,       \* ep->phase
    packets, frames,   \* ghosts: packets sent, frames in them
    last         \* ghost: frames of the last packet

rateVars == <<fmt, conf, phase, packets, frames, last>>

One == 2 ^ 16
DivUp(n, d) == (n + d - 1) \div d

\* get_usb_full_speed_rate, get_usb_high_speed_rate: frames per packet, 16.16.
FreqN(rate, high) == (rate * (2 ^ (IF high THEN 10 ELSE 13)) + 62) \div 125

\* maxsize and freqmax: room for a rate a quarter higher, up to the packet size.
MaxSize(f) ==
    LET n == FreqN(f.rate, f.high)
        room == ((n + n \div 4 + One - 1) * f.stride) \div (2 ^ (16 - f.di))
    IN IF f.maxpack # 0 /\ f.maxpack < room THEN f.maxpack ELSE room

\* Mutant of Configure: the packets of a TRP are not shared out evenly.
ConfigureUneven(f, period, buffer) ==
    LET perMs == IF f.high THEN 8 \div (2 ^ f.di) ELSE 1
        maxPacks == Max({1, (IF f.high THEN 48 ELSE 6) \div (2 ^ f.di)})
        minsize == Max({1, (FreqN(f.rate, f.high) \div (2 ^ (16 - f.di))) * f.stride})
        packs == DivUp(period * f.stride, minsize)
        trps == packs \div maxPacks
        trpPacks == DivUp(packs, Max({trps, 1}))
    IN [maxsize |-> MaxSize(f), trpPacks |-> trpPacks,
        trpFrames |-> DivUp(period, Max({trps, 1})), ms |-> perMs, most |-> maxPacks,
        ntrps |-> Min({12, (18 * perMs) \div trpPacks, trps * buffer})]

\* data_ep_set_params, without a synchronisation endpoint.
Configure(f, period, buffer) ==
    LET perMs == IF f.high THEN 8 \div (2 ^ f.di) ELSE 1
        maxPacks == Max({1, (IF f.high THEN 48 ELSE 6) \div (2 ^ f.di)})
        minsize == Max({1, (FreqN(f.rate, f.high) \div (2 ^ (16 - f.di))) * f.stride})
        packs == DivUp(period * f.stride, minsize)
        trps == DivUp(packs, maxPacks)
        trpPacks == DivUp(packs, trps)
    IN [maxsize |-> MaxSize(f), trpPacks |-> trpPacks, trpFrames |-> DivUp(period, trps),
        ms |-> perMs, most |-> maxPacks,
        ntrps |-> Min({12, (18 * perMs) \div trpPacks, trps * buffer})]

Init ==
    /\ fmt \in [rate : Rates, high : BOOLEAN, di : Intervals, stride : Strides,
                maxpack : MaxPacks, fill : BOOLEAN]
    /\ fmt.high \/ fmt.di = 0
    /\ \E period \in Periods, buffer \in Buffers : conf = Configure(fmt, period, buffer)
    /\ phase = 0 /\ packets = 0 /\ frames = 0 /\ last = 0

\* usbh_uac_endpoint_next_packet_size
NextPacket ==
    /\ packets < PacketLimit
    /\ LET most == fmt.maxpack \div fmt.stride   \* maxframesize
           p == (phase % One) + FreqN(fmt.rate, fmt.high) * (2 ^ fmt.di)
           n == IF fmt.fill THEN most ELSE Min({p \div One, most})
       IN /\ phase' = IF fmt.fill THEN phase ELSE p
          /\ last' = n /\ frames' = frames + n
    /\ packets' = packets + 1
    /\ UNCHANGED <<fmt, conf>>

Next == NextPacket

Spec == Init /\ [][Next]_rateVars
-----------------------------------------------------------------------------
(* Properties                                                              *)

TypeOK ==
    /\ fmt.rate \in Rates /\ phase \in Nat /\ packets \in 0 .. PacketLimit
    /\ frames \in Nat /\ last \in 0 .. frames

\* Packets in a second.
PerSecond == IF fmt.high THEN 8000 \div (2 ^ fmt.di) ELSE 1000
\* The endpoint can carry the rate.
Carries == DivUp(fmt.rate, PerSecond) * fmt.stride <= fmt.maxpack

\* After any number of packets the frames sent are those of the sample rate, to
\* within one, if the packets can carry them (uac_endpoint.c:15-24, :381).
RateKept ==
    ~fmt.fill /\ Carries =>
        LET due == (packets * fmt.rate) \div PerSecond
        IN frames \in {due - 1, due, due + 1}

\* A packet fits in its part of the TRP's buffer, and in the endpoint's packet;
\* not with fill_max, whose buffer is sized without it (uac_endpoint.c:284, :340).
PacketFits ==
    ~fmt.fill => last * fmt.stride <= Min({conf.maxsize, fmt.maxpack})

\* There is a TRP, none has more packets than allowed, and their packets hold a
\* period.
TrpsFit ==
    /\ conf.ntrps \in 1 .. 12 /\ conf.trpPacks \in 1 .. conf.most
=============================================================================
