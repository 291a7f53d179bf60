------------------------------ MODULE NetRing ------------------------------
(***************************************************************************)
(* The receive buffer of a USB network device (usbh_net.c): a ring that    *)
(* __net_rx_buf_put fills from the callback of a TRP and usbh_net_read     *)
(* empties, each under p_lock.  The bytes received are numbered.           *)
(***************************************************************************)
EXTENDS Naturals, Sequences

CONSTANTS
    Size,      \* rx_buf.buf_size
    MaxLen,    \* bound: bytes of one put or read
    MaxByte    \* bound: bytes received

VARIABLES
    ring,      \* what each place of the buffer holds, 0 before the first put
    data_pos, rd_pos,
    received,  \* bytes received so far
    last       \* what the last read returned

ringVars == <<ring, data_pos, rd_pos, received, last>>

Places == 0 .. Size - 1

TypeOK ==
    /\ ring \in [Places -> 0 .. MaxByte] /\ data_pos \in Places /\ rd_pos \in Places
    /\ received \in 0 .. MaxByte /\ last \in Seq(0 .. MaxByte)

Init ==
    /\ ring = [i \in Places |-> 0] /\ data_pos = 0 /\ rd_pos = 0
    /\ received = 0 /\ last = <<>>

Least(a, b) == IF a < b THEN a ELSE b
\* Mutant of Wrap: the place past the end is taken.
WrapPast(n) == IF n > Size THEN n - Size ELSE n
Wrap(n) == IF n >= Size THEN n - Size ELSE n

\* How many of n bytes are stored.  Behind the reader the code takes one byte
\* too many when they do not fit, and the full buffer then looks empty.
Taken(n) ==
    IF rd_pos > data_pos
    THEN IF n > rd_pos - data_pos - 1 THEN rd_pos - data_pos ELSE n
    ELSE LET first == Least(Least(Size + rd_pos - data_pos - 1, n), Size - data_pos)
             second == IF rd_pos = 0 THEN 0 ELSE Least(n - first, rd_pos - 1)
         IN first + second

\* __net_rx_buf_put of n bytes; the rest of them is dropped.
Put(n) ==
    /\ received + n <= MaxByte
    /\ ring' = [i \in Places |->
                  LET k == IF i >= data_pos THEN i - data_pos ELSE i + Size - data_pos
                  IN IF k < Taken(n) THEN received + k + 1 ELSE ring[i]]
    /\ data_pos' = Wrap(data_pos + Taken(n)) /\ received' = received + n
    /\ last' = <<>> /\ UNCHANGED rd_pos

\* Mutant of Given: an empty buffer is taken for a full one.
GivenFromEmpty(n) ==
    IF rd_pos < data_pos THEN Least(data_pos - rd_pos, n)
    ELSE LET first == Least(Size - rd_pos, n) IN first + Least(data_pos, n - first)

Given(n) ==
    IF rd_pos <= data_pos THEN Least(data_pos - rd_pos, n)
    ELSE LET first == Least(Size - rd_pos, n) IN first + Least(data_pos, n - first)

\* usbh_net_read of up to n bytes.
Read(n) ==
    /\ last' = [k \in 1 .. Given(n) |-> ring[Wrap(rd_pos + k - 1)]]
    /\ rd_pos' = Wrap(rd_pos + Given(n))
    /\ UNCHANGED <<ring, data_pos, received>>

Next == \E n \in 1 .. MaxLen : Put(n) \/ Read(n)

Spec == Init /\ [][Next]_ringVars
-----------------------------------------------------------------------------
(* Properties                                                              *)

\* Bytes are lost when the buffer is full, but what is read comes in the order
\* it was received, is never read again and was never there before: the bytes
\* of a read grow, and so do those of the places still to be read after it.
RingOrder ==
    LET n == IF rd_pos <= data_pos THEN data_pos - rd_pos ELSE Size - rd_pos + data_pos
        toRead == [k \in 1 .. n |-> ring[Wrap(rd_pos + k - 1)]]
        out == last \o toRead
    IN \A j, k \in DOMAIN out : j < k => out[j] < out[k]
=============================================================================
