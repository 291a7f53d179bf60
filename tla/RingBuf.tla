------------------------------ MODULE RingBuf -------------------------------
(***************************************************************************)
(* The ring buffer of usb_lib.c: usb_lib_rb_put, called by the OUT         *)
(* callback of the virtual serial port with whatever the host sent, and    *)
(* usb_lib_rb_get, called by the application.  Both hold p_rb->p_lock from *)
(* the first read of the positions to the last write: each is one step.    *)
(***************************************************************************)
EXTENDS Naturals, Sequences

CONSTANTS Byte,    \* the values of a byte
          Size,    \* buf_size
          MaxLen   \* a put or a get is of at most this many bytes

ASSUME RingBufAssumption == Size \in Nat \ {0} /\ MaxLen \in Nat

VARIABLES buf,      \* p_buf
          dataPos,  \* data_pos
          rdPos,    \* rd_pos
          got       \* the data of the last get

vars == <<buf, dataPos, rdPos, got>>

Data == UNION {[1 .. n -> Byte] : n \in 0 .. MaxLen}
Least(m, n) == IF m <= n THEN m ELSE n

\* Mutant of Wrap: a position may stay at the end of the buffer.
WrapPast(i) == IF i > Size THEN i - Size ELSE i

Wrap(i) == IF i >= Size THEN i - Size ELSE i

\* The memory is not cleared when it is allocated, the positions are.
Init ==
    /\ buf \in [0 .. Size - 1 -> Byte]
    /\ dataPos = 0 /\ rdPos = 0
    /\ got = <<>>
-----------------------------------------------------------------------------
\* Mutant of PutLen1: the first copy may run past the end of the buffer.
PutLen1Long(n) ==
    IF rdPos > dataPos
      THEN IF n > rdPos - dataPos - 1 THEN rdPos - dataPos ELSE n
      ELSE Least(n, Size + rdPos - dataPos - 1)

\* The lengths of the two copies of a put of n bytes: at data_pos, and at the
\* start of the buffer.
PutLen1(n) ==
    IF rdPos > dataPos
      THEN IF n > rdPos - dataPos - 1 THEN rdPos - dataPos ELSE n
      ELSE Least(Least(n, Size + rdPos - dataPos - 1), Size - dataPos)

\* Mutant of PutLen2: no second copy.
PutLen2None(n) == 0

PutLen2(n) ==
    IF rdPos > dataPos \/ rdPos = 0 THEN 0
    ELSE Least(n - PutLen1(n), rdPos - 1)
PutLen(n) == PutLen1(n) + PutLen2(n)   \* *p_act_len

Put(s) ==
    LET n1 == PutLen1(Len(s))  n2 == PutLen2(Len(s)) IN
    /\ buf' = [i \in 0 .. Size - 1 |->
                 IF i < n2 THEN s[n1 + i + 1]
                 ELSE IF dataPos <= i /\ i < dataPos + n1 THEN s[i - dataPos + 1]
                 ELSE buf[i]]
    /\ dataPos' = Wrap(dataPos + PutLen(Len(s)))
    /\ UNCHANGED <<rdPos, got>>

\* Mutant of GetLen1: equal positions are read as a full buffer, not an empty one.
GetLen1Empty(n) == Least(n, (IF rdPos < dataPos THEN dataPos ELSE Size) - rdPos)

\* The lengths of the two copies of a get of n bytes.
GetLen1(n) == Least(n, (IF rdPos <= dataPos THEN dataPos ELSE Size) - rdPos)
GetLen2(n) == IF rdPos <= dataPos THEN 0 ELSE Least(n - GetLen1(n), dataPos)
GetLen(n) == GetLen1(n) + GetLen2(n)

Get(n) ==
    /\ got' = [i \in 1 .. GetLen(n) |->
                 IF i <= GetLen1(n) THEN buf[rdPos + i - 1]
                 ELSE buf[i - GetLen1(n) - 1]]
    /\ rdPos' = Wrap(rdPos + GetLen(n))
    /\ UNCHANGED <<buf, dataPos>>

Next == \/ \E s \in Data : Put(s)
        \/ \E n \in 0 .. MaxLen : Get(n)

Spec == Init /\ [][Next]_vars
-----------------------------------------------------------------------------
(* Properties                                                              *)

PosOK == dataPos \in 0 .. Size - 1 /\ rdPos \in 0 .. Size - 1

\* No memcpy of a put or a get, whatever its length, leaves the buffer or the
\* caller's data, and no put wraps over the byte at rd_pos.
CopiesInBounds ==
    \A n \in 0 .. MaxLen :
        /\ dataPos + PutLen1(n) <= Size /\ PutLen(n) <= n
        /\ PutLen2(n) > 0 => PutLen2(n) < rdPos /\ dataPos + PutLen1(n) = Size
        /\ rdPos + GetLen1(n) <= Size /\ GetLen(n) <= n

\* The bytes between rd_pos and data_pos.
Used == IF rdPos <= dataPos THEN dataPos - rdPos ELSE Size - rdPos + dataPos
Contents == [i \in 1 .. Used |-> buf[Wrap(rdPos + i - 1)]]

\* A put that fits is stored whole: the next gets return that many bytes more.
FittingPutExact ==
    [][<<buf, dataPos>>' # <<buf, dataPos>> =>
        \A s \in Data : Put(s) /\ Len(s) <= Size - 1 - Used
                         => Used' = Used + Len(s)]_vars

\* The two positions and the two-part copies implement the queue of bytes.
Fifo == INSTANCE ByteFifo WITH fifo <- Contents, Cap <- Size - 1
ImplementsFifo == Fifo!Spec
=============================================================================
