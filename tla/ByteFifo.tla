------------------------------ MODULE ByteFifo ------------------------------
(***************************************************************************)
(* What the ring buffer of usb_lib.c gives its two users: a bounded queue  *)
(* of bytes.  Put stores as much of the data as there is room for and Get  *)
(* takes bytes from the front.  A put of more than there is room for may   *)
(* instead empty the queue (Overrun): usb_lib_rb_put does that when the    *)
(* stored bytes wrap around the end of its buffer.                         *)
(***************************************************************************)
EXTENDS Naturals, Sequences

CONSTANTS Byte, Cap, MaxLen

VARIABLES fifo,  \* the bytes stored, oldest first
          got    \* what the last get returned

Room == Cap - Len(fifo)
Data == UNION {[1 .. n -> Byte] : n \in 0 .. MaxLen}

Init == fifo = <<>> /\ got = <<>>

Put(s) ==
    /\ fifo' = fifo \o (IF Len(s) <= Room THEN s ELSE SubSeq(s, 1, Room))
    /\ UNCHANGED got

Overrun(s) == Len(s) > Room /\ fifo' = <<>> /\ UNCHANGED got

Get(n) ==
    LET k == IF n <= Len(fifo) THEN n ELSE Len(fifo) IN
    /\ got' = SubSeq(fifo, 1, k)
    /\ fifo' = SubSeq(fifo, k + 1, Len(fifo))

Next == \/ \E s \in Data : Put(s) \/ Overrun(s)
        \/ \E n \in 0 .. MaxLen : Get(n)

Spec == Init /\ [][Next]_<<fifo, got>>
=============================================================================
