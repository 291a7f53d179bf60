------------------------------ MODULE VsPort ------------------------------
(***************************************************************************)
(* A port of the virtual serial device (usbd_cdc_virtual_serial.c) once it *)
(* is made: the host sets and leaves the interface, the application starts *)
(* the port and reads, and the one transfer of the port submits itself     *)
(* again when it completes.                                                *)
(*                                                                         *)
(* Bytes are numbered as the host sends them.  The controller driver is    *)
(* not part of the repository: it takes a transfer only for an enabled     *)
(* endpoint, and completes what it has when the endpoint is disabled.      *)
(***************************************************************************)
EXTENDS Naturals, Sequences

CONSTANTS
    RbSize,     \* USBD_VS_RB_SIZE
    MaxByte,    \* bound on the bytes the host sends
    Chunk       \* most bytes of a transfer

VARIABLES
    isSetup,    \* p_port->is_setup
    piped,      \* p_data_out has been found
    enabled,    \* the endpoint is enabled
    isStart,    \* p_port->is_start
    hw,         \* how many times the driver has p_port->trans
    buf,        \* p_port->trans.p_buf as far as act_len
    rb,         \* p_port->p_rb
    sent,       \* bytes the host has sent
    got,        \* the last byte port_read has returned
    leaked,     \* a buffer of a start that failed
    fault       \* a null pointer has been followed

vsVars == <<isSetup, piped, enabled, isStart, hw, buf, rb, sent, got, leaked, fault>>

Init ==
    /\ isSetup = FALSE /\ piped = FALSE /\ enabled = FALSE /\ isStart = FALSE
    /\ hw = 0 /\ buf = <<>> /\ rb = <<>> /\ sent = 0 /\ got = 0
    /\ leaked = FALSE /\ fault = FALSE
-----------------------------------------------------------------------------
\* __cdc_vs_data_func_set: the host sets the interface.
DataFuncSet ==
    /\ ~fault /\ ~isSetup
    /\ isSetup' = TRUE /\ piped' = TRUE /\ enabled' = TRUE
    /\ UNCHANGED <<isStart, hw, buf, rb, sent, got, leaked, fault>>

\* usb_lib_rb_put takes what fits.
Put(bytes) == rb \o SubSeq(bytes, 1, IF Len(bytes) <= RbSize - Len(rb) THEN Len(bytes)
                                     ELSE RbSize - Len(rb))

\* Mutant of TransDone: what an earlier transfer has left is put as well.
TransDoneOld(bytes, open) ==
    /\ buf' = buf \o bytes
    /\ rb' = Put(buf \o bytes)
    /\ hw' = IF open THEN hw ELSE hw - 1

\* __vs_trans_done: whatever the status, act_len bytes are put and the transfer
\* is submitted again; the driver refuses it when the endpoint is not open.
TransDone(bytes, open) ==
    /\ buf' = bytes
    /\ rb' = Put(bytes)
    /\ hw' = IF open THEN hw ELSE hw - 1

Bytes(n) == [i \in 1 .. n |-> sent + i]

\* The host sends up to a transfer of bytes.
HostSends(n, open) ==
    /\ ~fault /\ enabled /\ hw > 0 /\ sent + n <= MaxByte
    /\ sent' = sent + n /\ TransDone(Bytes(n), open)
    /\ UNCHANGED <<isSetup, piped, enabled, isStart, got, leaked, fault>>

\* __cdc_vs_shutdown: the pipes are not forgotten; the endpoint is disabled and
\* its transfer completes with the bytes that came before.
Shutdown(n) ==
    /\ ~fault /\ isSetup /\ sent + n <= MaxByte
    /\ isSetup' = FALSE /\ enabled' = FALSE
    /\ IF hw > 0 THEN sent' = sent + n /\ TransDone(Bytes(n), FALSE)
                 ELSE n = 0 /\ UNCHANGED <<sent, hw, buf, rb>>
    /\ UNCHANGED <<piped, isStart, got, leaked, fault>>

\* Mutant of PortStart: a port may be started again.
PortStartAgain ==
    /\ ~fault
    /\ IF ~piped THEN fault' = TRUE /\ UNCHANGED <<isStart, hw, leaked>>
       ELSE \/ enabled /\ hw' = hw + 1 /\ isStart' = TRUE /\ UNCHANGED <<leaked, fault>>
            \/ leaked' = TRUE /\ UNCHANGED <<isStart, hw, fault>>
    /\ UNCHANGED <<isSetup, piped, enabled, buf, rb, sent, got>>

\* usbd_cdc_vs_port_start: the pipe is followed whether or not it was found,
\* and a start that the controller refuses loses its buffer.
PortStart ==
    /\ ~fault /\ ~isStart
    /\ IF ~piped THEN fault' = TRUE /\ UNCHANGED <<isStart, hw, leaked>>
       ELSE \/ enabled /\ hw' = hw + 1 /\ isStart' = TRUE /\ UNCHANGED <<leaked, fault>>
            \/ leaked' = TRUE /\ UNCHANGED <<isStart, hw, fault>>
    /\ UNCHANGED <<isSetup, piped, enabled, buf, rb, sent, got>>

\* usbd_cdc_vs_port_read of one byte.
PortRead ==
    /\ ~fault /\ rb # <<>>
    /\ got' = Head(rb) /\ rb' = Tail(rb)
    /\ UNCHANGED <<isSetup, piped, enabled, isStart, hw, buf, sent, leaked, fault>>

Next ==
    \/ DataFuncSet \/ PortStart \/ PortRead
    \/ \E n \in 0 .. Chunk : Shutdown(n) \/ \E open \in BOOLEAN : HostSends(n, open)

Spec == Init /\ [][Next]_vsVars
-----------------------------------------------------------------------------
(* Properties                                                              *)

TypeOK ==
    /\ hw \in 0 .. 2 /\ sent \in 0 .. MaxByte /\ got \in 0 .. MaxByte
    /\ Len(rb) <= RbSize

\* What the application reads comes in the order in which the host sent it and
\* no byte twice, over disconnections and full rings, and the transfer of a
\* port is with the controller once at most, though it is submitted from its
\* own completion and by usbd_cdc_vs_port_start (usbd_cdc_virtual_serial.c:260).
ReadOnce ==
    /\ hw <= 1
    /\ \A i \in 1 .. Len(rb) : rb[i] > (IF i = 1 THEN got ELSE rb[i - 1])
=============================================================================
