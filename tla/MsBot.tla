------------------------------- MODULE MsBot -------------------------------
(***************************************************************************)
(* Mass storage by bulk-only transport, both ends: __ms_bulk_transport of  *)
(* the host (usbh_ms_drv.c) and usbd_ms_scsi_bbb_process of the device     *)
(* (usbd_ms_scsi_bbb.c), which the application calls in a loop.            *)
(*                                                                         *)
(* The bus moves one piece at a time: a transfer of the host meets the one *)
(* the device waits in.  Either side may give up first, the device with    *)
(* usbd_dev_trans_sync's cancel.  The bulk-only reset changes nothing in   *)
(* the device: its handler of the request answers and no more.             *)
(***************************************************************************)
EXTENDS Naturals, Sequences

CONSTANTS
    Chunks,   \* buffers in the data stage of a READ or a WRITE
    MaxTag    \* bound: commands

Retry == 3    \* of each stage of the host
Ops == {"none", "in", "inq", "out", "unk"}
None == [k |-> "none", tag |-> 0, i |-> 0]

VARIABLES
    host,     \* [pc, tag, op, try, got, sent, csw]
    dev,      \* [pc, tag, op, i, sta]
    offer,    \* the IN transfer the device waits in, or None
    halted,   \* the endpoints that answer STALL, of {"IN", "OUT"}
    store     \* the chunks the device has put on its medium, for this command

botVars == <<host, dev, offer, halted, store>>

Pieces == [k : {"data", "csw"}, tag : 0 .. MaxTag, i : 0 .. Chunks]
          \cup [k : {"zlp"}, tag : {0}, i : {0}]
Data(t, i) == [k |-> "data", tag |-> t, i |-> i]
Csw(t, sta) == [k |-> "csw", tag |-> t, i |-> sta]
Zlp == [k |-> "zlp", tag |-> 0, i |-> 0]
Bad == 0      \* the index of a chunk that was never read from the medium
Whole(t) == [i \in 1 .. Chunks |-> Data(t, i)]

TypeOK ==
    /\ host \in [pc : {"idle", "cbw", "data", "dcsw", "csw", "done", "fail"},
                 tag : 0 .. MaxTag, op : Ops, try : 0 .. Retry,
                 got : UNION {[1 .. n -> Pieces] : n \in 0 .. Chunks},
                 sent : 0 .. Chunks, csw : 0 .. MaxTag]
    /\ dev \in [pc : {"get", "in", "out", "rest", "unstall", "csw"},
                tag : 0 .. MaxTag, op : Ops, i : 0 .. Chunks, sta : 0 .. 1]
    /\ offer \in Pieces \cup {None} /\ halted \subseteq {"IN", "OUT"}
    /\ store \in Seq(Pieces)

Init ==
    /\ host = [pc |-> "idle", tag |-> 0, op |-> "none", try |-> 0, got |-> <<>>,
               sent |-> 0, csw |-> 0]
    /\ dev = [pc |-> "get", tag |-> 0, op |-> "none", i |-> 0, sta |-> 0]
    /\ offer = None /\ halted = {} /\ store = <<>>

IsIn(op) == op \in {"in", "inq"}
Need(op) == IF op = "inq" THEN 1 ELSE Chunks
HostReads == host.pc \in {"dcsw", "csw"} \/ (host.pc = "data" /\ IsIn(host.op))
HostWrites == host.pc = "cbw" \/ (host.pc = "data" /\ ~IsIn(host.op))
To(h, pc) == [h EXCEPT !.pc = pc, !.try = Retry, !.got = IF pc = "data" THEN <<>> ELSE @,
                       !.sent = 0]
-----------------------------------------------------------------------------
(* The device                                                              *)

\* The command ends without a status: an error, a transfer that fails.
Dropped == [dev EXCEPT !.pc = "get"]

\* The handler of a command up to its first transfer.  A logical unit that is
\* not there, or a WRITE that is refused, drops the command.
Start(t, op) ==
    \/ dev' = [dev EXCEPT !.tag = t, !.op = op, !.i = 1,
                          !.sta = IF op = "unk" THEN 1 ELSE 0,
                          !.pc = CASE op = "none" -> "csw" [] op = "in" -> "in"
                                   [] op = "out" -> "out" [] OTHER -> "rest"]
    \/ dev' = [dev EXCEPT !.tag = t, !.op = op]

\* A write of the device: refused when the endpoint is halted.
Offer(piece) ==
    IF "IN" \in halted THEN dev' = Dropped /\ UNCHANGED offer
    ELSE offer' = piece /\ UNCHANGED dev

\* Mutant of ReadChunk: the error of the medium is not looked at.
ReadChunkBlind ==
    /\ dev.pc = "in" /\ offer = None
    /\ \E i \in {dev.i, Bad} : Offer(Data(dev.tag, i))
    /\ UNCHANGED <<host, halted, store>>

\* __read: the next chunk, or an error of the medium.
ReadChunk ==
    /\ dev.pc = "in" /\ offer = None
    /\ \/ Offer(Data(dev.tag, dev.i))
       \/ dev' = [dev EXCEPT !.pc = "rest", !.sta = 1] /\ UNCHANGED offer
    /\ UNCHANGED <<host, halted, store>>

\* The end of __ms_scsi_bbb_cmd_exec with dlen left: what the handler made, or
\* nothing, goes to the host; data of the host is refused with a STALL.
Rest ==
    /\ dev.pc = "rest" /\ offer = None
    /\ IF IsIn(dev.op)
       THEN /\ Offer(IF dev.op = "inq" THEN Data(dev.tag, 1) ELSE Zlp)
            /\ UNCHANGED halted
       ELSE /\ dev' = [dev EXCEPT !.pc = "unstall"] /\ halted' = halted \cup {"OUT"}
            /\ UNCHANGED offer
    /\ UNCHANGED <<host, store>>

\* 10 ms later.
Unstall ==
    /\ dev.pc = "unstall" /\ dev' = [dev EXCEPT !.pc = "csw"]
    /\ halted' = halted \ {"OUT"} /\ UNCHANGED <<host, offer, store>>

\* __ms_scsi_bbb_cmd_sta
Status ==
    /\ dev.pc = "csw" /\ offer = None
    /\ Offer(Csw(dev.tag, dev.sta)) /\ UNCHANGED <<host, halted, store>>

\* Mutant of DevTimeout: the transfer stays with the driver.
DevTimeoutNoCancel ==
    /\ offer # None \/ dev.pc = "out"
    /\ dev' = Dropped /\ UNCHANGED <<host, offer, halted, store>>

DevTimeout ==
    /\ offer # None \/ dev.pc = "out"
    /\ offer' = None /\ dev' = Dropped /\ UNCHANGED <<host, halted, store>>

\* What the device does when its IN transfer is done.
Offered ==
    CASE offer.k = "csw" -> Dropped
      [] dev.pc = "in" /\ dev.i < Chunks -> [dev EXCEPT !.i = @ + 1]
      [] OTHER -> [dev EXCEPT !.pc = "csw"]
-----------------------------------------------------------------------------
(* The host                                                                *)

\* usbh_ms_transport with the lock of the device: the next tag.
Command(op) ==
    /\ host.pc \in {"idle", "done", "fail"} /\ host.tag < MaxTag
    /\ host' = [To(host, "cbw") EXCEPT !.tag = @ + 1, !.op = op, !.csw = 0, !.got = <<>>]
    /\ UNCHANGED <<dev, offer, halted, store>>

AfterCbw == To(host, IF host.op = "none" THEN "csw" ELSE "data")

\* The CBW reaches the device, which waits for one or, after a command the host
\* gave up, for the data of a WRITE: that read is then short and drops it.
SendCbw ==
    /\ host.pc = "cbw" /\ "OUT" \notin halted /\ dev.pc \in {"get", "out"}
    /\ host' = AfterCbw
    /\ IF dev.pc = "get" THEN Start(host.tag, host.op) ELSE dev' = Dropped
    /\ store' = <<>> /\ UNCHANGED <<offer, halted>>

\* A chunk of host data: one the device writes to its medium, which may fail,
\* or one it takes for a CBW and answers with a halted IN endpoint.
SendData ==
    /\ host.pc = "data" /\ ~IsIn(host.op) /\ "OUT" \notin halted
    /\ dev.pc \in {"get", "out"}
    /\ host' = IF host.sent + 1 = Chunks THEN To(host, "csw")
               ELSE [host EXCEPT !.sent = @ + 1]
    /\ \/ /\ dev.pc = "get" /\ halted' = halted \cup {"IN"} /\ UNCHANGED <<dev, store>>
       \/ /\ dev.pc = "out" /\ store' = Append(store, Data(host.tag, host.sent + 1))
          /\ dev' = IF dev.i = Chunks THEN [dev EXCEPT !.pc = "csw"]
                    ELSE [dev EXCEPT !.i = @ + 1]
          /\ UNCHANGED halted
       \/ /\ dev.pc = "out" /\ dev' = Dropped /\ UNCHANGED <<halted, store>>
    /\ UNCHANGED offer

\* A stage fails: it is tried again, or the command ends.
Again(h, end) == IF h.try > 1 THEN [To(h, h.pc) EXCEPT !.try = h.try - 1] ELSE To(h, end)

\* A piece of the device reaches the host.  A data stage ends at its length or
\* with a short piece; a status of another length is read again; the tag of the
\* status is not compared with that of the command.
Receive ==
    /\ HostReads /\ offer # None /\ "IN" \notin halted
    /\ host' = CASE host.pc = "dcsw" -> To(host, "fail")
                 [] host.pc = "data" ->
                      IF offer.k = "data" /\ Len(host.got) + 1 < Need(host.op)
                      THEN [host EXCEPT !.got = Append(@, offer)]
                      ELSE [To(host, "csw") EXCEPT !.got = Append(host.got, offer)]
                 [] OTHER -> IF offer.k = "csw"
                             THEN [host EXCEPT !.pc = "done", !.csw = offer.tag]
                             ELSE Again(host, "fail")
    /\ offer' = None /\ dev' = Offered /\ UNCHANGED <<halted, store>>

\* -USB_EPIPE or -USB_ETIME.  The CBW and the data stage clear the halt of the
\* OUT endpoint, the status stage that of IN; the last try of a data stage that
\* was refused goes on to read a status nobody looks at.
HostFails(why) ==
    /\ HostReads \/ HostWrites
    /\ why = "EPIPE" => (IF HostReads THEN "IN" ELSE "OUT") \in halted
    /\ host' = CASE host.pc = "dcsw" -> To(host, "fail")
                 [] host.pc = "data" /\ why = "EPIPE" -> Again(host, "dcsw")
                 [] OTHER -> Again(host, "fail")
    /\ halted' = CASE host.pc = "dcsw" -> halted
                   [] host.pc = "csw" -> halted \ {"IN"}
                   [] OTHER -> halted \ {"OUT"}
    /\ UNCHANGED <<dev, offer, store>>

Next ==
    \/ \E op \in Ops : Command(op)
    \/ SendCbw \/ SendData \/ Receive
    \/ \E why \in {"EPIPE", "ETIME"} : HostFails(why)
    \/ ReadChunk \/ Rest \/ Unstall \/ Status \/ DevTimeout

Spec == Init /\ [][Next]_botVars
-----------------------------------------------------------------------------
(* Properties                                                              *)

\* Host and device stay in step without the host ever comparing the tag of a
\* status (usbh_ms_drv.c:576 compares it with itself): a command that succeeds
\* was given its own status, whatever was cut short before it.
InStep == host.pc = "done" => host.csw = host.tag

\* A READ that returns the full length gave the chunks of its own command in
\* their order, and a WRITE that succeeds stored its own, whatever transfers
\* were given up and started again from their first chunk.
DataWhole ==
    host.pc = "done" =>
        /\ host.op = "in" /\ Len(host.got) = Chunks /\ host.got[Chunks].k = "data"
             => host.got = Whole(host.tag)
        /\ host.op = "out" => store = Whole(host.tag)
=============================================================================
