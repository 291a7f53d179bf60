------------------------------- MODULE HubDrv -------------------------------
(***************************************************************************)
(* The driver of an external hub (usbh_hub_drv.c): the TRP that polls the  *)
(* status endpoint, the event it makes, and __hub_handle, which the hub    *)
(* thread runs while devices come and go and the application stops and     *)
(* starts the hub.                                                         *)
(*                                                                         *)
(* The hub itself keeps the change bits of a port until they are cleared   *)
(* and reports a port that has one.  The device in a port is a number that *)
(* grows with each plug; any request to the hub may fail.                  *)
(***************************************************************************)
EXTENDS Naturals, FiniteSets

CONSTANTS
    Ports,    \* 1 .. n_ports
    MaxPlug,  \* bound: devices plugged into one port
    ErrMax    \* err_cnt that power cycles the hub (10)

VARIABLES
    \* the hub
    plug,     \* the device in each port, or 0
    plugged,  \* how many devices a port has had
    chg,      \* the change bits of each port, of {"conn", "reset"}
    \* struct usbh_hub
    status,   \* hub_status
    trp,      \* [at, ok, data]: "idle", "busy" or "done", and what it brought
    err_cnt,
    evt,      \* the event is on the list of the hub thread
    p_ports,  \* the device object of each port, by the device it was made for
    \* where the tasks are
    thr,      \* the hub thread: [at, todo, port, sta, change, dev]
    stopping, \* usbh_hub_stop is between the cancel and the new status
    deaf,     \* the TRP was not submitted again after an error
    wiped     \* the ports whose connection change was cleared for another

hubVars == <<plug, plugged, chg, status, trp, err_cnt, evt, p_ports, thr, stopping,
             deaf, wiped>>

IdleThr == [at |-> "idle", todo |-> {}, port |-> 0, sta |-> FALSE, change |-> {}, dev |-> 0]

TypeOK ==
    /\ plug \in [Ports -> 0 .. MaxPlug] /\ plugged \in [Ports -> 0 .. MaxPlug]
    /\ chg \in [Ports -> SUBSET {"conn", "reset"}]
    /\ status \in {"HALTED", "RUNNING", "STOP"}
    /\ trp \in [at : {"idle", "busy", "done"}, ok : BOOLEAN, data : SUBSET Ports]
    /\ err_cnt \in 0 .. ErrMax /\ evt \in BOOLEAN
    /\ p_ports \in [Ports -> 0 .. MaxPlug]
    /\ thr \in [at : {"idle", "begin", "port", "conn", "disc", "connect", "enum", "reset"},
                todo : SUBSET Ports, port : Ports \cup {0}, sta : BOOLEAN,
                change : SUBSET {"conn", "reset"}, dev : 0 .. MaxPlug]
    /\ stopping \in BOOLEAN /\ deaf \in BOOLEAN /\ wiped \subseteq Ports

Init ==
    /\ plug = [p \in Ports |-> 0] /\ plugged = [p \in Ports |-> 0]
    /\ chg = [p \in Ports |-> {}] /\ status = "HALTED"
    /\ trp = [at |-> "idle", ok |-> TRUE, data |-> {}] /\ err_cnt = 0 /\ evt = FALSE
    /\ p_ports = [p \in Ports |-> 0] /\ thr = IdleThr
    /\ stopping = FALSE /\ deaf = FALSE /\ wiped = {}
-----------------------------------------------------------------------------
(* The hub and its status endpoint                                         *)

Plug(p) ==
    /\ plug[p] = 0 /\ plugged[p] < MaxPlug
    /\ plug' = [plug EXCEPT ![p] = plugged[p] + 1]
    /\ plugged' = [plugged EXCEPT ![p] = @ + 1]
    /\ chg' = [chg EXCEPT ![p] = @ \cup {"conn"}]
    /\ UNCHANGED <<status, trp, err_cnt, evt, p_ports, thr, stopping, deaf, wiped>>

Unplug(p) ==
    /\ plug[p] # 0 /\ plug' = [plug EXCEPT ![p] = 0]
    /\ chg' = [chg EXCEPT ![p] = @ \cup {"conn"}]
    /\ UNCHANGED <<plugged, status, trp, err_cnt, evt, p_ports, thr, stopping, deaf, wiped>>

\* __hub_intr_done: the TRP ends with the ports that have a change, or with an
\* error, and the event goes on the list.
IntrDone ==
    /\ trp.at = "busy"
    /\ \/ /\ \E p \in Ports : chg[p] # {}
          /\ trp' = [at |-> "done", ok |-> TRUE, data |-> {p \in Ports : chg[p] # {}}]
       \/ trp' = [at |-> "done", ok |-> FALSE, data |-> {}]
    /\ evt' = TRUE
    /\ UNCHANGED <<plug, plugged, chg, status, err_cnt, p_ports, thr, stopping, deaf, wiped>>
-----------------------------------------------------------------------------
(* __hub_handle                                                            *)

Goto(t) == thr' = t
Same == UNCHANGED <<plug, plugged, status, evt, stopping>>

HubEvt ==
    /\ evt /\ thr.at = "idle" /\ evt' = FALSE /\ Goto([IdleThr EXCEPT !.at = "begin"])
    /\ UNCHANGED <<plug, plugged, chg, status, trp, err_cnt, p_ports, stopping, deaf, wiped>>

Busy == [at |-> "busy", ok |-> TRUE, data |-> {}]
Idle == [at |-> "idle", ok |-> TRUE, data |-> {}]

ErrCnt == IF trp.ok THEN 0 ELSE IF err_cnt = ErrMax THEN ErrMax ELSE err_cnt + 1

\* Mutant of Resubmit: an error of the TRP ends the handler.
ResubmitOnOk ==
    /\ err_cnt' = ErrCnt
    /\ IF trp.ok THEN trp' = Busy /\ deaf' = FALSE /\ Goto([thr EXCEPT !.at = "port", !.todo = trp.data])
       ELSE trp' = Idle /\ Goto(IdleThr) /\ UNCHANGED deaf

\* The error count, the power cycle of a hub with too many of them, and the TRP
\* again: a power request or a submit that fails leaves it idle for good.
Resubmit ==
    /\ err_cnt' = ErrCnt
    /\ \/ /\ trp' = Busy /\ deaf' = FALSE
          /\ Goto([thr EXCEPT !.at = "port", !.todo = trp.data])
       \/ trp' = Idle /\ deaf' = TRUE /\ Goto(IdleThr)

HandleBegin ==
    /\ thr.at = "begin"
    /\ IF status = "RUNNING" THEN Resubmit
       ELSE /\ err_cnt' = ErrCnt
            /\ trp' = (IF trp.at = "done" THEN Idle ELSE trp) /\ Goto(IdleThr)
            /\ UNCHANGED deaf
    /\ Same /\ UNCHANGED <<chg, p_ports, wiped>>

\* The status of the next port that was reported, or its failure: go on.
PortStatus ==
    /\ thr.at = "port" /\ thr.todo # {}
    /\ \E p \in thr.todo :
        /\ \A q \in thr.todo : p <= q
        /\ \/ Goto([thr EXCEPT !.at = "conn", !.todo = @ \ {p}, !.port = p,
                               !.sta = plug[p] # 0, !.change = chg[p]])
           \/ Goto([thr EXCEPT !.todo = @ \ {p}])
    /\ Same /\ UNCHANGED <<chg, trp, err_cnt, p_ports, deaf, wiped>>

HandleEnd ==
    /\ thr.at = "port" /\ thr.todo = {} /\ Goto(IdleThr)
    /\ Same /\ UNCHANGED <<chg, trp, err_cnt, p_ports, deaf, wiped>>

Next1(at) == Goto([thr EXCEPT !.at = at])
\* A request of the handler fails: it returns, whatever ports are left.
Fails == Goto(IdleThr) /\ UNCHANGED <<chg, p_ports>>

\* Mutant of Connection: a port with a device again keeps the object it has.
ConnectionSameDev ==
    /\ thr.at = "conn"
    /\ \/ /\ "conn" \in thr.change \/ (p_ports[thr.port] # 0 /\ ~thr.sta)
          /\ chg' = [chg EXCEPT ![thr.port] = @ \ {"conn"}]
          /\ Next1(IF thr.sta /\ p_ports[thr.port] # 0 THEN "connect" ELSE "disc")
          /\ UNCHANGED p_ports
       \/ ~("conn" \in thr.change \/ (p_ports[thr.port] # 0 /\ ~thr.sta))
          /\ Next1("connect") /\ UNCHANGED <<chg, p_ports>>
    /\ Same /\ UNCHANGED <<trp, err_cnt, deaf, wiped>>

\* A change of the connection, or a device object without a device: the change
\* is cleared first, then the object goes.
Connection ==
    /\ thr.at = "conn"
    /\ IF "conn" \in thr.change \/ (p_ports[thr.port] # 0 /\ ~thr.sta)
       THEN \/ /\ chg' = [chg EXCEPT ![thr.port] = @ \ {"conn"}] /\ Next1("disc")
               /\ UNCHANGED p_ports
            \/ Fails
       ELSE Next1("connect") /\ UNCHANGED <<chg, p_ports>>
    /\ Same /\ UNCHANGED <<trp, err_cnt, deaf, wiped>>

\* usbh_basic_hub_dev_disconnect: the port is empty even if the ejection fails.
Disconnect ==
    /\ thr.at = "disc" /\ p_ports' = [p_ports EXCEPT ![thr.port] = 0]
    /\ Next1("connect") \/ (p_ports[thr.port] # 0 /\ Goto(IdleThr))
    /\ Same /\ UNCHANGED <<chg, trp, err_cnt, deaf, wiped>>

\* usbh_basic_hub_dev_connect resets the port for each try to enumerate.
Connect ==
    /\ thr.at = "connect"
    /\ IF thr.sta /\ p_ports[thr.port] = 0
       THEN /\ chg' = [chg EXCEPT ![thr.port] = @ \cup {"reset"}]
            /\ Goto([thr EXCEPT !.at = "enum", !.dev = plug[thr.port]])
       ELSE Next1("reset") /\ UNCHANGED chg
    /\ Same /\ UNCHANGED <<trp, err_cnt, p_ports, deaf, wiped>>

\* The end of __hub_port_reset and the enumeration of the device that was reset.
\* If it fails while the port is connected, to whatever device, the object goes
\* on the port all the same; if the port cannot be asked, it is tried again.
\* An object that __dev_inject refuses is destroyed, and still on the port.
Enumerate ==
    /\ thr.at = "enum"
    /\ \/ /\ plug[thr.port] # 0
          /\ p_ports' = [p_ports EXCEPT ![thr.port] =
                            IF thr.dev = 0 THEN plug[thr.port] ELSE thr.dev]
          /\ chg' \in {chg, [chg EXCEPT ![thr.port] = @ \ {"reset"}]}
          /\ Next1("reset") \/ Goto(IdleThr)
       \/ Next1("connect") /\ UNCHANGED <<chg, p_ports>>
       \/ Fails
    /\ Same /\ UNCHANGED <<trp, err_cnt, deaf, wiped>>

\* What the handler clears for a change of the reset: it passes the status bit
\* 0x10 as the feature, which is the number of C_PORT_CONNECTION.
ResetFeature == "conn"

ResetChange ==
    /\ thr.at = "reset"
    /\ IF "reset" \in thr.change
       THEN \/ /\ chg' = [chg EXCEPT ![thr.port] = @ \ {ResetFeature}] /\ Next1("port")
               /\ wiped' = IF ResetFeature \in chg[thr.port] \ {"reset"}
                           THEN wiped \cup {thr.port} ELSE wiped
               /\ UNCHANGED p_ports
            \/ Fails /\ UNCHANGED wiped
       ELSE Next1("port") /\ UNCHANGED <<chg, p_ports, wiped>>
    /\ Same /\ UNCHANGED <<trp, err_cnt, deaf>>
-----------------------------------------------------------------------------
(* usbh_hub_start and usbh_hub_stop                                        *)

\* The TRP is set up anew and submitted, whatever the last stop left of it.
Start ==
    /\ status # "RUNNING" /\ ~stopping /\ trp' = Busy /\ status' = "RUNNING" /\ deaf' = FALSE
    /\ UNCHANGED <<plug, plugged, chg, err_cnt, evt, p_ports, thr, stopping, wiped>>

\* The cancel completes the TRP, which makes an event, and then the status.
StopCancel ==
    /\ status = "RUNNING" /\ ~stopping /\ trp.at = "busy" /\ stopping' = TRUE
    /\ trp' = [at |-> "done", ok |-> FALSE, data |-> {}] /\ evt' = TRUE
    /\ UNCHANGED <<plug, plugged, chg, status, err_cnt, p_ports, thr, deaf, wiped>>

StopDone ==
    /\ stopping /\ stopping' = FALSE /\ status' = "STOP"
    /\ UNCHANGED <<plug, plugged, chg, trp, err_cnt, evt, p_ports, thr, deaf, wiped>>

Next ==
    \/ \E p \in Ports : Plug(p) \/ Unplug(p)
    \/ IntrDone \/ HubEvt \/ HandleBegin \/ PortStatus \/ HandleEnd
    \/ Connection \/ Disconnect \/ Connect \/ Enumerate \/ ResetChange
    \/ Start \/ StopCancel \/ StopDone

Spec == Init /\ [][Next]_hubVars
-----------------------------------------------------------------------------
(* Properties                                                              *)

\* A running hub is being polled, or the end of its TRP is on the way to the
\* handler: only a submit or a power request that fails makes it deaf, no
\* error of the status endpoint, of a port, or of a stop that came between.
Polled ==
    status = "RUNNING" /\ ~deaf => trp.at = "busy" \/ evt \/ thr.at = "begin"

\* A port with no change to report, that the handler is done with, has the
\* object of the device that is in it or of none, however devices came and went
\* while it was handled: unless the clear meant for the reset took the change.
NoStaleDev ==
    \A p \in Ports :
        (thr.at = "idle" \/ thr.port # p) /\ "conn" \notin chg[p] /\ p \notin wiped
            => p_ports[p] \in {0, plug[p]}
=============================================================================
