------------------------------ MODULE DevCtrl ------------------------------
(***************************************************************************)
(* The control endpoint of the device stack and the configuration state    *)
(* behind it: usb_dc_setup_handle and the standard, class and vendor       *)
(* requests, the two requests of endpoint 0 and their completion, bus      *)
(* reset, disconnection (usbd_core.c, usbd_dev.c).                         *)
(*                                                                         *)
(* The controller driver is not part of the repository.  As the code needs *)
(* it: it completes every request it has accepted, with an error when the  *)
(* host abandons the transfer (a new SETUP) or the endpoint is reset.      *)
(* Every function is one interface with one endpoint, named alike.         *)
(***************************************************************************)
EXTENDS Naturals, Sequences, FiniteSets, Functions

CONSTANTS
    FuncsOf,   \* FuncsOf[c]: the functions of configuration c, in order
    Failing,   \* the functions whose p_fn_alt_set or endpoint may fail
    None

Cfgs == DOMAIN FuncsOf
Funcs == UNION {Range(FuncsOf[c]) : c \in Cfgs}
Dirs == {"in", "out"}
Other(d) == IF d = "in" THEN "out" ELSE "in"

VARIABLES
    run,        \* p_dc->is_run
    attached,   \* FALSE from usb_dc_disconnect_handle to the next bus reset
    status,     \* p_usbd_dev->status
    curCfg,     \* p_usbd_dev->p_cur_cfg
    enabled,    \* the functions whose endpoint has is_enable
    active,     \* the functions set up by p_fn_alt_set and not shut down
    stalled,    \* the endpoints with is_stalled
    ep0         \* need_sta and, per direction, the request and its callback

vars == <<run, attached, status, curCfg, enabled, active, stalled, ep0>>

(* ep0.busy: the requests with status -USB_EINPROGRESS, which the driver   *)
(* has; ep0.data: those whose req.len is not 0; ep0.cb: those of which a    *)
(* callback is registered.                                                 *)
Ep0s == [busy : SUBSET Dirs, data : SUBSET Dirs, cb : SUBSET Dirs, needSta : BOOLEAN]

TypeOK ==
    /\ run \in BOOLEAN /\ attached \in BOOLEAN
    /\ status \in {"NOTATTACHED", "ADDRESS", "CONFIGURED"}
    /\ curCfg \in Cfgs \cup {None}
    /\ enabled \subseteq Funcs /\ active \subseteq Funcs
    /\ stalled \subseteq Funcs \cup Dirs
    /\ ep0 \in Ep0s

Init ==
    /\ run = FALSE /\ attached = FALSE
    /\ status = "NOTATTACHED" /\ curCfg = None
    /\ enabled = {} /\ active = {} /\ stalled = {}
    /\ ep0 = [busy |-> {}, data |-> {}, cb |-> {}, needSta |-> FALSE]
-----------------------------------------------------------------------------
(* The two requests of endpoint 0                                          *)

\* usb_dc_trans_req: busy is -USB_EBUSY, stalled is -USB_EAGAIN.
TransReq(s, d) ==
    IF d \in s.busy \cup stalled THEN s ELSE [s EXCEPT !.busy = @ \cup {d}]

\* usb_dc_trans_complete of a request of endpoint 0, then __ep0_ctrl_complete,
\* which does not look at the status.
Complete(s, d) ==
    LET t == [s EXCEPT !.busy = @ \ {d}]
    IN IF t.needSta
       THEN TransReq([t EXCEPT !.needSta = FALSE, !.data = {}], Other(d))
       ELSE IF d \notin t.data THEN [t EXCEPT !.cb = @ \ {d}]
       ELSE t

Abort(s, d) == IF d \in s.busy THEN Complete(s, d) ELSE s

\* The driver gives up what a new SETUP abandons, until it holds nothing: a
\* completion may queue the status stage of the abandoned transfer.
Flush(s) == Abort(Abort(Abort(s, "out"), "in"), "out")
-----------------------------------------------------------------------------
(* Requests: what their handlers do to the endpoint and to the device      *)

\* usb_dc_setup_handle after its handler returned USB_OK: `d' is p_ep0, `len'
\* whether the SETUP has a data stage, `data' whether the handler set req.len.
Answer(s, d, len, data) ==
    TransReq([s EXCEPT !.needSta = len,
                       !.data = IF data THEN @ \cup {d} ELSE @ \ {d}], d)

\* usb_dc_ep0_req registers the callback at the endpoint of the status stage.
Register(s, d) == [s EXCEPT !.cb = @ \cup {Other(d)}]

Reply(s) == ep0' = s
Device == <<status, curCfg, enabled, active, stalled>>

\* Mutant of Refuse: need_sta is set before the handler is called.
RefuseOwing(d) ==
    /\ Reply([Flush(ep0) EXCEPT !.data = @ \ {d}, !.needSta = TRUE])
    /\ UNCHANGED Device

\* A request that is refused, whether it stalls endpoint 0 or not: nothing is
\* queued, and p_ep0's length is already 0.
Refuse(d) ==
    /\ Reply([Flush(ep0) EXCEPT !.data = @ \ {d}])
    /\ UNCHANGED Device

\* Descriptors, GET_STATUS, GET_CONFIGURATION, GET_INTERFACE, vendor reads.
GetRequest ==
    \/ Reply(Answer(Flush(ep0), "in", TRUE, TRUE)) /\ UNCHANGED Device
    \/ Refuse("in")

SetAddress ==
    /\ status' = "ADDRESS"
    /\ Reply(Answer(Flush(ep0), "in", FALSE, FALSE))
    /\ UNCHANGED <<curCfg, enabled, active, stalled>>

\* __dev_func_enable of the first n functions of c.
Enabled(c, n) == {FuncsOf[c][i] : i \in 1 .. n}

\* __setup_cfg_set: the functions are enabled in order, and a failure leaves
\* those before it enabled, p_cur_cfg changed and the status as it was.
SetConfig(c) ==
    /\ curCfg' = c
    /\ \E n \in 0 .. Len(FuncsOf[c]) :
        LET fails == n < Len(FuncsOf[c])
        IN /\ fails => FuncsOf[c][n + 1] \in Failing
           /\ enabled' = enabled \cup Enabled(c, n)
           /\ active' = active \cup Enabled(c, n)
           /\ status' = IF fails THEN status ELSE "CONFIGURED"
           /\ IF fails THEN Reply([Flush(ep0) EXCEPT !.data = @ \ {"in"}])
              ELSE Reply(Answer(Flush(ep0), "in", FALSE, FALSE))
    /\ UNCHANGED stalled

\* SET_INTERFACE calls p_fn_alt_set of a function of a configured device.
SetInterface ==
    /\ status = "CONFIGURED"
    /\ \E f \in Range(FuncsOf[curCfg]) : active' = active \cup {f}
    /\ Reply(Answer(Flush(ep0), "in", FALSE, FALSE))
    /\ UNCHANGED <<status, curCfg, enabled, stalled>>

\* SET_FEATURE and CLEAR_FEATURE of ENDPOINT_HALT; clearing endpoint 0 does
\* not reach is_stalled.
SetHalt(e) ==
    /\ stalled' = stalled \cup {e}
    /\ LET s == Flush(ep0)
       IN Reply(IF e = "in" THEN [s EXCEPT !.needSta = FALSE, !.data = @ \ {e}]
                ELSE Answer(s, "in", FALSE, FALSE))
    /\ UNCHANGED <<status, curCfg, enabled, active>>

ClearHalt(e) ==
    /\ stalled' = IF e \in Dirs THEN stalled ELSE stalled \ {e}
    /\ Reply(Answer(Flush(ep0), "in", FALSE, FALSE))
    /\ UNCHANGED <<status, curCfg, enabled, active>>

\* Class requests go to p_fn_setup of the function of the current
\* configuration, which may ask for a data stage with a callback, for one
\* without, for none, or refuse.
ClassRequest ==
    /\ curCfg # None
    /\ \/ \E d \in Dirs :
            \/ Reply(Answer(Register(Flush(ep0), d), d, TRUE, TRUE))
            \/ Reply(Answer(Flush(ep0), d, TRUE, d = "in"))
            \/ Reply([Flush(ep0) EXCEPT !.data = @ \ {d}])
       \/ Reply(Answer(Flush(ep0), "in", FALSE, FALSE))
    /\ UNCHANGED Device

\* The host sends a SETUP packet, when it likes.
Setup ==
    /\ run /\ attached
    /\ \/ GetRequest \/ Refuse("out") \/ SetAddress \/ SetInterface \/ ClassRequest
       \/ \E c \in Cfgs : SetConfig(c)
       \/ \E e \in Funcs \cup Dirs : SetHalt(e) \/ ClearHalt(e)
    /\ UNCHANGED <<run, attached>>
-----------------------------------------------------------------------------
\* The host carries out the stage whose request is queued.
StageDone ==
    /\ \E d \in ep0.busy : ep0' = Complete(ep0, d)
    /\ UNCHANGED <<run, attached, Device>>

\* usbd_dev_disconnect_handle: every function of the configuration is shut
\* down and its endpoint disabled.
ShutDown ==
    /\ enabled' = enabled \ Range(FuncsOf[curCfg])
    /\ active' = active \ Range(FuncsOf[curCfg])

\* __dc_ep_reset of both directions.
EpReset(s) == Abort(Abort(s, "in"), "out")

\* Mutant of BusReset: the status stays CONFIGURED.
BusResetKeepStatus ==
    /\ run
    /\ ep0' = EpReset([ep0 EXCEPT !.needSta = FALSE])
    /\ IF status = "CONFIGURED" THEN ShutDown ELSE UNCHANGED <<enabled, active>>
    /\ attached' = TRUE
    /\ UNCHANGED <<run, status, curCfg, stalled>>

\* Mutant of BusReset: need_sta is cleared after the endpoints are reset.
BusResetLateClear ==
    /\ run
    /\ ep0' = [EpReset(ep0) EXCEPT !.needSta = FALSE]
    /\ IF status = "CONFIGURED" THEN ShutDown ELSE UNCHANGED <<enabled, active>>
    /\ status' = "NOTATTACHED" /\ attached' = TRUE
    /\ UNCHANGED <<run, curCfg, stalled>>

\* usb_dc_bus_reset_handle.  need_sta is cleared before the endpoints are
\* reset, so that the requests they give up queue no status stage.
BusReset ==
    /\ run
    /\ ep0' = EpReset([ep0 EXCEPT !.needSta = FALSE])
    /\ IF status = "CONFIGURED" THEN ShutDown ELSE UNCHANGED <<enabled, active>>
    /\ status' = "NOTATTACHED" /\ attached' = TRUE
    /\ UNCHANGED <<run, curCfg, stalled>>

\* usb_dc_disconnect_handle, from the driver: the status stays.
Disconnect ==
    /\ run /\ attached
    /\ IF curCfg = None THEN UNCHANGED <<enabled, active>> ELSE ShutDown
    /\ attached' = FALSE
    /\ UNCHANGED <<run, status, curCfg, stalled, ep0>>

\* usb_dc_start; nothing stops a controller again (usb_dc_stop is empty).
Start ==
    /\ ~run /\ run' = TRUE /\ attached' = TRUE
    /\ UNCHANGED <<Device, ep0>>

Next == Start \/ Setup \/ StageDone \/ BusReset \/ Disconnect

Spec == Init /\ [][Next]_vars
-----------------------------------------------------------------------------
(* Properties                                                              *)

\* A status stage is only owed while the data stage before it is queued, and
\* the two requests of endpoint 0 are never queued at once: an answer always
\* belongs to the transfer the host is in (usbd_core.c:428, :814).
OneStage ==
    /\ Cardinality(ep0.busy) <= 1
    /\ ep0.needSta => ep0.busy # {} \/ stalled \cap Dirs # {}

\* After a bus reset endpoint 0 is idle, whatever it was doing: a request left
\* queued would make every later control transfer -USB_EBUSY.
ResetClean == [][BusReset => ep0'.busy = {}]_vars

\* While no function fails: a device that says it is configured has every
\* function of the current configuration set up and its endpoint enabled,
\* across resets, disconnections and changes of configuration.
ConfiguredReady ==
    attached /\ status = "CONFIGURED"
        => curCfg # None /\ Range(FuncsOf[curCfg]) \subseteq enabled \cap active
=============================================================================
