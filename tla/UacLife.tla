------------------------------ MODULE UacLife ------------------------------
(***************************************************************************)
(* The calls on a playback substream of the host audio class, in any order *)
(* a user may make them, and the TRPs of its endpoints, whose callbacks    *)
(* submit them again (usbh_uac_operation.c, uac_pcm.c, uac_endpoint.c).    *)
(*                                                                         *)
(* Each alternate setting has an endpoint of its own (usbh_uac_add_-       *)
(* endpoint), so a format stands for both.  Closing only takes back the    *)
(* reference of opening: nothing is stopped or freed, and the next open    *)
(* starts with a new runtime.  Stopping keeps the state and leaves the     *)
(* endpoint's RUNNING flag, so its TRPs go on with silence.                *)
(***************************************************************************)
EXTENDS Integers, FiniteSets

CONSTANTS
    Formats,     \* formats of the substream
    Trps,        \* TRPs of an endpoint
    MaxMade,     \* bound: times TRPs are made
    None         \* no format

VARIABLES
    open,        \* substream->refcnt is 2
    state,       \* runtime->status.state
    locked,      \* the mutex of the substream has been left locked
    cur,         \* subs->cur_audiofmt
    dataEp,      \* subs->data_endpoint
    needSetup, started,     \* subs: need_setup_ep, SUBSTREAM_FLAG_DATA_EP_STARTED
    made,        \* times TRPs have been made
    ep,          \* endpoints: use_count, RUNNING flag, and when its TRPs were made
    flying,      \* TRPs with the controller, as <<format, made, trp>>
    ghost        \* "failed": a submission has failed; "twice": a TRP was submitted twice

lifeVars == <<open, state, locked, cur, dataEp, needSetup, started, made, ep, flying, ghost>>

TypeOK ==
    /\ open \in BOOLEAN /\ state \in {"none", "OPEN", "SETUP", "PREPARED", "RUNNING"}
    /\ locked \in BOOLEAN /\ needSetup \in BOOLEAN /\ started \in BOOLEAN
    /\ {cur, dataEp} \subseteq Formats \cup {None}
    /\ \A f \in Formats : ep[f].use \in 0 .. 2 /\ ep[f].run \in BOOLEAN /\ ep[f].made \in 0 .. MaxMade
    /\ made \in 0 .. MaxMade
    /\ flying \subseteq Formats \X (1 .. MaxMade) \X Trps
    /\ ghost \subseteq {"failed", "twice"}

Init ==
    /\ open = FALSE /\ state = "none" /\ locked = FALSE
    /\ cur = None /\ dataEp = None
    /\ needSetup = FALSE /\ started = FALSE
    /\ ep = [f \in Formats |-> [use |-> 0, run |-> FALSE, made |-> 0]]
    /\ made = 0 /\ flying = {} /\ ghost = {}

Submitted(s) == /\ flying' = flying \cup s
                /\ ghost' = IF s \cap flying # {} THEN ghost \cup {"twice"} ELSE ghost
-----------------------------------------------------------------------------
\* uac_pcm_open_substream: if the constraints cannot be made, the reference is
\* given back; the runtime stays.
Opened(ok) == open' = ok

\* usbh_uac_open, uac_pcm_attach_substream.
Open ==
    /\ ~open /\ ~locked
    /\ \E ok \in BOOLEAN : Opened(ok)
    /\ state' = "OPEN"
    /\ UNCHANGED <<locked, cur, dataEp, needSetup, started, made, ep, flying, ghost>>

\* usbh_uac_close
Close ==
    /\ open /\ open' = FALSE
    /\ UNCHANGED <<state, locked, cur, dataEp, needSetup, started, made, ep, flying, ghost>>

\* usbh_uac_params_set.  Refused (the stream runs, or there is no memory), it
\* returns with the mutex locked; an open then fails with the reference taken.
ParamsRefused ==
    /\ open /\ ~locked
    /\ locked' = TRUE
    /\ UNCHANGED <<open, state, cur, dataEp, needSetup, started, made, ep, flying, ghost>>

\* set_format, whose selection of the interface is not modelled.
FormatSet(f) == cur' = f /\ dataEp' = IF f = cur THEN dataEp ELSE f

\* If it fails, or the parameters cannot be met, hw_free forgets the format.
ParamsSet ==
    /\ open /\ ~locked /\ state \in {"OPEN", "SETUP", "PREPARED"}
    /\ \E f \in Formats :
          \/ FormatSet(f) /\ needSetup' = TRUE /\ state' = "SETUP"
          \/ cur' = None /\ dataEp' \in {dataEp, f} /\ UNCHANGED <<needSetup, state>>
    /\ UNCHANGED <<open, locked, started, made, ep, flying, ghost>>
-----------------------------------------------------------------------------
\* data_ep_set_params: TRPs are made anew and the old ones forgotten (release_trps
\* does nothing), but not when the endpoint is in use.
Configured(f) == [ep EXCEPT ![f].made = made + 1]

\* usbh_uac_endpoint_start: the first n TRPs are submitted.  If one fails, those
\* before it stay with the controller.
StartEp(f, e, n) ==
    IF n = Cardinality(Trps)
    THEN /\ Submitted({<<f, e[f].made, i>> : i \in Trps})
         /\ ep' = [e EXCEPT ![f].use = 1, ![f].run = TRUE]
         /\ started' = TRUE
    ELSE /\ \E s \in SUBSET Trps :
               /\ Cardinality(s) = n
               /\ flying' = flying \cup {<<f, e[f].made, i>> : i \in s}
         /\ ghost' = ghost \cup {"failed"}
         /\ ep' = [e EXCEPT ![f].run = FALSE]
         /\ started' = FALSE

\* usbh_uac_prepare, usbh_uac_pcm_prepare.  A failed start is not reported.
Prepare ==
    /\ open /\ ~locked /\ state \in {"SETUP", "PREPARED"} /\ cur # None
    /\ IF needSetup /\ ep[dataEp].use # 0
       THEN UNCHANGED <<state, needSetup, started, made, ep, flying, ghost>>   \* -USB_EBUSY
       ELSE LET e == IF needSetup THEN Configured(dataEp) ELSE ep
            IN /\ made' = made + (IF needSetup THEN 1 ELSE 0)
               /\ made' <= MaxMade
               /\ needSetup' = FALSE /\ state' = "PREPARED"
               /\ IF started THEN ep' = e /\ UNCHANGED <<started, flying, ghost>>
                  ELSE IF ep[dataEp].use # 0   \* of another stream: only counted
                  THEN /\ started' = TRUE /\ ep' = [e EXCEPT ![dataEp].use = @ + 1]
                       /\ UNCHANGED <<flying, ghost>>
                  ELSE \E n \in 0 .. Cardinality(Trps) : StartEp(dataEp, e, n)
    /\ UNCHANGED <<open, locked, cur, dataEp>>

\* The first data starts it (uac_pcm_start).
Start ==
    /\ open /\ state = "PREPARED" /\ dataEp # None
    /\ state' = "RUNNING"
    /\ UNCHANGED <<open, locked, cur, dataEp, needSetup, started, made, ep, flying, ghost>>

\* Mutant of Stop: a stopped stream may be prepared again.
StopToSetup ==
    /\ open /\ state = "RUNNING" /\ started
    /\ started' = FALSE /\ state' = "SETUP"
    /\ ep' = IF ep[dataEp].use = 0 THEN ep ELSE [ep EXCEPT ![dataEp].use = @ - 1]
    /\ UNCHANGED <<open, locked, cur, dataEp, needSetup, made, flying, ghost>>

\* usbh_uac_stop: uac_stop_endpoints.
Stop ==
    /\ open /\ state = "RUNNING" /\ started
    /\ started' = FALSE
    /\ ep' = IF ep[dataEp].use = 0 THEN ep ELSE [ep EXCEPT ![dataEp].use = @ - 1]
    /\ UNCHANGED <<open, state, locked, cur, dataEp, needSetup, made, flying, ghost>>
-----------------------------------------------------------------------------
\* uac_complete_trp submits the TRP again, which changes nothing here, until an
\* error, an endpoint that does not run or a device that has gone.
TrpDone ==
    \E t \in flying :
        /\ flying' = flying \ {t}
        /\ UNCHANGED <<open, state, locked, cur, dataEp, needSetup, started, made, ep, ghost>>

Next ==
    \/ Open \/ Close \/ ParamsRefused \/ ParamsSet \/ Prepare \/ Start \/ Stop \/ TrpDone

Spec == Init /\ [][Next]_lifeVars
-----------------------------------------------------------------------------
(* Properties                                                              *)

\* A TRP that is with the controller is not submitted: a second preparation, a
\* stop, a closing and an opening, parameters set again, or a change of format
\* lead to none.  (After a start that failed half way they do:
\* uac_endpoint.c:610 takes back the count but not what it submitted, and
\* uac_pcm.c:1440 does not report it.)
TrpOnce == "twice" \in ghost => "failed" \in ghost
=============================================================================
