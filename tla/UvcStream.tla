----------------------------- MODULE UvcStream -----------------------------
(***************************************************************************)
(* A stream of a USB camera (usbh_vc_stream.c, usbh_vc_video.c): one task  *)
(* opens, configures, starts, suspends, resumes, stops and closes it; the  *)
(* controller's task completes the isochronous TRPs, whose callback takes  *)
(* p_stream->p_lock and submits them again; the device may go at any time. *)
(* Stopping marks every TRP cancelled under the lock, gives the lock back, *)
(* waits until n_trp_act is zero and frees the TRPs.                       *)
(*                                                                         *)
(* Memory is never out.  Changes of n_trp_act are atomic.                  *)
(***************************************************************************)
EXTENDS Naturals, FiniteSets

CONSTANTS
    Trps,      \* TRPs of the stream: 1 .. n_trp
    MaxOpen    \* bound on open_cnt

VARIABLES
    st,        \* opt_status
    open_cnt, frozen, n_act,
    trp,       \* none, idle, at the controller, or in its callback at the lock
    cancelled, \* TRPs with status -USB_ECANCEL
    lock,      \* p_stream->p_lock is held by the task
    op,        \* what the task does: the call and where it is
    queue,     \* "mine", "free" or "other": the queue of the library's pool
    removed    \* p_vc->is_removed

streamVars == <<st, open_cnt, frozen, n_act, trp, cancelled, lock, op, queue,
                removed>>

Idle == [call |-> "none", at |-> "idle", next |-> 1]

TypeOK ==
    /\ st \in {"CLOSE", "OPEN", "CONFIG", "START", "SUSPEND", "STOP"}
    /\ open_cnt \in Nat /\ n_act \in Nat
    /\ frozen \in BOOLEAN /\ lock \in BOOLEAN /\ removed \in BOOLEAN
    /\ trp \in [Trps -> {"none", "idle", "hc", "wait"}]
    /\ cancelled \subseteq Trps
    /\ op \in [call : {"none", "start", "resume", "stop", "close", "suspend"},
               at : {"idle", "submit", "cancel", "drain"}, next : Nat]
    /\ queue \in {"mine", "free", "other"}

\* The TRPs the controller or a callback has.
Busy == {t \in Trps : trp[t] \in {"hc", "wait"}}

Init ==
    /\ st = "CLOSE" /\ open_cnt = 0 /\ frozen = TRUE /\ n_act = 0
    /\ trp = [t \in Trps |-> "none"] /\ cancelled = {} /\ lock = FALSE
    /\ op = Idle /\ queue = "free" /\ removed = FALSE
-----------------------------------------------------------------------------
\* usbh_vc_stream_open
Open ==
    /\ op = Idle /\ ~removed /\ open_cnt < MaxOpen
    /\ open_cnt' = open_cnt + 1
    /\ st' = IF st = "CLOSE" THEN "OPEN" ELSE st
    /\ UNCHANGED <<frozen, n_act, trp, cancelled, lock, op, queue, removed>>

\* usbh_vc_stream_cfg_set
CfgSet ==
    /\ op = Idle /\ ~removed /\ st \in {"OPEN", "CONFIG", "STOP"}
    /\ st' = "CONFIG"
    /\ UNCHANGED <<open_cnt, frozen, n_act, trp, cancelled, lock, op, queue,
                   removed>>

\* __vc_video_start up to the submission, with the lock: the TRPs (those a
\* failed start left are replaced), then a queue.  A stream that is not
\* committed, or finds no queue, goes no further.  (VideoQueued: it finds one.)
VideoStart ==
    /\ UNCHANGED <<open_cnt, removed, n_act>>
    /\ \/ UNCHANGED <<st, trp, cancelled, lock, op, queue>>
       \/ /\ queue # "free"
          /\ trp' = [t \in Trps |-> "idle"] /\ cancelled' = {}
          /\ UNCHANGED <<st, lock, op, queue>>

\* ... with a queue, the buffers are made and n_trp_act is reset.
VideoQueued(call) ==
    /\ queue = "free" /\ queue' = "mine" /\ n_act' = 0
    /\ trp' = [t \in Trps |-> "idle"] /\ cancelled' = {}
    /\ lock' = TRUE /\ op' = [call |-> call, at |-> "submit", next |-> 1]
    /\ UNCHANGED <<st, open_cnt, removed>>

\* usbh_vc_stream_start and __vc_stream_start
Start ==
    /\ op = Idle /\ ~removed /\ st \in {"CONFIG", "STOP"}
    /\ VideoStart \/ VideoQueued("start")
    /\ UNCHANGED frozen

\* usbh_vc_stream_resume and usbh_vc_video_resume: is_frozen is cleared first,
\* unless the interface cannot be set.
Resume ==
    /\ op = Idle /\ ~removed /\ st = "SUSPEND"
    /\ IF frozen
         THEN /\ VideoStart \/ VideoQueued("resume")
              /\ frozen' = FALSE
         ELSE /\ st' = "START"      \* a resume that failed after clearing it
              /\ UNCHANGED <<open_cnt, frozen, n_act, trp, cancelled, lock, op,
                             queue, removed>>

\* usbh_trp_submit of the next TRP in __vc_video_start.
Submit ==
    /\ op.at = "submit" /\ op.next \in Trps
    /\ \/ /\ trp' = [trp EXCEPT ![op.next] = "hc"] /\ n_act' = n_act + 1
          /\ op' = [op EXCEPT !.next = @ + 1]
          /\ UNCHANGED <<cancelled, queue>>
       \/ /\ queue' = "free"      \* __failed: the queue and its buffers first
          /\ op' = [op EXCEPT !.at = "cancel", !.next = 1]
          /\ UNCHANGED <<trp, n_act, cancelled>>
    /\ UNCHANGED <<st, open_cnt, frozen, lock, removed>>

\* The end of a start that submitted every TRP.
Started ==
    /\ op.at = "submit" /\ op.next \notin Trps
    /\ st' = "START" /\ frozen' = FALSE /\ lock' = FALSE /\ op' = Idle
    /\ UNCHANGED <<open_cnt, n_act, trp, cancelled, queue, removed>>
-----------------------------------------------------------------------------
Begin(call) ==
    /\ lock' = TRUE /\ op' = [call |-> call, at |-> "cancel", next |-> 1]
    /\ UNCHANGED <<st, open_cnt, n_act, trp, cancelled, queue, removed>>

\* usbh_vc_stream_stop
Stop ==
    /\ op = Idle /\ st \in {"START", "SUSPEND"}
    /\ Begin("stop") /\ UNCHANGED frozen

\* usbh_vc_stream_close stops the stream of the last one who has it open.
Close ==
    /\ op = Idle /\ st # "CLOSE" /\ open_cnt > 0
    /\ IF st \in {"START", "SUSPEND"} /\ open_cnt = 1
         THEN Begin("close") /\ UNCHANGED frozen
         ELSE /\ open_cnt' = open_cnt - 1
              /\ st' = IF open_cnt = 1 THEN "CLOSE" ELSE st
              /\ UNCHANGED <<frozen, n_act, trp, cancelled, lock, op, queue,
                             removed>>

\* usbh_vc_stream_suspend and usbh_vc_video_suspend; a stream that is frozen
\* already is only marked.
Suspend ==
    /\ op = Idle /\ ~removed /\ st = "START"
    /\ IF frozen
         THEN /\ st' = "SUSPEND"
              /\ UNCHANGED <<open_cnt, frozen, n_act, trp, cancelled, lock, op,
                             queue, removed>>
         ELSE Begin("suspend") /\ frozen' = TRUE

\* usbh_vc_stream_xfer_cancel, a TRP at a time (200 ms): the controller keeps
\* an isochronous TRP until its frames are past.
Cancel ==
    /\ op.at = "cancel" /\ op.next \in Trps
    /\ cancelled' = cancelled \cup {op.next}
    /\ op' = [op EXCEPT !.next = @ + 1]
    /\ UNCHANGED <<st, open_cnt, frozen, n_act, trp, lock, queue, removed>>

\* __vc_video_deinit gives the lock back for the wait.
CancelEnd ==
    /\ op.at = "cancel" /\ op.next \notin Trps
    /\ lock' = FALSE /\ op' = [op EXCEPT !.at = "drain"]
    /\ UNCHANGED <<st, open_cnt, frozen, n_act, trp, cancelled, queue, removed>>

\* The task frees the TRPs (usbh_vc_video_free) and ends its call: the buffers
\* and the queue go back, and alternate setting 0 is set, which may fail (not of
\* a device that has gone) and then leaves opt_status.
Freed ==
    /\ trp' = [t \in Trps |-> IF t \in Busy THEN trp[t] ELSE "none"]
    /\ cancelled' = {} /\ lock' = FALSE /\ op' = Idle
    /\ queue' = IF op.call \in {"start", "resume"} THEN queue ELSE "free"
    /\ \/ /\ op.call \in {"start", "resume"} \/ ~removed
          /\ UNCHANGED <<st, open_cnt>>
       \/ /\ op.call = "stop" /\ st' = "STOP" /\ UNCHANGED open_cnt
       \/ /\ op.call = "close" /\ st' = "CLOSE" /\ open_cnt' = open_cnt - 1
       \/ /\ op.call = "suspend" /\ st' = "SUSPEND" /\ UNCHANGED open_cnt
    /\ UNCHANGED <<frozen, n_act, removed>>

\* The wait left out.
DrainedBlind == op.at = "drain" /\ Freed

\* __vc_video_deinit after the wait for n_trp_act, with the lock again.
Drained == op.at = "drain" /\ n_act = 0 /\ Freed
-----------------------------------------------------------------------------
\* __vc_video_complete: a cancelled TRP, or one of a removed device, counts
\* itself off; any other takes the lock.
Complete(t) ==
    /\ trp[t] = "hc"
    /\ IF removed \/ t \in cancelled
         THEN trp' = [trp EXCEPT ![t] = "idle"] /\ n_act' = n_act - 1
         ELSE trp' = [trp EXCEPT ![t] = "wait"] /\ UNCHANGED n_act
    /\ UNCHANGED <<st, open_cnt, frozen, cancelled, lock, op, queue, removed>>

\* With the lock: a frozen stream, or a TRP that was cancelled or failed, ends
\* here and stays counted; another is decoded and submitted again, and counted
\* off when that fails five times.
Resubmit(t) ==
    /\ trp[t] = "wait" /\ ~lock
    /\ \/ /\ trp' = [trp EXCEPT ![t] = "idle"] /\ UNCHANGED n_act
       \/ /\ ~frozen /\ t \notin cancelled
          /\ trp' = [trp EXCEPT ![t] = "hc"] /\ UNCHANGED n_act
       \/ /\ ~frozen /\ t \notin cancelled
          /\ trp' = [trp EXCEPT ![t] = "idle"] /\ n_act' = n_act - 1
    /\ UNCHANGED <<st, open_cnt, frozen, cancelled, lock, op, queue, removed>>

\* The lock is not had in UVC_LOCK_TIMEOUT: the TRP stays counted.
LockTimeout(t) ==
    /\ trp[t] = "wait" /\ lock
    /\ trp' = [trp EXCEPT ![t] = "idle"]
    /\ UNCHANGED <<st, open_cnt, frozen, n_act, cancelled, lock, op, queue, removed>>

\* usbh_vc_destroy
Remove ==
    /\ ~removed /\ removed' = TRUE
    /\ UNCHANGED <<st, open_cnt, frozen, n_act, trp, cancelled, lock, op, queue>>

\* usbn_vc_queue_get and usbh_vc_queue_put of another camera's stream.
OtherStream ==
    /\ queue # "mine"
    /\ queue' \in {"free", "other"}
    /\ UNCHANGED <<st, open_cnt, frozen, n_act, trp, cancelled, lock, op, removed>>

Next ==
    \/ Open \/ CfgSet \/ Start \/ Resume \/ Submit \/ Started
    \/ Stop \/ Close \/ Suspend \/ Cancel \/ CancelEnd \/ Drained
    \/ Remove \/ OtherStream
    \/ \E t \in Trps : Complete(t) \/ Resubmit(t) \/ LockTimeout(t)

Spec == Init /\ [][Next]_streamVars
-----------------------------------------------------------------------------
\* n_trp_act never counts fewer TRPs than the controller and the callbacks have
\* (it may count more: such a stream is never stopped, :909-931).  So none is
\* freed under them, and no frame is written to a stream that is not streaming:
\* closed, configured, suspended, or whose start failed half-way.
StoppedQuiet ==
    /\ op.at \in {"submit", "cancel", "drain"} => Cardinality(Busy) <= n_act
    /\ op = Idle /\ st # "START" => Busy = {}
=============================================================================
