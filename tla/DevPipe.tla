------------------------------ MODULE DevPipe ------------------------------
(***************************************************************************)
(* Synchronous transfers of the device side: usbd_dev_trans_sync over      *)
(* usb_dc_trans_req, usb_dc_trans_cancel and usb_dc_trans_complete.  The   *)
(* usbd_trans lives on the stack of the call, and its completion gives the *)
(* semaphore of the pipe.                                                  *)
(*                                                                         *)
(* The controller driver is not part of the repository: it may refuse a    *)
(* transfer, completes an accepted one at most once and as one step for    *)
(* the tasks, and completes those of an endpoint that is disabled.         *)
(***************************************************************************)
EXTENDS Naturals

CONSTANTS Tasks, Pipes, Nobody

VARIABLES
    lock,     \* who holds p_pipe->p_lock
    sync,     \* the tokens of p_pipe->p_sync
    enabled,  \* the pipes whose endpoint is enabled
    stalled,  \* the pipes whose endpoint has is_stalled
    call,     \* where each task is: [at, pipe]
    trans,    \* the status of the usbd_trans in each task's frame
    hw,       \* the tasks whose usbd_trans the driver holds
    result    \* what the last call of each task returned

pipeVars == <<lock, sync, enabled, stalled, call, trans, hw, result>>

At(t, s) == call[t].at = s
PipeOf(t) == call[t].pipe
Goto(t, s) == call' = [call EXCEPT ![t].at = s]

TypeOK ==
    /\ lock \in [Pipes -> Tasks \cup {Nobody}] /\ sync \in [Pipes -> Nat]
    /\ enabled \subseteq Pipes /\ stalled \subseteq Pipes
    /\ call \in [Tasks -> [at : {"out", "lock", "drain", "start", "wait", "cancel"},
                           pipe : Pipes \cup {Nobody}]]
    /\ trans \in [Tasks -> {"OK", "EINPROGRESS", "ECANCEL", "ESHUTDOWN"}]
    /\ hw \subseteq Tasks
    /\ result \in [Tasks -> {"OK", "EINPROGRESS", "ECANCEL", "ESHUTDOWN",
                             "ETIME", "refused"}]

Init ==
    /\ lock = [p \in Pipes |-> Nobody] /\ sync = [p \in Pipes |-> 0]
    /\ enabled = Pipes /\ stalled = {}
    /\ call = [t \in Tasks |-> [at |-> "out", pipe |-> Nobody]]
    /\ trans = [t \in Tasks |-> "OK"] /\ hw = {}
    /\ result = [t \in Tasks |-> "OK"]
-----------------------------------------------------------------------------
\* usbd_dev_trans_sync is called for pipe p.
Enter(t, p) ==
    /\ At(t, "out") /\ call' = [call EXCEPT ![t] = [at |-> "lock", pipe |-> p]]
    /\ UNCHANGED <<lock, sync, enabled, stalled, trans, hw, result>>

\* It takes the lock of the pipe and fills the usbd_trans in its frame.
Lock(t) ==
    /\ At(t, "lock") /\ lock[PipeOf(t)] = Nobody
    /\ lock' = [lock EXCEPT ![PipeOf(t)] = t]
    /\ trans' = [trans EXCEPT ![t] = "OK"]
    /\ Goto(t, "drain")
    /\ UNCHANGED <<sync, enabled, stalled, hw, result>>

\* Mutant of Drain: the old token stays.
DrainNothing(t) ==
    /\ At(t, "drain") /\ Goto(t, "start")
    /\ UNCHANGED <<lock, sync, enabled, stalled, trans, hw, result>>

\* It takes a token that an earlier call on the pipe may have left.
Drain(t) ==
    /\ At(t, "drain")
    /\ sync' = [sync EXCEPT ![PipeOf(t)] = IF @ > 0 THEN @ - 1 ELSE 0]
    /\ Goto(t, "start")
    /\ UNCHANGED <<lock, enabled, stalled, trans, hw, result>>

\* The call returns r and unlocks the pipe: its frame is gone.
Leave(t, r) ==
    /\ Goto(t, "out")
    /\ lock' = [lock EXCEPT ![PipeOf(t)] = Nobody]
    /\ result' = [result EXCEPT ![t] = r]

\* usbd_dev_trans_async, usb_dc_trans_req: a stalled endpoint and the driver
\* may refuse the transfer; only the first leaves its status as it was.
StartTrans(t) ==
    /\ At(t, "start")
    /\ \/ PipeOf(t) \notin stalled /\ PipeOf(t) \in enabled
          /\ trans' = [trans EXCEPT ![t] = "EINPROGRESS"]
          /\ hw' = hw \cup {t} /\ Goto(t, "wait") /\ UNCHANGED <<lock, result>>
       \/ PipeOf(t) \in stalled /\ Leave(t, "refused") /\ UNCHANGED <<trans, hw>>
       \/ PipeOf(t) \notin stalled /\ Leave(t, "refused") /\ UNCHANGED hw
          /\ trans' = [trans EXCEPT ![t] = "EINPROGRESS"]
    /\ UNCHANGED <<sync, enabled, stalled>>

\* usb_dc_trans_complete, then __trans_complete.
Complete(t, status) ==
    /\ trans' = [trans EXCEPT ![t] = status]
    /\ hw' = hw \ {t}
    /\ sync' = [sync EXCEPT ![PipeOf(t)] = @ + 1]

HwComplete(t) ==
    /\ t \in hw /\ Complete(t, "OK")
    /\ UNCHANGED <<lock, enabled, stalled, call, result>>

\* The token is there: the call returns the status of its transfer.
WaitOk(t) ==
    /\ At(t, "wait") /\ sync[PipeOf(t)] > 0
    /\ sync' = [sync EXCEPT ![PipeOf(t)] = @ - 1]
    /\ Leave(t, trans[t])
    /\ UNCHANGED <<enabled, stalled, trans, hw>>

WaitTimeout(t) ==
    /\ At(t, "wait") /\ sync[PipeOf(t)] = 0
    /\ Goto(t, "cancel")
    /\ UNCHANGED <<lock, sync, enabled, stalled, trans, hw, result>>

\* Mutant of Cancel: the call returns without a cancellation.
CancelNot(t) ==
    /\ At(t, "cancel") /\ Leave(t, "ETIME")
    /\ UNCHANGED <<sync, trans, hw, enabled, stalled>>

\* usb_dc_trans_cancel, whose result is not looked at; the driver may complete
\* what it cancels or just let go of it.  The transfer may be over by now.
Cancel(t) ==
    /\ At(t, "cancel") /\ Leave(t, "ETIME")
    /\ \/ t \in hw /\ Complete(t, "ECANCEL")
       \/ trans' = [trans EXCEPT ![t] = "ECANCEL"] /\ hw' = hw \ {t} /\ UNCHANGED sync
    /\ UNCHANGED <<enabled, stalled>>

\* The host halts an endpoint or clears the halt; a reset disables the
\* endpoint, which gives up its transfers, and a new configuration enables it.
Halt(p) ==
    /\ stalled' = IF p \in stalled THEN stalled \ {p} ELSE stalled \cup {p}
    /\ UNCHANGED <<lock, sync, enabled, call, trans, hw, result>>

Enable(p) ==
    /\ p \notin enabled /\ enabled' = enabled \cup {p}
    /\ UNCHANGED <<lock, sync, stalled, call, trans, hw, result>>

Disable(p) ==
    /\ p \in enabled /\ enabled' = enabled \ {p}
    /\ \/ \E t \in hw : PipeOf(t) = p /\ Complete(t, "ESHUTDOWN")
       \/ (\A t \in hw : PipeOf(t) # p) /\ UNCHANGED <<trans, hw, sync>>
    /\ UNCHANGED <<lock, stalled, call, result>>

Next ==
    \/ \E t \in Tasks :
        \/ \E p \in Pipes : Enter(t, p)
        \/ Lock(t) \/ Drain(t) \/ StartTrans(t) \/ WaitOk(t) \/ WaitTimeout(t)
        \/ Cancel(t) \/ HwComplete(t)
    \/ \E p \in Pipes : Halt(p) \/ Enable(p) \/ Disable(p)

Spec == Init /\ [][Next]_pipeVars
-----------------------------------------------------------------------------
(* Properties                                                              *)

\* The driver only holds transfers whose frame is alive: no call returns, by
\* a token that is not its own or by a time-out, while its transfer runs.
FrameAlive == \A t \in hw : At(t, "wait") \/ At(t, "cancel")

\* A call never returns the status of a transfer that has not ended.
ResultFinal == \A t \in Tasks : result[t] # "EINPROGRESS"
=============================================================================
