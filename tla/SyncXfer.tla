------------------------------ MODULE SyncXfer ------------------------------
(***************************************************************************)
(* usbh_trp_sync_xfer over the EHCI transfer engine (usbh_dev.c,           *)
(* usbh_ehci.c): the TRP lives on the stack of the call, its completion    *)
(* callback gives the semaphore of the ENDPOINT, and the call takes that   *)
(* semaphore, cancels the TRP when the time-out expires, and takes it once *)
(* more.  Every TRP of EhciXfer is here the stack TRP of one user.         *)
(***************************************************************************)
EXTENDS EhciXfer

CONSTANT TrpOf   \* the TRP in the stack frame of each user's call

ASSUME SyncXferAssumption ==
    /\ TrpOf \in [Users -> Trps]
    /\ \A u, v \in Users : u # v => TrpOf[u] # TrpOf[v]
    /\ Resubmits = {}

VARIABLES
    call,   \* where each user is in usbh_trp_sync_xfer; "none" outside
    sem     \* the tokens of each endpoint's p_hc_priv

syncVars == <<vars, call, sem>>

EpFor(u) == EpOf[TrpOf[u]]
Goto(u, s) == call' = [call EXCEPT ![u] = s]

SyncInit ==
    /\ Init
    /\ call = [u \in Users |-> "none"]
    /\ sem = [e \in Eps |-> 0]
-----------------------------------------------------------------------------
\* The call fills its TRP and submits it; a refusal ends the call.  Nothing
\* checks that the memory of the TRP is not still in use.
SyncBegin(u) ==
    /\ call[u] = "none" /\ Idle(u)
    /\ \/ Submit(u, TrpOf[u]) /\ Goto(u, "wait")
       \/ SubmitFail(u, TrpOf[u]) /\ UNCHANGED call
    /\ UNCHANGED <<cb, sem>>

\* usbh_trp_sync_xfer_wait returns a token of the endpoint, and the call ends:
\* after the first wait with the TRP's status, after the second in any case.
WaitOk(u) ==
    /\ call[u] \in {"wait", "again"} /\ sem[EpFor(u)] > 0
    /\ sem' = [sem EXCEPT ![EpFor(u)] = @ - 1]
    /\ Goto(u, "none")
    /\ UNCHANGED vars

\* Mutant of WaitTimeout: the call ends without a cancellation.
WaitTimeoutReturns(u) ==
    /\ call[u] \in {"wait", "again"} /\ sem[EpFor(u)] = 0
    /\ Goto(u, "none")
    /\ UNCHANGED <<vars, sem>>

\* It times out with no token there.
WaitTimeout(u) ==
    /\ call[u] \in {"wait", "again"} /\ sem[EpFor(u)] = 0
    /\ Goto(u, IF call[u] = "wait" THEN "cancel" ELSE "none")
    /\ UNCHANGED <<vars, sem>>

CancelCall(u) ==
    /\ call[u] = "cancel" /\ CancelBegin(u, TrpOf[u])
    /\ Goto(u, "cancelling")
    /\ UNCHANGED sem

\* Mutant of CancelReturn: no second wait takes the token.
CancelReturnOnce(u) ==
    /\ call[u] = "cancelling" /\ DrainEnd(u)
    /\ Goto(u, "none")
    /\ UNCHANGED sem

\* A cancellation that fails ends the call, with no second wait.
CancelReturn(u) ==
    /\ call[u] = "cancelling" /\ DrainEnd(u)
    /\ Goto(u, IF target[u] = Nobody THEN "none" ELSE "again")
    /\ UNCHANGED sem

\* usbh_trp_sync_xfer_done, from the delivery by any task.
Give(a) ==
    /\ CbReturn(a)
    /\ sem' = [sem EXCEPT ![EpOf[cb[a]]] = @ + 1]
    /\ UNCHANGED call

\* A user without a call may disable the endpoint it uses.
SyncDisable(u) ==
    /\ call[u] = "none"
    /\ EpDisable(u, EpFor(u)) \/ DisableEnd(u)
    /\ UNCHANGED <<call, sem>>

SyncUser(u) ==
    \/ SyncBegin(u) \/ WaitOk(u) \/ WaitTimeout(u) \/ CancelCall(u)
    \/ CancelReturn(u) \/ SyncDisable(u)

\* The steps of the engine in which no user's call takes part.
Quietly ==
    /\ \/ Hardware \/ WorkBegin \/ WorkNext \/ DrainEnd(EhciTask)
       \/ \E a \in Actors : Handle(a) \/ ScanEnd(a) \/ DrainBegin(a) \/ DrainOne(a)
    /\ UNCHANGED <<call, sem>>

SyncNext ==
    \/ Quietly
    \/ \E a \in Actors : Give(a)
    \/ \E u \in Users : SyncUser(u)

SyncSpec == SyncInit /\ [][SyncNext]_syncVars
-----------------------------------------------------------------------------
(* Properties                                                              *)

\* A call that has returned leaves no reference to the TRP of its dead stack
\* frame: on no QH, not on trp_done_list, in nobody's callback.
NoDanglingFrame == \A u \in Users : call[u] = "none" => Places(TrpOf[u]) = {}

\* No token outlives the call it was given for; the next call on the endpoint
\* would take it for its own and return with its transfer still running.
NoStaleToken ==
    \A e \in Eps :
        sem[e] <= Cardinality({u \in Users : EpFor(u) = e /\ call[u] # "none"})

\* After a successful cancellation the second wait finds its token at once,
\* so it never adds a second time-out to the call.
SecondWaitReady == \A u \in Users : call[u] = "again" => sem[EpFor(u)] > 0
=============================================================================
