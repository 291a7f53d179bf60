--------------------------- MODULE EhciXferProofs ---------------------------
(***************************************************************************)
(* Proofs about EhciXfer, for any endpoints, TRPs and tasks: the types,    *)
(* the schedules and their counters, where a TRP is, and when its caller   *)
(* has it back.  Then about SyncXfer: synchronous calls use the engine as  *)
(* its callers must, and leave nothing behind, if no two use an endpoint   *)
(* at a time.  The last part is about EhciQtd, which is an instance here:  *)
(* the qTDs of one QH, for a pool of any size.                             *)
(***************************************************************************)
EXTENDS SyncXfer, Functions, FiniteSetTheorems, TLAPS

\* A step that submits a TRP, from a user's call or from a callback.
SubmitStep(a, t) ==
    /\ Submit(a, t) \/ SubmitFail(a, t)
    /\ cb' = cb \/ cb' = [cb EXCEPT ![a] = Nobody]

\* The next-state relation, one disjunct per action.
LEMMA NextActions ==
    ASSUME TypeOK, Next
    PROVE  \/ \E e \in Eps : HwRetire(e) \/ HwStop(e)
           \/ WorkBegin \/ WorkNext
           \/ \E a \in Actors : HandleRetry(a) \/ HandleQtd(a) \/ HandleTrp(a)
                                \/ HandleTrpTimeout(a) \/ HandleEnd(a) \/ ScanEnd(a)
           \/ \E a \in Actors : DrainBegin(a) \/ DrainOne(a) \/ CbReturn(a)
                                \/ CbTimeout(a) \/ DrainEnd(a) \/ DrainTimeout(a)
           \/ \E a \in Actors, t \in Trps : SubmitStep(a, t)
           \/ \E u \in Users, t \in Trps : CancelBegin(u, t)
           \/ \E u \in Users : DisableEnd(u) \/ \E e \in Eps : EpDisable(u, e)
<1>1. ASSUME NEW a \in Actors, CbResubmit(a)
      PROVE  \E t \in Trps : SubmitStep(a, t)
  <2>1. cb[a] \in Trps
    BY <1>1 DEF TypeOK, CbResubmit
  <2> QED BY <1>1, <2>1 DEF CbResubmit, SubmitStep
<1>2. ASSUME NEW u \in Users, NEW t \in Trps, Request(u, t)
      PROVE  u \in Actors /\ SubmitStep(u, t)
  BY <1>2 DEF Request, SubmitStep, Actors
<1>3. ASSUME NEW a \in Actors, Engine(a)
      PROVE  \/ HandleRetry(a) \/ HandleQtd(a) \/ HandleTrp(a) \/ HandleEnd(a)
             \/ ScanEnd(a) \/ DrainBegin(a) \/ DrainOne(a) \/ CbReturn(a) \/ DrainEnd(a)
             \/ \E t \in Trps : SubmitStep(a, t)
  BY <1>1, <1>3 DEF Engine, Handle, Drain
<1>4. EhciTask \in Actors /\ \A u \in Users : u \in Actors
  BY DEF Actors
<1>5. CASE Hardware
  BY <1>5 DEF Hardware
<1>6. CASE Task
  BY <1>3, <1>4, <1>6 DEF Task
<1>7. CASE Timeouts
  BY <1>7 DEF Timeouts
<1>8. CASE \E u \in Users : User(u)
  BY <1>2, <1>3, <1>4, <1>8 DEF User
<1> QED BY <1>5, <1>6, <1>7, <1>8 DEF Next

-----------------------------------------------------------------------------
(* Types                                                                   *)

\* The removal of a qTD keeps the types.
LEMMA RemoveQtdType ==
    ASSUME TypeOK, NEW t \in Trps, qtd[t].left > 0, RemoveQtd(t)
    PROVE  /\ qtd' \in [Trps -> QtdState]
           /\ xactErrs' \in [Eps -> Nat]
           /\ Acc(t) \in {"INPROGRESS", "ERROR", "SHORT"}
<1>1. WithoutFirst(qtd[t]) \in QtdState
  <2>1. qtd[t] \in QtdState
    BY DEF TypeOK
  <2> QED BY <2>1, EhciXferAssumption DEF QtdState, WithoutFirst
<1>2. qtd' \in [Trps -> QtdState]
  BY <1>1 DEF TypeOK, RemoveQtd
<1>3. xactErrs' \in [Eps -> Nat]
  BY DEF RemoveQtd, TypeOK
<1>4. Acc(t) \in {"INPROGRESS", "ERROR", "SHORT"}
  BY DEF Acc, TypeOK, ScanFrames
<1> QED BY <1>2, <1>3, <1>4

\* So does the removal of the last qTD of a TRP.
LEMMA LastQtdType ==
    ASSUME TypeOK, NEW a \in Actors, NEW t \in Trps, LastQtd(a, t)
    PROVE  /\ qtd' \in [Trps -> QtdState] /\ xactErrs' \in [Eps -> Nat]
           /\ queue' \in [Eps -> Seq(Trps)]
           /\ intrCount' \in Nat
           /\ scan' \in ScanFrames
<1>1. RemoveQtd(t) /\ qtd[t].left = 1 /\ AtQtd(a, t)
  BY DEF LastQtd, Removable
<1>2. qtd' \in [Trps -> QtdState] /\ xactErrs' \in [Eps -> Nat]
  BY <1>1, RemoveQtdType
<1>3. scan.ep \in Eps
  BY <1>1 DEF AtQtd, TypeOK, ScanFrames
<1>4. queue' \in [Eps -> Seq(Trps)]
  <2>1. queue[scan.ep] \in Seq(Trps) /\ queue[scan.ep] # <<>>
    BY <1>1, <1>3 DEF AtQtd, TypeOK
  <2>2. Tail(queue[scan.ep]) \in Seq(Trps)
    BY <2>1
  <2>3. queue' = [queue EXCEPT ![scan.ep] = Tail(queue[scan.ep])]
    BY DEF LastQtd
  <2> QED BY <2>2, <2>3 DEF TypeOK
<1>5. intrCount' \in Nat
  BY DEF LastQtd, TypeOK
<1>6. scan' \in ScanFrames
  BY <1>3 DEF LastQtd, Frame, ScanFrames, TypeOK
<1> QED BY <1>2, <1>4, <1>5, <1>6

\* Taking a QH off its schedule keeps the types.
LEMMA UnlinkType ==
    ASSUME TypeOK, NEW e \in Eps, Unlink(e)
    PROVE  /\ st' \in [Eps -> {"NONE", "IDLE", "LINKED", "UNLINKED"}]
           /\ asyncCount' \in Nat /\ intrCount' \in Nat /\ pse' \in BOOLEAN
<1>1. st' \in [Eps -> {"NONE", "IDLE", "LINKED", "UNLINKED"}]
  BY DEF Unlink, TypeOK
<1>2. CASE e \in AsyncEps
  BY <1>1, <1>2 DEF Unlink, AsyncUnlink, TypeOK
<1>3. CASE e \notin AsyncEps
  <2>1. NSlots[e] \in Nat
    BY <1>3, EhciXferAssumption DEF Eps
  <2> QED BY <1>1, <1>3, <2>1 DEF Unlink, IntrUnlink, TypeOK
<1> QED BY <1>2, <1>3

\* So does a submission.
LEMMA SubmitType ==
    ASSUME TypeOK, NEW a \in Actors, NEW t \in Trps, SubmitStep(a, t)
    PROVE  TypeOK'
<1>1. EpOf[t] \in Eps
  BY EhciXferAssumption
<1>2. cb' \in [Actors -> Trps \cup {Nobody}]
  BY DEF SubmitStep, TypeOK
<1>3. CASE Submit(a, t)
  <2>1. qtd' \in [Trps -> QtdState]
    <3>1. PICK n \in 1 .. MaxQtds : qtd' = [qtd EXCEPT ![t] = [Free EXCEPT !.left = n]]
      BY <1>3 DEF Submit
    <3>2. [Free EXCEPT !.left = n] \in QtdState
      BY EhciXferAssumption DEF Free, QtdState
    <3> QED BY <3>1, <3>2 DEF TypeOK
  <2>2. queue' \in [Eps -> Seq(Trps)]
    <3>1. Append(queue[EpOf[t]], t) \in Seq(Trps)
      BY <1>1 DEF TypeOK
    <3>2. queue' = [queue EXCEPT ![EpOf[t]] = Append(queue[EpOf[t]], t)]
      BY <1>3 DEF Submit
    <3> QED BY <3>1, <3>2 DEF TypeOK
  <2>3. /\ asyncCount' \in Nat /\ intrCount' \in Nat /\ pse' \in BOOLEAN
        /\ halted' \in [Eps -> BOOLEAN] /\ xactErrs' \in [Eps -> Nat]
    <3>1. CASE EpOf[t] \in AsyncEps
      <4>1. AsyncLink(EpOf[t])
        BY <1>3, <3>1 DEF Submit
      <4>2. asyncCount' \in Nat /\ intrCount' \in Nat /\ pse' \in BOOLEAN
        BY <4>1 DEF AsyncLink, TypeOK
      <4>3. xactErrs' \in [Eps -> Nat]
        BY <4>1 DEF AsyncLink, TypeOK
      <4>4. CASE st[EpOf[t]] = "LINKED"
        <5>1. halted' = [halted EXCEPT ![EpOf[t]] = halted[EpOf[t]] /\ TRUE]
          BY <4>1, <4>4 DEF AsyncLink
        <5>2. halted[EpOf[t]] \in BOOLEAN
          BY <1>1 DEF TypeOK
        <5>3. halted' \in [Eps -> BOOLEAN]
          BY <5>1, <5>2, Zenon DEF TypeOK
        <5> QED BY <4>2, <4>3, <5>3
      <4>5. CASE st[EpOf[t]] # "LINKED"
        <5>1. halted' = [halted EXCEPT ![EpOf[t]] = FALSE]
          BY <4>1, <4>5 DEF AsyncLink
        <5>2. halted' \in [Eps -> BOOLEAN]
          BY <5>1 DEF TypeOK
        <5> QED BY <4>2, <4>3, <5>2
      <4> QED BY <4>4, <4>5
    <3>2. CASE EpOf[t] \notin AsyncEps
      BY <1>3, <3>2 DEF Submit, IntrLink, TypeOK
    <3> QED BY <3>1, <3>2
  <2>4. status' \in [Trps -> {"INPROGRESS", "OK", "ERROR", "CANCEL"}]
    BY <1>3 DEF Submit, TypeOK
  <2>5. st' \in [Eps -> {"NONE", "IDLE", "LINKED", "UNLINKED"}]
    BY <1>3 DEF Submit, TypeOK
  <2>6. UNCHANGED <<locks, doneList, irq, pc, todo, scan, target>>
    BY <1>3 DEF Submit
  <2> QED BY <1>2, <2>1, <2>2, <2>3, <2>4, <2>5, <2>6 DEF TypeOK, locks
<1>4. CASE SubmitFail(a, t)
  <2>1. status' \in [Trps -> {"INPROGRESS", "OK", "ERROR", "CANCEL"}]
    BY <1>4 DEF SubmitFail, TypeOK
  <2>2. st' \in [Eps -> {"NONE", "IDLE", "LINKED", "UNLINKED"}]
    BY <1>1, <1>4 DEF SubmitFail, TypeOK
  <2> QED BY <1>2, <1>4, <2>1, <2>2 DEF SubmitFail, TypeOK, locks, counts
<1> QED BY <1>3, <1>4 DEF SubmitStep

\* Every step keeps the types.
LEMMA TypeStep ==
    ASSUME TypeOK, [Next]_vars
    PROVE  TypeOK'
<1>1. ASSUME NEW e \in Eps, HwRetire(e)
      PROVE  TypeOK'
  <2>1. PICK t \in Trps : /\ HwAt(e, t)
                          /\ qtd' = [qtd EXCEPT ![t].ran = @ + 1]
                          /\ irq' = (irq \/ qtd[t].ran + 1 = qtd[t].left)
    BY <1>1 DEF HwRetire
  <2>2. [qtd[t] EXCEPT !.ran = @ + 1] \in QtdState
    <3>1. qtd[t] \in QtdState /\ qtd[t].ran < qtd[t].left
      BY <2>1 DEF TypeOK, HwAt
    <3> QED BY <3>1, EhciXferAssumption DEF QtdState
  <2>3. qtd' \in [Trps -> QtdState] /\ irq' \in BOOLEAN
    BY <2>1, <2>2 DEF TypeOK
  <2> QED BY <1>1, <2>3 DEF HwRetire, TypeOK, locks, counts, calls
<1>2. ASSUME NEW e \in Eps, HwStop(e)
      PROVE  TypeOK'
  <2>1. PICK t \in Trps, f \in Faults :
           /\ qtd' = [qtd EXCEPT ![t].stop = f]
           /\ halted' = [halted EXCEPT ![e] = (f # "SHORT")]
    BY <1>2 DEF HwStop
  <2>2. [qtd[t] EXCEPT !.stop = f] \in QtdState
    <3>1. qtd[t] \in QtdState /\ f \in Stops
      BY EhciXferAssumption DEF TypeOK
    <3> QED BY <3>1 DEF QtdState
  <2>3. qtd' \in [Trps -> QtdState] /\ halted' \in [Eps -> BOOLEAN]
    BY <2>1, <2>2 DEF TypeOK
  <2> QED BY <1>2, <2>3 DEF HwStop, TypeOK, locks, counts, calls
<1>3. CASE WorkBegin
  <2>1. pc' \in [Actors -> {"idle", "scan", "disable", "drain", "draining"}]
    BY <1>3 DEF TypeOK, WorkBegin
  <2>2. todo' \subseteq Eps /\ EhciTask \in Actors
    BY <1>3 DEF WorkBegin, Linked, Eps, Actors
  <2> QED BY <1>3, <2>1, <2>2 DEF WorkBegin, TypeOK, locks, counts, calls
<1>4. CASE WorkNext
  BY <1>4 DEF WorkNext, Frame, TypeOK, ScanFrames, locks, counts, calls
<1>5. ASSUME NEW a \in Actors, HandleRetry(a)
      PROVE  TypeOK'
  <2>1. PICK t \in Trps : qtd' = [qtd EXCEPT ![t].stop = "NONE"]
    BY <1>5 DEF HandleRetry
  <2>2. qtd' \in [Trps -> QtdState]
    <3>1. qtd[t] \in QtdState
      BY DEF TypeOK
    <3>2. [qtd[t] EXCEPT !.stop = "NONE"] \in QtdState
      BY <3>1 DEF QtdState
    <3> QED BY <2>1, <3>2 DEF TypeOK
  <2>3. scan' \in ScanFrames
    <3>1. scan' = scan \/ scan' = NoScan
      BY <1>5 DEF HandleRetry
    <3>2. scan \in ScanFrames /\ NoScan \in ScanFrames
      BY DEF TypeOK, NoScan, ScanFrames
    <3> QED BY <3>1, <3>2
  <2>4. xactErrs' \in [Eps -> Nat]
    <3>1. xactErrs' = [xactErrs EXCEPT ![scan.ep] = @ + 1]
      BY <1>5 DEF HandleRetry
    <3>2. xactErrs \in [Eps -> Nat] /\ \A e \in Eps : xactErrs[e] + 1 \in Nat
      BY DEF TypeOK
    <3> QED BY <3>1, <3>2
  <2>5. halted' \in [Eps -> BOOLEAN]
    <3>1. halted' = [halted EXCEPT ![scan.ep] = FALSE]
      BY <1>5 DEF HandleRetry
    <3> QED BY <3>1 DEF TypeOK
  <2> QED BY <1>5, <2>2, <2>3, <2>4, <2>5 DEF HandleRetry, TypeOK, locks, counts, calls
<1>6. ASSUME NEW a \in Actors, HandleQtd(a)
      PROVE  TypeOK'
  <2>1. PICK t \in Trps :
           /\ Removable(a, t) /\ qtd[t].left > 1 /\ RemoveQtd(t)
           /\ scan' = [scan EXCEPT !.work = @ /\ Token(t) \notin Stops, !.acc = Acc(t)]
    BY <1>6 DEF HandleQtd
  <2>2. qtd[t].left > 0
    BY <2>1 DEF TypeOK, QtdState
  <2>3. /\ qtd' \in [Trps -> QtdState] /\ xactErrs' \in [Eps -> Nat]
        /\ Acc(t) \in {"INPROGRESS", "ERROR", "SHORT"}
    BY <2>1, <2>2, RemoveQtdType
  <2>4. scan' \in ScanFrames
    BY <2>1, <2>3 DEF TypeOK, ScanFrames
  <2> QED BY <1>6, <2>1, <2>3, <2>4 DEF HandleQtd, RemoveQtd, TypeOK, locks, calls
<1>7. ASSUME NEW a \in Actors, HandleTrp(a)
      PROVE  TypeOK'
  <2>1. PICK t \in Trps : /\ LastQtd(a, t)
                          /\ status' = [status EXCEPT ![t] = Reported(Acc(t))]
                          /\ doneList' = Append(doneList, t)
    BY <1>7 DEF HandleTrp
  <2>2. doneList' \in Seq(Trps)
    BY <2>1 DEF TypeOK
  <2>3. status' \in [Trps -> {"INPROGRESS", "OK", "ERROR", "CANCEL"}]
    BY <2>1 DEF TypeOK, Reported
  <2>4. UNCHANGED <<locks, st, halted, asyncCount, pse, irq, pc, todo, calls>>
    BY <2>1 DEF LastQtd, RemoveQtd
  <2> QED BY <2>1, <2>2, <2>3, <2>4, LastQtdType DEF TypeOK, locks, calls
<1>8. ASSUME NEW a \in Actors, HandleTrpTimeout(a)
      PROVE  TypeOK'
  <2>1. PICK t \in Trps : LastQtd(a, t)
    BY <1>8 DEF HandleTrpTimeout
  <2>2. UNCHANGED <<locks, st, halted, asyncCount, pse, irq, pc, todo, calls>>
    BY <2>1 DEF LastQtd, RemoveQtd
  <2> QED BY <1>8, <2>1, <2>2, LastQtdType DEF HandleTrpTimeout, TypeOK, locks, calls
<1>9. ASSUME NEW a \in Actors, HandleEnd(a)
      PROVE  TypeOK'
  BY <1>9 DEF HandleEnd, NoScan, ScanFrames, TypeOK, locks, counts, calls
<1>10. ASSUME NEW a \in Actors, ScanEnd(a)
      PROVE  TypeOK'
  BY <1>10 DEF ScanEnd, TypeOK, locks, counts, calls
<1>11. ASSUME NEW a \in Actors, DrainBegin(a)
      PROVE  TypeOK'
  BY <1>11 DEF DrainBegin, TypeOK, locks, counts, calls
<1>12. ASSUME NEW a \in Actors, DrainOne(a)
      PROVE  TypeOK'
  BY <1>12 DEF DrainOne, TypeOK, locks, counts, calls
<1>13. ASSUME NEW a \in Actors, CbReturn(a)
      PROVE  TypeOK'
  BY <1>13 DEF CbReturn, TypeOK, locks, counts, calls
<1>14. ASSUME NEW a \in Actors, CbTimeout(a)
      PROVE  TypeOK'
  BY <1>14 DEF CbTimeout, TypeOK, locks, counts, calls
<1>15. ASSUME NEW a \in Actors, DrainEnd(a)
      PROVE  TypeOK'
  BY <1>15 DEF DrainEnd, Return, TypeOK, locks, counts, calls
<1>16. ASSUME NEW a \in Actors, DrainTimeout(a)
      PROVE  TypeOK'
  BY <1>16 DEF DrainTimeout, Return, TypeOK, locks, counts, calls
<1>17. ASSUME NEW u \in Users, NEW t \in Trps, CancelBegin(u, t)
      PROVE  TypeOK'
  <2>1. u \in Actors /\ EpOf[t] \in Eps
    BY EhciXferAssumption DEF Actors
  <2>2. /\ status' \in [Trps -> {"INPROGRESS", "OK", "ERROR", "CANCEL"}]
        /\ target' \in [Actors -> Trps \cup {Nobody}]
    BY <1>17, <2>1 DEF CancelBegin, TypeOK
  <2>3. /\ st' \in [Eps -> {"NONE", "IDLE", "LINKED", "UNLINKED"}]
        /\ asyncCount' \in Nat /\ intrCount' \in Nat /\ pse' \in BOOLEAN
    BY <1>17, <2>1, UnlinkType DEF CancelBegin, TypeOK, counts
  <2>4. pc' \in [Actors -> {"idle", "scan", "disable", "drain", "draining"}]
    BY <1>17, <2>1 DEF CancelBegin, TypeOK
  <2>5. scan' \in ScanFrames /\ {hcLock', lock'} \subseteq Actors \cup {Nobody}
    <3>1. /\ scan' = scan \/ scan' = Frame(EpOf[t], FALSE)
          /\ hcLock' = u /\ (lock' = lock \/ lock' = u)
      BY <1>17 DEF CancelBegin
    <3>2. Frame(EpOf[t], FALSE) \in ScanFrames
      BY <2>1 DEF Frame, ScanFrames
    <3> QED BY <2>1, <3>1, <3>2 DEF TypeOK
  <2>6. UNCHANGED <<doneLock, queue, qtd, halted, xactErrs, doneList, irq, todo, cb>>
    BY <1>17 DEF CancelBegin
  <2> QED BY <2>2, <2>3, <2>4, <2>5, <2>6 DEF TypeOK
<1>18. ASSUME NEW u \in Users, NEW e \in Eps, EpDisable(u, e)
      PROVE  TypeOK'
  <2>1. u \in Actors
    BY DEF Actors
  <2>2. /\ st' \in [Eps -> {"NONE", "IDLE", "LINKED", "UNLINKED"}]
        /\ asyncCount' \in Nat /\ intrCount' \in Nat /\ pse' \in BOOLEAN
    BY <1>18, UnlinkType DEF EpDisable, TypeOK, counts
  <2>3. scan' \in ScanFrames
    BY <1>18 DEF EpDisable, Frame, ScanFrames
  <2> QED BY <1>18, <2>1, <2>2, <2>3 DEF EpDisable, TypeOK, calls
<1>19. ASSUME NEW u \in Users, DisableEnd(u)
      PROVE  TypeOK'
  <2>1. u \in Actors
    BY DEF Actors
  <2>2. halted' \in [Eps -> BOOLEAN] /\ xactErrs' \in [Eps -> Nat]
    BY <1>19 DEF DisableEnd, TypeOK
  <2>3. st' \in [Eps -> {"NONE", "IDLE", "LINKED", "UNLINKED"}]
    BY <1>19 DEF DisableEnd, TypeOK
  <2>4. scan' \in ScanFrames
    BY <1>19 DEF DisableEnd, NoScan, ScanFrames
  <2> QED BY <1>19, <2>1, <2>2, <2>3, <2>4 DEF DisableEnd, TypeOK, counts, calls
<1>20. CASE UNCHANGED vars
  BY <1>20 DEF vars, TypeOK, locks, counts, calls
<1> QED
  BY NextActions, SubmitType, <1>1, <1>2, <1>3, <1>4, <1>5, <1>6, <1>7, <1>8,
     <1>9, <1>10, <1>11, <1>12, <1>13, <1>14, <1>15, <1>16, <1>17, <1>18,
     <1>19, <1>20

LEMMA TypeInit == Init => TypeOK
<1>1. Free \in QtdState /\ NoScan \in ScanFrames
  BY EhciXferAssumption DEF QtdState, Free, NoScan, ScanFrames
<1>2. ASSUME Init
      PROVE  TypeOK
  <2>1. {hcLock, lock, doneLock} \subseteq Actors \cup {Nobody}
    BY <1>2 DEF Init
  <2>2. st \in [Eps -> {"NONE", "IDLE", "LINKED", "UNLINKED"}]
    BY <1>2 DEF Init
  <2>3. queue \in [Eps -> Seq(Trps)]
    BY <1>2 DEF Init
  <2>4. doneList \in Seq(Trps)
    BY <1>2 DEF Init
  <2>5. qtd \in [Trps -> QtdState]
    BY <1>1, <1>2 DEF Init
  <2>6. xactErrs \in [Eps -> Nat] /\ halted \in [Eps -> BOOLEAN]
    BY <1>2 DEF Init
  <2>7. status \in [Trps -> {"INPROGRESS", "OK", "ERROR", "CANCEL"}]
    BY <1>2 DEF Init
  <2>8. asyncCount \in Nat /\ intrCount \in Nat /\ pse \in BOOLEAN /\ irq \in BOOLEAN
    BY <1>2 DEF Init
  <2>9. pc \in [Actors -> {"idle", "scan", "disable", "drain", "draining"}]
    BY <1>2 DEF Init
  <2>10. todo \subseteq Eps /\ scan \in ScanFrames
    BY <1>1, <1>2 DEF Init
  <2>11. target \in [Actors -> Trps \cup {Nobody}] /\ cb \in [Actors -> Trps \cup {Nobody}]
    BY <1>2 DEF Init
  <2> QED BY <2>1, <2>2, <2>3, <2>4, <2>5, <2>6, <2>7, <2>8, <2>9, <2>10, <2>11 DEF TypeOK
<1> QED BY <1>2

\* Every variable stays in its type: in particular no counter goes below
\* zero, where an unsigned counter of the code would wrap.
THEOREM TypeCorrect == Spec => []TypeOK
<1>1. Init => TypeOK
  BY TypeInit
<1>2. TypeOK /\ [Next]_vars => TypeOK'
  BY TypeStep
<1> QED BY <1>1, <1>2, PTL DEF Spec
-----------------------------------------------------------------------------
(* The schedules: the inductive invariant                                  *)

\* qh_handle runs with p_lock held, and its QH exists.
ScanLocked == scan.ep # Nobody => lock # Nobody /\ st[scan.ep] # "NONE"

\* A task in qh_handle, or between two QHs, is the holder of p_lock.
LockOwner == \A a \in Actors : pc[a] \in {"scan", "disable"} => lock = a

\* While ep_disable empties a QH, the QH is off its schedule.
DisableFrame ==
    \A a \in Actors : pc[a] = "disable" =>
        scan.ep \in Eps /\ ~scan.work /\ st[scan.ep] # "LINKED"

\* The scan of the EHCI task only handles QHs that are on their schedule.
WorkLinked ==
    /\ scan.work => scan.ep \in Eps /\ st[scan.ep] = "LINKED"
    /\ todo \subseteq Linked(Eps)
    /\ todo # {} => lock = EhciTask

SchedInv == /\ ScanLocked /\ LockOwner /\ DisableFrame /\ WorkLinked
            /\ PendingScheduled /\ AsyncCountExact

\* A QH that changes state changes the number of linked QHs.
LEMMA CountLinked ==
    ASSUME TypeOK, NEW e \in AsyncEps, NEW s, st' = [st EXCEPT ![e] = s]
    PROVE  /\ Cardinality(Linked(AsyncEps)) \in Nat
           /\ st[e] # "LINKED" /\ s = "LINKED"
                => Cardinality(Linked(AsyncEps)') = Cardinality(Linked(AsyncEps)) + 1
           /\ st[e] = "LINKED" /\ s # "LINKED"
                => /\ Cardinality(Linked(AsyncEps)) > 0
                   /\ Cardinality(Linked(AsyncEps)') = Cardinality(Linked(AsyncEps)) - 1
<1>1. IsFiniteSet(Linked(AsyncEps))
  <2>1. Linked(AsyncEps) \subseteq AsyncEps
    BY DEF Linked
  <2> QED BY <2>1, EhciXferAssumption, FS_Subset
<1>2. Cardinality(Linked(AsyncEps)) \in Nat
  BY <1>1, FS_CardinalityType
<1>3. AsyncEps \subseteq Eps /\ st \in [Eps -> {"NONE", "IDLE", "LINKED", "UNLINKED"}]
  BY DEF Eps, TypeOK
<1>4. ASSUME st[e] # "LINKED", s = "LINKED"
      PROVE  Cardinality(Linked(AsyncEps)') = Cardinality(Linked(AsyncEps)) + 1
  <2>1. Linked(AsyncEps)' = Linked(AsyncEps) \cup {e} /\ e \notin Linked(AsyncEps)
    BY <1>3, <1>4 DEF Linked
  <2> QED BY <1>1, <2>1, FS_AddElement
<1>5. ASSUME st[e] = "LINKED", s # "LINKED"
      PROVE  /\ Cardinality(Linked(AsyncEps)) > 0
             /\ Cardinality(Linked(AsyncEps)') = Cardinality(Linked(AsyncEps)) - 1
  <2>1. Linked(AsyncEps)' = Linked(AsyncEps) \ {e} /\ e \in Linked(AsyncEps)
    BY <1>3, <1>5 DEF Linked
  <2>2. Cardinality(Linked(AsyncEps)) # 0
    BY <1>1, <2>1, FS_EmptySet
  <2>3. Cardinality(Linked(AsyncEps)') = Cardinality(Linked(AsyncEps)) - 1
    BY <1>1, <2>1, FS_RemoveElement
  <2> QED BY <1>2, <2>2, <2>3
<1> QED BY <1>2, <1>4, <1>5

\* A step that links or unlinks no asynchronous QH keeps their number.
LEMMA CountKept ==
    ASSUME TypeOK, AsyncCountExact, asyncCount' = asyncCount,
           \A e \in AsyncEps : st'[e] = "LINKED" <=> st[e] = "LINKED"
    PROVE  AsyncCountExact'
<1>1. Linked(AsyncEps)' = Linked(AsyncEps)
  BY DEF Linked
<1> QED BY <1>1 DEF AsyncCountExact

\* Linking counts a QH that was not linked.
LEMMA CountSubmit ==
    ASSUME TypeOK, AsyncCountExact, NEW a \in Actors, NEW t \in Trps, Submit(a, t)
    PROVE  AsyncCountExact'
<1>1. EpOf[t] \in Eps /\ st' = [st EXCEPT ![EpOf[t]] = "LINKED"]
  BY EhciXferAssumption DEF Submit
<1>2. st \in [Eps -> {"NONE", "IDLE", "LINKED", "UNLINKED"}] /\ AsyncEps \subseteq Eps
  BY DEF TypeOK, Eps
<1>3. CASE EpOf[t] \notin AsyncEps
  <2>1. asyncCount' = asyncCount
    BY <1>3 DEF Submit, IntrLink
  <2>2. \A e \in AsyncEps : st'[e] = st[e]
    BY <1>1, <1>2, <1>3
  <2> QED BY <2>1, <2>2, CountKept
<1>4. CASE EpOf[t] \in AsyncEps /\ st[EpOf[t]] = "LINKED"
  <2>1. asyncCount' = asyncCount
    BY <1>4 DEF Submit, AsyncLink
  <2>2. \A e \in AsyncEps : st'[e] = st[e]
    BY <1>1, <1>2, <1>4
  <2> QED BY <2>1, <2>2, CountKept
<1>5. CASE EpOf[t] \in AsyncEps /\ st[EpOf[t]] # "LINKED"
  <2>1. asyncCount' = asyncCount + 1
    BY <1>5 DEF Submit, AsyncLink
  <2> QED BY <1>1, <1>5, <2>1, CountLinked DEF AsyncCountExact
<1> QED BY <1>3, <1>4, <1>5

\* Unlinking takes back the count of the QH.
LEMMA CountUnlink ==
    ASSUME TypeOK, AsyncCountExact, NEW e \in Eps, st[e] = "LINKED", Unlink(e)
    PROVE  AsyncCountExact'
<1>1. st' = [st EXCEPT ![e] = "UNLINKED"]
  BY DEF Unlink
<1>2. st \in [Eps -> {"NONE", "IDLE", "LINKED", "UNLINKED"}] /\ AsyncEps \subseteq Eps
  BY DEF TypeOK, Eps
<1>3. CASE e \notin AsyncEps
  <2>1. asyncCount' = asyncCount
    BY <1>3 DEF Unlink, IntrUnlink
  <2>2. \A f \in AsyncEps : st'[f] = st[f]
    BY <1>1, <1>2, <1>3
  <2> QED BY <2>1, <2>2, CountKept
<1>4. CASE e \in AsyncEps
  <2>1. asyncCount > 0 /\ Cardinality(Linked(AsyncEps)') = Cardinality(Linked(AsyncEps)) - 1
    <3>1. \A s : /\ st' = [st EXCEPT ![e] = s] /\ s # "LINKED"
                => /\ Cardinality(Linked(AsyncEps)) > 0
                   /\ Cardinality(Linked(AsyncEps)') = Cardinality(Linked(AsyncEps)) - 1
      BY <1>4, CountLinked
    <3> QED BY <1>1, <3>1 DEF AsyncCountExact
  <2>2. asyncCount' = asyncCount - 1
    BY <1>4, <2>1 DEF Unlink, AsyncUnlink
  <2> QED BY <2>1, <2>2 DEF AsyncCountExact
<1> QED BY <1>3, <1>4

\* A step that leaves the schedules alone, and moves no task into qh_handle.
Quiet ==
    /\ UNCHANGED <<lock, st, queue, scan, todo, asyncCount>>
    /\ \A a \in Actors : pc'[a] \in {"scan", "disable"} => pc'[a] = pc[a]

LEMMA QuietStep ==
    ASSUME TypeOK, SchedInv, Quiet
    PROVE  SchedInv'
<1>1. AsyncCountExact'
  BY CountKept DEF SchedInv, Quiet
<1>2. LockOwner' /\ DisableFrame'
  BY DEF SchedInv, Quiet, LockOwner, DisableFrame
<1>3. ScanLocked' /\ WorkLinked' /\ PendingScheduled'
  BY DEF SchedInv, Quiet, ScanLocked, WorkLinked, PendingScheduled, Linked
<1> QED BY <1>1, <1>2, <1>3 DEF SchedInv

\* A step of qh_handle on one qTD: the frame stays, or it closes on a QH
\* that is linked or empty, and only the queue of its QH gets shorter.
ScanStep ==
    /\ UNCHANGED <<lock, st, todo, asyncCount, pc>>
    /\ \A e \in Eps \ {scan.ep} : queue'[e] = queue[e]
    /\ \/ scan'.ep = scan.ep /\ (scan'.work => scan.work)
       \/ /\ scan' = NoScan /\ queue' = queue
          /\ scan.work \/ (queue[scan.ep] = <<>> /\ pc[lock] = "scan")

LEMMA ScanStepKeeps ==
    ASSUME TypeOK, SchedInv, lock \in Actors, scan.ep \in Eps, ScanStep
    PROVE  SchedInv'
<1>1. AsyncCountExact'
  BY CountKept DEF SchedInv, ScanStep
<1>2. Nobody \notin Eps /\ Nobody \notin Actors
  BY EhciXferAssumption
<1>3. LockOwner'
  BY DEF SchedInv, ScanStep, LockOwner
<1>4. CASE scan'.ep = scan.ep /\ (scan'.work => scan.work)
  <2>1. ScanLocked' /\ WorkLinked' /\ DisableFrame'
    BY <1>4 DEF SchedInv, ScanStep, ScanLocked, WorkLinked, DisableFrame, Linked, TypeOK, ScanFrames
  <2>2. PendingScheduled'
    BY <1>4 DEF SchedInv, ScanStep, PendingScheduled
  <2> QED BY <1>1, <1>3, <2>1, <2>2 DEF SchedInv
<1>5. CASE /\ scan' = NoScan /\ queue' = queue
           /\ scan.work \/ (queue[scan.ep] = <<>> /\ pc[lock] = "scan")
  <2>1. scan'.ep = Nobody /\ scan'.work = FALSE
    BY <1>5 DEF NoScan
  <2>2. ScanLocked' /\ WorkLinked'
    BY <1>2, <2>1 DEF SchedInv, ScanStep, ScanLocked, WorkLinked, Linked
  <2>3. \A a \in Actors : pc[a] # "disable"
    BY <1>5 DEF SchedInv, DisableFrame, LockOwner
  <2>4. DisableFrame'
    BY <2>3 DEF ScanStep, DisableFrame
  <2>5. queue[scan.ep] # <<>> => st[scan.ep] = "LINKED"
    BY <1>5 DEF SchedInv, WorkLinked
  <2>6. PendingScheduled'
    BY <1>5, <2>5 DEF SchedInv, ScanStep, PendingScheduled
  <2> QED BY <1>1, <1>3, <2>2, <2>4, <2>6 DEF SchedInv
<1> QED BY <1>4, <1>5 DEF ScanStep

\* The removal of a TRP's last qTD is a step of that kind.
LEMMA LastQtdScanStep ==
    ASSUME TypeOK, NEW a \in Actors, NEW t \in Trps, LastQtd(a, t)
    PROVE  ScanStep /\ lock \in Actors /\ scan.ep \in Eps
<1>1. AtQtd(a, t) /\ RemoveQtd(t)
  BY DEF LastQtd, Removable
<1>2. lock = a /\ scan.ep \in Eps
  BY <1>1 DEF AtQtd, TypeOK, ScanFrames
<1>3. UNCHANGED <<lock, st, todo, asyncCount, pc>>
  BY <1>1 DEF RemoveQtd, locks
<1>4. \A e \in Eps \ {scan.ep} : queue'[e] = queue[e]
  BY DEF LastQtd, TypeOK
<1>5. scan'.ep = scan.ep /\ (scan'.work => scan.work)
  BY DEF LastQtd, Frame
<1> QED BY <1>2, <1>3, <1>4, <1>5 DEF ScanStep

\* Every step keeps the invariant of the schedules.
LEMMA ScheduleStep ==
    ASSUME TypeOK, SchedInv, [Next]_vars
    PROVE  SchedInv'
<1>0. /\ Nobody \notin Eps /\ Nobody \notin Actors /\ EhciTask \notin Users
      /\ EhciTask \in Actors /\ Users \subseteq Actors
      /\ st \in [Eps -> {"NONE", "IDLE", "LINKED", "UNLINKED"}]
      /\ queue \in [Eps -> Seq(Trps)]
      /\ pc \in [Actors -> {"idle", "scan", "disable", "drain", "draining"}]
  BY EhciXferAssumption DEF Actors, TypeOK
<1>1. ASSUME NEW e \in Eps, HwRetire(e) \/ HwStop(e)
      PROVE  SchedInv'
  <2>1. Quiet
    BY <1>1 DEF HwRetire, HwStop, Quiet, locks, counts
  <2> QED BY <2>1, QuietStep
<1>2. CASE WorkBegin
  <2>1. /\ lock = Nobody /\ lock' = EhciTask
        /\ pc' = [pc EXCEPT ![EhciTask] = "scan"]
        /\ UNCHANGED <<st, queue, scan, asyncCount>>
    BY <1>2 DEF WorkBegin, counts
  <2>2. AsyncCountExact'
    BY <2>1, CountKept DEF SchedInv
  <2>3. \A a \in Actors : pc[a] \notin {"scan", "disable"}
    BY <1>0, <2>1 DEF SchedInv, LockOwner
  <2>4. LockOwner' /\ DisableFrame'
    BY <1>0, <2>1, <2>3 DEF LockOwner, DisableFrame
  <2>5. scan.ep = Nobody /\ ~scan.work
    BY <1>0, <2>1 DEF SchedInv, ScanLocked, WorkLinked, TypeOK, ScanFrames
  <2>6. todo' \subseteq Linked(Eps)
    BY <1>2 DEF WorkBegin, Linked, Eps
  <2>7. ScanLocked' /\ WorkLinked' /\ PendingScheduled'
    BY <2>1, <2>5, <2>6 DEF SchedInv, ScanLocked, WorkLinked, PendingScheduled, Linked
  <2> QED BY <2>2, <2>4, <2>7 DEF SchedInv
<1>3. CASE WorkNext
  <2>1. PICK e \in todo : scan' = Frame(e, TRUE) /\ todo' = todo \ {e}
    BY <1>3 DEF WorkNext
  <2>2. /\ lock = EhciTask /\ scan.ep = Nobody
        /\ UNCHANGED <<lock, st, queue, pc, asyncCount>>
    BY <1>3 DEF WorkNext, NoScan, locks, counts
  <2>3. e \in Eps /\ st[e] = "LINKED" /\ scan'.ep = e /\ scan'.work = TRUE
    BY <2>1 DEF SchedInv, WorkLinked, Linked, Frame
  <2>4. AsyncCountExact'
    BY <2>2, CountKept DEF SchedInv
  <2>5. LockOwner' /\ DisableFrame'
    BY <1>0, <2>2 DEF SchedInv, LockOwner, DisableFrame
  <2>6. ScanLocked' /\ WorkLinked' /\ PendingScheduled'
    BY <1>0, <2>1, <2>2, <2>3
    DEF SchedInv, ScanLocked, WorkLinked, PendingScheduled, Linked
  <2> QED BY <2>4, <2>5, <2>6 DEF SchedInv
<1>4. ASSUME NEW a \in Actors, HandleRetry(a)
      PROVE  SchedInv'
  <2>1. PICK t \in Trps : AtQtd(a, t)
    BY <1>4 DEF HandleRetry
  <2>2. lock = a /\ scan.ep \in Eps
    BY <2>1 DEF AtQtd, TypeOK, ScanFrames
  <2>3. ScanStep
    BY <1>4 DEF HandleRetry, ScanStep, locks, counts
  <2> QED BY <2>2, <2>3, ScanStepKeeps
<1>5. ASSUME NEW a \in Actors, HandleQtd(a)
      PROVE  SchedInv'
  <2>1. PICK t \in Trps :
           /\ AtQtd(a, t) /\ RemoveQtd(t)
           /\ scan' = [scan EXCEPT !.work = @ /\ Token(t) \notin Stops, !.acc = Acc(t)]
    BY <1>5 DEF HandleQtd, Removable
  <2>2. lock = a /\ scan.ep \in Eps /\ scan \in ScanFrames
    BY <2>1 DEF AtQtd, TypeOK, ScanFrames
  <2>3. scan'.ep = scan.ep /\ (scan'.work => scan.work)
    BY <2>1, <2>2 DEF ScanFrames
  <2>4. ScanStep
    BY <1>5, <2>1, <2>3 DEF HandleQtd, RemoveQtd, ScanStep, locks
  <2> QED BY <2>2, <2>4, ScanStepKeeps
<1>6. ASSUME NEW a \in Actors, HandleTrp(a) \/ HandleTrpTimeout(a)
      PROVE  SchedInv'
  <2>1. PICK t \in Trps : LastQtd(a, t)
    BY <1>6 DEF HandleTrp, HandleTrpTimeout
  <2> QED BY <2>1, LastQtdScanStep, ScanStepKeeps
<1>7. ASSUME NEW a \in Actors, HandleEnd(a)
      PROVE  SchedInv'
  <2>1. lock = a /\ scan.ep \in Eps
    BY <1>7 DEF HandleEnd, TypeOK, ScanFrames
  <2>2. ScanStep
    BY <1>7 DEF HandleEnd, ScanStep, locks, counts
  <2> QED BY <2>1, <2>2, ScanStepKeeps
<1>8. ASSUME NEW a \in Actors, ScanEnd(a)
      PROVE  SchedInv'
  <2>1. /\ pc[a] = "scan" /\ scan = NoScan /\ (a = EhciTask => todo = {})
        /\ lock' = Nobody /\ pc' = [pc EXCEPT ![a] = "drain"]
        /\ UNCHANGED <<st, queue, scan, todo, asyncCount>>
    BY <1>8 DEF ScanEnd, counts
  <2>2. lock = a
    BY <2>1 DEF SchedInv, LockOwner
  <2>3. todo = {}
    BY <2>1, <2>2 DEF SchedInv, WorkLinked
  <2>4. \A b \in Actors : pc'[b] \notin {"scan", "disable"}
    BY <1>0, <2>1, <2>2 DEF SchedInv, LockOwner
  <2>5. AsyncCountExact'
    BY <2>1, CountKept DEF SchedInv
  <2>6. LockOwner' /\ DisableFrame'
    BY <2>4 DEF LockOwner, DisableFrame
  <2>7. ScanLocked' /\ WorkLinked' /\ PendingScheduled'
    BY <2>1, <2>3 DEF SchedInv, NoScan, ScanLocked, WorkLinked, PendingScheduled
  <2> QED BY <2>5, <2>6, <2>7 DEF SchedInv
<1>9. ASSUME NEW a \in Actors,
             \/ DrainBegin(a) \/ DrainOne(a) \/ CbReturn(a)
             \/ CbTimeout(a) \/ DrainEnd(a) \/ DrainTimeout(a)
      PROVE  SchedInv'
  <2>1. UNCHANGED <<lock, st, queue, scan, todo, asyncCount>>
    BY <1>9 DEF DrainBegin, DrainOne, CbReturn, CbTimeout, DrainEnd, DrainTimeout,
                Return, locks, counts
  <2>2. pc' = pc \/ pc' = [pc EXCEPT ![a] = "draining"] \/ pc' = [pc EXCEPT ![a] = "idle"]
    BY <1>9 DEF DrainBegin, DrainOne, CbReturn, CbTimeout, DrainEnd, DrainTimeout, Return
  <2>3. Quiet
    BY <1>0, <2>1, <2>2 DEF Quiet
  <2> QED BY <2>3, QuietStep
<1>10. ASSUME NEW a \in Actors, NEW t \in Trps, SubmitStep(a, t)
       PROVE  SchedInv'
  <2>1. EpOf[t] \in Eps
    BY EhciXferAssumption
  <2>2. lock = Nobody /\ UNCHANGED <<lock, pc, todo, scan>>
    BY <1>10 DEF SubmitStep, Submit, SubmitFail, locks
  <2>3. scan.ep = Nobody /\ ~scan.work /\ todo = {}
    BY <1>0, <2>2 DEF SchedInv, ScanLocked, WorkLinked, TypeOK, ScanFrames
  <2>4. \A b \in Actors : pc[b] \notin {"scan", "disable"}
    BY <1>0, <2>2 DEF SchedInv, LockOwner
  <2>5. ScanLocked' /\ LockOwner' /\ DisableFrame' /\ WorkLinked'
    BY <2>2, <2>3, <2>4 DEF ScanLocked, LockOwner, DisableFrame, WorkLinked
  <2>6. CASE Submit(a, t)
    <3>1. AsyncCountExact'
      BY <2>6, CountSubmit DEF SchedInv
    <3>2. PendingScheduled'
      <4>1. /\ st' = [st EXCEPT ![EpOf[t]] = "LINKED"]
            /\ \A e \in Eps \ {EpOf[t]} : queue'[e] = queue[e]
        BY <1>0, <2>6 DEF Submit
      <4> QED BY <1>0, <2>1, <2>2, <4>1 DEF SchedInv, PendingScheduled
    <3> QED BY <2>5, <3>1, <3>2 DEF SchedInv
  <2>7. CASE SubmitFail(a, t)
    <3>1. /\ st' = [st EXCEPT ![EpOf[t]] = IF @ = "NONE" THEN "IDLE" ELSE @]
          /\ UNCHANGED <<queue, asyncCount>>
      BY <2>7 DEF SubmitFail, counts
    <3>2. \A e \in Eps : st'[e] = "LINKED" <=> st[e] = "LINKED"
      BY <1>0, <2>1, <3>1
    <3>3. AsyncCountExact'
      BY <3>1, <3>2, CountKept DEF SchedInv, Eps
    <3>4. PendingScheduled'
      BY <2>2, <3>1, <3>2 DEF SchedInv, PendingScheduled
    <3> QED BY <2>5, <3>3, <3>4 DEF SchedInv
  <2> QED BY <1>10, <2>6, <2>7 DEF SubmitStep
<1>11. ASSUME NEW u \in Users, NEW t \in Trps, CancelBegin(u, t)
       PROVE  SchedInv'
  <2>1. EpOf[t] \in Eps /\ u \in Actors /\ u # Nobody
    BY <1>0, EhciXferAssumption
  <2>2. lock = Nobody /\ UNCHANGED <<todo, queue>>
    BY <1>11 DEF CancelBegin, Idle
  <2>3. scan.ep = Nobody /\ ~scan.work /\ todo = {}
    BY <1>0, <2>2 DEF SchedInv, ScanLocked, WorkLinked, TypeOK, ScanFrames
  <2>4. \A b \in Actors : pc[b] \notin {"scan", "disable"}
    BY <1>0, <2>2 DEF SchedInv, LockOwner
  <2>5. CASE st[EpOf[t]] = "LINKED"
    <3>1. /\ Unlink(EpOf[t]) /\ lock' = u /\ scan' = Frame(EpOf[t], FALSE)
          /\ pc' = [pc EXCEPT ![u] = "scan"]
      BY <1>11, <2>5 DEF CancelBegin
    <3>2. scan'.ep = EpOf[t] /\ scan'.work = FALSE
      BY <3>1 DEF Frame
    <3>3. st' = [st EXCEPT ![EpOf[t]] = "UNLINKED"]
      BY <3>1 DEF Unlink
    <3>4. AsyncCountExact'
      BY <2>1, <2>5, <3>1, CountUnlink DEF SchedInv
    <3>5. ScanLocked' /\ WorkLinked'
      BY <1>0, <2>1, <2>2, <2>3, <3>1, <3>2, <3>3 DEF ScanLocked, WorkLinked
    <3>6. LockOwner' /\ DisableFrame'
      BY <1>0, <2>4, <3>1 DEF LockOwner, DisableFrame
    <3>7. PendingScheduled'
      BY <1>0, <2>2, <2>3, <3>2, <3>3 DEF SchedInv, PendingScheduled
    <3> QED BY <3>4, <3>5, <3>6, <3>7 DEF SchedInv
  <2>6. CASE st[EpOf[t]] # "LINKED"
    <3>1. Quiet
      BY <1>0, <1>11, <2>6 DEF CancelBegin, Quiet, counts
    <3> QED BY <3>1, QuietStep
  <2> QED BY <2>5, <2>6
<1>12. ASSUME NEW u \in Users, NEW e \in Eps, EpDisable(u, e)
       PROVE  SchedInv'
  <2>1. u \in Actors /\ u # Nobody
    BY <1>0
  <2>2. /\ lock = Nobody /\ lock' = u /\ st[e] # "NONE" /\ UNCHANGED <<todo, queue>>
        /\ scan' = Frame(e, FALSE) /\ pc' = [pc EXCEPT ![u] = "disable"]
    BY <1>12 DEF EpDisable, Idle
  <2>3. scan.ep = Nobody /\ ~scan.work /\ todo = {}
    BY <1>0, <2>2 DEF SchedInv, ScanLocked, WorkLinked, TypeOK, ScanFrames
  <2>4. \A b \in Actors : pc[b] \notin {"scan", "disable"}
    BY <1>0, <2>2 DEF SchedInv, LockOwner
  <2>5. scan'.ep = e /\ scan'.work = FALSE
    BY <2>2 DEF Frame
  <2>6. /\ AsyncCountExact' /\ st'[e] \notin {"LINKED", "NONE"}
        /\ \A f \in Eps \ {e} : st'[f] = st[f]
    <3>1. CASE st[e] = "LINKED"
      <4>1. Unlink(e)
        BY <1>12, <3>1 DEF EpDisable
      <4>2. st' = [st EXCEPT ![e] = "UNLINKED"]
        BY <4>1 DEF Unlink
      <4>3. AsyncCountExact'
        BY <3>1, <4>1, CountUnlink DEF SchedInv
      <4> QED BY <1>0, <4>2, <4>3
    <3>2. CASE st[e] # "LINKED"
      <4>1. UNCHANGED <<st, asyncCount>>
        BY <1>12, <3>2 DEF EpDisable, counts
      <4>2. AsyncCountExact'
        BY <4>1, CountKept DEF SchedInv
      <4> QED BY <2>2, <3>2, <4>1, <4>2
    <3> QED BY <3>1, <3>2
  <2>7. ScanLocked' /\ WorkLinked'
    BY <1>0, <2>1, <2>2, <2>3, <2>5, <2>6 DEF ScanLocked, WorkLinked
  <2>8. LockOwner' /\ DisableFrame'
    BY <1>0, <2>2, <2>4, <2>5, <2>6 DEF LockOwner, DisableFrame
  <2>9. PendingScheduled'
    BY <1>0, <2>2, <2>3, <2>5, <2>6 DEF SchedInv, PendingScheduled
  <2> QED BY <2>6, <2>7, <2>8, <2>9 DEF SchedInv
<1>13. ASSUME NEW u \in Users, DisableEnd(u)
       PROVE  SchedInv'
  <2>1. /\ pc[u] = "disable" /\ queue[scan.ep] = <<>> /\ lock' = Nobody
        /\ st' = [st EXCEPT ![scan.ep] = "NONE"] /\ scan' = NoScan
        /\ pc' = [pc EXCEPT ![u] = "idle"]
        /\ UNCHANGED <<queue, todo, asyncCount>>
    BY <1>13 DEF DisableEnd, counts
  <2>2. lock = u /\ scan.ep \in Eps /\ st[scan.ep] # "LINKED"
    BY <1>0, <2>1 DEF SchedInv, LockOwner, DisableFrame
  <2>3. todo = {}
    BY <1>0, <2>2 DEF SchedInv, WorkLinked
  <2>4. \A e \in Eps : st'[e] = "LINKED" <=> st[e] = "LINKED"
    BY <1>0, <2>1, <2>2
  <2>5. scan'.ep = Nobody /\ scan'.work = FALSE
    BY <2>1 DEF NoScan
  <2>6. AsyncCountExact'
    BY <2>1, <2>4, CountKept DEF SchedInv, Eps
  <2>7. ScanLocked' /\ WorkLinked'
    BY <2>1, <2>3, <2>5 DEF ScanLocked, WorkLinked
  <2>8. LockOwner' /\ DisableFrame'
    BY <1>0, <2>1, <2>2 DEF SchedInv, LockOwner, DisableFrame
  <2>9. PendingScheduled'
    BY <2>1, <2>4 DEF SchedInv, PendingScheduled
  <2> QED BY <2>6, <2>7, <2>8, <2>9 DEF SchedInv
<1>14. CASE UNCHANGED vars
  <2>1. Quiet
    BY <1>14 DEF vars, Quiet, locks, counts
  <2> QED BY <2>1, QuietStep
<1> QED
  BY NextActions, <1>1, <1>2, <1>3, <1>4, <1>5, <1>6, <1>7, <1>8, <1>9, <1>10,
     <1>11, <1>12, <1>13, <1>14

LEMMA SchedulesInit == Init => SchedInv
<1> SUFFICES ASSUME Init
             PROVE  SchedInv
  OBVIOUS
<1>1. scan = NoScan /\ todo = {} /\ pc = [a \in Actors |-> "idle"]
  BY DEF Init
<1>2. ScanLocked /\ WorkLinked
  BY <1>1 DEF NoScan, ScanLocked, WorkLinked
<1>3. LockOwner /\ DisableFrame
  BY <1>1 DEF LockOwner, DisableFrame
<1>4. PendingScheduled
  BY DEF Init, PendingScheduled
<1>5. AsyncCountExact
  <2>1. asyncCount = 0 /\ st = [e \in Eps |-> "NONE"]
    BY DEF Init
  <2>2. Linked(AsyncEps) = {}
    BY <2>1 DEF Linked, Eps
  <2> QED BY <2>1, <2>2, FS_EmptySet DEF AsyncCountExact
<1> QED BY <1>2, <1>3, <1>4, <1>5 DEF SchedInv

\* No QH leaves or enters a schedule, and no TRP a QH, outside the calls that
\* hold p_lock: the whole invariant is kept by every step.
THEOREM SchedulesCorrect == Spec => []SchedInv
<1>1. Init => SchedInv
  BY SchedulesInit
<1>2. TypeOK /\ SchedInv /\ [Next]_vars => SchedInv'
  BY ScheduleStep
<1> QED BY <1>1, <1>2, TypeCorrect, PTL DEF Spec

\* async_count is exact, whatever is submitted, cancelled and disabled.
THEOREM AsyncCount == Spec => []AsyncCountExact
<1>1. SchedInv => AsyncCountExact
  BY DEF SchedInv
<1> QED BY <1>1, SchedulesCorrect, PTL

\* No transfer waits on a QH that is on no schedule and that no task empties.
THEOREM PendingOnSchedule == Spec => []PendingScheduled
<1>1. SchedInv => PendingScheduled
  BY DEF SchedInv
<1> QED BY <1>1, SchedulesCorrect, PTL

\* The EHCI task never scans a QH that ep_disable has freed.
THEOREM NoScanOfFreedQh == Spec => []ScanAlive
<1>1. TypeOK /\ SchedInv => ScanAlive
  <2> SUFFICES ASSUME TypeOK, SchedInv
               PROVE  ScanAlive
    OBVIOUS
  <2>1. \A e \in todo : st[e] # "NONE"
    BY DEF SchedInv, WorkLinked, Linked
  <2>2. scan.ep # Nobody => st[scan.ep] # "NONE"
    BY DEF SchedInv, ScanLocked
  <2> QED BY <2>1, <2>2 DEF ScanAlive
<1> QED BY <1>1, TypeCorrect, SchedulesCorrect, PTL
-----------------------------------------------------------------------------
(* Nothing is dropped without a lock cycle                                 *)

\* A step that leaves the queues alone drops nothing.
LEMMA QueueKept ==
    ASSUME UNCHANGED queue
    PROVE  \A t \in Trps : OnQueue(t) => OnQueue(t)'
BY DEF OnQueue, OnList

\* A submission adds to the end of a queue.
LEMMA SubmitKeeps ==
    ASSUME TypeOK, NEW a \in Actors, NEW t \in Trps, SubmitStep(a, t)
    PROVE  \A r \in Trps : OnQueue(r) => OnQueue(r)'
<1>1. CASE Submit(a, t)
  <2>1. queue' = [queue EXCEPT ![EpOf[t]] = Append(queue[EpOf[t]], t)]
    BY <1>1 DEF Submit
  <2>2. EpOf \in [Trps -> Eps] /\ queue \in [Eps -> Seq(Trps)]
    BY EhciXferAssumption DEF TypeOK
  <2> SUFFICES ASSUME NEW r \in Trps, NEW i \in DOMAIN queue[EpOf[r]],
                      queue[EpOf[r]][i] = r
               PROVE  \E j \in DOMAIN queue'[EpOf[r]] : queue'[EpOf[r]][j] = r
    BY DEF OnQueue, OnList
  <2>3. CASE EpOf[r] # EpOf[t]
    BY <2>1, <2>2, <2>3
  <2>4. CASE EpOf[r] = EpOf[t]
    <3>1. queue'[EpOf[r]] = Append(queue[EpOf[r]], t)
      BY <2>1, <2>2, <2>4
    <3>2. /\ i \in DOMAIN Append(queue[EpOf[r]], t)
          /\ Append(queue[EpOf[r]], t)[i] = queue[EpOf[r]][i]
      BY <2>2
    <3> QED BY <3>1, <3>2
  <2> QED BY <2>3, <2>4
<1>2. CASE SubmitFail(a, t)
  BY <1>2, QueueKept DEF SubmitFail
<1> QED BY <1>1, <1>2 DEF SubmitStep

\* Only the first TRP of a QH leaves it.
LEMMA LastQtdKeeps ==
    ASSUME TypeOK, NEW a \in Actors, NEW t \in Trps, LastQtd(a, t)
    PROVE  \A r \in Trps \ {t} : OnQueue(r) => OnQueue(r)'
<1>1. /\ scan.ep \in Eps /\ queue[scan.ep] # <<>> /\ t = Head(queue[scan.ep])
      /\ queue' = [queue EXCEPT ![scan.ep] = Tail(queue[scan.ep])]
  BY DEF LastQtd, Removable, AtQtd, TypeOK, ScanFrames
<1>2. EpOf \in [Trps -> Eps] /\ queue \in [Eps -> Seq(Trps)]
  BY EhciXferAssumption DEF TypeOK
<1> SUFFICES ASSUME NEW r \in Trps \ {t}, NEW i \in DOMAIN queue[EpOf[r]],
                    queue[EpOf[r]][i] = r
             PROVE  \E j \in DOMAIN queue'[EpOf[r]] : queue'[EpOf[r]][j] = r
  BY DEF OnQueue, OnList
<1>3. CASE EpOf[r] # scan.ep
  BY <1>1, <1>2, <1>3
<1>4. CASE EpOf[r] = scan.ep
  <2>1. queue'[EpOf[r]] = Tail(queue[EpOf[r]]) /\ i # 1
    BY <1>1, <1>2, <1>4
  <2>2. /\ i - 1 \in DOMAIN Tail(queue[EpOf[r]])
        /\ Tail(queue[EpOf[r]])[i - 1] = queue[EpOf[r]][i]
    BY <1>1, <1>2, <1>4, <2>1
  <2> QED BY <2>1, <2>2
<1> QED BY <1>3, <1>4

\* When no p_fn_done submits, no two tasks wait for each other's mutexes, no
\* mutex times out in __ehci_trp_done, and every TRP that leaves its QH goes
\* on trp_done_list.
THEOREM NoneDroppedQuietly ==
    ASSUME Resubmits = {}
    PROVE  Spec => NoneDropped
<1> DEFINE Kept == \A t \in Trps : OnQueue(t) /\ ~OnQueue(t)' => OnList(t, doneList')
<1>1. \A a, b \in Actors : ~LockCycle(a, b)
  BY DEF LockCycle, Resubmitting
<1>2. TypeOK /\ [Next]_vars => [Kept]_vars
  <2> SUFFICES ASSUME TypeOK, Next
               PROVE  Kept
    OBVIOUS
  <2>1. ASSUME UNCHANGED queue
        PROVE  Kept
    BY <2>1, QueueKept
  <2>2. ASSUME NEW e \in Eps, HwRetire(e) \/ HwStop(e)
        PROVE  Kept
    BY <2>1, <2>2 DEF HwRetire, HwStop
  <2>3. CASE WorkBegin \/ WorkNext
    BY <2>1, <2>3 DEF WorkBegin, WorkNext
  <2>4. ASSUME NEW a \in Actors, HandleRetry(a) \/ HandleQtd(a) \/ HandleEnd(a) \/ ScanEnd(a)
        PROVE  Kept
    BY <2>1, <2>4 DEF HandleRetry, HandleQtd, HandleEnd, ScanEnd
  <2>5. ASSUME NEW a \in Actors, HandleTrp(a)
        PROVE  Kept
    <3>1. PICK t \in Trps : LastQtd(a, t) /\ doneList' = Append(doneList, t)
      BY <2>5 DEF HandleTrp
    <3>2. OnList(t, doneList')
      <4>1. doneList \in Seq(Trps)
        BY DEF TypeOK
      <4>2. /\ Len(doneList) + 1 \in DOMAIN Append(doneList, t)
            /\ Append(doneList, t)[Len(doneList) + 1] = t
        BY <4>1
      <4> QED BY <3>1, <4>2 DEF OnList
    <3> QED BY <3>1, <3>2, LastQtdKeeps
  <2>6. ASSUME NEW a \in Actors, HandleTrpTimeout(a) \/ CbTimeout(a) \/ DrainTimeout(a)
        PROVE  Kept
    BY <1>1, <2>6 DEF HandleTrpTimeout, CbTimeout, DrainTimeout
  <2>7. ASSUME NEW a \in Actors, DrainBegin(a) \/ DrainOne(a) \/ CbReturn(a) \/ DrainEnd(a)
        PROVE  Kept
    BY <2>1, <2>7 DEF DrainBegin, DrainOne, CbReturn, DrainEnd, Return
  <2>8. ASSUME NEW a \in Actors, NEW t \in Trps, SubmitStep(a, t)
        PROVE  Kept
    BY <2>8, SubmitKeeps
  <2>9. ASSUME NEW u \in Users, NEW t \in Trps, CancelBegin(u, t)
        PROVE  Kept
    BY <2>1, <2>9 DEF CancelBegin
  <2>10. ASSUME NEW u \in Users, NEW e \in Eps, EpDisable(u, e)
         PROVE  Kept
    BY <2>1, <2>10 DEF EpDisable
  <2>11. ASSUME NEW u \in Users, DisableEnd(u)
         PROVE  Kept
    BY <2>1, <2>11 DEF DisableEnd
  <2> HIDE DEF Kept
  <2> QED
    BY NextActions, <2>2, <2>3, <2>4, <2>5, <2>6, <2>7, <2>8, <2>9, <2>10, <2>11
<1> QED BY <1>2, TypeCorrect, PTL DEF Spec, NoneDropped
-----------------------------------------------------------------------------
(* The lists                                                               *)

Distinct(s) == \A i, j \in DOMAIN s : s[i] = s[j] => i = j

\* An element goes to the end of a list it is not on.
LEMMA AppendList ==
    ASSUME NEW s \in Seq(Trps), NEW t \in Trps
    PROVE  /\ \A r \in Trps : OnList(r, Append(s, t)) <=> OnList(r, s) \/ r = t
           /\ Distinct(s) /\ ~OnList(t, s) => Distinct(Append(s, t))
<1>1. /\ DOMAIN Append(s, t) = 1 .. Len(s) + 1 /\ DOMAIN s = 1 .. Len(s)
      /\ Append(s, t)[Len(s) + 1] = t /\ Len(s) \in Nat
      /\ \A i \in 1 .. Len(s) : Append(s, t)[i] = s[i]
  OBVIOUS
<1>2. \A i \in 1 .. Len(s) + 1 : i \in 1 .. Len(s) \/ i = Len(s) + 1
  BY <1>1
<1>3. \A r \in Trps : OnList(r, Append(s, t)) <=> OnList(r, s) \/ r = t
  <2> SUFFICES ASSUME NEW r \in Trps
               PROVE  OnList(r, Append(s, t)) <=> OnList(r, s) \/ r = t
    OBVIOUS
  <2>1. Len(s) + 1 \in 1 .. Len(s) + 1 /\ \A i \in 1 .. Len(s) : i \in 1 .. Len(s) + 1
    BY <1>1
  <2> QED BY <1>1, <1>2, <2>1 DEF OnList
<1>4. Distinct(s) /\ ~OnList(t, s) => Distinct(Append(s, t))
  BY <1>1, <1>2 DEF OnList, Distinct
<1> QED BY <1>3, <1>4

\* The first element leaves a list.
LEMMA TailList ==
    ASSUME NEW s \in Seq(Trps), s # <<>>, Distinct(s)
    PROVE  /\ \A r \in Trps : OnList(r, Tail(s)) <=> OnList(r, s) /\ r # Head(s)
           /\ Distinct(Tail(s))
           /\ Head(s) \in Trps /\ OnList(Head(s), s)
<1>1. /\ DOMAIN s = 1 .. Len(s) /\ DOMAIN Tail(s) = 1 .. Len(s) - 1
      /\ Len(s) \in Nat \ {0} /\ Head(s) = s[1]
      /\ \A i \in 1 .. Len(s) - 1 : Tail(s)[i] = s[i + 1]
  OBVIOUS
<1>2. /\ 1 \in 1 .. Len(s)
      /\ \A i \in 1 .. Len(s) - 1 : i + 1 \in 1 .. Len(s) /\ i + 1 # 1
      /\ \A i \in 1 .. Len(s) : i # 1 => i - 1 \in 1 .. Len(s) - 1 /\ (i - 1) + 1 = i
  BY <1>1
<1>3. Distinct(Tail(s))
  <2> SUFFICES ASSUME NEW i \in 1 .. Len(s) - 1, NEW j \in 1 .. Len(s) - 1,
                      s[i + 1] = s[j + 1]
               PROVE  i = j
    BY <1>1 DEF Distinct
  <2>1. i + 1 = j + 1
    BY <1>1, <1>2 DEF Distinct
  <2> QED BY <2>1
<1>4. ASSUME NEW r \in Trps
      PROVE  OnList(r, Tail(s)) <=> OnList(r, s) /\ r # Head(s)
  <2>1. ASSUME NEW i \in 1 .. Len(s) - 1, Tail(s)[i] = r
        PROVE  s[i + 1] = r /\ i + 1 \in 1 .. Len(s) /\ r # s[1]
    BY <1>1, <1>2, <2>1 DEF Distinct
  <2>2. ASSUME NEW i \in 1 .. Len(s), s[i] = r, r # s[1]
        PROVE  i - 1 \in 1 .. Len(s) - 1 /\ Tail(s)[i - 1] = r
    BY <1>1, <1>2, <2>2
  <2> QED BY <1>1, <2>1, <2>2 DEF OnList
<1> QED BY <1>1, <1>2, <1>3, <1>4 DEF OnList
-----------------------------------------------------------------------------
(* One place: the inductive invariant                                      *)

\* A TRP is on the list of its own QH.
Homes == \A e \in Eps, t \in Trps : OnList(t, queue[e]) => EpOf[t] = e

\* No list holds a TRP twice, and no TRP is on two.
Once ==
    /\ \A e \in Eps : Distinct(queue[e])
    /\ Distinct(doneList)
    /\ \A t \in Trps : ~(OnQueue(t) /\ OnList(t, doneList))

\* A TRP is delivered off all lists, by the holder of p_trp_done_lock.
Delivery ==
    /\ \A a \in Actors : cb[a] # Nobody => doneLock = a /\ ~Outstanding(cb[a])
    /\ \A a \in Actors : pc[a] = "draining" => doneLock = a

PlaceInv == Homes /\ Once /\ Delivery

\* A step that leaves the lists and p_trp_done_lock alone, and starts no delivery.
Settled ==
    /\ UNCHANGED <<queue, doneList, doneLock>>
    /\ \A a \in Actors : cb'[a] \in {cb[a], Nobody}
    /\ \A a \in Actors : pc'[a] = "draining" => pc[a] = "draining"

LEMMA SettledKeeps ==
    ASSUME PlaceInv, Settled
    PROVE  PlaceInv'
<1>1. Homes' /\ Once'
  BY DEF PlaceInv, Settled, Homes, Once, Distinct, OnQueue, OnList
<1>2. Delivery'
  BY DEF PlaceInv, Settled, Delivery, Outstanding, OnQueue, OnList
<1> QED BY <1>1, <1>2 DEF PlaceInv

\* A TRP that is nowhere is queued.
LEMMA SubmitPlaces ==
    ASSUME TypeOK, PlaceInv, NEW a \in Actors, NEW t \in Trps, Submit(a, t),
           ~Outstanding(t), \A b \in Actors : cb'[b] \in {cb[b], Nobody} \ {t}
    PROVE  PlaceInv'
<1> DEFINE e == EpOf[t]
<1>1. /\ e \in Eps /\ \A f \in Eps : queue[f] \in Seq(Trps)
      /\ EpOf \in [Trps -> Eps]
  BY EhciXferAssumption DEF TypeOK
<1>2. /\ queue'[e] = Append(queue[e], t)
      /\ \A f \in Eps \ {e} : queue'[f] = queue[f]
      /\ UNCHANGED <<doneList, doneLock, pc>>
  BY <1>1 DEF Submit, TypeOK, locks
<1>3. /\ \A r \in Trps : OnList(r, queue'[e]) <=> OnList(r, queue[e]) \/ r = t
      /\ Distinct(queue'[e])
  BY <1>1, <1>2, AppendList DEF PlaceInv, Once, Outstanding, OnQueue
<1>4. \A r \in Trps : OnQueue(r)' <=> OnQueue(r) \/ r = t
  BY <1>1, <1>2, <1>3 DEF OnQueue
<1>5. Homes'
  BY <1>1, <1>2, <1>3 DEF PlaceInv, Homes
<1>6. ~OnList(t, doneList)
  BY DEF Outstanding
<1>7. Once'
  <2>1. \A f \in Eps : Distinct(queue[f])'
    BY <1>1, <1>2, <1>3 DEF PlaceInv, Once, Distinct
  <2>2. Distinct(doneList)'
    BY <1>2 DEF PlaceInv, Once, Distinct
  <2>3. \A r \in Trps : ~(OnQueue(r)' /\ OnList(r, doneList'))
    BY <1>2, <1>4, <1>6 DEF PlaceInv, Once
  <2> QED BY <2>1, <2>2, <2>3 DEF Once, OnList
<1>8. Delivery'
  <2> SUFFICES ASSUME NEW b \in Actors, cb'[b] # Nobody
               PROVE  doneLock' = b /\ ~(Outstanding(cb[b]))'
    BY <1>2 DEF PlaceInv, Delivery
  <2>1. cb'[b] = cb[b] /\ cb[b] # t /\ cb[b] \in Trps
    BY DEF TypeOK
  <2>2. doneLock = b /\ ~Outstanding(cb[b])
    BY <2>1 DEF PlaceInv, Delivery
  <2>3. ~OnQueue(cb[b])' /\ ~OnList(cb'[b], doneList')
    <3>1. \A r \in Trps : r # t /\ ~OnQueue(r) => ~OnQueue(r)'
      BY <1>4
    <3> QED BY <1>2, <2>1, <2>2, <3>1 DEF Outstanding, OnQueue
  <2> QED BY <1>2, <2>2, <2>3 DEF Outstanding
<1> QED BY <1>5, <1>7, <1>8 DEF PlaceInv

\* A TRP whose last qTD is removed leaves its QH, and was on no other list.
LEMMA LastQtdMoves ==
    ASSUME TypeOK, PlaceInv, NEW a \in Actors, NEW t \in Trps, LastQtd(a, t)
    PROVE  /\ scan.ep \in Eps
           /\ \A e \in Eps \ {scan.ep} : queue'[e] = queue[e]
           /\ \A r \in Trps : OnList(r, queue'[scan.ep]) <=> OnList(r, queue[scan.ep]) /\ r # t
           /\ Distinct(queue'[scan.ep])
           /\ \A r \in Trps : OnQueue(r)' <=> OnQueue(r) /\ r # t
           /\ OnQueue(t) /\ ~OnList(t, doneList)
           /\ UNCHANGED <<doneLock, pc, cb>>
<1> DEFINE e == scan.ep
<1>1. AtQtd(a, t) /\ RemoveQtd(t)
  BY DEF LastQtd, Removable
<1>2. /\ e \in Eps /\ queue[e] # <<>> /\ t = Head(queue[e])
      /\ \A f \in Eps : queue[f] \in Seq(Trps)
  BY <1>1 DEF AtQtd, TypeOK, ScanFrames
<1>3. /\ queue'[e] = Tail(queue[e])
      /\ \A f \in Eps \ {e} : queue'[f] = queue[f]
  BY <1>2 DEF LastQtd, TypeOK
<1>4. UNCHANGED <<doneLock, pc, cb>>
  BY <1>1 DEF RemoveQtd, locks, calls
<1>5. /\ \A r \in Trps : OnList(r, queue'[e]) <=> OnList(r, queue[e]) /\ r # t
      /\ Distinct(queue'[e]) /\ OnList(t, queue[e])
  BY <1>2, <1>3, TailList DEF PlaceInv, Once
<1>6. EpOf[t] = e /\ \A r \in Trps : EpOf[r] \in Eps
  BY <1>2, <1>5, EhciXferAssumption DEF PlaceInv, Homes
<1>7. \A r \in Trps : OnQueue(r)' <=> OnQueue(r) /\ r # t
  BY <1>2, <1>3, <1>5, <1>6 DEF OnQueue
<1>8. OnQueue(t) /\ ~OnList(t, doneList)
  BY <1>5, <1>6 DEF OnQueue, PlaceInv, Once
<1> QED BY <1>2, <1>3, <1>4, <1>5, <1>7, <1>8

\* It goes on the done list, or on none.
LEMMA LastQtdPlaces ==
    ASSUME TypeOK, PlaceInv, NEW a \in Actors, NEW t \in Trps, LastQtd(a, t),
           doneList' \in {doneList, Append(doneList, t)}
    PROVE  PlaceInv'
<1>1. /\ scan.ep \in Eps
      /\ \A e \in Eps \ {scan.ep} : queue'[e] = queue[e]
      /\ \A r \in Trps : OnList(r, queue'[scan.ep]) <=> OnList(r, queue[scan.ep]) /\ r # t
      /\ Distinct(queue'[scan.ep])
  BY LastQtdMoves
<1>2. /\ \A r \in Trps : OnQueue(r)' <=> OnQueue(r) /\ r # t
      /\ OnQueue(t) /\ ~OnList(t, doneList)
      /\ UNCHANGED <<doneLock, pc, cb>>
  BY LastQtdMoves
<1>3. /\ \A r \in Trps : OnList(r, doneList') => OnList(r, doneList) \/ r = t
      /\ Distinct(doneList')
  <2>1. CASE doneList' = doneList
    BY <2>1 DEF PlaceInv, Once
  <2>2. CASE doneList' = Append(doneList, t)
    BY <1>2, <2>2, AppendList DEF PlaceInv, Once, TypeOK
  <2> QED BY <2>1, <2>2
<1>4. Homes'
  BY <1>1 DEF PlaceInv, Homes
<1>5. Once'
  <2>1. \A f \in Eps : Distinct(queue[f])'
    BY <1>1 DEF PlaceInv, Once, Distinct
  <2>2. Distinct(doneList)'
    BY <1>3 DEF Distinct
  <2>3. \A r \in Trps : ~(OnQueue(r)' /\ OnList(r, doneList'))
    BY <1>2, <1>3 DEF PlaceInv, Once
  <2> QED BY <2>1, <2>2, <2>3 DEF Once, OnList
<1>6. Delivery'
  <2> SUFFICES ASSUME NEW b \in Actors, cb[b] # Nobody
               PROVE  doneLock' = b /\ ~(Outstanding(cb[b]))'
    BY <1>2 DEF PlaceInv, Delivery
  <2>1. cb[b] \in Trps /\ ~Outstanding(cb[b]) /\ doneLock = b
    BY DEF TypeOK, PlaceInv, Delivery
  <2>2. cb[b] # t
    BY <1>2, <2>1 DEF Outstanding
  <2>3. ~OnQueue(cb[b])' /\ ~OnList(cb'[b], doneList')
    <3>1. \A r \in Trps : ~OnQueue(r) => ~OnQueue(r)'
      BY <1>2
    <3>2. ~OnQueue(cb[b])'
      BY <1>2, <2>1, <3>1 DEF Outstanding, OnQueue
    <3> QED BY <1>2, <1>3, <2>1, <2>2, <3>2 DEF Outstanding
  <2>4. ~(Outstanding(cb[b]))'
    BY <2>3 DEF Outstanding
  <2> QED BY <1>2, <2>1, <2>4
<1> QED BY <1>4, <1>5, <1>6 DEF PlaceInv

\* The delivery loop: a TRP leaves the done list for its callback.
LEMMA DrainPlaces ==
    ASSUME TypeOK, PlaceInv, NEW a \in Actors,
           DrainBegin(a) \/ DrainOne(a) \/ DrainEnd(a)
    PROVE  PlaceInv'
<1>0. Nobody \notin Actors /\ doneList \in Seq(Trps) /\ Nobody \notin Trps
  BY EhciXferAssumption DEF TypeOK
<1>1. CASE DrainBegin(a)
  <2>1. UNCHANGED <<queue, doneList, cb>> /\ doneLock = Nobody /\ doneLock' = a
    BY <1>1 DEF DrainBegin, calls
  <2>2. pc' = [pc EXCEPT ![a] = "draining"]
    BY <1>1 DEF DrainBegin
  <2>3. Homes' /\ Once'
    BY <2>1 DEF PlaceInv, Homes, Once, Distinct, OnQueue, OnList
  <2>4. Delivery'
    BY <1>0, <2>1, <2>2 DEF PlaceInv, Delivery, TypeOK
  <2> QED BY <2>3, <2>4 DEF PlaceInv
<1>2. CASE DrainOne(a)
  <2>1. /\ UNCHANGED <<queue, doneLock, pc>> /\ doneList # <<>>
        /\ doneList' = Tail(doneList) /\ cb' = [cb EXCEPT ![a] = Head(doneList)]
        /\ pc[a] = "draining"
    BY <1>2 DEF DrainOne, locks
  <2>0. PICK t \in Trps : t = Head(doneList)
    BY <1>0, <2>1
  <2>2. /\ \A r \in Trps : OnList(r, doneList') <=> OnList(r, doneList) /\ r # t
        /\ Distinct(doneList') /\ OnList(t, doneList)
    BY <1>0, <2>0, <2>1, TailList DEF PlaceInv, Once
  <2>3. \A r \in Trps : OnQueue(r)' <=> OnQueue(r)
    BY <2>1 DEF OnQueue, OnList
  <2>4. Homes'
    BY <2>1 DEF PlaceInv, Homes, OnList
  <2>5. Once'
    <3>1. (\A e \in Eps : Distinct(queue[e]))' /\ Distinct(doneList)'
      BY <2>1, <2>2 DEF PlaceInv, Once, Distinct
    <3>2. \A r \in Trps : ~(OnQueue(r)' /\ OnList(r, doneList'))
      BY <2>2, <2>3 DEF PlaceInv, Once
    <3> QED BY <3>1, <3>2 DEF Once, OnList
  <2>6. Delivery'
    <3>1. doneLock = a /\ \A b \in Actors \ {a} : cb[b] = Nobody
      BY <2>1 DEF PlaceInv, Delivery
    <3>2. cb'[a] = t /\ \A b \in Actors \ {a} : cb'[b] = Nobody
      BY <2>0, <2>1, <3>1 DEF TypeOK
    <3>3. ~OnQueue(t)' /\ ~OnList(t, doneList')
      BY <2>2, <2>3 DEF PlaceInv, Once
    <3>4. ~(Outstanding(cb[a]))'
      BY <3>2, <3>3 DEF Outstanding, OnQueue
    <3> QED BY <2>1, <3>1, <3>2, <3>4 DEF PlaceInv, Delivery
  <2> QED BY <2>4, <2>5, <2>6 DEF PlaceInv
<1>3. CASE DrainEnd(a)
  <2>1. /\ UNCHANGED <<queue, doneList, cb>> /\ cb[a] = Nobody /\ pc[a] = "draining"
        /\ pc' = [pc EXCEPT ![a] = "idle"]
    BY <1>3 DEF DrainEnd, Return
  <2>2. Homes' /\ Once'
    BY <2>1 DEF PlaceInv, Homes, Once, Distinct, OnQueue, OnList
  <2>3. \A b \in Actors : cb'[b] = Nobody /\ pc'[b] # "draining"
    BY <2>1 DEF PlaceInv, Delivery, TypeOK
  <2>4. Delivery'
    BY <2>3 DEF Delivery
  <2> QED BY <2>2, <2>4 DEF PlaceInv
<1> QED BY <1>1, <1>2, <1>3

\* A submission that fails, and the end of a callback, move no TRP.
LEMMA SubmitFailSettled ==
    ASSUME TypeOK, NEW a \in Actors, NEW t \in Trps, SubmitFail(a, t),
           cb' = cb \/ cb' = [cb EXCEPT ![a] = Nobody]
    PROVE  Settled
BY DEF SubmitFail, Settled, locks, TypeOK

\* The steps that give a task a TRP, take one, or do neither.
LEMMA PlaceActions ==
    ASSUME TypeOK, Next
    PROVE  \/ Settled
           \/ \E a \in Actors, t \in Trps :
                 /\ LastQtd(a, t)
                 /\ doneList' \in {doneList, Append(doneList, t)}
           \/ \E a \in Actors : DrainBegin(a) \/ DrainOne(a) \/ DrainEnd(a)
           \/ \E a \in Actors : CbResubmit(a)
           \/ \E u \in Users, t \in Trps : Request(u, t)
<1>1. ASSUME NEW e \in Eps, HwRetire(e) \/ HwStop(e)
      PROVE  Settled
  BY <1>1 DEF HwRetire, HwStop, Settled, locks, calls
<1>2. CASE WorkBegin \/ WorkNext
  <2>1. UNCHANGED <<queue, doneList, doneLock, cb>>
    BY <1>2 DEF WorkBegin, WorkNext, locks, calls
  <2>2. \A a \in Actors : pc'[a] = "draining" => pc[a] = "draining"
    BY <1>2 DEF WorkBegin, WorkNext, TypeOK
  <2> QED BY <2>1, <2>2 DEF Settled
<1>3. ASSUME NEW a \in Actors, HandleRetry(a) \/ HandleQtd(a) \/ HandleEnd(a) \/ ScanEnd(a)
      PROVE  Settled
  <2>1. UNCHANGED <<queue, doneList, doneLock, cb>>
    BY <1>3 DEF HandleRetry, HandleQtd, RemoveQtd, HandleEnd, ScanEnd, locks, calls
  <2>2. \A b \in Actors : pc'[b] = "draining" => pc[b] = "draining"
    BY <1>3 DEF HandleRetry, HandleQtd, RemoveQtd, HandleEnd, ScanEnd, TypeOK
  <2> QED BY <2>1, <2>2 DEF Settled
<1>4. ASSUME NEW a \in Actors, HandleTrp(a) \/ HandleTrpTimeout(a)
      PROVE  \E t \in Trps : LastQtd(a, t) /\ doneList' \in {doneList, Append(doneList, t)}
  BY <1>4 DEF HandleTrp, HandleTrpTimeout
<1>5. ASSUME NEW a \in Actors, CbReturn(a) \/ CbTimeout(a)
      PROVE  Settled
  BY <1>5 DEF CbReturn, CbTimeout, Settled, locks, TypeOK
<1>6. ASSUME NEW a \in Actors, DrainTimeout(a)
      PROVE  Settled
  <2>1. UNCHANGED <<queue, doneList, doneLock, cb>> /\ pc' = [pc EXCEPT ![a] = "idle"]
    BY <1>6 DEF DrainTimeout, Return
  <2> QED BY <2>1 DEF Settled, TypeOK
<1>7. ASSUME NEW u \in Users, NEW t \in Trps, CancelBegin(u, t)
      PROVE  Settled
  <2>1. UNCHANGED <<queue, doneList, doneLock, cb>>
    BY <1>7 DEF CancelBegin
  <2>2. pc' = [pc EXCEPT ![u] = "scan"] \/ pc' = [pc EXCEPT ![u] = "drain"]
    BY <1>7 DEF CancelBegin
  <2> QED BY <2>1, <2>2 DEF Settled, TypeOK, Actors
<1>8. ASSUME NEW u \in Users, DisableEnd(u) \/ \E e \in Eps : EpDisable(u, e)
      PROVE  Settled
  <2>1. UNCHANGED <<queue, doneList, doneLock, cb>>
    BY <1>8 DEF DisableEnd, EpDisable, calls
  <2>2. pc' = [pc EXCEPT ![u] = "idle"] \/ pc' = [pc EXCEPT ![u] = "disable"]
    BY <1>8 DEF DisableEnd, EpDisable
  <2> QED BY <2>1, <2>2 DEF Settled, TypeOK, Actors
<1>9. ASSUME NEW a \in Actors, Engine(a)
      PROVE  \/ HandleRetry(a) \/ HandleQtd(a) \/ HandleEnd(a) \/ ScanEnd(a)
             \/ HandleTrp(a) \/ DrainBegin(a) \/ DrainOne(a) \/ DrainEnd(a)
             \/ CbReturn(a) \/ CbResubmit(a)
  BY <1>9 DEF Engine, Handle, Drain
<1>10. EhciTask \in Actors /\ \A u \in Users : u \in Actors
  BY DEF Actors
<1>11. CASE Hardware
  BY <1>1, <1>11 DEF Hardware
<1>12. CASE Task
  BY <1>2, <1>3, <1>4, <1>5, <1>9, <1>10, <1>12 DEF Task
<1>13. CASE Timeouts
  BY <1>4, <1>5, <1>6, <1>13 DEF Timeouts
<1>14. ASSUME NEW u \in Users, User(u)
       PROVE  \/ Engine(u) \/ DisableEnd(u) \/ \E e \in Eps : EpDisable(u, e)
              \/ \E t \in Trps : Request(u, t) \/ CancelBegin(u, t)
  BY <1>14 DEF User
<1>15. CASE \E u \in Users : User(u)
  BY <1>3, <1>4, <1>5, <1>7, <1>8, <1>9, <1>10, <1>14, <1>15
<1> QED BY <1>11, <1>12, <1>13, <1>15 DEF Next

\* A submission, by the owner of a TRP or by its own callback.
LEMMA OwnerSubmits ==
    ASSUME TypeOK, PlaceInv
    PROVE  /\ \A u \in Users, t \in Trps : Request(u, t) => PlaceInv'
           /\ \A a \in Actors : CbResubmit(a) => PlaceInv'
<1>0. Nobody \notin Trps /\ Users \subseteq Actors
  BY EhciXferAssumption DEF Actors
<1>1. ASSUME NEW u \in Users, NEW t \in Trps, Request(u, t)
      PROVE  PlaceInv'
  <2>1. /\ cb' = cb /\ ~Outstanding(t) /\ \A a \in Actors : cb[a] # t
        /\ u \in Actors
        /\ Submit(u, t) \/ SubmitFail(u, t)
    BY <1>0, <1>1 DEF Request
  <2>2. CASE Submit(u, t)
    BY <2>1, <2>2, SubmitPlaces
  <2>3. CASE SubmitFail(u, t)
    BY <2>1, <2>3, SubmitFailSettled, SettledKeeps
  <2> QED BY <2>1, <2>2, <2>3
<1>2. ASSUME NEW a \in Actors, CbResubmit(a)
      PROVE  PlaceInv'
  <2>1. /\ cb' = [cb EXCEPT ![a] = Nobody] /\ cb[a] # Nobody
        /\ Submit(a, cb[a]) \/ SubmitFail(a, cb[a])
    BY <1>2 DEF CbResubmit
  <2>2. /\ cb[a] \in Trps /\ ~Outstanding(cb[a])
        /\ \A b \in Actors \ {a} : cb[b] = Nobody
    BY <2>1 DEF TypeOK, PlaceInv, Delivery
  <2>3. \A b \in Actors : cb'[b] \in {cb[b], Nobody} \ {cb[a]}
    BY <1>0, <2>1, <2>2 DEF TypeOK
  <2>4. CASE Submit(a, cb[a])
    BY <2>2, <2>3, <2>4, SubmitPlaces
  <2>5. CASE SubmitFail(a, cb[a])
    BY <2>1, <2>2, <2>5, SubmitFailSettled, SettledKeeps
  <2> QED BY <2>1, <2>4, <2>5
<1> QED BY <1>1, <1>2

\* Every step keeps every TRP in one place.
LEMMA PlaceStep ==
    ASSUME TypeOK, PlaceInv, [Next]_vars
    PROVE  PlaceInv'
<1>1. CASE UNCHANGED vars
  BY <1>1, SettledKeeps DEF vars, Settled, locks, calls
<1>2. CASE Next
  BY <1>2, PlaceActions, SettledKeeps, LastQtdPlaces, DrainPlaces, OwnerSubmits
<1> QED BY <1>1, <1>2

LEMMA PlacesInit == Init => PlaceInv
<1> SUFFICES ASSUME Init
             PROVE  PlaceInv
  OBVIOUS
<1>1. \A t : ~OnList(t, <<>>)
  BY DEF OnList
<1>2. /\ \A e \in Eps : queue[e] = <<>>
      /\ doneList = <<>>
      /\ \A a \in Actors : cb[a] = Nobody /\ pc[a] = "idle"
  BY DEF Init
<1>3. Homes /\ Distinct(<<>>)
  BY <1>1, <1>2 DEF Homes, Distinct
<1>4. Once /\ Delivery
  BY <1>1, <1>2, <1>3 DEF Once, Delivery
<1> QED BY <1>3, <1>4 DEF PlaceInv

\* The lists and the delivery of TRPs, whatever is submitted and cancelled, and
\* when mutexes time out too.
THEOREM PlacesKept == Spec => []PlaceInv
<1>1. Init => PlaceInv
  BY PlacesInit
<1>2. TypeOK /\ PlaceInv /\ [Next]_vars => PlaceInv'
  BY PlaceStep
<1> QED BY <1>1, <1>2, TypeCorrect, PTL DEF Spec

\* No TRP is delivered twice for one submission, or on a list while it is
\* delivered: its caller may use it again in its callback.
THEOREM DeliveredOnce == Spec => []OnePlace
<1>1. TypeOK /\ PlaceInv => OnePlace
  <2> SUFFICES ASSUME TypeOK, PlaceInv, NEW t \in Trps
               PROVE  Cardinality(Places(t)) <= 1
    BY DEF OnePlace
  <2>0. Nobody \notin Trps /\ EpOf[t] \in Eps
    BY EhciXferAssumption
  <2>1. \A p, q \in Places(t) : p = q
    <3> SUFFICES ASSUME NEW p \in Places(t), NEW q \in Places(t)
                 PROVE  p = q
      OBVIOUS
    <3> DEFINE Queued(x) == OnQueue(t) /\ \E i \in DOMAIN queue[EpOf[t]] :
                                queue[EpOf[t]][i] = t /\ x = <<"queue", i>>
               Done(x) == OnList(t, doneList) /\ \E i \in DOMAIN doneList :
                                doneList[i] = t /\ x = <<"done", i>>
               Called(x) == \E a \in Actors : cb[a] = t /\ x = <<"callback", a>>
    <3>1. \A x \in Places(t) : Queued(x) \/ Done(x) \/ Called(x)
      BY DEF Places, OnQueue, OnList
    <3>2. \A x, y : Called(x) => ~Queued(y) /\ ~Done(y)
      BY <2>0 DEF PlaceInv, Delivery, Outstanding
    <3>3. \A x, y : ~(Queued(x) /\ Done(y))
      BY DEF PlaceInv, Once
    <3>4. \A x, y : Queued(x) /\ Queued(y) => x = y
      BY <2>0 DEF PlaceInv, Once, Distinct
    <3>5. \A x, y : Done(x) /\ Done(y) => x = y
      BY DEF PlaceInv, Once, Distinct
    <3>6. \A x, y : Called(x) /\ Called(y) => x = y
      BY <2>0 DEF PlaceInv, Delivery
    <3> HIDE DEF Queued, Done, Called
    <3> QED BY <3>1, <3>2, <3>3, <3>4, <3>5, <3>6
  <2>2. CASE Places(t) = {}
    BY <2>2, FS_EmptySet
  <2>3. CASE Places(t) # {}
    <3>1. PICK p : p \in Places(t)
      BY <2>3
    <3>2. Places(t) = {p}
      BY <2>1, <3>1
    <3>3. Cardinality(Places(t)) = 1
      BY <3>2, FS_Singleton
    <3> QED BY <3>3
  <2> QED BY <2>2, <2>3
<1> QED BY <1>1, PlacesKept, TypeCorrect, PTL
-----------------------------------------------------------------------------
(* Cancellation                                                            *)

\* The TRP being cancelled is on the QH that the canceller empties, or is on
\* no QH and stays off, for no other task submits while it holds p_hc->p_lock.
Cancelling(u) ==
    /\ hcLock = u
    /\ \/ pc[u] = "scan" /\ scan.ep = EpOf[target[u]] /\ ~scan.work
       \/ pc[u] \in {"scan", "drain", "draining"} /\ ~OnQueue(target[u])

Caller(u) ==
    /\ target[u] # Nobody => Cancelling(u)
    /\ pc[u] = "disable" => hcLock = u

\* Only the EHCI task scans live QHs.
WorkOwner == scan.work => lock = EhciTask

CancelInv == WorkOwner /\ \A u \in Users : Caller(u)

\* A step that is none of u's, or goes on with u's qh_handle: no TRP is queued.
Aside(u) ==
    /\ hcLock = u => hcLock' = u
    /\ target'[u] = target[u] /\ pc'[u] = pc[u]
    /\ \A t \in Trps : OnQueue(t)' => OnQueue(t)
    /\ lock = u => scan'.ep = scan.ep /\ (scan'.work => scan.work)

LEMMA AsideKeeps ==
    ASSUME TypeOK, SchedInv, CancelInv, NEW u \in Users, Aside(u)
    PROVE  Caller(u)'
<1>1. Caller(u)
  BY DEF CancelInv
<1>2. pc'[u] = "disable" => hcLock' = u
  BY <1>1 DEF Aside, Caller
<1> SUFFICES ASSUME target'[u] # Nobody
             PROVE  Cancelling(u)'
  BY <1>2 DEF Caller
<1>3. Cancelling(u) /\ target'[u] = target[u] /\ target[u] \in Trps
  BY <1>1 DEF Aside, Caller, TypeOK, Actors
<1>4. hcLock' = u
  BY <1>3 DEF Aside, Cancelling
<1>5. CASE pc[u] = "scan" /\ scan.ep = EpOf[target[u]] /\ ~scan.work
  <2>1. lock = u
    BY <1>5 DEF SchedInv, LockOwner, Actors
  <2> QED BY <1>3, <1>4, <1>5, <2>1 DEF Aside, Cancelling
<1>6. CASE pc[u] \in {"scan", "drain", "draining"} /\ ~OnQueue(target[u])
  <2>1. \A t \in Trps : ~OnQueue(t) => ~OnQueue(t)'
    BY DEF Aside
  <2>2. ~OnQueue(target[u])'
    BY <1>3, <1>6, <2>1 DEF OnQueue
  <2> QED BY <1>3, <1>4, <1>6, <2>2 DEF Aside, Cancelling
<1> QED BY <1>3, <1>5, <1>6 DEF Cancelling

\* A step that leaves the queues alone queues no TRP.
LEMMA QueueSame ==
    ASSUME UNCHANGED queue
    PROVE  \A t \in Trps : OnQueue(t)' => OnQueue(t)
BY DEF OnQueue, OnList

\* The frame of qh_handle, on one qTD of its QH.
LEMMA QtdFrame ==
    ASSUME TypeOK, PlaceInv, CancelInv, NEW a \in Actors,
           HandleRetry(a) \/ HandleQtd(a) \/ HandleTrp(a) \/ HandleTrpTimeout(a)
    PROVE  WorkOwner' /\ \A u \in Users : Aside(u)
<1>1. CASE HandleRetry(a)
  <2>1. /\ UNCHANGED <<hcLock, lock, target, pc, queue>>
        /\ lock = a /\ (scan' = IF scan.work THEN NoScan ELSE scan)
    BY <1>1 DEF HandleRetry, AtQtd, locks, calls
  <2>2. lock \in Users => scan' = scan
    BY <2>1, EhciXferAssumption DEF CancelInv, WorkOwner
  <2>3. WorkOwner'
    BY <2>1 DEF CancelInv, WorkOwner, NoScan
  <2> QED BY <2>1, <2>2, <2>3, QueueSame DEF Aside
<1>2. CASE HandleQtd(a)
  <2>1. UNCHANGED <<hcLock, lock, target, pc, queue>>
    BY <1>2 DEF HandleQtd, RemoveQtd, locks, calls
  <2>2. scan'.ep = scan.ep /\ (scan'.work => scan.work)
    BY <1>2 DEF HandleQtd, TypeOK, ScanFrames
  <2> QED BY <2>1, <2>2, QueueSame DEF Aside, CancelInv, WorkOwner
<1>3. CASE HandleTrp(a) \/ HandleTrpTimeout(a)
  <2>1. PICK t \in Trps : LastQtd(a, t)
    BY <1>3 DEF HandleTrp, HandleTrpTimeout
  <2>2. UNCHANGED <<hcLock, lock, target, pc>>
    BY <2>1 DEF LastQtd, RemoveQtd, locks, calls
  <2>3. scan'.ep = scan.ep /\ (scan'.work => scan.work)
    BY <2>1 DEF LastQtd, Frame
  <2> QED BY <2>1, <2>2, <2>3, LastQtdMoves DEF Aside, CancelInv, WorkOwner
<1> QED BY <1>1, <1>2, <1>3

\* qh_handle ends: a canceller's QH is empty.
LEMMA HandleEndCancels ==
    ASSUME TypeOK, SchedInv, CancelInv, NEW a \in Actors, HandleEnd(a)
    PROVE  CancelInv'
<1>1. /\ UNCHANGED <<hcLock, lock, target, pc, queue>>
      /\ lock = a /\ pc[a] = "scan" /\ scan' = NoScan
      /\ queue[scan.ep] = <<>> \/ scan.work
  BY DEF HandleEnd, locks, calls
<1>2. WorkOwner'
  BY <1>1 DEF WorkOwner, NoScan
<1>3. ASSUME NEW u \in Users, u # a
      PROVE  Caller(u)'
  BY <1>1, <1>3, AsideKeeps, QueueSame DEF Aside
<1>4. ASSUME a \in Users
      PROVE  Caller(a)'
  <2>1. queue[scan.ep] = <<>>
    BY <1>1, <1>4, EhciXferAssumption DEF CancelInv, WorkOwner
  <2> SUFFICES ASSUME target'[a] # Nobody
               PROVE  Cancelling(a)'
    BY <1>1, <1>4 DEF CancelInv, Caller
  <2>2. Cancelling(a)
    BY <1>1, <1>4 DEF CancelInv, Caller
  <2>3. ~OnQueue(target[a])
    BY <2>1, <2>2 DEF Cancelling, OnQueue, OnList
  <2> QED BY <1>1, <2>2, <2>3 DEF Cancelling, OnQueue, OnList
<1> QED BY <1>2, <1>3, <1>4 DEF CancelInv

\* The steps of a call between its qh_handle and its return.
LEMMA LeaveCancels ==
    ASSUME TypeOK, SchedInv, CancelInv, NEW a \in Actors,
           ScanEnd(a) \/ DrainBegin(a) \/ DrainEnd(a) \/ DrainTimeout(a)
    PROVE  CancelInv'
<1>0. Nobody \notin Users /\ EhciTask \notin Users /\ Nobody \notin Trps
      /\ EpOf \in [Trps -> Eps] /\ Nobody \notin Eps
  BY EhciXferAssumption DEF Actors
<1>1. /\ UNCHANGED <<queue, scan>>
      /\ pc[a] \in {"scan", "drain", "draining"}
      /\ \A b \in Actors \ {a} : pc'[b] = pc[b] /\ target'[b] = target[b]
      /\ \A u \in Users \ {a} : hcLock = u => hcLock' = u
  BY DEF ScanEnd, DrainBegin, DrainEnd, DrainTimeout, Return, TypeOK, calls
<1>2. WorkOwner'
  <2>1. lock' = lock \/ scan = NoScan
    BY DEF ScanEnd, DrainBegin, DrainEnd, DrainTimeout, Return
  <2> QED BY <1>1, <2>1 DEF CancelInv, WorkOwner, NoScan
<1>3. ASSUME NEW u \in Users, u # a
      PROVE  Caller(u)'
  BY <1>1, <1>3, AsideKeeps, QueueSame DEF Aside, Actors
<1>4. ASSUME a \in Users
      PROVE  Caller(a)'
  <2>1. CASE ScanEnd(a) \/ DrainBegin(a)
    <3>1. /\ UNCHANGED <<hcLock, target>> /\ pc'[a] \in {"drain", "draining"}
          /\ scan = NoScan \/ pc[a] = "drain"
      BY <2>1 DEF ScanEnd, DrainBegin, TypeOK, calls
    <3> SUFFICES ASSUME target[a] # Nobody
                 PROVE  Cancelling(a)'
      BY <3>1 DEF Caller
    <3>2. Cancelling(a) /\ target[a] \in Trps
      BY <1>4 DEF CancelInv, Caller, TypeOK
    <3>3. ~OnQueue(target[a])
      BY <1>0, <3>1, <3>2 DEF Cancelling, NoScan
    <3> QED BY <1>1, <3>1, <3>2, <3>3 DEF Cancelling, OnQueue, OnList
  <2>2. CASE DrainEnd(a) \/ DrainTimeout(a)
    <3>1. pc'[a] = "idle" /\ target'[a] = Nobody
      BY <2>2 DEF DrainEnd, DrainTimeout, Return, TypeOK
    <3> QED BY <3>1 DEF Caller
  <2> QED BY <2>1, <2>2
<1> QED BY <1>2, <1>3, <1>4 DEF CancelInv

\* A call begins, or ends, with nobody cancelling.
LEMMA CallCancels ==
    ASSUME TypeOK, SchedInv, CancelInv, NEW u \in Users,
           \/ \E t \in Trps : Request(u, t) \/ CancelBegin(u, t)
           \/ \E e \in Eps : EpDisable(u, e)
           \/ DisableEnd(u)
    PROVE  CancelInv'
<1>0. /\ u \in Actors /\ Users \subseteq Actors
      /\ Nobody \notin Actors /\ Nobody \notin Eps /\ Nobody \notin Trps
      /\ EpOf \in [Trps -> Eps]
  BY EhciXferAssumption DEF Actors
<1>1. \A v \in Users : target[v] = Nobody
  <2>1. CASE DisableEnd(u)
    <3>1. pc[u] = "disable" /\ hcLock = u
      BY <2>1 DEF DisableEnd, CancelInv, Caller
    <3> QED BY <3>1 DEF CancelInv, Caller, Cancelling
  <2>2. CASE ~DisableEnd(u)
    <3>1. hcLock = Nobody
      BY <2>2 DEF Request, CancelBegin, EpDisable, Idle
    <3> QED BY <1>0, <3>1 DEF CancelInv, Caller, Cancelling
  <2> QED BY <2>1, <2>2
<1>2. \A v \in Users \ {u} : pc[v] # "disable"
  <2>1. hcLock \in {Nobody, u}
    BY DEF Request, CancelBegin, EpDisable, DisableEnd, Idle, CancelInv, Caller
  <2> QED BY <1>0, <2>1 DEF CancelInv, Caller
<1>3. CASE \E t \in Trps : Request(u, t)
  <2>1. UNCHANGED <<pc, target, scan, lock>> /\ pc[u] = "idle"
    BY <1>3 DEF Request, Submit, SubmitFail, locks, Idle
  <2> QED BY <1>1, <1>2, <2>1 DEF CancelInv, Caller, WorkOwner
<1>4. ASSUME NEW t \in Trps, CancelBegin(u, t)
      PROVE  CancelInv'
  <2> DEFINE e == EpOf[t]
  <2>1. /\ hcLock' = u /\ lock = Nobody /\ UNCHANGED queue
        /\ target' = target \/ (target' = [target EXCEPT ![u] = t] /\ st[e] # "NONE")
        /\ \/ st[e] = "LINKED" /\ scan' = Frame(e, FALSE) /\ pc' = [pc EXCEPT ![u] = "scan"]
           \/ st[e] # "LINKED" /\ scan' = scan /\ pc' = [pc EXCEPT ![u] = "drain"]
    BY <1>4 DEF CancelBegin, Idle
  <2>2. scan.ep = Nobody /\ ~scan.work
    BY <1>0, <2>1 DEF SchedInv, ScanLocked, WorkLinked, TypeOK, ScanFrames
  <2>3. WorkOwner'
    BY <2>1, <2>2 DEF WorkOwner, Frame
  <2>4. \A v \in Users \ {u} : Caller(v)'
    BY <1>0, <1>1, <1>2, <2>1 DEF Caller, TypeOK
  <2>5. Caller(u)'
    <3>1. pc'[u] # "disable"
      BY <1>0, <2>1 DEF TypeOK
    <3> SUFFICES ASSUME target'[u] # Nobody
                 PROVE  Cancelling(u)'
      BY <3>1 DEF Caller
    <3>2. target'[u] = t
      BY <1>0, <1>1, <2>1 DEF TypeOK
    <3>3. CASE st[e] = "LINKED"
      <4>1. scan'.ep = e /\ ~scan'.work /\ pc'[u] = "scan"
        BY <1>0, <2>1, <3>3 DEF Frame, TypeOK
      <4> QED BY <2>1, <3>2, <4>1 DEF Cancelling
    <3>4. CASE st[e] # "LINKED"
      <4>1. queue[e] = <<>>
        BY <1>0, <2>2, <3>4 DEF SchedInv, PendingScheduled
      <4>2. ~OnList(t, queue'[e])
        BY <2>1, <4>1 DEF OnList
      <4>3. pc'[u] = "drain"
        BY <1>0, <2>1, <3>4 DEF TypeOK
      <4> QED BY <2>1, <3>2, <4>2, <4>3 DEF Cancelling, OnQueue
    <3> QED BY <3>3, <3>4
  <2> QED BY <2>3, <2>4, <2>5 DEF CancelInv
<1>5. ASSUME NEW e \in Eps, EpDisable(u, e)
      PROVE  CancelInv'
  <2>1. /\ hcLock' = u /\ UNCHANGED target
        /\ scan' = Frame(e, FALSE) /\ pc' = [pc EXCEPT ![u] = "disable"]
    BY <1>5 DEF EpDisable, calls
  <2> QED BY <1>0, <1>1, <1>2, <2>1 DEF CancelInv, Caller, WorkOwner, Frame, TypeOK
<1>6. CASE DisableEnd(u)
  <2>1. UNCHANGED target /\ scan' = NoScan /\ pc' = [pc EXCEPT ![u] = "idle"]
    BY <1>6 DEF DisableEnd, calls
  <2> QED BY <1>0, <1>1, <1>2, <2>1 DEF CancelInv, Caller, WorkOwner, NoScan, TypeOK
<1> QED BY <1>3, <1>4, <1>5, <1>6

\* The steps of the hardware, of the EHCI task before a scan, and of the
\* callbacks.
LEMMA OthersCancel ==
    ASSUME TypeOK, SchedInv, CancelInv,
           \/ UNCHANGED vars
           \/ \E e \in Eps : HwRetire(e) \/ HwStop(e)
           \/ WorkBegin \/ WorkNext
           \/ \E a \in Actors : DrainOne(a) \/ CbReturn(a) \/ CbTimeout(a)
    PROVE  CancelInv'
<1>0. Nobody \notin Users /\ EhciTask \notin Users /\ Users \subseteq Actors
  BY EhciXferAssumption DEF Actors
<1>1. /\ UNCHANGED <<hcLock, target, queue>>
      /\ pc' = pc \/ pc' = [pc EXCEPT ![EhciTask] = "scan"]
      /\ \/ scan' = scan /\ lock' = lock
         \/ scan' = scan /\ lock = Nobody /\ lock' = EhciTask
         \/ lock = EhciTask /\ lock' = lock
  BY DEF vars, HwRetire, HwStop, WorkBegin, WorkNext, DrainOne, CbReturn, CbTimeout,
         locks, calls
<1>2. WorkOwner'
  BY <1>1 DEF CancelInv, WorkOwner
<1>3. ASSUME NEW u \in Users
      PROVE  Aside(u)
  BY <1>0, <1>1, QueueSame DEF Aside, TypeOK
<1> QED BY <1>2, <1>3, AsideKeeps DEF CancelInv

LEMMA CancelInit == Init => CancelInv
BY EhciXferAssumption DEF Init, CancelInv, WorkOwner, Caller, NoScan, Actors

\* Every step keeps what a cancellation rests on, if no p_fn_done submits.
LEMMA CancelStep ==
    ASSUME Resubmits = {}, TypeOK, SchedInv, PlaceInv, CancelInv, [Next]_vars
    PROVE  CancelInv'
<1>1. ASSUME NEW a \in Actors, Engine(a)
      PROVE  CancelInv'
  <2>1. ~CbResubmit(a)
    BY DEF CbResubmit, Resubmitting
  <2>2. CASE HandleRetry(a) \/ HandleQtd(a) \/ HandleTrp(a)
    BY <2>2, QtdFrame, AsideKeeps DEF CancelInv
  <2>3. CASE HandleEnd(a)
    BY <2>3, HandleEndCancels
  <2>4. CASE ScanEnd(a) \/ DrainBegin(a) \/ DrainEnd(a)
    BY <2>4, LeaveCancels
  <2>5. CASE DrainOne(a) \/ CbReturn(a)
    BY <2>5, OthersCancel
  <2> QED BY <1>1, <2>1, <2>2, <2>3, <2>4, <2>5 DEF Engine, Handle, Drain
<1>2. EhciTask \in Actors /\ \A u \in Users : u \in Actors
  BY DEF Actors
<1>3. CASE UNCHANGED vars \/ Hardware
  BY <1>3, OthersCancel DEF Hardware
<1>4. CASE Task
  BY <1>1, <1>2, <1>4, OthersCancel DEF Task
<1>5. CASE Timeouts
  <2>1. PICK a \in Actors : HandleTrpTimeout(a) \/ DrainTimeout(a) \/ CbTimeout(a)
    BY <1>5 DEF Timeouts
  <2>2. CASE HandleTrpTimeout(a)
    BY <2>2, QtdFrame, AsideKeeps DEF CancelInv
  <2> QED BY <2>1, <2>2, LeaveCancels, OthersCancel
<1>6. CASE \E u \in Users : User(u)
  BY <1>1, <1>2, <1>6, CallCancels DEF User
<1> QED BY <1>3, <1>4, <1>5, <1>6 DEF Next

\* A task that has delivered the list holds no reference to its target.
LEMMA CancelDone ==
    ASSUME TypeOK, PlaceInv, CancelInv, NEW u \in Users, pc[u] = "draining",
           doneList = <<>>, cb[u] = Nobody, target[u] # Nobody
    PROVE  Places(target[u]) = {}
<1>1. ~OnQueue(target[u])
  BY DEF CancelInv, Caller, Cancelling
<1>2. \A a \in Actors : cb[a] = Nobody
  BY DEF PlaceInv, Delivery, Actors
<1> QED BY <1>1, <1>2 DEF Places, OnQueue, OnList

\* A cancelled TRP is nowhere when the call returns, if no p_fn_done submits:
\* its caller may free it.
THEOREM CancelledTrpReturned ==
    ASSUME Resubmits = {}
    PROVE  Spec => []CancelFinal
<1>1. TypeOK /\ SchedInv /\ PlaceInv /\ CancelInv /\ [Next]_vars => CancelInv'
  BY CancelStep
<1>2. TypeOK /\ PlaceInv /\ CancelInv => CancelFinal
  BY CancelDone DEF CancelFinal
<1> QED
  BY <1>1, <1>2, CancelInit, TypeCorrect, SchedulesCorrect, PlacesKept, PTL DEF Spec
-----------------------------------------------------------------------------
(* Interrupt transfers, counted                                            *)

IntrQueued == {t \in Trps : EpOf[t] \in IntrEps /\ OnQueue(t)}

\* An interrupt QH is off its schedule while its TRPs are removed: its slots have
\* been counted down, and the removal goes on counting.
Emptying == scan.ep \in IntrEps /\ st[scan.ep] # "LINKED"

IntrInv ==
    /\ IsFiniteSet(IntrQueued)
    /\ intrCount <= Cardinality(IntrQueued)
    /\ ~Emptying => /\ intrCount = Cardinality(IntrQueued)
                    /\ (\E e \in IntrEps : queue[e] # <<>>) => pse

\* The queues and the count are left alone, and no emptying ends.
IntrQuiet ==
    /\ UNCHANGED <<queue, intrCount, pse>>
    /\ Emptying => Emptying'

LEMMA IntrQuietKeeps ==
    ASSUME IntrInv, IntrQuiet
    PROVE  IntrInv'
<1>1. IntrQueued' = IntrQueued
  BY DEF IntrQuiet, IntrQueued, OnQueue, OnList
<1> QED BY <1>1 DEF IntrQuiet, IntrInv

\* With one interrupt endpoint, an empty queue is the end of all interrupt TRPs.
LEMMA NoneQueued ==
    ASSUME TypeOK, NEW e \in IntrEps, IntrEps \subseteq {e}, queue[e] = <<>>
    PROVE  IntrQueued = {} /\ Cardinality(IntrQueued) = 0
<1>1. \A t \in Trps : ~(EpOf[t] \in IntrEps /\ OnQueue(t))
  BY DEF OnQueue, OnList
<1> QED BY <1>1, FS_EmptySet DEF IntrQueued

\* A submission counts its TRP, and starts the schedule if none is queued.
LEMMA IntrSubmit ==
    ASSUME TypeOK, SchedInv, PlaceInv, IntrInv, NEW a \in Actors, NEW t \in Trps,
           Submit(a, t), ~OnQueue(t)
    PROVE  IntrInv'
<1>0. /\ EpOf[t] \in Eps /\ queue \in [Eps -> Seq(Trps)] /\ \A r \in Trps : EpOf[r] \in Eps
      /\ Nobody \notin Eps /\ Nobody \notin Actors /\ IntrEps \subseteq Eps
  BY EhciXferAssumption DEF TypeOK, Eps
<1>1. /\ queue' = [queue EXCEPT ![EpOf[t]] = Append(queue[EpOf[t]], t)]
      /\ lock = Nobody /\ scan' = scan
  BY DEF Submit
<1>2. scan.ep = Nobody
  BY <1>0, <1>1 DEF SchedInv, ScanLocked
<1>3. ~Emptying /\ ~Emptying'
  BY <1>0, <1>1, <1>2 DEF Emptying
<1>4. \A r \in Trps : OnQueue(r)' <=> OnQueue(r) \/ r = t
  <2>1. queue[EpOf[t]] \in Seq(Trps)
    BY <1>0
  <2>2. \A r \in Trps : OnList(r, queue'[EpOf[t]]) <=> OnList(r, queue[EpOf[t]]) \/ r = t
    BY <1>0, <1>1, <2>1, AppendList
  <2>3. \A f \in Eps \ {EpOf[t]} : queue'[f] = queue[f]
    BY <1>0, <1>1
  <2> QED BY <1>0, <2>2, <2>3 DEF OnQueue
<1>5. CASE EpOf[t] \in AsyncEps
  <2>1. EpOf[t] \notin IntrEps
    BY <1>5, EhciXferAssumption
  <2>2. IntrQueued' = IntrQueued
    BY <1>4, <2>1 DEF IntrQueued
  <2>3. UNCHANGED <<intrCount, pse>> /\ \A f \in IntrEps : queue'[f] = queue[f]
    BY <1>0, <1>1, <1>5, <2>1 DEF Submit, AsyncLink
  <2> QED BY <1>3, <2>2, <2>3 DEF IntrInv
<1>6. CASE EpOf[t] \notin AsyncEps
  <2>1. EpOf[t] \in IntrEps
    BY <1>0, <1>6 DEF Eps
  <2>2. intrCount' = intrCount + 1 /\ pse' = (pse \/ intrCount = 0)
    BY <1>6 DEF Submit, IntrLink
  <2>3. IntrQueued' = IntrQueued \cup {t} /\ t \notin IntrQueued
    BY <1>4, <2>1 DEF IntrQueued
  <2>4. IsFiniteSet(IntrQueued) /\ intrCount = Cardinality(IntrQueued) /\ intrCount \in Nat
    BY <1>3 DEF IntrInv, TypeOK
  <2>5. IsFiniteSet(IntrQueued)' /\ Cardinality(IntrQueued)' = Cardinality(IntrQueued) + 1
    BY <2>3, <2>4, FS_AddElement
  <2>6. pse'
    <3>1. CASE intrCount = 0
      BY <2>2, <3>1
    <3>2. CASE intrCount # 0
      <4>1. IntrQueued # {}
        BY <2>4, <3>2, FS_EmptySet
      <4>2. PICK r \in Trps : EpOf[r] \in IntrEps /\ OnQueue(r)
        BY <4>1 DEF IntrQueued
      <4>3. queue[EpOf[r]] # <<>>
        BY <4>2 DEF OnQueue, OnList
      <4> QED BY <1>3, <2>2, <4>2, <4>3 DEF IntrInv
    <3> QED BY <3>1, <3>2
  <2> QED BY <2>2, <2>4, <2>5, <2>6 DEF IntrInv
<1> QED BY <1>5, <1>6

\* The removal of a TRP's last qTD counts it down.
LEMMA IntrLastQtd ==
    ASSUME TypeOK, PlaceInv, IntrInv, NEW a \in Actors, NEW t \in Trps, LastQtd(a, t)
    PROVE  IntrInv'
<1>1. /\ scan.ep \in Eps
      /\ \A e \in Eps \ {scan.ep} : queue'[e] = queue[e]
      /\ \A r \in Trps : OnQueue(r)' <=> OnQueue(r) /\ r # t
      /\ OnQueue(t)
  BY LastQtdMoves
<1>2. /\ AtQtd(a, t) /\ UNCHANGED <<st, pse>> /\ scan'.ep = scan.ep
      /\ intrCount' = IF scan.ep \in IntrEps /\ intrCount > 0 THEN intrCount - 1
                      ELSE intrCount
  BY DEF LastQtd, Removable, RemoveQtd, Frame
<1>3. queue[scan.ep] # <<>> /\ EpOf[t] = scan.ep /\ IntrEps \subseteq Eps
  <2>1. queue[scan.ep] \in Seq(Trps) /\ queue[scan.ep] # <<>> /\ t = Head(queue[scan.ep])
    BY <1>1, <1>2 DEF AtQtd, TypeOK
  <2>2. OnList(t, queue[scan.ep])
    BY <2>1 DEF OnList
  <2> QED BY <1>1, <2>1, <2>2 DEF PlaceInv, Homes, Eps
<1>4. Emptying' <=> Emptying
  BY <1>2 DEF Emptying
<1>5. CASE scan.ep \notin IntrEps
  <2>1. IntrQueued' = IntrQueued
    BY <1>1, <1>3, <1>5 DEF IntrQueued
  <2>2. \A e \in IntrEps : queue'[e] = queue[e]
    BY <1>1, <1>3, <1>5
  <2> QED BY <1>2, <1>4, <1>5, <2>1, <2>2 DEF IntrInv
<1>6. CASE scan.ep \in IntrEps
  <2>1. IntrQueued' = IntrQueued \ {t} /\ t \in IntrQueued
    BY <1>1, <1>3, <1>6 DEF IntrQueued
  <2>2. IsFiniteSet(IntrQueued) /\ intrCount <= Cardinality(IntrQueued) /\ intrCount \in Nat
    BY DEF IntrInv, TypeOK
  <2>3. /\ IsFiniteSet(IntrQueued)' /\ Cardinality(IntrQueued)' = Cardinality(IntrQueued) - 1
        /\ Cardinality(IntrQueued) \in Nat /\ Cardinality(IntrQueued)' \in Nat
    BY <2>1, <2>2, FS_RemoveElement, FS_CardinalityType
  <2>4. ~Emptying => intrCount = Cardinality(IntrQueued) /\ pse
    BY <1>3, <1>6 DEF IntrInv
  <2> QED BY <1>2, <1>4, <1>6, <2>2, <2>3, <2>4 DEF IntrInv
<1> QED BY <1>5, <1>6

\* Taking a QH off its schedule, as a cancellation and a disabling begin.
LEMMA IntrUnlinks ==
    ASSUME TypeOK, IntrInv, NEW e \in Eps, scan.ep = Nobody, Unlink(e),
           scan'.ep = e, UNCHANGED queue
    PROVE  IntrInv'
<1>0. Nobody \notin Eps /\ AsyncEps \cap IntrEps = {} /\ IntrEps \subseteq Eps
  BY EhciXferAssumption DEF Eps
<1>1. ~Emptying /\ IntrQueued' = IntrQueued
  BY <1>0 DEF Emptying, IntrQueued, OnQueue, OnList
<1>2. CASE e \in AsyncEps
  <2>1. UNCHANGED <<intrCount, pse>>
    BY <1>2 DEF Unlink, AsyncUnlink
  <2> QED BY <1>1, <2>1 DEF IntrInv
<1>3. CASE e \notin AsyncEps
  <2>1. e \in IntrEps /\ NSlots[e] \in Nat
    BY <1>3, EhciXferAssumption DEF Eps
  <2>2. intrCount' <= intrCount
    BY <1>3, <2>1 DEF Unlink, IntrUnlink, TypeOK
  <2>3. Emptying'
    BY <2>1 DEF Emptying, Unlink, TypeOK
  <2>4. Cardinality(IntrQueued) \in Nat /\ intrCount \in Nat /\ intrCount' \in Nat
    BY UnlinkType, FS_CardinalityType DEF IntrInv, TypeOK
  <2> QED BY <1>1, <2>2, <2>3, <2>4 DEF IntrInv
<1> QED BY <1>2, <1>3

\* The end of an emptying: all TRPs of the endpoint have been removed.
LEMMA IntrEnds ==
    ASSUME TypeOK, IntrInv, NEW e \in Eps, IntrEps \subseteq {e} \/ e \notin IntrEps, scan.ep = e,
           st[e] # "LINKED" => queue[e] = <<>>,
           UNCHANGED <<queue, intrCount, pse>>
    PROVE  IntrInv'
<1>1. IntrQueued' = IntrQueued
  BY DEF IntrQueued, OnQueue, OnList
<1>2. CASE ~Emptying
  BY <1>1, <1>2 DEF IntrInv
<1>3. CASE Emptying
  <2>1. e \in IntrEps /\ queue[e] = <<>>
    BY <1>3 DEF Emptying
  <2>2. Cardinality(IntrQueued) = 0
    BY <2>1, NoneQueued
  <2>3. \A f \in IntrEps : queue[f] = <<>>
    BY <2>1
  <2>4. intrCount = 0
    BY <2>2 DEF IntrInv, TypeOK
  <2> QED BY <1>1, <2>2, <2>3, <2>4 DEF IntrInv
<1> QED BY <1>2, <1>3


LEMMA IntrStep ==
    ASSUME NEW only \in Eps, IntrEps \subseteq {only},
           TypeOK, SchedInv, PlaceInv, IntrInv, [Next]_vars
    PROVE  IntrInv'
<1>0. /\ Nobody \notin Eps /\ Nobody \notin Actors
      /\ Nobody \notin Trps /\ Users \subseteq Actors
  BY EhciXferAssumption DEF Actors
<1>1. lock = Nobody => scan.ep = Nobody /\ ~Emptying
  BY <1>0 DEF SchedInv, ScanLocked, Emptying, Eps
<1>2. ASSUME UNCHANGED <<queue, intrCount, pse, st, scan>>
      PROVE  IntrInv'
  BY <1>2, IntrQuietKeeps DEF IntrQuiet, Emptying
<1>3. ASSUME NEW e \in Eps, HwRetire(e) \/ HwStop(e)
      PROVE  IntrInv'
  BY <1>2, <1>3 DEF HwRetire, HwStop, counts
<1>4. CASE WorkBegin
  BY <1>2, <1>4 DEF WorkBegin, counts
<1>5. CASE WorkNext
  <2>1. scan.ep = Nobody /\ UNCHANGED <<queue, intrCount, pse>>
    BY <1>5 DEF WorkNext, NoScan, counts
  <2>2. IntrQuiet
    BY <1>0, <2>1 DEF IntrQuiet, Emptying, Eps
  <2> QED BY <2>2, IntrQuietKeeps
<1>6. ASSUME NEW a \in Actors, HandleRetry(a)
      PROVE  IntrInv'
  <2>1. scan' = scan \/ (scan.work /\ scan' = NoScan)
    BY <1>6 DEF HandleRetry
  <2>2. UNCHANGED <<queue, intrCount, pse, st>>
    BY <1>6 DEF HandleRetry, counts
  <2>3. scan.work => ~Emptying
    BY DEF SchedInv, WorkLinked, Emptying
  <2>4. IntrQuiet
    BY <2>1, <2>2, <2>3 DEF IntrQuiet, Emptying
  <2> QED BY <2>4, IntrQuietKeeps
<1>7. ASSUME NEW a \in Actors, HandleQtd(a)
      PROVE  IntrInv'
  <2>1. UNCHANGED <<queue, intrCount, pse, st>> /\ scan'.ep = scan.ep
    BY <1>7 DEF HandleQtd, RemoveQtd, TypeOK, ScanFrames
  <2> QED BY <2>1, IntrQuietKeeps DEF IntrQuiet, Emptying
<1>8. ASSUME NEW a \in Actors, HandleTrp(a) \/ HandleTrpTimeout(a)
      PROVE  IntrInv'
  BY <1>8, IntrLastQtd DEF HandleTrp, HandleTrpTimeout
<1>9. ASSUME NEW a \in Actors, HandleEnd(a)
      PROVE  IntrInv'
  <2>1. /\ scan.ep \in Eps /\ UNCHANGED <<queue, intrCount, pse>>
        /\ scan.work \/ queue[scan.ep] = <<>>
    BY <1>9 DEF HandleEnd, counts, TypeOK, ScanFrames
  <2>2. scan.work => st[scan.ep] = "LINKED"
    BY DEF SchedInv, WorkLinked
  <2> QED BY <2>1, <2>2, IntrEnds
<1>10. ASSUME NEW a \in Actors, \/ ScanEnd(a) \/ DrainBegin(a) \/ DrainOne(a) \/ CbReturn(a)
                                \/ CbTimeout(a) \/ DrainEnd(a) \/ DrainTimeout(a)
       PROVE  IntrInv'
  BY <1>2, <1>10
  DEF ScanEnd, DrainBegin, DrainOne, CbReturn, CbTimeout, DrainEnd, DrainTimeout, Return, counts
<1>11. ASSUME NEW a \in Actors, NEW t \in Trps, SubmitFail(a, t)
       PROVE  IntrInv'
  <2>1. lock = Nobody /\ UNCHANGED <<queue, intrCount, pse, scan>>
    BY <1>11 DEF SubmitFail, counts
  <2> QED BY <1>1, <2>1, IntrQuietKeeps DEF IntrQuiet
<1>12. ASSUME NEW a \in Actors, NEW t \in Trps, Submit(a, t), ~Outstanding(t)
       PROVE  IntrInv'
  BY <1>12, IntrSubmit DEF Outstanding
<1>13. ASSUME NEW u \in Users, NEW t \in Trps, Request(u, t)
       PROVE  IntrInv'
  <2>1. u \in Actors /\ ~Outstanding(t) /\ (Submit(u, t) \/ SubmitFail(u, t))
    BY <1>0, <1>13 DEF Request
  <2> QED BY <1>11, <1>12, <2>1
<1>14. ASSUME NEW a \in Actors, CbResubmit(a)
       PROVE  IntrInv'
  <2>1. /\ cb[a] \in Trps /\ ~Outstanding(cb[a])
        /\ Submit(a, cb[a]) \/ SubmitFail(a, cb[a])
    BY <1>14 DEF CbResubmit, TypeOK, PlaceInv, Delivery
  <2> QED BY <1>11, <1>12, <2>1
<1>15. ASSUME NEW u \in Users, NEW t \in Trps, CancelBegin(u, t)
       PROVE  IntrInv'
  <2>1. /\ lock = Nobody /\ UNCHANGED queue /\ EpOf[t] \in Eps
        /\ \/ Unlink(EpOf[t]) /\ scan' = Frame(EpOf[t], FALSE)
           \/ UNCHANGED <<counts, st, scan>>
    BY <1>15, EhciXferAssumption DEF CancelBegin, Idle
  <2>2. CASE Unlink(EpOf[t]) /\ scan' = Frame(EpOf[t], FALSE)
    BY <1>1, <2>1, <2>2, IntrUnlinks DEF Frame
  <2>3. CASE UNCHANGED <<counts, st, scan>>
    BY <1>2, <2>1, <2>3 DEF counts
  <2> QED BY <2>1, <2>2, <2>3
<1>16. ASSUME NEW u \in Users, NEW e \in Eps, EpDisable(u, e)
       PROVE  IntrInv'
  <2>1. /\ lock = Nobody /\ UNCHANGED queue /\ scan'.ep = e
        /\ Unlink(e) \/ UNCHANGED <<counts, st>>
    BY <1>16 DEF EpDisable, Idle, Frame
  <2>2. CASE Unlink(e)
    BY <1>1, <2>1, <2>2, IntrUnlinks
  <2>3. CASE UNCHANGED <<counts, st>>
    BY <1>1, <2>1, <2>3, IntrQuietKeeps DEF IntrQuiet, counts
  <2> QED BY <2>1, <2>2, <2>3
<1>17. ASSUME NEW u \in Users, DisableEnd(u)
       PROVE  IntrInv'
  <2>1. /\ pc[u] = "disable" /\ queue[scan.ep] = <<>>
        /\ UNCHANGED <<queue, intrCount, pse>>
    BY <1>17 DEF DisableEnd, counts
  <2>2. scan.ep \in Eps
    BY <1>0, <2>1 DEF SchedInv, DisableFrame
  <2> QED BY <2>1, <2>2, IntrEnds
<1>18. CASE UNCHANGED vars
  BY <1>2, <1>18 DEF vars, counts
<1>19. ASSUME NEW a \in Actors, Engine(a)
       PROVE  \/ HandleRetry(a) \/ HandleQtd(a) \/ HandleTrp(a) \/ HandleEnd(a)
              \/ ScanEnd(a) \/ DrainBegin(a) \/ DrainOne(a) \/ CbReturn(a) \/ DrainEnd(a)
              \/ CbResubmit(a)
  BY <1>19 DEF Engine, Handle, Drain
<1>20. ASSUME NEW a \in Actors, Engine(a)
       PROVE  IntrInv'
  BY <1>6, <1>7, <1>8, <1>9, <1>10, <1>14, <1>19, <1>20
<1>21. EhciTask \in Actors
  BY DEF Actors
<1>22. CASE Hardware
  BY <1>3, <1>22 DEF Hardware
<1>23. CASE Task
  BY <1>4, <1>5, <1>20, <1>21, <1>23 DEF Task
<1>24. CASE Timeouts
  BY <1>8, <1>10, <1>24 DEF Timeouts
<1>25. ASSUME NEW u \in Users, User(u)
       PROVE  IntrInv'
  BY <1>0, <1>13, <1>15, <1>16, <1>17, <1>20, <1>25 DEF User
<1> QED BY <1>18, <1>22, <1>23, <1>24, <1>25 DEF Next

LEMMA IntrInit == Init => IntrInv
<1> SUFFICES ASSUME Init
             PROVE  IntrInv
  OBVIOUS
<1>1. /\ \A e \in Eps : queue[e] = <<>>
      /\ intrCount = 0
  BY DEF Init
<1>2. \A t \in Trps : EpOf[t] \in Eps
  BY EhciXferAssumption
<1>3. IntrQueued = {}
  BY <1>1, <1>2 DEF IntrQueued, OnQueue, OnList
<1>4. IsFiniteSet(IntrQueued) /\ Cardinality(IntrQueued) = 0
  BY <1>3, FS_EmptySet
<1> QED BY <1>1, <1>4 DEF IntrInv, Eps

\* With one interrupt endpoint on the controller intr_count is the number of
\* its transfers between two scans, however many there are, and the periodic
\* schedule runs while there is one.  With two, the unlinking of a QH that has
\* several slots counts down the transfers of the other (EhciXferIntr.cfg).
THEOREM IntrCountOfOne ==
    ASSUME NEW only \in Eps, IntrEps \subseteq {only}
    PROVE  Spec => []IntrCountActive
<1>1. TypeOK /\ SchedInv /\ PlaceInv /\ IntrInv /\ [Next]_vars => IntrInv'
  BY IntrStep
<1>2. SchedInv /\ IntrInv => IntrCountActive
  <2>1. Nobody \notin Eps
    BY EhciXferAssumption
  <2> QED
    BY <2>1 DEF SchedInv, ScanLocked, IntrInv, Emptying, IntrCountActive, IntrQueued, Eps
<1> QED
  BY <1>1, <1>2, IntrInit, TypeCorrect, SchedulesCorrect, PlacesKept, PTL DEF Spec
-----------------------------------------------------------------------------
(* Synchronous transfers over the engine                                   *)


\* No two callers share an endpoint.
Apart == \A u, v \in Users : u # v => EpFor(u) # EpFor(v)

\* The driver or a callback refers to TRP t.
Live(t) == Outstanding(t) \/ \E a \in Actors : cb[a] = t

CallStates == {"none", "wait", "cancel", "cancelling", "again"}

SyncTypes ==
    /\ call \in [Users -> CallStates]
    /\ sem \in [Eps -> Nat]

\* A call's token is there once its TRP has been delivered, and no other token;
\* its endpoint stays enabled, and a cancellation is of its own TRP.
Served(u) ==
    /\ sem[EpFor(u)] = IF call[u] # "none" /\ ~Live(TrpOf[u]) THEN 1 ELSE 0
    /\ call[u] \in {"none", "again"} => ~Live(TrpOf[u])
    /\ call[u] # "none" => st[EpFor(u)] # "NONE"
    /\ call[u] = "cancelling" => target[u] = TrpOf[u]
    /\ pc[u] = "disable" => call[u] = "none" /\ scan.ep = EpFor(u)

\* Only TRPs of calls are ever submitted, and only their endpoints get tokens.
Owned ==
    /\ \A t \in Trps : Live(t) => \E u \in Users : t = TrpOf[u]
    /\ \A e \in Eps : sem[e] > 0 => \E u \in Users : e = EpFor(u)

SyncInv == SyncTypes /\ Owned /\ \A u \in Users : Served(u)

EngineInv == TypeOK /\ SchedInv /\ PlaceInv /\ CancelInv
-----------------------------------------------------------------------------
(* The calls respect the engine's conditions                               *)

LEMMA Callers ==
    /\ \A u \in Users : u \in Actors /\ u # EhciTask /\ u # Nobody
                        /\ TrpOf[u] \in Trps /\ EpFor(u) \in Eps
    /\ \A u, v \in Users : TrpOf[u] = TrpOf[v] => u = v
    /\ EhciTask \in Actors /\ Nobody \notin Trps /\ Nobody \notin Eps
    /\ \A t \in Trps : EpOf[t] \in Eps
BY EhciXferAssumption, SyncXferAssumption DEF Actors, EpFor

\* A step of the calls is a step of the engine, or leaves the engine alone.
LEMMA SyncIsNext ==
    ASSUME SyncInv, [SyncNext]_syncVars
    PROVE  [Next]_vars
<1>1. CASE Quietly
  <2>1. \A a \in Actors : Engine(a) => Next
    BY DEF Next, Task, User, Actors
  <2> QED BY <1>1, <2>1, Callers DEF Quietly, Next, Task, Engine, Drain
<1>2. ASSUME NEW a \in Actors, Give(a)
      PROVE  Next
  BY <1>2 DEF Give, Next, Task, User, Engine, Drain, Actors
<1>3. ASSUME NEW u \in Users, SyncUser(u)
      PROVE  [Next]_vars
  <2>1. CASE SyncBegin(u)
    <3>1. ~Live(TrpOf[u])
      BY <2>1 DEF SyncInv, Served, SyncBegin
    <3>2. Request(u, TrpOf[u])
      BY <2>1, <3>1 DEF SyncBegin, Request, Live
    <3> QED BY <3>2, Callers DEF Next, User
  <2>2. CASE WaitOk(u) \/ WaitTimeout(u)
    BY <2>2 DEF WaitOk, WaitTimeout
  <2>3. CASE CancelCall(u)
    BY <2>3, Callers DEF CancelCall, Next, User
  <2>4. CASE CancelReturn(u)
    BY <2>4 DEF CancelReturn, Next, User, Engine, Drain
  <2>5. CASE SyncDisable(u)
    BY <2>5, Callers DEF SyncDisable, Next, User
  <2> QED BY <1>3, <2>1, <2>2, <2>3, <2>4, <2>5 DEF SyncUser
<1>4. CASE UNCHANGED syncVars
  BY <1>4 DEF syncVars
<1> QED BY <1>1, <1>2, <1>3, <1>4 DEF SyncNext
-----------------------------------------------------------------------------
(* Which TRPs the engine refers to                                         *)

LEMMA LiveSame ==
    ASSUME UNCHANGED <<queue, doneList, cb>>
    PROVE  \A t \in Trps : Live(t)' <=> Live(t)
BY DEF Live, Outstanding, OnQueue, OnList

\* A TRP that goes from its QH to the done list, or from there to its callback,
\* stays with the driver.
LEMMA LiveMoves ==
    ASSUME TypeOK, PlaceInv, NEW a \in Actors, HandleTrp(a) \/ DrainOne(a)
    PROVE  \A t \in Trps : Live(t)' <=> Live(t)
<1>1. CASE HandleTrp(a)
  <2>1. PICK r \in Trps : LastQtd(a, r) /\ doneList' = Append(doneList, r)
    BY <1>1 DEF HandleTrp
  <2>2. /\ \A t \in Trps : OnQueue(t)' <=> OnQueue(t) /\ t # r
        /\ OnQueue(r) /\ cb' = cb
    BY <2>1, LastQtdMoves
  <2>3. \A t \in Trps : OnList(t, doneList') <=> OnList(t, doneList) \/ t = r
    BY <2>1, AppendList DEF TypeOK
  <2>4. \A t \in Trps : Outstanding(t)' <=> Outstanding(t)
    BY <2>2, <2>3 DEF Outstanding
  <2> QED BY <2>2, <2>4 DEF Live
<1>2. CASE DrainOne(a)
  <2>1. /\ UNCHANGED queue /\ doneList # <<>> /\ doneList' = Tail(doneList)
        /\ cb[a] = Nobody /\ cb' = [cb EXCEPT ![a] = Head(doneList)]
    BY <1>2 DEF DrainOne
  <2>2. PICK r \in Trps : r = Head(doneList)
    BY <2>1 DEF TypeOK
  <2>3. /\ \A t \in Trps : OnList(t, doneList') <=> OnList(t, doneList) /\ t # r
        /\ OnList(r, doneList)
    BY <2>1, <2>2, TailList DEF TypeOK, PlaceInv, Once
  <2>4. \A t \in Trps : Outstanding(t)' <=> OnQueue(t) \/ (OnList(t, doneList) /\ t # r)
    BY <2>1, <2>3 DEF Outstanding, OnQueue, OnList
  <2>5. \A t \in Trps : (\E b \in Actors : cb'[b] = t) <=> (\E b \in Actors : cb[b] = t) \/ t = r
    BY <2>1, <2>2, Callers DEF TypeOK
  <2> QED BY <2>3, <2>4, <2>5 DEF Live, Outstanding
<1> QED BY <1>1, <1>2

\* A submitted TRP is with the driver.
LEMMA LiveSubmit ==
    ASSUME TypeOK, NEW a \in Actors, NEW t \in Trps, Submit(a, t), cb' = cb
    PROVE  \A r \in Trps : Live(r)' <=> Live(r) \/ r = t
<1> DEFINE e == EpOf[t]
<1>1. /\ e \in Eps /\ queue[e] \in Seq(Trps)
      /\ queue'[e] = Append(queue[e], t) /\ UNCHANGED doneList
      /\ \A f \in Eps \ {e} : queue'[f] = queue[f]
  BY Callers DEF Submit, TypeOK
<1>2. \A r \in Trps : OnList(r, queue'[e]) <=> OnList(r, queue[e]) \/ r = t
  BY <1>1, AppendList
<1>3. \A r \in Trps : OnQueue(r)' <=> OnQueue(r) \/ r = t
  BY <1>1, <1>2, Callers DEF OnQueue
<1> QED BY <1>1, <1>3 DEF Live, Outstanding

\* A delivered TRP is not.
LEMMA LiveGive ==
    ASSUME TypeOK, PlaceInv, NEW a \in Actors, CbReturn(a)
    PROVE  /\ cb[a] \in Trps /\ Live(cb[a])
           /\ \A t \in Trps : Live(t)' <=> Live(t) /\ t # cb[a]
<1>1. /\ UNCHANGED <<queue, doneList>> /\ cb[a] \in Trps
      /\ cb' = [cb EXCEPT ![a] = Nobody]
  BY DEF CbReturn, TypeOK
<1>2. ~Outstanding(cb[a]) /\ \A b \in Actors \ {a} : cb[b] = Nobody
  BY <1>1, Callers DEF PlaceInv, Delivery
<1>3. \A t \in Trps : Outstanding(t)' <=> Outstanding(t)
  BY <1>1 DEF Outstanding, OnQueue, OnList
<1>4. \A b \in Actors : cb'[b] = Nobody
  BY <1>1, <1>2 DEF TypeOK
<1> QED BY <1>1, <1>2, <1>3, <1>4, Callers DEF Live
-----------------------------------------------------------------------------
(* The calls                                                               *)

\* A step that a user's call does not notice.
Same(u) ==
    /\ call'[u] = call[u]
    /\ sem'[EpFor(u)] = sem[EpFor(u)]
    /\ Live(TrpOf[u])' <=> Live(TrpOf[u])
    /\ st[EpFor(u)] # "NONE" => st'[EpFor(u)] # "NONE"
    /\ target'[u] = target[u]
    /\ pc'[u] = "disable" => pc[u] = "disable" /\ scan'.ep = scan.ep

LEMMA SameServed ==
    ASSUME NEW u \in Users, Served(u), Same(u)
    PROVE  Served(u)'
<1>1. (EpFor(u))' = EpFor(u) /\ (TrpOf[u])' = TrpOf[u]
  BY DEF EpFor
<1> QED BY <1>1 DEF Served, Same

\* A step of the engine that neither adds nor takes a TRP, nor ends an endpoint.
Unnoticed ==
    /\ \A t \in Trps : Live(t)' <=> Live(t)
    /\ st' = st
    /\ \A u \in Users : target'[u] = target[u]
    /\ \A u \in Users : pc'[u] = "disable" => pc[u] = "disable" /\ scan'.ep = scan.ep

\* The engine's own steps are of that kind.
LEMMA QuietlyUnnoticed ==
    ASSUME EngineInv, Quietly
    PROVE  Unnoticed
<1>0. /\ TypeOK /\ PlaceInv /\ CancelInv
      /\ \A u \in Users : pc[u] = "disable" => lock = u
      /\ pc \in [Actors -> {"idle", "scan", "disable", "drain", "draining"}]
  BY Callers DEF EngineInv, SchedInv, LockOwner, TypeOK
<1>1. CASE Hardware
  <2>1. UNCHANGED <<queue, doneList, cb, st, target, pc, scan>>
    BY <1>1 DEF Hardware, HwRetire, HwStop, calls
  <2> QED BY <2>1, LiveSame DEF Unnoticed
<1>2. CASE WorkBegin \/ WorkNext
  <2>1. /\ UNCHANGED <<queue, doneList, cb, st, target>>
        /\ pc' = pc \/ pc' = [pc EXCEPT ![EhciTask] = "scan"]
        /\ lock \in {Nobody, EhciTask}
    BY <1>2 DEF WorkBegin, WorkNext, calls
  <2> QED BY <1>0, <2>1, LiveSame, Callers DEF Unnoticed
<1>3. ASSUME NEW a \in Actors, HandleRetry(a) \/ HandleQtd(a) \/ HandleTrp(a)
      PROVE  Unnoticed
  <2>1. UNCHANGED <<st, target, pc>>
    BY <1>3 DEF HandleRetry, HandleQtd, HandleTrp, LastQtd, RemoveQtd, calls
  <2>2. \A t \in Trps : Live(t)' <=> Live(t)
    <3>1. CASE HandleRetry(a) \/ HandleQtd(a)
      <4>1. UNCHANGED <<queue, doneList, cb>>
        BY <3>1 DEF HandleRetry, HandleQtd, RemoveQtd, calls
      <4> QED BY <4>1, LiveSame
    <3> QED BY <1>0, <1>3, <3>1, LiveMoves
  <2>3. \A u \in Users : lock = u => scan'.ep = scan.ep
    BY <1>0, <1>3, QtdFrame DEF Aside
  <2> QED BY <1>0, <2>1, <2>2, <2>3 DEF Unnoticed
<1>4. ASSUME NEW a \in Actors, HandleEnd(a) \/ ScanEnd(a) \/ DrainBegin(a)
      PROVE  Unnoticed
  <2>1. UNCHANGED <<queue, doneList, cb, st, target>>
    BY <1>4 DEF HandleEnd, ScanEnd, DrainBegin, calls
  <2>2. /\ pc' = pc \/ pc' = [pc EXCEPT ![a] = "drain"] \/ pc' = [pc EXCEPT ![a] = "draining"]
        /\ scan' = scan \/ (lock = a /\ pc[a] = "scan")
    BY <1>4 DEF HandleEnd, ScanEnd, DrainBegin
  <2>3. \A u \in Users : pc'[u] = "disable" => pc[u] = "disable" /\ scan' = scan
    BY <1>0, <2>2, Callers
  <2> QED BY <2>1, <2>3, LiveSame DEF Unnoticed
<1>5. ASSUME NEW a \in Actors, DrainOne(a)
      PROVE  Unnoticed
  <2>1. UNCHANGED <<st, target, pc, scan>>
    BY <1>5 DEF DrainOne
  <2> QED BY <1>0, <1>5, <2>1, LiveMoves DEF Unnoticed
<1>6. CASE DrainEnd(EhciTask)
  <2>1. /\ UNCHANGED <<queue, doneList, cb, st, scan>>
        /\ pc' = [pc EXCEPT ![EhciTask] = "idle"]
        /\ target' = [target EXCEPT ![EhciTask] = Nobody]
    BY <1>6 DEF DrainEnd, Return
  <2> QED BY <1>0, <2>1, LiveSame, Callers DEF Unnoticed, TypeOK
<1> QED BY <1>1, <1>2, <1>3, <1>4, <1>5, <1>6 DEF Quietly, Handle

LEMMA UnnoticedKeeps ==
    ASSUME SyncInv, Unnoticed, UNCHANGED <<call, sem>>
    PROVE  SyncInv'
<1>1. SyncTypes' /\ Owned'
  BY DEF SyncInv, SyncTypes, Owned, Unnoticed, EpFor
<1>2. \A u \in Users : Same(u)
  BY Callers DEF Unnoticed, Same
<1> QED BY <1>1, <1>2, SameServed DEF SyncInv

\* A callback gives the token of its call.
LEMMA GiveKeeps ==
    ASSUME Apart, EngineInv, SyncInv, NEW a \in Actors, Give(a)
    PROVE  SyncInv'
<1>1. TypeOK /\ PlaceInv /\ CbReturn(a)
  BY DEF EngineInv, Give
<1>2. /\ cb[a] \in Trps /\ Live(cb[a])
      /\ \A t \in Trps : Live(t)' <=> Live(t) /\ t # cb[a]
  BY <1>1, LiveGive
<1>3. PICK u \in Users : cb[a] = TrpOf[u]
  BY <1>2 DEF SyncInv, Owned
<1>4. /\ UNCHANGED <<call, st, target, pc, scan>>
      /\ sem' = [sem EXCEPT ![EpFor(u)] = sem[EpFor(u)] + 1]
      /\ sem \in [Eps -> Nat]
  BY <1>3 DEF Give, CbReturn, EpFor, SyncInv, SyncTypes
<1>5. SyncTypes'
  BY <1>4, Callers DEF SyncInv, SyncTypes
<1>6. Owned'
  BY <1>2, <1>4, Callers DEF SyncInv, Owned, EpFor
<1>7. Served(u)'
  <2>1. sem[EpFor(u)] = 0 /\ call[u] # "none" /\ Served(u)
    BY <1>2, <1>3 DEF SyncInv, Served
  <2>2. sem'[EpFor(u)] = 1 /\ ~Live(TrpOf[u])'
    BY <1>2, <1>3, <1>4, <2>1, Callers
  <2> QED BY <1>4, <2>1, <2>2 DEF Served, EpFor
<1>8. ASSUME NEW v \in Users, v # u
      PROVE  Served(v)'
  <2>1. sem'[EpFor(v)] = sem[EpFor(v)]
    BY <1>4, <1>8, Callers DEF Apart
  <2>2. Live(TrpOf[v])' <=> Live(TrpOf[v])
    BY <1>2, <1>3, <1>8, Callers
  <2> QED BY <1>4, <2>1, <2>2, SameServed DEF Same, SyncInv
<1> QED BY <1>5, <1>6, <1>7, <1>8 DEF SyncInv

\* What a step of u's call leaves to the others.
LEMMA OthersServed ==
    ASSUME Apart, EngineInv, SyncInv, NEW u \in Users, NEW v \in Users, v # u,
           call' = call \/ \E s \in CallStates : Goto(u, s),
           \/ UNCHANGED sem
           \/ \E n \in Nat : sem' = [sem EXCEPT ![EpFor(u)] = n],
           \A t \in Trps \ {TrpOf[u]} : Live(t)' <=> Live(t),
           \A e \in Eps \ {EpFor(u)} : st'[e] = st[e],
           target'[v] = target[v], pc'[v] = pc[v],
           scan' = scan \/ pc[v] # "disable"
    PROVE  Served(v)'
<1>1. call'[v] = call[v]
  BY DEF Goto, SyncInv, SyncTypes
<1>2. sem'[EpFor(v)] = sem[EpFor(v)]
  BY Callers DEF SyncInv, SyncTypes, Apart
<1>3. /\ Live(TrpOf[v])' <=> Live(TrpOf[v])
      /\ st'[EpFor(v)] = st[EpFor(v)]
  BY Callers DEF Apart
<1> QED BY <1>1, <1>2, <1>3, SameServed DEF Same, SyncInv

\* While a call is made no other task disables an endpoint.
LEMMA AloneInCall ==
    ASSUME EngineInv, NEW u \in Users, Idle(u) \/ DisableEnd(u)
    PROVE  \A v \in Users \ {u} : pc[v] # "disable"
<1>1. hcLock \in {Nobody, u}
  BY DEF EngineInv, CancelInv, Caller, Idle, DisableEnd
<1> QED BY <1>1, Callers DEF EngineInv, CancelInv, Caller

LEMMA BeginKeeps ==
    ASSUME Apart, EngineInv, SyncInv, NEW u \in Users, SyncBegin(u)
    PROVE  SyncInv'
<1> DEFINE t == TrpOf[u]
           e == EpFor(u)
<1>1. /\ TypeOK /\ cb' = cb /\ UNCHANGED <<sem, pc, target, scan>>
      /\ call[u] = "none" /\ pc[u] = "idle" /\ Served(u)
      /\ call \in [Users -> CallStates] /\ st \in [Eps -> {"NONE", "IDLE", "LINKED", "UNLINKED"}]
  BY DEF EngineInv, SyncBegin, Submit, SubmitFail, Idle, SyncInv, SyncTypes, TypeOK
<1>2. CASE Submit(u, t) /\ Goto(u, "wait")
  <2>1. /\ \A r \in Trps : Live(r)' <=> Live(r) \/ r = t
        /\ st' = [st EXCEPT ![e] = "LINKED"]
    BY <1>1, <1>2, LiveSubmit, Callers DEF Submit, EpFor
  <2>2. call' = [call EXCEPT ![u] = "wait"]
    BY <1>2 DEF Goto
  <2>3. SyncTypes' /\ Owned'
    BY <1>1, <2>1, <2>2 DEF SyncInv, SyncTypes, Owned, CallStates, EpFor
  <2>4. Served(u)'
    <3>1. sem[e] = 0
      BY <1>1 DEF Served
    <3>2. call'[u] = "wait" /\ Live(t)' /\ st'[e] = "LINKED"
      BY <1>1, <2>1, <2>2, Callers
    <3> QED BY <1>1, <3>1, <3>2 DEF Served, EpFor
  <2>5. \A v \in Users \ {u} : Served(v)'
    BY <1>1, <1>2, <2>1, OthersServed, Callers DEF CallStates
  <2> QED BY <2>3, <2>4, <2>5 DEF SyncInv
<1>3. CASE SubmitFail(u, t) /\ UNCHANGED call
  <2>1. /\ UNCHANGED <<queue, doneList>>
        /\ st' = [st EXCEPT ![e] = IF @ = "NONE" THEN "IDLE" ELSE @]
    BY <1>3 DEF SubmitFail, EpFor
  <2>2. \A r \in Trps : Live(r)' <=> Live(r)
    BY <1>1, <2>1, LiveSame
  <2>3. SyncTypes' /\ Owned'
    BY <1>1, <1>3, <2>2 DEF SyncInv, SyncTypes, Owned, EpFor
  <2>4. \A v \in Users : Same(v)
    BY <1>1, <1>3, <2>1, <2>2, Callers DEF Same
  <2> QED BY <2>3, <2>4, SameServed DEF SyncInv
<1> QED BY <1>2, <1>3 DEF SyncBegin

\* The waits leave the engine alone.
LEMMA WaitKeeps ==
    ASSUME Apart, EngineInv, SyncInv, NEW u \in Users, WaitOk(u) \/ WaitTimeout(u)
    PROVE  SyncInv'
<1> DEFINE e == EpFor(u)
<1>1. /\ UNCHANGED <<queue, doneList, cb, st, target, pc, scan>> /\ Served(u)
      /\ call[u] \in {"wait", "again"}
      /\ call \in [Users -> CallStates] /\ sem \in [Eps -> Nat] /\ e \in Eps
  BY Callers DEF WaitOk, WaitTimeout, vars, calls, SyncInv, SyncTypes
<1>2. \A t \in Trps : Live(t)' <=> Live(t)
  BY <1>1, LiveSame
<1>token. sem[e] = IF Live(TrpOf[u]) THEN 0 ELSE 1
  BY <1>1 DEF Served
<1>3. /\ sem' = [sem EXCEPT ![e] = 0]
      /\ call' = [call EXCEPT ![u] = IF Live(TrpOf[u]) THEN "cancel" ELSE "none"]
  <2>1. CASE WaitOk(u)
    <3>1. sem[e] = 1 /\ ~Live(TrpOf[u])
      BY <1>token, <2>1 DEF WaitOk
    <3>2. sem' = [sem EXCEPT ![e] = 0]
      BY <1>1, <2>1, <3>1 DEF WaitOk
    <3> QED BY <2>1, <3>1, <3>2 DEF WaitOk, Goto
  <2>2. CASE WaitTimeout(u)
    <3>1. sem[e] = 0 /\ UNCHANGED sem /\ Live(TrpOf[u])
      BY <1>token, <2>2 DEF WaitTimeout
    <3>2. call[u] = "wait"
      BY <1>1, <3>1 DEF Served
    <3>3. sem' = [sem EXCEPT ![e] = 0]
      BY <1>1, <3>1
    <3> QED BY <2>2, <3>1, <3>2, <3>3 DEF WaitTimeout, Goto
  <2> QED BY <2>1, <2>2
<1>4. SyncTypes'
  <2>1. (IF Live(TrpOf[u]) THEN "cancel" ELSE "none") \in CallStates
    BY DEF CallStates
  <2> QED BY <1>1, <1>3, <2>1 DEF SyncTypes
<1>5. Owned'
  BY <1>1, <1>2, <1>3 DEF SyncInv, Owned, EpFor
<1>6. Served(u)'
  <2>1. sem'[e] = 0 /\ call'[u] = IF Live(TrpOf[u]) THEN "cancel" ELSE "none"
    BY <1>1, <1>3
  <2>2. Live(TrpOf[u])' <=> Live(TrpOf[u])
    BY <1>2, Callers
  <2> QED BY <1>1, <2>1, <2>2 DEF Served, EpFor
<1>7. \A v \in Users \ {u} : Served(v)'
  <2>1. \E s \in CallStates : Goto(u, s)
    BY <1>3 DEF Goto, CallStates
  <2>2. \E n \in Nat : sem' = [sem EXCEPT ![EpFor(u)] = n]
    BY <1>3
  <2> QED BY <1>1, <1>2, <2>1, <2>2, OthersServed
<1> QED BY <1>4, <1>5, <1>6, <1>7 DEF SyncInv

LEMMA CancelCallKeeps ==
    ASSUME Apart, EngineInv, SyncInv, NEW u \in Users, CancelCall(u)
    PROVE  SyncInv'
<1> DEFINE e == EpFor(u)
<1>1. /\ UNCHANGED <<queue, doneList, cb, sem>> /\ Served(u) /\ Idle(u)
      /\ call[u] = "cancel" /\ call' = [call EXCEPT ![u] = "cancelling"]
      /\ call \in [Users -> CallStates] /\ e \in Eps /\ TypeOK
  BY Callers DEF CancelCall, CancelBegin, Goto, SyncInv, SyncTypes, EngineInv
<1>2. \A t \in Trps : Live(t)' <=> Live(t)
  BY <1>1, LiveSame
<1>3. st[e] # "NONE"
  BY <1>1 DEF Served
<1>4. /\ target' = [target EXCEPT ![u] = TrpOf[u]]
      /\ st' = st \/ st' = [st EXCEPT ![e] = "UNLINKED"]
      /\ pc' = [pc EXCEPT ![u] = "scan"] \/ pc' = [pc EXCEPT ![u] = "drain"]
  BY <1>3 DEF CancelCall, CancelBegin, Unlink, EpFor
<1>5. SyncTypes' /\ Owned'
  BY <1>1, <1>2 DEF SyncInv, SyncTypes, Owned, EpFor, CallStates
<1>6. Served(u)'
  <2>1. /\ call'[u] = "cancelling" /\ target'[u] = TrpOf[u] /\ pc'[u] # "disable"
        /\ st'[e] # "NONE" /\ (Live(TrpOf[u])' <=> Live(TrpOf[u]))
    BY <1>1, <1>2, <1>3, <1>4, Callers DEF TypeOK
  <2> QED BY <1>1, <2>1 DEF Served, EpFor
<1>7. ASSUME NEW v \in Users, v # u
      PROVE  Served(v)'
  <2>1. pc[v] # "disable"
    BY <1>1, <1>7, AloneInCall
  <2>2. \E s \in CallStates : Goto(u, s)
    BY <1>1 DEF Goto, CallStates
  <2>3. target'[v] = target[v] /\ pc'[v] = pc[v] /\ \A f \in Eps \ {e} : st'[f] = st[f]
    BY <1>1, <1>4, <1>7, Callers DEF TypeOK
  <2> QED BY <1>1, <1>2, <1>7, <2>1, <2>2, <2>3, OthersServed
<1> QED BY <1>5, <1>6, <1>7 DEF SyncInv

\* After its cancellation the TRP of a call has been delivered.
LEMMA CancelReturnKeeps ==
    ASSUME Apart, EngineInv, SyncInv, NEW u \in Users, CancelReturn(u)
    PROVE  SyncInv'
<1>1. /\ UNCHANGED <<queue, doneList, cb, sem, st, scan>> /\ Served(u)
      /\ pc[u] = "draining" /\ doneList = <<>> /\ cb[u] = Nobody
      /\ call[u] = "cancelling"
      /\ pc' = [pc EXCEPT ![u] = "idle"] /\ target' = [target EXCEPT ![u] = Nobody]
      /\ call \in [Users -> CallStates] /\ TypeOK
  BY DEF CancelReturn, DrainEnd, Return, SyncInv, SyncTypes, EngineInv
<1>2. \A t \in Trps : Live(t)' <=> Live(t)
  BY <1>1, LiveSame
<1>3. target[u] = TrpOf[u] /\ TrpOf[u] # Nobody /\ TrpOf[u] \in Trps
  BY <1>1, Callers DEF Served
<1>4. call' = [call EXCEPT ![u] = "again"]
  BY <1>3 DEF CancelReturn, Goto
<1>5. ~Live(TrpOf[u])
  <2>1. Places(TrpOf[u]) = {}
    BY <1>1, <1>3, CancelDone DEF EngineInv
  <2> QED BY <2>1 DEF Places, Live, Outstanding, OnQueue, OnList
<1>6. SyncTypes' /\ Owned'
  BY <1>1, <1>2, <1>4 DEF SyncInv, SyncTypes, Owned, EpFor, CallStates
<1>7. Served(u)'
  <2>1. call'[u] = "again" /\ pc'[u] = "idle" /\ ~Live(TrpOf[u])'
    BY <1>1, <1>2, <1>3, <1>4, <1>5, Callers DEF TypeOK
  <2> QED BY <1>1, <1>5, <2>1 DEF Served, EpFor
<1>8. ASSUME NEW v \in Users, v # u
      PROVE  Served(v)'
  <2>1. \E s \in CallStates : Goto(u, s)
    BY <1>4 DEF Goto, CallStates
  <2>2. target'[v] = target[v] /\ pc'[v] = pc[v]
    BY <1>1, <1>8, Callers DEF TypeOK
  <2> QED BY <1>1, <1>2, <1>8, <2>1, <2>2, OthersServed
<1> QED BY <1>6, <1>7, <1>8 DEF SyncInv

\* A user disables its endpoint outside its calls.
LEMMA DisableKeeps ==
    ASSUME Apart, EngineInv, SyncInv, NEW u \in Users, SyncDisable(u)
    PROVE  SyncInv'
<1> DEFINE e == EpFor(u)
<1>1. /\ UNCHANGED <<queue, doneList, cb, target, call, sem>> /\ Served(u)
      /\ call[u] = "none" /\ TypeOK /\ e \in Eps
  BY Callers DEF SyncDisable, EpDisable, DisableEnd, calls, SyncInv, EngineInv
<1>2. \A t \in Trps : Live(t)' <=> Live(t)
  BY <1>1, LiveSame
<1>3. \/ pc' = [pc EXCEPT ![u] = "disable"] /\ scan'.ep = e
      \/ pc' = [pc EXCEPT ![u] = "idle"]
  BY DEF SyncDisable, EpDisable, DisableEnd, Frame
<1>4. \A f \in Eps \ {e} : st'[f] = st[f]
  <2>1. CASE EpDisable(u, e)
    BY <1>1, <2>1 DEF EpDisable, Unlink, TypeOK
  <2>2. CASE DisableEnd(u)
    <3>1. scan.ep = e
      BY <1>1, <2>2 DEF DisableEnd, Served
    <3> QED BY <1>1, <2>2, <3>1 DEF DisableEnd, TypeOK
  <2> QED BY <2>1, <2>2 DEF SyncDisable
<1>5. SyncTypes' /\ Owned'
  BY <1>1, <1>2 DEF SyncInv, SyncTypes, Owned, EpFor
<1>6. Served(u)'
  <2>1. (Live(TrpOf[u])' <=> Live(TrpOf[u])) /\ (pc'[u] = "disable" => scan'.ep = e)
    BY <1>1, <1>2, <1>3, Callers DEF TypeOK
  <2> QED BY <1>1, <2>1 DEF Served, EpFor
<1>7. ASSUME NEW v \in Users, v # u
      PROVE  Served(v)'
  <2>1. pc[v] # "disable"
    BY <1>7, AloneInCall DEF SyncDisable, EpDisable
  <2>2. pc'[v] = pc[v]
    BY <1>1, <1>3, <1>7, Callers DEF TypeOK
  <2> QED BY <1>1, <1>2, <1>4, <1>7, <2>1, <2>2, OthersServed
<1> QED BY <1>5, <1>6, <1>7 DEF SyncInv
-----------------------------------------------------------------------------
(* The theorems                                                            *)

\* Every call keeps the engine's invariants and its own.
THEOREM SyncInvariant ==
    ASSUME Apart
    PROVE  SyncSpec => [](EngineInv /\ SyncInv)
<1>1. SyncInit => EngineInv /\ SyncInv
  <2> SUFFICES ASSUME SyncInit
               PROVE  EngineInv /\ SyncInv
    OBVIOUS
  <2>1. EngineInv
    BY TypeInit, SchedulesInit, PlacesInit, CancelInit DEF SyncInit, EngineInv
  <2>2. /\ call = [u \in Users |-> "none"] /\ sem = [e \in Eps |-> 0]
        /\ \A a \in Actors : pc[a] = "idle" /\ cb[a] = Nobody
        /\ doneList = <<>> /\ \A e \in Eps : queue[e] = <<>>
    BY DEF SyncInit, Init
  <2>3. \A t \in Trps : ~Live(t)
    BY <2>2, Callers DEF Live, Outstanding, OnQueue, OnList
  <2>4. SyncTypes /\ Owned
    BY <2>2, <2>3 DEF SyncTypes, CallStates, Owned
  <2>5. \A u \in Users : Served(u)
    BY <2>2, <2>3, Callers DEF Served
  <2> QED BY <2>1, <2>4, <2>5 DEF SyncInv
<1>2. EngineInv /\ SyncInv /\ [SyncNext]_syncVars => (EngineInv /\ SyncInv)'
  <2> SUFFICES ASSUME EngineInv, SyncInv, [SyncNext]_syncVars
               PROVE  EngineInv' /\ SyncInv'
    OBVIOUS
  <2>1. EngineInv'
    BY SyncIsNext, TypeStep, ScheduleStep, PlaceStep, CancelStep, SyncXferAssumption
    DEF EngineInv
  <2>2. CASE Quietly
    BY <2>1, <2>2, QuietlyUnnoticed, UnnoticedKeeps DEF Quietly
  <2>3. ASSUME NEW u \in Users, SyncUser(u)
        PROVE  SyncInv'
    BY <2>3, BeginKeeps, WaitKeeps, CancelCallKeeps, CancelReturnKeeps, DisableKeeps
    DEF SyncUser
  <2>4. CASE UNCHANGED syncVars
    <3>1. Unnoticed /\ UNCHANGED <<call, sem>>
      BY <2>4, LiveSame DEF syncVars, vars, calls, Unnoticed
    <3> QED BY <2>1, <3>1, UnnoticedKeeps
  <2> QED BY <2>1, <2>2, <2>3, <2>4, GiveKeeps DEF SyncNext
<1> QED BY <1>1, <1>2, PTL DEF SyncSpec

\* The calls use the transfer engine as EhciXfer's owners of TRPs do: a TRP is
\* not submitted while the driver still has it.
THEOREM SyncImplementsEngine ==
    ASSUME Apart
    PROVE  SyncSpec => Spec
<1>1. SyncInit => Init
  BY DEF SyncInit
<1>2. EngineInv /\ SyncInv /\ [SyncNext]_syncVars => [Next]_vars
  BY SyncIsNext
<1> QED BY <1>1, <1>2, SyncInvariant, PTL DEF SyncSpec, Spec

\* A call that has returned leaves its stack TRP to nobody.
THEOREM StackTrpReturned ==
    ASSUME Apart
    PROVE  SyncSpec => []NoDanglingFrame
<1>1. SyncInv => NoDanglingFrame
  BY DEF SyncInv, Served, NoDanglingFrame, Places, Live, Outstanding, OnQueue, OnList
<1> QED BY <1>1, SyncInvariant, PTL

\* No token outlives its call.
THEOREM TokensTaken ==
    ASSUME Apart
    PROVE  SyncSpec => []NoStaleToken
<1>1. SyncInv => NoStaleToken
  <2> SUFFICES ASSUME SyncInv, NEW e \in Eps
               PROVE  sem[e] <= Cardinality({u \in Users : EpFor(u) = e /\ call[u] # "none"})
    BY DEF NoStaleToken
  <2> DEFINE C == {u \in Users : EpFor(u) = e /\ call[u] # "none"}
  <2>1. sem[e] \in Nat
    BY DEF SyncInv, SyncTypes
  <2>2. ASSUME sem[e] > 0
        PROVE  sem[e] = 1 /\ \E u \in Users : C = {u}
    <3>1. PICK u \in Users : e = EpFor(u)
      BY <2>2 DEF SyncInv, Owned
    <3>2. sem[e] = 1 /\ call[u] # "none"
      BY <2>2, <3>1 DEF SyncInv, Served
    <3>3. C = {u}
      BY <3>1, <3>2 DEF Apart
    <3> QED BY <3>2, <3>3
  <2>3. IsFiniteSet(C)
    <3>1. \A u, v \in C : u = v
      BY DEF Apart
    <3>2. CASE C = {}
      BY <3>2, FS_EmptySet
    <3>3. ASSUME NEW u \in C
          PROVE  IsFiniteSet(C)
      <4>1. C = {u}
        BY <3>1, <3>3
      <4> HIDE DEF C
      <4> QED BY <4>1, FS_Singleton
    <3> HIDE DEF C
    <3> QED BY <3>2, <3>3
  <2>4. Cardinality(C) \in Nat
    BY <2>3, FS_CardinalityType
  <2>5. CASE sem[e] > 0
    <3>1. sem[e] = 1 /\ Cardinality(C) = 1
      BY <2>2, <2>5, FS_Singleton
    <3> QED BY <3>1
  <2>6. CASE sem[e] = 0
    BY <2>4, <2>6
  <2> QED BY <2>1, <2>5, <2>6
<1> QED BY <1>1, SyncInvariant, PTL

\* The second wait of a call finds its token.
THEOREM SecondWaitAtOnce ==
    ASSUME Apart
    PROVE  SyncSpec => []SecondWaitReady
<1>1. SyncInv => SecondWaitReady
  BY DEF SyncInv, Served, SecondWaitReady
<1> QED BY <1>1, SyncInvariant, PTL
-----------------------------------------------------------------------------
(* The qTDs of a QH, for any pool and any length of TRPs (EhciQtd)         *)

\* What a sequence holds, and that it holds nothing twice.
In(s) == {s[k] : k \in 1 .. Len(s)}
NoRepeat(s) == \A a, b \in 1 .. Len(s) : s[a] = s[b] => a = b

\* A sequence cut in two.
LEMMA SeqCut ==
    ASSUME NEW T, NEW s \in Seq(T), NEW n \in 0 .. Len(s)
    PROVE  /\ SubSeq(s, 1, n) \in Seq(T) /\ Len(SubSeq(s, 1, n)) = n
           /\ \A k \in 1 .. n : SubSeq(s, 1, n)[k] = s[k]
           /\ SubSeq(s, n + 1, Len(s)) \in Seq(T) /\ Len(SubSeq(s, n + 1, Len(s))) = Len(s) - n
           /\ \A k \in 1 .. Len(s) - n : SubSeq(s, n + 1, Len(s))[k] = s[n + k]
OBVIOUS

LEMMA SeqCutOnce ==
    ASSUME NEW T, NEW s \in Seq(T), NEW n \in 0 .. Len(s), NoRepeat(s)
    PROVE  LET c == SubSeq(s, 1, n)  d == SubSeq(s, n + 1, Len(s))
           IN /\ c \in Seq(T) /\ Len(c) = n /\ \A k \in 1 .. n : c[k] = s[k]
              /\ d \in Seq(T) /\ Len(d) = Len(s) - n
              /\ NoRepeat(c) /\ NoRepeat(d) /\ In(c) \cap In(d) = {} /\ In(s) = In(c) \cup In(d)
<1> DEFINE c == SubSeq(s, 1, n)
           d == SubSeq(s, n + 1, Len(s))
<1>1. /\ c \in Seq(T) /\ Len(c) = n /\ \A k \in 1 .. n : c[k] = s[k]
      /\ d \in Seq(T) /\ Len(d) = Len(s) - n /\ \A k \in 1 .. Len(s) - n : d[k] = s[n + k]
  BY SeqCut
<1> HIDE DEF c, d
<1>2. NoRepeat(c)
  BY <1>1 DEF NoRepeat
<1>3. NoRepeat(d)
  BY <1>1 DEF NoRepeat
<1>4. In(c) \cap In(d) = {}
  <2> SUFFICES ASSUME NEW a \in 1 .. Len(c), NEW b \in 1 .. Len(d), c[a] = d[b] PROVE FALSE
    BY DEF In
  <2>1. a \in 1 .. Len(s) /\ n + b \in 1 .. Len(s) /\ a # n + b
    BY <1>1
  <2>2. s[a] = s[n + b]
    BY <1>1
  <2> QED BY <2>1, <2>2 DEF NoRepeat
<1>5. In(c) \subseteq In(s) /\ In(d) \subseteq In(s)
  BY <1>1 DEF In
<1>6. ASSUME NEW k \in 1 .. Len(s) PROVE s[k] \in In(c) \cup In(d)
  <2>1. CASE k <= n
    BY <1>1, <2>1 DEF In
  <2>2. CASE k > n
    <3>1. k - n \in 1 .. Len(d) /\ d[k - n] = s[k]
      BY <1>1, <2>2
    <3> QED BY <3>1 DEF In
  <2> QED BY <2>1, <2>2
<1>7. In(s) = In(c) \cup In(d)
  BY <1>5, <1>6 DEF In
<1> QED BY <1>1, <1>2, <1>3, <1>4, <1>7 DEF c, d

\* One put in front.
LEMMA SeqFront ==
    ASSUME NEW T, NEW s \in Seq(T), NEW x \in T, x \notin In(s), NoRepeat(s)
    PROVE  /\ <<x>> \o s \in Seq(T) /\ Len(<<x>> \o s) = Len(s) + 1
           /\ NoRepeat(<<x>> \o s) /\ In(<<x>> \o s) = In(s) \cup {x}
<1> DEFINE r == <<x>> \o s
<1>1. /\ r \in Seq(T) /\ Len(r) = Len(s) + 1 /\ r[1] = x
      /\ \A k \in 1 .. Len(s) : r[k + 1] = s[k]
      /\ \A k \in 2 .. Len(r) : r[k] = s[k - 1]
  OBVIOUS
<1> HIDE DEF r
<1>2. \A k \in 1 .. Len(r) : k = 1 \/ (k \in 2 .. Len(r) /\ k - 1 \in 1 .. Len(s))
  BY <1>1
<1>6. \A k \in 2 .. Len(r) : r[k] \in In(s)
  BY <1>1, <1>2 DEF In
<1>3. NoRepeat(r)
  <2> SUFFICES ASSUME NEW a \in 1 .. Len(r), NEW b \in 1 .. Len(r), r[a] = r[b]
               PROVE  a = b
    BY DEF NoRepeat
  <2>1. CASE a = 1 \/ b = 1
    BY <1>1, <1>2, <1>6, <2>1
  <2>2. CASE a \in 2 .. Len(r) /\ b \in 2 .. Len(r)
    <3>1. s[a - 1] = s[b - 1] /\ a - 1 \in 1 .. Len(s) /\ b - 1 \in 1 .. Len(s)
      BY <1>1, <2>2
    <3> QED BY <3>1 DEF NoRepeat
  <2> QED BY <1>2, <2>1, <2>2
<1>4. In(r) \subseteq In(s) \cup {x}
  <2>1. \A k \in 1 .. Len(r) : r[k] \in In(s) \cup {x}
    BY <1>1, <1>2, <1>6
  <2> QED BY <2>1 DEF In
<1>5. In(s) \cup {x} \subseteq In(r)
  <2>1. 1 \in 1 .. Len(r) /\ \A k \in 1 .. Len(s) : k + 1 \in 1 .. Len(r)
    BY <1>1
  <2> QED BY <1>1, <2>1 DEF In
<1> QED BY <1>1, <1>3, <1>4, <1>5 DEF r

\* Two sequences one after the other.
LEMMA SeqJoin ==
    ASSUME NEW T, NEW s \in Seq(T), NEW u \in Seq(T), NoRepeat(s), NoRepeat(u), In(s) \cap In(u) = {}
    PROVE  /\ s \o u \in Seq(T) /\ Len(s \o u) = Len(s) + Len(u)
           /\ \A k \in 1 .. Len(s) : (s \o u)[k] = s[k]
           /\ \A k \in 1 .. Len(u) : (s \o u)[Len(s) + k] = u[k]
           /\ NoRepeat(s \o u) /\ In(s \o u) = In(s) \cup In(u)
<1> DEFINE r == s \o u
           n == Len(s)
<1>1. /\ r \in Seq(T) /\ Len(r) = n + Len(u) /\ n \in Nat /\ Len(u) \in Nat
      /\ \A k \in 1 .. n : r[k] = s[k]
      /\ \A k \in 1 .. Len(u) : r[n + k] = u[k]
      /\ \A k \in n + 1 .. Len(r) : r[k] = u[k - n]
  OBVIOUS
<1> HIDE DEF r
<1>2. \A k \in 1 .. Len(r) : k \in 1 .. n \/ (k \in n + 1 .. Len(r) /\ k - n \in 1 .. Len(u))
  BY <1>1
<1>6. \A k \in 1 .. n : r[k] \in In(s)
  BY <1>1 DEF In
<1>7. \A k \in n + 1 .. Len(r) : r[k] \in In(u)
  BY <1>1, <1>2 DEF In
<1>3. NoRepeat(r)
  <2> SUFFICES ASSUME NEW a \in 1 .. Len(r), NEW b \in 1 .. Len(r), r[a] = r[b]
               PROVE  a = b
    BY DEF NoRepeat
  <2>1. CASE a \in 1 .. n /\ b \in 1 .. n
    BY <1>1, <2>1 DEF NoRepeat
  <2>2. CASE a \in n + 1 .. Len(r) /\ b \in n + 1 .. Len(r)
    <3>1. u[a - n] = u[b - n] /\ a - n \in 1 .. Len(u) /\ b - n \in 1 .. Len(u)
      BY <1>1, <2>2
    <3>2. a - n = b - n
      BY <3>1 DEF NoRepeat
    <3> QED BY <1>1, <3>2
  <2>3. CASE (a \in 1 .. n /\ b \in n + 1 .. Len(r)) \/ (b \in 1 .. n /\ a \in n + 1 .. Len(r))
    BY <1>6, <1>7, <2>3
  <2> QED BY <1>2, <2>1, <2>2, <2>3
<1>4. In(r) \subseteq In(s) \cup In(u)
  <2>1. \A k \in 1 .. Len(r) : r[k] \in In(s) \cup In(u)
    BY <1>2, <1>6, <1>7
  <2> QED BY <2>1 DEF In
<1>5. In(s) \cup In(u) \subseteq In(r)
  <2>1. (\A k \in 1 .. n : k \in 1 .. Len(r)) /\ \A k \in 1 .. Len(u) : n + k \in 1 .. Len(r)
    BY <1>1
  <2>2. \A k \in 1 .. n : s[k] \in In(r)
    BY <1>1, <2>1 DEF In
  <2>3. \A k \in 1 .. Len(u) : u[k] \in In(r)
    BY <1>1, <2>1 DEF In
  <2> QED BY <2>2, <2>3 DEF In
<1> QED BY <1>1, <1>3, <1>4, <1>5 DEF r

\* A sequence without its head.
LEMMA SeqTail ==
    ASSUME NEW T, NEW s \in Seq(T), s # <<>>, NoRepeat(s)
    PROVE  /\ Tail(s) \in Seq(T) /\ Len(Tail(s)) = Len(s) - 1 /\ Len(s) \in Nat \ {0}
           /\ Head(s) = s[1] /\ \A k \in 1 .. Len(s) - 1 : Tail(s)[k] = s[k + 1]
           /\ NoRepeat(Tail(s)) /\ In(Tail(s)) = In(s) \ {Head(s)} /\ Head(s) \in In(s)
<1> DEFINE r == Tail(s)
<1>1. /\ r \in Seq(T) /\ Len(r) = Len(s) - 1 /\ Head(s) = s[1] /\ Len(s) \in Nat \ {0}
      /\ \A k \in 1 .. Len(s) - 1 : r[k] = s[k + 1]
      /\ \A k \in 2 .. Len(s) : s[k] = r[k - 1]
  OBVIOUS
<1> HIDE DEF r
<1>2. NoRepeat(r)
  BY <1>1 DEF NoRepeat
<1>3. Head(s) \in In(s)
  BY <1>1 DEF In
<1>4. In(r) \subseteq In(s) \ {Head(s)}
  <2> SUFFICES ASSUME NEW a \in 1 .. Len(r) PROVE r[a] \in In(s) /\ r[a] # Head(s)
    BY DEF In
  <2>1. r[a] = s[a + 1] /\ a + 1 \in 1 .. Len(s) /\ a + 1 # 1 /\ 1 \in 1 .. Len(s)
    BY <1>1
  <2>2. s[a + 1] # s[1]
    BY <2>1 DEF NoRepeat
  <2> QED BY <1>1, <2>1, <2>2 DEF In
<1>5. \A k \in 1 .. Len(s) : k = 1 \/ (k \in 2 .. Len(s) /\ k - 1 \in 1 .. Len(r))
  BY <1>1
<1>6. In(s) \ {Head(s)} \subseteq In(r)
  BY <1>1, <1>5 DEF In
<1> QED BY <1>1, <1>2, <1>3, <1>4, <1>6 DEF r

\* A sequence from its end.
LEMMA SeqReverse ==
    ASSUME NEW T, NEW s \in Seq(T), NoRepeat(s),
           NEW r, r = [k \in 1 .. Len(s) |-> s[(Len(s) - k) + 1]]
    PROVE  r \in Seq(T) /\ Len(r) = Len(s) /\ NoRepeat(r) /\ In(r) = In(s)
<1>1. /\ Len(s) \in Nat /\ \A k \in 1 .. Len(s) : (Len(s) - k) + 1 \in 1 .. Len(s)
      /\ \A k \in 1 .. Len(s) : s[k] \in T
  OBVIOUS
<1>2. r \in [1 .. Len(s) -> T]
  BY <1>1
<1>3. r \in Seq(T) /\ Len(r) = Len(s)
  BY <1>1, <1>2
<1>4. \A k \in 1 .. Len(s) : r[k] = s[(Len(s) - k) + 1]
  OBVIOUS
<1>5. NoRepeat(r)
  BY <1>1, <1>3, <1>4 DEF NoRepeat
<1>6. \A k \in 1 .. Len(s) : s[k] = r[(Len(s) - k) + 1]
  BY <1>1, <1>4
<1>7. In(r) = In(s)
  <2>1. ASSUME NEW k \in 1 .. Len(s)
        PROVE  r[k] \in In(s) /\ s[k] \in In(r)
    <3>1. r[k] = s[(Len(s) - k) + 1] /\ s[k] = r[(Len(s) - k) + 1]
      BY <1>4, <1>6
    <3>2. (Len(s) - k) + 1 \in 1 .. Len(s)
      BY <1>1
    <3> QED BY <1>3, <3>1, <3>2 DEF In
  <2> QED BY <1>3, <2>1 DEF In
<1> QED BY <1>3, <1>5, <1>7

\* A sequence without repetitions is no longer than what it holds is large.
LEMMA SeqFits ==
    ASSUME NEW S, IsFiniteSet(S), NEW s \in Seq(S), NoRepeat(s)
    PROVE  Len(s) <= Cardinality(S) /\ Cardinality(In(s)) = Len(s) /\ Cardinality(S) \in Nat
<1>1. Len(s) \in Nat /\ In(s) \subseteq S /\ s \in [1 .. Len(s) -> In(s)]
  BY DEF In
<1>2. s \in Bijection(1 .. Len(s), In(s))
  <2>1. \A a, b \in 1 .. Len(s) : s[a] = s[b] => a = b
    BY DEF NoRepeat
  <2>2. \A x \in In(s) : \E k \in 1 .. Len(s) : s[k] = x
    BY DEF In
  <2> QED BY <1>1, <2>1, <2>2 DEF Bijection, Injection, Surjection, IsInjective
<1>3. ExistsBijection(1 .. Len(s), In(s))
  BY <1>2 DEF ExistsBijection
<1>4. Cardinality(In(s)) = Len(s)
  BY <1>1, <1>3, FS_CountingElements
<1> QED BY <1>1, <1>4, FS_Subset, FS_CardinalityType

CONSTANTS QtdItems, EpKinds, TrpQtds, QtdBound

VARIABLES qhKind, qhFree, qhCount, qhState, qhDummy, qhList, qhQtd, qhOv, qhIrq, qhScan, qhMade,
          qhRan, qhLost, qhResumed

Qh == INSTANCE EhciQtd WITH
    Items <- QtdItems, Kinds <- EpKinds, MaxQtds <- TrpQtds, MaxMade <- QtdBound,
    kind <- qhKind, free <- qhFree, n_free <- qhCount, state <- qhState, dummy <- qhDummy,
    list <- qhList, qtd <- qhQtd, ov <- qhOv, irq <- qhIrq, scan <- qhScan, made <- qhMade,
    ran <- qhRan, lost <- qhLost, resumed <- qhResumed

QtdParams == IsFiniteSet(QtdItems) /\ 0 \notin QtdItems /\ TrpQtds \in Nat

QtdRef == QtdItems \cup {0}
QtdRecs == [active : BOOLEAN, short : BOOLEAN, halt : BOOLEAN, next : QtdRef, alt : BOOLEAN,
            ioc : BOOLEAN, no : Nat]
OvRecs == [cur : QtdRef, next : QtdRef, alt : BOOLEAN, active : BOOLEAN, short : BOOLEAN,
           halt : BOOLEAN]
ScanRecs == [at : {"idle", "look", "cut", "free"}, prev : QtdRef, work : BOOLEAN,
             then : {"NONE", "UNLINKED", "LINKED"}]

QtdTypes ==
    /\ qhCount = Len(qhFree) /\ qhDummy \in QtdRef
    /\ qhState \in {"NONE", "IDLE", "LINKED", "UNLINKED"}
    /\ qhQtd \in [QtdItems -> QtdRecs] /\ qhOv \in OvRecs
    /\ qhIrq \in BOOLEAN /\ qhScan \in ScanRecs
    /\ qhMade \in Nat /\ qhRan \in Nat /\ qhResumed \in BOOLEAN

\* Each qTD is in one place.
QtdPlaces ==
    /\ qhFree \in Seq(QtdItems) /\ qhList \in Seq(QtdItems)
    /\ NoRepeat(qhFree) /\ NoRepeat(qhList) /\ In(qhFree) \cap In(qhList) = {}
    /\ qhDummy # 0 => qhDummy \notin In(qhFree) \cup In(qhList) \cup {qhScan.prev}
    /\ qhScan.prev # 0 => qhScan.prev \notin In(qhFree) \cup In(qhList)
    /\ qhLost \subseteq QtdItems
    /\ qhLost \cap (In(qhFree) \cup In(qhList) \cup {qhDummy, qhScan.prev}) = {}
    /\ QtdItems = qhLost \cup In(qhFree) \cup In(qhList) \cup ({qhDummy, qhScan.prev} \ {0})
    /\ qhScan.prev # 0 => qhScan.at = "look"

QhNo(i) == qhQtd[i].no
QhNext(i) == qhQtd[i].next
QhActive == {i \in QtdItems : qhQtd[i].active}
QhHalted == {i \in QtdItems : qhQtd[i].halt}
QhEnded == {i \in QtdItems : qhQtd[i].short /\ qhQtd[i].alt}
QhIoc == {i \in QtdItems : qhQtd[i].ioc}

\* The queue is linked in the order in which its qTDs were made, and the last interrupts.
QhChained ==
    /\ \A a, b \in 1 .. Len(qhList) : a < b => QhNo(qhList[a]) < QhNo(qhList[b])
    /\ \A i \in In(qhList) :
         /\ QhNo(i) \in 1 .. qhMade
         /\ QhNext(i) = 0 => i \in QhIoc /\ \A j \in In(qhList) : QhNo(j) <= QhNo(i)
         /\ QhNext(i) # 0 =>
              /\ QhNext(i) \in In(qhList) /\ QhNo(i) < QhNo(QhNext(i))
              /\ \A j \in In(qhList) : QhNo(i) < QhNo(j) => QhNo(QhNext(i)) <= QhNo(j)
    /\ \A i \in QtdItems : QhNo(i) <= qhMade
    /\ qhRan <= qhMade
    /\ QhHalted \cap QhEnded = {}

\* Where the handler can be, and what it leaves.
QhHandled ==
    /\ qhState = "NONE" => qhDummy = 0
    /\ qhList = <<>> => qhOv.next = 0
    /\ qhScan.at \in {"idle", "free"} /\ qhState # "LINKED" => qhList = <<>>
    /\ qhScan.at = "free" => qhList = <<>>
    /\ qhScan.at = "cut" => qhList # <<>>
    /\ qhScan.at \in {"look", "cut"} /\ qhScan.work => qhState = "LINKED"

OvStopped == qhOv.halt \/ (qhOv.short /\ qhOv.alt)
QhBusy == In(qhList) \cap QhActive

\* What the controller works on.
HwWorks ==
    /\ qhOv.active =>
         /\ qhOv.cur \in QhBusy /\ (qhOv.alt <=> qhQtd[qhOv.cur].alt)
         /\ \A i \in QhBusy : QhNo(qhOv.cur) <= QhNo(i)
    /\ \A i \in QhBusy : qhRan < QhNo(i)
    /\ \A i, j \in In(qhList) : i \in QhActive \cup QhHalted /\ QhNo(i) < QhNo(j) => j \in QhActive

\* Where it goes next.
HwGoes ==
    /\ qhOv.next # 0 =>
         /\ qhOv.next \in In(qhList)
         /\ \A i \in QhBusy : (qhOv.active /\ i = qhOv.cur) \/ QhNo(qhOv.next) <= QhNo(i)
    /\ qhList # <<>> /\ qhOv.next = 0 =>
         qhOv.cur \in In(qhList) \cap QhIoc /\ (qhOv.active \/ qhOv.cur \notin QhActive)

\* Where it has stopped.
HwStops ==
    /\ \A i \in In(qhList) \cap (QhHalted \cup QhEnded) :
         qhOv.cur = i /\ ~qhOv.active /\ OvStopped /\ (qhOv.alt <=> qhQtd[i].alt)
    /\ qhScan.at \in {"look", "cut"} /\ ~qhScan.work => ~qhOv.active /\ OvStopped
    /\ qhScan.at = "look" /\ ~qhScan.work => qhOv.cur \notin In(qhList)
    /\ qhScan.at = "cut" /\ ~qhScan.work => qhOv.cur \notin In(Tail(qhList))
    /\ qhScan.at = "cut" /\ qhScan.work => Head(qhList) \notin QhActive
    /\ qhScan.at = "idle" /\ ~qhIrq => In(qhList) \cap QhIoc \subseteq QhActive

HwLinked == qhState = "LINKED" /\ ~qhResumed => HwWorks /\ HwGoes /\ HwStops

QtdInv == QtdTypes /\ QtdPlaces /\ QhChained /\ QhHandled /\ HwLinked

LEMMA QhSeqs ==
    ASSUME NEW s \in Seq(QtdItems)
    PROVE  Qh!ToSet(s) = In(s)
BY DEF Qh!ToSet, In

LEMMA QhCard == \A S : Qh!Cardinality(S) = Cardinality(S)
BY DEF Qh!Cardinality, Cardinality, Qh!IsFiniteSet, IsFiniteSet

\* The pool as it is made.
LEMMA QhPool ==
    ASSUME QtdParams
    PROVE  LET s == Qh!SetToSeq(QtdItems)
           IN s \in Seq(QtdItems) /\ NoRepeat(s) /\ In(s) = QtdItems /\ Len(s) = Cardinality(QtdItems)
<1> DEFINE s == Qh!SetToSeq(QtdItems)
           n == Cardinality(QtdItems)
<1>1. n \in Nat /\ Bijection(1 .. n, QtdItems) # {}
  BY FS_CardinalityType DEF QtdParams, ExistsBijection
<1>2. PICK f \in Bijection(1 .. n, QtdItems) : TRUE
  BY <1>1
<1>3. f \in [1 .. n -> QtdItems] /\ Qh!IsInjective(f)
  BY <1>2 DEF Bijection, Injection, IsInjective, Qh!IsInjective
<1>4. s = CHOOSE g \in [1 .. n -> QtdItems] : Qh!IsInjective(g)
  BY QhCard DEF Qh!SetToSeq
<1>5. s \in [1 .. n -> QtdItems] /\ Qh!IsInjective(s)
  <2> HIDE DEF s, n
  <2> QED BY <1>3, <1>4
<1> HIDE DEF s
<1>6. s \in Seq(QtdItems) /\ Len(s) = n /\ DOMAIN s = 1 .. n
  BY <1>1, <1>5
<1>7. NoRepeat(s)
  BY <1>5, <1>6 DEF NoRepeat, Qh!IsInjective
<1>8. Cardinality(In(s)) = n /\ In(s) \subseteq QtdItems
  <2>1. In(s) \subseteq QtdItems
    BY <1>6 DEF In
  <2> QED BY <1>6, <1>7, <2>1, SeqFits DEF QtdParams
<1>9. In(s) = QtdItems
  BY <1>8, FS_Subset DEF QtdParams
<1> QED BY <1>6, <1>7, <1>9 DEF s

\* Giving one back that is in no place.
LEMMA QhReturn ==
    ASSUME QtdParams, qhFree \in Seq(QtdItems), NoRepeat(qhFree), qhCount = Len(qhFree),
           NEW i \in QtdRef, i \notin In(qhFree), Qh!Return(i)
    PROVE  /\ qhFree' \in Seq(QtdItems) /\ NoRepeat(qhFree') /\ qhCount' = Len(qhFree')
           /\ In(qhFree') = In(qhFree) \cup ({i} \ {0})
<1>1. CASE i = 0
  <2>1. UNCHANGED <<qhFree, qhCount>>
    BY <1>1 DEF Qh!Return, QtdParams
  <2> QED BY <1>1, <2>1
<1>2. CASE i # 0
  <2>1. i \in QtdItems /\ qhCount <= Qh!Cardinality(QtdItems)
    BY <1>2, SeqFits, QhCard DEF QtdParams, QtdRef
  <2>2. qhFree' = <<i>> \o qhFree /\ qhCount' = qhCount + 1
    BY <2>1 DEF Qh!Return
  <2> QED BY <1>2, <2>1, <2>2, SeqFront
<1> QED BY <1>1, <1>2

LEMMA QhGivePrev ==
    ASSUME QtdParams, QtdTypes, QtdPlaces, Qh!GivePrev
    PROVE  /\ qhFree' \in Seq(QtdItems) /\ NoRepeat(qhFree') /\ qhCount' = Len(qhFree')
           /\ In(qhFree') = In(qhFree) \cup ({qhScan.prev} \ {0})
<1>1. CASE qhScan.prev = 0
  BY <1>1 DEF Qh!GivePrev, Qh!Null, QtdTypes, QtdPlaces
<1>2. CASE qhScan.prev # 0
  <2>1. Qh!Return(qhScan.prev) /\ qhScan.prev \in QtdRef
    BY <1>2 DEF Qh!GivePrev, Qh!Null, QtdTypes, ScanRecs
  <2> QED BY <1>2, <2>1, QhReturn DEF QtdTypes, QtdPlaces
<1> QED BY <1>1, <1>2

LEMMA QhGet ==
    ASSUME QtdTypes, QtdPlaces, NEW n \in Nat, n <= Len(qhFree), Qh!Get(n)
    PROVE  LET c == SubSeq(qhFree, 1, n)
           IN /\ c \in Seq(QtdItems) /\ Len(c) = n /\ \A k \in 1 .. n : c[k] = qhFree[k]
              /\ NoRepeat(c) /\ qhFree' \in Seq(QtdItems) /\ NoRepeat(qhFree')
              /\ qhCount' = Len(qhFree')
              /\ In(c) \cap In(qhFree') = {} /\ In(qhFree) = In(c) \cup In(qhFree')
<1>1. n \in 0 .. Len(qhFree) /\ qhFree \in Seq(QtdItems) /\ NoRepeat(qhFree)
  BY DEF QtdPlaces
<1>2. qhFree' = SubSeq(qhFree, n + 1, Len(qhFree)) /\ qhCount' = Len(qhFree) - n
  BY DEF Qh!Get, QtdTypes
<1> QED BY <1>1, <1>2, SeqCutOnce

\* Each qTD stays in one place.
LEMMA QhPlaced ==
    ASSUME QtdParams, QtdTypes, QtdPlaces, QhHandled, Qh!Next
    PROVE  QtdPlaces' /\ (qhCount = Len(qhFree))' /\ (qhDummy \in QtdRef)'
<1> USE DEF QtdParams
<1>0. qhScan.prev \in QtdRef /\ qhDummy \in QtdRef /\ (qhScan.at # "look" => qhScan.prev = 0)
  BY DEF QtdTypes, ScanRecs, QtdPlaces
<1>1. CASE Qh!Enable
  <2>1. /\ qhFree # <<>> /\ qhFree \in Seq(QtdItems) /\ 1 \in Nat /\ 1 <= Len(qhFree)
        /\ qhDummy' = qhFree[1] /\ Qh!Get(1) /\ UNCHANGED <<qhList, qhScan, qhLost>>
        /\ qhDummy = 0
    BY <1>1 DEF Qh!Enable, QtdPlaces, QhHandled
  <2> DEFINE c == SubSeq(qhFree, 1, 1)
  <2>2. /\ c \in Seq(QtdItems) /\ Len(c) = 1 /\ c[1] = qhFree[1] /\ qhFree' \in Seq(QtdItems)
        /\ NoRepeat(qhFree') /\ qhCount' = Len(qhFree')
        /\ In(c) \cap In(qhFree') = {} /\ In(qhFree) = In(c) \cup In(qhFree')
    BY <2>1, QhGet
  <2> HIDE DEF c
  <2>3. In(c) = {qhDummy'} /\ qhDummy' \in QtdItems
    <3>1. In(c) = {c[1]}
      BY <2>2 DEF In
    <3> QED BY <2>1, <2>2, <3>1
  <2> QED BY <1>0, <2>1, <2>2, <2>3 DEF QtdPlaces, QtdRef
<1>2. ASSUME NEW n \in 1 .. TrpQtds, Qh!Submit(n)
      PROVE  QtdPlaces' /\ (qhCount = Len(qhFree))' /\ (qhDummy \in QtdRef)'
  <2> DEFINE c == SubSeq(qhFree, 1, n)
  <2>1. n \in Nat /\ n <= Len(qhFree) /\ Qh!Get(n) /\ qhList' = qhList \o c
        /\ UNCHANGED <<qhDummy, qhScan, qhLost>>
    BY <1>2 DEF Qh!Submit, Qh!Link
  <2>2. /\ c \in Seq(QtdItems) /\ NoRepeat(c) /\ qhFree' \in Seq(QtdItems) /\ NoRepeat(qhFree')
        /\ qhCount' = Len(qhFree')
        /\ In(c) \cap In(qhFree') = {} /\ In(qhFree) = In(c) \cup In(qhFree')
    BY <2>1, QhGet
  <2> HIDE DEF c
  <2>3. /\ qhList' \in Seq(QtdItems) /\ NoRepeat(qhList') /\ In(qhList') = In(qhList) \cup In(c)
    BY <2>1, <2>2, SeqJoin DEF QtdPlaces
  <2> QED BY <1>0, <2>1, <2>2, <2>3 DEF QtdPlaces
<1>3. ASSUME NEW n \in 1 .. TrpQtds, Qh!SubmitNoMem(n)
      PROVE  QtdPlaces' /\ (qhCount = Len(qhFree))' /\ (qhDummy \in QtdRef)'
  <2>1. qhFree' = Qh!Reverse(qhFree) /\ UNCHANGED <<qhCount, qhDummy, qhList, qhScan, qhLost>>
    BY <1>3 DEF Qh!SubmitNoMem
  <2>2. /\ qhFree' \in Seq(QtdItems) /\ Len(qhFree') = Len(qhFree) /\ NoRepeat(qhFree')
        /\ In(qhFree') = In(qhFree)
    <3>1. qhFree' = [k \in 1 .. Len(qhFree) |-> qhFree[(Len(qhFree) - k) + 1]]
      BY <2>1 DEF Qh!Reverse
    <3> QED BY <3>1, SeqReverse DEF QtdPlaces
  <2> QED BY <1>0, <2>1, <2>2 DEF QtdPlaces, QtdTypes
<1>4. ASSUME NEW n \in 1 .. TrpQtds, Qh!SubmitNoRoom(n)
      PROVE  QtdPlaces' /\ (qhCount = Len(qhFree))' /\ (qhDummy \in QtdRef)'
  <2> DEFINE c == SubSeq(qhFree, 1, n)
  <2>1. n \in Nat /\ n <= Len(qhFree) /\ Qh!Get(n) /\ qhLost' = qhLost \cup Qh!ToSet(c)
        /\ UNCHANGED <<qhDummy, qhList, qhScan>>
    BY <1>4 DEF Qh!SubmitNoRoom
  <2>2. /\ c \in Seq(QtdItems) /\ NoRepeat(c) /\ qhFree' \in Seq(QtdItems) /\ NoRepeat(qhFree')
        /\ qhCount' = Len(qhFree')
        /\ In(c) \cap In(qhFree') = {} /\ In(qhFree) = In(c) \cup In(qhFree')
    BY <2>1, QhGet
  <2> HIDE DEF c
  <2>3. qhLost' = qhLost \cup In(c)
    BY <2>1, <2>2, QhSeqs
  <2>4. In(qhFree) \subseteq QtdItems
    BY DEF QtdPlaces, In
  <2> QED BY <1>0, <2>1, <2>2, <2>3, <2>4 DEF QtdPlaces
<1>5. CASE \/ Qh!Scan \/ Qh!HwLoad \/ Qh!HwDone \/ \E then \in {"NONE", "UNLINKED"} : Qh!Unlink(then)
  <2>1. /\ UNCHANGED <<qhFree, qhCount, qhDummy, qhList, qhLost>>
        /\ (qhScan' = qhScan \/ (qhScan.at = "idle" /\ qhScan'.prev = 0))
    BY <1>5 DEF Qh!Scan, Qh!HwLoad, Qh!HwDone, Qh!Unlink, Qh!Unlocked, Qh!AtRest, Qh!Null
  <2>2. qhScan'.prev = qhScan.prev /\ (qhScan'.prev # 0 => qhScan'.at = "look")
    BY <1>0, <2>1 DEF QtdPlaces
  <2> QED BY <1>0, <2>1, <2>2 DEF QtdPlaces, QtdTypes
<1>6. CASE Qh!Look \/ Qh!LookRetry \/ Qh!LookEnd
  <2>1. Qh!GivePrev /\ UNCHANGED <<qhDummy, qhList, qhLost>> /\ qhScan'.prev = 0
    <3>1. \A w : [qhScan EXCEPT !.at = "cut", !.prev = 0, !.work = w].prev = 0
      BY DEF QtdTypes, ScanRecs
    <3>2. /\ [qhScan EXCEPT !.at = "cut", !.prev = 0].prev = 0
          /\ [qhScan EXCEPT !.at = "free", !.prev = 0].prev = 0
      BY DEF QtdTypes, ScanRecs
    <3>3. CASE Qh!Look
      <4> DEFINE w0 == /\ qhScan.work /\ ~qhQtd[Head(qhList)].halt
                       /\ ~(qhQtd[Head(qhList)].short /\ qhQtd[Head(qhList)].alt)
      <4>1. ~(qhQtd[Head(qhList)].active /\ qhScan.work) =>
              qhScan' = [qhScan EXCEPT !.at = "cut", !.prev = 0, !.work = w0]
        BY <3>3 DEF Qh!Look, Qh!Null
      <4>2. qhQtd[Head(qhList)].active /\ qhScan.work => qhScan' = Qh!AtRest
        BY <3>3 DEF Qh!Look
      <4>3. Qh!GivePrev /\ UNCHANGED <<qhDummy, qhList, qhLost>>
        BY <3>3 DEF Qh!Look
      <4> HIDE DEF w0
      <4>4. Qh!AtRest.prev = 0
        BY DEF Qh!AtRest, Qh!Null
      <4>5. [qhScan EXCEPT !.at = "cut", !.prev = 0, !.work = w0].prev = 0
        BY <3>1
      <4> QED BY <4>1, <4>2, <4>3, <4>4, <4>5
    <3>4. CASE Qh!LookRetry
      BY <3>2, <3>4 DEF Qh!LookRetry, Qh!AtRest, Qh!Null
    <3>5. CASE Qh!LookEnd
      BY <3>2, <3>5 DEF Qh!LookEnd, Qh!AtRest, Qh!Null
    <3> QED BY <1>6, <3>3, <3>4, <3>5
  <2>2. /\ qhFree' \in Seq(QtdItems) /\ NoRepeat(qhFree') /\ qhCount' = Len(qhFree')
        /\ In(qhFree') = In(qhFree) \cup ({qhScan.prev} \ {0})
    BY <2>1, QhGivePrev
  <2> QED BY <1>0, <2>1, <2>2 DEF QtdPlaces
<1>7. CASE Qh!Cut
  <2>1. /\ qhList # <<>> /\ UNCHANGED <<qhFree, qhCount, qhDummy, qhLost>>
        /\ qhList' = Tail(qhList) /\ qhScan.prev = 0
        /\ qhScan'.prev = Head(qhList) /\ qhScan'.at = "look"
    BY <1>0, <1>7 DEF Qh!Cut, QhHandled, QtdTypes, ScanRecs
  <2>2. /\ qhList' \in Seq(QtdItems) /\ NoRepeat(qhList') /\ Head(qhList) \in In(qhList)
        /\ In(qhList') = In(qhList) \ {Head(qhList)}
    BY <2>1, SeqTail DEF QtdPlaces
  <2>3. Head(qhList) # 0
    BY <2>2 DEF QtdPlaces, In
  <2> QED BY <1>0, <2>1, <2>2, <2>3 DEF QtdPlaces, QtdTypes
<1>8. CASE Qh!QhFree
  <2>1. /\ Qh!Return(qhDummy) /\ qhDummy' = 0 /\ UNCHANGED <<qhList, qhLost>>
        /\ qhScan'.prev = 0 /\ qhScan.prev = 0
    BY <1>0, <1>8 DEF Qh!QhFree, Qh!AtRest, Qh!Null
  <2>2. /\ qhFree' \in Seq(QtdItems) /\ NoRepeat(qhFree') /\ qhCount' = Len(qhFree')
        /\ In(qhFree') = In(qhFree) \cup ({qhDummy} \ {0})
    BY <1>0, <2>1, QhReturn DEF QtdPlaces, QtdTypes
  <2> QED BY <1>0, <2>1, <2>2 DEF QtdPlaces, QtdRef
<1> QED BY <1>1, <1>2, <1>3, <1>4, <1>5, <1>6, <1>7, <1>8 DEF Qh!Next

\* The records that the actions write.
LEMMA QhRecs ==
    /\ Qh!Blank \in QtdRecs /\ ~Qh!Blank.active /\ ~Qh!Blank.short /\ ~Qh!Blank.halt
    /\ Qh!Blank.no = 0 /\ Qh!Blank.next = 0 /\ ~Qh!Blank.ioc
    /\ Qh!NoOv \in OvRecs /\ Qh!NoOv.next = 0 /\ ~Qh!NoOv.active
    /\ Qh!AtRest \in ScanRecs /\ Qh!AtRest.at = "idle" /\ Qh!AtRest.prev = 0
BY DEF Qh!Blank, Qh!NoOv, Qh!AtRest, Qh!Null, QtdRecs, OvRecs, ScanRecs, QtdRef

\* A TRP's qTDs as they are made.
LEMMA QhMade ==
    ASSUME QtdTypes, QtdPlaces, NEW n \in Nat \ {0}, n <= Len(qhFree)
    PROVE  /\ Qh!Chain(n) \in [QtdItems -> QtdRecs]
           /\ \A k \in 1 .. n : LET r == Qh!Chain(n)[qhFree[k]] IN
                /\ r.active /\ ~r.short /\ ~r.halt /\ (r.ioc <=> k = n)
                /\ r.next = IF k = n THEN 0 ELSE qhFree[k + 1]
                /\ r.no = qhMade + k
           /\ \A i \in QtdItems \ In(SubSeq(qhFree, 1, n)) : Qh!Chain(n)[i] = qhQtd[i]
<1> DEFINE nx(k) == IF k = n THEN 0 ELSE qhFree[k + 1]
           al(k) == qhKind = "in" /\ k < n
           io(k) == k = n
           made(k) == [Qh!Blank EXCEPT !.active = TRUE, !.next = nx(k), !.alt = al(k),
                         !.ioc = io(k), !.no = qhMade + k]
           x == Qh!Chain(n)
<1>1. /\ qhFree \in Seq(QtdItems) /\ qhMade \in Nat /\ Len(qhFree) \in Nat
      /\ \A j, k \in 1 .. n : qhFree[j] = qhFree[k] => j = k
      /\ \A k \in 1 .. n : qhFree[k] \in QtdItems
      /\ \A k \in 1 .. n : k # n => qhFree[k + 1] \in QtdItems
  <2>1. \A k \in 1 .. n : k \in 1 .. Len(qhFree) /\ (k # n => k + 1 \in 1 .. Len(qhFree))
    BY DEF QtdPlaces
  <2> QED BY <2>1 DEF QtdTypes, QtdPlaces, NoRepeat
<1>2. x = [i \in QtdItems |->
            IF \E k \in 1 .. n : qhFree[k] = i
            THEN made(CHOOSE j \in 1 .. n : qhFree[j] = i) ELSE qhQtd[i]]
  BY DEF Qh!Chain, Qh!Null
<1>3. \A k \in 1 .. n : /\ made(k) \in QtdRecs
                        /\ made(k).active /\ ~made(k).short /\ ~made(k).halt
                        /\ (made(k).ioc <=> k = n)
                        /\ made(k).next = IF k = n THEN 0 ELSE qhFree[k + 1]
                        /\ made(k).no = qhMade + k
  <2> SUFFICES ASSUME NEW k \in 1 .. n
               PROVE  /\ made(k) \in QtdRecs
                      /\ made(k).active /\ ~made(k).short /\ ~made(k).halt
                      /\ (made(k).ioc <=> k = n)
                      /\ made(k).next = IF k = n THEN 0 ELSE qhFree[k + 1]
                      /\ made(k).no = qhMade + k
    OBVIOUS
  <2>1. nx(k) \in QtdRef /\ al(k) \in BOOLEAN /\ io(k) \in BOOLEAN /\ qhMade + k \in Nat
    <3>1. nx(k) \in QtdRef
      BY <1>1 DEF QtdRef
    <3>2. al(k) \in BOOLEAN /\ io(k) \in BOOLEAN
      OBVIOUS
    <3>3. qhMade + k \in Nat
      BY <1>1
    <3> QED BY <3>1, <3>2, <3>3
  <2>2. (io(k) <=> k = n) /\ nx(k) = (IF k = n THEN 0 ELSE qhFree[k + 1])
    <3>1. io(k) <=> k = n
      BY ZenonT(10)
    <3>2. nx(k) = (IF k = n THEN 0 ELSE qhFree[k + 1])
      OBVIOUS
    <3> QED BY <3>1, <3>2
  <2> DEFINE no == qhMade + k
  <2> HIDE DEF nx, al, io
  <2>4. no = qhMade + k /\ no \in Nat
    BY <2>1
  <2> HIDE DEF no
  <2>3. made(k) = [Qh!Blank EXCEPT !.active = TRUE, !.next = nx(k), !.alt = al(k),
                     !.ioc = io(k), !.no = no]
    BY <2>4
  <2> HIDE DEF made
  <2>6. PICK b \in QtdRecs : b = Qh!Blank /\ ~b.short /\ ~b.halt
    BY QhRecs
  <2>7. PICK x1 \in QtdRef, x2 \in BOOLEAN, x3 \in BOOLEAN, x4 \in Nat :
           x1 = nx(k) /\ x2 = al(k) /\ x3 = io(k) /\ x4 = no
    BY <2>1, <2>4
  <2>8. made(k) = [b EXCEPT !.active = TRUE, !.next = x1, !.alt = x2, !.ioc = x3, !.no = x4]
    BY <2>3, <2>6, <2>7
  <2>5. /\ made(k) \in QtdRecs
        /\ made(k).active /\ ~made(k).short /\ ~made(k).halt /\ made(k).ioc = x3
        /\ made(k).next = x1 /\ made(k).no = x4
    BY <2>6, <2>8 DEF QtdRecs
  <2> QED BY <2>2, <2>4, <2>5, <2>7
<1> HIDE DEF made, x, nx, al, io
<1>4. \A k \in 1 .. n : x[qhFree[k]] = made(k)
  <2> SUFFICES ASSUME NEW k \in 1 .. n PROVE x[qhFree[k]] = made(k)
    OBVIOUS
  <2>1. (CHOOSE j \in 1 .. n : qhFree[j] = qhFree[k]) = k
    BY <1>1
  <2> QED BY <1>1, <1>2, <2>1
<1>5. x \in [QtdItems -> QtdRecs]
  <2>1. \A i \in QtdItems : (\E k \in 1 .. n : qhFree[k] = i) =>
            (CHOOSE j \in 1 .. n : qhFree[j] = i) \in 1 .. n
    OBVIOUS
  <2>2. \A i \in QtdItems : qhQtd[i] \in QtdRecs
    BY DEF QtdTypes
  <2> QED BY <1>2, <1>3, <2>1, <2>2
<1>6. \A i \in QtdItems \ In(SubSeq(qhFree, 1, n)) : x[i] = qhQtd[i]
  <2>1. \A k \in 1 .. n : qhFree[k] \in In(SubSeq(qhFree, 1, n))
    BY <1>1 DEF In
  <2> QED BY <1>2, <2>1
<1> QED BY <1>3, <1>4, <1>5, <1>6 DEF x

\* What a request changes: its qTDs c are new, and the last one of the queue leads to them.
QhAdded(c, n) ==
    /\ c \in Seq(QtdItems) /\ Len(c) = n /\ NoRepeat(c) /\ In(c) \cap In(qhList) = {}
    /\ qhList' = qhList \o c /\ qhMade' = qhMade + n
    /\ \A k \in 1 .. n :
         /\ c[k] \in QhActive' /\ c[k] \notin QhHalted' \cup QhEnded'
         /\ (c[k] \in QhIoc' <=> k = n) /\ QhNext(c[k])' = IF k = n THEN 0 ELSE c[k + 1]
         /\ QhNo(c[k])' = qhMade + k
    /\ \A i \in QtdItems \ In(c) :
         /\ QhNo(i)' = QhNo(i)
         /\ (i \in QhActive' <=> i \in QhActive) /\ (i \in QhHalted' <=> i \in QhHalted)
         /\ (i \in QhEnded' <=> i \in QhEnded) /\ (i \in QhIoc' <=> i \in QhIoc)
         /\ qhQtd'[i].alt = qhQtd[i].alt
         /\ QhNext(i)' = IF qhList # <<>> /\ i = qhList[Len(qhList)] THEN c[1] ELSE QhNext(i)

LEMMA QhAdds ==
    ASSUME QtdParams, QtdTypes, QtdPlaces, QhHandled, NEW n \in Nat \ {0}, Qh!Submit(n)
    PROVE  /\ qhQtd' \in [QtdItems -> QtdRecs]
           /\ \E c : QhAdded(c, n) /\ c[1] = qhFree[1]
<1>0. PICK c : c = SubSeq(qhFree, 1, n)
  OBVIOUS
<1> DEFINE x == Qh!Chain(n)
           z == qhList[Len(qhList)]
<1>1. /\ n <= Len(qhFree) /\ Qh!Get(n) /\ qhList' = qhList \o c /\ qhMade' = qhMade + n
      /\ qhQtd' = IF Qh!InOverlay THEN x ELSE [x EXCEPT ![z].next = qhFree[1]]
  BY <1>0 DEF Qh!Submit, Qh!Link, Qh!Last
<1>2. Qh!InOverlay <=> qhList = <<>>
  BY DEF Qh!InOverlay, QhHandled, Qh!Null
<1>3. /\ c \in Seq(QtdItems) /\ Len(c) = n /\ \A k \in 1 .. n : c[k] = qhFree[k]
      /\ NoRepeat(c) /\ In(c) \subseteq In(qhFree)
  BY <1>0, <1>1, QhGet
<1>4. /\ x \in [QtdItems -> QtdRecs]
      /\ \A k \in 1 .. n :
           /\ x[c[k]].active /\ ~x[c[k]].short /\ ~x[c[k]].halt /\ (x[c[k]].ioc <=> k = n)
           /\ x[c[k]].next = (IF k = n THEN 0 ELSE c[k + 1])
           /\ x[c[k]].no = qhMade + k
      /\ \A i \in QtdItems \ In(c) : x[i] = qhQtd[i]
  <2>1. \A k \in 1 .. n : k # n => k + 1 \in 1 .. n
    OBVIOUS
  <2>2. /\ x \in [QtdItems -> QtdRecs]
        /\ \A k \in 1 .. n :
             /\ x[qhFree[k]].active /\ ~x[qhFree[k]].short /\ ~x[qhFree[k]].halt
             /\ (x[qhFree[k]].ioc <=> k = n)
             /\ x[qhFree[k]].next = (IF k = n THEN 0 ELSE qhFree[k + 1])
             /\ x[qhFree[k]].no = qhMade + k
        /\ \A i \in QtdItems \ In(c) : x[i] = qhQtd[i]
    BY <1>0, <1>1, QhMade
  <2> HIDE DEF x
  <2>3. \A k \in 1 .. n : c[k] = qhFree[k] /\ (k # n => c[k + 1] = qhFree[k + 1])
    BY <1>3, <2>1
  <2> QED BY <2>2, <2>3
<1> HIDE DEF x
<1>5. In(c) \cap In(qhList) = {} /\ (qhList # <<>> => z \in In(qhList) /\ z \in QtdItems)
  <2>1. qhList # <<>> => Len(qhList) \in 1 .. Len(qhList)
    BY DEF QtdPlaces
  <2>2. qhList # <<>> => z \in In(qhList) /\ z \in QtdItems
    BY <2>1 DEF QtdPlaces, In
  <2> QED BY <1>3, <2>2 DEF QtdPlaces
<1> HIDE DEF z
<1>6. c[1] = qhFree[1] /\ c[1] \in QtdItems /\ \A k \in 1 .. n : c[k] \in QtdItems /\ c[k] \in In(c)
  <2>1. 1 \in 1 .. n
    OBVIOUS
  <2> QED BY <1>3, <2>1 DEF In
<1>7. /\ qhQtd' \in [QtdItems -> QtdRecs]
      /\ \A i \in QtdItems :
           /\ qhQtd'[i].active = x[i].active /\ qhQtd'[i].short = x[i].short
           /\ qhQtd'[i].halt = x[i].halt /\ qhQtd'[i].alt = x[i].alt
           /\ qhQtd'[i].ioc = x[i].ioc /\ qhQtd'[i].no = x[i].no
           /\ qhQtd'[i].next = IF qhList # <<>> /\ i = z THEN c[1] ELSE x[i].next
  <2>1. CASE qhList = <<>>
    BY <1>1, <1>2, <1>4, <2>1
  <2>2. CASE qhList # <<>>
    <3>1. qhQtd' = [x EXCEPT ![z].next = c[1]] /\ z \in QtdItems
      BY <1>1, <1>2, <1>5, <1>6, <2>2
    <3>2. c[1] \in QtdRef /\ x[z] \in QtdRecs
      BY <1>4, <1>6, <3>1 DEF QtdRef
    <3>3. [x[z] EXCEPT !.next = c[1]] \in QtdRecs
      BY <3>2 DEF QtdRecs
    <3> QED BY <1>4, <2>2, <3>1, <3>2, <3>3 DEF QtdRecs
  <2> QED BY <2>1, <2>2
<1>8. \A k \in 1 .. n :
         /\ c[k] \in QhActive' /\ c[k] \notin QhHalted' \cup QhEnded'
         /\ (c[k] \in QhIoc' <=> k = n)
         /\ QhNo(c[k])' = qhMade + k
  BY <1>4, <1>6, <1>7 DEF QhActive, QhHalted, QhEnded, QhIoc, QhNo
<1>9. \A k \in 1 .. n : QhNext(c[k])' = IF k = n THEN 0 ELSE c[k + 1]
  <2> SUFFICES ASSUME NEW k \in 1 .. n PROVE qhQtd'[c[k]].next = IF k = n THEN 0 ELSE c[k + 1]
    BY DEF QhNext
  <2>1. ~(qhList # <<>> /\ c[k] = z)
    BY <1>5, <1>6
  <2> QED BY <1>4, <1>6, <1>7, <2>1
<1>10. \A i \in QtdItems \ In(c) :
         /\ QhNo(i)' = QhNo(i)
         /\ (i \in QhActive' <=> i \in QhActive) /\ (i \in QhHalted' <=> i \in QhHalted)
         /\ (i \in QhEnded' <=> i \in QhEnded) /\ (i \in QhIoc' <=> i \in QhIoc)
         /\ qhQtd'[i].alt = qhQtd[i].alt
         /\ QhNext(i)' = IF qhList # <<>> /\ i = z THEN c[1] ELSE QhNext(i)
  BY <1>4, <1>7 DEF QhActive, QhHalted, QhEnded, QhIoc, QhNo, QhNext
<1>11. QhAdded(c, n)
  BY <1>1, <1>3, <1>5, <1>8, <1>9, <1>10 DEF QhAdded, z
<1> QED BY <1>6, <1>7, <1>11

\* What an execution by the controller changes, of the qTD c and with the outcome end.
QhExecuted(c, end) ==
    /\ c \in QtdItems /\ c = qhOv.cur /\ qhOv.active /\ end \in {"whole", "short", "halt"}
    /\ qhRan' = QhNo(c) /\ qhMade' = qhMade /\ qhList' = qhList
    /\ \A i \in QtdItems : /\ QhNo(i)' = QhNo(i) /\ QhNext(i)' = QhNext(i)
                           /\ qhQtd'[i].alt = qhQtd[i].alt /\ (i \in QhIoc' <=> i \in QhIoc)
    /\ QhActive' = QhActive \ {c}
    /\ \A i \in QtdItems \ {c} : /\ i \in QhHalted' <=> i \in QhHalted
                                 /\ i \in QhEnded' <=> i \in QhEnded
    /\ c \in QhHalted' <=> end = "halt"
    /\ c \in QhEnded' <=> end = "short" /\ qhQtd[c].alt
    /\ qhOv'.cur = c /\ qhOv'.next = qhOv.next /\ qhOv'.alt = qhOv.alt /\ ~qhOv'.active
    /\ (qhOv'.halt <=> end = "halt") /\ (qhOv'.short <=> end = "short")
    /\ qhIrq' <=> qhIrq \/ end # "whole" \/ c \in QhIoc

LEMMA QhExecutes ==
    ASSUME QtdTypes, Qh!HwDone
    PROVE  /\ qhQtd' \in [QtdItems -> QtdRecs] /\ qhOv' \in OvRecs /\ qhIrq' \in BOOLEAN
           /\ \E c, end : QhExecuted(c, end)
<1>1. PICK c : c = qhOv.cur
  OBVIOUS
<1>2. PICK end \in {"whole", "short", "halt"} :
         /\ qhOv' = [qhOv EXCEPT !.active = FALSE, !.short = (end = "short"), !.halt = (end = "halt")]
         /\ qhQtd' = [qhQtd EXCEPT ![qhOv.cur].active = FALSE, ![qhOv.cur].short = (end = "short"),
                       ![qhOv.cur].halt = (end = "halt")]
         /\ qhIrq' = (qhIrq \/ end # "whole" \/ qhQtd[qhOv.cur].ioc)
  BY DEF Qh!HwDone
<1>3. PICK s \in BOOLEAN, h \in BOOLEAN : (s <=> end = "short") /\ (h <=> end = "halt")
         /\ s = (end = "short") /\ h = (end = "halt")
  BY Zenon
<1>4. /\ c \in QtdItems /\ qhQtd[c] \in QtdRecs /\ qhOv \in OvRecs /\ qhOv.active
      /\ qhQtd \in [QtdItems -> QtdRecs]
      /\ qhRan' = QhNo(c) /\ qhMade' = qhMade /\ qhList' = qhList
  BY <1>1 DEF Qh!HwDone, Qh!Null, QtdTypes, OvRecs, QtdRef, QhNo
<1> DEFINE r == [qhQtd[c] EXCEPT !.active = FALSE, !.short = s, !.halt = h]
<1>5. /\ r \in QtdRecs /\ r.no = qhQtd[c].no /\ r.next = qhQtd[c].next /\ r.alt = qhQtd[c].alt
      /\ r.ioc = qhQtd[c].ioc /\ ~r.active /\ r.short = s /\ r.halt = h
  BY <1>4 DEF QtdRecs
<1>6. qhQtd' = [qhQtd EXCEPT ![c] = r]
  <2>1. qhQtd' = [qhQtd EXCEPT ![c].active = FALSE, ![c].short = s, ![c].halt = h]
    BY <1>1, <1>2, <1>3
  <2> QED BY <1>4, <2>1
<1> HIDE DEF r
<1>7. qhQtd' \in [QtdItems -> QtdRecs] /\ qhQtd'[c] = r
      /\ \A i \in QtdItems \ {c} : qhQtd'[i] = qhQtd[i]
  BY <1>4, <1>5, <1>6
<1>8. qhOv' = [qhOv EXCEPT !.active = FALSE, !.short = s, !.halt = h]
  BY <1>2, <1>3
<1>9. /\ qhOv' \in OvRecs /\ qhOv'.cur = c /\ qhOv'.next = qhOv.next /\ qhOv'.alt = qhOv.alt
      /\ ~qhOv'.active /\ qhOv'.short = s /\ qhOv'.halt = h
  BY <1>1, <1>4, <1>8 DEF OvRecs
<1>10. /\ qhIrq' \in BOOLEAN /\ (qhIrq' <=> qhIrq \/ end # "whole" \/ c \in QhIoc)
  BY <1>1, <1>2, <1>4, Zenon DEF QhIoc
<1>11. \A i \in QtdItems : /\ QhNo(i)' = QhNo(i) /\ QhNext(i)' = QhNext(i)
                           /\ qhQtd'[i].alt = qhQtd[i].alt /\ (i \in QhIoc' <=> i \in QhIoc)
  BY <1>5, <1>7 DEF QhNo, QhNext, QhIoc
<1>12. QhActive' = QhActive \ {c}
  BY <1>5, <1>7 DEF QhActive
<1>13. \A i \in QtdItems \ {c} : /\ i \in QhHalted' <=> i \in QhHalted
                                 /\ i \in QhEnded' <=> i \in QhEnded
  BY <1>7 DEF QhHalted, QhEnded
<1>14. (c \in QhHalted' <=> end = "halt") /\ (c \in QhEnded' <=> end = "short" /\ qhQtd[c].alt)
  BY <1>3, <1>4, <1>5, <1>7, Zenon DEF QhHalted, QhEnded
<1>15. (qhOv'.halt <=> end = "halt") /\ (qhOv'.short <=> end = "short")
  BY <1>3, <1>9, Zenon
<1>16. QhExecuted(c, end)
  BY <1>1, <1>4, <1>9, <1>10, <1>11, <1>12, <1>13, <1>14, <1>15 DEF QhExecuted
<1> QED BY <1>7, <1>9, <1>10, <1>16

\* What a retry of the qTD h at the head of the queue changes.
QhTriedAgain(h) ==
    /\ h \in In(qhList) /\ h = Head(qhList) /\ h \in QhHalted
    /\ qhRan' = QhNo(h) - 1 /\ qhMade' = qhMade /\ qhList' = qhList
    /\ \A i \in QtdItems : /\ QhNo(i)' = QhNo(i) /\ QhNext(i)' = QhNext(i)
                           /\ qhQtd'[i].alt = qhQtd[i].alt /\ (i \in QhIoc' <=> i \in QhIoc)
                           /\ (i \in QhEnded' <=> i \in QhEnded)
    /\ QhActive' = QhActive \cup {h} /\ QhHalted' = QhHalted \ {h}
    /\ qhOv'.cur = qhOv.cur /\ qhOv'.next = qhOv.next /\ qhOv'.alt = qhOv.alt
    /\ qhOv'.short = qhOv.short /\ qhOv'.active /\ ~qhOv'.halt

LEMMA QhRetries ==
    ASSUME QtdTypes, QtdPlaces, Qh!LookRetry
    PROVE  /\ qhQtd' \in [QtdItems -> QtdRecs] /\ qhOv' \in OvRecs
           /\ \E h : QhTriedAgain(h)
<1>1. PICK h : h = Head(qhList)
  OBVIOUS
<1>2. /\ h \in In(qhList) /\ h \in QtdItems /\ qhQtd[h].halt
      /\ qhQtd' = [qhQtd EXCEPT ![h].halt = FALSE, ![h].active = TRUE]
      /\ qhOv' = [qhOv EXCEPT !.halt = FALSE, !.active = TRUE]
      /\ qhRan' = QhNo(h) - 1 /\ qhMade' = qhMade /\ qhList' = qhList
  <2>1. h \in In(qhList)
    BY <1>1, SeqTail DEF Qh!LookRetry, QtdPlaces
  <2> QED BY <1>1, <2>1 DEF Qh!LookRetry, QtdPlaces, In, QhNo
<1> DEFINE r == [qhQtd[h] EXCEPT !.halt = FALSE, !.active = TRUE]
<1>3. qhQtd \in [QtdItems -> QtdRecs] /\ qhOv \in OvRecs /\ qhQtd[h] \in QtdRecs
  BY <1>2 DEF QtdTypes
<1>4. /\ r \in QtdRecs /\ r.no = qhQtd[h].no /\ r.next = qhQtd[h].next /\ r.alt = qhQtd[h].alt
      /\ r.ioc = qhQtd[h].ioc /\ r.active /\ r.short = qhQtd[h].short /\ ~r.halt
  BY <1>3 DEF QtdRecs
<1>5. qhQtd' = [qhQtd EXCEPT ![h] = r]
  BY <1>2, <1>3
<1> HIDE DEF r
<1>6. qhQtd' \in [QtdItems -> QtdRecs] /\ qhQtd'[h] = r
      /\ \A i \in QtdItems \ {h} : qhQtd'[i] = qhQtd[i]
  BY <1>2, <1>3, <1>4, <1>5
<1>7. /\ qhOv' \in OvRecs /\ qhOv'.cur = qhOv.cur /\ qhOv'.next = qhOv.next
      /\ qhOv'.alt = qhOv.alt /\ qhOv'.short = qhOv.short /\ qhOv'.active /\ ~qhOv'.halt
  BY <1>2, <1>3 DEF OvRecs
<1>8. \A i \in QtdItems : /\ QhNo(i)' = QhNo(i) /\ QhNext(i)' = QhNext(i)
                          /\ qhQtd'[i].alt = qhQtd[i].alt /\ (i \in QhIoc' <=> i \in QhIoc)
                          /\ (i \in QhEnded' <=> i \in QhEnded)
  BY <1>4, <1>6 DEF QhNo, QhNext, QhIoc, QhEnded
<1>9. QhActive' = QhActive \cup {h} /\ QhHalted' = QhHalted \ {h} /\ h \in QhHalted
  BY <1>2, <1>4, <1>6 DEF QhActive, QhHalted
<1>10. QhTriedAgain(h)
  BY <1>1, <1>2, <1>7, <1>8, <1>9 DEF QhTriedAgain
<1> QED BY <1>6, <1>7, <1>10

\* What the controller loads.
LEMMA QhLoads ==
    ASSUME QtdTypes, Qh!HwLoad
    PROVE  /\ qhOv' \in OvRecs /\ qhOv.next \in QhActive
           /\ qhOv'.cur = qhOv.next /\ qhOv'.next = QhNext(qhOv.next)
           /\ (qhOv'.alt <=> qhQtd[qhOv.next].alt) /\ qhOv'.active
           /\ ~qhOv.active /\ ~OvStopped
<1>1. qhOv \in OvRecs /\ qhOv.next \in QtdItems /\ qhQtd[qhOv.next] \in QtdRecs
  BY DEF QtdTypes, OvRecs, Qh!HwLoad, Qh!Null, QtdRef
<1>2. PICK x1 \in QtdRef, x2 \in QtdRef, x3 \in BOOLEAN :
         x1 = qhOv.next /\ x2 = qhQtd[qhOv.next].next /\ x3 = qhQtd[qhOv.next].alt
  BY <1>1 DEF QtdRecs, QtdRef
<1>3. PICK o \in OvRecs : o = Qh!NoOv
  BY QhRecs
<1>4. qhOv' = [o EXCEPT !.cur = x1, !.next = x2, !.alt = x3, !.active = TRUE]
  BY <1>2, <1>3 DEF Qh!HwLoad
<1>5. qhOv' \in OvRecs /\ qhOv'.cur = x1 /\ qhOv'.next = x2 /\ qhOv'.alt = x3 /\ qhOv'.active
  BY <1>3, <1>4 DEF OvRecs
<1>6. qhOv.next \in QhActive /\ ~qhOv.active /\ ~OvStopped
  BY <1>1 DEF Qh!HwLoad, QhActive, OvStopped
<1> QED BY <1>2, <1>5, <1>6 DEF QhNext

\* What the overlay is after a request.
LEMMA QhRelinks ==
    ASSUME QtdTypes, QhHandled, NEW f \in QtdRef, qhOv' = Qh!Relinked(f)
    PROVE  /\ qhOv' \in OvRecs
           /\ qhOv'.next = IF qhList = <<>> THEN f ELSE qhOv.next
           /\ qhOv'.cur = qhOv.cur
           /\ qhState = "LINKED" => qhOv' = [qhOv EXCEPT !.next = qhOv'.next]
           /\ qhState # "LINKED" /\ (~qhOv.active \/ qhKind # "intr") => ~qhOv'.active
<1> DEFINE nx == IF qhList = <<>> THEN f ELSE qhOv.next
<1>1. qhOv \in OvRecs /\ nx \in QtdRef /\ Qh!NoOv \in OvRecs /\ ~Qh!NoOv.active
  BY QhRecs DEF QtdTypes, OvRecs
<1>2. \/ (qhState = "LINKED" \/ qhKind = "intr") /\ qhOv' = [qhOv EXCEPT !.next = nx]
      \/ qhState # "LINKED" /\ qhOv' = [Qh!NoOv EXCEPT !.cur = qhOv.cur, !.next = nx]
  BY DEF Qh!Relinked, Qh!InOverlay, Qh!Null, QhHandled
<1> HIDE DEF nx
<1>3. CASE (qhState = "LINKED" \/ qhKind = "intr") /\ qhOv' = [qhOv EXCEPT !.next = nx]
  <2>1. qhOv' \in OvRecs /\ qhOv'.next = nx /\ qhOv'.cur = qhOv.cur /\ qhOv'.active = qhOv.active
    BY <1>1, <1>3 DEF OvRecs
  <2> QED BY <1>3, <2>1 DEF nx
<1>4. CASE qhState # "LINKED" /\ qhOv' = [Qh!NoOv EXCEPT !.cur = qhOv.cur, !.next = nx]
  <2>1. PICK o \in OvRecs : o = Qh!NoOv /\ ~o.active
    BY <1>1
  <2>2. PICK x \in QtdRef : x = qhOv.cur
    BY <1>1 DEF OvRecs
  <2>3. qhOv' = [o EXCEPT !.cur = x, !.next = nx]
    BY <1>4, <2>1, <2>2
  <2>4. qhOv' \in OvRecs /\ qhOv'.next = nx /\ qhOv'.cur = x /\ ~qhOv'.active
    BY <1>1, <2>1, <2>3 DEF OvRecs
  <2> QED BY <1>4, <2>2, <2>4 DEF nx
<1> QED BY <1>2, <1>3, <1>4

\* Where the handler goes on.
LEMMA QhLooks ==
    ASSUME QtdTypes, Qh!Look
    PROVE  /\ qhScan' \in ScanRecs /\ qhList # <<>> /\ qhScan.at = "look"
           /\ \/ (qhQtd[Head(qhList)].active /\ qhScan.work /\ qhScan'.at = "idle")
              \/ /\ ~(qhQtd[Head(qhList)].active /\ qhScan.work) /\ qhScan'.at = "cut"
                 /\ qhScan'.work <=> /\ qhScan.work /\ ~qhQtd[Head(qhList)].halt
                                     /\ ~(qhQtd[Head(qhList)].short /\ qhQtd[Head(qhList)].alt)
<1> DEFINE w0 == /\ qhScan.work /\ ~qhQtd[Head(qhList)].halt
                 /\ ~(qhQtd[Head(qhList)].short /\ qhQtd[Head(qhList)].alt)
<1>1. qhScan \in ScanRecs /\ qhList # <<>> /\ qhScan.at = "look"
  BY DEF QtdTypes, Qh!Look
<1>2. PICK w \in BOOLEAN : w = w0
  OBVIOUS
<1>3. ~(qhQtd[Head(qhList)].active /\ qhScan.work) =>
        qhScan' = [qhScan EXCEPT !.at = "cut", !.prev = 0, !.work = w]
  BY <1>2 DEF Qh!Look, Qh!Null
<1>4. qhQtd[Head(qhList)].active /\ qhScan.work => qhScan' = Qh!AtRest
  BY DEF Qh!Look
<1>5. w <=> w0
  BY <1>2, Zenon
<1> HIDE DEF w0
<1>6. CASE qhQtd[Head(qhList)].active /\ qhScan.work
  BY <1>1, <1>4, <1>6, QhRecs
<1>7. CASE ~(qhQtd[Head(qhList)].active /\ qhScan.work)
  <2>1. qhScan' \in ScanRecs /\ qhScan'.at = "cut" /\ qhScan'.work = w
    BY <1>1, <1>3, <1>7 DEF ScanRecs, QtdRef
  <2>2. qhScan'.work <=> w0
    BY <1>5, <2>1, Zenon
  <2> QED BY <1>1, <1>7, <2>1, <2>2, Zenon DEF w0
<1> QED BY <1>6, <1>7

LEMMA QhLooksAgain ==
    ASSUME QtdTypes, Qh!LookRetry
    PROVE  /\ qhScan' \in ScanRecs /\ qhScan.at = "look" /\ qhList # <<>>
           /\ qhScan.work => qhScan'.at = "idle"
           /\ ~qhScan.work => qhScan'.at = "cut" /\ ~qhScan'.work
<1>1. /\ qhScan \in ScanRecs /\ qhScan.at = "look" /\ qhList # <<>>
      /\ qhScan.work => qhScan' = Qh!AtRest
      /\ ~qhScan.work => qhScan' = [qhScan EXCEPT !.at = "cut", !.prev = 0]
  BY DEF QtdTypes, Qh!LookRetry, Qh!Null
<1>2. CASE qhScan.work
  BY <1>1, <1>2, QhRecs
<1>3. CASE ~qhScan.work
  BY <1>1, <1>3 DEF ScanRecs, QtdRef
<1> QED BY <1>2, <1>3, <1>1

LEMMA QhCuts ==
    ASSUME QtdTypes, QtdPlaces, QhHandled, Qh!Cut
    PROVE  /\ qhScan.at = "cut" /\ qhList # <<>> /\ qhList' = Tail(qhList)
           /\ Head(qhList) \in In(qhList) /\ Head(qhList) \in QtdItems
           /\ In(qhList') = In(qhList) \ {Head(qhList)}
           /\ qhScan' \in ScanRecs /\ qhScan'.at = "look" /\ qhScan'.work = qhScan.work
           /\ qhOv' \in OvRecs /\ qhOv'.next = QhNext(Head(qhList)) /\ qhOv'.cur = qhOv.cur
           /\ qhOv'.active = qhOv.active /\ qhOv'.alt = qhOv.alt
           /\ qhOv'.short = qhOv.short /\ qhOv'.halt = qhOv.halt
<1>1. PICK h : h = Head(qhList)
  OBVIOUS
<1>2. /\ qhScan.at = "cut" /\ qhList # <<>> /\ qhList' = Tail(qhList) /\ h \in In(qhList)
      /\ In(qhList') = In(qhList) \ {h} /\ h \in QtdItems
  <2>1. qhScan.at = "cut" /\ qhList # <<>> /\ qhList' = Tail(qhList)
    BY DEF Qh!Cut, QhHandled
  <2>2. h \in In(qhList) /\ In(qhList') = In(qhList) \ {h}
    BY <1>1, <2>1, SeqTail DEF QtdPlaces
  <2> QED BY <2>1, <2>2 DEF In, QtdPlaces
<1>3. PICK x \in QtdRef : x = qhQtd[h].next
  BY <1>2 DEF QtdTypes, QtdRecs
<1>4. /\ qhScan \in ScanRecs /\ qhScan' = [qhScan EXCEPT !.at = "look", !.prev = h]
      /\ qhOv \in OvRecs /\ qhOv' = [qhOv EXCEPT !.next = x]
  BY <1>1, <1>3 DEF Qh!Cut, QtdTypes
<1>5. qhScan' \in ScanRecs /\ qhScan'.at = "look" /\ qhScan'.work = qhScan.work
  BY <1>2, <1>4 DEF ScanRecs, QtdRef
<1>6. /\ qhOv' \in OvRecs /\ qhOv'.next = x /\ qhOv'.cur = qhOv.cur
      /\ qhOv'.active = qhOv.active /\ qhOv'.alt = qhOv.alt
      /\ qhOv'.short = qhOv.short /\ qhOv'.halt = qhOv.halt
  BY <1>4 DEF OvRecs
<1> QED BY <1>1, <1>2, <1>3, <1>5, <1>6 DEF QhNext

\* Where it is after the other steps of it.
LEMMA QhScans ==
    ASSUME QtdTypes
    PROVE  /\ Qh!Scan => /\ qhScan' \in ScanRecs /\ (qhList = <<>> => qhScan'.at = "idle")
                         /\ (qhList # <<>> => qhScan'.at = "look" /\ qhScan'.work)
           /\ \A then \in {"NONE", "UNLINKED"} : Qh!Unlink(then) =>
                /\ qhScan' \in ScanRecs /\ qhScan'.at = "look" /\ ~qhScan'.work
           /\ Qh!LookEnd => qhScan' \in ScanRecs /\ qhScan'.at \in {"idle", "free"}
           /\ Qh!QhFree => qhScan' \in ScanRecs /\ qhScan'.at = "idle"
<1>1. ASSUME Qh!Scan
      PROVE  /\ qhScan' \in ScanRecs /\ (qhList = <<>> => qhScan'.at = "idle")
             /\ (qhList # <<>> => qhScan'.at = "look" /\ qhScan'.work)
  BY <1>1, QhRecs DEF Qh!Scan, Qh!Null, ScanRecs, QtdRef
<1>2. ASSUME NEW then \in {"NONE", "UNLINKED"}, Qh!Unlink(then)
      PROVE  qhScan' \in ScanRecs /\ qhScan'.at = "look" /\ ~qhScan'.work
  BY <1>2 DEF Qh!Unlink, Qh!Null, ScanRecs, QtdRef
<1>3. ASSUME Qh!LookEnd
      PROVE  qhScan' \in ScanRecs /\ qhScan'.at \in {"idle", "free"}
  <2>1. [qhScan EXCEPT !.at = "free", !.prev = 0] \in ScanRecs
        /\ [qhScan EXCEPT !.at = "free", !.prev = 0].at = "free"
    BY DEF QtdTypes, ScanRecs, QtdRef
  <2> QED BY <1>3, <2>1, QhRecs DEF Qh!LookEnd, Qh!Null
<1>4. ASSUME Qh!QhFree
      PROVE  qhScan' \in ScanRecs /\ qhScan'.at = "idle"
  BY <1>4, QhRecs DEF Qh!QhFree
<1> QED BY <1>1, <1>2, <1>3, <1>4


\* The dummy that a new QH takes from the pool is none of its queue.
LEMMA QhEnables ==
    ASSUME QtdTypes, QtdPlaces, Qh!Enable
    PROVE  /\ qhQtd' \in [QtdItems -> QtdRecs] /\ qhOv' \in OvRecs /\ qhOv'.next = 0
           /\ \A i \in In(qhList) : qhQtd'[i] = qhQtd[i]
           /\ \E d \in QtdItems : /\ QhNo(d)' = 0 /\ d \notin QhHalted'
                                  /\ \A i \in QtdItems \ {d} : qhQtd'[i] = qhQtd[i]
<1>1. PICK d : d = Head(qhFree)
  OBVIOUS
<1>2. d \in In(qhFree) /\ d \in QtdItems /\ d \notin In(qhList)
  <2>1. d \in In(qhFree)
    BY <1>1, SeqTail DEF Qh!Enable, QtdPlaces
  <2> QED BY <2>1 DEF QtdPlaces, In
<1>3. qhQtd' = [qhQtd EXCEPT ![d] = Qh!Blank] /\ qhOv' = Qh!NoOv
  BY <1>1 DEF Qh!Enable
<1>4. qhQtd \in [QtdItems -> QtdRecs] /\ \A i \in In(qhList) : i \in QtdItems
  BY DEF QtdTypes, QtdPlaces, In
<1>5. PICK b \in QtdRecs : b = Qh!Blank /\ b.no = 0 /\ ~b.halt
  BY QhRecs
<1>6. /\ qhQtd' \in [QtdItems -> QtdRecs] /\ qhQtd'[d] = b
      /\ \A i \in QtdItems \ {d} : qhQtd'[i] = qhQtd[i]
  BY <1>2, <1>3, <1>4, <1>5
<1> QED BY <1>2, <1>3, <1>4, <1>5, <1>6, QhRecs DEF QhNo, QhHalted

\* The records keep their fields.
LEMMA QhTyped ==
    ASSUME QtdParams, QtdTypes, QtdPlaces, QhChained, QhHandled, Qh!Next
    PROVE  QtdTypes'
<1>1. (qhCount = Len(qhFree))' /\ (qhDummy \in QtdRef)'
  BY QhPlaced
<1>2. qhState' \in {"NONE", "IDLE", "LINKED", "UNLINKED"} /\ qhMade' \in Nat /\ qhResumed' \in BOOLEAN
  <2>1. ASSUME NEW n \in 1 .. TrpQtds, Qh!Submit(n)
        PROVE  qhState' = "LINKED" /\ qhMade' \in Nat /\ qhResumed' \in BOOLEAN
    <3>1. qhResumed' \in BOOLEAN
      <4>1. qhResumed' = (qhResumed \/ (qhState # "LINKED" /\ qhKind = "intr" /\ qhOv.active))
        BY <2>1 DEF Qh!Submit
      <4> QED BY <4>1, Zenon
    <3>2. n \in Nat
      OBVIOUS
    <3> QED BY <2>1, <3>1, <3>2 DEF Qh!Submit, QtdTypes
  <2>2. ASSUME NEW n \in 1 .. TrpQtds, Qh!SubmitNoMem(n) \/ Qh!SubmitNoRoom(n)
        PROVE  UNCHANGED <<qhState, qhMade, qhResumed>>
    BY <2>2 DEF Qh!SubmitNoMem, Qh!SubmitNoRoom
  <2>3. CASE Qh!Enable
    BY <2>3 DEF Qh!Enable, QtdTypes
  <2>4. ASSUME NEW then \in {"NONE", "UNLINKED"}, Qh!Unlink(then)
        PROVE  qhState' \in {qhState, "UNLINKED"} /\ UNCHANGED <<qhMade, qhResumed>>
    BY <2>4 DEF Qh!Unlink
  <2>5. CASE Qh!QhFree
    BY <2>5 DEF Qh!QhFree, QtdTypes
  <2>6. CASE Qh!Scan \/ Qh!Look \/ Qh!LookRetry \/ Qh!Cut \/ Qh!LookEnd \/ Qh!HwLoad \/ Qh!HwDone
    BY <2>6 DEF Qh!Scan, Qh!Look, Qh!LookRetry, Qh!Cut, Qh!LookEnd, Qh!HwLoad, Qh!HwDone, QtdTypes
  <2> QED BY <2>1, <2>2, <2>3, <2>4, <2>5, <2>6 DEF Qh!Next, QtdTypes
<1>3. qhQtd' \in [QtdItems -> QtdRecs] /\ qhOv' \in OvRecs
  <2>1. ASSUME NEW n \in 1 .. TrpQtds, Qh!Submit(n)
        PROVE  qhQtd' \in [QtdItems -> QtdRecs] /\ qhOv' \in OvRecs
    <3>1. n \in Nat \ {0} /\ n <= Len(qhFree) /\ qhOv' = Qh!Relinked(qhFree[1])
      BY <2>1 DEF Qh!Submit
    <3>2. qhFree[1] \in QtdRef
      BY <3>1 DEF QtdPlaces, QtdRef
    <3> QED BY <2>1, <3>1, <3>2, QhAdds, QhRelinks
  <2>2. CASE \/ \E n \in 1 .. TrpQtds : Qh!SubmitNoMem(n) \/ Qh!SubmitNoRoom(n)
             \/ Qh!Scan \/ Qh!Look \/ Qh!LookEnd \/ Qh!QhFree
             \/ \E then \in {"NONE", "UNLINKED"} : Qh!Unlink(then)
    BY <2>2 DEF Qh!SubmitNoMem, Qh!SubmitNoRoom, Qh!Scan, Qh!Look, Qh!LookEnd, Qh!QhFree, Qh!Unlink, QtdTypes
  <2>3. CASE Qh!Enable
    BY <2>3, QhEnables
  <2>4. CASE Qh!LookRetry
    BY <2>4, QhRetries
  <2>5. CASE Qh!Cut
    BY <2>5, QhCuts DEF Qh!Cut, QtdTypes
  <2>6. CASE Qh!HwLoad
    BY <2>6, QhLoads DEF Qh!HwLoad, QtdTypes
  <2>7. CASE Qh!HwDone
    BY <2>7, QhExecutes
  <2> QED BY <2>1, <2>2, <2>3, <2>4, <2>5, <2>6, <2>7 DEF Qh!Next
<1>4. qhScan' \in ScanRecs /\ qhIrq' \in BOOLEAN
  <2>1. CASE \/ \E n \in 1 .. TrpQtds : Qh!Submit(n) \/ Qh!SubmitNoMem(n) \/ Qh!SubmitNoRoom(n)
             \/ Qh!Enable \/ Qh!HwLoad
    BY <2>1 DEF Qh!Submit, Qh!SubmitNoMem, Qh!SubmitNoRoom, Qh!Enable, Qh!HwLoad, QtdTypes
  <2>2. CASE Qh!Scan \/ Qh!LookEnd \/ Qh!QhFree \/ \E then \in {"NONE", "UNLINKED"} : Qh!Unlink(then)
    <3>1. qhScan' \in ScanRecs
      BY <2>2, QhScans
    <3> QED BY <2>2, <3>1 DEF Qh!Scan, Qh!LookEnd, Qh!QhFree, Qh!Unlink, QtdTypes
  <2>3. CASE Qh!Look
    BY <2>3, QhLooks DEF Qh!Look, QtdTypes
  <2>4. CASE Qh!LookRetry
    BY <2>4, QhLooksAgain DEF Qh!LookRetry, QtdTypes
  <2>5. CASE Qh!Cut
    BY <2>5, QhCuts DEF Qh!Cut, QtdTypes
  <2>6. CASE Qh!HwDone
    BY <2>6, QhExecutes DEF Qh!HwDone, QtdTypes
  <2> QED BY <2>1, <2>2, <2>3, <2>4, <2>5, <2>6 DEF Qh!Next
<1>5. qhRan' \in Nat
  <2>1. CASE Qh!LookRetry
    <3>1. PICK h : h = Head(qhList) /\ qhRan' = QhNo(h) - 1
      BY <2>1 DEF Qh!LookRetry, QhNo
    <3>2. h \in In(qhList)
      BY <2>1, <3>1, QhLooksAgain, SeqTail DEF QtdPlaces
    <3>3. QhNo(h) \in 1 .. qhMade /\ qhMade \in Nat
      BY <3>2 DEF QhChained, QtdTypes
    <3> QED BY <3>1, <3>3
  <2>2. CASE Qh!HwDone
    <3>1. qhRan' = qhQtd[qhOv.cur].no /\ qhOv.cur \in QtdItems
      BY <2>2 DEF Qh!HwDone, Qh!Null, QtdTypes, OvRecs, QtdRef
    <3> QED BY <3>1 DEF QtdTypes, QtdRecs
  <2>3. CASE \/ \E n \in 1 .. TrpQtds : Qh!Submit(n) \/ Qh!SubmitNoMem(n) \/ Qh!SubmitNoRoom(n)
             \/ Qh!Enable \/ Qh!HwLoad \/ Qh!Scan \/ Qh!LookEnd \/ Qh!QhFree \/ Qh!Look \/ Qh!Cut
             \/ \E then \in {"NONE", "UNLINKED"} : Qh!Unlink(then)
    BY <2>3 DEF Qh!Submit, Qh!SubmitNoMem, Qh!SubmitNoRoom, Qh!Enable, Qh!HwLoad, Qh!Scan,
                Qh!LookEnd, Qh!QhFree, Qh!Look, Qh!Cut, Qh!Unlink, QtdTypes
  <2> QED BY <2>1, <2>2, <2>3 DEF Qh!Next
<1> QED BY <1>1, <1>2, <1>3, <1>4, <1>5 DEF QtdTypes

\* What is in a queue that is changed by no request and no cut.
LEMMA QhKept ==
    ASSUME QtdTypes, QtdPlaces, QhChained, QhHandled, Qh!Next,
           \A n \in 1 .. TrpQtds : ~Qh!Submit(n), ~Qh!Cut
    PROVE  /\ qhList' = qhList /\ qhMade' = qhMade
           /\ \A i \in In(qhList) : /\ QhNo(i)' = QhNo(i) /\ QhNext(i)' = QhNext(i)
                                    /\ (i \in QhIoc' <=> i \in QhIoc)
           /\ \A i \in QtdItems : QhNo(i)' \in {0, QhNo(i)}
<1>1. \A i \in In(qhList) : i \in QtdItems
  BY DEF QtdPlaces, In
<1>2. CASE \/ \E n \in 1 .. TrpQtds : Qh!SubmitNoMem(n) \/ Qh!SubmitNoRoom(n)
           \/ Qh!HwLoad \/ Qh!Scan \/ Qh!LookEnd \/ Qh!QhFree \/ Qh!Look
           \/ \E then \in {"NONE", "UNLINKED"} : Qh!Unlink(then)
  <2>1. UNCHANGED <<qhQtd, qhList, qhMade>>
    BY <1>2 DEF Qh!SubmitNoMem, Qh!SubmitNoRoom, Qh!HwLoad, Qh!Scan,
                Qh!LookEnd, Qh!QhFree, Qh!Look, Qh!Unlink
  <2> QED BY <2>1 DEF QhNo, QhNext, QhIoc
<1>3. CASE Qh!Enable
  <2>1. UNCHANGED <<qhList, qhMade>>
    BY <1>3 DEF Qh!Enable
  <2> QED BY <1>1, <1>3, <2>1, QhEnables DEF QhNo, QhNext, QhIoc
<1>4. CASE Qh!LookRetry
  <2>1. PICK h : QhTriedAgain(h)
    BY <1>4, QhRetries
  <2> QED BY <1>1, <2>1 DEF QhTriedAgain
<1>5. CASE Qh!HwDone
  <2>1. PICK c, end : QhExecuted(c, end)
    BY <1>5, QhExecutes
  <2> QED BY <1>1, <2>1 DEF QhExecuted
<1> QED BY <1>2, <1>3, <1>4, <1>5 DEF Qh!Next

\* Two qTDs of a queue were not made at the same time, and none after its last.
LEMMA QhOrder ==
    ASSUME QtdTypes, QtdPlaces, QhChained
    PROVE  /\ \A i, j \in In(qhList) : i # j => QhNo(i) # QhNo(j)
           /\ \A i \in In(qhList) : QhNo(i) \in Nat /\ i \in QtdItems /\ QhNo(i) <= qhMade
           /\ qhList # <<>> => /\ qhList[Len(qhList)] \in In(qhList)
                               /\ \A i \in In(qhList) : QhNo(i) <= QhNo(qhList[Len(qhList)])
                               /\ Head(qhList) \in In(qhList)
                               /\ \A i \in In(qhList) : i # Head(qhList) => QhNo(Head(qhList)) < QhNo(i)
<1>1. /\ Len(qhList) \in Nat /\ \A k \in 1 .. Len(qhList) : qhList[k] \in QtdItems
      /\ \A a, b \in 1 .. Len(qhList) : a < b => QhNo(qhList[a]) < QhNo(qhList[b])
      /\ \A i \in QtdItems : QhNo(i) \in Nat
  BY DEF QtdPlaces, QtdTypes, QhChained, QhNo, QtdRecs
<1>2. \A i, j \in In(qhList) : i # j => QhNo(i) # QhNo(j)
  <2> SUFFICES ASSUME NEW a \in 1 .. Len(qhList), NEW b \in 1 .. Len(qhList), qhList[a] # qhList[b]
               PROVE  QhNo(qhList[a]) # QhNo(qhList[b])
    BY DEF In
  <2>1. a < b \/ b < a
    BY <1>1
  <2> QED BY <1>1, <2>1
<1>3. \A i \in In(qhList) : QhNo(i) \in Nat /\ i \in QtdItems /\ QhNo(i) <= qhMade
  BY <1>1 DEF In, QhChained
<1>4. ASSUME qhList # <<>>
      PROVE  /\ qhList[Len(qhList)] \in In(qhList)
             /\ \A i \in In(qhList) : QhNo(i) <= QhNo(qhList[Len(qhList)])
             /\ Head(qhList) \in In(qhList)
             /\ \A i \in In(qhList) : i # Head(qhList) => QhNo(Head(qhList)) < QhNo(i)
  <2>1. Len(qhList) \in 1 .. Len(qhList) /\ 1 \in 1 .. Len(qhList) /\ Head(qhList) = qhList[1]
    BY <1>4 DEF QtdPlaces
  <2>2. ASSUME NEW a \in 1 .. Len(qhList)
        PROVE  /\ QhNo(qhList[a]) <= QhNo(qhList[Len(qhList)])
               /\ qhList[a] # qhList[1] => QhNo(qhList[1]) < QhNo(qhList[a])
    <3>1. (a = 1 \/ 1 < a) /\ (a = Len(qhList) \/ a < Len(qhList))
      BY <1>1
    <3> QED BY <1>1, <2>1, <3>1
  <2> QED BY <2>1, <2>2 DEF In
<1> QED BY <1>2, <1>3, <1>4

\* What a request does to the order.
LEMMA QhLonger ==
    ASSUME QtdParams, QtdTypes, QtdPlaces, QhChained, QhHandled, NEW n \in Nat \ {0}, Qh!Submit(n)
    PROVE  \E c : /\ QhAdded(c, n) /\ c[1] = qhFree[1] /\ c[1] \in In(c)
                  /\ In(qhList') = In(qhList) \cup In(c) /\ qhList' # <<>>
                  /\ \A i \in In(qhList) : i \in QtdItems \ In(c) /\ QhNo(i)' = QhNo(i)
                  /\ \A i \in In(c) : /\ i \in QtdItems /\ QhNo(i)' \in Nat /\ qhMade < QhNo(i)'
                                      /\ QhNo(c[1])' <= QhNo(i)'
                  /\ \A a, b \in 1 .. Len(qhList') : a < b => QhNo(qhList[a])' < QhNo(qhList[b])'
<1>1. PICK c : QhAdded(c, n) /\ c[1] = qhFree[1]
  BY QhAdds
<1>2. /\ qhList' = qhList \o c /\ Len(c) = n /\ c \in Seq(QtdItems) /\ qhList \in Seq(QtdItems)
      /\ NoRepeat(c) /\ NoRepeat(qhList) /\ In(c) \cap In(qhList) = {} /\ qhMade \in Nat
      /\ \A k \in 1 .. n : QhNo(c[k])' = qhMade + k
      /\ \A i \in QtdItems \ In(c) : QhNo(i)' = QhNo(i)
  BY <1>1 DEF QhAdded, QtdPlaces, QtdTypes
<1>3. /\ In(qhList') = In(qhList) \cup In(c) /\ Len(qhList') = Len(qhList) + n
      /\ qhList' \in Seq(QtdItems) /\ Len(qhList) \in Nat
      /\ \A k \in 1 .. Len(qhList) : qhList'[k] = qhList[k]
      /\ \A k \in 1 .. n : qhList'[Len(qhList) + k] = c[k]
  <2>1. PICK s \in Seq(QtdItems) : s = qhList /\ NoRepeat(s) /\ In(s) \cap In(c) = {}
    BY <1>2
  <2>2. /\ In(s \o c) = In(s) \cup In(c) /\ Len(s \o c) = Len(s) + Len(c)
        /\ s \o c \in Seq(QtdItems) /\ Len(s) \in Nat
        /\ \A k \in 1 .. Len(s) : (s \o c)[k] = s[k]
        /\ \A k \in 1 .. Len(c) : (s \o c)[Len(s) + k] = c[k]
    <3>1. c \in Seq(QtdItems) /\ NoRepeat(c) /\ Len(s) \in Nat
      BY <1>2, <2>1
    <3> QED BY <2>1, <3>1, SeqJoin
  <2> QED BY <1>2, <2>1, <2>2
<1>4. \A i \in In(qhList) : i \in QtdItems \ In(c) /\ QhNo(i)' = QhNo(i) /\ QhNo(i) <= qhMade /\ QhNo(i) \in Nat
  <2>1. \A i \in In(qhList) : i \in QtdItems /\ QhNo(i) <= qhMade /\ QhNo(i) \in Nat
    BY QhOrder
  <2>2. \A i \in In(qhList) : i \notin In(c)
    BY <1>2
  <2>3. \A i \in QtdItems \ In(c) : QhNo(i)' = QhNo(i)
    BY <1>2
  <2>4. ASSUME NEW i \in In(qhList)
        PROVE  i \in QtdItems \ In(c) /\ QhNo(i)' = QhNo(i)
    <3>1. i \in QtdItems \ In(c)
      BY <2>1, <2>2
    <3> QED BY <2>3, <3>1
  <2> QED BY <2>1, <2>4
<1>5. c[1] \in In(c)
  BY <1>2 DEF In
<1>6. \A i \in In(c) : /\ i \in QtdItems /\ QhNo(i)' \in Nat /\ qhMade < QhNo(i)'
                       /\ QhNo(c[1])' <= QhNo(i)'
  <2> SUFFICES ASSUME NEW k \in 1 .. n
               PROVE  /\ c[k] \in QtdItems /\ QhNo(c[k])' \in Nat /\ qhMade < QhNo(c[k])'
                      /\ QhNo(c[1])' <= QhNo(c[k])'
    BY <1>2 DEF In
  <2>1. 1 \in 1 .. n /\ QhNo(c[1])' = qhMade + 1 /\ QhNo(c[k])' = qhMade + k
    BY <1>2
  <2>2. c[k] \in QtdItems
    BY <1>2
  <2> QED BY <1>2, <2>1, <2>2
<1>7. \A a, b \in 1 .. Len(qhList') : a < b => QhNo(qhList[a])' < QhNo(qhList[b])'
  <2> SUFFICES ASSUME NEW a \in 1 .. Len(qhList'), NEW b \in 1 .. Len(qhList'), a < b
               PROVE  QhNo(qhList[a])' < QhNo(qhList[b])'
    OBVIOUS
  <2>1. CASE b \in 1 .. Len(qhList)
    <3>1. a \in 1 .. Len(qhList) /\ QhNo(qhList[a]) < QhNo(qhList[b])
      BY <2>1, <1>3 DEF QhChained
    <3>2. qhList[a] \in In(qhList) /\ qhList[b] \in In(qhList)
      BY <2>1, <3>1 DEF In
    <3>3. qhList'[a] = qhList[a] /\ qhList'[b] = qhList[b]
      BY <1>3, <2>1, <3>1
    <3> QED BY <1>4, <3>1, <3>2, <3>3 DEF QhNo
  <2>2. CASE b \notin 1 .. Len(qhList)
    <3>1. PICK k \in 1 .. n : b = Len(qhList) + k
      <4>1. b - Len(qhList) \in 1 .. n /\ b = Len(qhList) + (b - Len(qhList))
        BY <1>3, <2>2
      <4> QED BY <4>1
    <3>2. QhNo(qhList[b])' = qhMade + k
      BY <1>2, <1>3, <3>1 DEF QhNo
    <3>3. CASE a \in 1 .. Len(qhList)
      <4>1. qhList[a] \in In(qhList) /\ qhList'[a] = qhList[a]
        BY <1>3, <3>3 DEF In
      <4>2. PICK i \in In(qhList) : i = qhList'[a]
        BY <4>1
      <4>3. QhNo(i)' < qhMade + k
        BY <1>2, <1>4
      <4>4. QhNo(qhList[a])' = QhNo(i)'
        BY <4>2 DEF QhNo
      <4> QED BY <3>2, <4>3, <4>4
    <3>4. CASE a \notin 1 .. Len(qhList)
      <4>1. PICK l \in 1 .. n : a = Len(qhList) + l
        <5>1. a - Len(qhList) \in 1 .. n /\ a = Len(qhList) + (a - Len(qhList))
          BY <1>3, <3>4
        <5> QED BY <5>1
      <4>2. QhNo(qhList[a])' = qhMade + l
        BY <1>2, <1>3, <4>1 DEF QhNo
      <4>3. l < k
        BY <1>3, <3>1, <4>1
      <4> QED BY <1>2, <3>2, <4>2, <4>3
    <3> QED BY <3>3, <3>4
  <2> QED BY <2>1, <2>2
<1>8. qhList' # <<>>
  BY <1>3
<1> QED BY <1>1, <1>3, <1>4, <1>5, <1>6, <1>7, <1>8

\* How the qTDs of a queue are linked.
QhLinked(i) ==
    /\ QhNo(i) \in 1 .. qhMade
    /\ QhNext(i) = 0 => i \in QhIoc /\ \A j \in In(qhList) : QhNo(j) <= QhNo(i)
    /\ QhNext(i) # 0 =>
         /\ QhNext(i) \in In(qhList) /\ QhNo(i) < QhNo(QhNext(i))
         /\ \A j \in In(qhList) : QhNo(i) < QhNo(j) => QhNo(QhNext(i)) <= QhNo(j)

LEMMA QhLongerLinks ==
    ASSUME QtdParams, QtdTypes, QtdPlaces, QhChained, QhHandled, NEW n \in Nat \ {0}, Qh!Submit(n)
    PROVE  \A i \in In(qhList') : QhLinked(i)'
<1>1. PICK c : /\ QhAdded(c, n) /\ c[1] \in In(c)
               /\ In(qhList') = In(qhList) \cup In(c)
               /\ \A i \in In(qhList) : i \in QtdItems \ In(c) /\ QhNo(i)' = QhNo(i)
               /\ \A i \in In(c) : /\ i \in QtdItems /\ QhNo(i)' \in Nat /\ qhMade < QhNo(i)'
                                   /\ QhNo(c[1])' <= QhNo(i)'
  BY QhLonger
<1>2. qhMade \in Nat /\ qhMade' = qhMade + n /\ 0 \notin QtdItems
  BY <1>1 DEF QhAdded, QtdTypes, QtdParams
<1>3. /\ \A i \in In(qhList) : QhNo(i) \in Nat /\ QhNo(i) <= qhMade
      /\ \A i \in In(qhList) : QhLinked(i)
  BY QhOrder DEF QhChained, QhLinked
<1>4. \A i \in In(c) : \E k \in 1 .. n : i = c[k]
  BY <1>1 DEF QhAdded, In
<1>5. ASSUME NEW i \in In(qhList)
      PROVE  QhLinked(i)'
  <2>1. QhNo(i)' \in 1 .. qhMade'
    BY <1>1, <1>2, <1>3 DEF QhLinked
  <2>2. CASE i = qhList[Len(qhList)]
    <3>1. qhList # <<>>
      BY DEF In
    <3>2. QhNext(i)' = c[1] /\ \A j \in In(qhList) : QhNo(j) <= QhNo(i)
      BY <1>1, <2>2, <3>1, QhOrder DEF QhAdded
    <3>3. QhNext(i)' # 0 /\ QhNext(i)' \in In(qhList')
      BY <1>1, <1>2, <3>2
    <3>4. QhNo(i)' < QhNo(c[1])'
      BY <1>1, <1>2, <1>3
    <3>5. \A j \in In(qhList') : QhNo(i)' < QhNo(j)' => QhNo(c[1])' <= QhNo(j)'
      BY <1>1, <1>3, <3>2
    <3> QED BY <2>1, <3>2, <3>3, <3>4, <3>5 DEF QhLinked
  <2>3. CASE i # qhList[Len(qhList)]
    <3>1. qhList # <<>> /\ qhList[Len(qhList)] \in In(qhList) /\ QhNo(i) < QhNo(qhList[Len(qhList)])
      <4>1. qhList # <<>>
        BY DEF In
      <4>2. /\ qhList[Len(qhList)] \in In(qhList) /\ QhNo(i) <= QhNo(qhList[Len(qhList)])
            /\ QhNo(i) # QhNo(qhList[Len(qhList)])
        BY <2>3, <4>1, QhOrder
      <4> QED BY <1>3, <4>1, <4>2
    <3>2. QhNext(i)' = QhNext(i)
      BY <1>1, <2>3 DEF QhAdded
    <3>3. /\ QhNext(i) # 0 /\ QhNext(i) \in In(qhList) /\ QhNo(i) < QhNo(QhNext(i))
          /\ \A j \in In(qhList) : QhNo(i) < QhNo(j) => QhNo(QhNext(i)) <= QhNo(j)
      BY <1>3, <3>1 DEF QhLinked
    <3>4. PICK x : x = QhNext(i)
      OBVIOUS
    <3>5. /\ QhNext(i)' = x /\ x # 0 /\ x \in In(qhList) /\ QhNo(x)' = QhNo(x) /\ QhNo(i)' = QhNo(i)
      BY <1>1, <3>2, <3>3, <3>4
    <3>6. QhNo(i)' < QhNo(x)' /\ x \in In(qhList')
      BY <1>1, <3>3, <3>4, <3>5
    <3>7. \A j \in In(qhList') : QhNo(i)' < QhNo(j)' => QhNo(x)' <= QhNo(j)'
      <4> SUFFICES ASSUME NEW j \in In(qhList'), QhNo(i)' < QhNo(j)' PROVE QhNo(x)' <= QhNo(j)'
        OBVIOUS
      <4>1. CASE j \in In(qhList)
        BY <1>1, <3>3, <3>4, <3>5, <4>1
      <4>2. CASE j \in In(c)
        <5>1. QhNo(x) <= qhMade /\ qhMade < QhNo(j)' /\ QhNo(x) \in Nat /\ QhNo(j)' \in Nat
          BY <1>1, <1>3, <3>5, <4>2
        <5> QED BY <1>2, <3>5, <5>1
      <4> QED BY <1>1, <4>1, <4>2
    <3> QED BY <2>1, <3>5, <3>6, <3>7 DEF QhLinked
  <2> QED BY <2>2, <2>3
<1>6. ASSUME NEW k \in 1 .. n
      PROVE  QhLinked(c[k])'
  <2>1. /\ (c[k] \in QhIoc' <=> k = n) /\ QhNext(c[k])' = (IF k = n THEN 0 ELSE c[k + 1])
        /\ \A l \in 1 .. n : QhNo(c[l])' = qhMade + l /\ c[l] \in In(c)
    BY <1>1 DEF QhAdded, In
  <2>2. QhNo(c[k])' \in 1 .. qhMade'
    BY <1>2, <2>1
  <2>3. CASE k = n
    <3>1. \A j \in In(qhList') : QhNo(j)' <= qhMade + n
      <4> SUFFICES ASSUME NEW j \in In(qhList') PROVE QhNo(j)' <= qhMade + n
        OBVIOUS
      <4>1. CASE j \in In(qhList)
        BY <1>1, <1>2, <1>3, <4>1
      <4>2. CASE j \in In(c)
        BY <1>2, <1>4, <2>1, <4>2
      <4> QED BY <1>1, <4>1, <4>2
    <3> QED BY <2>1, <2>2, <2>3, <3>1 DEF QhLinked
  <2>4. CASE k # n
    <3>1. PICK x : x = c[k + 1] /\ x \in In(c) /\ x # 0 /\ QhNo(x)' = qhMade + (k + 1)
      <4>1. k + 1 \in 1 .. n
        BY <2>4
      <4> QED BY <1>1, <1>2, <2>1, <4>1
    <3>2. QhNext(c[k])' = x /\ x \in In(qhList') /\ QhNo(c[k])' < QhNo(x)'
      BY <1>1, <1>2, <2>1, <2>4, <3>1
    <3>3. \A j \in In(qhList') : QhNo(c[k])' < QhNo(j)' => QhNo(x)' <= QhNo(j)'
      <4> SUFFICES ASSUME NEW j \in In(qhList'), QhNo(c[k])' < QhNo(j)' PROVE QhNo(x)' <= QhNo(j)'
        OBVIOUS
      <4>1. CASE j \in In(qhList)
        BY <1>1, <1>2, <1>3, <2>1, <4>1
      <4>2. CASE j \in In(c)
        BY <1>2, <1>4, <2>1, <3>1, <4>2
      <4> QED BY <1>1, <4>1, <4>2
    <3> QED BY <2>2, <3>1, <3>2, <3>3 DEF QhLinked
  <2> QED BY <2>3, <2>4
<1> QED BY <1>1, <1>4, <1>5, <1>6

\* The queue stays linked in order.
LEMMA QhChains ==
    ASSUME QtdParams, QtdInv, Qh!Next
    PROVE  QhChained'
<1> USE DEF QtdInv
<1>1. ASSUME NEW n \in 1 .. TrpQtds, Qh!Submit(n)
      PROVE  QhChained'
  <2>1. n \in Nat \ {0}
    BY DEF QtdParams
  <2>2. PICK c : /\ QhAdded(c, n) /\ c[1] = qhFree[1] /\ c[1] \in In(c)
                 /\ In(qhList') = In(qhList) \cup In(c)
                 /\ \A a, b \in 1 .. Len(qhList') : a < b => QhNo(qhList[a])' < QhNo(qhList[b])'
    BY <1>1, <2>1, QhLonger
  <2>3. \A i \in In(qhList') : QhLinked(i)'
    BY <1>1, <2>1, QhLongerLinks
  <2>4. /\ qhMade \in Nat /\ qhMade' = qhMade + n /\ qhRan' = qhRan /\ qhRan \in Nat /\ qhRan <= qhMade
        /\ \A i \in QtdItems : QhNo(i) <= qhMade /\ QhNo(i) \in Nat
    BY <1>1, <2>2 DEF QhAdded, Qh!Submit, QtdTypes, QhChained, QhNo, QtdRecs
  <2>5. \A i \in QtdItems : QhNo(i)' <= qhMade'
    <3> SUFFICES ASSUME NEW i \in QtdItems PROVE QhNo(i)' <= qhMade'
      OBVIOUS
    <3>1. CASE i \in In(c)
      <4>1. PICK k \in 1 .. n : i = c[k]
        BY <2>2, <3>1 DEF QhAdded, In
      <4>2. QhNo(c[k])' = qhMade + k
        BY <2>2 DEF QhAdded
      <4>3. QhNo(i)' = qhMade + k
        BY <4>1, <4>2
      <4> QED BY <2>4, <4>3
    <3>2. CASE i \notin In(c)
      BY <2>1, <2>2, <2>4, <3>2 DEF QhAdded
    <3> QED BY <3>1, <3>2
  <2>6. QhHalted' \cap QhEnded' = {}
    <3> SUFFICES ASSUME NEW i \in QhHalted' \cap QhEnded' PROVE FALSE
      OBVIOUS
    <3>1. i \in QtdItems
      BY DEF QhHalted
    <3>2. i \notin In(c)
      <4>1. ASSUME NEW k \in 1 .. n PROVE i # c[k]
        BY <2>2 DEF QhAdded
      <4>2. \A x \in In(c) : \E k \in 1 .. n : x = c[k]
        BY <2>2 DEF QhAdded, In
      <4> QED BY <4>1, <4>2
    <3>3. i \in QhHalted /\ i \in QhEnded
      BY <2>2, <3>1, <3>2 DEF QhAdded
    <3> QED BY <3>3 DEF QhChained
  <2>7. qhRan' <= qhMade'
    BY <2>1, <2>4
  <2> QED BY <2>2, <2>3, <2>5, <2>6, <2>7 DEF QhChained, QhLinked
<1>2. CASE Qh!Cut
  <2>1. PICK h : h = Head(qhList)
    OBVIOUS
  <2>2. /\ qhList # <<>> /\ qhList' = Tail(qhList) /\ In(qhList') = In(qhList) \ {h} /\ h \in In(qhList)
    BY <1>2, <2>1, QhCuts
  <2>3. UNCHANGED <<qhQtd, qhMade, qhRan>>
    BY <1>2 DEF Qh!Cut
  <2>4. /\ Len(qhList') = Len(qhList) - 1 /\ Len(qhList) \in Nat \ {0}
        /\ \A k \in 1 .. Len(qhList) - 1 : qhList'[k] = qhList[k + 1]
    BY <2>2, SeqTail DEF QtdPlaces
  <2>5. \A a, b \in 1 .. Len(qhList') : a < b => QhNo(qhList[a])' < QhNo(qhList[b])'
    <3> SUFFICES ASSUME NEW a \in 1 .. Len(qhList'), NEW b \in 1 .. Len(qhList'), a < b
                 PROVE  QhNo(qhList[a])' < QhNo(qhList[b])'
      OBVIOUS
    <3>1. a + 1 \in 1 .. Len(qhList) /\ b + 1 \in 1 .. Len(qhList) /\ a + 1 < b + 1
          /\ a \in 1 .. Len(qhList) - 1 /\ b \in 1 .. Len(qhList) - 1
      BY <2>4
    <3>2. QhNo(qhList[a + 1]) < QhNo(qhList[b + 1])
      BY <3>1 DEF QhChained
    <3> QED BY <2>3, <2>4, <3>1, <3>2 DEF QhNo
  <2>6. ASSUME NEW i \in In(qhList')
        PROVE  QhLinked(i)'
    <3>1. i \in In(qhList) /\ i # h /\ QhLinked(i) /\ QhNo(h) < QhNo(i)
      <4>1. i \in In(qhList) /\ i # h
        BY <2>2
      <4> QED BY <2>1, <2>2, <4>1, QhOrder DEF QhChained, QhLinked
    <3>2. QhNext(i) # 0 => QhNext(i) # h
      <4>1. ASSUME QhNext(i) # 0 PROVE QhNo(h) < QhNo(QhNext(i))
        <5>1. QhNo(i) < QhNo(QhNext(i)) /\ QhNext(i) \in In(qhList)
          BY <3>1, <4>1 DEF QhLinked
        <5> QED BY <2>2, <3>1, <5>1, QhOrder
      <4>2. ~(QhNo(h) < QhNo(h))
        BY <2>2, QhOrder
      <4> QED BY <4>1, <4>2
    <3>3. \A j : QhNo(j)' = QhNo(j) /\ QhNext(j)' = QhNext(j)
      BY <2>3 DEF QhNo, QhNext
    <3>4. QhIoc' = QhIoc /\ qhMade' = qhMade
      BY <2>3 DEF QhIoc
    <3> QED BY <2>2, <3>1, <3>2, <3>3, <3>4 DEF QhLinked
  <2>7. /\ \A i \in QtdItems : QhNo(i)' <= qhMade'
        /\ qhRan' <= qhMade' /\ QhHalted' \cap QhEnded' = {}
    BY <2>3 DEF QhChained, QhNo, QhHalted, QhEnded
  <2> QED BY <2>5, <2>6, <2>7 DEF QhChained, QhLinked
<1>3. CASE (\A n \in 1 .. TrpQtds : ~Qh!Submit(n)) /\ ~Qh!Cut
  <2>1. /\ qhList' = qhList /\ qhMade' = qhMade /\ qhMade \in Nat
        /\ \A i \in In(qhList) : /\ QhNo(i)' = QhNo(i) /\ QhNext(i)' = QhNext(i)
                                 /\ (i \in QhIoc' <=> i \in QhIoc)
        /\ \A i \in QtdItems : QhNo(i)' \in {0, QhNo(i)}
    BY <1>3, QhKept DEF QtdTypes
  <2>2. \A a, b \in 1 .. Len(qhList') : a < b => QhNo(qhList[a])' < QhNo(qhList[b])'
    <3>1. \A a \in 1 .. Len(qhList) : qhList[a] \in In(qhList)
      BY DEF In
    <3>2. \A a, b \in 1 .. Len(qhList) : a < b => QhNo(qhList[a]) < QhNo(qhList[b])
      BY DEF QhChained
    <3>3. \A a \in 1 .. Len(qhList) : qhQtd'[qhList[a]].no = QhNo(qhList[a])
      BY <2>1, <3>1 DEF QhNo
    <3> QED BY <2>1, <3>2, <3>3 DEF QhNo
  <2>3. ASSUME NEW i \in In(qhList') PROVE QhLinked(i)'
    <3>1. QhLinked(i) /\ i \in In(qhList)
      BY <2>1 DEF QhChained, QhLinked
    <3>2. QhNext(i)' = QhNext(i) /\ QhNo(i)' = QhNo(i) /\ (QhNext(i) # 0 => QhNo(QhNext(i))' = QhNo(QhNext(i)))
      BY <2>1, <3>1 DEF QhLinked
    <3>3. PICK x : x = QhNext(i)
      OBVIOUS
    <3>4. QhNext(i)' = x /\ (x # 0 => QhNo(x)' = QhNo(x))
      BY <3>2, <3>3
    <3>5. /\ QhNo(i) \in 1 .. qhMade
          /\ x = 0 => i \in QhIoc /\ \A j \in In(qhList) : QhNo(j) <= QhNo(i)
          /\ x # 0 => /\ x \in In(qhList) /\ QhNo(i) < QhNo(x)
                      /\ \A j \in In(qhList) : QhNo(i) < QhNo(j) => QhNo(x) <= QhNo(j)
      BY <3>1, <3>3 DEF QhLinked
    <3>6. /\ QhNo(i)' \in 1 .. qhMade'
          /\ x = 0 => i \in QhIoc' /\ \A j \in In(qhList') : QhNo(j)' <= QhNo(i)'
          /\ x # 0 => /\ x \in In(qhList') /\ QhNo(i)' < QhNo(x)'
                      /\ \A j \in In(qhList') : QhNo(i)' < QhNo(j)' => QhNo(x)' <= QhNo(j)'
      BY <2>1, <3>1, <3>2, <3>4, <3>5
    <3> QED BY <3>4, <3>6 DEF QhLinked
  <2>4. \A i \in QtdItems : QhNo(i)' <= qhMade'
    BY <2>1 DEF QhChained
  <2>5. qhRan' <= qhMade' /\ QhHalted' \cap QhEnded' = {}
    <3>1. CASE Qh!LookRetry
      <4>1. PICK h : QhTriedAgain(h)
        BY <3>1, QhRetries
      <4>2. QhNo(h) \in Nat /\ QhNo(h) <= qhMade
        BY <4>1, QhOrder DEF QhTriedAgain
      <4>3. \A i \in QhHalted' : i \in QhHalted /\ i \in QtdItems
        BY <4>1 DEF QhTriedAgain, QhHalted
      <4>4. \A i \in QhHalted' : i \notin QhEnded'
        BY <4>1, <4>3 DEF QhTriedAgain, QhChained
      <4> QED BY <2>1, <4>1, <4>2, <4>4 DEF QhTriedAgain
    <3>2. CASE Qh!HwDone
      <4>1. PICK c, end : QhExecuted(c, end)
        BY <3>2, QhExecutes
      <4>2. c \in QtdItems /\ qhRan' = QhNo(c) /\ QhNo(c) <= qhMade
        BY <4>1 DEF QhExecuted, QhChained
      <4>3. c \notin QhHalted' \cap QhEnded'
        BY <4>1 DEF QhExecuted
      <4>4. \A i \in QhHalted' \cap QhEnded' : i \in QtdItems
        BY DEF QhHalted
      <4>5. QhHalted' \cap QhEnded' = {}
        BY <4>1, <4>3, <4>4 DEF QhExecuted, QhChained
      <4> QED BY <2>1, <4>2, <4>5
    <3>3. CASE Qh!Enable
      <4>1. PICK d \in QtdItems : d \notin QhHalted' /\ \A i \in QtdItems \ {d} : qhQtd'[i] = qhQtd[i]
        BY <3>3, QhEnables
      <4>2. \A i \in QhHalted' \cap QhEnded' : i \in QhHalted \cap QhEnded
        BY <4>1 DEF QhHalted, QhEnded
      <4> QED BY <2>1, <3>3, <4>2 DEF Qh!Enable, QhChained
    <3>4. CASE ~Qh!LookRetry /\ ~Qh!HwDone /\ ~Qh!Enable
      <4>1. UNCHANGED <<qhQtd, qhRan>>
        BY <1>3, <3>4 DEF Qh!Next, Qh!SubmitNoMem, Qh!SubmitNoRoom, Qh!HwLoad, Qh!Scan,
                Qh!LookEnd, Qh!QhFree, Qh!Look, Qh!Unlink
      <4> QED BY <2>1, <4>1 DEF QhChained, QhHalted, QhEnded
    <3> QED BY <3>1, <3>2, <3>3, <3>4
  <2> QED BY <2>2, <2>3, <2>4, <2>5 DEF QhChained, QhLinked
<1> QED BY <1>1, <1>2, <1>3

\* Where the handler is, and what it leaves.
LEMMA QhHandles ==
    ASSUME QtdParams, QtdInv, Qh!Next
    PROVE  QhHandled'
<1> USE DEF QtdInv
<1>1. ASSUME NEW n \in 1 .. TrpQtds, Qh!Submit(n)
      PROVE  QhHandled'
  <2>1. n \in Nat \ {0}
    BY DEF QtdParams
  <2>2. qhList' # <<>>
    BY <1>1, <2>1, QhLonger
  <2>3. qhState' = "LINKED" /\ qhScan' = qhScan /\ qhScan.at = "idle"
    BY <1>1 DEF Qh!Submit, Qh!Unlocked
  <2> QED BY <2>2, <2>3 DEF QhHandled
<1>2. CASE Qh!Enable
  <2>1. qhState' = "IDLE" /\ qhScan.at = "idle" /\ qhState = "NONE" /\ UNCHANGED <<qhList, qhScan>>
    BY <1>2 DEF Qh!Enable, Qh!Unlocked
  <2> QED BY <1>2, <2>1, QhEnables DEF QhHandled
<1>3. CASE Qh!Scan
  <2>1. qhState = "LINKED" /\ UNCHANGED <<qhState, qhDummy, qhList, qhOv>>
    BY <1>3 DEF Qh!Scan
  <2> QED BY <1>3, <2>1, QhScans DEF QhHandled
<1>4. ASSUME NEW then \in {"NONE", "UNLINKED"}, Qh!Unlink(then)
      PROVE  QhHandled'
  <2>1. /\ qhState' # "NONE" /\ UNCHANGED <<qhDummy, qhList, qhOv>>
    BY <1>4 DEF Qh!Unlink
  <2>2. qhScan'.at = "look" /\ ~qhScan'.work
    BY <1>4, QhScans
  <2> QED BY <2>1, <2>2 DEF QhHandled
<1>5. CASE Qh!Look
  <2>1. UNCHANGED <<qhState, qhDummy, qhList, qhOv>>
    BY <1>5 DEF Qh!Look
  <2> QED BY <1>5, <2>1, QhLooks DEF QhHandled
<1>6. CASE Qh!LookRetry
  <2>1. UNCHANGED <<qhState, qhDummy, qhList>> /\ qhOv'.next = qhOv.next
    BY <1>6, QhRetries DEF Qh!LookRetry, QhTriedAgain
  <2> QED BY <1>6, <2>1, QhLooksAgain DEF QhHandled
<1>7. CASE Qh!Cut
  <2>1. PICK h : h = Head(qhList)
    OBVIOUS
  <2>2. /\ In(qhList') = In(qhList) \ {h} /\ qhOv'.next = QhNext(h) /\ h \in In(qhList)
        /\ qhScan'.at = "look" /\ qhScan'.work = qhScan.work /\ qhScan.at = "cut"
    BY <1>7, <2>1, QhCuts
  <2>3. UNCHANGED <<qhState, qhDummy>>
    BY <1>7 DEF Qh!Cut
  <2>4. qhList' = <<>> => QhNext(h) = 0
    <3>1. ASSUME qhList' = <<>>, QhNext(h) # 0 PROVE FALSE
      <4>1. QhNext(h) \in In(qhList) /\ QhNo(h) < QhNo(QhNext(h)) /\ QhNo(h) \in Nat
        BY <2>2, <3>1, QhOrder DEF QhChained
      <4>2. QhNext(h) # h
        BY <4>1
      <4>3. In(qhList') = {}
        BY <3>1 DEF In
      <4> QED BY <2>2, <4>1, <4>2, <4>3
    <3> QED BY <3>1
  <2> QED BY <2>2, <2>3, <2>4 DEF QhHandled
<1>8. CASE Qh!LookEnd
  <2>1. UNCHANGED <<qhState, qhDummy, qhList, qhOv>> /\ qhList = <<>>
    BY <1>8 DEF Qh!LookEnd
  <2> QED BY <1>8, <2>1, QhScans DEF QhHandled
<1>9. CASE Qh!QhFree
  <2>1. /\ UNCHANGED <<qhList, qhOv>> /\ qhDummy' = 0 /\ qhScan.at = "free"
    BY <1>9 DEF Qh!QhFree, Qh!Null
  <2> QED BY <1>9, <2>1, QhScans DEF QhHandled
<1>10. CASE Qh!HwLoad
  <2>1. UNCHANGED <<qhState, qhDummy, qhList, qhScan>> /\ qhOv.next # 0
    BY <1>10 DEF Qh!HwLoad, Qh!Null
  <2> QED BY <2>1 DEF QhHandled
<1>11. CASE Qh!HwDone
  <2>1. UNCHANGED <<qhState, qhDummy, qhList, qhScan>> /\ qhOv'.next = qhOv.next
    BY <1>11, QhExecutes DEF Qh!HwDone, QhExecuted
  <2> QED BY <2>1 DEF QhHandled
<1>12. ASSUME NEW n \in 1 .. TrpQtds, Qh!SubmitNoMem(n) \/ Qh!SubmitNoRoom(n)
       PROVE  QhHandled'
  <2>1. UNCHANGED <<qhState, qhDummy, qhList, qhScan, qhOv>>
    BY <1>12 DEF Qh!SubmitNoMem, Qh!SubmitNoRoom
  <2> QED BY <2>1 DEF QhHandled
<1> QED BY <1>1, <1>2, <1>3, <1>4, <1>5, <1>6, <1>7, <1>8, <1>9, <1>10, <1>11, <1>12 DEF Qh!Next

\* The controller keeps to the queue through each step of the handler ...
LEMMA QhHandlerLinked ==
    ASSUME QtdParams, QtdInv, (qhState = "LINKED" /\ ~qhResumed)',
           Qh!Scan \/ Qh!Look \/ Qh!LookRetry \/ Qh!Cut \/ Qh!LookEnd
    PROVE  HwWorks' /\ HwGoes' /\ HwStops'
<1> USE DEF QtdInv
<1>0. /\ qhState = "LINKED" /\ ~qhResumed /\ HwWorks /\ HwGoes /\ HwStops
      /\ \A i \in In(qhList) : i \in QtdItems /\ QhNo(i) \in Nat
  <2>1. UNCHANGED <<qhState, qhResumed>>
    BY DEF Qh!Scan, Qh!Look, Qh!LookRetry, Qh!Cut, Qh!LookEnd
  <2> QED BY <2>1, QhOrder DEF HwLinked
<1>1. CASE Qh!Scan \/ Qh!Look \/ Qh!LookEnd
  <2>1. UNCHANGED <<qhList, qhQtd, qhOv, qhRan>>
    BY <1>1 DEF Qh!Scan, Qh!Look, Qh!LookEnd
  <2>2. HwWorks' /\ HwGoes'
    BY <1>0, <2>1 DEF HwWorks, HwGoes, QhBusy, QhActive, QhHalted, QhNo, QhIoc
  <2>3. /\ QhActive' = QhActive /\ QhHalted' = QhHalted /\ QhEnded' = QhEnded /\ QhIoc' = QhIoc
        /\ (OvStopped' <=> OvStopped)
    BY <2>1 DEF QhActive, QhHalted, QhEnded, QhIoc, OvStopped
  <2>4. CASE Qh!Scan \/ Qh!LookEnd
    <3>1. qhList = <<>> => In(qhList) = {}
      BY DEF In
    <3>2. \/ qhList = <<>> /\ qhScan'.at \in {"idle", "free"}
          \/ qhScan'.at = "look" /\ qhScan'.work
      BY <2>4, QhScans DEF Qh!LookEnd
    <3> QED BY <1>0, <2>1, <2>2, <2>3, <3>1, <3>2 DEF HwStops
  <2>5. CASE Qh!Look
    <3>1. PICK h : h = Head(qhList)
      OBVIOUS
    <3>2. /\ h \in In(qhList) /\ h \notin In(Tail(qhList)) /\ h \in QtdItems
          /\ In(Tail(qhList)) \subseteq In(qhList) /\ qhList # <<>>
      BY <1>0, <2>5, <3>1, QhLooks, SeqTail DEF QtdPlaces
    <3>3. qhIrq' = qhIrq
      BY <2>5 DEF Qh!Look
    <3>4. CASE h \in QhActive /\ qhScan.work /\ qhScan'.at = "idle"
      <4>1. \A i \in In(qhList) : i \in QhActive
        BY <1>0, <3>1, <3>2, <3>4, QhOrder DEF HwWorks
      <4> QED BY <1>0, <2>1, <2>2, <2>3, <3>4, <4>1 DEF HwStops
    <3>5. CASE /\ ~(h \in QhActive /\ qhScan.work) /\ qhScan'.at = "cut"
               /\ (qhScan'.work <=> qhScan.work /\ h \notin QhHalted /\ h \notin QhEnded)
      <4>1. qhScan.at = "look"
        BY <2>5, QhLooks
      <4>2. CASE qhScan'.work
        BY <1>0, <2>1, <2>2, <2>3, <3>1, <3>5, <4>2 DEF HwStops
      <4>3. CASE ~qhScan'.work
        <5>1. ~qhOv.active /\ OvStopped /\ qhOv.cur \notin In(Tail(qhList))
          BY <1>0, <3>2, <3>5, <4>1, <4>3 DEF HwStops
        <5> QED BY <1>0, <2>1, <2>2, <2>3, <3>5, <4>3, <5>1 DEF HwStops
      <4> QED BY <4>2, <4>3
    <3>6. \/ h \in QhActive /\ qhScan.work /\ qhScan'.at = "idle"
          \/ /\ ~(h \in QhActive /\ qhScan.work) /\ qhScan'.at = "cut"
             /\ (qhScan'.work <=> qhScan.work /\ h \notin QhHalted /\ h \notin QhEnded)
      BY <2>5, <3>1, <3>2, QhLooks, Zenon DEF QhActive, QhHalted, QhEnded
    <3> QED BY <3>4, <3>5, <3>6
  <2> QED BY <1>1, <2>4, <2>5
<1>2. CASE Qh!LookRetry
  <2>1. PICK h : QhTriedAgain(h)
    BY <1>2, QhRetries
  <2>2. h \in In(qhList) /\ h \in QtdItems /\ h \in QhHalted /\ h = Head(qhList)
    BY <1>0, <2>1 DEF QhTriedAgain
  <2>3. /\ qhOv.cur = h /\ ~qhOv.active /\ OvStopped /\ (qhOv.alt <=> qhQtd[h].alt)
        /\ h \notin QhEnded /\ qhScan.at = "look"
    BY <1>0, <1>2, <2>2, QhLooksAgain DEF HwStops, QhChained
  <2>4. qhScan'.at = "idle"
    BY <1>0, <1>2, <2>2, <2>3, QhLooksAgain DEF HwStops
  <2>5. \A i \in In(qhList) : i # h => i \in QhActive /\ QhNo(h) < QhNo(i)
    <3>1. \A i \in In(qhList) : i # h => QhNo(h) < QhNo(i)
      BY <1>2, <2>2, QhOrder, QhLooksAgain
    <3> QED BY <1>0, <2>2, <3>1 DEF HwWorks
  <2>6. /\ qhList' = qhList /\ QhActive' = QhActive \cup {h} /\ QhHalted' = QhHalted \ {h}
        /\ \A i \in In(qhList) : /\ QhNo(i)' = QhNo(i) /\ (i \in QhIoc' <=> i \in QhIoc)
                                 /\ (i \in QhEnded' <=> i \in QhEnded)
        /\ qhQtd'[h].alt = qhQtd[h].alt /\ qhRan' = QhNo(h) - 1
        /\ qhOv'.cur = h /\ qhOv'.next = qhOv.next /\ qhOv'.alt = qhOv.alt /\ qhOv'.active
    BY <1>0, <2>1, <2>2, <2>3 DEF QhTriedAgain
  <2>7. HwWorks'
    <3>1. (qhOv.active => qhOv.cur \in QhBusy /\ (qhOv.alt <=> qhQtd[qhOv.cur].alt))'
      <4>1. PICK x : x = qhOv'.cur
        OBVIOUS
      <4> QED BY <2>2, <2>3, <2>6 DEF QhBusy
    <3>2. \A i \in QhBusy' : QhNo(h) <= QhNo(i) /\ QhNo(i) \in Nat /\ QhNo(i)' = QhNo(i)
      BY <1>0, <2>2, <2>5, <2>6 DEF QhBusy
    <3>3. QhNo(h)' = QhNo(h) /\ QhNo(h) \in Nat
      BY <1>0, <2>2, <2>6
    <3>4. \A i \in QhBusy' : QhNo(qhOv.cur)' <= QhNo(i)'
      <4>1. QhNo(qhOv.cur)' = QhNo(h)'
        BY <2>6 DEF QhNo
      <4> QED BY <3>2, <3>3, <4>1
    <3>5. \A i \in QhBusy' : qhRan' < QhNo(i)'
      BY <2>6, <3>2, <3>3
    <3>6. \A i \in In(qhList') : i \in QhActive'
      BY <2>5, <2>6
    <3> QED BY <3>1, <3>4, <3>5, <3>6 DEF HwWorks
  <2>8. HwGoes'
    <3>1. PICK x : x = qhOv.next
      OBVIOUS
    <3>2. qhOv'.next = x /\ (x # 0 => x \in In(qhList))
      BY <1>0, <2>6, <3>1 DEF HwGoes
    <3>3. ASSUME x # 0, NEW i \in QhBusy', i # h
          PROVE  QhNo(x)' <= QhNo(i)'
      <4>1. i \in QhBusy /\ i \in In(qhList)
        BY <2>6, <3>3 DEF QhBusy
      <4>2. QhNo(x) <= QhNo(i)
        BY <1>0, <2>3, <3>1, <3>3, <4>1 DEF HwGoes
      <4> QED BY <2>6, <3>2, <3>3, <4>1, <4>2
    <3>4. qhList # <<>> /\ x = 0 => h \in QhIoc
      BY <1>0, <2>3, <3>1 DEF HwGoes
    <3>5. QhNo(qhOv.next)' = QhNo(x)'
      BY <3>2 DEF QhNo
    <3> QED BY <2>2, <2>6, <3>2, <3>3, <3>4, <3>5 DEF HwGoes
  <2>9. HwStops'
    <3>1. \A i \in In(qhList') : i \notin QhHalted' \cup QhEnded'
      <4>1. \A i \in In(qhList) : i # h => i \notin QhHalted \cup QhEnded
        BY <1>0, <2>3 DEF HwStops
      <4> QED BY <2>3, <2>6, <4>1
    <3> QED BY <2>4, <2>5, <2>6, <3>1 DEF HwStops
  <2> QED BY <2>7, <2>8, <2>9
<1>3. CASE Qh!Cut
  <2>1. PICK h : h = Head(qhList)
    OBVIOUS
  <2>2. /\ qhScan.at = "cut" /\ qhList # <<>> /\ qhList' = Tail(qhList) /\ h \in In(qhList)
        /\ In(qhList') = In(qhList) \ {h}
        /\ qhScan'.at = "look" /\ qhScan'.work = qhScan.work
        /\ qhOv'.next = QhNext(h) /\ qhOv'.cur = qhOv.cur
        /\ qhOv'.active = qhOv.active /\ qhOv'.alt = qhOv.alt
        /\ qhOv'.short = qhOv.short /\ qhOv'.halt = qhOv.halt
    BY <1>3, <2>1, QhCuts
  <2>3. UNCHANGED <<qhQtd, qhRan>>
    BY <1>3 DEF Qh!Cut
  <2>4. /\ QhActive' = QhActive /\ QhHalted' = QhHalted /\ QhEnded' = QhEnded /\ QhIoc' = QhIoc
        /\ \A i : QhNo(i)' = QhNo(i)
        /\ (OvStopped' <=> OvStopped) /\ QhBusy' = QhBusy \ {h}
    <3>1. QhActive' = QhActive /\ QhHalted' = QhHalted /\ QhEnded' = QhEnded /\ QhIoc' = QhIoc
      BY <2>3 DEF QhActive, QhHalted, QhEnded, QhIoc
    <3>2. \A i : QhNo(i)' = QhNo(i)
      BY <2>3 DEF QhNo
    <3>3. OvStopped' <=> OvStopped
      BY <2>2, Zenon DEF OvStopped
    <3> QED BY <2>2, <3>1, <3>2, <3>3 DEF QhBusy
  <2>5. qhOv.active => qhOv.cur \in QhBusy'
    <3>1. ASSUME qhOv.active PROVE qhOv.cur \in QhBusy /\ qhScan.work /\ h \notin QhActive
      BY <1>0, <2>1, <2>2, <3>1 DEF HwWorks, HwStops
    <3> QED BY <2>4, <3>1 DEF QhBusy
  <2>6. HwWorks'
    <3>1. PICK x : x = qhOv.cur
      OBVIOUS
    <3>2. qhOv.active => /\ x \in QhBusy' /\ (qhOv.alt <=> qhQtd[x].alt)
                         /\ \A i \in QhBusy : QhNo(x) <= QhNo(i)
      BY <1>0, <2>5, <3>1 DEF HwWorks
    <3>3. QhNo(qhOv.cur)' = QhNo(x)
      BY <2>2, <2>3, <3>1 DEF QhNo
    <3>4. (qhOv.active => qhOv.cur \in QhBusy /\ (qhOv.alt <=> qhQtd[qhOv.cur].alt))'
      BY <2>2, <2>3, <3>1, <3>2
    <3>5. qhOv'.active => \A i \in QhBusy' : QhNo(qhOv.cur)' <= QhNo(i)'
      BY <2>2, <2>4, <3>2, <3>3
    <3>6. /\ \A i \in QhBusy' : qhRan' < QhNo(i)'
          /\ \A i, j \in In(qhList') : i \in QhActive' \cup QhHalted' /\ QhNo(i)' < QhNo(j)' => j \in QhActive'
      BY <1>0, <2>2, <2>3, <2>4 DEF HwWorks
    <3> QED BY <3>4, <3>5, <3>6 DEF HwWorks
  <2>7. HwGoes'
    <3>1. PICK x : x = QhNext(h)
      OBVIOUS
    <3>2. /\ x = 0 => \A j \in In(qhList) : QhNo(j) <= QhNo(h)
          /\ x # 0 =>
               /\ x \in In(qhList) /\ QhNo(h) < QhNo(x)
               /\ \A j \in In(qhList) : QhNo(h) < QhNo(j) => QhNo(x) <= QhNo(j)
      BY <2>2, <3>1 DEF QhChained
    <3>3. \A j \in In(qhList) : j # h => QhNo(h) < QhNo(j)
      BY <2>1, <2>2, QhOrder
    <3>4. QhNo(h) \in Nat
      BY <1>0, <2>2
    <3>5. x = 0 => qhList' = <<>>
      <4>1. x = 0 => In(qhList') = {}
        BY <1>0, <2>2, <3>2, <3>3, <3>4
      <4>2. In(qhList') = {} => qhList' = <<>>
        <5>1. qhList' \in Seq(QtdItems)
          BY <2>2, SeqTail DEF QtdPlaces
        <5>2. qhList' # <<>> => qhList'[1] \in In(qhList')
          BY <5>1 DEF In
        <5> QED BY <5>2
      <4> QED BY <4>1, <4>2
    <3>6. x # 0 => x \in In(qhList') /\ \A i \in QhBusy' : QhNo(x)' <= QhNo(i)'
      <4>1. x # 0 => x # h /\ x \in In(qhList)
        BY <3>2, <3>4
      <4>2. x # 0 => \A i \in QhBusy' : QhNo(x) <= QhNo(i)
        BY <2>2, <2>4, <3>2, <3>3 DEF QhBusy
      <4> QED BY <2>2, <2>4, <4>1, <4>2
    <3>7. qhOv'.next = x /\ QhNo(qhOv.next)' = QhNo(x)'
      BY <2>2, <3>1 DEF QhNo
    <3> QED BY <3>5, <3>6, <3>7 DEF HwGoes
  <2>8. HwStops'
    <3>1. \A i \in In(qhList') \cap (QhHalted' \cup QhEnded') :
             qhOv'.cur = i /\ ~qhOv'.active /\ OvStopped' /\ (qhOv'.alt <=> qhQtd'[i].alt)
      BY <1>0, <2>2, <2>3, <2>4 DEF HwStops
    <3>2. ~qhScan'.work => ~qhOv'.active /\ OvStopped' /\ qhOv'.cur \notin In(qhList')
      BY <1>0, <2>2, <2>4 DEF HwStops
    <3> QED BY <2>2, <3>1, <3>2 DEF HwStops
  <2> QED BY <2>6, <2>7, <2>8
<1> QED BY <1>1, <1>2, <1>3

\* ... through those of the controller ...
LEMMA QhControllerLinked ==
    ASSUME QtdParams, QtdInv, (qhState = "LINKED" /\ ~qhResumed)', Qh!HwLoad \/ Qh!HwDone
    PROVE  HwWorks' /\ HwGoes' /\ HwStops'
<1> USE DEF QtdInv
<1>0. /\ qhState = "LINKED" /\ ~qhResumed /\ HwWorks /\ HwGoes /\ HwStops
      /\ UNCHANGED <<qhList, qhScan>>
      /\ \A i \in In(qhList) : i \in QtdItems /\ QhNo(i) \in Nat
      /\ \A i, j \in In(qhList) : i # j => QhNo(i) # QhNo(j)
  <2>1. UNCHANGED <<qhState, qhResumed, qhList, qhScan>>
    BY DEF Qh!HwLoad, Qh!HwDone
  <2> QED BY <2>1, QhOrder DEF HwLinked
<1>1. CASE Qh!HwLoad
  <2>1. PICK c : c = qhOv.next
    OBVIOUS
  <2>2. /\ c \in QhActive /\ qhOv'.cur = c /\ qhOv'.next = QhNext(c)
        /\ (qhOv'.alt <=> qhQtd[c].alt) /\ qhOv'.active /\ ~qhOv.active /\ ~OvStopped /\ c # 0
        /\ UNCHANGED <<qhQtd, qhRan, qhIrq>>
    BY <1>1, <2>1, QhLoads DEF Qh!HwLoad, Qh!Null
  <2>3. /\ QhActive' = QhActive /\ QhHalted' = QhHalted /\ QhEnded' = QhEnded /\ QhIoc' = QhIoc
        /\ \A i : QhNo(i)' = QhNo(i)
        /\ QhBusy' = QhBusy
    BY <1>0, <2>2 DEF QhActive, QhHalted, QhEnded, QhIoc, QhNo, QhBusy
  <2>4. c \in In(qhList) /\ c \in QhBusy /\ \A i \in QhBusy : QhNo(c) <= QhNo(i)
    BY <1>0, <2>1, <2>2 DEF HwGoes, QhBusy
  <2>5. HwWorks'
    <3>1. (qhOv.active => qhOv.cur \in QhBusy /\ (qhOv.alt <=> qhQtd[qhOv.cur].alt))'
      BY <2>2, <2>3, <2>4
    <3>2. QhNo(qhOv.cur)' = QhNo(c)
      BY <2>2 DEF QhNo
    <3>3. \A i \in QhBusy' : QhNo(qhOv.cur)' <= QhNo(i)' /\ qhRan' < QhNo(i)'
      BY <1>0, <2>2, <2>3, <2>4, <3>2 DEF HwWorks
    <3>4. \A i, j \in In(qhList') : i \in QhActive' \cup QhHalted' /\ QhNo(i)' < QhNo(j)' => j \in QhActive'
      BY <1>0, <2>3 DEF HwWorks
    <3> QED BY <3>1, <3>3, <3>4 DEF HwWorks
  <2>6. HwGoes'
    <3>1. PICK x : x = QhNext(c)
      OBVIOUS
    <3>2. /\ x = 0 => c \in QhIoc
          /\ x # 0 =>
               /\ x \in In(qhList)
               /\ \A j \in In(qhList) : QhNo(c) < QhNo(j) => QhNo(x) <= QhNo(j)
      BY <2>4, <3>1 DEF QhChained
    <3>3. \A i \in QhBusy : i # c => i \in In(qhList) /\ QhNo(c) < QhNo(i)
      <4>1. \A i \in QhBusy : i # c => /\ i \in In(qhList) /\ QhNo(c) <= QhNo(i) /\ QhNo(c) # QhNo(i)
                                       /\ QhNo(c) \in Nat /\ QhNo(i) \in Nat
        BY <1>0, <2>4 DEF QhBusy
      <4> QED BY <4>1
    <3>4. x # 0 => \A i \in QhBusy' : i = c \/ QhNo(x)' <= QhNo(i)'
      BY <2>3, <3>2, <3>3
    <3>5. qhOv'.next = x /\ QhNo(qhOv.next)' = QhNo(x)'
      BY <2>2, <3>1 DEF QhNo
    <3> QED BY <1>0, <2>2, <2>3, <2>4, <3>2, <3>4, <3>5 DEF HwGoes
  <2>7. HwStops'
    <3>1. \A i \in In(qhList') : i \notin QhHalted' \cup QhEnded'
      BY <1>0, <2>2, <2>3 DEF HwStops
    <3>2. qhScan.at \in {"look", "cut"} => qhScan.work
      BY <1>0, <2>2 DEF HwStops
    <3> QED BY <1>0, <2>2, <2>3, <3>1, <3>2 DEF HwStops
  <2> QED BY <2>5, <2>6, <2>7
<1>2. CASE Qh!HwDone
  <2>1. PICK c, end : QhExecuted(c, end)
    BY <1>2, QhExecutes
  <2>2. /\ c = qhOv.cur /\ qhOv.active /\ qhRan' = QhNo(c)
        /\ \A i \in QtdItems : /\ QhNo(i)' = QhNo(i) /\ qhQtd'[i].alt = qhQtd[i].alt
                               /\ (i \in QhIoc' <=> i \in QhIoc)
        /\ QhActive' = QhActive \ {c}
        /\ \A i \in QtdItems \ {c} : /\ i \in QhHalted' <=> i \in QhHalted
                                     /\ i \in QhEnded' <=> i \in QhEnded
        /\ c \in QhHalted' <=> end = "halt"
        /\ c \in QhEnded' <=> end = "short" /\ qhQtd[c].alt
        /\ qhOv'.cur = c /\ qhOv'.next = qhOv.next /\ qhOv'.alt = qhOv.alt /\ ~qhOv'.active
        /\ (qhOv'.halt <=> end = "halt") /\ (qhOv'.short <=> end = "short")
        /\ qhIrq' <=> qhIrq \/ end # "whole" \/ c \in QhIoc
        /\ end \in {"whole", "short", "halt"}
    BY <2>1 DEF QhExecuted
  <2>3. /\ c \in QhBusy /\ c \in In(qhList) /\ c \in QtdItems /\ (qhOv.alt <=> qhQtd[c].alt)
        /\ \A i \in QhBusy : QhNo(c) <= QhNo(i)
    BY <1>0, <2>2 DEF HwWorks, QhBusy
  <2>4. QhBusy' = QhBusy \ {c} /\ \A i \in QhBusy' : i \in In(qhList) /\ i \in QhBusy /\ i # c /\ QhNo(c) < QhNo(i)
    <3>1. QhBusy' = QhBusy \ {c}
      BY <1>0, <2>2 DEF QhBusy
    <3>2. \A i \in QhBusy \ {c} : /\ i \in In(qhList) /\ QhNo(c) <= QhNo(i) /\ QhNo(c) # QhNo(i)
                                  /\ QhNo(c) \in Nat /\ QhNo(i) \in Nat
      BY <1>0, <2>3 DEF QhBusy
    <3> QED BY <3>1, <3>2
  <2>5. \A i \in In(qhList) : i \notin QhHalted \cup QhEnded
    BY <1>0, <2>2 DEF HwStops
  <2>6. HwWorks'
    <3>1. \A i \in QhBusy' : qhRan' < QhNo(i)'
      BY <1>0, <2>2, <2>4
    <3>2. ASSUME NEW i \in In(qhList), NEW j \in In(qhList), i \in QhActive' \cup QhHalted',
                 QhNo(i)' < QhNo(j)'
          PROVE  j \in QhActive'
      <4>1. i \in QhActive
        BY <1>0, <2>2, <2>3, <2>5, <3>2 DEF QhBusy
      <4>2. QhNo(i) < QhNo(j) /\ j \in QhActive
        BY <1>0, <2>2, <3>2, <4>1 DEF HwWorks
      <4>3. j # c
        <5>1. QhNo(c) <= QhNo(i)
          BY <2>3, <4>1 DEF QhBusy
        <5> QED BY <1>0, <2>3, <4>2, <5>1
      <4> QED BY <2>2, <4>2, <4>3
    <3> QED BY <1>0, <2>2, <3>1, <3>2 DEF HwWorks
  <2>7. HwGoes'
    <3>1. PICK x : x = qhOv.next
      OBVIOUS
    <3>2. x # 0 => /\ x \in In(qhList)
                   /\ \A i \in QhBusy' : QhNo(x) <= QhNo(i)
      BY <1>0, <2>2, <2>4, <3>1 DEF HwGoes
    <3>3. qhList # <<>> /\ x = 0 => c \in QhIoc
      BY <1>0, <2>2, <3>1 DEF HwGoes
    <3>4. qhOv'.next = x /\ QhNo(qhOv.next)' = QhNo(x)'
      BY <2>2, <3>1 DEF QhNo
    <3>5. x # 0 => \A i \in QhBusy' : QhNo(x)' <= QhNo(i)'
      BY <1>0, <2>2, <2>4, <3>2
    <3> QED BY <1>0, <2>2, <2>3, <3>2, <3>3, <3>4, <3>5 DEF HwGoes
  <2>8. HwStops'
    <3>1. ASSUME NEW i \in In(qhList), i \in QhHalted' \cup QhEnded'
          PROVE  i = c /\ OvStopped' /\ (qhOv'.alt <=> qhQtd'[i].alt)
      <4>1. i = c
        BY <1>0, <2>2, <2>5, <3>1
      <4>2. OvStopped'
        <5>1. end = "halt" \/ (end = "short" /\ qhQtd[c].alt)
          BY <2>2, <3>1, <4>1
        <5> QED BY <2>2, <2>3, <5>1, Zenon DEF OvStopped
      <4>3. qhOv'.alt <=> qhQtd'[c].alt
        BY <2>2, <2>3
      <4> QED BY <4>1, <4>2, <4>3
    <3>2. qhScan.at \in {"look", "cut"} => qhScan.work
      BY <1>0, <2>2 DEF HwStops
    <3>3. qhScan.at = "cut" => Head(qhList) \notin QhActive'
      BY <1>0, <2>2, <3>2 DEF HwStops
    <3>4. qhScan.at = "idle" /\ ~qhIrq' => In(qhList) \cap QhIoc' \subseteq QhActive'
      <4> SUFFICES ASSUME qhScan.at = "idle", ~qhIrq', NEW i \in In(qhList), i \in QhIoc'
                   PROVE  i \in QhActive'
        OBVIOUS
      <4>1. ~qhIrq /\ c \notin QhIoc /\ i \in QhIoc
        BY <1>0, <2>2
      <4>2. i \in QhActive /\ i # c
        BY <1>0, <4>1 DEF HwStops
      <4> QED BY <2>2, <4>2
    <3> QED BY <1>0, <2>2, <3>1, <3>2, <3>3, <3>4 DEF HwStops
  <2> QED BY <2>6, <2>7, <2>8
<1> QED BY <1>1, <1>2

\* ... and through a request.
LEMMA QhRequestLinked ==
    ASSUME QtdParams, QtdInv, (qhState = "LINKED" /\ ~qhResumed)',
           NEW n \in Nat \ {0}, Qh!Submit(n)
    PROVE  HwWorks' /\ HwGoes' /\ HwStops'
<1> USE DEF QtdInv
<1>1. PICK c : /\ QhAdded(c, n) /\ c[1] = qhFree[1] /\ c[1] \in In(c)
               /\ In(qhList') = In(qhList) \cup In(c) /\ qhList' # <<>>
               /\ \A i \in In(qhList) : i \in QtdItems \ In(c) /\ QhNo(i)' = QhNo(i)
               /\ \A i \in In(c) : /\ i \in QtdItems /\ QhNo(i)' \in Nat /\ qhMade < QhNo(i)'
                                   /\ QhNo(c[1])' <= QhNo(i)'
  BY QhLonger
<1>2. PICK f \in QtdItems : f = c[1]
  BY <1>1
<1>3. /\ qhOv' \in OvRecs /\ qhOv'.next = (IF qhList = <<>> THEN f ELSE qhOv.next)
      /\ qhOv'.cur = qhOv.cur
      /\ qhState = "LINKED" => qhOv' = [qhOv EXCEPT !.next = qhOv'.next]
      /\ qhState # "LINKED" /\ (~qhOv.active \/ qhKind # "intr") => ~qhOv'.active
  <2>1. f \in QtdRef /\ qhOv' = Qh!Relinked(f)
    BY <1>1, <1>2 DEF Qh!Submit, QtdRef
  <2> QED BY <2>1, QhRelinks
<1>4. /\ UNCHANGED <<qhScan, qhIrq, qhRan>> /\ qhScan.at = "idle" /\ qhMade \in Nat
      /\ qhRan \in Nat /\ qhRan <= qhMade /\ ~qhResumed
      /\ qhState # "LINKED" => ~qhOv.active \/ qhKind # "intr"
      /\ f # 0
  <2>1. /\ UNCHANGED <<qhScan, qhIrq, qhRan>> /\ qhScan.at = "idle"
        /\ qhResumed' = (qhResumed \/ (qhState # "LINKED" /\ qhKind = "intr" /\ qhOv.active))
    BY DEF Qh!Submit, Qh!Unlocked
  <2>2. ~qhResumed /\ (qhState # "LINKED" => ~qhOv.active \/ qhKind # "intr")
    BY <2>1, Zenon
  <2> QED BY <1>2, <2>1, <2>2 DEF QtdTypes, QhChained, QtdParams
<1>5. /\ \A i \in In(c) : i \in QhActive' /\ i \notin QhHalted' \cup QhEnded'
      /\ \A i \in In(qhList) :
           /\ (i \in QhActive' <=> i \in QhActive) /\ (i \in QhHalted' <=> i \in QhHalted)
           /\ (i \in QhEnded' <=> i \in QhEnded) /\ (i \in QhIoc' <=> i \in QhIoc)
           /\ qhQtd'[i].alt = qhQtd[i].alt
  <2>1. \A i \in In(c) : \E k \in 1 .. n : i = c[k]
    BY <1>1 DEF QhAdded, In
  <2>2. \A k \in 1 .. n : c[k] \in QhActive' /\ c[k] \notin QhHalted' \cup QhEnded'
    BY <1>1 DEF QhAdded
  <2> QED BY <1>1, <2>1, <2>2 DEF QhAdded
<1>6. /\ \A i \in In(qhList) : QhNo(i) \in Nat /\ QhNo(i) <= qhMade
      /\ QhBusy' = QhBusy \cup In(c)
  BY <1>1, <1>5, QhOrder DEF QhBusy
<1>7. CASE qhList = <<>>
  <2>1. In(qhList) = {} /\ QhBusy' = In(c) /\ In(qhList') = In(c)
    <3>1. In(qhList) = {}
      <4>1. Len(qhList) = 0
        BY <1>7
      <4> QED BY <4>1 DEF In
    <3>2. QhBusy = {}
      BY <3>1 DEF QhBusy
    <3> QED BY <1>1, <1>6, <3>1, <3>2
  <2>2. ~qhOv'.active
    <3>1. CASE qhState = "LINKED"
      <4>1. ~qhOv.active
        BY <1>4, <2>1, <3>1 DEF HwLinked, HwWorks, QhBusy
      <4>2. qhOv'.active = qhOv.active
        BY <1>3, <3>1 DEF QtdTypes, OvRecs
      <4> QED BY <4>1, <4>2
    <3>2. CASE qhState # "LINKED"
      BY <1>3, <1>4, <3>2
    <3> QED BY <3>1, <3>2
  <2>3. HwWorks'
    BY <1>1, <1>4, <1>5, <2>1, <2>2 DEF HwWorks
  <2>4. HwGoes'
    <3>1. qhOv'.next = f /\ QhNo(qhOv.next)' = QhNo(f)'
      BY <1>3, <1>7 DEF QhNo
    <3> QED BY <1>1, <1>2, <1>4, <2>1, <3>1 DEF HwGoes
  <2>5. HwStops'
    BY <1>4, <1>5, <2>1 DEF HwStops
  <2> QED BY <2>3, <2>4, <2>5
<1>8. CASE qhList # <<>>
  <2>1. qhState = "LINKED" /\ HwWorks /\ HwGoes /\ HwStops
    BY <1>4, <1>8 DEF QhHandled, HwLinked
  <2>2. qhOv' = qhOv
    BY <1>3, <1>8, <2>1 DEF QtdTypes, OvRecs
  <2>3. HwWorks'
    <3>1. PICK x : x = qhOv.cur
      OBVIOUS
    <3>2. qhOv.active => /\ x \in QhBusy /\ (qhOv.alt <=> qhQtd[x].alt) /\ x \in In(qhList)
                         /\ \A i \in QhBusy : QhNo(x) <= QhNo(i)
      BY <2>1, <3>1 DEF HwWorks, QhBusy
    <3>3. qhOv.active => \A i \in QhBusy' : QhNo(x)' <= QhNo(i)'
      <4> SUFFICES ASSUME qhOv.active, NEW i \in QhBusy' PROVE QhNo(x)' <= QhNo(i)'
        OBVIOUS
      <4>1. CASE i \in QhBusy
        BY <1>1, <3>2, <4>1 DEF QhBusy
      <4>2. CASE i \in In(c)
        BY <1>1, <1>4, <1>6, <3>2, <4>2
      <4> QED BY <1>6, <4>1, <4>2
    <3>4. (qhOv.active => qhOv.cur \in QhBusy /\ (qhOv.alt <=> qhQtd[qhOv.cur].alt))'
      BY <1>5, <1>6, <2>2, <3>1, <3>2
    <3>5. QhNo(qhOv.cur)' = QhNo(x)'
      BY <2>2, <3>1 DEF QhNo
    <3>6. \A i \in QhBusy' : qhRan' < QhNo(i)'
      <4> SUFFICES ASSUME NEW i \in QhBusy' PROVE qhRan' < QhNo(i)'
        OBVIOUS
      <4>1. CASE i \in QhBusy
        BY <1>1, <1>4, <2>1, <4>1 DEF QhBusy, HwWorks
      <4>2. CASE i \in In(c)
        BY <1>1, <1>4, <4>2
      <4> QED BY <1>6, <4>1, <4>2
    <3>7. ASSUME NEW i \in In(qhList'), NEW j \in In(qhList'), i \in QhActive' \cup QhHalted',
                 QhNo(i)' < QhNo(j)'
          PROVE  j \in QhActive'
      <4>1. CASE j \in In(c)
        BY <1>5, <4>1
      <4>2. CASE j \in In(qhList)
        <5>1. i \in In(qhList)
          <6>1. i \in In(c) => ~(QhNo(i)' < QhNo(j)')
            BY <1>1, <1>4, <1>6, <4>2
          <6> QED BY <1>1, <3>7, <6>1
        <5> QED BY <1>1, <1>5, <2>1, <3>7, <4>2, <5>1 DEF HwWorks
      <4> QED BY <1>1, <4>1, <4>2
    <3> QED BY <2>2, <3>3, <3>4, <3>5, <3>6, <3>7 DEF HwWorks
  <2>4. HwGoes'
    <3>1. PICK x : x = qhOv.next
      OBVIOUS
    <3>2. qhOv'.next = x /\ qhOv'.cur = qhOv.cur /\ qhOv'.active = qhOv.active /\ QhNo(qhOv.next)' = QhNo(x)'
      BY <2>2, <3>1 DEF QhNo
    <3>3. ASSUME x # 0, NEW i \in QhBusy'
          PROVE  (qhOv.active /\ i = qhOv.cur) \/ QhNo(x)' <= QhNo(i)'
      <4>1. x \in In(qhList)
        BY <2>1, <3>1, <3>3 DEF HwGoes
      <4>2. CASE i \in QhBusy
        BY <1>1, <2>1, <3>1, <3>3, <4>1, <4>2 DEF HwGoes, QhBusy
      <4>3. CASE i \in In(c)
        BY <1>1, <1>4, <1>6, <4>1, <4>3
      <4> QED BY <1>6, <4>2, <4>3
    <3>4. x # 0 => x \in In(qhList')
      BY <1>1, <2>1, <3>1 DEF HwGoes
    <3>5. x = 0 => qhOv.cur \in In(qhList') \cap QhIoc' /\ (qhOv.active \/ qhOv.cur \notin QhActive')
      BY <1>1, <1>5, <1>8, <2>1, <3>1 DEF HwGoes
    <3> QED BY <3>2, <3>3, <3>4, <3>5 DEF HwGoes
  <2>5. HwStops'
    <3>1. \A i \in In(qhList') \cap (QhHalted' \cup QhEnded') :
             qhOv'.cur = i /\ ~qhOv'.active /\ OvStopped' /\ (qhOv'.alt <=> qhQtd'[i].alt)
      <4>1. \A i \in In(qhList') \cap (QhHalted' \cup QhEnded') :
               i \in In(qhList) /\ i \in QhHalted \cup QhEnded /\ qhQtd'[i].alt = qhQtd[i].alt
        BY <1>1, <1>5
      <4>2. OvStopped' <=> OvStopped
        BY <2>2 DEF OvStopped
      <4> QED BY <2>1, <2>2, <4>1, <4>2 DEF HwStops
    <3>2. ~qhIrq => In(qhList') \cap QhIoc' \subseteq QhActive'
      BY <1>1, <1>4, <1>5, <2>1 DEF HwStops
    <3> QED BY <1>4, <3>1, <3>2 DEF HwStops
  <2> QED BY <2>3, <2>4, <2>5
<1> QED BY <1>7, <1>8

LEMMA QtdStep ==
    ASSUME QtdParams, QtdInv, Qh!Next
    PROVE  QtdInv'
<1>1. QtdTypes' /\ QtdPlaces' /\ QhChained' /\ QhHandled'
  BY QhTyped, QhPlaced, QhChains, QhHandles DEF QtdInv
<1>2. HwLinked'
  <2> SUFFICES ASSUME (qhState = "LINKED" /\ ~qhResumed)'
               PROVE  HwWorks' /\ HwGoes' /\ HwStops'
    BY DEF HwLinked
  <2>1. ASSUME NEW n \in 1 .. TrpQtds, Qh!Submit(n)
        PROVE  HwWorks' /\ HwGoes' /\ HwStops'
    <3>1. n \in Nat \ {0}
      BY DEF QtdParams
    <3> QED BY <2>1, <3>1, QhRequestLinked
  <2>2. ASSUME NEW n \in 1 .. TrpQtds, Qh!SubmitNoMem(n) \/ Qh!SubmitNoRoom(n)
        PROVE  HwWorks' /\ HwGoes' /\ HwStops'
    <3>1. UNCHANGED <<qhState, qhResumed, qhList, qhQtd, qhOv, qhRan, qhScan, qhIrq>>
      BY <2>2 DEF Qh!SubmitNoMem, Qh!SubmitNoRoom
    <3>2. HwWorks /\ HwGoes /\ HwStops
      BY <3>1 DEF QtdInv, HwLinked
    <3>3. QhActive' = QhActive /\ QhHalted' = QhHalted /\ QhEnded' = QhEnded /\ QhIoc' = QhIoc
          /\ (OvStopped' <=> OvStopped) /\ QhBusy' = QhBusy
      BY <3>1 DEF QhActive, QhHalted, QhEnded, QhIoc, OvStopped, QhBusy
    <3>4. HwWorks' /\ HwGoes'
      BY <3>1, <3>2, <3>3 DEF HwWorks, HwGoes, QhNo
    <3>5. HwStops'
      BY <3>1, <3>2, <3>3 DEF HwStops
    <3> QED BY <3>4, <3>5
  <2>3. CASE Qh!Enable \/ Qh!QhFree \/ \E then \in {"NONE", "UNLINKED"} : Qh!Unlink(then)
    BY <2>3 DEF Qh!Enable, Qh!QhFree, Qh!Unlink
  <2>4. CASE Qh!Scan \/ Qh!Look \/ Qh!LookRetry \/ Qh!Cut \/ Qh!LookEnd
    BY <2>4, QhHandlerLinked
  <2>5. CASE Qh!HwLoad \/ Qh!HwDone
    BY <2>5, QhControllerLinked
  <2> QED BY <2>1, <2>2, <2>3, <2>4, <2>5 DEF Qh!Next
<1> QED BY <1>1, <1>2 DEF QtdInv

LEMMA QtdStarts ==
    ASSUME QtdParams, Qh!Init
    PROVE  QtdInv
<1>1. /\ qhFree = Qh!SetToSeq(QtdItems) /\ qhCount = Qh!Cardinality(QtdItems)
      /\ qhState = "NONE" /\ qhDummy = 0 /\ qhList = <<>> /\ qhQtd = [i \in QtdItems |-> Qh!Blank]
      /\ qhOv = Qh!NoOv /\ qhIrq = FALSE /\ qhScan = Qh!AtRest /\ qhMade = 0 /\ qhRan = 0
      /\ qhLost = {} /\ qhResumed = FALSE
  BY DEF Qh!Init, Qh!Null
<1>2. qhFree \in Seq(QtdItems) /\ NoRepeat(qhFree) /\ In(qhFree) = QtdItems /\ qhCount = Len(qhFree)
  BY <1>1, QhPool, QhCard
<1>3. qhList \in Seq(QtdItems) /\ Len(qhList) = 0 /\ In(qhList) = {} /\ NoRepeat(qhList)
  BY <1>1 DEF In, NoRepeat
<1>4. QtdTypes
  BY <1>1, <1>2, QhRecs DEF QtdTypes, QtdRef
<1>5. QtdPlaces
  BY <1>1, <1>2, <1>3, QhRecs DEF QtdPlaces
<1>6. QhChained
  <2>1. \A i \in QtdItems : qhQtd[i].no = 0 /\ ~qhQtd[i].halt
    BY <1>1, QhRecs
  <2> QED BY <1>1, <1>3, <2>1 DEF QhChained, QhNo, QhHalted
<1>7. QhHandled
  BY <1>1, QhRecs DEF QhHandled
<1>8. HwLinked
  BY <1>1 DEF HwLinked
<1> QED BY <1>4, <1>5, <1>6, <1>7, <1>8 DEF QtdInv

LEMMA QtdPromises ==
    ASSUME QtdParams, QtdInv
    PROVE  Qh!PoolExact /\ Qh!HwInQueue /\ Qh!NotStranded
<1>1. /\ Qh!ToSet(qhFree) = In(qhFree) /\ Qh!ToSet(qhList) = In(qhList)
      /\ qhFree \in Seq(QtdItems) /\ qhList \in Seq(QtdItems)
  BY QhSeqs DEF QtdInv, QtdPlaces
<1>2. Qh!PoolExact
  <2>1. Qh!IsInjective(qhFree \o qhList)
    <3>1. PICK s \in Seq(QtdItems), u \in Seq(QtdItems) :
             s = qhFree /\ u = qhList /\ NoRepeat(s) /\ NoRepeat(u) /\ In(s) \cap In(u) = {}
      BY <1>1 DEF QtdInv, QtdPlaces
    <3>2. NoRepeat(s \o u) /\ s \o u \in Seq(QtdItems)
      BY <3>1, SeqJoin
    <3>3. PICK r \in Seq(QtdItems) : r = s \o u
      BY <3>2
    <3>4. Qh!IsInjective(r)
      <4>1. DOMAIN r = 1 .. Len(r)
        OBVIOUS
      <4> QED BY <3>2, <3>3, <4>1 DEF Qh!IsInjective, NoRepeat
    <3> QED BY <3>1, <3>3, <3>4
  <2>2. /\ qhCount = Len(qhFree) /\ In(qhFree) \cap In(qhList) = {}
        /\ qhDummy # 0 => qhDummy \notin In(qhFree) \cup In(qhList) \cup {qhScan.prev}
        /\ qhScan.prev # 0 => qhScan.prev \notin In(qhFree) \cup In(qhList)
        /\ qhLost \cap (In(qhFree) \cup In(qhList) \cup {qhDummy, qhScan.prev}) = {}
        /\ QtdItems = qhLost \cup In(qhFree) \cup In(qhList) \cup ({qhDummy, qhScan.prev} \ {0})
    BY DEF QtdInv, QtdPlaces, QtdTypes
  <2>3. LET single == {qhDummy, qhScan.prev} \ {0}
        IN /\ qhDummy # 0 => qhDummy # qhScan.prev
           /\ single \cap (In(qhFree) \cup In(qhList)) = {}
           /\ QtdItems \ qhLost = In(qhFree) \cup In(qhList) \cup single
    BY <2>2
  <2>4. qhLost \cap (In(qhFree) \cup In(qhList)) = {}
    BY <2>2
  <2> QED BY <1>1, <2>1, <2>2, <2>3, <2>4 DEF Qh!PoolExact, Qh!Null
<1>3. Qh!HwInQueue
  <2>1. qhList = <<>> => qhOv.next = 0
    BY DEF QtdInv, QhHandled
  <2>2. ASSUME qhState = "LINKED", ~qhResumed
        PROVE  /\ qhOv.active => qhOv.cur \in In(qhList) /\ qhQtd[qhOv.cur].no > qhRan
               /\ qhOv.next \in In(qhList) \cup {0}
    <3>1. HwWorks /\ HwGoes
      BY <2>2 DEF QtdInv, HwLinked
    <3>2. qhOv.active => qhOv.cur \in In(qhList) /\ qhRan < QhNo(qhOv.cur) /\ QhNo(qhOv.cur) \in Nat
      BY <3>1, QhOrder DEF HwWorks, QhBusy, QtdInv
    <3>3. qhRan \in Nat
      BY DEF QtdInv, QtdTypes
    <3> QED BY <3>1, <3>2, <3>3 DEF HwGoes, QhNo
  <2> QED BY <1>1, <2>1, <2>2 DEF Qh!HwInQueue, Qh!Null
<1>4. Qh!NotStranded
  <2> SUFFICES ASSUME qhState = "LINKED", qhScan.at = "idle", ~qhResumed, ~OvStopped,
                      NEW i \in In(qhList), qhQtd[i].active,
                      ~qhOv.active, ~qhIrq, ~Qh!PutBack
               PROVE  qhOv.next # 0 /\ qhQtd[qhOv.next].active
    BY <1>1, Zenon DEF Qh!NotStranded, Qh!Unlocked, Qh!Null, OvStopped
  <2>1. HwGoes /\ In(qhList) \cap QhIoc \subseteq QhActive
    BY DEF QtdInv, HwLinked, HwStops
  <2>2. qhList # <<>>
    BY DEF In
  <2>3. qhOv.next # 0
    BY <2>1, <2>2 DEF HwGoes
  <2>4. qhOv.next \in In(qhList) /\ qhOv.next \in QtdItems
    BY <2>1, <2>3, QhOrder DEF HwGoes, QtdInv
  <2>5. qhQtd[qhOv.next].active
    BY <2>1, <2>3, <2>4, Zenon DEF Qh!PutBack, Qh!Null, QhIoc, QhActive
  <2> QED BY <2>3, <2>5
<1> QED BY <1>2, <1>3, <1>4

\* A pool of any size, with TRPs of any length: each qTD is in one place through every request,
\* refusal, cancellation and disable, and the controller works on the queue in its order and on
\* each qTD once, and is not left with work that it is not told of, though the handler takes
\* the finished ones off and writes the overlay meanwhile (usbh_ehci_qh_handle,
\* __qtds_link, usb_pool_item_return).
THEOREM QtdsAccounted ==
    ASSUME QtdParams
    PROVE  Qh!Spec => [](Qh!PoolExact /\ Qh!HwInQueue /\ Qh!NotStranded)
<1>1. Qh!Init => QtdInv
  BY QtdStarts
<1>2. QtdInv /\ [Qh!Next]_Qh!qtdVars => QtdInv'
  <2> SUFFICES ASSUME QtdInv, [Qh!Next]_Qh!qtdVars PROVE QtdInv'
    OBVIOUS
  <2>1. CASE Qh!Next
    BY <2>1, QtdStep
  <2>2. CASE UNCHANGED Qh!qtdVars
    BY <2>2 DEF QtdInv, Qh!qtdVars, QtdTypes, QtdPlaces, QhChained, QhHandled, HwLinked, HwWorks,
                HwGoes, HwStops, OvStopped, QhBusy, QhNo, QhNext, QhActive, QhHalted, QhEnded, QhIoc
  <2> QED BY <2>1, <2>2
<1>3. QtdInv => Qh!PoolExact /\ Qh!HwInQueue /\ Qh!NotStranded
  BY QtdPromises
<1> QED BY <1>1, <1>2, <1>3, PTL DEF Qh!Spec
=============================================================================
