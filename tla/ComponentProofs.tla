-------------------------- MODULE ComponentProofs --------------------------
(***************************************************************************)
(* Proofs about the components of a few variables each, for any values of  *)
(* their constants.  A component is an instance here; its theorems are     *)
(* about the specification in its module.  PartsProofs applies them to the *)
(* instances of MCParts.                                                   *)
(***************************************************************************)
EXTENDS Integers, Sequences, FiniteSets, Functions, FiniteSetTheorems, SequenceTheorems,
        TLAPS

\* DevPipe
CONSTANTS Tasks, Pipes, Nobody
VARIABLES lock, sync, epEnabled, epStalled, call, trans, hw, result

Pipe == INSTANCE DevPipe WITH enabled <- epEnabled, stalled <- epStalled

\* DevCtrl
CONSTANTS FuncsOf, Failing, NoCfg
VARIABLES run, attached, status, curCfg, enabled, active, stalled, ep0

Ctrl == INSTANCE DevCtrl WITH None <- NoCfg

\* NetRx
CONSTANTS Trps, QLen, Batch
VARIABLES free, start, lost, n_total, n_start, busy, done, kill, halt, netOp

Rx == INSTANCE NetRx WITH op <- netOp

\* NetRing
CONSTANTS RingSize, MaxPut, MaxByte
VARIABLES ring, data_pos, rd_pos, received, last

Bytes == INSTANCE NetRing WITH Size <- RingSize, MaxLen <- MaxPut

\* HubDrv
CONSTANTS Ports, MaxPlug, ErrMax
VARIABLES plug, plugged, chg, hub_status, trp, err_cnt, evt, p_ports, thr, stopping, deaf, wiped

Hub == INSTANCE HubDrv WITH status <- hub_status

\* MsBot
CONSTANTS Chunks, MaxTag
VARIABLES host, dev, offer, halted, store

Bot == INSTANCE MsBot

\* DevMonitor
CONSTANTS WatchDevs, Mons, TypesOf, Matches, Wild, MaxTold
VARIABLES jobs, devList, thread, watchPc, mons, telling, started, told, refs

Watch == INSTANCE DevMonitor WITH
    Devs <- WatchDevs, listed <- devList, pc <- watchPc,
    state <- telling

\* MsDev
CONSTANTS Lus, MaxHandles
VARIABLES msLib, msAt, msRef, msRemoved, msListed, ready, bufs, nextLu, devOpen, lusOpen,
          finding, devRef, msFault

Store == INSTANCE MsDev WITH
    lib <- msLib, at <- msAt, ref <- msRef, removed <- msRemoved, listed <- msListed,
    next <- nextLu, devs <- devOpen, lus <- lusOpen, finder <- finding, fault <- msFault

\* SerialDrv
CONSTANTS SerDevs, SerTrps, MaxOpen
VARIABLES serLib, serList, serObj, serTrp, serCb, serHeld, serFinder

Serial == INSTANCE SerialDrv WITH
    Devs <- SerDevs, Trps <- SerTrps, lib <- serLib, list <- serList, obj <- serObj,
    trp <- serTrp, cb <- serCb, held <- serHeld, finder <- serFinder

\* LibList
CONSTANTS WalkNodes, WalkRoot
VARIABLES walkInit, walkList, walkDevs, walkLoca, walkGone, walkRet, walkAdded, walkFault

Walk == INSTANCE LibList WITH
    Nodes <- WalkNodes, Root <- WalkRoot, isInit <- walkInit, list <- walkList,
    nDev <- walkDevs, loca <- walkLoca, gone <- walkGone, returned <- walkRet,
    added <- walkAdded, fault <- walkFault

\* DevClass
CONSTANTS MadeClasses, MadePorts
VARIABLES madeClass, madeAt, madeDone, madeHeld, madeRet

Made == INSTANCE DevClass WITH
    Classes <- MadeClasses, NPorts <- MadePorts, class <- madeClass, at <- madeAt,
    done <- madeDone, held <- madeHeld, ret <- madeRet

\* VsPort
CONSTANTS RbSize, MaxSent, Chunk
VARIABLES portSetup, portPiped, portEnabled, portStart, portHw, portBuf, portRb, portSent,
          portGot, portLeaked, portFault

VsPorts == INSTANCE VsPort WITH
    MaxByte <- MaxSent, isSetup <- portSetup, piped <- portPiped, enabled <- portEnabled,
    isStart <- portStart, hw <- portHw, buf <- portBuf, rb <- portRb, sent <- portSent,
    got <- portGot, leaked <- portLeaked, fault <- portFault

\* MsUnits
CONSTANTS MaxLu, NoLu
VARIABLES unitLus, unitFreed, nLu, luSelect, unitSetup, unitPiped, maxLunGet, unitLock,
          unitAt, unitLun, unitFault

LunUnits == INSTANCE MsUnits WITH
    lus <- unitLus, freed <- unitFreed, select <- luSelect, isSetup <- unitSetup,
    piped <- unitPiped, lock <- unitLock, at <- unitAt, lun <- unitLun, fault <- unitFault

\* VpPrinter
CONSTANTS Identities, PrinterIntf
VARIABLES printerId, idCopying, idLock, printerStatus, idSent, printerSetup

Printer == INSTANCE VpPrinter WITH
    Ids <- Identities, Intf <- PrinterIntf, id <- printerId, copying <- idCopying,
    lock <- idLock, status <- printerStatus, sent <- idSent, isSetup <- printerSetup

\* UacLife
CONSTANTS PlayFormats, PlayTrps, MaxMade, NoFormat
VARIABLES playOpen, playState, playLocked, playCur, playEp, playSetup, playStarted, playMade,
          playEps, playFlying, playGhost

Life == INSTANCE UacLife WITH
    Formats <- PlayFormats, Trps <- PlayTrps, None <- NoFormat, open <- playOpen,
    state <- playState, locked <- playLocked, cur <- playCur, dataEp <- playEp,
    needSetup <- playSetup, started <- playStarted, made <- playMade, ep <- playEps,
    flying <- playFlying, ghost <- playGhost

\* UvcStream
CONSTANTS CamTrps, MaxCamOpen
VARIABLES camSt, camOpen, camFrozen, camActs, camTrp, camCancelled, camLock, camOp, camQueue,
          camRemoved

Stream == INSTANCE UvcStream WITH
    Trps <- CamTrps, MaxOpen <- MaxCamOpen, st <- camSt, open_cnt <- camOpen,
    frozen <- camFrozen, n_act <- camActs, trp <- camTrp, cancelled <- camCancelled,
    lock <- camLock, op <- camOp, queue <- camQueue, removed <- camRemoved

\* UvcDecode
CONSTANTS FrameLen, MaxFrames
VARIABLES vidQueue, vidBuf, vidCur, vidFid, vidTmp, vidSent, vidGap, vidCompressed

Decode == INSTANCE UvcDecode WITH
    Packets <- FrameLen, MaxFrame <- MaxFrames, queue <- vidQueue, buf <- vidBuf,
    cur <- vidCur, last_fid <- vidFid, p_buf_tmp <- vidTmp, sent <- vidSent, gap <- vidGap,
    compressed <- vidCompressed

\* UvcCtrl
CONSTANTS CamUnits, CamControls, CamXus, UnitOfCtrl, KnownCtrls, CamBlackListed, MapsOf, WideCtrls,
          FlagsOf, KindOf, LimitsOf, MenuOf, HalfOfInts, AskedValues, WantedIds, ChangingIds, NoSetting
VARIABLES camPhase, camReady, camMapped, camMem, camCached, camLoaded, camDirty, camFetched,
          camDev, camCur, camBase, camMine

Camera == INSTANCE UvcCtrl WITH
    Units <- CamUnits, Ctrls <- CamControls, Xus <- CamXus, UnitOf <- UnitOfCtrl,
    Known <- KnownCtrls, BlackListed <- CamBlackListed, Maps <- MapsOf, Wide <- WideCtrls,
    Flags <- FlagsOf, Kind <- KindOf, Limits <- LimitsOf, Menu <- MenuOf, Half <- HalfOfInts,
    Asked <- AskedValues, Wants <- WantedIds, Changing <- ChangingIds, NoValue <- NoSetting,
    phase <- camPhase, ready <- camReady, mapped <- camMapped, mem <- camMem,
    cached <- camCached, loaded <- camLoaded, dirty <- camDirty, fetched <- camFetched,
    dev <- camDev, cur <- camCur, base <- camBase, mine <- camMine
-----------------------------------------------------------------------------
(* Synchronous transfers of the device                                     *)

\* A task past Lock has the lock of its pipe, so that no two share a semaphore.
PipeLocked ==
    \A t \in Tasks :
        /\ ~Pipe!At(t, "out") => Pipe!PipeOf(t) \in Pipes
        /\ ~Pipe!At(t, "out") /\ ~Pipe!At(t, "lock") => lock[Pipe!PipeOf(t)] = t

\* While a call waits, its semaphore has a token exactly if its transfer is over;
\* a call that returns leaves one token at most, which the next call takes first.
PipeTokens ==
    /\ \A p \in Pipes : sync[p] <= 1
    /\ \A t \in Tasks :
        /\ Pipe!At(t, "start") => sync[Pipe!PipeOf(t)] = 0
        /\ Pipe!At(t, "wait") \/ Pipe!At(t, "cancel") =>
              IF t \in hw THEN sync[Pipe!PipeOf(t)] = 0
              ELSE sync[Pipe!PipeOf(t)] = 1 /\ trans[t] # "EINPROGRESS"

PipeInv == /\ Pipe!TypeOK /\ PipeLocked /\ PipeTokens
           /\ Pipe!FrameAlive /\ Pipe!ResultFinal

LEMMA PipeInit ==
    ASSUME Pipe!Init
    PROVE  PipeInv
BY DEF Pipe!Init, PipeInv, PipeLocked, PipeTokens, Pipe!TypeOK, Pipe!FrameAlive,
       Pipe!ResultFinal, Pipe!At

\* A call returns and unlocks its pipe, when the controller has let go of its
\* transfer; it may leave a token.
LEMMA PipeLeaves ==
    ASSUME Nobody \notin Tasks, PipeInv, NEW t \in Tasks,
           NEW r \in {"OK", "ECANCEL", "ESHUTDOWN", "ETIME", "refused"},
           call[t].pipe \in Pipes, lock[call[t].pipe] = t,
           Pipe!Leave(t, r), UNCHANGED <<epEnabled, epStalled>>,
           hw' = hw \ {t},
           trans' \in [Tasks -> {"OK", "EINPROGRESS", "ECANCEL", "ESHUTDOWN"}],
           \A u \in Tasks \ {t} : trans'[u] = trans[u],
           \/ sync' = sync
           \/ t \in hw /\ sync' = [sync EXCEPT ![call[t].pipe] = @ + 1]
    PROVE  PipeInv'
<1> USE DEF PipeInv, Pipe!TypeOK, Pipe!At, Pipe!PipeOf
<1>1. /\ call' = [call EXCEPT ![t].at = "out"] /\ result' = [result EXCEPT ![t] = r]
      /\ lock' = [lock EXCEPT ![call[t].pipe] = Nobody]
  BY DEF Pipe!Leave, Pipe!Goto
<1>2. Pipe!TypeOK'
  BY <1>1
<1>3. PipeLocked'
  BY <1>1 DEF PipeLocked
<1>4. PipeTokens'
  <2>1. /\ \A u \in Tasks \ {t} : call'[u] = call[u]
        /\ call'[t].at = "out" /\ \A u \in Tasks : u \in hw' <=> u \in hw /\ u # t
    BY <1>1
  <2>2. /\ \A u \in Tasks \ {t} : call[u].at \in {"start", "wait", "cancel"} =>
              call[u].pipe \in Pipes \ {call[t].pipe}
        /\ \A p \in Pipes \ {call[t].pipe} : sync'[p] = sync[p]
    BY DEF PipeLocked
  <2>3. t \in hw => sync[call[t].pipe] = 0
    BY DEF Pipe!FrameAlive, PipeTokens
  <2>4. \A p \in Pipes : sync'[p] <= 1
    BY <2>3 DEF PipeTokens
  <2> QED BY <2>1, <2>2, <2>4 DEF PipeTokens
<1>5. Pipe!FrameAlive' /\ Pipe!ResultFinal'
  BY <1>1 DEF Pipe!FrameAlive, Pipe!ResultFinal
<1> QED BY <1>2, <1>3, <1>4, <1>5

\* Every step keeps the invariant.
LEMMA PipeStep ==
    ASSUME Nobody \notin Tasks, PipeInv, [Pipe!Next]_(Pipe!pipeVars)
    PROVE  PipeInv'
<1> USE DEF PipeInv, Pipe!TypeOK, PipeLocked, PipeTokens, Pipe!FrameAlive, Pipe!ResultFinal,
            Pipe!At, Pipe!PipeOf
<1>1. ASSUME NEW t \in Tasks, NEW p \in Pipes, Pipe!Enter(t, p)
      PROVE  PipeInv'
  BY <1>1 DEF Pipe!Enter
<1>2. ASSUME NEW t \in Tasks, Pipe!Lock(t)
      PROVE  PipeInv'
  BY <1>2 DEF Pipe!Lock, Pipe!Goto
<1>3. ASSUME NEW t \in Tasks, Pipe!Drain(t)
      PROVE  PipeInv'
  BY <1>3 DEF Pipe!Drain, Pipe!Goto
<1>4. ASSUME NEW t \in Tasks, Pipe!StartTrans(t)
      PROVE  PipeInv'
  <2>1. call[t].at = "start" /\ call[t].pipe \in Pipes /\ lock[call[t].pipe] = t
    BY <1>4 DEF Pipe!StartTrans
  <2>2. CASE /\ trans' = [trans EXCEPT ![t] = "EINPROGRESS"] /\ hw' = hw \cup {t}
             /\ Pipe!Goto(t, "wait") /\ UNCHANGED <<lock, result, sync, epEnabled, epStalled>>
    BY <2>1, <2>2 DEF Pipe!Goto
  <2>3. CASE /\ Pipe!Leave(t, "refused") /\ UNCHANGED <<hw, sync, epEnabled, epStalled>>
             /\ trans' = trans \/ trans' = [trans EXCEPT ![t] = "EINPROGRESS"]
    BY SMTT(30), <2>1, <2>3, PipeLeaves
  <2> QED BY <1>4, <2>2, <2>3 DEF Pipe!StartTrans
<1>5. ASSUME NEW t \in Tasks, Pipe!WaitOk(t)
      PROVE  PipeInv'
  BY <1>5 DEF Pipe!WaitOk, Pipe!Goto, Pipe!Leave
<1>6. ASSUME NEW t \in Tasks, Pipe!WaitTimeout(t)
      PROVE  PipeInv'
  BY <1>6 DEF Pipe!WaitTimeout, Pipe!Goto
<1>7. ASSUME NEW t \in Tasks, Pipe!Cancel(t)
      PROVE  PipeInv'
  <2>1. call[t].at = "cancel" /\ call[t].pipe \in Pipes /\ lock[call[t].pipe] = t
    BY <1>7 DEF Pipe!Cancel
  <2>2. /\ trans' = [trans EXCEPT ![t] = "ECANCEL"] /\ hw' = hw \ {t}
        /\ Pipe!Leave(t, "ETIME") /\ UNCHANGED <<epEnabled, epStalled>>
        /\ \/ sync' = sync
           \/ t \in hw /\ sync' = [sync EXCEPT ![call[t].pipe] = @ + 1]
    BY <1>7 DEF Pipe!Cancel, Pipe!Complete
  <2> QED BY <2>1, <2>2, PipeLeaves
<1>8. ASSUME NEW t \in Tasks, Pipe!HwComplete(t)
      PROVE  PipeInv'
  BY <1>8 DEF Pipe!HwComplete, Pipe!Complete
<1>9. ASSUME NEW p \in Pipes, Pipe!Halt(p) \/ Pipe!Enable(p)
      PROVE  PipeInv'
  BY <1>9 DEF Pipe!Halt, Pipe!Enable
<1>10. ASSUME NEW p \in Pipes, Pipe!Disable(p)
       PROVE  PipeInv'
  BY SMTT(30), <1>10 DEF Pipe!Disable, Pipe!Complete
<1>11. CASE UNCHANGED Pipe!pipeVars
  BY <1>11 DEF Pipe!pipeVars
<1> QED BY <1>1, <1>2, <1>3, <1>4, <1>5, <1>6, <1>7, <1>8, <1>9, <1>10,
       <1>11 DEF Pipe!Next

\* The transfers of any tasks on any pipes: the controller has none whose frame is
\* gone, and a call returns the status of a transfer that is over.
THEOREM PipeTransfersOver ==
    ASSUME Nobody \notin Tasks
    PROVE  Pipe!Spec => [](Pipe!FrameAlive /\ Pipe!ResultFinal)
<1>1. PipeInv /\ [Pipe!Next]_(Pipe!pipeVars) => PipeInv'
  BY PipeStep
<1>2. PipeInv => Pipe!FrameAlive /\ Pipe!ResultFinal
  BY DEF PipeInv
<1>3. Pipe!Init => PipeInv
  BY PipeInit
<1> QED BY <1>1, <1>2, <1>3, PTL DEF Pipe!Spec
-----------------------------------------------------------------------------
(* The control endpoint of the device                                      *)

CtrlParams ==
    /\ \A c \in Ctrl!Cfgs : FuncsOf[c] \in Seq(Ctrl!Funcs)
    /\ NoCfg \notin Ctrl!Cfgs

\* One request of the endpoint is queued at most, and a status stage is owed after
\* one that is, unless a halt kept the endpoint from queueing it.
OneOf(s) == /\ s \in Ctrl!Ep0s
            /\ ~(Ctrl!Dirs \subseteq s.busy)
            /\ s.needSta => s.busy # {} \/ stalled \cap Ctrl!Dirs # {}

\* A device that does not run was never configured, and one that is configured has a
\* configuration.
CtrlInv == /\ Ctrl!TypeOK /\ OneOf(ep0)
           /\ ~run => status = "NOTATTACHED"
           /\ status = "CONFIGURED" => curCfg # NoCfg

LEMMA CtrlTransReq ==
    ASSUME NEW s \in Ctrl!Ep0s, NEW d \in Ctrl!Dirs
    PROVE  /\ Ctrl!TransReq(s, d) \in Ctrl!Ep0s
           /\ Ctrl!TransReq(s, d).needSta = s.needSta
           /\ s.busy = {} => IF d \in stalled THEN Ctrl!TransReq(s, d).busy = {}
                            ELSE Ctrl!TransReq(s, d).busy = {d}
BY DEF Ctrl!TransReq, Ctrl!Ep0s, Ctrl!Dirs

\* A request that ends leaves none queued, or the status stage it owed.
LEMMA CtrlComplete ==
    ASSUME NEW s, OneOf(s), NEW d \in s.busy
    PROVE  /\ Ctrl!Complete(s, d) \in Ctrl!Ep0s
           /\ ~Ctrl!Complete(s, d).needSta
           /\ \/ Ctrl!Complete(s, d).busy = {}
              \/ s.needSta /\ Ctrl!Complete(s, d).busy = {Ctrl!Other(d)}
<1> DEFINE t == [s EXCEPT !.busy = @ \ {d}]
           u == [t EXCEPT !.needSta = FALSE, !.data = {}]
<1>1. d \in Ctrl!Dirs /\ Ctrl!Other(d) \in Ctrl!Dirs
  BY DEF OneOf, Ctrl!Ep0s, Ctrl!Dirs, Ctrl!Other
<1>2. t \in Ctrl!Ep0s /\ t.busy = {} /\ t.needSta = s.needSta
  BY <1>1 DEF OneOf, Ctrl!Ep0s, Ctrl!Dirs
<1>3. u \in Ctrl!Ep0s /\ u.busy = {} /\ ~u.needSta
  BY <1>2 DEF Ctrl!Ep0s
<1>4. CASE s.needSta
  <2>1. Ctrl!Complete(s, d) = Ctrl!TransReq(u, Ctrl!Other(d))
    BY <1>2, <1>4 DEF Ctrl!Complete
  <2> HIDE DEF u
  <2> QED BY <1>1, <1>3, <1>4, <2>1, CtrlTransReq
<1>5. CASE ~s.needSta
  <2>1. Ctrl!Complete(s, d) \in {t, [t EXCEPT !.cb = @ \ {d}]}
    BY <1>2, <1>5 DEF Ctrl!Complete
  <2> QED BY <1>2, <1>5, <2>1 DEF Ctrl!Ep0s
<1> QED BY <1>4, <1>5

\* What the driver gives up before a SETUP leaves nothing queued, and a status
\* stage owed only where it was kept back by a halt.
LEMMA CtrlFlush ==
    ASSUME NEW s, OneOf(s)
    PROVE  /\ Ctrl!Flush(s) \in Ctrl!Ep0s /\ Ctrl!Flush(s).busy = {}
           /\ Ctrl!Flush(s).needSta => stalled \cap Ctrl!Dirs # {}
<1> DEFINE a == Ctrl!Abort(s, "out")
           b == Ctrl!Abort(a, "in")
           c == Ctrl!Abort(b, "out")
<1>0. Ctrl!Flush(s) = c
  BY DEF Ctrl!Flush
<1>1. CASE s.busy = {}
  <2>1. a = s /\ b = s /\ c = s
    BY <1>1 DEF Ctrl!Abort
  <2> QED BY <1>0, <1>1, <2>1 DEF OneOf
<1>2. CASE s.busy = {"out"}
  <2>1. a = Ctrl!Complete(s, "out")
    BY <1>2 DEF Ctrl!Abort
  <2>2. a \in Ctrl!Ep0s /\ ~a.needSta /\ a.busy \in {{}, {"in"}}
    BY <1>2, <2>1, CtrlComplete DEF Ctrl!Other
  <2> HIDE DEF a
  <2>3. OneOf(a)
    BY <2>2 DEF OneOf, Ctrl!Dirs
  <2>4. b \in Ctrl!Ep0s /\ ~b.needSta /\ b.busy = {}
    BY <2>2, <2>3, CtrlComplete DEF Ctrl!Abort
  <2> HIDE DEF b
  <2>5. c = b
    BY <2>4 DEF Ctrl!Abort
  <2> QED BY <1>0, <2>4, <2>5
<1>3. CASE s.busy = {"in"}
  <2>1. a = s
    BY <1>3 DEF Ctrl!Abort
  <2>2. b = Ctrl!Complete(s, "in")
    BY <1>3, <2>1 DEF Ctrl!Abort
  <2>3. b \in Ctrl!Ep0s /\ ~b.needSta /\ b.busy \in {{}, {"out"}}
    BY <1>3, <2>2, CtrlComplete DEF Ctrl!Other
  <2> HIDE DEF b
  <2>4. OneOf(b)
    BY <2>3 DEF OneOf, Ctrl!Dirs
  <2>5. c \in Ctrl!Ep0s /\ ~c.needSta /\ c.busy = {}
    BY <2>3, <2>4, CtrlComplete DEF Ctrl!Abort
  <2> QED BY <1>0, <2>5
<1> QED BY <1>1, <1>2, <1>3 DEF OneOf, Ctrl!Ep0s, Ctrl!Dirs

\* With no status stage owed the reset of both directions leaves nothing queued.
LEMMA CtrlEpReset ==
    ASSUME NEW s \in Ctrl!Ep0s, ~s.needSta
    PROVE  /\ Ctrl!EpReset(s) \in Ctrl!Ep0s /\ Ctrl!EpReset(s).busy = {}
           /\ ~Ctrl!EpReset(s).needSta
<1>1. ASSUME NEW r \in Ctrl!Ep0s, ~r.needSta, NEW d \in Ctrl!Dirs
      PROVE  /\ Ctrl!Abort(r, d) \in Ctrl!Ep0s /\ ~Ctrl!Abort(r, d).needSta
             /\ Ctrl!Abort(r, d).busy = r.busy \ {d}
  <2> DEFINE t == [r EXCEPT !.busy = @ \ {d}]
  <2>1. t \in Ctrl!Ep0s /\ t.busy = r.busy \ {d} /\ ~t.needSta
    BY <1>1 DEF Ctrl!Ep0s
  <2>2. Ctrl!Complete(r, d) \in {t, [t EXCEPT !.cb = @ \ {d}]}
    BY <2>1 DEF Ctrl!Complete
  <2>3. /\ [t EXCEPT !.cb = @ \ {d}] \in Ctrl!Ep0s
        /\ [t EXCEPT !.cb = @ \ {d}].busy = t.busy
        /\ [t EXCEPT !.cb = @ \ {d}].needSta = t.needSta
    BY <2>1 DEF Ctrl!Ep0s
  <2> HIDE DEF t
  <2> QED BY <1>1, <2>1, <2>2, <2>3 DEF Ctrl!Abort
<1> DEFINE a == Ctrl!Abort(s, "in")
<1>2. a \in Ctrl!Ep0s /\ ~a.needSta /\ a.busy = s.busy \ {"in"}
  BY <1>1 DEF Ctrl!Dirs
<1> HIDE DEF a
<1>3. LET b == Ctrl!Abort(a, "out")
      IN b \in Ctrl!Ep0s /\ ~b.needSta /\ b.busy = a.busy \ {"out"}
  BY <1>1, <1>2 DEF Ctrl!Dirs
<1>4. s.busy \subseteq {"in", "out"}
  BY DEF Ctrl!Ep0s, Ctrl!Dirs
<1> QED BY <1>2, <1>3, <1>4 DEF Ctrl!EpReset, a

\* A handler's answer queues its first stage.
LEMMA CtrlAnswer ==
    ASSUME NEW s \in Ctrl!Ep0s, s.busy = {}, NEW d \in Ctrl!Dirs,
           NEW len \in BOOLEAN, NEW data \in BOOLEAN
    PROVE  OneOf(Ctrl!Answer(s, d, len, data))
<1> DEFINE t == [s EXCEPT !.needSta = len, !.data = IF data THEN @ \cup {d} ELSE @ \ {d}]
<1>1. t \in Ctrl!Ep0s /\ t.busy = {} /\ t.needSta = len
  BY DEF Ctrl!Ep0s
<1>2. Ctrl!Answer(s, d, len, data) = Ctrl!TransReq(t, d)
  BY DEF Ctrl!Answer
<1> HIDE DEF t
<1>3. /\ Ctrl!TransReq(t, d) \in Ctrl!Ep0s
      /\ \/ Ctrl!TransReq(t, d).busy = {d}
         \/ d \in stalled /\ Ctrl!TransReq(t, d).busy = {}
  BY <1>1, CtrlTransReq
<1> QED BY <1>2, <1>3 DEF OneOf, Ctrl!Dirs

\* The steps of the device, each with the request it answers.
LEMMA CtrlSetup ==
    ASSUME CtrlParams, CtrlInv, Ctrl!Setup
    PROVE  CtrlInv'
<1> DEFINE f == Ctrl!Flush(ep0)
<1>1. f \in Ctrl!Ep0s /\ f.busy = {} /\ (f.needSta => stalled \cap Ctrl!Dirs # {})
  BY CtrlFlush DEF CtrlInv
<1> HIDE DEF f
<1>2. \A d \in Ctrl!Dirs, len, data \in BOOLEAN : OneOf(Ctrl!Answer(f, d, len, data))
  BY <1>1, CtrlAnswer
<1>3. \A d \in Ctrl!Dirs : OneOf([f EXCEPT !.data = @ \ {d}])
  BY <1>1 DEF OneOf, Ctrl!Ep0s, Ctrl!Dirs
<1>4. \A d \in Ctrl!Dirs, len, data \in BOOLEAN :
         OneOf(Ctrl!Answer(Ctrl!Register(f, d), d, len, data))
  <2> SUFFICES ASSUME NEW d \in Ctrl!Dirs
               PROVE  Ctrl!Register(f, d) \in Ctrl!Ep0s /\ Ctrl!Register(f, d).busy = {}
    BY CtrlAnswer
  <2> QED BY <1>1 DEF Ctrl!Register, Ctrl!Ep0s, Ctrl!Other, Ctrl!Dirs
<1>5. "in" \in Ctrl!Dirs /\ "out" \in Ctrl!Dirs
  BY DEF Ctrl!Dirs
<1>6. run /\ UNCHANGED <<run, attached>>
  BY DEF Ctrl!Setup
<1>7. ASSUME stalled \cap Ctrl!Dirs \subseteq stalled', OneOf(ep0'), status' \in {"ADDRESS", "CONFIGURED", status},
             curCfg' \in Ctrl!Cfgs \cup {curCfg}, enabled' \subseteq Ctrl!Funcs,
             active' \subseteq Ctrl!Funcs, stalled' \subseteq Ctrl!Funcs \cup Ctrl!Dirs,
             status' # status => status' = "ADDRESS" \/ curCfg' \in Ctrl!Cfgs
      PROVE  CtrlInv'
  BY <1>6, <1>7 DEF CtrlInv, CtrlParams, Ctrl!TypeOK, OneOf
<1>8. ASSUME OneOf(ep0'), UNCHANGED Ctrl!Device
      PROVE  CtrlInv'
  BY <1>7, <1>8 DEF Ctrl!Device, CtrlInv, Ctrl!TypeOK
<1>9. ASSUME NEW d \in Ctrl!Dirs, Ctrl!Refuse(d)
      PROVE  CtrlInv'
  BY <1>3, <1>8, <1>9 DEF Ctrl!Refuse, Ctrl!Reply, f
<1>10. CASE Ctrl!GetRequest
  BY <1>2, <1>5, <1>8, <1>9, <1>10 DEF Ctrl!GetRequest, Ctrl!Reply, f
<1>11. CASE Ctrl!SetAddress
  <2>1. OneOf(ep0')
    BY <1>2, <1>5, <1>11 DEF Ctrl!SetAddress, Ctrl!Reply, f
  <2> QED BY <1>7, <1>11, <2>1 DEF Ctrl!SetAddress, CtrlInv, Ctrl!TypeOK
<1>12. CASE Ctrl!SetInterface
  <2>1. OneOf(ep0')
    BY <1>2, <1>5, <1>12 DEF Ctrl!SetInterface, Ctrl!Reply, f
  <2>2. active' \subseteq Ctrl!Funcs
    <3>1. curCfg \in Ctrl!Cfgs
      BY <1>12 DEF Ctrl!SetInterface, CtrlInv, Ctrl!TypeOK
    <3>2. Ctrl!Range(FuncsOf[curCfg]) \subseteq Ctrl!Funcs
      BY <3>1 DEF Ctrl!Funcs
    <3> QED BY <1>12, <3>2 DEF Ctrl!SetInterface, CtrlInv, Ctrl!TypeOK
  <2> QED BY <1>7, <1>12, <2>1, <2>2 DEF Ctrl!SetInterface, CtrlInv, Ctrl!TypeOK
<1>13. CASE Ctrl!ClassRequest
  <2>1. OneOf(ep0')
    BY <1>2, <1>3, <1>4, <1>5, <1>13 DEF Ctrl!ClassRequest, Ctrl!Reply, f
  <2> QED BY <1>8, <1>13, <2>1 DEF Ctrl!ClassRequest
<1>14. ASSUME NEW c \in Ctrl!Cfgs, Ctrl!SetConfig(c)
       PROVE  CtrlInv'
  <2>1. PICK n \in 0 .. Len(FuncsOf[c]) :
           /\ enabled' = enabled \cup Ctrl!Enabled(c, n)
           /\ active' = active \cup Ctrl!Enabled(c, n)
           /\ status' \in {status, "CONFIGURED"}
           /\ OneOf(ep0')
    BY <1>2, <1>3, <1>5, <1>14 DEF Ctrl!SetConfig, Ctrl!Reply, f
  <2>2. Ctrl!Enabled(c, n) \subseteq Ctrl!Funcs
    <3>1. FuncsOf[c] \in Seq(Ctrl!Funcs)
      BY DEF CtrlParams
    <3> QED BY <3>1 DEF Ctrl!Enabled
  <2> QED BY <1>7, <1>14, <2>1, <2>2 DEF Ctrl!SetConfig, CtrlInv, Ctrl!TypeOK
<1>15. ASSUME NEW e \in Ctrl!Funcs \cup Ctrl!Dirs, Ctrl!SetHalt(e)
       PROVE  CtrlInv'
  <2>1. OneOf(ep0')
    <3>1. OneOf([f EXCEPT !.needSta = FALSE, !.data = @ \ {"in"}])
      BY <1>1 DEF OneOf, Ctrl!Ep0s, Ctrl!Dirs
    <3> QED BY <1>2, <1>5, <1>15, <3>1 DEF Ctrl!SetHalt, Ctrl!Reply, f
  <2> QED BY <1>7, <1>15, <2>1 DEF Ctrl!SetHalt, CtrlInv, Ctrl!TypeOK
<1>16. ASSUME NEW e \in Ctrl!Funcs \cup Ctrl!Dirs, Ctrl!ClearHalt(e)
       PROVE  CtrlInv'
  <2>1. OneOf(ep0')
    BY <1>2, <1>5, <1>16 DEF Ctrl!ClearHalt, Ctrl!Reply, f
  <2> QED BY <1>7, <1>16, <2>1 DEF Ctrl!ClearHalt, CtrlInv, Ctrl!TypeOK
<1> QED
  BY <1>5, <1>9, <1>10, <1>11, <1>12, <1>13, <1>14, <1>15, <1>16 DEF Ctrl!Setup

LEMMA CtrlStep ==
    ASSUME CtrlParams, CtrlInv, [Ctrl!Next]_(Ctrl!vars)
    PROVE  CtrlInv'
<1>1. CASE Ctrl!Start
  BY <1>1 DEF Ctrl!Start, Ctrl!Device, CtrlInv, Ctrl!TypeOK, OneOf
<1>2. CASE Ctrl!StageDone
  <2>1. PICK d \in ep0.busy : ep0' = Ctrl!Complete(ep0, d)
    BY <1>2 DEF Ctrl!StageDone
  <2>2. ep0' \in Ctrl!Ep0s /\ ~ep0'.needSta /\ ~(Ctrl!Dirs \subseteq ep0'.busy)
    BY <2>1, CtrlComplete DEF CtrlInv, Ctrl!Dirs, Ctrl!Other
  <2> QED BY <1>2, <2>2 DEF Ctrl!StageDone, Ctrl!Device, CtrlInv, Ctrl!TypeOK, OneOf
<1>3. CASE Ctrl!BusReset
  <2>1. [ep0 EXCEPT !.needSta = FALSE] \in Ctrl!Ep0s /\ ~[ep0 EXCEPT !.needSta = FALSE].needSta
    BY DEF CtrlInv, Ctrl!TypeOK, Ctrl!Ep0s
  <2>2. ep0' \in Ctrl!Ep0s /\ ep0'.busy = {} /\ ~ep0'.needSta
    BY <1>3, <2>1, CtrlEpReset DEF Ctrl!BusReset
  <2>3. enabled' \subseteq Ctrl!Funcs /\ active' \subseteq Ctrl!Funcs
    BY <1>3 DEF Ctrl!BusReset, Ctrl!ShutDown, CtrlInv, Ctrl!TypeOK
  <2> QED BY <1>3, <2>2, <2>3 DEF Ctrl!BusReset, CtrlInv, Ctrl!TypeOK, OneOf, Ctrl!Dirs
<1>4. CASE Ctrl!Disconnect
  <2>1. enabled' \subseteq Ctrl!Funcs /\ active' \subseteq Ctrl!Funcs
    BY <1>4 DEF Ctrl!Disconnect, Ctrl!ShutDown, CtrlInv, Ctrl!TypeOK
  <2> QED BY <1>4, <2>1 DEF Ctrl!Disconnect, CtrlInv, Ctrl!TypeOK, OneOf
<1>5. CASE UNCHANGED Ctrl!vars
  BY <1>5 DEF Ctrl!vars, CtrlInv, Ctrl!TypeOK, OneOf
<1> QED BY CtrlSetup, <1>1, <1>2, <1>3, <1>4, <1>5 DEF Ctrl!Next

LEMMA CtrlInit ==
    ASSUME Ctrl!Init
    PROVE  CtrlInv
BY DEF Ctrl!Init, CtrlInv, Ctrl!TypeOK, OneOf, Ctrl!Ep0s, Ctrl!Dirs

LEMMA CtrlOneStage ==
    ASSUME CtrlInv
    PROVE  Ctrl!OneStage
<1>1. ep0.busy \subseteq {"in", "out"} /\ ~({"in", "out"} \subseteq ep0.busy)
  BY DEF CtrlInv, OneOf, Ctrl!Ep0s, Ctrl!Dirs
<1>2. ep0.busy \in {{}, {"in"}, {"out"}}
  BY <1>1
<1>3. Cardinality(ep0.busy) <= 1
  <2>1. Cardinality({}) = 0 /\ Cardinality({"in"}) = 1 /\ Cardinality({"out"}) = 1
    BY FS_EmptySet, FS_Singleton
  <2> QED BY <1>2, <2>1
<1>4. Ctrl!Cardinality(ep0.busy) = Cardinality(ep0.busy)
  BY DEF Ctrl!Cardinality, Cardinality, Ctrl!IsFiniteSet, IsFiniteSet
<1> QED BY <1>3, <1>4 DEF CtrlInv, OneOf, Ctrl!OneStage

\* While no function fails, a configured device that is attached is set up.
LEMMA CtrlReady ==
    ASSUME CtrlParams, Failing = {}, CtrlInv, Ctrl!ConfiguredReady, [Ctrl!Next]_(Ctrl!vars)
    PROVE  Ctrl!ConfiguredReady'
<1>1. ASSUME NEW c \in Ctrl!Cfgs, Ctrl!SetConfig(c)
      PROVE  Ctrl!ConfiguredReady'
  <2>1. /\ curCfg' = c
        /\ LET n == Len(FuncsOf[c])
           IN /\ enabled' = enabled \cup Ctrl!Enabled(c, n)
              /\ active' = active \cup Ctrl!Enabled(c, n)
    <3>1. FuncsOf[c] \in Seq(Ctrl!Funcs)
      BY DEF CtrlParams
    <3> QED BY <1>1, <3>1 DEF Ctrl!SetConfig
  <2>2. Ctrl!Range(FuncsOf[c]) = Ctrl!Enabled(c, Len(FuncsOf[c]))
    <3>1. DOMAIN FuncsOf[c] = 1 .. Len(FuncsOf[c])
      BY DEF CtrlParams
    <3> QED BY <3>1 DEF Ctrl!Enabled, Ctrl!Range
  <2> QED BY <2>1, <2>2 DEF Ctrl!ConfiguredReady, CtrlParams
<1>2. CASE Ctrl!SetInterface /\ UNCHANGED attached
  BY <1>2 DEF Ctrl!SetInterface, Ctrl!ConfiguredReady
<1>3. CASE Ctrl!SetAddress
  BY <1>3 DEF Ctrl!SetAddress, Ctrl!ConfiguredReady
<1>4. CASE Ctrl!BusReset
  BY <1>4 DEF Ctrl!BusReset, Ctrl!ConfiguredReady
<1>5. CASE Ctrl!Disconnect
  BY <1>5 DEF Ctrl!Disconnect, Ctrl!ConfiguredReady
<1>6. CASE Ctrl!Start
  BY <1>6 DEF Ctrl!Start, Ctrl!Device, Ctrl!ConfiguredReady, CtrlInv
<1>7. ASSUME UNCHANGED <<attached, status, curCfg, enabled, active>>
      PROVE  Ctrl!ConfiguredReady'
  BY <1>7 DEF Ctrl!ConfiguredReady
<1>8. CASE Ctrl!Setup
  <2>1. UNCHANGED attached
    BY <1>8 DEF Ctrl!Setup
  <2>2. CASE Ctrl!GetRequest \/ Ctrl!ClassRequest \/ \E d \in Ctrl!Dirs : Ctrl!Refuse(d)
    BY <1>7, <2>1, <2>2 DEF Ctrl!GetRequest, Ctrl!ClassRequest, Ctrl!Refuse, Ctrl!Device
  <2>3. ASSUME NEW e, Ctrl!SetHalt(e) \/ Ctrl!ClearHalt(e)
        PROVE  Ctrl!ConfiguredReady'
    BY <1>7, <2>1, <2>3 DEF Ctrl!SetHalt, Ctrl!ClearHalt
  <2>4. "out" \in Ctrl!Dirs
    BY DEF Ctrl!Dirs
  <2> QED BY <1>1, <1>2, <1>3, <1>8, <2>1, <2>2, <2>3, <2>4 DEF Ctrl!Setup
<1>9. CASE Ctrl!StageDone \/ UNCHANGED Ctrl!vars
  BY <1>7, <1>9 DEF Ctrl!StageDone, Ctrl!Device, Ctrl!vars
<1> QED BY <1>4, <1>5, <1>6, <1>8, <1>9 DEF Ctrl!Next

\* Whatever the host requests, resets, halts and abandons: no two stages are queued
\* at once, and a status stage is owed only after one that is.
THEOREM CtrlStagesApart ==
    ASSUME CtrlParams
    PROVE  Ctrl!Spec => []Ctrl!OneStage
<1>1. CtrlInv /\ [Ctrl!Next]_(Ctrl!vars) => CtrlInv'
  BY CtrlStep
<1>2. Ctrl!Init => CtrlInv
  BY CtrlInit
<1>3. CtrlInv => Ctrl!OneStage
  BY CtrlOneStage
<1> QED BY <1>1, <1>2, <1>3, PTL DEF Ctrl!Spec

\* If no function fails, a device that says it is configured has all the functions of
\* its configuration set up and their endpoints enabled.
THEOREM CtrlConfigured ==
    ASSUME CtrlParams, Failing = {}
    PROVE  Ctrl!Spec => []Ctrl!ConfiguredReady
<1>1. CtrlInv /\ [Ctrl!Next]_(Ctrl!vars) => CtrlInv'
  BY CtrlStep
<1>2. CtrlInv /\ Ctrl!ConfiguredReady /\ [Ctrl!Next]_(Ctrl!vars) => Ctrl!ConfiguredReady'
  BY CtrlReady
<1>3. Ctrl!Init => CtrlInv /\ Ctrl!ConfiguredReady
  BY CtrlInit DEF Ctrl!Init, Ctrl!ConfiguredReady
<1> QED BY <1>1, <1>2, <1>3, PTL DEF Ctrl!Spec

LEMMA CtrlResetIdle ==
    ASSUME CtrlInv, Ctrl!BusReset
    PROVE  ep0'.busy = {}
<1>1. [ep0 EXCEPT !.needSta = FALSE] \in Ctrl!Ep0s /\ ~[ep0 EXCEPT !.needSta = FALSE].needSta
  BY DEF CtrlInv, Ctrl!TypeOK, Ctrl!Ep0s
<1> QED BY <1>1, CtrlEpReset DEF Ctrl!BusReset

\* A bus reset leaves endpoint 0 idle, whatever stage it was in.
THEOREM CtrlResetClean ==
    ASSUME CtrlParams
    PROVE  Ctrl!Spec => Ctrl!ResetClean
<1>1. CtrlInv /\ [Ctrl!Next]_(Ctrl!vars) => CtrlInv'
  BY CtrlStep
<1>2. CtrlInv /\ [Ctrl!Next]_(Ctrl!vars) => [Ctrl!BusReset => ep0'.busy = {}]_(Ctrl!vars)
  BY CtrlResetIdle
<1>3. Ctrl!Init => CtrlInv
  BY CtrlInit
<1> QED BY <1>1, <1>2, <1>3, PTL DEF Ctrl!Spec, Ctrl!ResetClean
-----------------------------------------------------------------------------
(* The receive TRPs of a network device                                    *)

\* With the lists f, s and l of free, started and lost TRPs: each is on one, and on that
\* of the started ones while the controller holds it (b) or its callback runs (d).
RxOn(f, s, l, b, d) ==
    /\ f \subseteq Trps /\ s \subseteq Trps /\ l \subseteq Trps
    /\ b \subseteq s /\ d \subseteq s /\ b \cap d = {}
    /\ s \cap f = {} /\ l \cap (f \cup s) = {}

RxInv == Rx!TypeOK /\ Rx!RxOwned

LEMMA CardAdd ==
    ASSUME NEW S, NEW T, IsFiniteSet(S), IsFiniteSet(T), S \cap T = {}
    PROVE  /\ IsFiniteSet(S \cup T)
           /\ Cardinality(S \cup T) = Cardinality(S) + Cardinality(T)
           /\ Cardinality(S) \in Nat /\ Cardinality(T) \in Nat
BY FS_Union, FS_EmptySet, FS_CardinalityType

LEMMA CardTake ==
    ASSUME NEW S, NEW T, IsFiniteSet(S), T \subseteq S
    PROVE  /\ IsFiniteSet(S \ T) /\ IsFiniteSet(T)
           /\ Cardinality(S \ T) = Cardinality(S) - Cardinality(T)
           /\ Cardinality(S \ T) \in Nat /\ Cardinality(T) \in Nat
<1>1. IsFiniteSet(S \ T) /\ IsFiniteSet(T)
  BY FS_Subset
<1>2. S = (S \ T) \cup T /\ (S \ T) \cap T = {}
  OBVIOUS
<1>3. /\ Cardinality((S \ T) \cup T) = Cardinality(S \ T) + Cardinality(T)
      /\ Cardinality(S \ T) \in Nat /\ Cardinality(T) \in Nat
  BY <1>1, <1>2, CardAdd
<1>4. Cardinality((S \ T) \cup T) = Cardinality(S)
  BY <1>2
<1> QED BY <1>1, <1>3, <1>4

\* Inside the instance the library's operators are its own.
LEMMA RxCard == \A S : Rx!Cardinality(S) = Cardinality(S)
BY DEF Rx!Cardinality, Cardinality, Rx!IsFiniteSet, IsFiniteSet

LEMMA RxInvIs ==
    RxInv <=> /\ Rx!TypeOK /\ RxOn(free, start, lost, busy, done)
              /\ n_start = Cardinality(start) /\ n_total = Cardinality(Rx!Alloc)
BY RxCard DEF RxInv, Rx!TypeOK, Rx!RxOwned, RxOn

\* __net_rx_trps_submit takes TRPs of the free list only: those it submits are started,
\* one that fails is on no list and stays counted.
LEMMA RxSubmit ==
    ASSUME IsFiniteSet(Trps), RxInv, NEW f, NEW s, NEW b,
           RxOn(f, s, lost, b, done), Rx!Submit(f, s, b), UNCHANGED done
    PROVE  /\ RxOn(free', start', lost', busy', done')
           /\ n_start' = Cardinality(start') /\ n_start' \in Nat
           /\ Rx!Alloc' = f \cup s \cup lost
<1>1. PICK S \in SUBSET f :
         /\ start' = s \cup S /\ busy' = b \cup S
         /\ n_start' = Cardinality(s \cup S) + n_start - Cardinality(start)
         /\ \/ free' = f \ S /\ UNCHANGED lost
            \/ \E t \in f \ S : free' = f \ (S \cup {t}) /\ lost' = lost \cup {t}
  BY RxCard DEF Rx!Submit
<1>2. RxOn(free', start', lost', busy', done') /\ Rx!Alloc' = f \cup s \cup lost
  BY <1>1 DEF RxOn, Rx!Alloc
<1>3. Cardinality(start') \in Nat /\ Cardinality(start) \in Nat
  BY <1>2, FS_Subset, FS_CardinalityType DEF RxOn, RxInv, Rx!TypeOK
<1> QED BY <1>1, <1>2, <1>3, RxInvIs

\* TRPs that __net_rx_trp_alloc adds are on no list yet.
LEMMA RxAllocated ==
    ASSUME IsFiniteSet(Trps), RxInv, NEW n, NEW S, Rx!Allocated(n, S),
           n_total' = n_total + Rx!Cardinality(S)
    PROVE  /\ S \subseteq Trps \ Rx!Alloc
           /\ n_total' = Cardinality(Rx!Alloc \cup S) /\ n_total' \in Nat
<1>1. S \subseteq Trps \ Rx!Alloc /\ Rx!Alloc \subseteq Trps
  BY DEF Rx!Allocated, RxInv, Rx!TypeOK, Rx!Alloc
<1>2. IsFiniteSet(S) /\ IsFiniteSet(Rx!Alloc) /\ S \cap Rx!Alloc = {}
  BY <1>1, FS_Subset
<1>3. /\ Cardinality(Rx!Alloc \cup S) = Cardinality(Rx!Alloc) + Cardinality(S)
      /\ Cardinality(Rx!Alloc) \in Nat /\ Cardinality(S) \in Nat
  BY <1>2, CardAdd
<1> QED BY <1>1, <1>3, RxCard, RxInvIs

LEMMA RxStep ==
    ASSUME IsFiniteSet(Trps), RxInv, [Rx!Next]_(Rx!netVars)
    PROVE  RxInv'
<1> USE RxInvIs
<1>0. /\ Rx!TypeOK /\ RxOn(free, start, lost, busy, done)
      /\ n_start = Cardinality(start) /\ n_total = Cardinality(Rx!Alloc)
  OBVIOUS
<1>1. ASSUME RxOn(free', start', lost', busy', done'), n_start' = Cardinality(start'),
             n_total' = Cardinality(Rx!Alloc'), n_start' \in Nat, n_total' \in Nat,
             kill' \in BOOLEAN, halt' \subseteq {"tx", "rx"}, netOp' \in {"idle", "stop"}
      PROVE  RxInv'
  <2>1. Rx!TypeOK'
    BY <1>1 DEF Rx!TypeOK, RxOn
  <2>2. Rx!RxOwned'
    BY <1>1, RxCard DEF Rx!RxOwned, RxOn
  <2> QED BY <2>1, <2>2 DEF RxInv
<1>2. IsFiniteSet(free) /\ IsFiniteSet(start) /\ IsFiniteSet(lost) /\ IsFiniteSet(Rx!Alloc)
  <2>1. Rx!Alloc \subseteq Trps
    BY DEF Rx!TypeOK, Rx!Alloc
  <2> QED BY <2>1, FS_Subset DEF Rx!TypeOK
<1>3. ASSUME UNCHANGED <<free, start, lost, n_total, n_start, busy, done>>,
             kill' \in BOOLEAN, halt' \subseteq {"tx", "rx"}, netOp' \in {"idle", "stop"}
      PROVE  RxInv'
  BY <1>0, <1>1, <1>3 DEF Rx!TypeOK, Rx!Alloc
<1>4. CASE Rx!NetStart
  <2>1. PICK S \in SUBSET Trps :
           /\ Rx!Allocated(QLen, S) /\ n_total' = n_total + Rx!Cardinality(S)
           /\ Rx!Submit(free \cup S, start, busy) \/ Rx!NoSubmit(free \cup S)
    BY <1>4 DEF Rx!NetStart
  <2>2. UNCHANGED <<done, kill, halt, netOp>>
    BY <1>4 DEF Rx!NetStart
  <2>3. /\ S \subseteq Trps \ Rx!Alloc
        /\ n_total' = Cardinality(Rx!Alloc \cup S) /\ n_total' \in Nat
    BY <2>1, RxAllocated
  <2>4. RxOn(free \cup S, start, lost, busy, done)
    BY <1>0, <2>3 DEF RxOn, Rx!Alloc
  <2>5. /\ RxOn(free', start', lost', busy', done')
        /\ n_start' = Cardinality(start') /\ n_start' \in Nat
        /\ Rx!Alloc' = free \cup S \cup start \cup lost
    <3>1. CASE Rx!Submit(free \cup S, start, busy)
      BY <2>2, <2>4, <3>1, RxSubmit
    <3>2. CASE Rx!NoSubmit(free \cup S)
      BY <1>0, <2>2, <2>4, <3>2 DEF Rx!NoSubmit, Rx!TypeOK, Rx!Alloc
    <3> QED BY <2>1, <3>1, <3>2
  <2>6. Rx!Alloc' = Rx!Alloc \cup S
    BY <2>5 DEF Rx!Alloc
  <2> QED BY <1>0, <1>1, <2>2, <2>3, <2>5, <2>6 DEF Rx!TypeOK
<1>5. CASE Rx!StopKill
  BY <1>3, <1>5 DEF Rx!StopKill, Rx!TypeOK
<1>6. CASE Rx!StopFree
  <2> DEFINE C == Rx!Cancelled
  <2>1. C \subseteq start /\ C = start \cap busy
    BY DEF Rx!Cancelled
  <2>2. /\ free' = {} /\ start' = start \ C /\ busy' = busy \ C
        /\ n_start' = n_start - Cardinality(C) /\ n_total' = n_total - Cardinality(free \cup C)
        /\ UNCHANGED <<lost, done>> /\ netOp' = "idle" /\ kill' = FALSE /\ halt' = {}
    BY <1>6, RxCard DEF Rx!StopFree
  <2> HIDE DEF C
  <2>3. RxOn(free', start', lost', busy', done')
    BY <1>0, <2>1, <2>2 DEF RxOn
  <2>4. n_start' = Cardinality(start') /\ n_start' \in Nat
    BY <1>0, <1>2, <2>1, <2>2, CardTake
  <2>5. free \cup C \subseteq Rx!Alloc /\ Rx!Alloc' = Rx!Alloc \ (free \cup C)
    BY <1>0, <2>1, <2>2 DEF Rx!Alloc, RxOn
  <2>6. n_total' = Cardinality(Rx!Alloc') /\ n_total' \in Nat
    BY <1>0, <1>2, <2>2, <2>5, CardTake
  <2> QED BY <1>1, <2>2, <2>3, <2>4, <2>6
<1>7. ASSUME NEW t \in Trps, Rx!Complete(t)
      PROVE  RxInv'
  <2>1. RxOn(free', start', lost', busy', done')
    BY <1>0, <1>7 DEF RxOn, Rx!Complete
  <2> QED BY <1>0, <1>1, <1>7, <2>1 DEF Rx!Complete, Rx!TypeOK, Rx!Alloc
<1>8. ASSUME NEW t \in Trps, Rx!RxDone(t)
      PROVE  RxInv'
  <2>1. t \in start /\ UNCHANGED <<lost, n_total, kill, halt, netOp>>
    BY <1>0, <1>8 DEF Rx!RxDone, RxOn
  <2>2. RxOn(free', start', lost', busy', done') /\ Rx!Alloc' = Rx!Alloc
    BY <1>0, <1>8, <2>1 DEF RxOn, Rx!RxDone, Rx!Alloc
  <2>3. n_start' = Cardinality(start') /\ n_start' \in Nat
    BY <1>0, <1>2, <1>8, <2>1, FS_RemoveElement, FS_CardinalityType DEF Rx!RxDone
  <2> QED BY <1>0, <1>1, <2>1, <2>2, <2>3 DEF Rx!TypeOK
<1>9. ASSUME NEW d \in {"tx", "rx"}, Rx!Halt(d)
      PROVE  RxInv'
  BY <1>3, <1>9 DEF Rx!Halt, Rx!TypeOK
<1>10. CASE Rx!Process
  <2> DEFINE F == Rx!Flushed
  <2>1. F = start \cap busy \/ F = {}
    BY DEF Rx!Flushed, Rx!Cancelled
  <2>2. UNCHANGED <<done, kill, netOp>>
    BY <1>10 DEF Rx!Process
  <2>3. ASSUME NEW n, NEW S \in SUBSET Trps, halt' = {},
               Rx!Allocated(n, S), n_total' = n_total + Rx!Cardinality(S),
               Rx!Submit(free \cup S \cup F, start \ F, busy \ F)
        PROVE  RxInv'
    <3> HIDE DEF F
    <3>1. /\ S \subseteq Trps \ Rx!Alloc
          /\ n_total' = Cardinality(Rx!Alloc \cup S) /\ n_total' \in Nat
      BY <2>3, RxAllocated
    <3>2. RxOn(free \cup S \cup F, start \ F, lost, busy \ F, done)
      BY <1>0, <2>1, <3>1 DEF RxOn, Rx!Alloc
    <3>3. /\ RxOn(free', start', lost', busy', done')
          /\ n_start' = Cardinality(start') /\ n_start' \in Nat
          /\ Rx!Alloc' = (free \cup S \cup F) \cup (start \ F) \cup lost
      BY <2>2, <2>3, <3>2, RxSubmit
    <3>4. Rx!Alloc' = Rx!Alloc \cup S
      BY <2>1, <3>3 DEF Rx!Alloc
    <3> QED BY <1>0, <1>1, <2>2, <2>3, <3>1, <3>3, <3>4 DEF Rx!TypeOK
  <2>4. ASSUME NEW C \in {{}, F}, halt' \subseteq {"tx", "rx"}, start' = start \ C, busy' = busy \ C,
               free' = free \cup C, n_start' = n_start - Cardinality(C), UNCHANGED <<lost, n_total>>
        PROVE  RxInv'
    <3>1. C = {} \/ C = start \cap busy
      BY <2>1
    <3>2. RxOn(free', start', lost', busy', done') /\ Rx!Alloc' = Rx!Alloc
      BY <1>0, <2>2, <2>4, <3>1 DEF RxOn, Rx!Alloc
    <3>3. n_start' = Cardinality(start') /\ n_start' \in Nat
      BY <1>0, <1>2, <2>4, <3>1, CardTake
    <3> QED BY <1>0, <1>1, <2>2, <2>4, <3>2, <3>3 DEF Rx!TypeOK
  <2>5. halt \subseteq {"tx", "rx"}
    BY <1>0 DEF Rx!TypeOK
  <2> HIDE DEF F
  <2> QED BY <1>10, <2>3, <2>4, <2>5, RxCard DEF Rx!Process, F
<1>11. CASE UNCHANGED Rx!netVars
  BY <1>0, <1>3, <1>11 DEF Rx!netVars, Rx!TypeOK
<1> QED BY <1>4, <1>5, <1>6, <1>7, <1>8, <1>9, <1>10, <1>11 DEF Rx!Next

LEMMA RxInit ==
    ASSUME Rx!Init
    PROVE  RxInv
BY RxInvIs, FS_EmptySet DEF Rx!Init, Rx!TypeOK, RxOn, Rx!Alloc

\* With any number of TRPs, any queue length and any halts, starts and stops: no TRP
\* that the controller holds or whose callback runs is free, and the counters are
\* those of the lists.
THEOREM RxListsExact ==
    ASSUME IsFiniteSet(Trps)
    PROVE  Rx!Spec => []Rx!RxOwned
<1>1. RxInv /\ [Rx!Next]_(Rx!netVars) => RxInv'
  BY RxStep
<1>2. Rx!Init => RxInv
  BY RxInit
<1>3. RxInv => Rx!RxOwned
  BY DEF RxInv
<1> QED BY <1>1, <1>2, <1>3, PTL DEF Rx!Spec
-----------------------------------------------------------------------------
(* The receive buffer of a network device                                  *)

RingParams == RingSize \in Nat \ {0} /\ MaxPut \in Nat /\ MaxByte \in Nat

\* How far place i is ahead of the reader, and how many places are still to be read.
Ahead(i) == IF i >= rd_pos THEN i - rd_pos ELSE i + RingSize - rd_pos
Pending == IF rd_pos <= data_pos THEN data_pos - rd_pos ELSE RingSize - rd_pos + data_pos

\* What is still to be read was received, in the order of its places; what the last
\* read returned came before it, in its order.
RingInv ==
    /\ Bytes!TypeOK
    /\ \A i \in Bytes!Places : Ahead(i) < Pending => ring[i] <= received
    /\ \A i, j \in Bytes!Places :
          Ahead(i) < Ahead(j) /\ Ahead(j) < Pending => ring[i] < ring[j]
    /\ \A j, k \in DOMAIN last : j < k => last[j] < last[k]
    /\ \A k \in DOMAIN last : \A i \in Bytes!Places : Ahead(i) < Pending => last[k] < ring[i]

\* A put takes no more than it is given, nor more places than are free; where the code
\* takes one too many nothing is left to be read.
LEMMA RingTaken ==
    ASSUME RingParams, Bytes!TypeOK, NEW n \in 1 .. MaxPut
    PROVE  /\ Bytes!Taken(n) \in 0 .. n
           /\ \/ Bytes!Taken(n) + Pending < RingSize
              \/ rd_pos > data_pos /\ Bytes!Taken(n) = rd_pos - data_pos
BY DEF RingParams, Bytes!TypeOK, Bytes!Places, Bytes!Taken, Bytes!Least, Pending

LEMMA RingPut ==
    ASSUME RingParams, RingInv, NEW n \in 1 .. MaxPut, Bytes!Put(n)
    PROVE  RingInv'
<1> DEFINE t == Bytes!Taken(n)
           P(i) == IF i >= data_pos THEN i - data_pos ELSE i + RingSize - data_pos
<1>1. t \in 0 .. n /\ (t + Pending < RingSize \/ (rd_pos > data_pos /\ t = rd_pos - data_pos))
  BY RingTaken DEF RingInv
<1> HIDE DEF t
<1>2. /\ received + n <= MaxByte /\ received' = received + n /\ last' = <<>>
      /\ rd_pos' = rd_pos /\ data_pos' = Bytes!Wrap(data_pos + t)
      /\ ring' = [i \in Bytes!Places |-> IF P(i) < t THEN received + P(i) + 1 ELSE ring[i]]
  BY DEF Bytes!Put, t
<1>3. /\ RingSize \in Nat \ {0} /\ MaxPut \in Nat /\ MaxByte \in Nat
      /\ ring \in [Bytes!Places -> 0 .. MaxByte] /\ data_pos \in 0 .. RingSize - 1
      /\ rd_pos \in 0 .. RingSize - 1 /\ received \in 0 .. MaxByte
  BY DEF RingInv, Bytes!TypeOK, Bytes!Places, RingParams
<1>4. Bytes!TypeOK'
  <2>1. ring' \in [Bytes!Places -> 0 .. MaxByte]
    BY <1>1, <1>2, <1>3 DEF Bytes!Places
  <2>2. data_pos' \in 0 .. RingSize - 1
    BY <1>1, <1>2, <1>3 DEF Bytes!Wrap, Pending
  <2>3. received' \in 0 .. MaxByte /\ last' \in Seq(0 .. MaxByte)
    BY <1>2, <1>3
  <2> QED BY <1>2, <1>3, <2>1, <2>2, <2>3 DEF Bytes!TypeOK, Bytes!Places
<1>5. Pending' = 0 \/ Pending' = Pending + t
  BY <1>1, <1>2, <1>3 DEF Pending, Bytes!Wrap
<1>6. ASSUME NEW i \in Bytes!Places, Ahead(i) < Pending + t, t + Pending < RingSize
      PROVE  IF Ahead(i) < Pending THEN ring'[i] = ring[i]
             ELSE ring'[i] = received + (Ahead(i) - Pending) + 1
  <2>1. P(i) = IF Ahead(i) < Pending THEN Ahead(i) + RingSize - Pending ELSE Ahead(i) - Pending
    BY <1>1, <1>3, <1>6 DEF Ahead, Pending, Bytes!Places
  <2>2. ring'[i] = IF P(i) < t THEN received + P(i) + 1 ELSE ring[i]
    BY <1>2
  <2>3. Ahead(i) \in Nat /\ Pending \in Nat /\ t \in Nat
    BY <1>1, <1>3 DEF Ahead, Pending, Bytes!Places
  <2> HIDE DEF P
  <2> QED BY <1>3, <1>6, <2>1, <2>2, <2>3
<1>7. \A i \in Bytes!Places : Ahead(i)' = Ahead(i) /\ Ahead(i) \in Nat
  BY <1>2, <1>3 DEF Ahead, Bytes!Places
<1>8. Pending \in Nat
  BY <1>3 DEF Pending
<1>9. \/ Pending' = 0
      \/ Pending' = Pending + t /\ t + Pending < RingSize
  BY <1>1, <1>2, <1>3 DEF Pending, Bytes!Wrap
<1>10. \A i \in Bytes!Places : Ahead(i)' < Pending' => ring'[i] <= received'
  BY <1>1, <1>2, <1>3, <1>6, <1>7, <1>8, <1>9 DEF RingInv
<1>11. \A i, j \in Bytes!Places :
          Ahead(i)' < Ahead(j)' /\ Ahead(j)' < Pending' => ring'[i] < ring'[j]
  <2> SUFFICES ASSUME NEW i \in Bytes!Places, NEW j \in Bytes!Places,
                      Ahead(i) < Ahead(j), Ahead(j) < Pending + t, t + Pending < RingSize
               PROVE  ring'[i] < ring'[j]
    BY <1>7, <1>8, <1>9
  <2>1. Ahead(i) \in Nat /\ Ahead(j) \in Nat /\ Ahead(i) < Pending + t /\ t \in Nat
    BY <1>1, <1>7, <1>8
  <2>2. CASE Ahead(j) < Pending
    BY <1>6, <1>8, <2>1, <2>2 DEF RingInv
  <2>3. CASE Ahead(i) < Pending /\ ~(Ahead(j) < Pending)
    <3>1. ring[i] <= received /\ ring[i] \in Int
      BY <1>3, <2>3 DEF RingInv
    <3>2. ring'[i] = ring[i] /\ ring'[j] = received + (Ahead(j) - Pending) + 1
      BY <1>6, <2>1, <2>3
    <3> QED BY <1>3, <1>8, <2>1, <2>3, <3>1, <3>2
  <2>4. CASE ~(Ahead(i) < Pending)
    <3>1. ~(Ahead(j) < Pending)
      BY <1>8, <2>1, <2>4
    <3>2. /\ ring'[i] = received + (Ahead(i) - Pending) + 1
          /\ ring'[j] = received + (Ahead(j) - Pending) + 1
      BY <1>6, <2>1, <2>4, <3>1
    <3> QED BY <1>3, <1>8, <2>1, <3>2
  <2> QED BY <2>2, <2>3, <2>4
<1> QED BY <1>2, <1>4, <1>10, <1>11 DEF RingInv

LEMMA RingRead ==
    ASSUME RingParams, RingInv, NEW n \in 1 .. MaxPut, Bytes!Read(n)
    PROVE  RingInv'
<1> DEFINE g == Bytes!Given(n)
<1>1. /\ RingSize \in Nat \ {0} /\ MaxPut \in Nat /\ MaxByte \in Nat
      /\ ring \in [Bytes!Places -> 0 .. MaxByte] /\ data_pos \in 0 .. RingSize - 1
      /\ rd_pos \in 0 .. RingSize - 1 /\ received \in 0 .. MaxByte
  BY DEF RingInv, Bytes!TypeOK, Bytes!Places, RingParams
<1>2. g \in 0 .. Pending
  BY <1>1 DEF Bytes!Given, Bytes!Least, Pending
<1> HIDE DEF g
<1>3. /\ last' = [k \in 1 .. g |-> ring[Bytes!Wrap(rd_pos + k - 1)]]
      /\ rd_pos' = Bytes!Wrap(rd_pos + g) /\ UNCHANGED <<ring, data_pos, received>>
  BY DEF Bytes!Read, g
<1>4. ASSUME NEW k \in 1 .. g
      PROVE  /\ Bytes!Wrap(rd_pos + k - 1) \in Bytes!Places
             /\ Ahead(Bytes!Wrap(rd_pos + k - 1)) = k - 1
             /\ last'[k] = ring[Bytes!Wrap(rd_pos + k - 1)]
  BY <1>1, <1>2, <1>3, <1>4 DEF Ahead, Pending, Bytes!Wrap, Bytes!Places
<1>5. Pending' = Pending - g
  BY <1>1, <1>2, <1>3 DEF Pending, Bytes!Wrap
<1>6. \A i \in Bytes!Places : Ahead(i)' < Pending' => Ahead(i) = Ahead(i)' + g
  BY <1>1, <1>2, <1>3 DEF Ahead, Pending, Bytes!Wrap, Bytes!Places
<1>7. \A i \in Bytes!Places : Ahead(i) \in Nat /\ Ahead(i)' \in Nat
  BY <1>1, <1>2, <1>3 DEF Ahead, Pending, Bytes!Wrap, Bytes!Places
<1>8. Bytes!TypeOK'
  <2>1. rd_pos' \in 0 .. RingSize - 1
    BY <1>1, <1>2, <1>3 DEF Pending, Bytes!Wrap
  <2>2. \A k \in 1 .. g : ring[Bytes!Wrap(rd_pos + k - 1)] \in 0 .. MaxByte
    BY <1>1, <1>4
  <2>3. g \in Nat /\ last' \in Seq(0 .. MaxByte)
    BY <1>1, <1>2, <1>3, <2>2 DEF Pending
  <2> QED BY <1>1, <1>3, <2>1, <2>3 DEF Bytes!TypeOK, Bytes!Places
<1>9. DOMAIN last' = 1 .. g /\ g \in Nat /\ Pending \in Nat
  BY <1>1, <1>2, <1>3 DEF Pending
<1>10. \A i \in Bytes!Places : Ahead(i)' < Pending' => ring'[i] <= received'
  BY <1>2, <1>3, <1>5, <1>6, <1>7, <1>9 DEF RingInv
<1>11. \A i, j \in Bytes!Places :
          Ahead(i)' < Ahead(j)' /\ Ahead(j)' < Pending' => ring'[i] < ring'[j]
  <2> SUFFICES ASSUME NEW i \in Bytes!Places, NEW j \in Bytes!Places,
                      Ahead(i)' < Ahead(j)', Ahead(j)' < Pending'
               PROVE  ring[i] < ring[j]
    BY <1>3
  <2>1. Ahead(i)' < Pending'
    BY <1>2, <1>5, <1>7, <1>9
  <2>2. Ahead(i) < Ahead(j) /\ Ahead(j) < Pending
    BY <1>2, <1>5, <1>6, <1>7, <1>9, <2>1
  <2> QED BY <2>2 DEF RingInv
<1>12. \A j, k \in 1 .. g : j < k => last'[j] < last'[k]
  <2> SUFFICES ASSUME NEW j \in 1 .. g, NEW k \in 1 .. g, j < k
               PROVE  last'[j] < last'[k]
    OBVIOUS
  <2> DEFINE v == Bytes!Wrap(rd_pos + j - 1)
             w == Bytes!Wrap(rd_pos + k - 1)
  <2>1. /\ v \in Bytes!Places /\ Ahead(v) = j - 1 /\ last'[j] = ring[v]
        /\ w \in Bytes!Places /\ Ahead(w) = k - 1 /\ last'[k] = ring[w]
    BY <1>4
  <2> HIDE DEF v, w
  <2>2. Ahead(v) < Ahead(w) /\ Ahead(w) < Pending
    BY <1>2, <1>9, <2>1
  <2> QED BY <2>1, <2>2 DEF RingInv
<1>13. \A k \in 1 .. g : \A i \in Bytes!Places : Ahead(i)' < Pending' => last'[k] < ring'[i]
  <2> SUFFICES ASSUME NEW k \in 1 .. g, NEW i \in Bytes!Places, Ahead(i)' < Pending'
               PROVE  last'[k] < ring[i]
    BY <1>3
  <2> DEFINE w == Bytes!Wrap(rd_pos + k - 1)
  <2>1. w \in Bytes!Places /\ Ahead(w) = k - 1 /\ last'[k] = ring[w]
    BY <1>4
  <2> HIDE DEF w
  <2>2. Ahead(w) < Ahead(i) /\ Ahead(i) < Pending
    BY <1>2, <1>5, <1>6, <1>7, <1>9, <2>1
  <2> QED BY <2>1, <2>2 DEF RingInv
<1> QED BY <1>8, <1>9, <1>10, <1>11, <1>12, <1>13 DEF RingInv

LEMMA RingStep ==
    ASSUME RingParams, RingInv, [Bytes!Next]_(Bytes!ringVars)
    PROVE  RingInv'
<1>1. CASE UNCHANGED Bytes!ringVars
  BY <1>1 DEF Bytes!ringVars, RingInv, Bytes!TypeOK, Ahead, Pending
<1> QED BY <1>1, RingPut, RingRead DEF Bytes!Next

LEMMA RingInit ==
    ASSUME RingParams, Bytes!Init
    PROVE  RingInv
BY DEF RingParams, Bytes!Init, RingInv, Bytes!TypeOK, Bytes!Places, Ahead, Pending

LEMMA Joined ==
    ASSUME NEW S, NEW a \in Seq(S), NEW b \in Seq(S)
    PROVE  /\ a \o b \in Seq(S) /\ Len(a \o b) = Len(a) + Len(b)
           /\ \A i \in 1 .. Len(a) : (a \o b)[i] = a[i]
           /\ \A i \in 1 .. Len(a) + Len(b) :
                 i > Len(a) => (a \o b)[i] = b[i - Len(a)] /\ i - Len(a) \in 1 .. Len(b)
OBVIOUS

LEMMA RingInOrder ==
    ASSUME RingParams, RingInv
    PROVE  Bytes!RingOrder
<1> DEFINE n == Pending
           toRead == [k \in 1 .. n |-> ring[Bytes!Wrap(rd_pos + k - 1)]]
           out == last \o toRead
<1>1. /\ RingSize \in Nat \ {0} /\ MaxByte \in Nat /\ last \in Seq(0 .. MaxByte)
      /\ ring \in [Bytes!Places -> 0 .. MaxByte] /\ data_pos \in 0 .. RingSize - 1
      /\ rd_pos \in 0 .. RingSize - 1
  BY DEF RingInv, Bytes!TypeOK, Bytes!Places, RingParams
<1>2. n \in Nat
  BY <1>1 DEF Pending
<1>3. ASSUME NEW k \in 1 .. n
      PROVE  /\ Bytes!Wrap(rd_pos + k - 1) \in Bytes!Places
             /\ Ahead(Bytes!Wrap(rd_pos + k - 1)) = k - 1
  BY <1>1, <1>3 DEF Ahead, Pending, Bytes!Wrap, Bytes!Places
<1>4. toRead \in Seq(0 .. MaxByte) /\ Len(toRead) = n
  <2>1. \A k \in 1 .. n : ring[Bytes!Wrap(rd_pos + k - 1)] \in 0 .. MaxByte
    BY <1>1, <1>3
  <2> HIDE DEF n
  <2> QED BY <1>2, <2>1
<1>5. \A j, k \in 1 .. n : j < k => toRead[j] < toRead[k]
  <2> SUFFICES ASSUME NEW j \in 1 .. n, NEW k \in 1 .. n, j < k
               PROVE  ring[Bytes!Wrap(rd_pos + j - 1)] < ring[Bytes!Wrap(rd_pos + k - 1)]
    OBVIOUS
  <2>1. j - 1 < k - 1 /\ k - 1 < Pending
    BY <1>2
  <2> QED BY <1>3, <2>1 DEF RingInv
<1>6. \A j \in DOMAIN last, k \in 1 .. n : last[j] < toRead[k]
  <2> SUFFICES ASSUME NEW j \in DOMAIN last, NEW k \in 1 .. n
               PROVE  last[j] < ring[Bytes!Wrap(rd_pos + k - 1)]
    OBVIOUS
  <2>1. k - 1 < Pending
    BY <1>2
  <2> QED BY <1>3, <2>1 DEF RingInv
<1> HIDE DEF toRead
<1>7. \A j, k \in DOMAIN out : j < k => out[j] < out[k]
  <2> SUFFICES ASSUME NEW j \in DOMAIN out, NEW k \in DOMAIN out, j < k
               PROVE  out[j] < out[k]
    OBVIOUS
  <2>1. DOMAIN last = 1 .. Len(last) /\ Len(last) \in Nat /\ DOMAIN out = 1 .. Len(last) + n
    <3>1. out \in Seq(0 .. MaxByte) /\ Len(out) = Len(last) + Len(toRead)
      BY <1>1, <1>4, Joined
    <3> HIDE DEF out
    <3>2. DOMAIN out = 1 .. Len(out) /\ DOMAIN last = 1 .. Len(last) /\ Len(last) \in Nat
      BY <1>1, <3>1
    <3> QED BY <1>4, <3>1, <3>2
  <2>2. \A i \in 1 .. Len(last) : out[i] = last[i]
    BY <1>1, <1>4, Joined
  <2>3. \A i \in 1 .. Len(last) + n : i > Len(last) => out[i] = toRead[i - Len(last)] /\ i - Len(last) \in 1 .. n
    <3> HIDE DEF n
    <3> QED BY <1>1, <1>2, <1>4, Joined
  <2>4. \A a, b \in DOMAIN last : a < b => last[a] < last[b]
    BY DEF RingInv
  <2> HIDE DEF out, n
  <2> QED BY <1>2, <1>5, <1>6, <2>1, <2>2, <2>3, <2>4
<1> QED BY <1>7 DEF Bytes!RingOrder, Pending, toRead

\* In a ring of any size, filled and read by any amounts: what is read is what was
\* received, in its order and once, although bytes are lost when it is full.
THEOREM RingReadsInOrder ==
    ASSUME RingParams
    PROVE  Bytes!Spec => []Bytes!RingOrder
<1>1. RingInv /\ [Bytes!Next]_(Bytes!ringVars) => RingInv'
  BY RingStep
<1>2. Bytes!Init => RingInv
  BY RingInit
<1>3. RingInv => Bytes!RingOrder
  BY RingInOrder
<1> QED BY <1>1, <1>2, <1>3, PTL DEF Bytes!Spec
-----------------------------------------------------------------------------
(* The driver of an external hub                                           *)

HubParams == MaxPlug \in Nat /\ ErrMax \in Nat /\ Ports \subseteq Nat

\* The change of port p was neither reported nor lost to the clear of the reset.
HubQuiet(p) == "conn" \notin chg[p] /\ p \notin wiped

\* Until its connection changes, a port has the object of its device or none, unless
\* the handler is just to take it off; and the device it enumerates is the one there.
HubKept ==
    /\ \A p \in Ports :
          HubQuiet(p) /\ ~(thr.at = "disc" /\ thr.port = p) => p_ports[p] \in {0, plug[p]}
    /\ thr.at \in {"conn", "disc", "connect", "enum", "reset"} => thr.port \in Ports
    /\ thr.at = "enum" /\ HubQuiet(thr.port) => thr.dev = plug[thr.port]

HubAts == {"idle", "begin", "port", "conn", "disc", "connect", "enum", "reset"}
HubThrs == [at : HubAts, todo : SUBSET Ports, port : Ports \cup {0}, sta : BOOLEAN,
            change : SUBSET {"conn", "reset"}, dev : 0 .. MaxPlug]

HubRest ==
    /\ plug \in [Ports -> 0 .. MaxPlug] /\ plugged \in [Ports -> 0 .. MaxPlug]
    /\ chg \in [Ports -> SUBSET {"conn", "reset"}]
    /\ hub_status \in {"HALTED", "RUNNING", "STOP"}
    /\ trp \in [at : {"idle", "busy", "done"}, ok : BOOLEAN, data : SUBSET Ports]
    /\ err_cnt \in 0 .. ErrMax /\ p_ports \in [Ports -> 0 .. MaxPlug]
    /\ wiped \subseteq Ports

HubInv == HubRest /\ thr \in HubThrs /\ Hub!Polled /\ HubKept

\* What the hub thread can become in a step.
LEMMA HubThr ==
    ASSUME HubParams, NEW t \in HubThrs
    PROVE  /\ Hub!IdleThr \in HubThrs /\ [Hub!IdleThr EXCEPT !.at = "begin"] \in HubThrs
           /\ \A a \in HubAts : [t EXCEPT !.at = a] \in HubThrs
           /\ \A S \in SUBSET Ports :
                 /\ [t EXCEPT !.todo = S] \in HubThrs
                 /\ [t EXCEPT !.at = "port", !.todo = S] \in HubThrs
                 /\ \A p \in Ports, s \in BOOLEAN, C \in SUBSET {"conn", "reset"} :
                       [t EXCEPT !.at = "conn", !.todo = S, !.port = p, !.sta = s, !.change = C]
                          \in HubThrs
           /\ \A d \in 0 .. MaxPlug : [t EXCEPT !.at = "enum", !.dev = d] \in HubThrs
<1>1. Hub!IdleThr \in HubThrs
  BY DEF HubParams, HubThrs, HubAts, Hub!IdleThr
<1>2. \A r \in HubThrs, a \in HubAts : [r EXCEPT !.at = a] \in HubThrs
  BY DEF HubThrs, HubAts
<1>3. [Hub!IdleThr EXCEPT !.at = "begin"] \in HubThrs
  <2>1. "begin" \in HubAts
    BY DEF HubAts
  <2> QED BY <1>1, <1>2, <2>1
<1>4. \A S \in SUBSET Ports : /\ [t EXCEPT !.todo = S] \in HubThrs
                             /\ [t EXCEPT !.at = "port", !.todo = S] \in HubThrs
  BY DEF HubThrs, HubAts
<1>5. \A S \in SUBSET Ports, p \in Ports, s \in BOOLEAN, C \in SUBSET {"conn", "reset"} :
         [t EXCEPT !.at = "conn", !.todo = S, !.port = p, !.sta = s, !.change = C] \in HubThrs
  BY DEF HubThrs, HubAts
<1>6. \A d \in 0 .. MaxPlug : [t EXCEPT !.at = "enum", !.dev = d] \in HubThrs
  BY DEF HubThrs, HubAts
<1> QED BY <1>1, <1>2, <1>3, <1>4, <1>5, <1>6

LEMMA HubInit ==
    ASSUME HubParams, Hub!Init
    PROVE  HubInv
<1>1. Hub!IdleThr \in HubThrs
  BY DEF HubParams, HubThrs, HubAts, Hub!IdleThr
<1>2. HubRest
  BY DEF HubParams, Hub!Init, HubRest
<1>3. Hub!Polled /\ HubKept
  BY DEF Hub!Init, Hub!Polled, HubKept, Hub!IdleThr
<1> QED BY <1>1, <1>2, <1>3 DEF HubInv, Hub!Init

LEMMA HubStep ==
    ASSUME HubParams, HubInv, [Hub!Next]_(Hub!hubVars)
    PROVE  HubInv'
<1> USE DEF HubParams, HubInv
<1>0. thr.at \in {"conn", "disc", "connect", "enum", "reset"} => thr.port \in Ports
  BY DEF HubKept
<1>1. ASSUME NEW p \in Ports, Hub!Plug(p)
      PROVE  HubInv'
  <2>1. thr' \in HubThrs
    BY <1>1, HubThr DEF Hub!Plug, HubRest, HubAts
  <2>2. HubRest'
    BY <1>1 DEF Hub!Plug, HubRest, HubThrs, HubAts
  <2>3. Hub!Polled'
    BY <1>1 DEF Hub!Plug, HubRest, HubThrs, HubAts, Hub!Polled
  <2>4. HubKept'
    BY <1>1 DEF Hub!Plug, HubRest, HubThrs, HubAts, HubKept, HubQuiet
  <2> QED BY <2>1, <2>2, <2>3, <2>4
<1>2. ASSUME NEW p \in Ports, Hub!Unplug(p)
      PROVE  HubInv'
  <2>1. thr' \in HubThrs
    BY <1>2, HubThr DEF Hub!Unplug, HubRest, HubAts
  <2>2. HubRest'
    BY <1>2 DEF Hub!Unplug, HubRest, HubThrs, HubAts
  <2>3. Hub!Polled'
    BY <1>2 DEF Hub!Unplug, HubRest, HubThrs, HubAts, Hub!Polled
  <2>4. HubKept'
    BY <1>2 DEF Hub!Unplug, HubRest, HubThrs, HubAts, HubKept, HubQuiet
  <2> QED BY <2>1, <2>2, <2>3, <2>4
<1>3. CASE Hub!IntrDone
  <2>1. UNCHANGED <<plug, plugged, chg, hub_status, err_cnt, p_ports, thr, stopping, deaf, wiped>> /\ evt'
    BY <1>3 DEF Hub!IntrDone
  <2>2. trp' \in [at : {"idle", "busy", "done"}, ok : BOOLEAN, data : SUBSET Ports]
    <3>1. {p \in Ports : chg[p] # {}} \in SUBSET Ports /\ {} \in SUBSET Ports
      OBVIOUS
    <3>2. PICK o \in BOOLEAN, S \in SUBSET Ports : trp' = [at |-> "done", ok |-> o, data |-> S]
      BY <1>3, <3>1 DEF Hub!IntrDone
    <3> QED BY <3>2
  <2> QED BY <2>1, <2>2 DEF HubRest, Hub!Polled, HubKept, HubQuiet
<1>4. CASE Hub!HubEvt
  <2>1. thr' \in HubThrs
    BY <1>4, HubThr DEF Hub!HubEvt, Hub!Goto, HubRest, HubAts
  <2>2. HubRest'
    BY <1>4 DEF Hub!HubEvt, Hub!Goto, HubRest, HubThrs, HubAts
  <2>3. Hub!Polled'
    BY <1>4 DEF Hub!HubEvt, Hub!Goto, Hub!IdleThr, HubRest, HubThrs, HubAts, Hub!Polled
  <2>4. HubKept'
    BY <1>4 DEF Hub!HubEvt, Hub!Goto, Hub!IdleThr, HubRest, HubThrs, HubAts, HubKept,
           HubQuiet
  <2> QED BY <2>1, <2>2, <2>3, <2>4
<1>5. CASE Hub!HandleBegin
  <2>1. /\ UNCHANGED <<plug, plugged, chg, hub_status, evt, p_ports, stopping, wiped>>
        /\ err_cnt' = Hub!ErrCnt /\ thr.at = "begin"
    BY <1>5 DEF Hub!HandleBegin, Hub!Resubmit, Hub!Same
  <2>2. \/ trp' = Hub!Busy /\ ~deaf' /\ thr' = [thr EXCEPT !.at = "port", !.todo = trp.data]
        \/ /\ trp' \in {Hub!Idle, trp} /\ thr' = Hub!IdleThr
           /\ hub_status = "RUNNING" => deaf'
    BY <1>5 DEF Hub!HandleBegin, Hub!Resubmit, Hub!Goto
  <2>3. trp.data \in SUBSET Ports
    BY DEF HubRest
  <2>4. thr' \in HubThrs /\ thr'.at \in {"port", "idle"}
    <3>1. /\ Hub!IdleThr \in HubThrs /\ Hub!IdleThr.at = "idle"
          /\ [thr EXCEPT !.at = "port", !.todo = trp.data] \in HubThrs
      BY <2>3, HubThr DEF Hub!IdleThr
    <3>2. [thr EXCEPT !.at = "port", !.todo = trp.data].at = "port"
      BY DEF HubThrs
    <3> QED BY <2>2, <3>1, <3>2
  <2>5. HubRest'
    <3>1. trp' \in [at : {"idle", "busy", "done"}, ok : BOOLEAN, data : SUBSET Ports]
      <4>1. trp' \in {Hub!Busy, Hub!Idle, trp}
        BY <2>2
      <4>2. /\ Hub!Busy \in [at : {"idle", "busy", "done"}, ok : BOOLEAN, data : SUBSET Ports]
            /\ Hub!Idle \in [at : {"idle", "busy", "done"}, ok : BOOLEAN, data : SUBSET Ports]
        BY DEF Hub!Busy, Hub!Idle
      <4> QED BY <4>1, <4>2 DEF HubRest
    <3>2. err_cnt' \in 0 .. ErrMax
      BY <2>1 DEF HubRest, Hub!ErrCnt
    <3> QED BY <2>1, <3>1, <3>2 DEF HubRest
  <2>6. Hub!Polled'
    BY <2>1, <2>2 DEF Hub!Polled, Hub!Busy
  <2>7. HubKept'
    BY <2>1, <2>4 DEF HubKept, HubQuiet
  <2> QED BY <2>4, <2>5, <2>6, <2>7
<1>6. CASE Hub!PortStatus
  <2>1. /\ UNCHANGED <<plug, plugged, hub_status, evt, stopping, chg, trp, err_cnt, p_ports, deaf, wiped>>
        /\ thr.at = "port"
    BY <1>6 DEF Hub!PortStatus, Hub!Same
  <2>2. PICK p \in thr.todo :
           \/ thr' = [thr EXCEPT !.at = "conn", !.todo = thr.todo \ {p}, !.port = p,
                                 !.sta = plug[p] # 0, !.change = chg[p]]
           \/ thr' = [thr EXCEPT !.todo = thr.todo \ {p}]
    BY <1>6 DEF Hub!PortStatus, Hub!Goto
  <2>3. p \in Ports /\ thr.todo \ {p} \in SUBSET Ports /\ chg[p] \in SUBSET {"conn", "reset"}
    BY DEF HubThrs, HubRest
  <2>4. /\ thr' \in HubThrs /\ thr'.at \in {"conn", "port"}
        /\ thr'.at = "conn" => thr'.port = p
    <3>1. (plug[p] # 0) \in BOOLEAN
      OBVIOUS
    <3>2. CASE thr' = [thr EXCEPT !.at = "conn", !.todo = thr.todo \ {p}, !.port = p,
                                  !.sta = plug[p] # 0, !.change = chg[p]]
      <4>1. thr' \in HubThrs
        BY <2>3, <3>1, <3>2, HubThr
      <4>2. thr'.at = "conn" /\ thr'.port = p
        BY <3>2 DEF HubThrs
      <4> QED BY <4>1, <4>2
    <3>3. CASE thr' = [thr EXCEPT !.todo = thr.todo \ {p}]
      <4>1. thr' \in HubThrs
        BY <2>3, <3>3, HubThr
      <4>2. thr'.at = "port"
        BY <2>1, <3>3 DEF HubThrs
      <4> QED BY <4>1, <4>2
    <3> QED BY <2>2, <3>2, <3>3
  <2>5. HubKept'
    BY <2>1, <2>3, <2>4 DEF HubKept, HubQuiet
  <2> QED BY <2>1, <2>4, <2>5 DEF HubRest, Hub!Polled
<1>7. CASE Hub!HandleEnd
  <2>1. thr' \in HubThrs
    BY <1>7, HubThr DEF Hub!HandleEnd, Hub!Same, Hub!Goto, HubRest, HubAts
  <2>2. HubRest'
    BY <1>7 DEF Hub!HandleEnd, Hub!Same, Hub!Goto, HubRest, HubThrs, HubAts
  <2>3. Hub!Polled'
    BY <1>7 DEF Hub!HandleEnd, Hub!Same, Hub!Goto, Hub!IdleThr, HubRest, HubThrs, HubAts,
           Hub!Polled
  <2>4. HubKept'
    BY <1>7 DEF Hub!HandleEnd, Hub!Same, Hub!Goto, Hub!IdleThr, HubRest, HubThrs, HubAts,
           HubKept, HubQuiet
  <2> QED BY <2>1, <2>2, <2>3, <2>4
<1>8. CASE Hub!Connection
  <2>1. thr' \in HubThrs
    BY ZenonT(60), <1>0, <1>8, HubThr DEF Hub!Connection, Hub!Same, Hub!Goto, Hub!Next1, Hub!Fails,
           HubRest, HubAts
  <2>2. HubRest'
    BY <1>0, <1>8 DEF Hub!Connection, Hub!Same, Hub!Goto, Hub!Next1, Hub!Fails, HubRest,
           HubThrs, HubAts
  <2>3. Hub!Polled'
    BY <1>0, <1>8 DEF Hub!Connection, Hub!Same, Hub!Goto, Hub!Next1, Hub!Fails,
           Hub!IdleThr, HubRest, HubThrs, HubAts, Hub!Polled
  <2>4. HubKept'
    BY <1>0, <1>8 DEF Hub!Connection, Hub!Same, Hub!Goto, Hub!Next1, Hub!Fails,
           Hub!IdleThr, HubRest, HubThrs, HubAts, HubKept, HubQuiet
  <2> QED BY <2>1, <2>2, <2>3, <2>4
<1>9. CASE Hub!Disconnect
  <2>1. thr' \in HubThrs
    BY <1>0, <1>9, HubThr DEF Hub!Disconnect, Hub!Same, Hub!Goto, Hub!Next1, HubRest,
           HubAts
  <2>2. HubRest'
    BY <1>0, <1>9 DEF Hub!Disconnect, Hub!Same, Hub!Goto, Hub!Next1, HubRest, HubThrs,
           HubAts
  <2>3. Hub!Polled'
    BY <1>0, <1>9 DEF Hub!Disconnect, Hub!Same, Hub!Goto, Hub!Next1, Hub!IdleThr,
           HubRest, HubThrs, HubAts, Hub!Polled
  <2>4. HubKept'
    BY <1>0, <1>9 DEF Hub!Disconnect, Hub!Same, Hub!Goto, Hub!Next1, Hub!IdleThr,
           HubRest, HubThrs, HubAts, HubKept, HubQuiet
  <2> QED BY <2>1, <2>2, <2>3, <2>4
<1>10. CASE Hub!Connect
  <2>1. /\ UNCHANGED <<plug, plugged, hub_status, evt, stopping, trp, err_cnt, p_ports, deaf, wiped>>
        /\ thr.at = "connect" /\ thr.port \in Ports
    BY <1>0, <1>10 DEF Hub!Connect, Hub!Same
  <2>2. \/ /\ chg' = [chg EXCEPT ![thr.port] = @ \cup {"reset"}]
           /\ thr' = [thr EXCEPT !.at = "enum", !.dev = plug[thr.port]]
        \/ chg' = chg /\ thr' = [thr EXCEPT !.at = "reset"]
    BY <1>10 DEF Hub!Connect, Hub!Goto, Hub!Next1
  <2>3. plug[thr.port] \in 0 .. MaxPlug
    BY <2>1 DEF HubRest
  <2>4. /\ thr' \in HubThrs
        /\ thr'.port = thr.port /\ thr'.at \in {"enum", "reset"}
        /\ thr'.at = "enum" => thr'.dev = plug[thr.port]
    <3>1. thr' \in HubThrs
      <4>1. /\ [thr EXCEPT !.at = "enum", !.dev = plug[thr.port]] \in HubThrs
            /\ [thr EXCEPT !.at = "reset"] \in HubThrs
        BY <2>3, HubThr DEF HubAts
      <4> QED BY <2>2, <4>1
    <3> QED BY <2>2, <3>1 DEF HubThrs
  <2>5. HubRest'
    BY <2>1, <2>2 DEF HubRest
  <2>6. \A p \in Ports : "conn" \in chg'[p] <=> "conn" \in chg[p]
    BY <2>1, <2>2 DEF HubRest
  <2>7. HubKept'
    BY <2>1, <2>4, <2>6 DEF HubKept, HubQuiet
  <2> QED BY <2>1, <2>4, <2>5, <2>7 DEF Hub!Polled
<1>11. CASE Hub!Enumerate
  <2>1. thr' \in HubThrs
    <3>1. thr' = Hub!IdleThr \/ \E a \in {"reset", "connect"} : thr' = [thr EXCEPT !.at = a]
      BY <1>11 DEF Hub!Enumerate, Hub!Goto, Hub!Next1, Hub!Fails
    <3> QED BY <3>1, HubThr DEF HubAts
  <2>2. HubRest'
    BY <1>0, <1>11 DEF Hub!Enumerate, Hub!Same, Hub!Goto, Hub!Next1, Hub!Fails, HubRest,
           HubThrs, HubAts
  <2>3. Hub!Polled'
    BY <1>0, <1>11 DEF Hub!Enumerate, Hub!Same, Hub!Goto, Hub!Next1, Hub!Fails,
           Hub!IdleThr, HubRest, HubThrs, HubAts, Hub!Polled
  <2>4. HubKept'
    BY <1>0, <1>11 DEF Hub!Enumerate, Hub!Same, Hub!Goto, Hub!Next1, Hub!Fails,
           Hub!IdleThr, HubRest, HubThrs, HubAts, HubKept, HubQuiet
  <2> QED BY <2>1, <2>2, <2>3, <2>4
<1>12. CASE Hub!ResetChange
  <2>1. thr' \in HubThrs
    BY <1>0, <1>12, HubThr DEF Hub!ResetChange, Hub!ResetFeature, Hub!Same, Hub!Goto,
           Hub!Next1, Hub!Fails, HubRest, HubAts
  <2>2. HubRest'
    BY <1>0, <1>12 DEF Hub!ResetChange, Hub!ResetFeature, Hub!Same, Hub!Goto, Hub!Next1,
           Hub!Fails, HubRest, HubThrs, HubAts
  <2>3. Hub!Polled'
    BY <1>0, <1>12 DEF Hub!ResetChange, Hub!ResetFeature, Hub!Same, Hub!Goto, Hub!Next1,
           Hub!Fails, Hub!IdleThr, HubRest, HubThrs, HubAts, Hub!Polled
  <2>4. HubKept'
    BY <1>0, <1>12 DEF Hub!ResetChange, Hub!ResetFeature, Hub!Same, Hub!Goto, Hub!Next1,
           Hub!Fails, Hub!IdleThr, HubRest, HubThrs, HubAts, HubKept, HubQuiet
  <2> QED BY <2>1, <2>2, <2>3, <2>4
<1>13. CASE Hub!Start
  <2>1. thr' \in HubThrs
    BY <1>13, HubThr DEF Hub!Start, Hub!Busy, HubRest, HubAts
  <2>2. HubRest'
    BY <1>13 DEF Hub!Start, Hub!Busy, HubRest, HubThrs, HubAts
  <2>3. Hub!Polled'
    BY <1>13 DEF Hub!Start, Hub!Busy, HubRest, HubThrs, HubAts, Hub!Polled
  <2>4. HubKept'
    BY <1>13 DEF Hub!Start, Hub!Busy, HubRest, HubThrs, HubAts, HubKept, HubQuiet
  <2> QED BY <2>1, <2>2, <2>3, <2>4
<1>14. CASE Hub!StopCancel
  <2>1. thr' \in HubThrs
    BY <1>14, HubThr DEF Hub!StopCancel, HubRest, HubAts
  <2>2. HubRest'
    BY <1>14 DEF Hub!StopCancel, HubRest, HubThrs, HubAts
  <2>3. Hub!Polled'
    BY <1>14 DEF Hub!StopCancel, HubRest, HubThrs, HubAts, Hub!Polled
  <2>4. HubKept'
    BY <1>14 DEF Hub!StopCancel, HubRest, HubThrs, HubAts, HubKept, HubQuiet
  <2> QED BY <2>1, <2>2, <2>3, <2>4
<1>15. CASE Hub!StopDone
  <2>1. thr' \in HubThrs
    BY <1>15, HubThr DEF Hub!StopDone, HubRest, HubAts
  <2>2. HubRest'
    BY <1>15 DEF Hub!StopDone, HubRest, HubThrs, HubAts
  <2>3. Hub!Polled'
    BY <1>15 DEF Hub!StopDone, HubRest, HubThrs, HubAts, Hub!Polled
  <2>4. HubKept'
    BY <1>15 DEF Hub!StopDone, HubRest, HubThrs, HubAts, HubKept, HubQuiet
  <2> QED BY <2>1, <2>2, <2>3, <2>4
<1>16. CASE UNCHANGED Hub!hubVars
  <2>1. thr' \in HubThrs
    BY <1>16, HubThr DEF Hub!hubVars, HubRest, HubAts
  <2>2. HubRest'
    BY <1>16 DEF Hub!hubVars, HubRest, HubThrs, HubAts
  <2>3. Hub!Polled'
    BY <1>16 DEF Hub!hubVars, HubRest, HubThrs, HubAts, Hub!Polled
  <2>4. HubKept'
    BY <1>16 DEF Hub!hubVars, HubRest, HubThrs, HubAts, HubKept, HubQuiet
  <2> QED BY <2>1, <2>2, <2>3, <2>4
<1> QED BY <1>1, <1>2, <1>3, <1>4, <1>5, <1>6, <1>7, <1>8, <1>9, <1>10, <1>11, <1>12,
       <1>13,
           <1>14, <1>15, <1>16 DEF Hub!Next

LEMMA HubNoStale ==
    ASSUME HubInv
    PROVE  Hub!NoStaleDev
BY DEF HubInv, HubKept, HubQuiet, Hub!NoStaleDev

\* A hub with any number of ports, that devices come to and go from at any time: while it
\* runs its status endpoint is polled or its last answer is on the way, unless a submit
\* failed; and a port whose change was not lost keeps no object of a device that is gone.
THEOREM HubFollowsPorts ==
    ASSUME HubParams
    PROVE  Hub!Spec => [](Hub!Polled /\ Hub!NoStaleDev)
<1>1. HubInv /\ [Hub!Next]_(Hub!hubVars) => HubInv'
  BY HubStep
<1>2. Hub!Init => HubInv
  BY HubInit
<1>3. HubInv => Hub!Polled /\ Hub!NoStaleDev
  BY HubNoStale DEF HubInv
<1> QED BY <1>1, <1>2, <1>3, PTL DEF Hub!Spec
-----------------------------------------------------------------------------
(* Mass storage by bulk-only transport                                     *)

BotParams == Chunks \in Nat \ {0} /\ MaxTag \in Nat

BotPieces == [k : {"data", "csw", "zlp"}, tag : Nat, i : Nat]
BotHosts == [pc : {"idle", "cbw", "data", "dcsw", "csw", "done", "fail"},
             tag : Nat, op : Bot!Ops, try : Nat, got : Seq(BotPieces), sent : Nat, csw : Nat]
BotDevs == [pc : {"get", "in", "out", "rest", "unstall", "csw"},
            tag : Nat, op : Bot!Ops, i : Nat, sta : Nat]
BotTypes == /\ host \in BotHosts /\ dev \in BotDevs
            /\ offer \in BotPieces \cup {Bot!None} /\ store \in Seq(BotPieces)

\* What the device offers is of the command it runs, and of its stage.
BotOffer ==
    /\ dev.pc = "in" => dev.op = "in" /\ dev.i \in 1 .. Chunks
    /\ dev.pc = "out" => dev.op = "out" /\ dev.i \in 1 .. Chunks
    /\ offer # Bot!None =>
          \/ dev.pc = "in" /\ offer = Bot!Data(dev.tag, dev.i)
          \/ dev.pc = "rest" /\ offer = Bot!Zlp
          \/ dev.pc = "rest" /\ dev.op = "inq" /\ offer = Bot!Data(dev.tag, 1)
          \/ dev.pc = "csw" /\ offer = Bot!Csw(dev.tag, dev.sta)

\* Past its CBW the host talks to a device that runs its command, or that waits for the
\* next CBW and has nothing to offer.
BotMatched ==
    host.pc \in {"data", "dcsw", "csw"} =>
        dev.pc = "get" \/ (dev.tag = host.tag /\ dev.op = host.op)

\* The chunks a READ has so far are the last ones the device sent: all of them make the
\* full length only if none was lost to a stage that was given up.
BotRead ==
    host.op = "in" =>
        /\ host.pc = "data" =>
              /\ Len(host.got) < Chunks
              /\ dev.pc = "in" =>
                    /\ Len(host.got) < dev.i
                    /\ \A k \in 1 .. Len(host.got) :
                          host.got[k] = Bot!Data(host.tag, dev.i - 1 - Len(host.got) + k)
        /\ /\ host.pc \in {"csw", "done"}
           /\ Len(host.got) = Chunks /\ host.got[Chunks].k = "data"
           => host.got = Bot!Whole(host.tag)

\* The device has taken as many chunks of a WRITE as the host has sent, or more if the
\* host started again: then it has them all before the host has sent its last.
BotWrite ==
    host.op = "out" =>
        /\ host.pc = "data" /\ dev.pc = "out" =>
              /\ host.sent < dev.i
              /\ host.sent = dev.i - 1 =>
                    /\ Len(store) = host.sent
                    /\ \A k \in 1 .. host.sent : store[k] = Bot!Data(host.tag, k)
        /\ host.pc = "csw" /\ dev.pc # "get" => store = Bot!Whole(host.tag)
        /\ host.pc = "done" => store = Bot!Whole(host.tag)

BotInv == /\ BotTypes /\ BotOffer /\ BotMatched /\ BotRead /\ BotWrite /\ Bot!InStep

LEMMA BotInit ==
    ASSUME BotParams, Bot!Init
    PROVE  BotInv
BY DEF BotParams, Bot!Init, BotInv, BotTypes, BotHosts, BotDevs, BotOffer, BotMatched,
       BotRead,
       BotWrite, Bot!InStep, Bot!Ops

\* The host goes to another stage, or starts one again.
LEMMA BotTo ==
    ASSUME NEW h \in BotHosts, NEW pc \in {"idle", "cbw", "data", "dcsw", "csw", "done", "fail"}
    PROVE  /\ Bot!To(h, pc) \in BotHosts /\ Bot!To(h, pc).pc = pc
           /\ Bot!To(h, pc).tag = h.tag /\ Bot!To(h, pc).op = h.op /\ Bot!To(h, pc).sent = 0
           /\ Bot!To(h, pc).got = IF pc = "data" THEN <<>> ELSE h.got
           /\ Bot!To(h, pc).csw = h.csw
<1> DEFINE g == IF pc = "data" THEN <<>> ELSE h.got
<1>1. g \in Seq(BotPieces) /\ h.got \in Seq(BotPieces)
  BY DEF BotHosts
<1>2. Bot!To(h, pc) = [h EXCEPT !.pc = pc, !.try = 3, !.got = g, !.sent = 0]
  BY DEF Bot!To, Bot!Retry
<1> HIDE DEF g
<1>3. [h EXCEPT !.pc = pc, !.try = 3, !.got = g, !.sent = 0] \in BotHosts
  BY <1>1 DEF BotHosts
<1>4. LET t == [h EXCEPT !.pc = pc, !.try = 3, !.got = g, !.sent = 0]
      IN t.pc = pc /\ t.tag = h.tag /\ t.op = h.op /\ t.sent = 0 /\ t.got = g /\ t.csw = h.csw
  BY DEF BotHosts
<1> QED BY <1>2, <1>3, <1>4 DEF g

LEMMA BotAgain ==
    ASSUME NEW h \in BotHosts, NEW end \in {"dcsw", "fail"}
    PROVE  LET a == Bot!Again(h, end)
           IN /\ a \in BotHosts /\ a.pc \in {h.pc, end} /\ a.tag = h.tag /\ a.op = h.op
              /\ a.sent = 0 /\ a.got = (IF a.pc = "data" THEN <<>> ELSE h.got) /\ a.csw = h.csw
<1> DEFINE t == Bot!To(h, h.pc)
<1>1. /\ t \in BotHosts /\ t.pc = h.pc /\ t.tag = h.tag /\ t.op = h.op /\ t.sent = 0
      /\ t.got = (IF h.pc = "data" THEN <<>> ELSE h.got) /\ t.csw = h.csw
  BY SMTT(30), BotTo DEF BotHosts
<1> HIDE DEF t
<1>2. CASE h.try > 1
  <2>1. Bot!Again(h, end) = [t EXCEPT !.try = h.try - 1] /\ h.try - 1 \in Nat
    BY <1>2 DEF Bot!Again, t, BotHosts
  <2>2. LET a == [t EXCEPT !.try = h.try - 1]
        IN /\ a \in BotHosts /\ a.pc = t.pc /\ a.tag = t.tag /\ a.op = t.op
           /\ a.sent = t.sent /\ a.got = t.got /\ a.csw = t.csw
    BY <1>1, <2>1 DEF BotHosts
  <2> QED BY <1>1, <2>1, <2>2
<1>3. CASE ~(h.try > 1)
  <2>1. Bot!Again(h, end) = Bot!To(h, end)
    BY <1>3 DEF Bot!Again
  <2> QED BY <2>1, BotTo
<1> QED BY <1>2, <1>3

\* A step of the device that takes nothing of the host and gives it nothing.
LEMMA BotDevStep ==
    ASSUME BotInv, UNCHANGED <<host, store>>, BotTypes', BotOffer',
           dev'.tag = dev.tag, dev'.op = dev.op,
           \/ dev'.pc = "get"
           \/ /\ dev.pc # "get" /\ dev'.i = dev.i
              /\ dev'.pc \in {"in", "out"} => dev'.pc = dev.pc
    PROVE  BotInv'
BY DEF BotInv, BotMatched, BotRead, BotWrite, Bot!InStep, Bot!Whole

LEMMA BotDropped ==
    ASSUME dev \in BotDevs
    PROVE  /\ Bot!Dropped \in BotDevs /\ Bot!Dropped.pc = "get"
           /\ Bot!Dropped.tag = dev.tag /\ Bot!Dropped.op = dev.op
BY DEF Bot!Dropped, BotDevs

\* A write of the device.
LEMMA BotOffers ==
    ASSUME BotInv, NEW piece \in BotPieces, Bot!Offer(piece), UNCHANGED <<host, store>>,
           offer = Bot!None,
           \/ dev.pc = "in" /\ piece = Bot!Data(dev.tag, dev.i)
           \/ dev.pc = "rest" /\ piece = Bot!Zlp
           \/ dev.pc = "rest" /\ dev.op = "inq" /\ piece = Bot!Data(dev.tag, 1)
           \/ dev.pc = "csw" /\ piece = Bot!Csw(dev.tag, dev.sta)
    PROVE  BotInv'
<1>1. CASE "IN" \in halted
  <2>1. dev' = Bot!Dropped /\ offer' = offer
    BY <1>1 DEF Bot!Offer
  <2>2. BotTypes' /\ BotOffer'
    BY <2>1, BotDropped DEF BotInv, BotTypes, BotOffer
  <2> QED BY <2>1, <2>2, BotDropped, BotDevStep DEF BotInv, BotTypes
<1>2. CASE "IN" \notin halted
  <2>1. dev' = dev /\ offer' = piece
    BY <1>2 DEF Bot!Offer
  <2>2. BotTypes' /\ BotOffer'
    BY <2>1 DEF BotInv, BotTypes, BotOffer
  <2>3. dev.pc # "get"
    OBVIOUS
  <2> QED BY <2>1, <2>2, <2>3, BotDevStep
<1> QED BY <1>1, <1>2

LEMMA BotPieceType ==
    /\ \A t, i \in Nat : Bot!Data(t, i) \in BotPieces /\ Bot!Data(t, i).k = "data"
    /\ \A t, i \in Nat : /\ Bot!Csw(t, i) \in BotPieces /\ Bot!Csw(t, i).k = "csw"
                         /\ Bot!Csw(t, i).tag = t
    /\ Bot!Zlp \in BotPieces /\ Bot!Zlp.k = "zlp"
BY DEF Bot!Data, Bot!Csw, Bot!Zlp, BotPieces

\* The steps of the device on its own.
LEMMA BotDevSteps ==
    ASSUME BotParams, BotInv,
           Bot!ReadChunk \/ Bot!Rest \/ Bot!Unstall \/ Bot!Status \/ Bot!DevTimeout
    PROVE  BotInv'
<1>0. BotTypes /\ BotOffer /\ dev.tag \in Nat /\ dev.i \in Nat /\ dev.sta \in Nat
  BY DEF BotInv, BotTypes, BotDevs
<1>1. CASE Bot!ReadChunk
  <2>1. dev.pc = "in" /\ offer = Bot!None /\ UNCHANGED <<host, store>>
    BY <1>1 DEF Bot!ReadChunk
  <2>2. CASE Bot!Offer(Bot!Data(dev.tag, dev.i))
    BY <1>0, <2>1, <2>2, BotPieceType, BotOffers
  <2>3. CASE dev' = [dev EXCEPT !.pc = "rest", !.sta = 1] /\ offer' = offer
    <3>1. /\ dev' \in BotDevs /\ dev'.pc = "rest" /\ dev'.tag = dev.tag
          /\ dev'.op = dev.op /\ dev'.i = dev.i
      <4> DEFINE d == [dev EXCEPT !.pc = "rest", !.sta = 1]
      <4>1. dev \in BotDevs /\ dev' = d
        BY <1>0, <2>3 DEF BotTypes
      <4>2. d \in BotDevs
        BY <4>1 DEF BotDevs
      <4>3. d.pc = "rest" /\ d.tag = dev.tag /\ d.op = dev.op /\ d.i = dev.i
        BY <4>1 DEF BotDevs
      <4> QED BY <4>1, <4>2, <4>3
    <3>2. BotTypes' /\ BotOffer'
      BY <1>0, <2>1, <2>3, <3>1 DEF BotTypes, BotOffer
    <3> QED BY <2>1, <3>1, <3>2, BotDevStep
  <2> QED BY <1>1, <2>2, <2>3 DEF Bot!ReadChunk
<1>2. CASE Bot!Rest
  <2>1. dev.pc = "rest" /\ offer = Bot!None /\ UNCHANGED <<host, store>>
    BY <1>2 DEF Bot!Rest
  <2>2. CASE Bot!Offer(Bot!Data(dev.tag, 1)) /\ dev.op = "inq"
    BY <1>0, <2>1, <2>2, BotPieceType, BotOffers
  <2>3. CASE Bot!Offer(Bot!Zlp)
    BY <1>0, <2>1, <2>3, BotPieceType, BotOffers
  <2>4. CASE dev' = [dev EXCEPT !.pc = "unstall"] /\ offer' = offer
    <3>1. /\ dev' \in BotDevs /\ dev'.pc = "unstall" /\ dev'.tag = dev.tag
          /\ dev'.op = dev.op /\ dev'.i = dev.i
      BY <1>0, <2>4 DEF BotTypes, BotDevs
    <3>2. BotTypes' /\ BotOffer'
      BY <1>0, <2>1, <2>4, <3>1 DEF BotTypes, BotOffer
    <3> QED BY <2>1, <3>1, <3>2, BotDevStep
  <2> QED BY <1>2, <2>2, <2>3, <2>4 DEF Bot!Rest
<1>3. CASE Bot!Unstall
  <2>1. dev.pc = "unstall" /\ offer' = offer /\ UNCHANGED <<host, store>>
    BY <1>3 DEF Bot!Unstall
  <2>2. /\ dev' \in BotDevs /\ dev'.pc = "csw" /\ dev'.tag = dev.tag
        /\ dev'.op = dev.op /\ dev'.i = dev.i
    BY <1>0, <1>3 DEF Bot!Unstall, BotTypes, BotDevs
  <2>3. BotTypes' /\ BotOffer'
    BY <1>0, <2>1, <2>2 DEF BotTypes, BotOffer
  <2> QED BY <2>1, <2>2, <2>3, BotDevStep
<1>4. CASE Bot!Status
  <2>1. dev.pc = "csw" /\ offer = Bot!None /\ UNCHANGED <<host, store>>
        /\ Bot!Offer(Bot!Csw(dev.tag, dev.sta))
    BY <1>4 DEF Bot!Status
  <2> QED BY <1>0, <2>1, BotPieceType, BotOffers
<1>5. CASE Bot!DevTimeout
  <2>1. offer' = Bot!None /\ dev' = Bot!Dropped /\ UNCHANGED <<host, store>>
    BY <1>5 DEF Bot!DevTimeout
  <2>2. BotTypes' /\ BotOffer'
    BY <1>0, <2>1, BotDropped DEF BotTypes, BotOffer
  <2> QED BY <1>0, <2>1, <2>2, BotDropped, BotDevStep DEF BotTypes
<1> QED BY <1>1, <1>2, <1>3, <1>4, <1>5

\* A new command, and a stage that fails.
LEMMA BotFails ==
    ASSUME BotParams, BotInv, NEW why \in {"EPIPE", "ETIME"}, Bot!HostFails(why)
    PROVE  BotInv'
<1>1. BotTypes /\ host \in BotHosts /\ host.got \in Seq(BotPieces)
  BY DEF BotInv, BotTypes, BotHosts
<1>2. /\ host.pc \in {"cbw", "data", "dcsw", "csw"}
      /\ UNCHANGED <<dev, offer, store>>
      /\ \/ host.pc = "dcsw" /\ host' = Bot!To(host, "fail")
         \/ host.pc = "data" /\ host' = Bot!Again(host, "dcsw")
         \/ host' = Bot!Again(host, "fail")
  BY DEF Bot!HostFails, Bot!HostReads, Bot!HostWrites
<1>3. /\ host' \in BotHosts /\ host'.tag = host.tag /\ host'.op = host.op
      /\ host'.pc = "dcsw" => host.pc \in {"data", "dcsw"}
      /\ host'.pc \in {host.pc, "dcsw", "fail"} /\ host'.sent = 0 /\ host'.csw = host.csw
      /\ host'.got = IF host'.pc = "data" THEN <<>> ELSE host.got
  <2>1. CASE host' = Bot!To(host, "fail")
    BY <1>1, <2>1, BotTo
  <2>2. ASSUME NEW end \in {"dcsw", "fail"}, host' = Bot!Again(host, end),
               end = "fail" \/ host.pc = "data"
        PROVE  <1>3
    BY <1>1, <2>2, BotAgain
  <2> QED BY <1>2, <2>1, <2>2
<1>4. BotTypes' /\ BotOffer' /\ BotMatched' /\ Bot!InStep'
  BY <1>1, <1>2, <1>3 DEF BotInv, BotTypes, BotOffer, BotMatched, Bot!InStep
<1>5. BotRead'
  <2>1. host'.pc = "data" => Len(host'.got) = 0
    BY <1>3
  <2>2. dev.pc = "in" => dev.i \in Nat \ {0}
    BY DEF BotInv, BotOffer, BotParams
  <2> QED BY <1>2, <1>3, <2>1, <2>2 DEF BotInv, BotRead, BotParams, Bot!Whole
<1>6. BotWrite'
  <2>1. dev.pc = "out" => dev.i \in Nat \ {0}
    BY DEF BotInv, BotOffer, BotParams
  <2>2. host'.sent = dev.i - 1 /\ dev.pc = "out" /\ host'.pc = "data" /\ host.op = "out" => Len(store) = 0
    <3>1. host.sent \in Nat
      BY <1>1 DEF BotHosts
    <3> QED BY <1>3, <2>1, <3>1 DEF BotInv, BotWrite
  <2> QED BY <1>2, <1>3, <2>1, <2>2 DEF BotInv, BotWrite, Bot!Whole
<1> QED BY <1>4, <1>5, <1>6 DEF BotInv

LEMMA BotCommand ==
    ASSUME BotParams, BotInv, NEW op \in Bot!Ops, Bot!Command(op)
    PROVE  BotInv'
<1> DEFINE t == Bot!To(host, "cbw")
<1>1. t \in BotHosts /\ t.tag \in Nat /\ t.pc = "cbw"
  BY BotTo DEF BotInv, BotTypes, BotHosts
<1>2. host' = [t EXCEPT !.tag = @ + 1, !.op = op, !.csw = 0, !.got = <<>>]
  BY DEF Bot!Command
<1> HIDE DEF t
<1>3. host' \in BotHosts /\ host'.pc = "cbw"
  <2>1. \A g \in Seq(BotPieces), n \in Nat :
           /\ [t EXCEPT !.tag = n, !.op = op, !.csw = 0, !.got = g] \in BotHosts
           /\ [t EXCEPT !.tag = n, !.op = op, !.csw = 0, !.got = g].pc = t.pc
    BY <1>1 DEF BotHosts
  <2>2. <<>> \in Seq(BotPieces) /\ t.tag + 1 \in Nat
    BY <1>1
  <2> QED BY <1>1, <1>2, <2>1, <2>2
<1>4. UNCHANGED <<dev, offer, store>>
  BY DEF Bot!Command
<1> QED BY <1>3, <1>4 DEF BotInv, BotTypes, BotOffer, BotMatched, BotRead, BotWrite,
       Bot!InStep

\* The CBW: the device starts the command, or drops what it was in.
LEMMA BotSendCbw ==
    ASSUME BotParams, BotInv, Bot!SendCbw
    PROVE  BotInv'
<1>1. BotTypes /\ host \in BotHosts /\ dev \in BotDevs
  BY DEF BotInv, BotTypes
<1>2. /\ host.pc = "cbw" /\ dev.pc \in {"get", "out"} /\ offer' = offer /\ store' = <<>>
      /\ host' = Bot!To(host, IF host.op = "none" THEN "csw" ELSE "data")
      /\ IF dev.pc = "get" THEN Bot!Start(host.tag, host.op) ELSE dev' = Bot!Dropped
  BY DEF Bot!SendCbw, Bot!AfterCbw
<1>3. /\ host' \in BotHosts /\ host'.tag = host.tag /\ host'.op = host.op /\ host'.sent = 0
      /\ host'.pc = (IF host.op = "none" THEN "csw" ELSE "data")
      /\ host'.got = (IF host.op = "none" THEN host.got ELSE <<>>)
  BY <1>1, <1>2, BotTo
<1>4. offer = Bot!None
  BY <1>2 DEF BotInv, BotOffer
<1>5. /\ dev' \in BotDevs
      /\ \/ dev'.pc = "get"
         \/ /\ dev'.tag = host.tag /\ dev'.op = host.op /\ dev'.i = 1
            /\ dev'.pc = "in" => host.op = "in"
            /\ dev'.pc = "out" => host.op = "out"
  <2>1. CASE dev.pc = "out"
    BY <1>1, <1>2, <2>1, BotDropped
  <2>2. host.tag \in Nat /\ host.op \in Bot!Ops
    BY <1>1 DEF BotHosts
  <2>3. CASE dev' = [dev EXCEPT !.tag = host.tag, !.op = host.op] /\ dev.pc = "get"
    BY <1>1, <2>2, <2>3 DEF BotDevs
  <2>4. ASSUME NEW sta \in Nat, NEW pc \in {"csw", "in", "out", "rest"},
               pc = "in" => host.op = "in", pc = "out" => host.op = "out",
               dev' = [dev EXCEPT !.tag = host.tag, !.op = host.op, !.i = 1, !.sta = sta,
                                  !.pc = pc]
        PROVE  <1>5
    <3> DEFINE d == [dev EXCEPT !.tag = host.tag, !.op = host.op, !.i = 1, !.sta = sta, !.pc = pc]
    <3>1. d \in BotDevs
      BY <1>1, <2>2 DEF BotDevs
    <3>2. d.tag = host.tag /\ d.op = host.op /\ d.i = 1 /\ d.pc = pc
      BY <1>1 DEF BotDevs
    <3> QED BY <2>4, <3>1, <3>2
  <2> DEFINE p == CASE host.op = "none" -> "csw" [] host.op = "in" -> "in"
                    [] host.op = "out" -> "out" [] OTHER -> "rest"
             s == IF host.op = "unk" THEN 1 ELSE 0
  <2>5. /\ p \in {"csw", "in", "out", "rest"} /\ s \in Nat
        /\ p = "in" => host.op = "in" 
        /\ p = "out" => host.op = "out"
    OBVIOUS
  <2>6. CASE dev.pc = "get"
    <3>1. \/ dev' = [dev EXCEPT !.tag = host.tag, !.op = host.op]
          \/ dev' = [dev EXCEPT !.tag = host.tag, !.op = host.op, !.i = 1, !.sta = s, !.pc = p]
      BY <1>2, <2>6 DEF Bot!Start
    <3> HIDE DEF p, s
    <3> QED BY <2>3, <2>4, <2>5, <2>6, <3>1
  <2> QED BY <1>2, <2>1, <2>6
<1>6. BotTypes' /\ BotOffer'
  BY <1>1, <1>2, <1>3, <1>4, <1>5 DEF BotTypes, BotOffer, BotParams
<1>7. BotMatched' /\ Bot!InStep'
  BY <1>3, <1>5 DEF BotMatched, Bot!InStep
<1>8. BotRead'
  BY <1>3, <1>5 DEF BotRead, BotParams
<1>9. BotWrite'
  BY <1>2, <1>3, <1>5 DEF BotWrite, BotParams
<1> QED BY <1>6, <1>7, <1>8, <1>9 DEF BotInv

\* A chunk of the host, which the device stores, or takes for a CBW, or drops.
LEMMA BotSendData ==
    ASSUME BotParams, BotInv, Bot!SendData
    PROVE  BotInv'
<1>1. BotTypes /\ host \in BotHosts /\ dev \in BotDevs /\ Chunks \in Nat \ {0}
  BY DEF BotInv, BotTypes, BotParams
<1>2. /\ host.pc = "data" /\ ~Bot!IsIn(host.op) /\ dev.pc \in {"get", "out"} /\ offer' = offer
      /\ host' = (IF host.sent + 1 = Chunks THEN Bot!To(host, "csw")
                  ELSE [host EXCEPT !.sent = @ + 1])
      /\ \/ dev.pc = "get" /\ UNCHANGED <<dev, store>>
         \/ /\ dev.pc = "out" /\ store' = Append(store, Bot!Data(host.tag, host.sent + 1))
            /\ dev' = (IF dev.i = Chunks THEN [dev EXCEPT !.pc = "csw"]
                       ELSE [dev EXCEPT !.i = @ + 1])
         \/ dev.pc = "out" /\ dev' = Bot!Dropped /\ UNCHANGED store
  BY DEF Bot!SendData
<1>3. host.sent \in Nat /\ host.tag \in Nat /\ dev.i \in Nat /\ offer = Bot!None
  BY <1>1, <1>2 DEF BotHosts, BotDevs, BotInv, BotOffer
<1>4. host.op # "in" /\ dev.pc = "out" => host.op = "out" /\ dev.tag = host.tag
  BY <1>2 DEF BotInv, BotMatched, BotOffer
<1>5. /\ host' \in BotHosts /\ host'.tag = host.tag /\ host'.op = host.op
      /\ host'.got = host.got
      /\ \/ host'.pc = "csw" /\ host.sent + 1 = Chunks
         \/ host'.pc = "data" /\ host.sent + 1 # Chunks /\ host'.sent = host.sent + 1
  <2>1. CASE host.sent + 1 = Chunks
    BY <1>1, <1>2, <2>1, BotTo
  <2>2. CASE host.sent + 1 # Chunks
    <3>1. host' = [host EXCEPT !.sent = host.sent + 1]
      BY <1>2, <2>2
    <3>2. \A n \in Nat : LET h == [host EXCEPT !.sent = n]
                         IN /\ h \in BotHosts /\ h.tag = host.tag /\ h.op = host.op
                            /\ h.got = host.got /\ h.pc = host.pc /\ h.sent = n
      BY <1>1 DEF BotHosts
    <3> QED BY <1>2, <1>3, <2>2, <3>1, <3>2
  <2> QED BY <2>1, <2>2
<1>6. host.op # "in"
  BY <1>2 DEF Bot!IsIn
<1>7. /\ dev' \in BotDevs /\ dev'.tag = dev.tag /\ dev'.op = dev.op
      /\ \/ dev'.pc = "get" /\ store' = store
         \/ /\ dev.pc = "out" /\ store' = Append(store, Bot!Data(host.tag, host.sent + 1))
            /\ \/ dev'.pc = "csw" /\ dev.i = Chunks
               \/ dev'.pc = "out" /\ dev.i # Chunks /\ dev'.i = dev.i + 1
  <2>1. CASE dev.pc = "get" /\ UNCHANGED <<dev, store>>
    BY <1>1, <2>1
  <2>2. CASE dev.pc = "out" /\ dev' = Bot!Dropped /\ UNCHANGED store
    BY <1>1, <2>2, BotDropped
  <2>3. CASE /\ dev.pc = "out" /\ store' = Append(store, Bot!Data(host.tag, host.sent + 1))
             /\ dev' = (IF dev.i = Chunks THEN [dev EXCEPT !.pc = "csw"]
                        ELSE [dev EXCEPT !.i = @ + 1])
    <3>1. \A n \in Nat : LET d == [dev EXCEPT !.i = n]
                         IN d \in BotDevs /\ d.tag = dev.tag /\ d.op = dev.op /\ d.pc = dev.pc /\ d.i = n
      BY <1>1 DEF BotDevs
    <3>2. LET d == [dev EXCEPT !.pc = "csw"]
          IN d \in BotDevs /\ d.tag = dev.tag /\ d.op = dev.op /\ d.pc = "csw"
      BY <1>1 DEF BotDevs
    <3>3. \/ dev' = [dev EXCEPT !.pc = "csw"] /\ dev.i = Chunks
          \/ dev' = [dev EXCEPT !.i = dev.i + 1] /\ dev.i # Chunks
      BY <2>3
    <3>4. dev.i + 1 \in Nat
      BY <1>3
    <3> QED BY <2>3, <3>1, <3>2, <3>3, <3>4
  <2> QED BY <1>2, <2>1, <2>2, <2>3
<1>8. store' \in Seq(BotPieces)
  <2>1. Bot!Data(host.tag, host.sent + 1) \in BotPieces
    BY <1>3, BotPieceType
  <2> QED BY <1>1, <1>7, <2>1 DEF BotTypes
<1>9. BotTypes' /\ BotOffer'
  BY <1>1, <1>2, <1>3, <1>5, <1>7, <1>8 DEF BotInv, BotTypes, BotOffer
<1>10. BotMatched' /\ Bot!InStep' /\ BotRead'
  BY <1>2, <1>5, <1>6, <1>7 DEF BotInv, BotMatched, Bot!InStep, BotRead
<1>11. BotWrite'
  <2> SUFFICES ASSUME host.op = "out", dev.pc = "out", dev'.pc # "get"
               PROVE  BotWrite'
    BY <1>5, <1>7 DEF BotWrite
  <2>1. /\ host.sent < dev.i /\ dev.i <= Chunks
        /\ host.sent = dev.i - 1 =>
              /\ Len(store) = host.sent
              /\ \A k \in 1 .. host.sent : store[k] = Bot!Data(host.tag, k)
    BY <1>2 DEF BotInv, BotWrite, BotOffer
  <2>2. store \in Seq(BotPieces) /\ store' = Append(store, Bot!Data(host.tag, host.sent + 1))
    BY <1>1, <1>7 DEF BotTypes
  <2>3. ASSUME host.sent = dev.i - 1
        PROVE  /\ Len(store') = host.sent + 1
               /\ \A k \in 1 .. host.sent + 1 : store'[k] = Bot!Data(host.tag, k)
    BY <1>3, <2>1, <2>2, <2>3
  <2>4. ASSUME host.sent = dev.i - 1, dev.i = Chunks
        PROVE  store' = Bot!Whole(host.tag)
    <3>1. Len(store') = Chunks /\ \A k \in 1 .. Chunks : store'[k] = Bot!Data(host.tag, k)
      BY <1>1, <1>3, <2>3, <2>4
    <3>2. store' = [k \in 1 .. Chunks |-> store'[k]]
      BY <1>8, <3>1
    <3> QED BY <3>1, <3>2 DEF Bot!Whole
  <2>5. host'.pc = "csw" => host.sent = dev.i - 1 /\ dev.i = Chunks
    BY <1>1, <1>3, <1>5, <2>1
  <2>7. host'.pc = "data" /\ dev'.pc = "out" => host'.sent = host.sent + 1 /\ dev'.i = dev.i + 1
    BY <1>5, <1>7
  <2>8. CASE host'.pc = "csw"
    BY <1>5, <2>4, <2>5, <2>8 DEF BotWrite, Bot!Whole
  <2>9. CASE host'.pc = "data"
    <3>1. dev'.pc = "out" => /\ host'.sent < dev'.i
                             /\ host'.sent = dev'.i - 1 => host.sent = dev.i - 1
      BY <1>3, <2>1, <2>7, <2>9
    <3>2. dev'.pc = "out" /\ host'.sent = dev'.i - 1 =>
             /\ Len(store') = host'.sent
             /\ \A k \in 1 .. host'.sent : store'[k] = Bot!Data(host.tag, k)
      BY <2>3, <2>7, <2>9, <3>1
    <3> QED BY <1>5, <2>9, <3>1, <3>2 DEF BotWrite
  <2> QED BY <1>5, <2>8, <2>9
<1> QED BY <1>9, <1>10, <1>11 DEF BotInv

\* A piece of the device.
LEMMA BotReceive ==
    ASSUME BotParams, BotInv, Bot!Receive
    PROVE  BotInv'
<1>1. BotTypes /\ host \in BotHosts /\ dev \in BotDevs /\ host.got \in Seq(BotPieces)
  BY DEF BotInv, BotTypes, BotHosts
<1>2. /\ host.pc \in {"dcsw", "csw", "data"} /\ offer # Bot!None /\ offer' = Bot!None
      /\ dev' = Bot!Offered /\ store' = store
      /\ host.pc = "data" => Bot!IsIn(host.op)
  BY DEF Bot!Receive, Bot!HostReads
<1>3. offer \in BotPieces /\ dev.pc \in {"in", "rest", "csw"} /\ host.tag \in Nat /\ dev.i \in Nat
  BY <1>1, <1>2 DEF BotTypes, BotInv, BotOffer, BotHosts, BotDevs
<1>4. dev.tag = host.tag /\ dev.op = host.op
  BY <1>2, <1>3 DEF BotInv, BotMatched
<1>5. /\ offer.k = "csw" => dev.pc = "csw" /\ offer.tag = host.tag
      /\ offer.k = "data" /\ host.op = "in" =>
            dev.pc = "in" /\ dev.i \in 1 .. Chunks /\ offer = Bot!Data(host.tag, dev.i)
      /\ dev.pc = "in" => offer.k = "data"
  <2>1. dev.tag \in Nat /\ dev.sta \in Nat
    BY <1>1 DEF BotDevs
  <2> QED BY <1>2, <1>3, <1>4, <2>1, BotPieceType DEF BotInv, BotOffer
<1>6. /\ dev' \in BotDevs /\ dev'.tag = dev.tag /\ dev'.op = dev.op
      /\ \/ dev'.pc \in {"get", "csw"}
         \/ dev.pc = "in" /\ dev'.pc = "in" /\ dev.i < Chunks /\ dev'.i = dev.i + 1
  <2>1. \A n \in Nat : LET d == [dev EXCEPT !.i = n]
                       IN d \in BotDevs /\ d.tag = dev.tag /\ d.op = dev.op /\ d.pc = dev.pc /\ d.i = n
    BY <1>1 DEF BotDevs
  <2>2. LET d == [dev EXCEPT !.pc = "csw"]
        IN d \in BotDevs /\ d.tag = dev.tag /\ d.op = dev.op /\ d.pc = "csw"
    BY <1>1 DEF BotDevs
  <2>3. \/ dev' = Bot!Dropped
        \/ dev' = [dev EXCEPT !.i = dev.i + 1] /\ dev.pc = "in" /\ dev.i < Chunks
        \/ dev' = [dev EXCEPT !.pc = "csw"]
    BY <1>2 DEF Bot!Offered
  <2>4. dev.i + 1 \in Nat /\ dev.pc # "get"
    BY <1>3
  <2> QED BY <1>1, <2>1, <2>2, <2>3, <2>4, BotDropped
<1>7. /\ host' \in BotHosts /\ host'.tag = host.tag /\ host'.op = host.op
      /\ \/ host'.pc = "fail"
         \/ host.pc = "csw" /\ host'.pc = "csw" /\ host'.got = host.got
         \/ /\ host.pc = "csw" /\ host'.pc = "done" /\ offer.k = "csw"
            /\ host'.csw = host.tag /\ host'.got = host.got
         \/ /\ host.pc = "data" /\ host'.pc = "data" /\ offer.k = "data"
            /\ Len(host.got) + 1 < Bot!Need(host.op) /\ host'.got = Append(host.got, offer)
         \/ /\ host.pc = "data" /\ host'.pc = "csw" /\ host'.got = Append(host.got, offer)
            /\ offer.k = "data" => ~(Len(host.got) + 1 < Bot!Need(host.op))
  <2>1. CASE host.pc = "dcsw"
    <3>1. host' = Bot!To(host, "fail")
      BY <2>1 DEF Bot!Receive
    <3> QED BY <1>1, <3>1, BotTo
  <2>2. CASE host.pc = "csw"
    <3>1. CASE offer.k = "csw"
      <4>1. host' = [host EXCEPT !.pc = "done", !.csw = offer.tag]
        BY <2>2, <3>1 DEF Bot!Receive
      <4>2. \A n \in Nat : LET h == [host EXCEPT !.pc = "done", !.csw = n]
                           IN /\ h \in BotHosts /\ h.tag = host.tag /\ h.op = host.op
                              /\ h.pc = "done" /\ h.csw = n /\ h.got = host.got
        BY <1>1 DEF BotHosts
      <4> QED BY <1>3, <1>5, <2>2, <3>1, <4>1, <4>2
    <3>2. CASE offer.k # "csw"
      <4>1. host' = Bot!Again(host, "fail")
        BY <2>2, <3>2 DEF Bot!Receive
      <4> QED BY <1>1, <2>2, <4>1, BotAgain
    <3> QED BY <3>1, <3>2
  <2>3. CASE host.pc = "data"
    <3> DEFINE g == Append(host.got, offer)
    <3>1. g \in Seq(BotPieces)
      BY <1>1, <1>3
    <3>2. \A h \in BotHosts, q \in Seq(BotPieces) :
             LET r == [h EXCEPT !.got = q]
             IN r \in BotHosts /\ r.tag = h.tag /\ r.op = h.op /\ r.pc = h.pc /\ r.got = q
      BY DEF BotHosts
    <3>3. CASE offer.k = "data" /\ Len(host.got) + 1 < Bot!Need(host.op)
      <4>1. host' = [host EXCEPT !.got = g]
        BY <2>3, <3>3 DEF Bot!Receive
      <4> HIDE DEF g
      <4>2. /\ host' \in BotHosts /\ host'.tag = host.tag /\ host'.op = host.op
            /\ host'.pc = host.pc /\ host'.got = g
        BY <1>1, <3>1, <3>2, <4>1
      <4> QED BY <2>3, <3>3, <4>2 DEF g
    <3>4. CASE ~(offer.k = "data" /\ Len(host.got) + 1 < Bot!Need(host.op))
      <4> DEFINE t == Bot!To(host, "csw")
      <4>1. host' = [t EXCEPT !.got = g]
        BY <2>3, <3>4 DEF Bot!Receive
      <4>2. t \in BotHosts /\ t.tag = host.tag /\ t.op = host.op /\ t.pc = "csw"
        BY <1>1, BotTo
      <4> HIDE DEF g, t
      <4>3. /\ host' \in BotHosts /\ host'.tag = host.tag /\ host'.op = host.op
            /\ host'.pc = "csw" /\ host'.got = g
        BY <3>1, <3>2, <4>1, <4>2
      <4> QED BY <2>3, <3>4, <4>3 DEF g
    <3> QED BY <3>3, <3>4
  <2> QED BY <1>2, <2>1, <2>2, <2>3
<1>8. BotTypes' /\ BotOffer'
  BY <1>1, <1>2, <1>6, <1>7 DEF BotInv, BotTypes, BotOffer, BotParams
<1>9. BotMatched' /\ Bot!InStep'
  BY <1>4, <1>6, <1>7 DEF BotMatched, Bot!InStep
<1>10. BotWrite'
  <2>1. host.op = "out" => host.pc # "data"
    BY <1>2 DEF Bot!IsIn
  <2>2. host'.pc \in {"csw", "done"} /\ host.op = "out" => store = Bot!Whole(host.tag)
    BY <1>2, <1>3, <1>7, <2>1 DEF BotInv, BotWrite
  <2>3. host'.pc = "data" => host.pc = "data"
    BY <1>7
  <2> QED BY <1>2, <1>7, <2>1, <2>2, <2>3 DEF BotWrite, Bot!Whole
<1>11. BotRead'
  <2> SUFFICES ASSUME host.op = "in"
               PROVE  BotRead'
    BY <1>7 DEF BotRead
  <2>1. CASE host'.pc = "fail"
    BY <2>1 DEF BotRead
  <2>2. CASE host.pc = "csw" /\ host'.pc \in {"csw", "done"} /\ host'.got = host.got
    BY <1>7, <2>2 DEF BotInv, BotRead, Bot!Whole
  <2>3. ASSUME host.pc = "data"
        PROVE  /\ Len(host.got) < Chunks /\ Len(host.got) \in Nat
               /\ dev.pc = "in" =>
                     /\ Len(host.got) < dev.i
                     /\ \A k \in 1 .. Len(host.got) :
                           host.got[k] = Bot!Data(host.tag, dev.i - 1 - Len(host.got) + k)
    BY <1>1, <2>3 DEF BotInv, BotRead
  <2>4. ASSUME host'.got = Append(host.got, offer)
        PROVE  /\ Len(host'.got) = Len(host.got) + 1 /\ host'.got[Len(host.got) + 1] = offer
               /\ \A k \in 1 .. Len(host.got) : host'.got[k] = host.got[k]
    BY <1>1, <1>3, <2>4
  <2>5. Bot!Need(host.op) = Chunks
    BY DEF Bot!Need
  <2>6. CASE /\ host.pc = "data" /\ host'.pc = "data" /\ offer.k = "data"
             /\ Len(host.got) + 1 < Chunks /\ host'.got = Append(host.got, offer)
    <3>1. dev.pc = "in" /\ offer = Bot!Data(host.tag, dev.i)
      BY <1>5, <2>6
    <3>2. ASSUME dev'.pc = "in"
          PROVE  /\ dev'.i = dev.i + 1
                 /\ \A k \in 1 .. Len(host.got) + 1 :
                       host'.got[k] = Bot!Data(host.tag, dev.i - Len(host.got) - 1 + k)
      <4>1. dev'.i = dev.i + 1
        BY <1>6, <3>2
      <4>2. ASSUME NEW k \in 1 .. Len(host.got)
            PROVE  host'.got[k] = Bot!Data(host.tag, dev.i - Len(host.got) - 1 + k)
        <5>1. dev.i - Len(host.got) - 1 + k = dev.i - 1 - Len(host.got) + k
          BY <1>3, <2>3, <2>6
        <5> QED BY <2>3, <2>4, <2>6, <3>1, <5>1
      <4>3. dev.i = dev.i - Len(host.got) - 1 + (Len(host.got) + 1)
        <5>1. \A a, n \in Nat : a = a - n - 1 + (n + 1)
          OBVIOUS
        <5> QED BY <1>3, <2>3, <2>6, <5>1
      <4>4. host'.got[Len(host.got) + 1] = Bot!Data(host.tag, dev.i)
        BY <2>4, <2>6, <3>1
      <4> QED BY <2>3, <2>6, <4>1, <4>2, <4>3, <4>4
    <3>3. dev'.pc = "in" => Len(host'.got) < dev'.i
      BY <1>3, <2>3, <2>4, <2>6, <3>1, <3>2
    <3>4. dev'.pc = "in" => \A k \in 1 .. Len(host'.got) :
             host'.got[k] = Bot!Data(host'.tag, dev'.i - 1 - Len(host'.got) + k)
      <4>1. ASSUME dev'.pc = "in", NEW k \in 1 .. Len(host.got) + 1
            PROVE  dev'.i - 1 - Len(host'.got) + k = dev.i - Len(host.got) - 1 + k
        <5>1. \A a, n \in Nat : a + 1 - 1 - (n + 1) + k = a - n - 1 + k
          BY <2>3, <2>6
        <5>2. Len(host'.got) = Len(host.got) + 1 /\ dev'.i = dev.i + 1
          BY <2>4, <2>6, <3>2, <4>1
        <5> QED BY <1>3, <2>3, <2>6, <5>1, <5>2
      <4> QED BY <1>7, <2>4, <2>6, <3>2, <4>1
    <3> QED BY <1>7, <2>4, <2>6, <3>3, <3>4 DEF BotRead
  <2>7. CASE /\ host.pc = "data" /\ host'.pc = "csw" /\ host'.got = Append(host.got, offer)
             /\ offer.k = "data" => ~(Len(host.got) + 1 < Chunks)
    <3> SUFFICES ASSUME Len(host'.got) = Chunks, host'.got[Chunks].k = "data"
                 PROVE  host'.got = Bot!Whole(host.tag)
      BY <1>7, <2>7 DEF BotRead, Bot!Whole
    <3>1. Len(host.got) + 1 = Chunks /\ offer.k = "data"
      BY <2>4, <2>7
    <3>2. dev.pc = "in" /\ dev.i \in 1 .. Chunks /\ offer = Bot!Data(host.tag, dev.i)
      BY <1>5, <3>1
    <3>3. dev.i = Chunks
      BY <2>3, <2>7, <3>1, <3>2 DEF BotParams
    <3>4. \A k \in 1 .. Chunks : host'.got[k] = Bot!Data(host.tag, k)
      <4>1. ASSUME NEW k \in 1 .. Len(host.got)
            PROVE  host'.got[k] = Bot!Data(host.tag, k)
        <5>1. dev.i - 1 - Len(host.got) + k = k
          BY <1>3, <2>3, <2>7, <3>1, <3>3
        <5> QED BY <2>3, <2>4, <2>7, <3>2, <5>1
      <4>2. host'.got[Chunks] = Bot!Data(host.tag, Chunks)
        BY <2>4, <2>7, <3>1, <3>2, <3>3
      <4> QED BY <2>3, <2>7, <3>1, <4>1, <4>2
    <3>5. host'.got = [k \in 1 .. Chunks |-> host'.got[k]]
      <4>1. host'.got \in Seq(BotPieces)
        BY <1>7 DEF BotHosts
      <4> QED BY <4>1
    <3> QED BY <3>4, <3>5 DEF Bot!Whole
  <2> QED BY <1>7, <2>1, <2>2, <2>5, <2>6, <2>7
<1> QED BY <1>8, <1>9, <1>10, <1>11 DEF BotInv

LEMMA BotStep ==
    ASSUME BotParams, BotInv, [Bot!Next]_(Bot!botVars)
    PROVE  BotInv'
<1>1. CASE UNCHANGED Bot!botVars
  BY <1>1 DEF Bot!botVars, BotInv, BotTypes, BotOffer, BotMatched, BotRead, BotWrite,
         Bot!InStep,
              Bot!Whole
<1> QED
  BY <1>1, BotFails, BotCommand, BotSendCbw, BotSendData, BotReceive,
         BotDevSteps DEF Bot!Next

LEMMA BotWhole ==
    ASSUME BotParams, BotInv
    PROVE  Bot!DataWhole
BY DEF BotInv, BotRead, BotWrite, Bot!DataWhole, BotParams

\* Whatever stages time out, stall and are started again, and whatever the device drops:
\* a command that succeeds got its own status; a READ of the full length the chunks of
\* its command, a WRITE stored its own.
THEOREM BotInStep ==
    ASSUME BotParams
    PROVE  Bot!Spec => [](Bot!InStep /\ Bot!DataWhole)
<1>1. BotInv /\ [Bot!Next]_(Bot!botVars) => BotInv'
  BY BotStep
<1>2. Bot!Init => BotInv
  BY BotInit
<1>3. BotInv => Bot!InStep /\ Bot!DataWhole
  BY BotWhole DEF BotInv
<1> QED BY <1>1, <1>2, <1>3, PTL DEF Bot!Spec
-----------------------------------------------------------------------------
(* Monitors of the devices on the host                                     *)

WatchParams == IsFiniteSet(WatchDevs) /\ IsFiniteSet(Mons)

\* The events a callback may be told of, and those of them that say a device is there.
WatchTypes == {"inject", "eject", "exist"}
WatchSays == IF jobs THEN WatchTypes ELSE {"inject", "exist"}

\* Monitors of devices that come and of those that are there.
WatchAll == {m \in Mons \ Wild : {"inject", "exist"} \subseteq TypesOf[m]}

WatchRest ==
    /\ devList \subseteq WatchDevs /\ refs \in Nat
    /\ thread = Watch!Idle \/ thread \in [type : {"inject", "eject"}, dev : WatchDevs]
    /\ watchPc \in [Mons -> {"none", "made", "listed", "found", "registered", "nojob", "freed",
                        "failed"}]
    /\ telling \in [Mons -> WatchTypes \cup {"none"}] /\ started \in [Mons -> Nat]
    /\ told \in [Mons -> Seq(WatchTypes \cup {"none"})]

\* The monitors on the list are those that are registered for more than what is there.
WatchListed ==
    /\ mons = {m \in Mons : /\ watchPc[m] \in {"listed", "found", "registered", "nojob"}
                            /\ TypesOf[m] # {"exist"}}
    /\ \A m \in Mons : watchPc[m] = "nojob" => TypesOf[m] # {"exist"}

\* A job that was started has something to tell, or it has told it; with no jobs none is.
WatchJobs ==
    \A m \in Mons : started[m] > 0 =>
        jobs /\ (telling[m] \in WatchTypes \/ Watch!ToldOf(m, WatchTypes))

\* A device that is there was told, a job is to tell it, or the event thread is at it.
WatchSeen ==
    \A m \in WatchAll :
        watchPc[m] = "registered" /\ devList \cap Matches[m] # {} =>
            \/ Watch!ToldOf(m, WatchSays)
            \/ started[m] > 0
            \/ thread.type = "inject" /\ thread.dev \in Matches[m]

WatchInv == WatchRest /\ WatchListed /\ WatchJobs /\ WatchSeen /\ Watch!LibHeld

\* Inside the instance the library's operators are its own.
LEMMA WatchCard == \A S : Watch!Cardinality(S) = Cardinality(S)
BY DEF Watch!Cardinality, Cardinality, Watch!IsFiniteSet, IsFiniteSet

LEMMA CardPoint ==
    ASSUME NEW S, NEW T, IsFiniteSet(T), S \subseteq T, NEW x
    PROVE  /\ IsFiniteSet(S) /\ Cardinality(S) \in Nat
           /\ x \notin S => Cardinality(S \cup {x}) = Cardinality(S) + 1
           /\ x \in S => Cardinality(S \ {x}) = Cardinality(S) - 1
BY FS_Subset, FS_AddElement, FS_RemoveElement, FS_CardinalityType

\* What a callback has been told it goes on having been told.
LEMMA WatchToldMore ==
    ASSUME NEW m \in Mons, NEW s \in Seq(WatchTypes \cup {"none"}), told[m] = s,
           NEW t \in WatchTypes \cup {"none"}, told'[m] = Append(s, t), NEW T
    PROVE  /\ Watch!ToldOf(m, T) => Watch!ToldOf(m, T)'
           /\ t \in T => Watch!ToldOf(m, T)'
<1>1. /\ Len(told'[m]) = Len(s) + 1 /\ told'[m][Len(s) + 1] = t
      /\ \A i \in 1 .. Len(s) : told'[m][i] = s[i]
      /\ Len(s) \in Nat
  OBVIOUS
<1>2. DOMAIN told[m] = 1 .. Len(s) /\ DOMAIN told'[m] = 1 .. Len(s) + 1
  BY <1>1
<1> QED BY <1>1, <1>2 DEF Watch!ToldOf

LEMMA WatchInit ==
    ASSUME WatchParams, Watch!Init
    PROVE  WatchInv
<1>1. WatchRest /\ WatchListed /\ WatchJobs /\ WatchSeen
  BY DEF Watch!Init, WatchRest, WatchListed, WatchJobs, WatchSeen, WatchTypes
<1>2. Watch!LibHeld
  BY FS_EmptySet, WatchCard DEF Watch!Init, Watch!LibHeld
<1> QED BY <1>1, <1>2 DEF WatchInv

LEMMA WatchStep ==
    ASSUME WatchParams, WatchInv, [Watch!Next]_(Watch!monitorVars)
    PROVE  WatchInv'
<1> USE DEF WatchParams, WatchInv
<1>0. /\ refs = 1 + Cardinality(devList) + Cardinality(mons)
      /\ Cardinality(devList) \in Nat /\ Cardinality(mons) \in Nat /\ mons \subseteq Mons
  <2>1. mons \subseteq Mons
    BY DEF WatchListed
  <2> QED BY <2>1, WatchCard, CardPoint DEF Watch!LibHeld, WatchRest
<1>1. CASE Watch!Inject
  <2>1. PICK d \in WatchDevs \ devList :
           devList' = devList \cup {d} /\ thread' = [type |-> "inject", dev |-> d]
    BY <1>1 DEF Watch!Inject
  <2>2. UNCHANGED <<jobs, watchPc, mons, telling, started, told>> /\ refs' = refs + 1
    BY <1>1 DEF Watch!Inject
  <2>3. WatchRest'
    BY <2>1, <2>2 DEF WatchRest
  <2>4. WatchListed' /\ WatchJobs'
    BY <2>2 DEF WatchListed, WatchJobs, Watch!ToldOf
  <2>5. WatchSeen'
    <3>1. thread = Watch!Idle /\ thread.type # "inject"
      BY <1>1 DEF Watch!Inject, Watch!Idle
    <3>2. thread'.type = "inject" /\ thread'.dev = d
      BY <2>1
    <3> QED BY <2>1, <2>2, <3>1, <3>2 DEF WatchSeen, WatchSays, WatchAll, Watch!ToldOf
  <2>6. Cardinality(devList') = Cardinality(devList) + 1
    BY <2>1, CardPoint DEF WatchRest
  <2> QED BY <1>0, <2>2, <2>3, <2>4, <2>5, <2>6, WatchCard DEF Watch!LibHeld
<1>2. CASE Watch!Eject
  <2>1. PICK d \in devList :
           devList' = devList \ {d} /\ thread' = [type |-> "eject", dev |-> d]
    BY <1>2 DEF Watch!Eject
  <2>2. UNCHANGED <<jobs, watchPc, mons, telling, started, told>> /\ refs' = refs - 1
    BY <1>2 DEF Watch!Eject
  <2>3. Cardinality(devList') = Cardinality(devList) - 1 /\ Cardinality(devList') \in Nat
    BY <2>1, CardPoint DEF WatchRest
  <2>4. WatchRest'
    BY <1>0, <2>1, <2>2, <2>3 DEF WatchRest
  <2>5. WatchListed' /\ WatchJobs'
    BY <2>2 DEF WatchListed, WatchJobs, Watch!ToldOf
  <2>6. WatchSeen'
    <3>1. thread = Watch!Idle /\ thread.type # "inject"
      BY <1>2 DEF Watch!Eject, Watch!Idle
    <3> QED BY <2>1, <2>2, <3>1 DEF WatchSeen, WatchSays, WatchAll, Watch!ToldOf
  <2> QED BY <1>0, <2>2, <2>3, <2>4, <2>5, <2>6, WatchCard DEF Watch!LibHeld
<1>3. CASE Watch!Chk
  <2> DEFINE who == {m \in mons : thread.dev \in Matches[m] /\ thread.type \in TypesOf[m]}
  <2>1. /\ telling' = [m \in Mons |-> IF m \in who THEN thread.type ELSE telling[m]]
        /\ IF jobs
           THEN /\ started' = [m \in Mons |-> IF m \in who THEN started[m] + 1 ELSE started[m]]
                /\ told' = told
           ELSE /\ told' = [m \in Mons |-> IF m \in who THEN Append(told[m], thread.type)
                                           ELSE told[m]]
                /\ started' = started
        /\ thread # Watch!Idle /\ thread' = Watch!Idle
        /\ UNCHANGED <<jobs, devList, watchPc, mons, refs>>
    BY <1>3 DEF Watch!Chk
  <2> HIDE DEF who
  <2>2. thread.type \in {"inject", "eject"} /\ thread.type \in WatchTypes
    BY <2>1 DEF WatchRest, WatchTypes
  <2>3. /\ started' \in [Mons -> Nat] /\ \A m \in Mons : started[m] <= started'[m]
        /\ telling' \in [Mons -> WatchTypes \cup {"none"}]
        /\ told' \in [Mons -> Seq(WatchTypes \cup {"none"})]
    <3>1. started' \in [Mons -> Nat] /\ \A m \in Mons : started[m] <= started'[m]
      <4>1. \/ started' = started
            \/ started' = [m \in Mons |-> IF m \in who THEN started[m] + 1 ELSE started[m]]
        BY <2>1
      <4>2. started \in [Mons -> Nat]
        BY DEF WatchRest
      <4> QED BY <4>1, <4>2
    <3>2. telling' \in [Mons -> WatchTypes \cup {"none"}]
      BY <2>1, <2>2 DEF WatchRest
    <3>3. \A m \in Mons : Append(told[m], thread.type) \in Seq(WatchTypes \cup {"none"})
      BY <2>2 DEF WatchRest
    <3>4. told' \in [Mons -> Seq(WatchTypes \cup {"none"})]
      BY <2>1, <3>3 DEF WatchRest
    <3> QED BY <3>1, <3>2, <3>4
  <2>4. WatchRest'
    BY <2>1, <2>3 DEF WatchRest
  <2>5. WatchListed'
    BY <2>1 DEF WatchListed
  <2>6. \A m \in Mons : \A T : /\ Watch!ToldOf(m, T) => Watch!ToldOf(m, T)'
                               /\ ~jobs /\ m \in who /\ thread.type \in T => Watch!ToldOf(m, T)'
    <3> SUFFICES ASSUME NEW m \in Mons, NEW T
                 PROVE  /\ Watch!ToldOf(m, T) => Watch!ToldOf(m, T)'
                        /\ ~jobs /\ m \in who /\ thread.type \in T => Watch!ToldOf(m, T)'
      OBVIOUS
    <3>1. told'[m] = told[m] => (Watch!ToldOf(m, T) => Watch!ToldOf(m, T)')
      BY DEF Watch!ToldOf
    <3>2. told'[m] = told[m] \/ (~jobs /\ m \in who /\ told'[m] = Append(told[m], thread.type))
      BY <2>1
    <3>3. told[m] \in Seq(WatchTypes \cup {"none"}) /\ thread.type \in WatchTypes \cup {"none"}
      BY <2>2 DEF WatchRest
    <3>4. ~jobs /\ m \in who => told'[m] = Append(told[m], thread.type)
      BY <2>1
    <3> QED BY <3>1, <3>2, <3>3, <3>4, WatchToldMore
  <2>7. WatchJobs'
    <3> SUFFICES ASSUME NEW m \in Mons, started'[m] > 0
                 PROVE  jobs' /\ (telling'[m] \in WatchTypes \/ Watch!ToldOf(m, WatchTypes)')
      BY DEF WatchJobs
    <3>1. CASE m \in who
      <4>1. telling'[m] = thread.type
        BY <2>1, <3>1
      <4>2. jobs
        <5>1. ~jobs => started'[m] = started[m]
          BY <2>1
        <5> QED BY <5>1 DEF WatchJobs
      <4> QED BY <2>1, <2>2, <4>1, <4>2
    <3>2. CASE m \notin who
      <4>1. telling'[m] = telling[m] /\ started'[m] = started[m]
        BY <2>1, <3>2
      <4> QED BY <2>1, <2>6, <4>1 DEF WatchJobs
    <3> QED BY <3>1, <3>2
  <2>8. WatchSeen'
    <3> SUFFICES ASSUME NEW m \in WatchAll, watchPc[m] = "registered", devList \cap Matches[m] # {}
                 PROVE  Watch!ToldOf(m, WatchSays)' \/ started'[m] > 0
      BY <2>1 DEF WatchSeen, WatchAll
    <3>0. m \in Mons /\ {"inject", "exist"} \subseteq TypesOf[m] /\ WatchSays' = WatchSays
      BY <2>1 DEF WatchAll, WatchSays
    <3>1. CASE Watch!ToldOf(m, WatchSays)
      BY <2>6, <3>0, <3>1
    <3>2. CASE started[m] > 0
      BY <2>3, <3>0, <3>2 DEF WatchRest
    <3>3. CASE thread.type = "inject" /\ thread.dev \in Matches[m]
      <4>1. m \in mons
        BY <3>0 DEF WatchListed
      <4>2. m \in who
        BY <3>0, <3>3, <4>1 DEF who
      <4>3. CASE jobs
        <5>1. started'[m] = started[m] + 1
          BY <2>1, <3>0, <4>2, <4>3
        <5> QED BY <3>0, <5>1 DEF WatchRest
      <4>4. CASE ~jobs
        <5>1. thread.type \in WatchSays
          BY <3>3 DEF WatchSays, WatchTypes
        <5> QED BY <2>6, <3>0, <4>2, <4>4, <5>1
      <4> QED BY <4>3, <4>4
    <3> QED BY <3>1, <3>2, <3>3 DEF WatchSeen
  <2> QED BY <2>1, <2>4, <2>5, <2>7, <2>8 DEF Watch!LibHeld, Watch!Cardinality,
             Watch!IsFiniteSet
<1>4. ASSUME NEW m \in Mons, Watch!Job(m)
      PROVE  WatchInv'
  <2>1. /\ started[m] > 0 /\ started' = [started EXCEPT ![m] = started[m] - 1]
        /\ told' = [told EXCEPT ![m] = Append(told[m], telling[m])]
        /\ telling' = [telling EXCEPT ![m] = "none"]
        /\ UNCHANGED <<jobs, devList, thread, watchPc, mons, refs>>
    BY <1>4 DEF Watch!Job, Watch!Told
  <2>2. started[m] \in Nat /\ telling[m] \in WatchTypes \cup {"none"}
        /\ told[m] \in Seq(WatchTypes \cup {"none"})
    BY DEF WatchRest
  <2>3. WatchRest'
    BY <2>1, <2>2 DEF WatchRest
  <2>4. WatchListed' /\ Watch!LibHeld'
    BY <2>1 DEF WatchListed, Watch!LibHeld, Watch!Cardinality, Watch!IsFiniteSet
  <2>5. \A T : /\ Watch!ToldOf(m, T) => Watch!ToldOf(m, T)'
               /\ telling[m] \in T => Watch!ToldOf(m, T)'
    <3>1. told'[m] = Append(told[m], telling[m])
      BY <2>1 DEF WatchRest
    <3> QED BY <2>2, <3>1, WatchToldMore
  <2>6. jobs /\ Watch!ToldOf(m, WatchTypes)'
    BY <2>1, <2>2, <2>5 DEF WatchJobs
  <2>7. \A n \in Mons \ {m} : /\ started'[n] = started[n] /\ telling'[n] = telling[n]
                              /\ told'[n] = told[n]
    BY <2>1 DEF WatchRest
  <2>8. WatchJobs'
    BY <2>1, <2>6, <2>7 DEF WatchJobs, Watch!ToldOf
  <2>9. WatchSeen'
    <3> SUFFICES ASSUME NEW n \in WatchAll, watchPc[n] = "registered", devList \cap Matches[n] # {}
                 PROVE  \/ Watch!ToldOf(n, WatchSays)' \/ started'[n] > 0
                        \/ thread.type = "inject" /\ thread.dev \in Matches[n]
      BY <2>1 DEF WatchSeen, WatchAll
    <3>1. CASE n = m
      BY <2>1, <2>6, <3>1 DEF WatchSays
    <3>2. CASE n # m
      BY <2>1, <2>7, <3>2 DEF WatchSeen, WatchAll, WatchSays, Watch!ToldOf
    <3> QED BY <3>1, <3>2
  <2> QED BY <2>3, <2>4, <2>8, <2>9
<1>5. ASSUME NEW m \in Mons, Watch!Register(m) \/ Watch!Exist(m)
      PROVE  WatchInv'
  <2>1. UNCHANGED <<jobs, devList, thread, mons, telling, started, told, refs>>
    BY <1>5 DEF Watch!Register, Watch!Exist
  <2>2. PICK p \in {"made", "found", "registered"} :
          /\ watchPc' = [watchPc EXCEPT ![m] = p]
          /\ p = "made" => watchPc[m] = "none"
          /\ p # "made" => watchPc[m] = "listed"
          /\ p = "registered" /\ m \in WatchAll => devList \cap Matches[m] = {}
    BY <1>5 DEF Watch!Register, Watch!Exist, Watch!To, WatchAll
  <2>3. WatchRest' /\ WatchJobs'
    BY <2>1, <2>2 DEF WatchRest, WatchJobs, Watch!ToldOf
  <2>5. WatchListed'
    BY <2>1, <2>2 DEF WatchRest, WatchListed
  <2>4. WatchSeen'
    BY <2>1, <2>2 DEF WatchRest, WatchSeen, WatchAll, WatchSays, Watch!ToldOf
  <2> QED BY <2>1, <2>3, <2>4, <2>5 DEF Watch!LibHeld, Watch!Cardinality,
             Watch!IsFiniteSet
<1>6. ASSUME NEW m \in Mons, Watch!List(m)
      PROVE  WatchInv'
  <2>1. /\ UNCHANGED <<jobs, devList, thread, telling, started, told>>
        /\ watchPc[m] = "made" /\ watchPc' = [watchPc EXCEPT ![m] = "listed"]
    BY <1>6 DEF Watch!List, Watch!To
  <2>2. CASE TypesOf[m] = {"exist"}
    <3>1. UNCHANGED <<mons, refs>>
      BY <1>6, <2>2 DEF Watch!List
    <3> QED BY <2>1, <2>2, <3>1 DEF WatchRest, WatchListed, WatchJobs, WatchSeen,
           WatchAll,
               WatchSays, Watch!ToldOf, Watch!LibHeld, Watch!Cardinality,
               Watch!IsFiniteSet
  <2>3. CASE TypesOf[m] # {"exist"}
    <3>1. mons' = mons \cup {m} /\ refs' = refs + 1 /\ m \notin mons
      BY <1>6, <2>1, <2>3 DEF Watch!List, WatchListed
    <3>2. Cardinality(mons') = Cardinality(mons) + 1
      BY <1>0, <3>1, CardPoint
    <3>3. Watch!LibHeld'
      BY <1>0, <2>1, <3>1, <3>2, WatchCard DEF Watch!LibHeld
    <3>4. WatchListed'
      BY <2>1, <2>3, <3>1 DEF WatchRest, WatchListed
    <3>5. WatchRest'
      BY <2>1, <3>1 DEF WatchRest
    <3>6. WatchJobs' /\ WatchSeen'
      BY <2>1 DEF WatchRest, WatchJobs, WatchSeen, WatchAll, WatchSays, Watch!ToldOf
    <3> QED BY <3>3, <3>4, <3>5, <3>6
  <2> QED BY <2>2, <2>3
<1>7. ASSUME NEW m \in Mons, Watch!Found(m)
      PROVE  WatchInv'
  <2>1. /\ watchPc[m] = "found" /\ telling' = [telling EXCEPT ![m] = "exist"]
        /\ UNCHANGED <<jobs, devList, thread>>
    BY <1>7 DEF Watch!Found
  <2>2. told[m] \in Seq(WatchTypes \cup {"none"}) /\ started[m] \in Nat
        /\ "exist" \in WatchTypes /\ "exist" \in WatchSays
        /\ telling' \in [Mons -> WatchTypes \cup {"none"}] /\ telling'[m] = "exist"
        /\ \A n \in Mons \ {m} : telling'[n] = telling[n]
    BY <2>1 DEF WatchRest, WatchTypes, WatchSays
  <2>3. CASE /\ told' = [told EXCEPT ![m] = Append(told[m], "exist")]
             /\ watchPc' = [watchPc EXCEPT ![m] = "registered"] /\ UNCHANGED <<mons, started, refs>>
    <3>1. told'[m] = Append(told[m], "exist") /\ \A n \in Mons \ {m} : told'[n] = told[n]
      BY <2>3 DEF WatchRest
    <3>2. \A T : /\ Watch!ToldOf(m, T) => Watch!ToldOf(m, T)'
                 /\ "exist" \in T => Watch!ToldOf(m, T)'
      BY <2>2, <3>1, WatchToldMore
    <3>3. WatchRest'
      BY <2>1, <2>2, <2>3 DEF WatchRest
    <3>4. WatchListed' /\ Watch!LibHeld'
      BY <2>1, <2>3 DEF WatchRest, WatchListed, Watch!LibHeld, Watch!Cardinality,
         Watch!IsFiniteSet
    <3>5. WatchJobs'
      <4>1. \A n \in Mons \ {m} : Watch!ToldOf(n, WatchTypes) => Watch!ToldOf(n, WatchTypes)'
        BY <3>1 DEF Watch!ToldOf
      <4> QED BY <2>1, <2>2, <2>3, <4>1 DEF WatchJobs
    <3>6. WatchSeen'
      <4>1. \A n \in Mons \ {m} : /\ Watch!ToldOf(n, WatchSays) => Watch!ToldOf(n, WatchSays)'
                                  /\ watchPc'[n] = watchPc[n]
        BY <2>1, <2>3, <3>1 DEF WatchRest, Watch!ToldOf, WatchSays
      <4>2. Watch!ToldOf(m, WatchSays)'
        BY <2>1, <2>2, <3>2 DEF WatchSays
      <4> QED BY <2>1, <2>3, <4>1, <4>2 DEF WatchSeen, WatchAll
    <3> QED BY <3>3, <3>4, <3>5, <3>6
  <2>4. CASE /\ jobs /\ told' = told /\ started' = [started EXCEPT ![m] = started[m] + 1]
             /\ watchPc' = [watchPc EXCEPT ![m] = "registered"] /\ UNCHANGED <<mons, refs>>
    <3>1. started'[m] > 0 /\ \A n \in Mons \ {m} : started'[n] = started[n] /\ watchPc'[n] = watchPc[n]
      BY <2>2, <2>4 DEF WatchRest
    <3>2. WatchRest'
      BY <2>1, <2>2, <2>4 DEF WatchRest
    <3>3. WatchListed' /\ Watch!LibHeld'
      BY <2>1, <2>4 DEF WatchRest, WatchListed, Watch!LibHeld, Watch!Cardinality,
         Watch!IsFiniteSet
    <3>4. WatchJobs'
      BY <2>1, <2>2, <2>4, <3>1 DEF WatchJobs, Watch!ToldOf
    <3>5. WatchSeen'
      BY <2>1, <2>4, <3>1 DEF WatchSeen, WatchAll, WatchSays, Watch!ToldOf
    <3> QED BY <3>2, <3>3, <3>4, <3>5
  <2>5. CASE /\ jobs /\ TypesOf[m] # {"exist"} /\ told' = told /\ started' = started
             /\ mons' = mons \ {m} /\ refs' = refs - 1
             /\ watchPc' = [watchPc EXCEPT ![m] = "failed"]
    <3>1. m \in mons
      BY <2>1, <2>5 DEF WatchListed
    <3>2. Cardinality(mons') = Cardinality(mons) - 1 /\ Cardinality(mons') \in Nat
      BY <1>0, <2>5, <3>1, CardPoint
    <3>3. refs' \in Nat /\ Watch!LibHeld'
      BY <1>0, <2>1, <2>5, <3>2, WatchCard DEF Watch!LibHeld
    <3>4. WatchRest'
      BY <2>1, <2>2, <2>5, <3>3 DEF WatchRest
    <3>5. WatchListed'
      BY <2>5 DEF WatchRest, WatchListed
    <3>6. WatchJobs' /\ WatchSeen'
      BY ZenonT(60), <2>1, <2>2, <2>5 DEF WatchRest, WatchJobs, WatchSeen, WatchAll, WatchSays,
             Watch!ToldOf
    <3> QED BY <3>3, <3>4, <3>5, <3>6
  <2> QED BY <1>7, <2>3, <2>4, <2>5 DEF Watch!Found, Watch!Told, Watch!To
<1>8. ASSUME NEW m \in Mons, Watch!Deregister(m)
      PROVE  WatchInv'
  <2>1. /\ watchPc[m] = "registered" /\ TypesOf[m] # {"exist"} /\ watchPc' = [watchPc EXCEPT ![m] = "nojob"]
        /\ started' = [started EXCEPT ![m] = 0]
        /\ UNCHANGED <<jobs, devList, thread, mons, telling, told, refs>>
    BY <1>8 DEF Watch!Deregister, Watch!To
  <2>2. WatchRest'
    BY <2>1 DEF WatchRest
  <2>3. WatchListed' /\ Watch!LibHeld'
    BY <2>1 DEF WatchRest, WatchListed, Watch!LibHeld, Watch!Cardinality,
           Watch!IsFiniteSet
  <2>4. WatchJobs'
    BY <2>1 DEF WatchRest, WatchJobs, Watch!ToldOf
  <2>5. WatchSeen'
    BY <2>1 DEF WatchRest, WatchSeen, WatchAll, WatchSays, Watch!ToldOf
  <2> QED BY <2>2, <2>3, <2>4, <2>5
<1>9. ASSUME NEW m \in Mons, Watch!Freed(m)
      PROVE  WatchInv'
  <2>1. /\ watchPc[m] = "nojob" /\ watchPc' = [watchPc EXCEPT ![m] = "freed"] /\ mons' = mons \ {m}
        /\ refs' = refs - 1 /\ UNCHANGED <<jobs, devList, thread, telling, started, told>>
    BY <1>9 DEF Watch!Freed, Watch!To
  <2>2. m \in mons
    BY <2>1 DEF WatchListed
  <2>3. Cardinality(mons') = Cardinality(mons) - 1 /\ Cardinality(mons') \in Nat
    BY <1>0, <2>1, <2>2, CardPoint
  <2>4. refs' \in Nat /\ Watch!LibHeld'
    BY <1>0, <2>1, <2>3, WatchCard DEF Watch!LibHeld
  <2>5. WatchRest'
    BY <2>1, <2>4 DEF WatchRest
  <2>6. WatchListed'
    BY <2>1 DEF WatchRest, WatchListed
  <2>7. WatchJobs' /\ WatchSeen'
    BY <2>1 DEF WatchRest, WatchJobs, WatchSeen, WatchAll, WatchSays, Watch!ToldOf
  <2> QED BY <2>4, <2>5, <2>6, <2>7
<1>10. CASE UNCHANGED Watch!monitorVars
  BY <1>10 DEF Watch!monitorVars, WatchRest, WatchListed, WatchJobs, WatchSeen, WatchAll,
     WatchSays, Watch!ToldOf, Watch!LibHeld, Watch!Cardinality, Watch!IsFiniteSet
<1> QED BY <1>1, <1>2, <1>3, <1>4, <1>5, <1>6, <1>7, <1>8, <1>9, <1>10 DEF Watch!Next

LEMMA WatchNone ==
    ASSUME WatchInv
    PROVE  Watch!NotMissed
<1> SUFFICES ASSUME NEW m \in Mons \ Wild, Watch!Quiet(m),
                    {"inject", "exist"} \subseteq TypesOf[m], devList \cap Matches[m] # {}
             PROVE  Watch!ToldOf(m, IF jobs THEN {"inject", "eject", "exist"}
                                            ELSE {"inject", "exist"})
  BY DEF Watch!NotMissed
<1>1. m \in WatchAll /\ watchPc[m] = "registered" /\ ~(started[m] > 0) /\ thread.type # "inject"
  BY DEF WatchInv, WatchRest, WatchAll, Watch!Quiet, Watch!Idle
<1> QED BY <1>1 DEF WatchInv, WatchSeen, WatchSays, WatchTypes

\* No monitor misses a device that is there, however its registration and the coming and
\* going of devices fall together, and the library is held by each device and monitor.
THEOREM WatchMissesNone ==
    ASSUME WatchParams
    PROVE  Watch!Spec => [](Watch!NotMissed /\ Watch!LibHeld)
<1>1. WatchInv /\ [Watch!Next]_(Watch!monitorVars) => WatchInv'
  BY WatchStep
<1>2. Watch!Init => WatchInv
  BY WatchInit
<1>3. WatchInv => Watch!NotMissed /\ Watch!LibHeld
  BY WatchNone DEF WatchInv
<1> QED BY <1>1, <1>2, <1>3, PTL DEF Watch!Spec
-----------------------------------------------------------------------------
(* Mass storage devices of the host and their handles                       *)

\* The object is on the list and has its device as long as it is there, and each unit
\* that is ready has its buffer; one that is removed was made.
StoreStages ==
    /\ msAt \in {"none", "init", "list", "up", "freed"}
    /\ msListed <=> msAt \in {"list", "up"}
    /\ devRef = (IF msAt \in {"init", "list", "up"} THEN 1 ELSE 0)
    /\ msAt \in {"none", "init", "list"} => ~msRemoved
    /\ msAt \in {"none", "init", "list", "up"} => bufs = ready
    /\ ready \subseteq Lus /\ lusOpen \subseteq ready
    /\ finding => msAt \in {"list", "up", "freed"}

\* The reference of the creator, until the removal.
StoreMade == IF msRemoved THEN 0 ELSE 1

\* Its count is that of its creator and of its handles, with which it stays.
StoreCounted ==
    /\ devOpen \in Nat
    /\ msAt \in {"list", "up"} =>
          /\ msRef = StoreMade + devOpen + Cardinality(lusOpen)
          /\ msRef > 0
    /\ msAt = "init" => msRef = 1
    /\ msAt \in {"none", "init", "freed"} => devOpen = 0 /\ lusOpen = {}

StoreInv == ~msFault => StoreStages /\ StoreCounted

\* Inside the instance the library's operators are its own.
LEMMA StoreCard == \A S : Store!Cardinality(S) = Cardinality(S)
BY DEF Store!Cardinality, Cardinality, Store!IsFiniteSet, IsFiniteSet

LEMMA StoreMadeIs ==
    /\ StoreMade \in {0, 1} /\ StoreMade' \in {0, 1}
    /\ msRemoved' = msRemoved => StoreMade' = StoreMade
    /\ ~msRemoved => StoreMade = 1
    /\ msRemoved' => StoreMade' = 0
BY DEF StoreMade

LEMMA StoreInit ==
    ASSUME Store!Init
    PROVE  StoreInv
BY DEF Store!Init, StoreInv, StoreStages, StoreCounted, StoreMade

\* A reference is given back by one who had it: the creator or a handle, which is none
\* any more.
LEMMA StorePut ==
    ASSUME ~msFault, StoreStages, StoreCounted, msAt \in {"list", "up"}, Store!Put,
           msRemoved' => msRemoved \/ msAt = "up",
           UNCHANGED <<ready, finding>>, lusOpen' \subseteq lusOpen,
           devOpen' \in Nat, Cardinality(lusOpen') \in Nat, Cardinality(lusOpen) \in Nat,
           Cardinality(lusOpen') = 0 => lusOpen' = {},
           StoreMade' + devOpen' + Cardinality(lusOpen')
              = StoreMade + devOpen + Cardinality(lusOpen) - 1
    PROVE  StoreStages' /\ StoreCounted'
<1>1. CASE msRef > 1
  <2>1. msRef' = msRef - 1 /\ UNCHANGED <<msListed, msAt, bufs, devRef>>
    BY <1>1 DEF Store!Put
  <2>2. StoreStages'
    BY <2>1 DEF StoreStages
  <2>3. StoreCounted'
    BY <1>1, <2>1, StoreMadeIs DEF StoreCounted
  <2> QED BY <2>2, <2>3
<1>2. CASE ~(msRef > 1)
  <2>1. /\ msAt' = "freed" /\ devRef' = devRef - 1 /\ msListed' = FALSE
    BY <1>2 DEF Store!Put, Store!Undo
  <2>2. StoreMade + devOpen + Cardinality(lusOpen) = 1
    BY <1>2, StoreMadeIs DEF StoreCounted
  <2>3. devOpen' = 0 /\ Cardinality(lusOpen') = 0
    <3>1. StoreMade' \in {0, 1} /\ StoreMade \in {0, 1}
      BY DEF StoreMade
    <3>2. StoreMade' + devOpen' + Cardinality(lusOpen') = 0
      BY <2>2, <3>1 DEF StoreCounted
    <3> QED BY <3>1, <3>2
  <2>4. StoreStages'
    BY <2>1 DEF StoreStages
  <2> QED BY <2>1, <2>3, <2>4 DEF StoreCounted
<1> QED BY <1>1, <1>2

LEMMA StoreStep ==
    ASSUME IsFiniteSet(Lus), StoreInv, [Store!Next]_(Store!msDevVars)
    PROVE  StoreInv'
<1> SUFFICES ASSUME ~msFault, ~msFault', StoreStages, StoreCounted
             PROVE  StoreStages' /\ StoreCounted'
  <2>1. CASE Store!Next
    <3>1. ~msFault
      BY <2>1 DEF Store!Next
    <3> QED BY <3>1 DEF StoreInv
  <2>2. CASE UNCHANGED Store!msDevVars
    BY <2>2 DEF Store!msDevVars, StoreInv, StoreStages, StoreCounted, StoreMade
  <2> QED BY <2>1, <2>2
<1>0. /\ Cardinality(lusOpen) \in Nat /\ Cardinality({}) = 0
      /\ Cardinality(lusOpen) = 0 => lusOpen = {}
      /\ \A x : /\ x \notin lusOpen => Cardinality(lusOpen \cup {x}) = Cardinality(lusOpen) + 1
                /\ x \in lusOpen => Cardinality(lusOpen \ {x}) = Cardinality(lusOpen) - 1
      /\ \A S : S \subseteq lusOpen /\ Cardinality(S) = 0 => S = {}
      /\ \A S : S \subseteq lusOpen => Cardinality(S) \in Nat
  <2>1. lusOpen \subseteq Lus
    BY DEF StoreStages
  <2>2. \A S : S \subseteq lusOpen => IsFiniteSet(S) /\ Cardinality(S) \in Nat
    BY <2>1, FS_Subset, FS_CardinalityType
  <2> QED BY <2>1, <2>2, CardPoint, FS_EmptySet
<1>1. CASE Store!LibInit \/ Store!LibDeinit
  BY <1>1 DEF Store!LibInit, Store!LibDeinit, StoreStages, StoreCounted, StoreMade
<1>2. CASE Store!Create
  BY <1>2 DEF Store!Create, StoreStages, StoreCounted, StoreMade
<1>3. ASSUME NEW ok \in BOOLEAN, Store!InitLu(ok)
      PROVE  StoreStages' /\ StoreCounted'
  BY <1>3 DEF Store!InitLu, StoreStages, StoreCounted, StoreMade
<1>4. CASE Store!InitFails
  BY <1>4 DEF Store!InitFails, Store!Undo, StoreStages, StoreCounted, StoreMade
<1>5. CASE Store!CreateList
  <2>1. CASE msLib.init
    <3>1. /\ msAt = "init" /\ msAt' = "list" /\ msListed' = TRUE
          /\ UNCHANGED <<msRef, bufs, devRef, msRemoved, ready, devOpen, lusOpen, finding>>
      BY <1>5, <2>1 DEF Store!CreateList
    <3>2. msRef = 1 /\ devOpen = 0 /\ lusOpen = {} /\ ~msRemoved
      BY <3>1 DEF StoreStages, StoreCounted, StoreMade
    <3>3. StoreMade + devOpen + Cardinality(lusOpen) = 1
      BY <1>0, <3>2, StoreMadeIs
    <3> QED BY <3>1, <3>2, <3>3 DEF StoreStages, StoreCounted, StoreMade
  <2>2. CASE ~msLib.init
    BY <1>5, <2>2 DEF Store!CreateList, Store!Undo, StoreStages, StoreCounted, StoreMade
  <2> QED BY <2>1, <2>2
<1>6. CASE Store!CreateCount
  <2>1. CASE msLib.ref > 0
    BY <1>6, <2>1 DEF Store!CreateCount, StoreStages, StoreCounted, StoreMade
  <2>2. CASE ~(msLib.ref > 0)
    <3>1. /\ msAt = "list" /\ msAt' = "freed" /\ devRef' = devRef - 1 /\ msListed' = FALSE
          /\ UNCHANGED <<msRemoved, ready, devOpen, lusOpen, finding>>
          /\ ~(devOpen + Cardinality(lusOpen) > 0)
      BY <1>6, <2>2, StoreCard DEF Store!CreateCount, Store!Undo, Store!Handles
    <3>2. devOpen = 0 /\ lusOpen = {}
      BY <1>0, <3>1 DEF StoreCounted
    <3> QED BY <3>1, <3>2 DEF StoreStages, StoreCounted, StoreMade
  <2> QED BY <2>1, <2>2
<1>7. CASE Store!Destroy
  <2>1. /\ msAt = "up" /\ ~msRemoved /\ msRemoved' = TRUE /\ Store!Put
        /\ UNCHANGED <<ready, devOpen, lusOpen, finding>>
    BY <1>7 DEF Store!Destroy
  <2>2. devOpen \in Nat
    BY DEF StoreCounted
  <2> QED BY <1>0, <2>1, <2>2, StorePut DEF StoreMade
<1>8. CASE Store!OpenFind
  BY <1>8 DEF Store!OpenFind, StoreStages, StoreCounted, StoreMade
<1>9. CASE Store!OpenRef
  <2>1. /\ msAt # "freed" /\ msRef' = msRef + 1 /\ devOpen' = devOpen + 1
        /\ UNCHANGED <<msAt, msRemoved, msListed, ready, bufs, lusOpen, devRef>>
        /\ finding /\ ~finding'
    BY <1>9 DEF Store!OpenRef
  <2>2. msAt \in {"list", "up"}
    BY <2>1 DEF StoreStages
  <2> QED BY <2>1, <2>2, <1>0 DEF StoreStages, StoreCounted, StoreMade
<1>10. CASE Store!Close
  <2>1. /\ devOpen > 0 /\ devOpen' = devOpen - 1 /\ Store!Put
        /\ UNCHANGED <<msRemoved, ready, lusOpen, finding>>
    BY <1>10 DEF Store!Close
  <2>2. msAt \in {"list", "up"} /\ devOpen \in Nat
    BY <2>1 DEF StoreStages, StoreCounted, StoreMade
  <2> QED BY <1>0, <2>1, <2>2, StorePut, StoreMadeIs
<1>11. ASSUME NEW i \in Lus, Store!LuOpen(i)
       PROVE  StoreStages' /\ StoreCounted'
  <2>1. /\ devOpen > 0 /\ i \in ready \ lusOpen /\ lusOpen' = lusOpen \cup {i}
        /\ msRef' = msRef + 1
        /\ UNCHANGED <<msAt, msRemoved, msListed, ready, bufs, devOpen, finding, devRef>>
    BY <1>11 DEF Store!LuOpen
  <2>2. Cardinality(lusOpen') = Cardinality(lusOpen) + 1
    BY <1>0, <2>1
  <2> QED BY <1>0, <2>1, <2>2 DEF StoreStages, StoreCounted, StoreMade
<1>12. ASSUME NEW i \in Lus, Store!LuClose(i)
       PROVE  StoreStages' /\ StoreCounted'
  <2>1. /\ i \in lusOpen /\ lusOpen' = lusOpen \ {i} /\ Store!Put
        /\ UNCHANGED <<msRemoved, ready, devOpen, finding>>
    BY <1>12 DEF Store!LuClose
  <2>2. Cardinality(lusOpen') = Cardinality(lusOpen) - 1
    BY <1>0, <2>1
  <2>3. msAt \in {"list", "up"} /\ devOpen \in Nat
    BY <2>1 DEF StoreStages, StoreCounted, StoreMade
  <2> QED BY <1>0, <2>1, <2>2, <2>3, StorePut, StoreMadeIs
<1>13. CASE UNCHANGED Store!msDevVars
  BY <1>13 DEF Store!msDevVars, StoreStages, StoreCounted, StoreMade
<1> QED BY <1>1, <1>2, <1>3, <1>4, <1>5, <1>6, <1>7, <1>8, <1>9, <1>10, <1>11, <1>12,
       <1>13
    DEF Store!Next

LEMMA StoreCounts ==
    ASSUME IsFiniteSet(Lus), StoreInv
    PROVE  Store!HandlesCount
<1> SUFFICES ASSUME ~msFault, StoreStages, StoreCounted
             PROVE  Store!HandlesCount
  BY DEF StoreInv, Store!HandlesCount
<1>1. /\ Cardinality({}) = 0
      /\ Store!Cardinality(lusOpen) = Cardinality(lusOpen) /\ Cardinality(lusOpen) \in Nat
  <2>1. lusOpen \subseteq Lus
    BY DEF StoreStages
  <2> QED BY <2>1, FS_EmptySet, FS_Subset, FS_CardinalityType, StoreCard
<1>2. Store!Handles = devOpen + Cardinality(lusOpen)
  BY <1>1 DEF Store!Handles
<1>3. msAt \in {"none", "init", "freed"} => Store!Handles = 0
  <2> SUFFICES ASSUME msAt \in {"none", "init", "freed"}
               PROVE  Store!Handles = 0
    OBVIOUS
  <2>1. devOpen = 0 /\ lusOpen = {}
    BY DEF StoreCounted
  <2>2. Cardinality(lusOpen) = 0
    BY <1>1, <2>1
  <2> QED BY <1>2, <2>1, <2>2
<1>4. msAt \in {"list", "up"} => msRef = StoreMade + Store!Handles
  BY <1>1, <1>2, StoreMadeIs DEF StoreCounted
<1>5. msAt \in {"list", "up"} => lusOpen \subseteq bufs
  BY DEF StoreStages
<1>6. msAt = "freed" => devRef = 0 /\ ~msListed
  BY DEF StoreStages
<1> QED BY <1>3, <1>4, <1>5, <1>6 DEF Store!HandlesCount, StoreStages, StoreMade

\* A device stays, with the buffers of its units, as long as a handle on it or on one of
\* them is open, and goes with the last.
THEOREM StoreStays ==
    ASSUME IsFiniteSet(Lus)
    PROVE  Store!Spec => []Store!HandlesCount
<1>1. StoreInv /\ [Store!Next]_(Store!msDevVars) => StoreInv'
  BY StoreStep
<1>2. Store!Init => StoreInv
  BY StoreInit
<1>3. StoreInv => Store!HandlesCount
  BY StoreCounts
<1> QED BY <1>1, <1>2, <1>3, PTL DEF Store!Spec
-----------------------------------------------------------------------------
(* USB serial devices of the host and their handles                         *)

SerObjs == [stage : Serial!Stages, ref : Nat, removed : BOOLEAN, open : Nat, ports : Nat]
SerDead == {"none", "freed", "dropped"}

\* The reference of the creator, until the destroy.
SerMade(o) == IF o.removed THEN 0 ELSE 1

\* An object is counted once for its creator, each handle and each open port, and its
\* release begins with no one left.
SerCount(o) ==
    /\ o \in SerObjs
    /\ o.stage \notin SerDead => o.ref = SerMade(o) + o.open + o.ports
    /\ o.stage \in {"unlist", "unlib", "free"} => o.removed
    /\ o.stage \in {"unlist", "unlib", "free", "freed"} => o.open = 0 /\ o.ports = 0
    /\ o.stage \in {"chip", "listed"} => ~o.removed

\* Nothing else is held on the library than its objects and its user.
SerLib ==
    /\ serLib \in [init : BOOLEAN, deiniting : BOOLEAN, ref : Nat]
    /\ Serial!LibCounted

SerInv ==
    /\ serObj \in [SerDevs -> SerObjs] /\ serHeld \in [SerDevs -> Nat]
    /\ \A d \in SerDevs : /\ SerCount(serObj[d])
                          /\ serHeld[d] = IF serObj[d].stage \in SerDead THEN 0 ELSE 1
    /\ SerLib

\* Inside the instance the library's operators are its own.
LEMMA SerCard == \A S : Serial!Cardinality(S) = Cardinality(S)
BY DEF Serial!Cardinality, Cardinality, Serial!IsFiniteSet, IsFiniteSet

LEMMA SerMadeIs ==
    ASSUME NEW o
    PROVE  /\ SerMade(o) \in {0, 1}
           /\ o.removed => SerMade(o) = 0
           /\ ~o.removed => SerMade(o) = 1
           /\ \A n : n.removed = o.removed => SerMade(n) = SerMade(o)
BY DEF SerMade

\* What an object becomes in a step.
LEMMA SerBecomes ==
    ASSUME NEW o \in SerObjs
    PROVE  /\ \A s \in Serial!Stages :
              LET n == [o EXCEPT !.stage = s]
              IN /\ n \in SerObjs /\ n.stage = s /\ n.ref = o.ref /\ n.removed = o.removed
                 /\ n.open = o.open /\ n.ports = o.ports
           /\ \A s \in Serial!Stages, r \in Nat :
              LET n == [o EXCEPT !.stage = s, !.ref = r]
              IN /\ n \in SerObjs /\ n.stage = s /\ n.ref = r /\ n.removed = o.removed
                 /\ n.open = o.open /\ n.ports = o.ports
           /\ \A s \in Serial!Stages, r \in Nat :
              LET n == [o EXCEPT !.ref = r, !.stage = s]
              IN /\ n \in SerObjs /\ n.stage = s /\ n.ref = r /\ n.removed = o.removed
                 /\ n.open = o.open /\ n.ports = o.ports
           /\ LET n == [o EXCEPT !.removed = TRUE]
              IN /\ n \in SerObjs /\ n.stage = o.stage /\ n.ref = o.ref /\ n.removed
                 /\ n.open = o.open /\ n.ports = o.ports
           /\ \A r, k \in Nat :
              LET n == [o EXCEPT !.ref = r, !.open = k]
              IN /\ n \in SerObjs /\ n.stage = o.stage /\ n.ref = r /\ n.removed = o.removed
                 /\ n.open = k /\ n.ports = o.ports
           /\ \A r, k \in Nat :
              LET n == [o EXCEPT !.ref = r, !.ports = k]
              IN /\ n \in SerObjs /\ n.stage = o.stage /\ n.ref = r /\ n.removed = o.removed
                 /\ n.open = o.open /\ n.ports = k
           /\ \A k \in Nat :
              LET n == [o EXCEPT !.open = k]
              IN /\ n \in SerObjs /\ n.stage = o.stage /\ n.ref = o.ref /\ n.removed = o.removed
                 /\ n.open = k /\ n.ports = o.ports
           /\ \A k \in Nat :
              LET n == [o EXCEPT !.ports = k]
              IN /\ n \in SerObjs /\ n.stage = o.stage /\ n.ref = o.ref /\ n.removed = o.removed
                 /\ n.open = o.open /\ n.ports = k
<1>1. \A s \in Serial!Stages :
         LET n == [o EXCEPT !.stage = s]
         IN /\ n \in SerObjs /\ n.stage = s /\ n.ref = o.ref /\ n.removed = o.removed
            /\ n.open = o.open /\ n.ports = o.ports
  BY DEF SerObjs
<1>2. \A s \in Serial!Stages, r \in Nat :
         LET n == [o EXCEPT !.stage = s, !.ref = r]
         IN /\ n \in SerObjs /\ n.stage = s /\ n.ref = r /\ n.removed = o.removed
            /\ n.open = o.open /\ n.ports = o.ports
  BY DEF SerObjs
<1>3. \A s \in Serial!Stages, r \in Nat :
         LET n == [o EXCEPT !.ref = r, !.stage = s]
         IN /\ n \in SerObjs /\ n.stage = s /\ n.ref = r /\ n.removed = o.removed
            /\ n.open = o.open /\ n.ports = o.ports
  BY DEF SerObjs
<1>4. LET n == [o EXCEPT !.removed = TRUE]
         IN /\ n \in SerObjs /\ n.stage = o.stage /\ n.ref = o.ref /\ n.removed
            /\ n.open = o.open /\ n.ports = o.ports
  BY DEF SerObjs
<1>5. \A r, k \in Nat :
         LET n == [o EXCEPT !.ref = r, !.open = k]
         IN /\ n \in SerObjs /\ n.stage = o.stage /\ n.ref = r /\ n.removed = o.removed
            /\ n.open = k /\ n.ports = o.ports
  BY DEF SerObjs
<1>6. \A r, k \in Nat :
         LET n == [o EXCEPT !.ref = r, !.ports = k]
         IN /\ n \in SerObjs /\ n.stage = o.stage /\ n.ref = r /\ n.removed = o.removed
            /\ n.open = o.open /\ n.ports = k
  BY DEF SerObjs
<1>7. \A k \in Nat :
         LET n == [o EXCEPT !.open = k]
         IN /\ n \in SerObjs /\ n.stage = o.stage /\ n.ref = o.ref /\ n.removed = o.removed
            /\ n.open = k /\ n.ports = o.ports
  BY DEF SerObjs
<1>8. \A k \in Nat :
         LET n == [o EXCEPT !.ports = k]
         IN /\ n \in SerObjs /\ n.stage = o.stage /\ n.ref = o.ref /\ n.removed = o.removed
            /\ n.open = o.open /\ n.ports = k
  BY DEF SerObjs
<1> QED BY <1>1, <1>2, <1>3, <1>4, <1>5, <1>6, <1>7, <1>8

\* A reference is given back by one who had it.
LEMMA SerPut ==
    ASSUME NEW o, SerCount(o), o.stage \in {"chip", "listed", "up"},
           NEW n \in SerObjs, n.stage = o.stage, n.ref = o.ref,
           n.removed = o.removed \/ o.stage = "up",
           SerMade(n) + n.open + n.ports = o.ref - 1
    PROVE  LET p == Serial!Put(n)
           IN SerCount(p) /\ (p.stage = o.stage \/ (o.stage = "up" /\ p.stage = "unlist"))
<1> DEFINE p == Serial!Put(n)
<1>0. /\ n.ref \in Nat /\ n.open \in Nat /\ n.ports \in Nat /\ SerMade(n) \in {0, 1}
      /\ n.removed <=> SerMade(n) = 0
  BY SerMadeIs DEF SerObjs
<1>1. n.ref >= 1
  BY <1>0
<1>2. /\ p \in SerObjs /\ p.ref = n.ref - 1 /\ p.removed = n.removed
      /\ p.stage = (IF n.ref = 1 THEN "unlist" ELSE n.stage)
      /\ p.open = n.open /\ p.ports = n.ports
  <2>1. n.ref - 1 \in Nat /\ (IF n.ref = 1 THEN "unlist" ELSE n.stage) \in Serial!Stages
    BY <1>0, <1>1 DEF SerObjs, Serial!Stages
  <2> DEFINE t == IF n.ref = 1 THEN "unlist" ELSE n.stage
  <2>2. p = [n EXCEPT !.ref = n.ref - 1, !.stage = t]
    BY DEF Serial!Put
  <2>3. \A s \in Serial!Stages, r \in Nat :
           LET m == [n EXCEPT !.ref = r, !.stage = s]
           IN /\ m \in SerObjs /\ m.stage = s /\ m.ref = r /\ m.removed = n.removed
              /\ m.open = n.open /\ m.ports = n.ports
    BY SerBecomes
  <2>4. t \in Serial!Stages
    BY <2>1
  <2> HIDE DEF t, p
  <2>5. /\ p \in SerObjs /\ p.ref = n.ref - 1 /\ p.removed = n.removed
        /\ p.stage = t /\ p.open = n.open /\ p.ports = n.ports
    BY <2>1, <2>2, <2>3, <2>4
  <2> QED BY <2>5 DEF t
<1> HIDE DEF p
<1>3. SerMade(p) = SerMade(n)
  BY <1>2, SerMadeIs
<1>4. p.ref = SerMade(p) + p.open + p.ports
  BY <1>0, <1>2, <1>3
<1>5. CASE n.ref = 1
  <2>1. SerMade(n) = 0 /\ n.open = 0 /\ n.ports = 0
    BY <1>0, <1>5
  <2>2. n.removed /\ o.stage = "up"
    <3>1. n.removed
      BY <1>0, <2>1
    <3> QED BY <3>1 DEF SerCount
  <2> QED BY <1>2, <1>4, <1>5, <2>1, <2>2 DEF SerCount, p
<1>6. CASE n.ref # 1
  BY <1>2, <1>4, <1>6 DEF SerCount, p
<1> QED BY <1>5, <1>6

\* One object changes, and with it its reference on the device.
LEMMA SerMoves ==
    ASSUME SerInv, NEW d \in SerDevs, NEW o, SerCount(o),
           serObj' = [serObj EXCEPT ![d] = o], SerLib',
           \/ /\ o.stage \in SerDead <=> serObj[d].stage \in SerDead
              /\ serHeld' = serHeld
           \/ /\ serObj[d].stage \notin SerDead /\ o.stage \in SerDead
              /\ serHeld' = [serHeld EXCEPT ![d] = @ - 1]
           \/ /\ serObj[d].stage \in SerDead /\ o.stage \notin SerDead
              /\ serHeld' = [serHeld EXCEPT ![d] = @ + 1]
    PROVE  SerInv'
<1>1. serObj' \in [SerDevs -> SerObjs] /\ \A e \in SerDevs : SerCount(serObj'[e])
  BY DEF SerInv, SerCount
<1>2. serHeld'[d] = (IF o.stage \in SerDead THEN 0 ELSE 1)
  BY DEF SerInv
<1>3. serHeld' \in [SerDevs -> Nat]
  BY DEF SerInv
<1>4. \A e \in SerDevs \ {d} : serHeld'[e] = serHeld[e] /\ serObj'[e] = serObj[e]
  BY DEF SerInv
<1>5. serObj'[d] = o
  BY DEF SerInv
<1>6. \A e \in SerDevs : serHeld'[e] = IF serObj'[e].stage \in SerDead THEN 0 ELSE 1
  BY <1>2, <1>4, <1>5 DEF SerInv
<1> QED BY <1>1, <1>3, <1>6 DEF SerInv

\* The library is the same and so are the objects that hold it.
LEMMA SerLibKept ==
    ASSUME SerInv, NEW d \in SerDevs, NEW o, serObj' = [serObj EXCEPT ![d] = o],
           o.stage \in {"up", "unlist", "unlib"}
              <=> serObj[d].stage \in {"up", "unlist", "unlib"},
           serLib' = serLib
    PROVE  SerLib'
<1>1. Serial!InLib' = Serial!InLib
  BY DEF SerInv, Serial!InLib
<1> QED BY <1>1, SerCard DEF SerInv, SerLib, Serial!LibCounted

LEMMA SerInit ==
    ASSUME Serial!Init
    PROVE  SerInv
<1>1. /\ Serial!NoObj \in SerObjs /\ Serial!NoObj.stage = "none"
      /\ SerCount(Serial!NoObj)
  BY DEF Serial!NoObj, SerObjs, Serial!Stages, SerCount, SerDead
<1>2. Serial!InLib = {}
  BY <1>1 DEF Serial!Init, Serial!InLib
<1>3. SerLib
  BY <1>2, SerCard, FS_EmptySet DEF Serial!Init, SerLib, Serial!LibCounted
<1> QED BY <1>1, <1>3 DEF Serial!Init, SerInv, SerDead

\* The object of a failed create, and the library after one put.
LEMMA SerDropped ==
    ASSUME NEW o \in SerObjs
    PROVE  LET n == [o EXCEPT !.stage = "dropped"]
           IN n \in SerObjs /\ n.stage = "dropped"
<1>1. "dropped" \in Serial!Stages
  BY DEF Serial!Stages
<1> QED BY <1>1, SerBecomes

LEMMA SerLibPut ==
    ASSUME NEW l \in [init : BOOLEAN, deiniting : BOOLEAN, ref : Nat], l.ref >= 1, l.init
    PROVE  LET p == Serial!LibPut(l)
           IN /\ p \in [init : BOOLEAN, deiniting : BOOLEAN, ref : Nat]
              /\ p.ref = l.ref - 1 /\ p.deiniting = l.deiniting
              /\ p.init <=> l.ref > 1
<1>1. \A r \in Nat, b \in BOOLEAN :
         LET p == [l EXCEPT !.ref = r, !.init = b]
         IN /\ p \in [init : BOOLEAN, deiniting : BOOLEAN, ref : Nat]
            /\ p.ref = r /\ p.deiniting = l.deiniting /\ p.init = b
  OBVIOUS
<1> DEFINE b == l.init /\ l.ref > 1
<1>2. l.ref - 1 \in Nat
  OBVIOUS
<1>3. b \in BOOLEAN /\ (b <=> l.ref > 1)
  OBVIOUS
<1>4. Serial!LibPut(l) = [l EXCEPT !.ref = l.ref - 1, !.init = b]
  BY DEF Serial!LibPut
<1> HIDE DEF b
<1> QED BY <1>1, <1>2, <1>3, <1>4

LEMMA SerStep ==
    ASSUME IsFiniteSet(SerDevs), SerInv, [Serial!Next]_(Serial!serialVars)
    PROVE  SerInv'
<1>0. /\ \A d \in SerDevs : SerCount(serObj[d]) /\ serObj[d] \in SerObjs
      /\ serObj \in [SerDevs -> SerObjs] /\ SerLib
      /\ \A d \in SerDevs : d \in Serial!Alive <=> serObj[d].stage \notin SerDead
  BY DEF SerInv, SerCount, Serial!Alive, SerDead, SerObjs
<1>1. CASE UNCHANGED Serial!serialVars
  BY <1>1, SerCard DEF Serial!serialVars, SerInv, SerLib, Serial!LibCounted, Serial!InLib
<1>2. ASSUME UNCHANGED <<serObj, serHeld>>, SerLib'
      PROVE  SerInv'
  BY <1>2 DEF SerInv
<1>3. serObj' = serObj => Serial!InLib' = Serial!InLib
  BY DEF Serial!InLib
<1>4. Cardinality(Serial!InLib) \in Nat
  BY CardPoint, SerDevs \subseteq SerDevs, Serial!InLib \subseteq SerDevs DEF Serial!InLib
<1>5. CASE Serial!LibInit
  <2>1. serLib' = [init |-> TRUE, deiniting |-> FALSE, ref |-> 1] /\ ~serLib.init
        /\ UNCHANGED <<serObj, serHeld>>
    BY <1>5 DEF Serial!LibInit
  <2>2. Cardinality(Serial!InLib) = 0
    BY <1>0, <1>4, <2>1, SerCard DEF SerLib, Serial!LibCounted
  <2> QED BY <1>2, <1>3, <2>1, <2>2, SerCard DEF SerLib, Serial!LibCounted
<1>6. CASE Serial!LibDeinit
  <2>1. /\ serLib.init /\ ~serLib.deiniting /\ UNCHANGED <<serObj, serHeld>>
        /\ serLib' = Serial!LibPut([serLib EXCEPT !.deiniting = TRUE])
    BY <1>6 DEF Serial!LibDeinit
  <2>2. serLib.ref = Cardinality(Serial!InLib) + 1
    BY <1>0, <2>1, SerCard DEF SerLib, Serial!LibCounted
  <2>3. /\ serLib' \in [init : BOOLEAN, deiniting : BOOLEAN, ref : Nat]
        /\ serLib'.ref = serLib.ref - 1 /\ serLib'.deiniting
        /\ serLib'.init <=> serLib.ref > 1
    <3> DEFINE l == [serLib EXCEPT !.deiniting = TRUE]
    <3>1. /\ l \in [init : BOOLEAN, deiniting : BOOLEAN, ref : Nat]
          /\ l.ref = serLib.ref /\ l.deiniting /\ l.init
      BY <1>0, <2>1 DEF SerLib
    <3>2. serLib' = Serial!LibPut(l)
      BY <2>1
    <3> HIDE DEF l
    <3>3. l.ref >= 1
      BY <1>4, <2>2, <3>1
    <3> QED BY <3>1, <3>2, <3>3, SerLibPut
  <2> QED BY <1>2, <1>3, <1>4, <2>1, <2>2, <2>3, SerCard DEF SerLib, Serial!LibCounted
<1>7. ASSUME NEW d \in SerDevs, Serial!ChipInit(d)
      PROVE  SerInv'
  <2> DEFINE o == serObj[d]
  <2>1. o.stage = "none" /\ o.ref = 0 /\ o.open = 0 /\ o.ports = 0 /\ ~o.removed
        /\ UNCHANGED serLib
    BY <1>7 DEF Serial!ChipInit, Serial!NoObj
  <2>2. CASE /\ serObj' = [serObj EXCEPT ![d].stage = "chip", ![d].ref = 1]
             /\ serHeld' = [serHeld EXCEPT ![d] = @ + 1]
    <3> DEFINE n == [o EXCEPT !.stage = "chip", !.ref = 1]
    <3>1. /\ n \in SerObjs /\ n.stage = "chip" /\ n.ref = 1 /\ n.removed = o.removed
          /\ n.open = o.open /\ n.ports = o.ports
      <4>1. \A s \in Serial!Stages, r \in Nat :
               LET m == [o EXCEPT !.stage = s, !.ref = r]
               IN /\ m \in SerObjs /\ m.stage = s /\ m.ref = r /\ m.removed = o.removed
                  /\ m.open = o.open /\ m.ports = o.ports
        BY <1>0, SerBecomes
      <4>2. "chip" \in Serial!Stages /\ 1 \in Nat
        BY DEF Serial!Stages
      <4> QED BY <4>1, <4>2
    <3>2. serObj' = [serObj EXCEPT ![d] = n]
      BY <1>0, <2>2
    <3> HIDE DEF n
    <3>3. SerMade(n) = 1
      BY <2>1, <3>1, SerMadeIs
    <3>4. SerCount(n)
      BY <2>1, <3>1, <3>3 DEF SerCount
    <3>5. SerLib'
      BY <2>1, <3>1, <3>2, SerLibKept
    <3> QED BY <2>1, <2>2, <3>1, <3>2, <3>4, <3>5, SerMoves DEF SerDead
  <2>3. CASE serObj' = [serObj EXCEPT ![d].stage = "dropped"] /\ serHeld' = serHeld
    <3> DEFINE n == [o EXCEPT !.stage = "dropped"]
    <3>1. n \in SerObjs /\ n.stage = "dropped"
      BY <1>0, SerDropped
    <3>2. serObj' = [serObj EXCEPT ![d] = n]
      BY <1>0, <2>3
    <3> HIDE DEF n
    <3>3. SerCount(n)
      BY <3>1 DEF SerCount, SerDead
    <3>4. SerLib'
      BY <2>1, <3>1, <3>2, SerLibKept
    <3> QED BY <2>1, <2>3, <3>1, <3>2, <3>3, <3>4, SerMoves DEF SerDead
  <2> QED BY <1>7, <2>2, <2>3 DEF Serial!ChipInit
<1>8. ASSUME NEW d \in SerDevs, serObj[d].stage \in {"chip", "listed"},
             Serial!CreateFails(d), UNCHANGED serLib
      PROVE  SerInv'
  <2> DEFINE n == [serObj[d] EXCEPT !.stage = "dropped"]
  <2>1. n \in SerObjs /\ n.stage = "dropped"
    BY <1>0, SerDropped
  <2>2. serObj' = [serObj EXCEPT ![d] = n] /\ serHeld' = [serHeld EXCEPT ![d] = @ - 1]
    BY <1>0, <1>8 DEF Serial!CreateFails
  <2> HIDE DEF n
  <2>3. SerCount(n)
    BY <2>1 DEF SerCount, SerDead
  <2>4. SerLib'
    BY <1>8, <2>1, <2>2, SerLibKept
  <2> QED BY <1>8, <2>1, <2>2, <2>3, <2>4, SerMoves DEF SerDead
<1>9. ASSUME NEW d \in SerDevs, Serial!CreateList(d)
      PROVE  SerInv'
  <2>1. CASE serLib.init
    <3> DEFINE o == serObj[d]
    <3> DEFINE n == [o EXCEPT !.stage = "listed"]
    <3>1. /\ n \in SerObjs /\ n.stage = "listed" /\ n.ref = o.ref /\ n.removed = o.removed
          /\ n.open = o.open /\ n.ports = o.ports
      BY ZenonT(60), <1>0, SerBecomes DEF Serial!Stages
    <3>2. /\ o.stage = "chip" /\ serObj' = [serObj EXCEPT ![d] = n]
          /\ UNCHANGED <<serLib, serHeld>>
      BY <1>0, <1>9, <2>1 DEF Serial!CreateList
    <3>3. SerCount(o)
      BY <1>0
    <3> HIDE DEF n, o
    <3>4. SerCount(n)
      BY <3>1, <3>2, <3>3, SerMadeIs DEF SerCount, SerDead
    <3>5. SerLib'
      BY <3>1, <3>2, SerLibKept DEF o
    <3> QED BY <3>1, <3>2, <3>4, <3>5, SerMoves DEF SerDead, o
  <2>2. CASE ~serLib.init
    BY <1>8, <1>9, <2>2 DEF Serial!CreateList
  <2> QED BY <2>1, <2>2
<1>10. ASSUME NEW d \in SerDevs, Serial!CreateRef(d)
       PROVE  SerInv'
  <2>1. CASE serLib.ref > 0
    <3> DEFINE o == serObj[d]
    <3> DEFINE n == [o EXCEPT !.stage = "up"]
    <3>1. /\ n \in SerObjs /\ n.stage = "up" /\ n.ref = o.ref /\ n.removed = o.removed
          /\ n.open = o.open /\ n.ports = o.ports
      BY ZenonT(60), <1>0, SerBecomes DEF Serial!Stages
    <3>2. /\ o.stage = "listed" /\ serObj' = [serObj EXCEPT ![d] = n]
          /\ serLib' = [serLib EXCEPT !.ref = @ + 1] /\ UNCHANGED serHeld
      BY <1>0, <1>10, <2>1 DEF Serial!CreateRef
    <3>3. SerCount(o)
      BY <1>0
    <3> HIDE DEF n, o
    <3>4. SerCount(n)
      BY <3>1, <3>2, <3>3, SerMadeIs DEF SerCount, SerDead
    <3>5. Serial!InLib' = Serial!InLib \cup {d} /\ d \notin Serial!InLib
      BY <1>0, <3>1, <3>2 DEF Serial!InLib, o
    <3>6. Cardinality(Serial!InLib') = Cardinality(Serial!InLib) + 1
      BY <3>5, CardPoint, Serial!InLib \subseteq SerDevs DEF Serial!InLib
    <3>7. /\ serLib' \in [init : BOOLEAN, deiniting : BOOLEAN, ref : Nat]
          /\ serLib'.ref = serLib.ref + 1 /\ serLib'.deiniting = serLib.deiniting
          /\ serLib'.init = serLib.init
      BY <1>0, <3>2 DEF SerLib
    <3>8. SerLib'
      BY <1>0, <1>4, <2>1, <3>6, <3>7, SerCard DEF SerLib, Serial!LibCounted
    <3> QED BY <3>1, <3>2, <3>4, <3>8, SerMoves DEF SerDead, o
  <2>2. CASE ~(serLib.ref > 0)
    BY <1>8, <1>10, <2>2 DEF Serial!CreateRef
  <2> QED BY <2>1, <2>2
\* One reference on the object is given back.
<1>11. ASSUME NEW d \in SerDevs, serObj[d].stage \in {"chip", "listed", "up"},
              NEW n \in SerObjs, n.stage = serObj[d].stage, n.ref = serObj[d].ref,
              n.removed = serObj[d].removed \/ serObj[d].stage = "up",
              SerMade(n) + n.open + n.ports = serObj[d].ref - 1,
              serObj' = [serObj EXCEPT ![d] = Serial!Put(n)], UNCHANGED <<serLib, serHeld>>
       PROVE  SerInv'
  <2> DEFINE p == Serial!Put(n)
  <2>1. SerCount(p) /\ (p.stage = serObj[d].stage
                          \/ (serObj[d].stage = "up" /\ p.stage = "unlist"))
    BY <1>0, <1>11, SerPut
  <2>2. serObj' = [serObj EXCEPT ![d] = p]
    BY <1>11
  <2> HIDE DEF p
  <2>3. SerLib'
    BY <1>11, <2>1, <2>2, SerLibKept
  <2> QED BY <1>11, <2>1, <2>2, <2>3, SerMoves DEF SerDead
<1>12. ASSUME NEW d \in SerDevs, Serial!Destroy(d)
       PROVE  SerInv'
  <2> DEFINE o == serObj[d]
  <2> DEFINE n == [o EXCEPT !.removed = TRUE]
  <2>1. /\ n \in SerObjs /\ n.stage = o.stage /\ n.ref = o.ref /\ n.removed
        /\ n.open = o.open /\ n.ports = o.ports
    BY <1>0, SerBecomes
  <2>2. /\ o.stage = "up" /\ ~o.removed /\ serObj' = [serObj EXCEPT ![d] = Serial!Put(n)]
        /\ UNCHANGED <<serLib, serHeld>>
    BY <1>12 DEF Serial!Destroy
  <2>3. o.ref = SerMade(o) + o.open + o.ports /\ o.open \in Nat /\ o.ports \in Nat
    BY <1>0, <2>2 DEF SerCount, SerDead, SerObjs
  <2> HIDE DEF n
  <2>4. SerMade(n) = 0 /\ SerMade(o) = 1
    BY <2>1, <2>2, SerMadeIs
  <2>5. SerMade(n) + n.open + n.ports = o.ref - 1
    BY <2>1, <2>3, <2>4
  <2> QED BY <1>11, <2>1, <2>2, <2>5
<1>13. ASSUME NEW d \in SerDevs, Serial!Close(d)
       PROVE  SerInv'
  <2> DEFINE o == serObj[d]
  <2> DEFINE n == [o EXCEPT !.open = o.open - 1]
  <2>1. /\ o.stage \notin SerDead /\ o.open > 0
        /\ serObj' = [serObj EXCEPT ![d] = Serial!Put(n)] /\ UNCHANGED <<serLib, serHeld>>
    BY <1>0, <1>13 DEF Serial!Close
  <2>2. /\ o.ref = SerMade(o) + o.open + o.ports /\ o.open \in Nat /\ o.ports \in Nat
        /\ o.stage \in {"chip", "listed", "up"}
    BY <1>0, <2>1 DEF SerCount, SerDead, SerObjs, Serial!Stages
  <2>3. /\ n \in SerObjs /\ n.stage = o.stage /\ n.ref = o.ref /\ n.removed = o.removed
        /\ n.open = o.open - 1 /\ n.ports = o.ports
    <3>1. o.open - 1 \in Nat
      BY <2>1, <2>2
    <3>2. \A k \in Nat :
             LET m == [o EXCEPT !.open = k]
             IN /\ m \in SerObjs /\ m.stage = o.stage /\ m.ref = o.ref /\ m.removed = o.removed
                /\ m.open = k /\ m.ports = o.ports
      <4>1. o \in SerObjs
        BY <1>0
      <4> HIDE DEF o
      <4> QED BY <4>1, SerBecomes
    <3> QED BY <3>1, <3>2
  <2> HIDE DEF n
  <2>4. SerMade(n) = SerMade(o) /\ SerMade(o) \in {0, 1}
    BY <2>3, SerMadeIs
  <2>5. SerMade(n) + n.open + n.ports = o.ref - 1
    BY <2>2, <2>3, <2>4
  <2> QED BY <1>11, <2>1, <2>2, <2>3, <2>5
<1>14. ASSUME NEW d \in SerDevs, Serial!PortClose(d)
       PROVE  SerInv'
  <2> DEFINE o == serObj[d]
  <2> DEFINE n == [o EXCEPT !.ports = o.ports - 1]
  <2>1. /\ o.stage \notin SerDead /\ o.ports > 0
        /\ serObj' = [serObj EXCEPT ![d] = Serial!Put(n)] /\ UNCHANGED <<serLib, serHeld>>
    BY <1>0, <1>14 DEF Serial!PortClose
  <2>2. /\ o.ref = SerMade(o) + o.open + o.ports /\ o.open \in Nat /\ o.ports \in Nat
        /\ o.stage \in {"chip", "listed", "up"}
    BY <1>0, <2>1 DEF SerCount, SerDead, SerObjs, Serial!Stages
  <2>3. /\ n \in SerObjs /\ n.stage = o.stage /\ n.ref = o.ref /\ n.removed = o.removed
        /\ n.open = o.open /\ n.ports = o.ports - 1
    <3>1. o.ports - 1 \in Nat
      BY <2>1, <2>2
    <3>2. \A k \in Nat :
             LET m == [o EXCEPT !.ports = k]
             IN /\ m \in SerObjs /\ m.stage = o.stage /\ m.ref = o.ref /\ m.removed = o.removed
                /\ m.open = o.open /\ m.ports = k
      <4>1. o \in SerObjs
        BY <1>0
      <4> HIDE DEF o
      <4> QED BY <4>1, SerBecomes
    <3> QED BY <3>1, <3>2
  <2> HIDE DEF n
  <2>4. SerMade(n) = SerMade(o) /\ SerMade(o) \in {0, 1}
    BY <2>3, SerMadeIs
  <2>5. SerMade(n) + n.open + n.ports = o.ref - 1
    BY <2>2, <2>3, <2>4
  <2> QED BY <1>11, <2>1, <2>2, <2>3, <2>5

\* A handle or a port takes a reference on an object that still has one.
<1>15. ASSUME NEW d \in SerDevs, d \in Serial!Alive, serObj[d].ref > 0,
              NEW n, SerCount(n), n.stage = serObj[d].stage,
              serObj' = [serObj EXCEPT ![d] = n], UNCHANGED <<serLib, serHeld>>
       PROVE  SerInv'
  <2>1. SerLib'
    BY <1>15, SerLibKept
  <2> QED BY <1>15, <2>1, SerMoves
<1>16. ASSUME NEW d \in SerDevs, d \in Serial!Alive, serObj[d].ref > 0
       PROVE  /\ serObj[d].stage \in {"chip", "listed", "up"}
              /\ serObj[d].open \in Nat /\ serObj[d].ports \in Nat /\ serObj[d].ref \in Nat
              /\ serObj[d].ref = SerMade(serObj[d]) + serObj[d].open + serObj[d].ports
  <2>1. serObj[d].stage \in {"unlist", "unlib", "free"} => SerMade(serObj[d]) = 0
    BY <1>0, <1>16, SerMadeIs DEF SerCount
  <2> QED BY <1>0, <1>16, <2>1 DEF SerCount, SerDead, SerObjs, Serial!Stages
<1>17. ASSUME NEW d \in SerDevs, Serial!OpenRef(d)
       PROVE  SerInv'
  <2>1. CASE d \in Serial!Alive /\ serObj[d].ref > 0 /\ serObj[d].open < MaxOpen
    <3> DEFINE o == serObj[d]
    <3> DEFINE n == [o EXCEPT !.ref = o.ref + 1, !.open = o.open + 1]
    <3>1. serObj' = [serObj EXCEPT ![d] = n] /\ UNCHANGED <<serLib, serHeld>>
      BY <1>0, <1>17, <2>1 DEF Serial!OpenRef
    <3>2. o.ref + 1 \in Nat /\ o.open + 1 \in Nat
      BY <1>16, <2>1
    <3>3. \A r, k \in Nat :
             LET m == [o EXCEPT !.ref = r, !.open = k]
             IN /\ m \in SerObjs /\ m.stage = o.stage /\ m.ref = r /\ m.removed = o.removed
                /\ m.open = k /\ m.ports = o.ports
      BY <1>0, SerBecomes
    <3>4. /\ n \in SerObjs /\ n.stage = o.stage /\ n.ref = o.ref + 1 /\ n.removed = o.removed
          /\ n.open = o.open + 1 /\ n.ports = o.ports
      BY <3>2, <3>3
    <3> HIDE DEF n
    <3>5. SerMade(n) = SerMade(o) /\ SerMade(o) \in {0, 1}
      BY <3>4, SerMadeIs
    <3>6. n.ref = SerMade(n) + n.open + n.ports
      BY <1>16, <2>1, <3>4, <3>5
    <3>7. SerCount(n)
      BY <1>0, <1>16, <2>1, <3>4, <3>6 DEF SerCount
    <3> QED BY <1>15, <2>1, <3>1, <3>4, <3>7
  <2>2. CASE ~(d \in Serial!Alive /\ serObj[d].ref > 0 /\ serObj[d].open < MaxOpen)
    <3>1. UNCHANGED <<serObj, serHeld, serLib>>
      BY <1>17, <2>2 DEF Serial!OpenRef
    <3> QED BY <1>0, <1>2, <1>3, <3>1, SerCard DEF SerLib, Serial!LibCounted
  <2> QED BY <2>1, <2>2
<1>18. ASSUME NEW d \in SerDevs, Serial!PortOpen(d)
       PROVE  SerInv'
  <2> DEFINE o == serObj[d]
  <2> DEFINE n == [o EXCEPT !.ref = o.ref + 1, !.ports = o.ports + 1]
  <2>1. /\ d \in Serial!Alive /\ o.open > 0 /\ serObj' = [serObj EXCEPT ![d] = n]
        /\ UNCHANGED <<serLib, serHeld>>
    BY <1>0, <1>18 DEF Serial!PortOpen
  <2>2. o.ref > 0
    <3>1. /\ o.ref = SerMade(o) + o.open + o.ports /\ o.open \in Nat /\ o.ports \in Nat
          /\ SerMade(o) \in {0, 1}
      BY <1>0, <2>1, SerMadeIs DEF SerCount, SerObjs
    <3> QED BY <2>1, <3>1
  <2>3. o.ref + 1 \in Nat /\ o.ports + 1 \in Nat
    BY <1>16, <2>1, <2>2
  <2>4. \A r, k \in Nat :
           LET m == [o EXCEPT !.ref = r, !.ports = k]
           IN /\ m \in SerObjs /\ m.stage = o.stage /\ m.ref = r /\ m.removed = o.removed
              /\ m.open = o.open /\ m.ports = k
    <3>1. o \in SerObjs
      BY <1>0
    <3> HIDE DEF o
    <3> QED BY <3>1, SerBecomes
  <2>5. /\ n \in SerObjs /\ n.stage = o.stage /\ n.ref = o.ref + 1 /\ n.removed = o.removed
        /\ n.open = o.open /\ n.ports = o.ports + 1
    BY <2>3, <2>4
  <2> HIDE DEF n
  <2>6. SerMade(n) = SerMade(o) /\ SerMade(o) \in {0, 1}
    BY <2>5, SerMadeIs
  <2>7. n.ref = SerMade(n) + n.open + n.ports
    BY <1>16, <2>1, <2>2, <2>5, <2>6
  <2>8. SerCount(n)
    BY <1>0, <1>16, <2>1, <2>2, <2>5, <2>7 DEF SerCount
  <2> QED BY <1>15, <2>1, <2>2, <2>5, <2>8
<1>19. ASSUME NEW d \in SerDevs, Serial!ReleaseList(d)
       PROVE  SerInv'
  <2> DEFINE o == serObj[d]
  <2> DEFINE n == [o EXCEPT !.stage = "unlib"]
  <2>1. /\ n \in SerObjs /\ n.stage = "unlib" /\ n.ref = o.ref /\ n.removed = o.removed
        /\ n.open = o.open /\ n.ports = o.ports
    BY ZenonT(60), <1>0, SerBecomes DEF Serial!Stages
  <2>2. /\ o.stage = "unlist" /\ serObj' = [serObj EXCEPT ![d] = n]
        /\ UNCHANGED <<serLib, serHeld>>
    BY <1>0, <1>19 DEF Serial!ReleaseList
  <2>3. SerCount(o)
    BY <1>0
  <2> HIDE DEF n, o
  <2>4. SerCount(n)
    BY <2>1, <2>2, <2>3, SerMadeIs DEF SerCount, SerDead
  <2>5. SerLib'
    BY <2>1, <2>2, SerLibKept DEF o
  <2> QED BY <2>1, <2>2, <2>4, <2>5, SerMoves DEF SerDead, o
<1>20. ASSUME NEW d \in SerDevs, Serial!ReleaseLib(d)
       PROVE  SerInv'
  <2> DEFINE o == serObj[d]
  <2> DEFINE n == [o EXCEPT !.stage = "free"]
  <2>1. /\ n \in SerObjs /\ n.stage = "free" /\ n.ref = o.ref /\ n.removed = o.removed
        /\ n.open = o.open /\ n.ports = o.ports
    BY ZenonT(60), <1>0, SerBecomes DEF Serial!Stages
  <2>2. /\ o.stage = "unlib" /\ serObj' = [serObj EXCEPT ![d] = n]
        /\ serLib' = Serial!LibPut(serLib) /\ UNCHANGED serHeld
    BY <1>0, <1>20 DEF Serial!ReleaseLib
  <2>3. SerCount(o)
    BY <1>0
  <2> HIDE DEF n, o
  <2>4. SerCount(n)
    BY <2>1, <2>2, <2>3, SerMadeIs DEF SerCount, SerDead
  <2>5. Serial!InLib' = Serial!InLib \ {d} /\ d \in Serial!InLib
    BY <1>0, <2>1, <2>2 DEF Serial!InLib, o
  <2>6. Cardinality(Serial!InLib') = Cardinality(Serial!InLib) - 1
    BY <2>5, CardPoint, Serial!InLib \subseteq SerDevs DEF Serial!InLib
  <2>7. Cardinality(Serial!InLib') \in Nat
    BY <2>5, CardPoint, Serial!InLib \ {d} \subseteq SerDevs DEF Serial!InLib
  <2>8. /\ serLib.ref >= 1 /\ serLib.init
        /\ serLib.ref = Cardinality(Serial!InLib)
             + (IF serLib.init /\ ~serLib.deiniting THEN 1 ELSE 0)
    BY <1>0, <1>4, <2>6, <2>7, SerCard DEF SerLib, Serial!LibCounted
  <2>9. /\ serLib' \in [init : BOOLEAN, deiniting : BOOLEAN, ref : Nat]
        /\ serLib'.ref = serLib.ref - 1 /\ serLib'.deiniting = serLib.deiniting
        /\ serLib'.init <=> serLib.ref > 1
    BY <1>0, <2>2, <2>8, SerLibPut DEF SerLib
  <2>10. SerLib'
    BY <1>4, <2>6, <2>7, <2>8, <2>9, SerCard DEF SerLib, Serial!LibCounted
  <2> QED BY <2>1, <2>2, <2>4, <2>10, SerMoves DEF SerDead, o
<1>21. ASSUME NEW d \in SerDevs, Serial!ReleaseFree(d)
       PROVE  SerInv'
  <2> DEFINE o == serObj[d]
  <2> DEFINE n == [o EXCEPT !.stage = "freed"]
  <2>1. /\ n \in SerObjs /\ n.stage = "freed" /\ n.ref = o.ref /\ n.removed = o.removed
        /\ n.open = o.open /\ n.ports = o.ports
    BY ZenonT(60), <1>0, SerBecomes DEF Serial!Stages
  <2>2. /\ o.stage = "free" /\ serObj' = [serObj EXCEPT ![d] = n]
        /\ serHeld' = [serHeld EXCEPT ![d] = @ - 1] /\ UNCHANGED serLib
    BY <1>0, <1>21 DEF Serial!ReleaseFree
  <2>3. SerCount(o)
    BY <1>0
  <2> HIDE DEF n, o
  <2>4. SerCount(n)
    BY <2>1, <2>2, <2>3, SerMadeIs DEF SerCount, SerDead
  <2>5. SerLib'
    BY <2>1, <2>2, SerLibKept DEF o
  <2> QED BY <2>1, <2>2, <2>4, <2>5, SerMoves DEF SerDead, o
<1>22. ASSUME UNCHANGED <<serObj, serHeld, serLib>>
       PROVE  SerInv'
  BY <1>0, <1>2, <1>3, <1>22, SerCard DEF SerLib, Serial!LibCounted
<1>23. ASSUME NEW d \in SerDevs,
              \/ Serial!OpenFind(d)
              \/ \E t \in SerTrps : Serial!ReadDone(d, t) \/ Serial!ReadAgain(d, t)
       PROVE  SerInv'
  BY <1>22, <1>23 DEF Serial!OpenFind, Serial!ReadDone, Serial!ReadAgain
<1> QED BY <1>1, <1>5, <1>6, <1>7, <1>9, <1>10, <1>12, <1>13, <1>14, <1>17, <1>18, <1>19,
           <1>20, <1>21, <1>23 DEF Serial!Next

LEMMA SerSafe ==
    ASSUME SerInv
    PROVE  Serial!CountsExact
<1>1. ASSUME NEW d \in SerDevs
      PROVE  /\ d \in Serial!Alive <=> serObj[d].stage \notin SerDead
             /\ SerCount(serObj[d]) /\ serObj[d] \in SerObjs
             /\ serHeld[d] = IF serObj[d].stage \in SerDead THEN 0 ELSE 1
  BY <1>1 DEF SerInv, SerCount, Serial!Alive, SerDead, SerObjs
<1>2. Serial!ObjCounted
  BY <1>1 DEF Serial!ObjCounted, SerCount, SerMade, SerDead
<1>3. Serial!DevCounted
  BY <1>1 DEF Serial!DevCounted
<1> QED BY <1>2, <1>3 DEF Serial!CountsExact, SerInv, SerLib

\* Whatever the order of creations, opens, closes, destroys and the end of the library,
\* every count of the serial library says who still uses what
\* (usbh_cdc_serial_drv.c:199-233, :452-574, :881-1027).
THEOREM SerialCountsExact ==
    ASSUME IsFiniteSet(SerDevs)
    PROVE  Serial!Spec => []Serial!CountsExact
<1>1. Serial!Init => SerInv
  BY SerInit
<1>2. SerInv /\ [Serial!Next]_(Serial!serialVars) => SerInv'
  BY SerStep
<1>3. SerInv => Serial!CountsExact
  BY SerSafe
<1> QED BY <1>1, <1>2, <1>3, PTL DEF Serial!Spec
-----------------------------------------------------------------------------
(* The list of a class library and its traversal                            *)

\* The place of the traversal is before or at the devices it has returned.
WalkAt(p) ==
    /\ p \in 0 .. Len(walkList)
    /\ IF walkLoca = WalkRoot THEN p = 0 ELSE p > 0 /\ walkList[p] = walkLoca
    /\ \A i \in 1 .. Len(walkList) :
          (\E j \in 1 .. Len(walkRet) : walkRet[j] = walkList[i]) <=> i <= p

WalkInv ==
    /\ walkList \in Seq(WalkNodes) /\ walkRet \in Seq(WalkNodes)
    /\ \A i, j \in 1 .. Len(walkList) : walkList[i] = walkList[j] => i = j
    /\ \A i, j \in 1 .. Len(walkRet) : walkRet[i] = walkRet[j] => i = j
    /\ \A i \in 1 .. Len(walkList) : walkList[i] \notin walkGone
    /\ \A j \in 1 .. Len(walkRet) :
          \/ walkRet[j] \in walkGone
          \/ \E i \in 1 .. Len(walkList) : walkList[i] = walkRet[j]
    /\ walkInit => walkDevs = Len(walkList)
    /\ walkLoca = WalkRoot => walkRet = <<>>
    /\ walkLoca \notin walkGone => \E p \in 0 .. Len(walkList) : WalkAt(p)
    /\ walkGone \subseteq WalkNodes
    /\ WalkRoot \notin WalkNodes

\* One sequence after another.
LEMMA SeqConcat ==
    ASSUME NEW S, NEW a \in Seq(S), NEW b \in Seq(S)
    PROVE  /\ a \o b \in Seq(S) /\ Len(a \o b) = Len(a) + Len(b)
           /\ \A i \in 1 .. Len(a) : (a \o b)[i] = a[i]
           /\ \A i \in Len(a) + 1 .. Len(a) + Len(b) : (a \o b)[i] = b[i - Len(a)]
OBVIOUS

\* A device leaves the list: those after it move up by one.
LEMMA WalkRemoved ==
    ASSUME NEW S, NEW s \in Seq(S), NEW k \in 1 .. Len(s)
    PROVE  LET r == Walk!RemoveAt(s, k)
           IN /\ r \in Seq(S) /\ Len(r) = Len(s) - 1
              /\ \A i \in 1 .. Len(r) : r[i] = IF i < k THEN s[i] ELSE s[i + 1]
<1> DEFINE a == SubSeq(s, 1, k - 1)
           b == SubSeq(s, k + 1, Len(s))
<1>1. Len(s) \in Nat
  OBVIOUS
<1>2. a \in Seq(S) /\ Len(a) = k - 1 /\ \A i \in 1 .. k - 1 : a[i] = s[i]
  OBVIOUS
<1>3. /\ b \in Seq(S) /\ Len(b) = Len(s) - k
      /\ \A i \in 1 .. Len(s) - k : b[i] = s[k + i]
  OBVIOUS
<1>4. Walk!RemoveAt(s, k) = a \o b
  BY DEF Walk!RemoveAt
<1> HIDE DEF a, b
<1>5. /\ a \o b \in Seq(S) /\ Len(a \o b) = Len(a) + Len(b)
      /\ \A i \in 1 .. Len(a) : (a \o b)[i] = a[i]
      /\ \A i \in Len(a) + 1 .. Len(a) + Len(b) : (a \o b)[i] = b[i - Len(a)]
  BY <1>2, <1>3, SeqConcat
<1> DEFINE r == Walk!RemoveAt(s, k)
<1>6. r \in Seq(S) /\ Len(r) = Len(s) - 1
  BY <1>1, <1>2, <1>3, <1>4, <1>5
<1>7. ASSUME NEW i \in 1 .. Len(r)
      PROVE  r[i] = IF i < k THEN s[i] ELSE s[i + 1]
  <2>1. CASE i < k
    BY <1>1, <1>2, <1>4, <1>5, <2>1
  <2>2. CASE ~(i < k)
    <3>1. /\ i \in Len(a) + 1 .. Len(a) + Len(b) /\ i - Len(a) \in 1 .. Len(s) - k
          /\ k + (i - Len(a)) = i + 1
      BY <1>1, <1>2, <1>3, <1>6, <2>2
    <3>2. r[i] = b[i - Len(a)]
      BY <1>4, <1>5, <3>1
    <3>3. b[i - Len(a)] = s[k + (i - Len(a))]
      BY <1>3, <3>1
    <3> QED BY <2>2, <3>1, <3>2, <3>3
  <2> QED BY <2>1, <2>2
<1> QED BY <1>6, <1>7

\* The place the code keeps is the one the invariant speaks of.
LEMMA WalkPlaceIs ==
    ASSUME WalkInv, NEW p, WalkAt(p)
    PROVE  Walk!Place = p
<1>1. walkLoca # WalkRoot => p \in DOMAIN walkList /\ walkList[p] = walkLoca
  BY DEF WalkInv, WalkAt
<1>2. \A i \in DOMAIN walkList : walkList[i] = walkLoca /\ walkLoca # WalkRoot => i = p
  BY <1>1 DEF WalkInv
<1> QED BY <1>1, <1>2 DEF Walk!Place, WalkAt

LEMMA WalkStep ==
    ASSUME WalkInv, [Walk!Next]_(Walk!libVars)
    PROVE  WalkInv'
<1>0. walkList \in Seq(WalkNodes) /\ walkRet \in Seq(WalkNodes)
      /\ Len(walkList) \in Nat /\ Len(walkRet) \in Nat
  BY DEF WalkInv
<1>1. ASSUME UNCHANGED <<walkList, walkLoca, walkGone, walkRet>>,
             walkInit' => walkDevs' = Len(walkList)
      PROVE  WalkInv'
  <2>1. \A p : WalkAt(p)' <=> WalkAt(p)
    BY <1>1 DEF WalkAt
  <2> QED BY <1>1, <2>1 DEF WalkInv
<1>2. CASE UNCHANGED Walk!libVars
  BY <1>1, <1>2 DEF Walk!libVars, WalkInv
\* The traversal begins again, in a list that may be new.
<1>3. ASSUME walkLoca' = WalkRoot, walkRet' = <<>>, walkGone' = walkGone,
             walkList' = walkList \/ walkList' = <<>>,
             walkInit' => walkDevs' = Len(walkList')
      PROVE  WalkInv'
  <2>1. walkList' \in Seq(WalkNodes)
    <3>1. <<>> \in Seq(WalkNodes)
      OBVIOUS
    <3> QED BY <1>0, <1>3, <3>1
  <2>2. WalkAt(0)'
    BY <1>3, <2>1 DEF WalkAt
  <2>3. /\ \A i, j \in 1 .. Len(walkList') : walkList'[i] = walkList'[j] => i = j
        /\ \A i \in 1 .. Len(walkList') : walkList'[i] \notin walkGone
    BY <1>3 DEF WalkInv
  <2>4. \E p \in 0 .. Len(walkList') : WalkAt(p)'
    BY <2>1, <2>2
  <2> QED BY <1>3, <2>1, <2>3, <2>4 DEF WalkInv
<1>4. CASE Walk!LibInit
  BY <1>3, <1>4 DEF Walk!LibInit
<1>5. CASE Walk!TraverseReset
  BY <1>3, <1>5 DEF Walk!TraverseReset, WalkInv
<1>6. CASE Walk!LibDeinit
  BY <1>1, <1>6 DEF Walk!LibDeinit
<1>7. ASSUME NEW n \in WalkNodes, Walk!DevAdd(n)
      PROVE  WalkInv'
  <2>1. /\ walkList' = Append(walkList, n) /\ walkDevs' = walkDevs + 1 /\ walkInit
        /\ n \notin walkGone /\ \A i \in 1 .. Len(walkList) : walkList[i] # n
        /\ UNCHANGED <<walkInit, walkLoca, walkGone, walkRet>>
    BY <1>0, <1>7 DEF Walk!DevAdd, Walk!ToSet
  <2>2. /\ walkList' \in Seq(WalkNodes) /\ Len(walkList') = Len(walkList) + 1
        /\ walkList'[Len(walkList) + 1] = n
        /\ \A i \in 1 .. Len(walkList) : walkList'[i] = walkList[i]
    BY <1>0, <2>1
  <2>3. \A i, j \in 1 .. Len(walkList') : walkList'[i] = walkList'[j] => i = j
    BY SMTT(30), <1>0, <2>1, <2>2 DEF WalkInv
  <2>4. \A i \in 1 .. Len(walkList') : walkList'[i] \notin walkGone
    BY <1>0, <2>1, <2>2 DEF WalkInv
  <2>5. \A j \in 1 .. Len(walkRet) :
           \/ walkRet[j] \in walkGone
           \/ \E i \in 1 .. Len(walkList') : walkList'[i] = walkRet[j]
    BY <1>0, <2>1, <2>2 DEF WalkInv
  <2>6. \A j \in 1 .. Len(walkRet) : walkRet[j] # n
    BY <1>0, <2>1 DEF WalkInv
  <2>7. ASSUME NEW p \in 0 .. Len(walkList), WalkAt(p)
        PROVE  WalkAt(p)'
    <3>1. \A i \in 1 .. Len(walkList') :
             (\E j \in 1 .. Len(walkRet) : walkRet[j] = walkList'[i]) <=> i <= p
      BY <1>0, <2>2, <2>6, <2>7 DEF WalkAt
    <3>2. p \in 0 .. Len(walkList')
      BY <1>0, <2>2
    <3>3. p > 0 => walkList'[p] = walkList[p]
      BY <1>0, <2>2
    <3>4. IF walkLoca = WalkRoot THEN p = 0 ELSE p > 0 /\ walkList[p] = walkLoca
      BY <2>7 DEF WalkAt
    <3> QED BY <2>1, <3>1, <3>2, <3>3, <3>4 DEF WalkAt
  <2>8. walkLoca \notin walkGone => \E p \in 0 .. Len(walkList') : WalkAt(p)'
    <3>1. \A p \in 0 .. Len(walkList) : p \in 0 .. Len(walkList')
      BY <1>0, <2>2
    <3> QED BY <2>7, <3>1 DEF WalkInv
  <2>9. walkDevs' = Len(walkList')
    BY <1>0, <2>1, <2>2 DEF WalkInv
  <2>10. /\ \A i, j \in 1 .. Len(walkRet') : walkRet'[i] = walkRet'[j] => i = j
         /\ walkRet' \in Seq(WalkNodes) /\ (walkLoca' = WalkRoot => walkRet' = <<>>)
         /\ walkGone' \subseteq WalkNodes /\ WalkRoot \notin WalkNodes
    BY <2>1 DEF WalkInv
  <2>11. /\ \A i \in 1 .. Len(walkList') : walkList'[i] \notin walkGone'
         /\ walkLoca' \notin walkGone' => \E p \in 0 .. Len(walkList') : WalkAt(p)'
    BY <2>1, <2>4, <2>8
  <2>12. \A j \in 1 .. Len(walkRet') :
            \/ walkRet'[j] \in walkGone'
            \/ \E i \in 1 .. Len(walkList') : walkList'[i] = walkRet'[j]
    BY <2>1, <2>5
  <2> QED BY ONLY <2>2, <2>3, <2>9, <2>10, <2>11, <2>12 DEF WalkInv
<1>8. ASSUME NEW n \in WalkNodes, Walk!DevDel(n)
      PROVE  WalkInv'
  <2>0. PICK k \in 1 .. Len(walkList) :
           walkList[k] = n /\ walkList' = Walk!RemoveAt(walkList, k)
    BY <1>0, <1>8 DEF Walk!DevDel
  <2>1. /\ walkInit /\ walkDevs' = walkDevs - 1 /\ walkGone' = walkGone \cup {n}
        /\ UNCHANGED <<walkInit, walkLoca, walkRet>>
    BY <1>8 DEF Walk!DevDel
  <2>2. /\ walkList' \in Seq(WalkNodes) /\ Len(walkList') = Len(walkList) - 1
        /\ \A i \in 1 .. Len(walkList') :
              walkList'[i] = IF i < k THEN walkList[i] ELSE walkList[i + 1]
    BY <1>0, <2>0, WalkRemoved
  <2>3. \A i, j \in 1 .. Len(walkList) : walkList[i] = walkList[j] => i = j
    BY DEF WalkInv
  <2>4. \A i, j \in 1 .. Len(walkList') : walkList'[i] = walkList'[j] => i = j
    BY <1>0, <2>2, <2>3
  <2>5. \A i \in 1 .. Len(walkList') : walkList'[i] \notin walkGone'
    <3>1. \A i \in 1 .. Len(walkList') : walkList'[i] \notin walkGone
      <4> SUFFICES ASSUME NEW i \in 1 .. Len(walkList')
                   PROVE  walkList'[i] \notin walkGone
        OBVIOUS
      <4>1. i \in 1 .. Len(walkList) /\ i + 1 \in 1 .. Len(walkList)
        BY <1>0, <2>2
      <4>2. walkList'[i] = walkList[i] \/ walkList'[i] = walkList[i + 1]
        BY <2>2
      <4> QED BY <4>1, <4>2 DEF WalkInv
    <3>2. \A i \in 1 .. Len(walkList') : walkList'[i] # n
      BY <1>0, <2>0, <2>2, <2>3
    <3> QED BY <2>1, <3>1, <3>2
  <2>6. \A i \in 1 .. Len(walkList) :
           i # k => \E m \in 1 .. Len(walkList') : walkList'[m] = walkList[i]
    <3> SUFFICES ASSUME NEW i \in 1 .. Len(walkList), i # k
                 PROVE  \E m \in 1 .. Len(walkList') : walkList'[m] = walkList[i]
      OBVIOUS
    <3>1. CASE i < k
      BY <1>0, <2>2, <3>1
    <3>2. CASE i > k
      <4>1. i - 1 \in 1 .. Len(walkList') /\ ~(i - 1 < k) /\ (i - 1) + 1 = i
        BY <1>0, <2>2, <3>2
      <4> QED BY <2>2, <4>1
    <3> QED BY <1>0, <3>1, <3>2
  <2>7. ASSUME NEW j \in 1 .. Len(walkRet)
        PROVE  \/ walkRet[j] \in walkGone'
               \/ \E i \in 1 .. Len(walkList') : walkList'[i] = walkRet[j]
    <3>1. CASE walkRet[j] \in walkGone
      BY <2>1, <3>1
    <3>2. CASE \E i \in 1 .. Len(walkList) : walkList[i] = walkRet[j]
      BY <2>0, <2>1, <2>6, <3>2
    <3> QED BY <2>7, <3>1, <3>2 DEF WalkInv
  <2>8. ASSUME walkLoca \notin walkGone'
        PROVE  \E p \in 0 .. Len(walkList') : WalkAt(p)'
    <3>1. walkLoca \notin walkGone /\ walkLoca # n
      BY <2>1, <2>8
    <3>2. PICK p \in 0 .. Len(walkList) : WalkAt(p)
      BY <3>1 DEF WalkInv
    <3>3. /\ IF walkLoca = WalkRoot THEN p = 0 ELSE p > 0 /\ walkList[p] = walkLoca
          /\ \A i \in 1 .. Len(walkList) :
                (\E j \in 1 .. Len(walkRet) : walkRet[j] = walkList[i]) <=> i <= p
      BY <3>2 DEF WalkAt
    <3>4. p # k
      BY <2>0, <3>1, <3>3
    <3> DEFINE q == IF p < k THEN p ELSE p - 1
    <3>5. q \in 0 .. Len(walkList')
      BY <1>0, <2>2, <3>4
    <3>6. IF walkLoca = WalkRoot THEN q = 0 ELSE q > 0 /\ walkList'[q] = walkLoca
      BY SMTT(30), <1>0, <2>2, <3>3, <3>4
    <3>7. ASSUME NEW i \in 1 .. Len(walkList')
          PROVE  (\E j \in 1 .. Len(walkRet) : walkRet[j] = walkList'[i]) <=> i <= q
      <4> DEFINE m == IF i < k THEN i ELSE i + 1
      <4>1. m \in 1 .. Len(walkList) /\ walkList'[i] = walkList[m]
        BY <1>0, <2>2
      <4>2. m <= p <=> i <= q
        BY <1>0, <2>2, <3>4
      <4> HIDE DEF m, q
      <4> QED BY <3>3, <4>1, <4>2
    <3> HIDE DEF q
    <3>8. WalkAt(q)'
      BY <2>1, <3>5, <3>6, <3>7 DEF WalkAt
    <3> QED BY <3>5, <3>8
  <2>9. walkDevs' = Len(walkList')
    BY <1>0, <2>1, <2>2 DEF WalkInv
  <2>10. /\ \A i, j \in 1 .. Len(walkRet') : walkRet'[i] = walkRet'[j] => i = j
         /\ walkRet' \in Seq(WalkNodes) /\ (walkLoca' = WalkRoot => walkRet' = <<>>)
         /\ walkGone' \subseteq WalkNodes /\ WalkRoot \notin WalkNodes
    BY <2>1 DEF WalkInv
  <2>11. /\ walkInit' => walkDevs' = Len(walkList')
         /\ walkLoca' \notin walkGone' => \E p \in 0 .. Len(walkList') : WalkAt(p)'
    BY <2>1, <2>8, <2>9
  <2>12. \A j \in 1 .. Len(walkRet') :
            \/ walkRet'[j] \in walkGone'
            \/ \E i \in 1 .. Len(walkList') : walkList'[i] = walkRet'[j]
    BY <2>1, <2>7
  <2> QED BY ONLY <2>2, <2>4, <2>5, <2>10, <2>11, <2>12 DEF WalkInv
<1>9. CASE Walk!Traverse
  <2>1. CASE walkLoca \in walkGone
    BY <1>1, <1>9, <2>1 DEF Walk!Traverse, WalkInv
  <2>2. CASE walkLoca \notin walkGone
    <3>1. PICK p \in 0 .. Len(walkList) : WalkAt(p)
      BY <2>2 DEF WalkInv
    <3>2. Walk!Place = p
      BY <3>1, WalkPlaceIs
    <3> DEFINE n == walkList[p + 1]
    <3>3. /\ p < Len(walkList) /\ walkLoca' = n /\ walkRet' = Append(walkRet, n)
          /\ UNCHANGED <<walkInit, walkList, walkDevs, walkGone>>
      BY <1>9, <2>2, <3>2 DEF Walk!Traverse
    <3>4. p + 1 \in 1 .. Len(walkList) /\ n \in WalkNodes
      BY <1>0, <3>3
    <3>5. \A i \in 1 .. Len(walkList) :
             (\E j \in 1 .. Len(walkRet) : walkRet[j] = walkList[i]) <=> i <= p
      BY <3>1 DEF WalkAt
    <3>6. \A j \in 1 .. Len(walkRet) : walkRet[j] # n
      BY <3>4, <3>5
    <3> HIDE DEF n
    <3>7. /\ walkRet' \in Seq(WalkNodes) /\ Len(walkRet') = Len(walkRet) + 1
          /\ walkRet'[Len(walkRet) + 1] = n
          /\ \A j \in 1 .. Len(walkRet) : walkRet'[j] = walkRet[j]
      BY <1>0, <3>3, <3>4
    <3>8. \A i, j \in 1 .. Len(walkRet') : walkRet'[i] = walkRet'[j] => i = j
      BY <1>0, <3>6, <3>7 DEF WalkInv
    <3>9. \A j \in 1 .. Len(walkRet') :
             \/ walkRet'[j] \in walkGone
             \/ \E i \in 1 .. Len(walkList) : walkList[i] = walkRet'[j]
      BY <1>0, <3>4, <3>7 DEF WalkInv, n
    <3>10. n # WalkRoot
      BY <3>4 DEF WalkInv
    <3>11. ASSUME NEW i \in 1 .. Len(walkList)
           PROVE  (\E j \in 1 .. Len(walkRet') : walkRet'[j] = walkList[i]) <=> i <= p + 1
      <4>1. (\E j \in 1 .. Len(walkRet') : walkRet'[j] = walkList[i])
               <=> (walkList[i] = n \/ \E j \in 1 .. Len(walkRet) : walkRet[j] = walkList[i])
        <5>1. ASSUME NEW j \in 1 .. Len(walkRet'), walkRet'[j] = walkList[i]
              PROVE  walkList[i] = n \/ \E m \in 1 .. Len(walkRet) : walkRet[m] = walkList[i]
          <6>1. j = Len(walkRet) + 1 \/ j \in 1 .. Len(walkRet)
            BY <1>0, <3>7
          <6> QED BY <3>7, <5>1, <6>1
        <5>2. /\ \A j \in 1 .. Len(walkRet) : j \in 1 .. Len(walkRet')
              /\ Len(walkRet) + 1 \in 1 .. Len(walkRet')
          BY <1>0, <3>7
        <5>3. walkList[i] = n => \E j \in 1 .. Len(walkRet') : walkRet'[j] = walkList[i]
          BY <3>7, <5>2
        <5>4. (\E j \in 1 .. Len(walkRet) : walkRet[j] = walkList[i])
                 => \E j \in 1 .. Len(walkRet') : walkRet'[j] = walkList[i]
          BY <3>7, <5>2
        <5> QED BY <5>1, <5>3, <5>4
      <4>2. walkList[i] = n <=> i = p + 1
        BY <3>4 DEF WalkInv, n
      <4> QED BY <3>5, <4>1, <4>2
    <3>12. WalkAt(p + 1)'
      BY <3>3, <3>4, <3>10, <3>11 DEF WalkAt, n
    <3>13. \E q \in 0 .. Len(walkList') : WalkAt(q)'
      BY <3>3, <3>4, <3>12
    <3>14. /\ walkList' \in Seq(WalkNodes)
           /\ \A i, j \in 1 .. Len(walkList') : walkList'[i] = walkList'[j] => i = j
           /\ \A i \in 1 .. Len(walkList') : walkList'[i] \notin walkGone'
           /\ walkInit' => walkDevs' = Len(walkList')
           /\ walkGone' \subseteq WalkNodes /\ WalkRoot \notin WalkNodes
      BY <3>3 DEF WalkInv
    <3>15. \A j \in 1 .. Len(walkRet') :
              \/ walkRet'[j] \in walkGone'
              \/ \E i \in 1 .. Len(walkList') : walkList'[i] = walkRet'[j]
      BY <3>3, <3>9
    <3>16. /\ walkRet' \in Seq(WalkNodes) /\ walkLoca' # WalkRoot
      BY <3>3, <3>7, <3>10
    <3> QED BY ONLY <3>8, <3>13, <3>14, <3>15, <3>16 DEF WalkInv
  <2> QED BY <2>1, <2>2
<1> QED BY <1>2, <1>4, <1>5, <1>6, <1>7, <1>8, <1>9 DEF Walk!Next

LEMMA WalkInit ==
    ASSUME Walk!Init, WalkRoot \notin WalkNodes
    PROVE  WalkInv
<1>1. /\ walkList = <<>> /\ walkRet = <<>> /\ walkLoca = WalkRoot /\ walkGone = {}
      /\ walkInit = FALSE
  BY DEF Walk!Init
<1>2. WalkAt(0)
  BY <1>1 DEF WalkAt
<1> QED BY <1>1, <1>2 DEF WalkInv

LEMMA WalkOnce ==
    ASSUME WalkInv
    PROVE  Walk!TraverseOnce
<1>1. walkInit => walkDevs = Len(walkList)
  BY DEF WalkInv
<1>2. Walk!IsInjective(walkRet)
  BY DEF WalkInv, Walk!IsInjective
<1>3. ASSUME walkLoca \notin walkGone, NEW i \in 1 .. Walk!Place
      PROVE  walkList[i] \in Walk!ToSet(walkRet)
  <2>1. PICK p \in 0 .. Len(walkList) : WalkAt(p)
    BY <1>3 DEF WalkInv
  <2>2. i \in 1 .. Len(walkList) /\ i <= p
    BY <1>3, <2>1, WalkPlaceIs DEF WalkInv
  <2>3. \E j \in 1 .. Len(walkRet) : walkRet[j] = walkList[i]
    BY <2>1, <2>2 DEF WalkAt
  <2>4. DOMAIN walkRet = 1 .. Len(walkRet)
    BY DEF WalkInv
  <2> QED BY <2>3, <2>4 DEF Walk!ToSet
<1> QED BY <1>1, <1>2, <1>3 DEF Walk!TraverseOnce

\* A traversal of the devices of a library returns no device twice and has passed over none
\* that is in the list before its place, while devices come and go (usb_lib.c:578).
THEOREM WalkReturnsOnce ==
    ASSUME WalkRoot \notin WalkNodes
    PROVE  Walk!Spec => []Walk!TraverseOnce
<1>1. Walk!Init => WalkInv
  BY WalkInit
<1>2. WalkInv /\ [Walk!Next]_(Walk!libVars) => WalkInv'
  BY WalkStep
<1>3. WalkInv => Walk!TraverseOnce
  BY WalkOnce
<1> QED BY <1>1, <1>2, <1>3, PTL DEF Walk!Spec
-----------------------------------------------------------------------------
(* The creation of the class devices                                        *)

MadeParams ==
    MadePorts \in Nat /\ MadeClasses \subseteq {"vs", "vp", "hid", "wcid", "ms"}

\* What a creation may hold: all that a destroy frees, but the ring buffers of those
\* ports only that have got theirs.
MadeMay ==
    IF madeClass = "vs"
    THEN Made!Own({"struct", "ports", "dev"})
         \cup {Made!Rb(i) : i \in {i \in 1 .. MadePorts : 5 * i <= madeDone}}
    ELSE Made!Freed

MadeInv ==
    /\ madeClass \in MadeClasses
    /\ madeDone \in Nat
    /\ madeAt \in {"none", "create", "made", "failed"}
    /\ (madeAt = "create" => madeDone < Made!NCalls)
    /\ (madeAt \in {"create", "made"} => madeHeld \subseteq MadeMay)
    /\ Made!CreateBalanced

\* The quotient by the five calls of a port.
LEMMA DivFive ==
    ASSUME NEW k \in Nat
    PROVE  /\ k \div 5 \in Nat /\ k % 5 \in 0 .. 4
           /\ 5 * (k \div 5) <= k /\ k < 5 * (k \div 5) + 5
<1>1. k \div 5 \in Nat
  OBVIOUS
<1>2. k % 5 \in 0 .. 4
  OBVIOUS
<1>3. 5 * (k \div 5) <= k
  OBVIOUS
<1>4. k < 5 * (k \div 5) + 5
  OBVIOUS
<1> QED BY <1>1, <1>2, <1>3, <1>4

\* The calls of the creations other than that of the serial device: first those that get
\* what the creation has to free, then those on the device.
LEMMA NamedCalls ==
    ASSUME madeClass \in {"vp", "hid", "wcid", "ms"}
    PROVE  /\ Made!NCalls = Len(Made!Names) /\ Len(Made!Names) \in Nat /\ Len(Made!Names) > 0
           /\ \A k \in 1 .. Len(Made!Names) :
                 Made!Names[k] \in Made!InDev \/ <<Made!Names[k], 0>> \in Made!Freed
           /\ Made!Undo = Made!Freed
<1>1. ASSUME NEW own, NEW a \in Seq(own \cup Made!InDev), Made!Names = a \o Made!Config,
             Made!Freed = Made!Own(own), Made!Undo = Made!Own(own)
      PROVE  /\ Len(Made!Names) \in Nat /\ Len(Made!Names) > 0
             /\ \A k \in 1 .. Len(Made!Names) :
                   Made!Names[k] \in Made!InDev \/ <<Made!Names[k], 0>> \in Made!Freed
             /\ Made!Undo = Made!Freed
  <2>0. Len(Made!Config) = 4
    BY DEF Made!Config
  <2>1. Made!Config \in Seq(own \cup Made!InDev)
    <3> DEFINE S == own \cup Made!InDev
    <3>1. "cfg" \in S /\ "func" \in S /\ "pipe in" \in S /\ "pipe out" \in S
      BY DEF Made!InDev
    <3> HIDE DEF S
    <3>2. ASSUME NEW w \in S, NEW x \in S, NEW y \in S, NEW z \in S
          PROVE  <<w, x, y, z>> \in Seq(S)
      OBVIOUS
    <3>3. Made!Config \in Seq(S)
      BY <3>1, <3>2 DEF Made!Config
    <3> QED BY <3>3 DEF S
  <2>2. Len(a) \in Nat
    OBVIOUS
  <2>3. Made!Names \in Seq(own \cup Made!InDev) /\ Len(Made!Names) = Len(a) + 4
    <3> DEFINE S == own \cup Made!InDev
               c == Made!Config
    <3>1. a \in Seq(S) /\ c \in Seq(S)
      BY <2>1
    <3> HIDE DEF S, c
    <3>2. a \o c \in Seq(S) /\ Len(a \o c) = Len(a) + Len(c)
      BY <3>1, SeqConcat
    <3> QED BY <1>1, <2>0, <3>2 DEF S, c
  <2>4. \A x \in own : <<x, 0>> \in Made!Freed
    BY <1>1 DEF Made!Own
  <2>5. \A k \in 1 .. Len(Made!Names) : Made!Names[k] \in own \cup Made!InDev
    BY <2>3
  <2> QED BY <1>1, <2>2, <2>3, <2>4, <2>5
<1>2. Made!NCalls = Len(Made!Names)
  BY DEF Made!NCalls
<1>3. CASE madeClass = "vp"
  <2> DEFINE own == {"struct", "buf", "id", "lock", "dev"}
             a == <<"struct", "buf", "id", "lock", "dev">>
  <2>1. a \in Seq(own \cup Made!InDev)
    BY DEF Made!InDev
  <2>2. Made!Names = a \o Made!Config
    BY <1>3 DEF Made!Names, Made!VpCalls
  <2>3. Made!Freed = Made!Own(own) /\ Made!Undo = Made!Own(own)
    BY <1>3 DEF Made!Freed, Made!Undo, Made!VpFreed, Made!VpUndo
  <2> HIDE DEF a, own
  <2> QED BY <1>1, <1>2, <2>1, <2>2, <2>3
<1>4. CASE madeClass = "hid"
  <2> DEFINE own == {"struct", "dev"}
             a == <<"struct", "dev">>
  <2>1. a \in Seq(own \cup Made!InDev)
    BY DEF Made!InDev
  <2>2. Made!Names = a \o Made!Config
    BY <1>4 DEF Made!Names, Made!HidCalls
  <2>3. Made!Freed = Made!Own(own) /\ Made!Undo = Made!Own(own)
    BY <1>4 DEF Made!Freed, Made!Undo, Made!HidFreed, Made!HidUndo
  <2> HIDE DEF a, own
  <2> QED BY <1>1, <1>2, <2>1, <2>2, <2>3
<1>5. CASE madeClass = "wcid"
  <2> DEFINE own == {"struct", "dev"}
             a == <<"struct", "dev">>
  <2>1. a \in Seq(own \cup Made!InDev)
    BY DEF Made!InDev
  <2>2. Made!Names = a \o Made!Config
    BY <1>5 DEF Made!Names, Made!WcidCalls
  <2>3. Made!Freed = Made!Own(own) /\ Made!Undo = Made!Own(own)
    BY <1>5 DEF Made!Freed, Made!Undo, Made!WcidFreed, Made!WcidUndo
  <2> HIDE DEF a, own
  <2> QED BY <1>1, <1>2, <2>1, <2>2, <2>3
<1>6. CASE madeClass = "ms"
  <2> DEFINE own == {"struct", "buf", "lock", "dev"}
             a == <<"struct", "buf", "lock", "dev">>
  <2>1. a \in Seq(own \cup Made!InDev)
    BY DEF Made!InDev
  <2>2. Made!Names = a \o Made!Config
    BY <1>6 DEF Made!Names, Made!MsCalls
  <2>3. Made!Freed = Made!Own(own) /\ Made!Undo = Made!Own(own)
    BY <1>6 DEF Made!Freed, Made!Undo, Made!MsFreed, Made!MsUndo
  <2> HIDE DEF a, own
  <2> QED BY <1>1, <1>2, <2>1, <2>2, <2>3
<1> QED BY <1>3, <1>4, <1>5, <1>6

\* Every creation has a call at least.
LEMMA SomeCalls ==
    ASSUME MadeParams, madeClass \in MadeClasses
    PROVE  Made!NCalls \in Nat /\ Made!NCalls > 0
<1>1. CASE madeClass = "vs"
  BY <1>1 DEF MadeParams, Made!NCalls
<1>2. CASE madeClass # "vs"
  BY <1>2, NamedCalls DEF MadeParams
<1> QED BY <1>1, <1>2

\* A call of a creation gets what is the device's, or what the creation may hold after it.
LEMMA CallGets ==
    ASSUME MadeParams, MadeInv, madeAt = "create", madeDone' = madeDone + 1,
           madeClass' = madeClass
    PROVE  /\ MadeMay \subseteq MadeMay'
           /\ \/ Made!Gets(madeDone + 1)[1] \in Made!InDev
              \/ Made!Gets(madeDone + 1) \in MadeMay'
<1> DEFINE k == madeDone + 1
<1>0. madeDone \in Nat /\ k \in Nat /\ k \in 1 .. Made!NCalls
  BY SomeCalls DEF MadeInv
<1>1. CASE madeClass = "vs"
  <2>1. /\ MadeMay = Made!Own({"struct", "ports", "dev"})
                      \cup {Made!Rb(i) : i \in {i \in 1 .. MadePorts : 5 * i <= madeDone}}
        /\ MadeMay' = Made!Own({"struct", "ports", "dev"})
                       \cup {Made!Rb(i) : i \in {i \in 1 .. MadePorts : 5 * i <= madeDone + 1}}
    BY <1>1 DEF MadeMay, Made!Own, Made!Rb
  <2>2. MadeMay \subseteq MadeMay'
    <3>1. \A i \in 1 .. MadePorts : 5 * i <= madeDone => 5 * i <= madeDone + 1
      BY <1>0 DEF MadeParams
    <3> QED BY <2>1, <3>1
  <2>3. Made!Gets(k) = Made!VsCalls(k)
    BY <1>1 DEF Made!Gets
  <2>4. CASE k <= 4
    <3>1. k \in {1, 2, 3, 4} /\ Made!VsCalls(k) = <<<<"struct", "ports", "dev", "cfg">>[k], 0>>
      BY <1>0, <2>4 DEF Made!VsCalls
    <3>2. <<"struct", "ports", "dev", "cfg">>[k] \in {"struct", "ports", "dev", "cfg"}
      BY <3>1
    <3> DEFINE name == <<"struct", "ports", "dev", "cfg">>[k]
    <3>3. Made!Gets(k) = <<name, 0>> /\ Made!Gets(k)[1] = name
      BY <2>3, <3>1
    <3> HIDE DEF name
    <3>4. name = "cfg" => name \in Made!InDev
      BY DEF Made!InDev
    <3>5. name \in {"struct", "ports", "dev"} => <<name, 0>> \in Made!Own({"struct", "ports", "dev"})
      BY DEF Made!Own
    <3>6. name \in {"struct", "ports", "dev", "cfg"}
      BY <3>2 DEF name
    <3> QED BY <2>1, <2>2, <3>3, <3>4, <3>5, <3>6
  <2>5. CASE k > 4
    <3> DEFINE q == (k - 5) \div 5
               r == (k - 5) % 5
    <3>1. q \in Nat /\ r \in 0 .. 4 /\ 5 * q <= k - 5
      BY <1>0, <2>5, DivFive
    <3>2. Made!VsCalls(k) = <<Made!PortCalls[r + 1], q + 1>>
      BY <1>0, <2>5 DEF Made!VsCalls
    <3> HIDE DEF q, r
    <3>3. CASE r = 0
      <4>1. Made!PortCalls[r + 1] = "rb"
        BY <3>3 DEF Made!PortCalls
      <4>2. k <= 4 + 5 * MadePorts
        BY <1>0, <1>1 DEF Made!NCalls
      <4>3. q + 1 \in 1 .. MadePorts /\ 5 * (q + 1) <= madeDone + 1
        BY <1>0, <3>1, <3>3, <4>2 DEF MadeParams
      <4>4. Made!VsCalls(k) = Made!Rb(q + 1)
        BY <3>2, <4>1 DEF Made!Rb
      <4> QED BY <2>1, <2>2, <2>3, <4>3, <4>4
    <3>4. CASE r # 0
      <4>1. r + 1 \in {2, 3, 4, 5}
        BY <3>1, <3>4
      <4>2. /\ Made!PortCalls[2] = "func" /\ Made!PortCalls[3] = "pipe cmd"
            /\ Made!PortCalls[4] = "pipe in" /\ Made!PortCalls[5] = "pipe out"
        BY DEF Made!PortCalls
      <4>3. {"func", "pipe cmd", "pipe in", "pipe out"} \subseteq Made!InDev
        BY DEF Made!InDev
      <4>4. Made!PortCalls[r + 1] \in Made!InDev
        BY <4>1, <4>2, <4>3
      <4> QED BY <2>2, <2>3, <3>2, <4>4
    <3> QED BY <3>3, <3>4
  <2> QED BY <1>0, <2>4, <2>5
<1>2. CASE madeClass # "vs"
  <2>1. madeClass \in {"vp", "hid", "wcid", "ms"}
    BY <1>2 DEF MadeInv, MadeParams
  <2>2. Made!Names[k] \in Made!InDev \/ <<Made!Names[k], 0>> \in Made!Freed
    BY <1>0, <2>1, NamedCalls
  <2>3. Made!Gets(k) = <<Made!Names[k], 0>>
    BY <1>2 DEF Made!Gets
  <2>4. MadeMay = Made!Freed /\ MadeMay' = Made!Freed'
    BY <1>2 DEF MadeMay
  <2>5. Made!Freed' = Made!Freed
    BY DEF Made!Freed, Made!VsFreed, Made!VpFreed, Made!HidFreed, Made!WcidFreed,
       Made!MsFreed, Made!Own, Made!Rb
  <2> QED BY <2>2, <2>3, <2>4, <2>5
<1> QED BY <1>1, <1>2

\* What the failing exits leave of what a creation may hold.
LEMMA UndoLeaves ==
    ASSUME MadeParams, MadeInv, madeAt = "create"
    PROVE  madeHeld \ Made!Undo \subseteq
              IF madeClass = "vs" /\ madeDone >= 4 THEN {Made!Rb(Made!PortsDone + 1)} ELSE {}
<1>1. CASE madeClass = "vs"
  <2>1. Made!Undo = Made!Own({"struct", "ports", "dev"})
                     \cup {Made!Rb(i) : i \in 1 .. Made!PortsDone}
    BY <1>1 DEF Made!Undo, Made!VsUndo
  <2>2. madeHeld \subseteq Made!Own({"struct", "ports", "dev"})
                     \cup {Made!Rb(i) : i \in {i \in 1 .. MadePorts : 5 * i <= madeDone}}
    BY <1>1 DEF MadeInv, MadeMay
  <2>3. madeDone \in Nat
    BY DEF MadeInv
  <2>4. CASE madeDone < 4
    <3>1. \A i \in 1 .. MadePorts : ~(5 * i <= madeDone)
      BY <2>3, <2>4 DEF MadeParams
    <3>2. madeHeld \ Made!Undo = {}
      BY <2>1, <2>2, <3>1
    <3> QED BY <3>2
  <2>5. CASE madeDone >= 4
    <3>1. Made!PortsDone = (madeDone - 4) \div 5
      BY <2>3, <2>5 DEF Made!PortsDone
    <3>2. /\ Made!PortsDone \in Nat
          /\ madeDone - 4 < 5 * Made!PortsDone + 5
      BY <2>3, <2>5, <3>1, DivFive
    <3>3. \A i \in 1 .. MadePorts :
             5 * i <= madeDone => i \in 1 .. Made!PortsDone \/ i = Made!PortsDone + 1
      BY <2>3, <3>2 DEF MadeParams
    <3>4. madeHeld \ Made!Undo \subseteq {Made!Rb(Made!PortsDone + 1)}
      BY <2>1, <2>2, <3>3
    <3> QED BY <1>1, <2>5, <3>4
  <2> QED BY <2>3, <2>4, <2>5
<1>2. CASE madeClass # "vs"
  <2>1. madeClass \in {"vp", "hid", "wcid", "ms"}
    BY <1>2 DEF MadeInv, MadeParams
  <2>2. madeHeld \subseteq Made!Freed
    BY <1>2 DEF MadeInv, MadeMay
  <2> QED BY <2>1, <2>2, NamedCalls
<1> QED BY <1>1, <1>2

LEMMA MadeStep ==
    ASSUME MadeParams, MadeInv, [Made!Next]_(Made!classVars)
    PROVE  MadeInv'
<1>0. Made!NCalls \in Nat /\ Made!NCalls > 0 /\ madeDone \in Nat
  BY SomeCalls DEF MadeInv
<1>1. ASSUME madeClass' = madeClass
      PROVE  Made!NCalls' = Made!NCalls
  BY <1>1 DEF Made!NCalls, Made!Names, Made!VpCalls, Made!HidCalls, Made!WcidCalls,
     Made!MsCalls, Made!Config
<1>2. CASE UNCHANGED Made!classVars
  BY <1>2, <1>1 DEF Made!classVars, MadeInv, MadeMay, Made!CreateBalanced, Made!PortsDone,
     Made!Freed, Made!VsFreed, Made!VpFreed, Made!HidFreed, Made!WcidFreed, Made!MsFreed,
     Made!Own, Made!Rb
<1>3. CASE Made!Create
  <2>1. /\ madeClass' = madeClass /\ madeAt' = "create" /\ madeDone' = 0
        /\ madeHeld' = {}
    BY <1>3 DEF Made!Create, MadeInv, Made!CreateBalanced
  <2> QED BY <1>0, <1>1, <2>1 DEF MadeInv, Made!CreateBalanced
<1>4. CASE Made!CallOk
  <2>1. /\ madeAt = "create" /\ madeClass' = madeClass /\ madeDone' = madeDone + 1
        /\ madeAt' = (IF madeDone + 1 = Made!NCalls THEN "made" ELSE "create")
        /\ madeHeld' = (IF Made!Gets(madeDone + 1)[1] \in Made!InDev THEN madeHeld
                        ELSE madeHeld \cup {Made!Gets(madeDone + 1)})
    BY <1>4 DEF Made!CallOk
  <2>2. madeHeld \subseteq MadeMay
    BY <2>1 DEF MadeInv
  <2>3. madeHeld' \subseteq MadeMay'
    BY <2>1, <2>2, CallGets
  <2>4. madeAt' = "create" => madeDone' < Made!NCalls'
    BY <1>0, <1>1, <2>1 DEF MadeInv
  <2> QED BY <1>0, <2>1, <2>3, <2>4 DEF MadeInv, Made!CreateBalanced
<1>5. CASE Made!CallFails
  <2>1. /\ madeAt = "create" /\ madeAt' = "failed" /\ madeClass' = madeClass
        /\ madeDone' = madeDone /\ madeHeld' = madeHeld \ Made!Undo
    BY <1>5 DEF Made!CallFails
  <2>2. madeHeld' \subseteq
           IF madeClass = "vs" /\ madeDone >= 4 THEN {Made!Rb(Made!PortsDone + 1)} ELSE {}
    BY <2>1, UndoLeaves
  <2>3. Made!PortsDone' = Made!PortsDone /\ Made!Rb(Made!PortsDone + 1)' = Made!Rb(Made!PortsDone + 1)
    BY <2>1 DEF Made!PortsDone, Made!Rb
  <2>4. Made!CreateBalanced'
    BY <2>1, <2>2, <2>3 DEF Made!CreateBalanced
  <2> QED BY <2>1, <2>4 DEF MadeInv
<1>6. CASE Made!Retry
  BY <1>6 DEF Made!Retry, MadeInv, Made!CreateBalanced
<1>7. ASSUME NEW ok \in BOOLEAN, Made!Destroy(ok)
      PROVE  MadeInv'
  <2>1. madeAt = "made" /\ madeClass' = madeClass /\ madeDone' = madeDone
    BY <1>7 DEF Made!Destroy
  <2>2. CASE ok
    <3>1. MadeMay \subseteq Made!Freed
      BY DEF MadeMay, Made!Freed, Made!VsFreed
    <3>2. madeAt' = "none" /\ madeHeld' = {}
      BY <1>7, <2>1, <2>2, <3>1 DEF Made!Destroy, MadeInv
    <3> QED BY <2>1, <3>2 DEF MadeInv, Made!CreateBalanced
  <2>3. CASE ~ok
    BY <1>7, <2>1, <2>3 DEF Made!Destroy, MadeInv, MadeMay, Made!CreateBalanced,
       Made!Freed, Made!VsFreed, Made!VpFreed, Made!HidFreed, Made!WcidFreed, Made!MsFreed,
       Made!Own, Made!Rb
  <2> QED BY <2>2, <2>3
<1> QED BY <1>2, <1>3, <1>4, <1>5, <1>6, <1>7 DEF Made!Next

LEMMA MadeInit ==
    ASSUME MadeParams, Made!Init
    PROVE  MadeInv
BY DEF Made!Init, MadeInv, Made!CreateBalanced

\* A creation that fails keeps nothing but the ring buffer of the port it was at, and a
\* destroyed device leaves nothing, at whichever call and for any number of ports
\* (usbd_cdc_virtual_serial.c:330-420, :425-470).
THEOREM CreationBalanced ==
    ASSUME MadeParams
    PROVE  Made!Spec => []Made!CreateBalanced
<1>1. Made!Init => MadeInv
  BY MadeInit
<1>2. MadeInv /\ [Made!Next]_(Made!classVars) => MadeInv'
  BY MadeStep
<1>3. MadeInv => Made!CreateBalanced
  BY DEF MadeInv
<1> QED BY <1>1, <1>2, <1>3, PTL DEF Made!Spec
-----------------------------------------------------------------------------
(* The port of the virtual serial device                                    *)

PortParams == RbSize \in Nat /\ Chunk \in Nat /\ MaxSent \in Nat

\* The transfer is submitted by the one start of the port; the ring holds bytes that were
\* sent and not read, in their order.
PortInv ==
    /\ portHw \in {0, 1} /\ (~portStart => portHw = 0)
    /\ portSent \in Nat /\ portGot \in Nat
    /\ portRb \in Seq(Nat) /\ Len(portRb) <= RbSize
    /\ \A i \in 1 .. Len(portRb) : portGot < portRb[i] /\ portRb[i] <= portSent
    /\ \A i, j \in 1 .. Len(portRb) : i < j => portRb[i] < portRb[j]
    /\ portGot <= portSent

\* What is put behind the ring is what the host has sent just now, as far as it fits.
LEMMA PortPuts ==
    ASSUME PortParams, PortInv, NEW n \in Nat, NEW open \in BOOLEAN, portHw = 1,
           portSent' = portSent + n, VsPorts!TransDone(VsPorts!Bytes(n), open),
           portGot' = portGot, portStart' = portStart, portStart
    PROVE  PortInv'
<1> USE DEF PortParams
<1>1. PICK k \in 0 .. n : /\ k <= RbSize - Len(portRb)
                          /\ portRb' = portRb \o SubSeq(VsPorts!Bytes(n), 1, k)
  <2>1. Len(VsPorts!Bytes(n)) = n
    BY DEF VsPorts!Bytes
  <2>2. RbSize - Len(portRb) \in Nat
    BY DEF PortInv
  <2>3. portRb' = VsPorts!Put(VsPorts!Bytes(n))
    BY DEF VsPorts!TransDone
  <2>4. CASE n <= RbSize - Len(portRb)
    <3>1. portRb' = portRb \o SubSeq(VsPorts!Bytes(n), 1, n)
      BY <2>1, <2>3, <2>4 DEF VsPorts!Put
    <3> QED BY <2>4, <3>1
  <2>5. CASE ~(n <= RbSize - Len(portRb))
    <3>1. portRb' = portRb \o SubSeq(VsPorts!Bytes(n), 1, RbSize - Len(portRb))
      BY <2>1, <2>3, <2>5 DEF VsPorts!Put
    <3>2. RbSize - Len(portRb) \in 0 .. n /\ RbSize - Len(portRb) <= RbSize - Len(portRb)
      BY <2>2, <2>5
    <3> QED BY <3>1, <3>2
  <2> QED BY <2>4, <2>5
<1> DEFINE new == SubSeq(VsPorts!Bytes(n), 1, k)
<1>2. new \in Seq(Nat) /\ Len(new) = k /\ \A i \in 1 .. k : new[i] = portSent + i
  <2>1. new = [i \in 1 .. k |-> portSent + i]
    <3>1. new = [i \in 1 .. k |-> VsPorts!Bytes(n)[i]]
      BY DEF VsPorts!Bytes
    <3>2. \A i \in 1 .. k : VsPorts!Bytes(n)[i] = portSent + i
      BY DEF VsPorts!Bytes
    <3> HIDE DEF new
    <3> QED BY <3>1, <3>2
  <2> HIDE DEF new
  <2> QED BY <2>1 DEF PortInv
<1>3. portRb \in Seq(Nat)
  BY DEF PortInv
<1> HIDE DEF new
<1>4. /\ portRb' \in Seq(Nat) /\ Len(portRb') = Len(portRb) + k
      /\ \A i \in 1 .. Len(portRb) : portRb'[i] = portRb[i]
      /\ \A i \in Len(portRb) + 1 .. Len(portRb) + k : portRb'[i] = portSent + (i - Len(portRb))
  <2>1. portRb' = portRb \o new
    BY <1>1 DEF new
  <2>2. /\ portRb' \in Seq(Nat) /\ Len(portRb') = Len(portRb) + k
        /\ \A i \in 1 .. Len(portRb) : portRb'[i] = portRb[i]
        /\ \A i \in Len(portRb) + 1 .. Len(portRb) + k : portRb'[i] = new[i - Len(portRb)]
    BY <1>2, <1>3, <2>1, SeqConcat
  <2>3. \A i \in Len(portRb) + 1 .. Len(portRb) + k : i - Len(portRb) \in 1 .. k
    BY <1>3
  <2> QED BY <1>2, <2>2, <2>3
<1>5. Len(portRb) \in Nat /\ Len(portRb') <= RbSize
  BY <1>1, <1>3, <1>4
<1>6. \A i \in 1 .. Len(portRb') : portGot' < portRb'[i] /\ portRb'[i] <= portSent'
  <2> TAKE i \in 1 .. Len(portRb')
  <2>1. CASE i <= Len(portRb)
    <3>1. portRb'[i] = portRb[i] /\ portGot < portRb[i] /\ portRb[i] <= portSent
      BY <1>4, <1>5, <2>1 DEF PortInv
    <3>2. portRb[i] \in Nat
      BY <1>3, <1>5, <2>1
    <3> QED BY <3>1, <3>2 DEF PortInv
  <2>2. CASE i > Len(portRb)
    <3>1. i - Len(portRb) \in 1 .. k /\ portRb'[i] = portSent + (i - Len(portRb))
      BY <1>4, <1>5, <2>2
    <3> QED BY <3>1 DEF PortInv
  <2> QED BY <1>5, <2>1, <2>2
<1>7. \A i, j \in 1 .. Len(portRb') : i < j => portRb'[i] < portRb'[j]
  <2> SUFFICES ASSUME NEW i \in 1 .. Len(portRb'), NEW j \in 1 .. Len(portRb'), i < j
               PROVE  portRb'[i] < portRb'[j]
    OBVIOUS
  <2>1. CASE j <= Len(portRb)
    <3>1. i \in 1 .. Len(portRb) /\ j \in 1 .. Len(portRb)
      BY <1>4, <1>5, <2>1
    <3>2. portRb'[i] = portRb[i] /\ portRb'[j] = portRb[j]
      BY <1>4, <3>1
    <3> QED BY <3>1, <3>2 DEF PortInv
  <2>2. CASE j > Len(portRb) /\ i <= Len(portRb)
    <3>1. portRb'[i] = portRb[i] /\ portRb[i] <= portSent /\ portRb[i] \in Nat
      BY SMTT(30), <1>3, <1>4, <1>5, <2>2 DEF PortInv
    <3>2. j - Len(portRb) \in 1 .. k /\ portRb'[j] = portSent + (j - Len(portRb))
      BY <1>4, <1>5, <2>2
    <3> QED BY <3>1, <3>2 DEF PortInv
  <2>3. CASE i > Len(portRb)
    <3>1. /\ i \in Len(portRb) + 1 .. Len(portRb) + k
          /\ j \in Len(portRb) + 1 .. Len(portRb) + k
      BY <1>4, <1>5, <2>3
    <3>2. portRb'[i] = portSent + (i - Len(portRb)) /\ portRb'[j] = portSent + (j - Len(portRb))
      BY <1>4, <3>1
    <3> QED BY <1>5, <3>1, <3>2 DEF PortInv
  <2> QED BY <1>5, <2>1, <2>2, <2>3
<1>8. portHw' \in {0, 1}
  BY DEF VsPorts!TransDone
<1> QED BY <1>4, <1>5, <1>6, <1>7, <1>8 DEF PortInv

LEMMA PortStep ==
    ASSUME PortParams, PortInv, [VsPorts!Next]_(VsPorts!vsVars)
    PROVE  PortInv'
<1> USE DEF PortParams
<1>1. ASSUME UNCHANGED <<portHw, portStart, portSent, portGot, portRb>>
      PROVE  PortInv'
  BY <1>1 DEF PortInv
<1>2. CASE UNCHANGED VsPorts!vsVars
  BY <1>1, <1>2 DEF VsPorts!vsVars
<1>3. CASE VsPorts!DataFuncSet
  BY <1>1, <1>3 DEF VsPorts!DataFuncSet
<1>4. CASE VsPorts!PortStart
  BY <1>4 DEF VsPorts!PortStart, PortInv
<1>5. CASE VsPorts!PortRead
  <2>1. /\ portRb # <<>> /\ portGot' = Head(portRb) /\ portRb' = Tail(portRb)
        /\ UNCHANGED <<portHw, portStart, portSent>> /\ portRb \in Seq(Nat)
    BY <1>5 DEF VsPorts!PortRead, PortInv
  <2>2. Len(portRb) \in Nat /\ Len(portRb) >= 1
    BY <2>1
  <2>3. /\ portRb' \in Seq(Nat) /\ Len(portRb') = Len(portRb) - 1 /\ portGot' = portRb[1]
        /\ \A i \in 1 .. Len(portRb) - 1 : portRb'[i] = portRb[i + 1]
    BY <2>1, <2>2
  <2>4. portGot' \in Nat /\ portGot' <= portSent /\ Len(portRb') <= RbSize
    BY <2>1, <2>2, <2>3 DEF PortInv
  <2>5. \A i \in 1 .. Len(portRb') : portGot' < portRb'[i] /\ portRb'[i] <= portSent
    <3> TAKE i \in 1 .. Len(portRb')
    <3>1. 1 \in 1 .. Len(portRb) /\ i + 1 \in 1 .. Len(portRb) /\ 1 < i + 1
      BY <2>2, <2>3
    <3>2. portRb[1] < portRb[i + 1] /\ portRb[i + 1] <= portSent
      BY <3>1 DEF PortInv
    <3> QED BY <2>3, <3>2
  <2>6. \A i, j \in 1 .. Len(portRb') : i < j => portRb'[i] < portRb'[j]
    <3> SUFFICES ASSUME NEW i \in 1 .. Len(portRb'), NEW j \in 1 .. Len(portRb'), i < j
                 PROVE  portRb'[i] < portRb'[j]
      OBVIOUS
    <3>1. i + 1 \in 1 .. Len(portRb) /\ j + 1 \in 1 .. Len(portRb) /\ i + 1 < j + 1
      BY <2>2, <2>3
    <3>2. portRb[i + 1] < portRb[j + 1]
      BY <3>1 DEF PortInv
    <3> QED BY <2>3, <3>2
  <2> QED BY <2>1, <2>3, <2>4, <2>5, <2>6 DEF PortInv
<1>6. ASSUME NEW n \in 0 .. Chunk, VsPorts!Shutdown(n)
      PROVE  PortInv'
  <2>1. CASE portHw > 0
    <3>1. portHw = 1 /\ portStart
      BY <2>1 DEF PortInv
    <3>2. /\ portSent' = portSent + n /\ VsPorts!TransDone(VsPorts!Bytes(n), FALSE)
          /\ portGot' = portGot /\ portStart' = portStart
      BY <1>6, <2>1 DEF VsPorts!Shutdown
    <3>3. n \in Nat /\ FALSE \in BOOLEAN
      OBVIOUS
    <3> QED BY <3>1, <3>2, <3>3, PortPuts
  <2>2. CASE ~(portHw > 0)
    BY <1>1, <1>6, <2>2 DEF VsPorts!Shutdown
  <2> QED BY <2>1, <2>2
<1>7. ASSUME NEW n \in 0 .. Chunk, NEW open \in BOOLEAN, VsPorts!HostSends(n, open)
      PROVE  PortInv'
  <2>1. portHw = 1 /\ portStart
    BY <1>7 DEF VsPorts!HostSends, PortInv
  <2>2. /\ portSent' = portSent + n /\ VsPorts!TransDone(VsPorts!Bytes(n), open)
        /\ portGot' = portGot /\ portStart' = portStart
    BY <1>7 DEF VsPorts!HostSends
  <2> QED BY <2>1, <2>2, PortPuts
<1> QED BY <1>2, <1>3, <1>4, <1>5, <1>6, <1>7 DEF VsPorts!Next

LEMMA PortInit ==
    ASSUME PortParams, VsPorts!Init
    PROVE  PortInv
BY DEF PortParams, VsPorts!Init, PortInv

LEMMA PortReads ==
    ASSUME PortParams, PortInv
    PROVE  VsPorts!ReadOnce
<1>1. portHw <= 1
  BY DEF PortInv
<1>2. Len(portRb) \in Nat
  BY DEF PortInv
<1>3. \A i \in 1 .. Len(portRb) : portRb[i] > (IF i = 1 THEN portGot ELSE portRb[i - 1])
  <2> TAKE i \in 1 .. Len(portRb)
  <2>1. CASE i = 1
    BY <2>1 DEF PortInv
  <2>2. CASE i # 1
    <3>1. i - 1 \in 1 .. Len(portRb) /\ i - 1 < i
      BY <1>2, <2>2
    <3>2. portRb[i - 1] < portRb[i]
      BY <3>1 DEF PortInv
    <3>3. portRb[i - 1] \in Nat /\ portRb[i] \in Nat
      BY <1>2, <3>1 DEF PortInv
    <3> QED BY <2>2, <3>2, <3>3
  <2> QED BY <2>1, <2>2
<1> QED BY <1>1, <1>3 DEF VsPorts!ReadOnce

\* Over disconnections and full rings, with the transfer submitted from its own completion,
\* what the application reads comes in the host's order and no byte twice
\* (usbd_cdc_virtual_serial.c:51-70, :229-300).
THEOREM PortReadsOnce ==
    ASSUME PortParams
    PROVE  VsPorts!Spec => []VsPorts!ReadOnce
<1>1. VsPorts!Init => PortInv
  BY PortInit
<1>2. PortInv /\ [VsPorts!Next]_(VsPorts!vsVars) => PortInv'
  BY PortStep
<1>3. PortInv => VsPorts!ReadOnce
  BY PortReads
<1> QED BY <1>1, <1>2, <1>3, PTL DEF VsPorts!Spec
-----------------------------------------------------------------------------
(* The logical units of the mass storage device                             *)

UnitParams == MaxLu \in Nat /\ NoLu \notin 0 .. MaxLu

\* Each number below n_lu is that of a unit on the list or of one that is freed; the
\* selected unit is on the list, and is the command's while it is executed.
UnitInv ==
    /\ nLu \in 0 .. MaxLu
    /\ unitLus \cup unitFreed = 0 .. nLu - 1 /\ unitLus \cap unitFreed = {}
    /\ luSelect # NoLu => luSelect \in unitLus
    /\ unitAt = "exec" /\ luSelect # NoLu => luSelect = unitLun

\* Inside the instance the library's operators are its own.
LEMMA UnitCard == \A S : LunUnits!Cardinality(S) = Cardinality(S)
BY DEF LunUnits!Cardinality, Cardinality, LunUnits!IsFiniteSet, IsFiniteSet

LEMMA UnitStep ==
    ASSUME UnitParams, UnitInv, [LunUnits!Next]_(LunUnits!unitVars)
    PROVE  UnitInv'
<1> USE DEF UnitParams
<1>1. ASSUME UNCHANGED <<unitLus, unitFreed, nLu, luSelect, unitLun>>, unitAt' \in {unitAt, "out", "get", "await"}
      PROVE  UnitInv'
  BY <1>1 DEF UnitInv
<1>2. CASE UNCHANGED LunUnits!unitVars
  BY <1>1, <1>2 DEF LunUnits!unitVars
<1>3. CASE LunUnits!LuAdd
  <2>1. /\ nLu < MaxLu /\ unitLus' = unitLus \cup {nLu} /\ nLu' = nLu + 1
        /\ UNCHANGED <<unitFreed, luSelect, unitAt, unitLun>>
    BY <1>3 DEF LunUnits!LuAdd
  <2>2. 0 .. nLu' - 1 = (0 .. nLu - 1) \cup {nLu} /\ nLu \notin 0 .. nLu - 1
    BY <2>1 DEF UnitInv
  <2>3. nLu' \in 0 .. MaxLu
    BY <2>1 DEF UnitInv
  <2> QED BY <2>1, <2>2, <2>3 DEF UnitInv
<1>4. ASSUME NEW n \in 0 .. MaxLu, LunUnits!LuDel(n)
      PROVE  UnitInv'
  <2>1. CASE UNCHANGED <<unitLus, unitFreed>>
    BY <1>1, <1>4, <2>1 DEF LunUnits!LuDel
  <2>2. CASE luSelect # NoLu /\ n # luSelect
    <3>1. /\ unitLus' = unitLus \ {n} /\ unitFreed' = unitFreed \cup ({n} \cap unitLus)
          /\ UNCHANGED <<nLu, luSelect, unitAt, unitLun>>
      BY <1>4, <2>2 DEF LunUnits!LuDel
    <3>2. /\ unitLus' \cup unitFreed' = unitLus \cup unitFreed
          /\ unitLus \cap unitFreed = {} => unitLus' \cap unitFreed' = {}
      BY <3>1
    <3> QED BY <2>2, <3>1, <3>2 DEF UnitInv
  <2> QED BY <1>4, <2>1, <2>2 DEF LunUnits!LuDel
<1>5. CASE LunUnits!GetMaxLun \/ LunUnits!DataFuncSet \/ LunUnits!Process \/ LunUnits!Await
           \/ LunUnits!Exec
  BY <1>1, <1>5 DEF LunUnits!GetMaxLun, LunUnits!DataFuncSet, LunUnits!Process,
     LunUnits!Await, LunUnits!Exec, LunUnits!Exit
<1>6. CASE LunUnits!Shutdown
  BY <1>6 DEF LunUnits!Shutdown, UnitInv
<1>7. ASSUME NEW n \in 0 .. MaxLu, LunUnits!Command(n)
      PROVE  UnitInv'
  BY <1>7 DEF LunUnits!Command, LunUnits!Exit, UnitInv
<1> QED BY <1>2, <1>3, <1>4, <1>5, <1>6, <1>7 DEF LunUnits!Next

LEMMA UnitInit ==
    ASSUME UnitParams, LunUnits!Init
    PROVE  UnitInv
BY DEF UnitParams, LunUnits!Init, UnitInv

LEMMA UnitIsAlive ==
    ASSUME UnitParams, UnitInv
    PROVE  LunUnits!UnitAlive
<1>1. IsFiniteSet(0 .. nLu - 1) /\ Cardinality(0 .. nLu - 1) = nLu
  BY FS_Interval DEF UnitInv, UnitParams
<1>2. IsFiniteSet(unitLus) /\ IsFiniteSet(unitFreed)
  BY <1>1, FS_Subset DEF UnitInv
<1>3. Cardinality(unitLus \cup unitFreed)
         = Cardinality(unitLus) + Cardinality(unitFreed) - Cardinality(unitLus \cap unitFreed)
  BY <1>2, FS_Union
<1>4. Cardinality(unitLus \cap unitFreed) = 0
  BY FS_EmptySet DEF UnitInv
<1>5. Cardinality(unitLus) \in Nat /\ Cardinality(unitFreed) \in Nat
  BY <1>2, FS_CardinalityType
<1>6. Cardinality(unitLus) + Cardinality(unitFreed) = nLu
  <2>1. unitLus \cup unitFreed = 0 .. nLu - 1
    BY DEF UnitInv
  <2>2. Cardinality(unitLus \cup unitFreed) = nLu
    BY <1>1, <2>1
  <2> QED BY <1>3, <1>4, <1>5, <2>2
<1>7. \A n \in unitLus : n < nLu
  BY DEF UnitInv, UnitParams
<1> QED BY <1>6, <1>7, UnitCard DEF UnitInv, LunUnits!UnitAlive

\* The unit of a command exists while it is executed, and a number names one unit for ever,
\* whatever is added and removed meanwhile (usbd_ms.c:383-491, usbd_ms_scsi_bbb.c:103).
THEOREM UnitsAlive ==
    ASSUME UnitParams
    PROVE  LunUnits!Spec => []LunUnits!UnitAlive
<1>1. LunUnits!Init => UnitInv
  BY UnitInit
<1>2. UnitInv /\ [LunUnits!Next]_(LunUnits!unitVars) => UnitInv'
  BY UnitStep
<1>3. UnitInv => LunUnits!UnitAlive
  BY UnitIsAlive
<1> QED BY <1>1, <1>2, <1>3, PTL DEF LunUnits!Spec
-----------------------------------------------------------------------------
(* The identity of the virtual printer                                      *)

\* The halves of the identity differ only while the application copies one, and then it
\* has the lock.
IdInv ==
    /\ \E i, j \in Identities : printerId = <<i, j>> /\ (idCopying = <<>> => i = j)
    /\ \/ idCopying = <<>> /\ idLock \in {"none", "lost"}
       \/ /\ idLock = "app"
          /\ \E i \in Identities :
                \/ idCopying = <<i, i>>
                \/ idCopying = <<i>> /\ printerId[1] = i
    /\ \/ idSent = <<>>
       \/ \E i \in Identities : idSent = <<i, i>>

LEMMA IdStep ==
    ASSUME IdInv, [Printer!Next]_(Printer!printerVars)
    PROVE  IdInv'
<1>1. CASE UNCHANGED Printer!printerVars
  BY <1>1 DEF Printer!printerVars, IdInv
<1>2. ASSUME NEW i \in Identities, Printer!IdSet(i)
      PROVE  IdInv'
  BY <1>2 DEF Printer!IdSet, Printer!Whole, IdInv
<1>3. CASE Printer!IdCopy
  <2>1. idCopying # <<>> /\ idLock = "app" /\ idSent' = idSent
    BY <1>3 DEF Printer!IdCopy, IdInv
  <2>2. PICK i \in Identities : idCopying = <<i, i>> \/ (idCopying = <<i>> /\ printerId[1] = i)
    BY <2>1 DEF IdInv
  <2>3. PICK j, k \in Identities : printerId = <<j, k>>
    BY DEF IdInv
  <2>4. CASE idCopying = <<i, i>>
    <3>1. Len(idCopying) = 2 /\ Head(idCopying) = i /\ Tail(idCopying) = <<i>>
      BY <2>4
    <3>2. printerId' = [printerId EXCEPT ![1] = i]
      <4>1. printerId' = [printerId EXCEPT ![3 - Len(idCopying)] = Head(idCopying)]
        BY <1>3 DEF Printer!IdCopy
      <4>2. 3 - Len(idCopying) = 1
        BY <3>1
      <4> QED BY <3>1, <4>1, <4>2
    <3>3. [<<j, k>> EXCEPT ![1] = i] = <<i, k>>
      OBVIOUS
    <3>4. idCopying' = <<i>> /\ idLock' = "app"
      BY <1>3, <2>1, <3>1 DEF Printer!IdCopy
    <3>5. printerId' = <<i, k>> /\ printerId'[1] = i
      BY <2>3, <3>2, <3>3
    <3> QED BY <2>1, <3>4, <3>5 DEF IdInv
  <2>5. CASE idCopying = <<i>> /\ printerId[1] = i
    <3>1. printerId' = <<i, i>> /\ idCopying' = <<>> /\ idLock' = "none"
      BY <1>3, <2>1, <2>3, <2>5 DEF Printer!IdCopy
    <3> QED BY <2>1, <3>1 DEF IdInv
  <2> QED BY <2>2, <2>4, <2>5
<1>4. ASSUME NEW intf \in {PrinterIntf, PrinterIntf + 1}, Printer!GetDeviceId(intf)
      PROVE  IdInv'
  <2>1. idCopying' = idCopying /\ printerId' = printerId
    BY <1>4 DEF Printer!GetDeviceId
  <2>2. \/ idSent' = <<>> /\ idLock' = idLock
        \/ idSent' = idSent /\ idLock = "none" /\ idLock' = "lost"
        \/ idSent' = printerId /\ idLock = "none" /\ idLock' = "none"
    BY <1>4 DEF Printer!GetDeviceId
  <2>3. idLock = "none" => idCopying = <<>> /\ \E i \in Identities : printerId = <<i, i>>
    BY DEF IdInv
  <2> QED BY <2>1, <2>2, <2>3 DEF IdInv
<1>5. CASE Printer!GetPortStatus
  BY <1>5 DEF Printer!GetPortStatus, IdInv
<1>6. CASE Printer!AltSet
  BY <1>6 DEF Printer!AltSet, IdInv
<1>7. CASE Printer!VpShutdown
  BY <1>7 DEF Printer!VpShutdown, IdInv
<1> QED BY <1>1, <1>2, <1>3, <1>4, <1>5, <1>6, <1>7 DEF Printer!Next

LEMMA IdInit ==
    ASSUME Printer!Init
    PROVE  IdInv
BY DEF Printer!Init, Printer!Whole, IdInv

LEMMA IdIsWhole ==
    ASSUME IdInv
    PROVE  Printer!IdWhole
BY DEF IdInv, Printer!IdWhole

\* The host never hears an identity of the printer that is half of one and half of another,
\* whenever it asks (usbd_virtual_printer.c:80-105, :401-409).
THEOREM PrinterIdWhole == Printer!Spec => []Printer!IdWhole
<1>1. Printer!Init => IdInv
  BY IdInit
<1>2. IdInv /\ [Printer!Next]_(Printer!printerVars) => IdInv'
  BY IdStep
<1>3. IdInv => Printer!IdWhole
  BY IdIsWhole
<1> QED BY <1>1, <1>2, <1>3, PTL DEF Printer!Spec
-----------------------------------------------------------------------------
(* UacLife: a TRP is submitted once                                        *)

LifeParams == NoFormat \notin PlayFormats

LifeEp == [use : Int, run : BOOLEAN, made : Nat]

\* While no start has failed, a stream that may be prepared without being set up has been
\* started, and what flies was made before.
LifeInv ==
    /\ playMade \in Nat
    /\ playEps \in [PlayFormats -> LifeEp]
    /\ \A f \in PlayFormats : playEps[f].made <= playMade
    /\ playCur \in PlayFormats => playEp \in PlayFormats
    /\ playCur \in PlayFormats \cup {NoFormat}
    /\ playStarted \in BOOLEAN
    /\ \A t \in playFlying : t[2] \in Nat /\ t[2] <= playMade
    /\ "failed" \notin playGhost =>
         /\ "twice" \notin playGhost
         /\ ~playSetup /\ playState \in {"SETUP", "PREPARED"} => playStarted

LEMMA LifeInit == Life!Init => LifeInv
<1> SUFFICES ASSUME Life!Init PROVE LifeInv
  OBVIOUS
<1>1. [use |-> 0, run |-> FALSE, made |-> 0] \in LifeEp
  BY DEF LifeEp
<1>2. /\ playEps \in [PlayFormats -> LifeEp] /\ playMade = 0
      /\ \A f \in PlayFormats : playEps[f].made = 0
  BY <1>1 DEF Life!Init
<1>3. /\ playCur = NoFormat /\ playEp = NoFormat /\ playStarted = FALSE /\ playState = "none"
      /\ playFlying = {} /\ playGhost = {}
  BY DEF Life!Init
<1>4. playMade \in Nat /\ \A f \in PlayFormats : playEps[f].made <= playMade
  BY <1>2
<1>5. playCur \in PlayFormats \cup {NoFormat} /\ (playCur \in PlayFormats => playEp \in PlayFormats)
  BY <1>3
<1>6. /\ \A t \in playFlying : t[2] \in Nat /\ t[2] <= playMade
      /\ playStarted \in BOOLEAN
      /\ "twice" \notin playGhost /\ playState \notin {"SETUP", "PREPARED"}
  BY <1>3
<1> QED BY <1>2, <1>4, <1>5, <1>6 DEF LifeInv

\* An endpoint with another count, flag or time.
LEMMA LifeEpUse ==
    ASSUME NEW r \in LifeEp, NEW u \in Int
    PROVE  [r EXCEPT !.use = u] \in LifeEp /\ [r EXCEPT !.use = u].made = r.made
BY DEF LifeEp

LEMMA LifeEpMadeAt ==
    ASSUME NEW r \in LifeEp, NEW m \in Nat
    PROVE  [r EXCEPT !.made = m] \in LifeEp /\ [r EXCEPT !.made = m].made = m
BY DEF LifeEp

LEMMA LifeEpFlag ==
    ASSUME NEW r \in LifeEp, NEW b \in BOOLEAN
    PROVE  [r EXCEPT !.run = b] \in LifeEp /\ [r EXCEPT !.run = b].made = r.made
BY DEF LifeEp

LEMMA LifeEpBoth ==
    ASSUME NEW r \in LifeEp, NEW u \in Int, NEW b \in BOOLEAN
    PROVE  /\ [r EXCEPT !.use = u, !.run = b] \in LifeEp
           /\ [r EXCEPT !.use = u, !.run = b].made = r.made
BY DEF LifeEp

LEMMA LifeEpRun ==
    ASSUME NEW r \in LifeEp
    PROVE  /\ [r EXCEPT !.use = 1, !.run = TRUE] \in LifeEp
           /\ [r EXCEPT !.use = 1, !.run = TRUE].made = r.made
           /\ [r EXCEPT !.run = FALSE] \in LifeEp /\ [r EXCEPT !.run = FALSE].made = r.made
<1> DEFINE one == 1
           yes == TRUE
           no == FALSE
<1>1. one \in Int /\ yes \in BOOLEAN /\ no \in BOOLEAN
  OBVIOUS
<1> HIDE DEF one, yes, no
<1>2. /\ [r EXCEPT !.use = one, !.run = yes] \in LifeEp
      /\ [r EXCEPT !.use = one, !.run = yes].made = r.made
  BY <1>1, LifeEpBoth
<1>3. [r EXCEPT !.run = no] \in LifeEp /\ [r EXCEPT !.run = no].made = r.made
  BY <1>1, LifeEpFlag
<1> USE DEF one, yes, no
<1> QED BY <1>2, <1>3

\* One endpoint of all is another.
LEMMA LifeEpSet ==
    ASSUME NEW e \in [PlayFormats -> LifeEp], NEW f \in PlayFormats, NEW r \in LifeEp
    PROVE  /\ [e EXCEPT ![f] = r] \in [PlayFormats -> LifeEp]
           /\ [e EXCEPT ![f] = r][f] = r
           /\ \A g \in PlayFormats : g # f => [e EXCEPT ![f] = r][g] = e[g]
OBVIOUS

\* One endpoint of all with TRPs as old.
LEMMA LifeEpMade ==
    ASSUME NEW e \in [PlayFormats -> LifeEp], NEW f \in PlayFormats, NEW r \in LifeEp,
           r.made = e[f].made
    PROVE  /\ [e EXCEPT ![f] = r] \in [PlayFormats -> LifeEp]
           /\ \A g \in PlayFormats : [e EXCEPT ![f] = r][g].made = e[g].made
<1> DEFINE h == [e EXCEPT ![f] = r]
<1>1. /\ h \in [PlayFormats -> LifeEp] /\ h[f] = r
      /\ \A g \in PlayFormats : g # f => h[g] = e[g]
  BY LifeEpSet
<1> HIDE DEF h
<1>2. ASSUME NEW g \in PlayFormats PROVE h[g].made = e[g].made
  <2>1. CASE g = f
    BY <1>1, <2>1
  <2>2. CASE g # f
    BY <1>1, <2>2
  <2> QED BY <2>1, <2>2
<1>3. h \in [PlayFormats -> LifeEp] /\ \A g \in PlayFormats : h[g].made = e[g].made
  BY <1>1, <1>2
<1> QED BY <1>3 DEF h

LEMMA LifeStartEp ==
    ASSUME NEW e \in [PlayFormats -> LifeEp],
           NEW f \in PlayFormats, NEW n,
           \A g \in PlayFormats : e[g].made <= playMade', playMade' \in Nat,
           \A t \in playFlying : t[2] \in Nat /\ t[2] <= playMade',
           "failed" \notin playGhost => \A t \in playFlying : t[2] # e[f].made,
           "failed" \notin playGhost => "twice" \notin playGhost,
           Life!StartEp(f, e, n)
    PROVE  /\ playEps' \in [PlayFormats -> LifeEp]
           /\ \A g \in PlayFormats : playEps'[g].made <= playMade'
           /\ playStarted' \in BOOLEAN
           /\ \A t \in playFlying' : t[2] \in Nat /\ t[2] <= playMade'
           /\ "failed" \notin playGhost' => playStarted' /\ "twice" \notin playGhost'
<1>1. CASE n = Life!Cardinality(PlayTrps)
  <2> DEFINE s == {<<f, e[f].made, i>> : i \in PlayTrps}
  <2>1. /\ playFlying' = playFlying \cup s
        /\ playGhost' = IF s \cap playFlying # {} THEN playGhost \cup {"twice"} ELSE playGhost
        /\ playEps' = [e EXCEPT ![f].use = 1, ![f].run = TRUE]
        /\ playStarted' = TRUE
    BY <1>1 DEF Life!StartEp, Life!Submitted
  <2>2. \A t \in s : t[2] = e[f].made
    OBVIOUS
  <2>3. /\ playEps' \in [PlayFormats -> LifeEp]
        /\ \A g \in PlayFormats : playEps'[g].made = e[g].made
    <3> DEFINE r == [e[f] EXCEPT !.use = 1, !.run = TRUE]
    <3>1. r \in LifeEp /\ r.made = e[f].made
      <4>1. e[f] \in LifeEp
        OBVIOUS
      <4> QED BY <4>1, LifeEpRun
    <3>2. playEps' = [e EXCEPT ![f] = r]
      BY <2>1
    <3> HIDE DEF r
    <3> QED BY <3>1, <3>2, LifeEpMade
  <2>4. \A t \in playFlying' : t[2] \in Nat /\ t[2] <= playMade'
    <3>1. e[f] \in LifeEp /\ e[f].made \in Nat
      BY DEF LifeEp
    <3> HIDE DEF s
    <3> QED BY <2>1, <2>2, <3>1
  <2>5. "failed" \notin playGhost' => playStarted' /\ "twice" \notin playGhost'
    <3> HIDE DEF s
    <3> QED BY <2>1, <2>2
  <2> QED BY <2>1, <2>3, <2>4, <2>5
<1>2. CASE n # Life!Cardinality(PlayTrps)
  <2>1. PICK s \in SUBSET PlayTrps :
            playFlying' = playFlying \cup {<<f, e[f].made, i>> : i \in s}
    BY <1>2 DEF Life!StartEp
  <2>2. /\ playGhost' = playGhost \cup {"failed"} /\ playStarted' = FALSE
        /\ playEps' = [e EXCEPT ![f].run = FALSE]
    BY <1>2 DEF Life!StartEp
  <2>3. /\ playEps' \in [PlayFormats -> LifeEp]
        /\ \A g \in PlayFormats : playEps'[g].made = e[g].made
    <3> DEFINE r == [e[f] EXCEPT !.run = FALSE]
    <3>1. r \in LifeEp /\ r.made = e[f].made
      <4>1. e[f] \in LifeEp
        OBVIOUS
      <4> QED BY <4>1, LifeEpRun
    <3>2. playEps' = [e EXCEPT ![f] = r]
      BY <2>2
    <3> HIDE DEF r
    <3> QED BY <3>1, <3>2, LifeEpMade
  <2>4. \A t \in playFlying' : t[2] \in Nat /\ t[2] <= playMade'
    <3>1. e[f] \in LifeEp /\ e[f].made \in Nat
      BY DEF LifeEp
    <3> QED BY <2>1, <3>1
  <2> QED BY <2>2, <2>3, <2>4
<1> QED BY <1>1, <1>2

LEMMA LifePrepares ==
    ASSUME LifeParams, LifeInv, Life!Prepare
    PROVE  LifeInv'
<1>1. /\ playState \in {"SETUP", "PREPARED"} /\ playCur # NoFormat
      /\ UNCHANGED <<playCur, playEp>> /\ playEp \in PlayFormats
  BY DEF Life!Prepare, LifeInv
<1>2. CASE playSetup /\ playEps[playEp].use # 0
  BY <1>1, <1>2 DEF Life!Prepare, LifeInv
<1>3. CASE ~(playSetup /\ playEps[playEp].use # 0)
  <2> DEFINE e == IF playSetup THEN Life!Configured(playEp) ELSE playEps
             Eps == [PlayFormats -> LifeEp]
  <2>1. /\ playMade' = playMade + (IF playSetup THEN 1 ELSE 0)
        /\ playSetup' = FALSE /\ playState' = "PREPARED"
        /\ IF playStarted THEN playEps' = e /\ UNCHANGED <<playStarted, playFlying, playGhost>>
           ELSE IF playEps[playEp].use # 0
           THEN /\ playStarted' = TRUE /\ playEps' = [e EXCEPT ![playEp].use = @ + 1]
                /\ UNCHANGED <<playFlying, playGhost>>
           ELSE \E n \in 0 .. Life!Cardinality(PlayTrps) : Life!StartEp(playEp, e, n)
    BY <1>3 DEF Life!Prepare
  <2>2. /\ e \in Eps /\ playMade' \in Nat /\ playMade <= playMade'
        /\ \A g \in PlayFormats : e[g].made <= playMade'
        /\ playSetup => e[playEp].made = playMade + 1
    <3>1. CASE playSetup
      <4>1. playMade' = playMade + 1 /\ playMade \in Nat
        BY <3>1, <2>1 DEF LifeInv
      <4> DEFINE m == playMade + 1
                 r == [playEps[playEp] EXCEPT !.made = m]
      <4>2. e = [playEps EXCEPT ![playEp] = r]
        BY <3>1 DEF Life!Configured
      <4>3. m \in Nat /\ playMade <= m /\ playMade' = m
        BY <4>1
      <4>4. r \in LifeEp /\ r.made = m
        <5> HIDE DEF m
        <5>1. playEps[playEp] \in LifeEp
          BY <1>1 DEF LifeInv
        <5> QED BY <5>1, <4>3, LifeEpMadeAt
      <4> HIDE DEF r
      <4>5. /\ playEps \in [PlayFormats -> LifeEp]
            /\ \A g \in PlayFormats : playEps[g].made \in Nat /\ playEps[g].made <= playMade
        BY DEF LifeInv, LifeEp
      <4>6. e \in Eps /\ e[playEp] = r
            /\ \A g \in PlayFormats : g # playEp => e[g] = playEps[g]
        <5> DEFINE h == [playEps EXCEPT ![playEp] = r]
        <5>1. /\ h \in [PlayFormats -> LifeEp] /\ h[playEp] = r
              /\ \A g \in PlayFormats : g # playEp => h[g] = playEps[g]
          BY <1>1, <4>4, <4>5, LifeEpSet
        <5>2. e = h
          BY <4>2
        <5> HIDE DEF m, h, e
        <5> QED BY <4>4, <5>1, <5>2
      <4>8. e[playEp].made = m
        <5> HIDE DEF e, m
        <5> QED BY <4>4, <4>6
      <4>7. \A g \in PlayFormats : e[g].made <= playMade'
        <5> SUFFICES ASSUME NEW g \in PlayFormats PROVE e[g].made <= playMade'
          OBVIOUS
        <5>1. CASE g = playEp
          <6>1. e[g].made = m
            <7> HIDE DEF e, m
            <7> QED BY <4>4, <4>6, <5>1, <4>8
          <6> QED BY <6>1, <4>1, <4>3
        <5>2. CASE g # playEp
          <6>1. e[g].made = playEps[g].made /\ playEps[g].made \in Nat
                /\ playEps[g].made <= playMade
            <7> HIDE DEF e, m
            <7> QED BY <4>5, <4>6, <5>2
          <6> HIDE DEF e
          <6> QED BY <6>1, <4>1, <4>3
        <5> QED BY <5>1, <5>2
      <4> QED BY <3>1, <4>3, <4>6, <4>7, <4>8
    <3>2. CASE ~playSetup
      BY <3>2, <2>1 DEF LifeInv
    <3> QED BY <3>1, <3>2
  <2>3. \A t \in playFlying : t[2] \in Nat /\ t[2] <= playMade'
    <3>1. CASE playSetup
      <4>1. playMade' = playMade + 1 /\ playMade \in Nat
        BY <3>1, <2>1 DEF LifeInv
      <4>2. \A t \in playFlying : t[2] \in Nat /\ t[2] <= playMade
        BY <4>1 DEF LifeInv
      <4> QED BY <4>1, <4>2
    <3>2. CASE ~playSetup
      BY <3>2, <2>1 DEF LifeInv
    <3> QED BY <3>1, <3>2
  <2> HIDE DEF e
  <2>4. CASE playStarted
    BY <1>1, <2>1, <2>2, <2>3, <2>4 DEF LifeInv
  <2>5. CASE ~playStarted /\ playEps[playEp].use # 0
    <3>1. /\ playStarted' = TRUE /\ playEps' = [e EXCEPT ![playEp].use = @ + 1]
          /\ UNCHANGED <<playFlying, playGhost>>
      BY <2>1, <2>5
    <3> DEFINE u == e[playEp].use + 1
               r == [e[playEp] EXCEPT !.use = u]
    <3>3. e[playEp] \in LifeEp /\ u \in Int
      BY <2>2, <1>1 DEF LifeEp
    <3>4. r \in LifeEp /\ r.made = e[playEp].made
      <4> HIDE DEF u
      <4> QED BY <3>3, LifeEpUse
    <3>5. playEps' = [e EXCEPT ![playEp] = r]
      BY <3>1
    <3>2. playEps' \in Eps /\ \A g \in PlayFormats : playEps'[g].made = e[g].made
      <4> HIDE DEF r
      <4> QED BY <3>4, <3>5, <2>2, <1>1, LifeEpMade
    <3> QED BY <1>1, <2>1, <2>2, <2>3, <3>1, <3>2 DEF LifeInv
  <2>6. CASE ~playStarted /\ playEps[playEp].use = 0
    <3>1. PICK n \in 0 .. Life!Cardinality(PlayTrps) : Life!StartEp(playEp, e, n)
      BY <2>1, <2>6
    <3>2. "failed" \notin playGhost => \A t \in playFlying : t[2] # e[playEp].made
      <4> SUFFICES ASSUME "failed" \notin playGhost, NEW t \in playFlying
                   PROVE  t[2] # e[playEp].made
        OBVIOUS
      <4>1. playSetup
        BY <1>1, <2>6 DEF LifeInv
      <4>2. playMade \in Nat /\ t[2] <= playMade
        BY DEF LifeInv
      <4> QED BY <4>1, <4>2, <2>2
    <3>3. "failed" \notin playGhost => "twice" \notin playGhost
      BY DEF LifeInv
    <3>4. /\ playEps' \in Eps /\ \A g \in PlayFormats : playEps'[g].made <= playMade'
          /\ playStarted' \in BOOLEAN
          /\ \A t \in playFlying' : t[2] \in Nat /\ t[2] <= playMade'
          /\ "failed" \notin playGhost' => playStarted' /\ "twice" \notin playGhost'
      BY <1>1, <2>2, <2>3, <3>1, <3>2, <3>3, LifeStartEp
    <3> QED BY <1>1, <2>1, <2>2, <3>4 DEF LifeInv
  <2> QED BY <2>4, <2>5, <2>6
<1> QED BY <1>2, <1>3

LEMMA LifeStep ==
    ASSUME LifeParams, LifeInv, [Life!Next]_(Life!lifeVars)
    PROVE  LifeInv'
<1>1. CASE Life!Open \/ Life!Close \/ Life!ParamsRefused \/ Life!Start
  BY <1>1 DEF Life!Open, Life!Opened, Life!Close, Life!ParamsRefused, Life!Start, LifeInv
<1>2. CASE Life!ParamsSet
  <2>1. /\ playState \in {"OPEN", "SETUP", "PREPARED"}
        /\ UNCHANGED <<playStarted, playMade, playEps, playFlying, playGhost>>
    BY <1>2 DEF Life!ParamsSet
  <2>2. PICK f \in PlayFormats :
            \/ /\ playCur' = f /\ playEp' = (IF f = playCur THEN playEp ELSE f)
               /\ playSetup' = TRUE
            \/ playCur' = NoFormat /\ UNCHANGED <<playSetup, playState>>
    BY <1>2 DEF Life!ParamsSet, Life!FormatSet
  <2> QED BY <2>1, <2>2 DEF LifeInv, LifeParams
<1>3. CASE Life!Stop
  <2>1. /\ playState = "RUNNING" /\ playStarted' = FALSE
        /\ playEps' = (IF playEps[playEp].use = 0 THEN playEps
                       ELSE [playEps EXCEPT ![playEp].use = @ - 1])
        /\ UNCHANGED <<playState, playCur, playEp, playSetup, playMade, playFlying, playGhost>>
    BY <1>3 DEF Life!Stop
  <2>2. /\ playEps' \in [PlayFormats -> LifeEp]
        /\ \A g \in PlayFormats : playEps'[g].made = playEps[g].made
    <3>1. CASE playEp \in PlayFormats /\ playEps[playEp].use # 0
      <4> DEFINE u == playEps[playEp].use - 1
                 r == [playEps[playEp] EXCEPT !.use = u]
      <4>1. playEps[playEp] \in LifeEp /\ u \in Int
        BY <3>1 DEF LifeInv, LifeEp
      <4>2. r \in LifeEp /\ r.made = playEps[playEp].made
        <5> HIDE DEF u
        <5> QED BY <4>1, LifeEpUse
      <4>3. playEps' = [playEps EXCEPT ![playEp] = r]
        BY <2>1, <3>1
      <4> HIDE DEF r
      <4> QED BY <3>1, <4>2, <4>3, LifeEpMade DEF LifeInv
    <3>2. CASE playEp \notin PlayFormats \/ playEps[playEp].use = 0
      <4>1. playEps' = playEps
        BY <2>1, <3>2 DEF LifeInv
      <4> QED BY <4>1 DEF LifeInv
    <3> QED BY <3>1, <3>2
  <2> QED BY <2>1, <2>2 DEF LifeInv
<1>4. CASE Life!TrpDone
  <2>1. /\ playFlying' \subseteq playFlying
        /\ UNCHANGED <<playState, playCur, playEp, playSetup, playStarted, playMade, playEps,
                       playGhost>>
    BY <1>4 DEF Life!TrpDone
  <2> QED BY <2>1 DEF LifeInv
<1>5. CASE UNCHANGED Life!lifeVars
  BY <1>5 DEF Life!lifeVars, LifeInv
<1> QED BY <1>1, <1>2, <1>3, <1>4, <1>5, LifePrepares DEF Life!Next

\* For any formats and TRPs, no TRP is submitted while it is with the controller, unless a
\* start has failed half way.
THEOREM LifeTrpOnce ==
    ASSUME LifeParams
    PROVE  Life!Spec => []Life!TrpOnce
<1>1. LifeInv => Life!TrpOnce
  BY DEF LifeInv, Life!TrpOnce
<1> QED BY <1>1, LifeInit, LifeStep, PTL DEF Life!Spec
-----------------------------------------------------------------------------
(* UvcStream: a stream that has been stopped is quiet                      *)

\* A finite set with one element more, or one less.
LEMMA CardWith ==
    ASSUME NEW S, IsFiniteSet(S), NEW x
    PROVE  /\ IsFiniteSet(S \cup {x}) /\ Cardinality(S \cup {x}) \in Nat
           /\ Cardinality(S) \in Nat
           /\ Cardinality(S \cup {x}) <= Cardinality(S) + 1
<1>1. /\ IsFiniteSet(S \cup {x})
      /\ Cardinality(S \cup {x}) = IF x \in S THEN Cardinality(S) ELSE Cardinality(S) + 1
  BY FS_AddElement
<1>2. Cardinality(S) \in Nat /\ Cardinality(S \cup {x}) \in Nat
  BY <1>1, FS_CardinalityType
<1> QED BY <1>1, <1>2

LEMMA CardLess ==
    ASSUME NEW S, IsFiniteSet(S), NEW x \in S
    PROVE  /\ IsFiniteSet(S \ {x}) /\ Cardinality(S) \in Nat
           /\ Cardinality(S \ {x}) = Cardinality(S) - 1 /\ Cardinality(S) > 0
<1>1. IsFiniteSet(S \ {x}) /\ Cardinality(S \ {x}) = Cardinality(S) - 1
  BY FS_RemoveElement
<1>2. Cardinality(S) \in Nat /\ Cardinality(S \ {x}) \in Nat
  BY <1>1, FS_CardinalityType
<1> QED BY <1>1, <1>2

StreamParams == IsFiniteSet(CamTrps)

StreamOps == [call : {"none", "start", "resume", "stop", "close", "suspend"},
              at : {"idle", "submit", "cancel", "drain"}, next : Nat]

CamBusy == {t \in CamTrps : camTrp[t] \in {"hc", "wait"}}

\* n_trp_act counts the TRPs that the controller and the callbacks have at any time;
\* without a call, a stream that is frozen or not started has none.
StreamInv ==
    /\ camActs \in Nat /\ camFrozen \in BOOLEAN
    /\ camTrp \in [CamTrps -> {"none", "idle", "hc", "wait"}]
    /\ camOp \in StreamOps
    /\ Cardinality(CamBusy) <= camActs
    /\ camOp = Stream!Idle /\ (camSt # "START" \/ camFrozen) => CamBusy = {}

LEMMA StreamCard == \A S : Stream!Cardinality(S) = Cardinality(S)
BY DEF Stream!Cardinality, Cardinality, Stream!IsFiniteSet, IsFiniteSet

LEMMA StreamInit == StreamParams /\ Stream!Init => StreamInv
<1> SUFFICES ASSUME Stream!Init PROVE StreamInv
  OBVIOUS
<1>1. CamBusy = {}
  BY DEF Stream!Init, CamBusy
<1>2. Stream!Idle \in StreamOps
  BY DEF Stream!Idle, StreamOps
<1> QED BY <1>1, <1>2, FS_EmptySet DEF Stream!Init, StreamInv

\* The TRPs that are busy when one of them has changed.
LEMMA StreamTrp ==
    ASSUME StreamParams, StreamInv, NEW t \in CamTrps, NEW v \in {"idle", "hc", "wait"},
           camTrp' = [camTrp EXCEPT ![t] = v]
    PROVE  /\ camTrp' \in [CamTrps -> {"none", "idle", "hc", "wait"}]
           /\ v # "idle" => CamBusy' = CamBusy \cup {t}
           /\ v = "idle" => CamBusy' = CamBusy \ {t}
           /\ IsFiniteSet(CamBusy) /\ Cardinality(CamBusy) \in Nat
<1>1. /\ camTrp' \in [CamTrps -> {"none", "idle", "hc", "wait"}]
      /\ camTrp'[t] = v /\ \A u \in CamTrps : u # t => camTrp'[u] = camTrp[u]
  BY DEF StreamInv
<1>2. IsFiniteSet(CamBusy) /\ Cardinality(CamBusy) \in Nat
  BY FS_Subset, FS_CardinalityType DEF StreamParams, CamBusy
<1> QED BY <1>1, <1>2 DEF CamBusy

LEMMA StreamBegins ==
    ASSUME StreamInv, NEW c \in {"start", "resume", "stop", "close", "suspend"},
           NEW a \in {"submit", "cancel"}
    PROVE  /\ [call |-> c, at |-> a, next |-> 1] \in StreamOps
           /\ [call |-> c, at |-> a, next |-> 1] # Stream!Idle
BY DEF StreamOps, Stream!Idle

\* Where a call is when it goes on.
LEMMA StreamGoesOn ==
    ASSUME StreamInv, camOp.at # "idle"
    PROVE  /\ [camOp EXCEPT !.next = @ + 1] \in StreamOps
           /\ [camOp EXCEPT !.next = @ + 1] # Stream!Idle
           /\ [camOp EXCEPT !.at = "cancel", !.next = 1] \in StreamOps
           /\ [camOp EXCEPT !.at = "cancel", !.next = 1] # Stream!Idle
           /\ [camOp EXCEPT !.at = "drain"] \in StreamOps
           /\ [camOp EXCEPT !.at = "drain"] # Stream!Idle
<1>1. PICK c \in {"none", "start", "resume", "stop", "close", "suspend"},
           a \in {"submit", "cancel", "drain"}, n \in Nat :
           camOp = [call |-> c, at |-> a, next |-> n]
  BY DEF StreamInv, StreamOps
<1>2. [camOp EXCEPT !.next = @ + 1] = [call |-> c, at |-> a, next |-> n + 1]
  BY <1>1
<1>3. /\ [camOp EXCEPT !.at = "cancel", !.next = 1] \in StreamOps
      /\ [camOp EXCEPT !.at = "cancel", !.next = 1].at = "cancel"
  BY DEF StreamInv, StreamOps
<1>4. [camOp EXCEPT !.at = "drain"] = [call |-> c, at |-> "drain", next |-> n]
  BY <1>1
<1>5. /\ [call |-> c, at |-> a, next |-> n + 1] \in StreamOps
      /\ [call |-> c, at |-> a, next |-> n + 1] # Stream!Idle
  BY DEF StreamOps, Stream!Idle
<1>6. [camOp EXCEPT !.at = "cancel", !.next = 1] # Stream!Idle
  BY <1>3 DEF Stream!Idle
<1>7. /\ [call |-> c, at |-> "drain", next |-> n] \in StreamOps
      /\ [call |-> c, at |-> "drain", next |-> n] # Stream!Idle
  BY DEF StreamOps, Stream!Idle
<1> QED BY <1>2, <1>3, <1>4, <1>5, <1>6, <1>7

\* The TRPs that are made anew are not busy.
LEMMA StreamFresh ==
    ASSUME camTrp' = [t \in CamTrps |-> "idle"]
    PROVE  /\ camTrp' \in [CamTrps -> {"none", "idle", "hc", "wait"}]
           /\ CamBusy' = {} /\ Cardinality(CamBusy') = 0
BY FS_EmptySet DEF CamBusy

LEMMA StreamStarts ==
    ASSUME StreamParams, StreamInv, Stream!Start \/ Stream!Resume
    PROVE  StreamInv'
<1>1. camOp = Stream!Idle /\ camSt # "START" /\ CamBusy = {} /\ Cardinality(CamBusy) = 0
  BY FS_EmptySet DEF Stream!Start, Stream!Resume, StreamInv
<1>2. ASSUME NEW c \in {"start", "resume"}, Stream!VideoQueued(c), camFrozen' \in BOOLEAN
      PROVE  StreamInv'
  <2>1. camActs' = 0 /\ camOp' = [call |-> c, at |-> "submit", next |-> 1]
        /\ camTrp' = [t \in CamTrps |-> "idle"]
    BY <1>2 DEF Stream!VideoQueued
  <2>2. camOp' \in StreamOps /\ camOp' # Stream!Idle
    BY <2>1, StreamBegins
  <2>3. /\ camTrp' \in [CamTrps -> {"none", "idle", "hc", "wait"}]
        /\ CamBusy' = {} /\ Cardinality(CamBusy') = 0
    BY <2>1, StreamFresh
  <2> QED BY <1>2, <2>1, <2>2, <2>3 DEF StreamInv, Stream!Idle
<1>3. ASSUME Stream!VideoStart, camFrozen' \in BOOLEAN
      PROVE  StreamInv'
  <2>1. camActs' = camActs /\ camOp' = camOp
        /\ (camTrp' = camTrp \/ camTrp' = [t \in CamTrps |-> "idle"])
    BY <1>3 DEF Stream!VideoStart
  <2>2. /\ camTrp' \in [CamTrps -> {"none", "idle", "hc", "wait"}]
        /\ CamBusy' = {} /\ Cardinality(CamBusy') = 0
    BY <2>1, <1>1, StreamFresh DEF StreamInv, CamBusy
  <2> QED BY <1>3, <2>1, <2>2 DEF StreamInv, Stream!Idle
<1>4. CASE Stream!Start
  BY <1>4, <1>2, <1>3 DEF Stream!Start, StreamInv
<1>5. CASE Stream!Resume /\ camFrozen
  BY <1>5, <1>2, <1>3 DEF Stream!Resume
<1>6. CASE Stream!Resume /\ ~camFrozen
  BY <1>6, <1>1 DEF Stream!Resume, StreamInv, CamBusy, Stream!Idle
<1> QED BY <1>4, <1>5, <1>6 DEF StreamInv

LEMMA StreamFreed ==
    ASSUME StreamParams, StreamInv, Stream!Drained
    PROVE  StreamInv'
<1>1. /\ camActs = 0 /\ camActs' = 0 /\ camFrozen' = camFrozen /\ camOp' = Stream!Idle
      /\ camTrp' = [t \in CamTrps |-> IF t \in Stream!Busy THEN camTrp[t] ELSE "none"]
  BY DEF Stream!Drained, Stream!Freed
<1>2. IsFiniteSet(CamBusy) /\ CamBusy = Stream!Busy
  BY FS_Subset DEF StreamParams, CamBusy, Stream!Busy
<1>3. CamBusy = {}
  BY <1>1, <1>2, FS_EmptySet, FS_CardinalityType DEF StreamInv
<1>4. /\ CamBusy' = {} /\ Cardinality(CamBusy') = 0
      /\ camTrp' \in [CamTrps -> {"none", "idle", "hc", "wait"}]
  BY <1>1, <1>2, <1>3, FS_EmptySet DEF CamBusy
<1>5. Stream!Idle \in StreamOps
  BY DEF Stream!Idle, StreamOps
<1> QED BY <1>1, <1>4, <1>5 DEF StreamInv, Stream!Idle

LEMMA StreamDone ==
    ASSUME StreamParams, StreamInv, NEW t \in CamTrps,
           Stream!Complete(t) \/ Stream!Resubmit(t) \/ Stream!LockTimeout(t)
    PROVE  StreamInv'
<1>1. /\ UNCHANGED <<camOp, camSt, camFrozen>> /\ t \in CamBusy
      /\ \/ camTrp' = [camTrp EXCEPT ![t] = "idle"] /\ camActs' \in {camActs, camActs - 1}
         \/ camTrp' = [camTrp EXCEPT ![t] = "wait"] /\ camActs' = camActs
         \/ camTrp' = [camTrp EXCEPT ![t] = "hc"] /\ camActs' = camActs
  BY DEF Stream!Complete, Stream!Resubmit, Stream!LockTimeout, CamBusy
<1>2. CASE camTrp' = [camTrp EXCEPT ![t] = "idle"] /\ camActs' \in {camActs, camActs - 1}
  <2>1. /\ camTrp' \in [CamTrps -> {"none", "idle", "hc", "wait"}] /\ CamBusy' = CamBusy \ {t}
        /\ IsFiniteSet(CamBusy)
    BY <1>2, StreamTrp
  <2>2. /\ Cardinality(CamBusy') = Cardinality(CamBusy) - 1 /\ Cardinality(CamBusy) \in Nat
        /\ Cardinality(CamBusy) > 0
    BY <2>1, <1>1, CardLess
  <2>3. camActs' \in Nat /\ Cardinality(CamBusy') <= camActs'
    BY <1>2, <2>2 DEF StreamInv
  <2> QED BY <1>1, <2>1, <2>3 DEF StreamInv, Stream!Idle
<1>3. CASE (camTrp' = [camTrp EXCEPT ![t] = "wait"] \/ camTrp' = [camTrp EXCEPT ![t] = "hc"])
           /\ camActs' = camActs
  <2>1. /\ camTrp' \in [CamTrps -> {"none", "idle", "hc", "wait"}] /\ CamBusy' = CamBusy
    BY <1>1, <1>3, StreamTrp
  <2> QED BY <1>1, <1>3, <2>1 DEF StreamInv, Stream!Idle
<1> QED BY <1>1, <1>2, <1>3

LEMMA StreamSubmits ==
    ASSUME StreamParams, StreamInv, Stream!Submit
    PROVE  StreamInv'
<1>1. /\ camOp.at = "submit" /\ camOp.next \in CamTrps /\ UNCHANGED <<camSt, camFrozen>>
      /\ \/ /\ camTrp' = [camTrp EXCEPT ![camOp.next] = "hc"] /\ camActs' = camActs + 1
            /\ camOp' = [camOp EXCEPT !.next = @ + 1]
         \/ /\ camOp' = [camOp EXCEPT !.at = "cancel", !.next = 1]
            /\ UNCHANGED <<camTrp, camActs>>
  BY DEF Stream!Submit
<1>2. camOp' \in StreamOps /\ camOp' # Stream!Idle
  BY <1>1, StreamGoesOn
<1>3. CASE UNCHANGED <<camTrp, camActs>>
  BY <1>1, <1>2, <1>3 DEF StreamInv, CamBusy, Stream!Idle
<1>4. CASE camTrp' = [camTrp EXCEPT ![camOp.next] = "hc"] /\ camActs' = camActs + 1
  <2> DEFINE n == camOp.next
  <2>1. /\ camTrp' \in [CamTrps -> {"none", "idle", "hc", "wait"}] /\ CamBusy' = CamBusy \cup {n}
        /\ IsFiniteSet(CamBusy)
    BY <1>4, <1>1, StreamTrp
  <2>2. Cardinality(CamBusy') \in Nat /\ Cardinality(CamBusy) \in Nat
        /\ Cardinality(CamBusy') <= Cardinality(CamBusy) + 1
    BY <2>1, CardWith
  <2>3. camActs' \in Nat /\ Cardinality(CamBusy') <= camActs'
    BY <1>4, <2>2 DEF StreamInv
  <2> QED BY <1>1, <1>2, <2>1, <2>3 DEF StreamInv, Stream!Idle
<1> QED BY <1>1, <1>3, <1>4

LEMMA StreamStep ==
    ASSUME StreamParams, StreamInv, [Stream!Next]_(Stream!streamVars)
    PROVE  StreamInv'
<1>1. CASE Stream!Open \/ Stream!CfgSet \/ Stream!Remove \/ Stream!OtherStream
  BY <1>1 DEF Stream!Open, Stream!CfgSet, Stream!Remove, Stream!OtherStream, StreamInv, CamBusy,
              Stream!Idle
<1>2. CASE Stream!Started
  <2>1. Stream!Idle \in StreamOps
    BY DEF Stream!Idle, StreamOps
  <2>2. /\ camSt' = "START" /\ camFrozen' = FALSE /\ camOp' = Stream!Idle
        /\ UNCHANGED <<camActs, camTrp>>
    BY <1>2 DEF Stream!Started
  <2>3. CamBusy' = CamBusy
    BY <2>2 DEF CamBusy
  <2> QED BY <2>1, <2>2, <2>3 DEF StreamInv, Stream!Idle
<1>3. ASSUME NEW c \in {"stop", "close", "suspend"}, Stream!Begin(c), camFrozen' \in BOOLEAN
      PROVE  StreamInv'
  <2>1. /\ camOp' = [call |-> c, at |-> "cancel", next |-> 1]
        /\ UNCHANGED <<camActs, camTrp, camSt>>
    BY <1>3 DEF Stream!Begin
  <2>2. camOp' \in StreamOps /\ camOp' # Stream!Idle
    BY <2>1, StreamBegins
  <2>3. CamBusy' = CamBusy
    BY <2>1 DEF CamBusy
  <2> QED BY <1>3, <2>1, <2>2, <2>3 DEF StreamInv, Stream!Idle
<1>4. CASE Stream!Stop
  BY <1>4, <1>3 DEF Stream!Stop, StreamInv
<1>5. CASE Stream!Close
  <2>1. CASE Stream!Begin("close") /\ UNCHANGED camFrozen
    BY <2>1, <1>3 DEF StreamInv
  <2>2. CASE ~(camSt \in {"START", "SUSPEND"} /\ camOpen = 1)
    <3>1. /\ camSt' = (IF camOpen = 1 THEN "CLOSE" ELSE camSt)
          /\ UNCHANGED <<camFrozen, camActs, camTrp, camOp>>
      BY <1>5, <2>2 DEF Stream!Close
    <3>2. CamBusy' = CamBusy
      BY <3>1 DEF CamBusy
    <3>3. camSt' = camSt \/ camSt # "START"
      BY <2>2, <3>1
    <3> QED BY <3>1, <3>2, <3>3 DEF StreamInv, Stream!Idle
  <2> QED BY <1>5, <2>1, <2>2 DEF Stream!Close
<1>6. CASE Stream!Suspend
  <2>1. CASE Stream!Begin("suspend") /\ camFrozen' = TRUE
    BY <2>1, <1>3
  <2>2. CASE camFrozen
    BY <1>6, <2>2 DEF Stream!Suspend, StreamInv, CamBusy, Stream!Idle
  <2> QED BY <1>6, <2>1, <2>2 DEF Stream!Suspend, StreamInv
<1>7. CASE Stream!Cancel \/ Stream!CancelEnd
  <2>1. /\ camOp.at = "cancel" /\ UNCHANGED <<camSt, camFrozen, camActs, camTrp>>
        /\ \/ camOp' = [camOp EXCEPT !.next = @ + 1]
           \/ camOp' = [camOp EXCEPT !.at = "drain"]
    BY <1>7 DEF Stream!Cancel, Stream!CancelEnd
  <2>2. camOp' \in StreamOps /\ camOp' # Stream!Idle
    BY <2>1, StreamGoesOn
  <2>3. CamBusy' = CamBusy
    BY <2>1 DEF CamBusy
  <2> QED BY <2>1, <2>2, <2>3 DEF StreamInv, Stream!Idle
<1>8. CASE UNCHANGED Stream!streamVars
  BY <1>8 DEF Stream!streamVars, StreamInv, CamBusy, Stream!Idle
<1> QED BY <1>1, <1>2, <1>4, <1>5, <1>6, <1>7, <1>8, StreamStarts, StreamFreed, StreamDone,
           StreamSubmits DEF Stream!Next

LEMMA StreamQuiet == StreamInv => Stream!StoppedQuiet
<1>1. CamBusy = Stream!Busy
  BY DEF CamBusy, Stream!Busy
<1> QED BY <1>1, StreamCard DEF StreamInv, Stream!StoppedQuiet

\* For any TRPs: the controller and the callbacks have none that n_trp_act does not count,
\* so that none is freed under them, and none of a stream that is not streaming.
THEOREM StreamStoppedQuiet ==
    ASSUME StreamParams
    PROVE  Stream!Spec => []Stream!StoppedQuiet
<1> QED BY StreamInit, StreamStep, StreamQuiet, PTL DEF Stream!Spec
-----------------------------------------------------------------------------
(* UvcDecode: a frame that is done is whole                                *)

VidParams == FrameLen \in Nat \ {0}

VidRecs == [state : {"IDLE", "QUEUED", "ACTIVE", "DONE"}, data : SUBSET Nat,
            error : BOOLEAN, used : BOOLEAN]

OneFrame(d) == \A p, r \in d : Decode!FrameOf(p) = Decode!FrameOf(r)

\* A buffer that is done has one frame, one that waits has nothing.
VidWhole(r) ==
    /\ r.state = "DONE" => OneFrame(r.data) /\ (vidCompressed \/ Decode!Cardinality(r.data) = FrameLen)
    /\ r.state \in {"IDLE", "QUEUED"} => r.data = {}

\* A buffer that is being filled without an error has packets of one frame, the last of
\* them numbered n - 1 and not the end of it.
VidFilling(r, l, n) ==
    r.state = "ACTIVE" /\ ~r.error =>
        \E q \in r.data : /\ q + 1 = n /\ ~Decode!Eof(q) /\ l = Decode!Fid(q)
                          /\ \A p \in r.data : Decode!FrameOf(p) = Decode!FrameOf(q)

VidQueueOK(q) == q \in Seq(1 .. 3) /\ Len(q) = 3 /\ q[1] \in 1 .. 3

\* Behind the head of the queue, a buffer is being filled only if a user holds it.
VidIdle(q, B) == \A b \in 1 .. 3 : b # q[1] /\ ~B[b].used => B[b].state # "ACTIVE"

VidCore(q, B) ==
    /\ VidQueueOK(q) /\ B \in [1 .. 3 -> VidRecs]
    /\ \A b \in 1 .. 3 : VidWhole(B[b])
    /\ VidIdle(q, B)

VidInv ==
    /\ VidCore(vidQueue, vidBuf)
    /\ vidCur \in 0 .. 4 /\ vidTmp \in 0 .. 3 /\ vidSent \in Nat /\ vidGap \in 0 .. FrameLen
    /\ vidCur \in 1 .. 3 => vidCur = vidQueue[1] /\ vidBuf[vidCur].state # "DONE"
    /\ vidCur = 4 => \A b \in 1 .. 3 : vidBuf[b].used
    /\ vidCur = vidQueue[1] \/ (vidCur = 0 /\ ~vidBuf[vidQueue[1]].used) =>
           VidFilling(vidBuf[vidQueue[1]], vidFid, vidSent - vidGap)

\* A queue that a buffer was moved in.
LEMMA VidMoved ==
    ASSUME NEW q, VidQueueOK(q), NEW b \in 1 .. 3, \E j \in 1 .. 3 : q[j] = b
    PROVE  VidQueueOK(Decode!MoveTail(q, b))
<1> DEFINE i == CHOOSE j \in Decode!Bufs : q[j] = b
<1>1. i \in 1 .. 3
  BY DEF Decode!Bufs
<1>2. Decode!MoveTail(q, b) = SubSeq(q, 1, i - 1) \o SubSeq(q, i + 1, 3) \o <<b>>
  BY DEF Decode!MoveTail
<1> HIDE DEF i
<1>3. ASSUME NEW m \in 1 .. 3
      PROVE  VidQueueOK(SubSeq(q, 1, m - 1) \o SubSeq(q, m + 1, 3) \o <<b>>)
  <2> DEFINE T == 1 .. 3
             u == SubSeq(q, 1, m - 1)
             v == SubSeq(q, m + 1, 3)
             r == u \o v \o <<b>>
  <2>0. q \in Seq(T) /\ Len(q) = 3
    BY DEF VidQueueOK
  <2>1. \A x \in Seq(T), k \in 1 .. 4, n \in 0 .. 3 :
            Len(x) = 3 /\ k <= n + 1 =>
                SubSeq(x, k, n) \in Seq(T) /\ Len(SubSeq(x, k, n)) = n + 1 - k
    <3> SUFFICES ASSUME NEW x \in Seq(T), NEW k \in 1 .. 4, NEW n \in 0 .. 3,
                        Len(x) = 3, k <= n + 1
                 PROVE  SubSeq(x, k, n) \in Seq(T) /\ Len(SubSeq(x, k, n)) = n + 1 - k
      OBVIOUS
    <3> HIDE DEF T
    <3>1. \A e \in k .. n : x[e] \in T
      OBVIOUS
    <3>2. SubSeq(x, k, n) \in Seq(T) /\ Len(SubSeq(x, k, n)) = IF k <= n THEN n - k + 1 ELSE 0
      BY <3>1, SubSeqProperties
    <3> QED BY <3>2
  <2>3. u \in Seq(T) /\ Len(u) = m - 1 /\ v \in Seq(T) /\ Len(v) = 3 - m
    <3>1. m - 1 \in 0 .. 3 /\ m + 1 \in 1 .. 4
      OBVIOUS
    <3> HIDE DEF T
    <3> QED BY <2>0, <2>1, <3>1
  <2>4. <<b>> \in Seq(T) /\ Len(<<b>>) = 1
    OBVIOUS
  <2>2. r \in Seq(T) /\ Len(r) = 3
    <3>1. \A x, y, z \in Seq(T) :
              x \o y \o z \in Seq(T) /\ Len(x \o y \o z) = Len(x) + Len(y) + Len(z)
      <4> HIDE DEF T
      <4> QED OBVIOUS
    <3>2. r \in Seq(T) /\ Len(r) = (m - 1) + (3 - m) + 1
      <4> HIDE DEF T, u, v
      <4> QED BY <3>1, <2>3, <2>4
    <3> QED BY <3>2
  <2> HIDE DEF r
  <2>5. r[1] \in T
    <3> HIDE DEF T
    <3>1. \A x \in Seq(T) : Len(x) = 3 => x[1] \in T
      OBVIOUS
    <3> QED BY <2>2, <3>1
  <2> QED BY <2>2, <2>5 DEF r, VidQueueOK
<1> QED BY <1>1, <1>2, <1>3

LEMMA VidFresh ==
    ASSUME NEW r \in VidRecs
    PROVE  /\ Decode!Fresh(r) \in VidRecs /\ VidWhole(Decode!Fresh(r))
           /\ Decode!Fresh(r).state = "QUEUED" /\ Decode!Fresh(r).data = {}
           /\ Decode!Fresh(r).used = r.used
<1>1. /\ Decode!Fresh(r) \in VidRecs /\ Decode!Fresh(r).state = "QUEUED"
      /\ Decode!Fresh(r).data = {} /\ Decode!Fresh(r).used = r.used
  BY DEF Decode!Fresh, VidRecs
<1> QED BY <1>1 DEF VidWhole

\* One buffer of all is another.
LEMMA VidSet ==
    ASSUME NEW B \in [1 .. 3 -> VidRecs], NEW b \in 1 .. 3, NEW r \in VidRecs
    PROVE  /\ [B EXCEPT ![b] = r] \in [1 .. 3 -> VidRecs]
           /\ [B EXCEPT ![b] = r][b] = r
           /\ \A c \in 1 .. 3 : c # b => [B EXCEPT ![b] = r][c] = B[c]
OBVIOUS

VidDecoder(q, B, h, l) == [queue |-> q, buf |-> B, cur |-> h, last |-> l]

\* What __vc_queue_next_buffer leaves: a fresh buffer at the head.
VidReady(n, l) ==
    \E q, B : /\ n = VidDecoder(q, B, q[1], l) /\ VidCore(q, B)
              /\ B[q[1]].state = "QUEUED" /\ B[q[1]].data = {}

LEMMA VidNext ==
    ASSUME NEW q, VidQueueOK(q), NEW B \in [1 .. 3 -> VidRecs], NEW l,
           \A b \in 1 .. 3 : b # q[1] => VidWhole(B[b]),
           VidIdle(q, B), B[q[1]].error \/ OneFrame(B[q[1]].data)
    PROVE  VidReady(Decode!NextBuffer(VidDecoder(q, B, q[1], l)), l)
<1> DEFINE h == q[1]
           f == Decode!Fresh(B[h])
           s == VidDecoder(q, B, h, l)
<1>1. h \in 1 .. 3 /\ B[h] \in VidRecs
  BY DEF VidQueueOK
<1>2. /\ s.queue = q /\ s.buf = B /\ s.cur = h /\ s.last = l
  BY DEF VidDecoder
<1>3. CASE Decode!Invalid(B[h])
  <2> DEFINE C == [B EXCEPT ![h] = f]
  <2>1. f \in VidRecs /\ VidWhole(f) /\ f.state = "QUEUED" /\ f.data = {}
    BY <1>1, VidFresh
  <2>2. Decode!NextBuffer(s) = [s EXCEPT !.buf[s.cur] = Decode!Fresh(s.buf[s.cur])]
    BY <1>2, <1>3 DEF Decode!NextBuffer
  <2>3. Decode!NextBuffer(s) = VidDecoder(q, C, h, l)
    BY <2>2, <1>2 DEF VidDecoder
  <2>4. C \in [1 .. 3 -> VidRecs] /\ C[h] = f /\ \A b \in 1 .. 3 : b # h => C[b] = B[b]
    <3> HIDE DEF f
    <3> QED BY <1>1, <2>1, VidSet
  <2> HIDE DEF C, f
  <2>5. VidCore(q, C)
    <3>1. \A b \in 1 .. 3 : VidWhole(C[b])
      BY <2>1, <2>4
    <3>2. VidIdle(q, C)
      BY <2>4 DEF VidIdle
    <3> QED BY <2>4, <3>1, <3>2 DEF VidCore
  <2> QED BY <2>1, <2>3, <2>4, <2>5 DEF VidReady
<1>4. CASE ~Decode!Invalid(B[h])
  <2> DEFINE d == [B[h] EXCEPT !.state = "DONE"]
             C == [B EXCEPT ![h] = d]
             q1 == Decode!MoveTail(q, h)
             g == Decode!Fresh(C[q1[1]])
             E == [C EXCEPT ![q1[1]] = g]
  <2>1. VidQueueOK(q1) /\ q1[1] \in 1 .. 3 /\ Head(q1) = q1[1]
    <3>1. VidQueueOK(q1)
      BY <1>1, VidMoved
    <3> HIDE DEF q1
    <3> QED BY <3>1 DEF VidQueueOK
  <2>2. d \in VidRecs /\ d.state = "DONE" /\ d.data = B[h].data
    BY <1>1 DEF VidRecs
  <2>3. VidWhole(d)
    <3>1. OneFrame(B[h].data) /\ (vidCompressed \/ Decode!Cardinality(B[h].data) = FrameLen)
      BY <1>4 DEF Decode!Invalid
    <3> HIDE DEF d
    <3> QED BY <2>2, <3>1 DEF VidWhole
  <2>4. C \in [1 .. 3 -> VidRecs] /\ C[h] = d /\ \A b \in 1 .. 3 : b # h => C[b] = B[b]
    <3> HIDE DEF d
    <3> QED BY <1>1, <2>2, VidSet
  <2>5. Decode!NextBuffer(s) = VidDecoder(q1, E, q1[1], l)
    <3>1. Decode!NextBuffer(s)
          = [s EXCEPT !.queue = q1, !.cur = Head(q1),
                      !.buf = [C EXCEPT ![Head(q1)] = Decode!Fresh(C[Head(q1)])]]
      BY <1>2, <1>4 DEF Decode!NextBuffer
    <3> HIDE DEF q1, C
    <3> QED BY <3>1, <2>1, <1>2 DEF VidDecoder
  <2> HIDE DEF C, d, q1
  <2>6. C[q1[1]] \in VidRecs /\ g \in VidRecs /\ VidWhole(g) /\ g.state = "QUEUED" /\ g.data = {}
    BY <2>1, <2>4, VidFresh
  <2> HIDE DEF g
  <2>7. E \in [1 .. 3 -> VidRecs] /\ E[q1[1]] = g /\ \A b \in 1 .. 3 : b # q1[1] => E[b] = C[b]
    BY <2>1, <2>4, <2>6, VidSet
  <2> HIDE DEF E
  <2>8. VidCore(q1, E)
    <3>1. \A b \in 1 .. 3 : VidWhole(E[b])
      BY <2>3, <2>4, <2>6, <2>7
    <3>2. VidIdle(q1, E)
      <4> SUFFICES ASSUME NEW b \in 1 .. 3, b # q1[1], ~E[b].used PROVE E[b].state # "ACTIVE"
        BY DEF VidIdle
      <4>1. E[b] = C[b]
        BY <2>7
      <4>2. CASE b = h
        BY <4>1, <4>2, <2>2, <2>4
      <4>3. CASE b # h
        BY <4>1, <4>3, <2>4 DEF VidIdle
      <4> QED BY <4>2, <4>3
    <3> QED BY <2>1, <2>7, <3>1, <3>2 DEF VidCore
  <2> QED BY <2>5, <2>6, <2>7, <2>8 DEF VidReady
<1> QED BY <1>3, <1>4

\* The numbers of the packets.
LEMMA VidFrames ==
    ASSUME VidParams, NEW q \in Nat, NEW g \in 0 .. FrameLen, ~Decode!Eof(q),
           Decode!Fid(q + 1 + g) = Decode!Fid(q)
    PROVE  Decode!FrameOf(q + 1 + g) = Decode!FrameOf(q)
<1> DEFINE P == FrameLen
           a == q \div P
           b == (q + 1 + g) \div P
           c == q % P
           d == (q + 1 + g) % P
<1>1. /\ P \in Nat /\ P > 0 /\ a \in Nat /\ b \in Nat /\ c \in 0 .. P - 1 /\ d \in 0 .. P - 1
      /\ q = P * a + c /\ q + 1 + g = P * b + d
  BY DEF VidParams
<1>2. c # P - 1 /\ a % 2 = b % 2
  BY DEF Decode!Eof, Decode!Fid, Decode!FrameOf
<1> HIDE DEF P, a, b, c, d
<1>3. b >= a
  <2> SUFFICES ASSUME b <= a - 1 PROVE FALSE
    BY <1>1
  <2>1. P * b <= P * (a - 1)
    BY <1>1
  <2>2. P * (a - 1) = P * a - P
    BY <1>1
  <2> QED BY <1>1, <2>1, <2>2
<1>4. b <= a + 1
  <2> SUFFICES ASSUME b >= a + 2 PROVE FALSE
    BY <1>1
  <2>1. P * b >= P * (a + 2)
    BY <1>1
  <2>2. P * (a + 2) = P * a + 2 * P
    BY <1>1
  <2>3. g <= P
    BY DEF P
  <2> QED BY <1>1, <1>2, <2>1, <2>2, <2>3
<1>5. b = a \/ b = a + 1
  BY <1>1, <1>3, <1>4
<1>6. b = a
  BY <1>1, <1>2, <1>5
<1> QED BY <1>6 DEF a, b, P, Decode!FrameOf

\* A decoder that goes on: what Packet leaves.
VidGoes(n, l, p) ==
    \E q, B, m : /\ n = VidDecoder(q, B, q[1], m) /\ VidCore(q, B)
                 /\ B[q[1]].state \in {"IDLE", "QUEUED", "ACTIVE"}
                 /\ VidFilling(B[q[1]], m, p + 1)

LEMMA VidFilled ==
    ASSUME VidParams, NEW q, NEW B, NEW l, NEW p \in Nat, VidCore(q, B),
           B[q[1]].state \in {"IDLE", "QUEUED", "ACTIVE"},
           B[q[1]].error \/ \A r \in B[q[1]].data : Decode!FrameOf(r) = Decode!FrameOf(p)
    PROVE  VidGoes(Decode!Filled(VidDecoder(q, B, q[1], l), p), l, p)
<1> DEFINE h == q[1]
           b == B[h]
           full == Decode!Cardinality(b.data) = FrameLen
           dat == IF full THEN b.data ELSE b.data \cup {p}
           a == [b EXCEPT !.state = "ACTIVE", !.data = dat]
           C == [B EXCEPT ![h] = a]
           f == Decode!Fid(p)
           t == VidDecoder(q, C, h, f)
           s == VidDecoder(q, B, h, l)
<1>1. h \in 1 .. 3 /\ b \in VidRecs /\ VidQueueOK(q) /\ B \in [1 .. 3 -> VidRecs]
  BY DEF VidQueueOK, VidCore
<1>2. /\ s.queue = q /\ s.buf = B /\ s.cur = h /\ s.last = l
  BY DEF VidDecoder
<1>3. dat \subseteq Nat /\ (dat = b.data \/ dat = b.data \cup {p})
      /\ (~full => p \in dat)
  BY <1>1 DEF VidRecs
<1>4. a \in VidRecs /\ a.state = "ACTIVE" /\ a.data = dat /\ a.error = b.error
      /\ a.used = b.used
  <2> HIDE DEF dat
  <2> QED BY <1>1, <1>3 DEF VidRecs
<1>5. Decode!Filled(s, p) = IF full \/ Decode!Eof(p) THEN Decode!NextBuffer(t) ELSE t
  <2>1. [s EXCEPT !.last = f, !.buf[s.cur] = [b EXCEPT !.state = "ACTIVE", !.data = dat]] = t
    <3>1. [s EXCEPT !.last = f, !.buf[s.cur] = a] = [s EXCEPT !.last = f, !.buf = C]
      <4> HIDE DEF s, f, a
      <4> QED BY <1>2
    <3>2. [s EXCEPT !.last = f, !.buf = C] = t
      <4>1. s = VidDecoder(q, B, h, l) /\ t = VidDecoder(q, C, h, f)
        OBVIOUS
      <4>2. [VidDecoder(q, B, h, l) EXCEPT !.last = f, !.buf = C] = VidDecoder(q, C, h, f)
        <5> HIDE DEF h, f, C
        <5>1. [VidDecoder(q, B, h, l) EXCEPT !.last = f] = VidDecoder(q, B, h, f)
          BY DEF VidDecoder
        <5>2. [VidDecoder(q, B, h, f) EXCEPT !.buf = C] = VidDecoder(q, C, h, f)
          BY DEF VidDecoder
        <5> QED BY <5>1, <5>2
      <4> HIDE DEF s, t, h, f, C
      <4> QED BY <4>1, <4>2
    <3> QED BY <3>1, <3>2
  <2> QED BY <2>1, <1>2 DEF Decode!Filled
<1>6. C \in [1 .. 3 -> VidRecs] /\ C[h] = a /\ \A c \in 1 .. 3 : c # h => C[c] = B[c]
  <2> HIDE DEF a
  <2> QED BY <1>1, <1>4, VidSet
<1>7. a.error \/ \A r \in a.data : Decode!FrameOf(r) = Decode!FrameOf(p)
  <2> HIDE DEF a, dat
  <2> QED BY <1>3, <1>4
<1> HIDE DEF C, a, dat
<1>8. VidIdle(q, C)
  BY <1>6 DEF VidIdle, VidCore
<1>9. \A c \in 1 .. 3 : c # h => VidWhole(C[c])
  BY <1>6 DEF VidCore
<1>10. CASE full \/ Decode!Eof(p)
  <2>1. C[h].error \/ OneFrame(C[h].data)
    BY <1>6, <1>7 DEF OneFrame
  <2>2. VidReady(Decode!NextBuffer(t), f)
    BY <1>1, <1>6, <1>8, <1>9, <2>1, VidNext
  <2>3. Decode!Filled(s, p) = Decode!NextBuffer(t)
    BY <1>5, <1>10
  <2>4. PICK r, E : /\ Decode!NextBuffer(t) = VidDecoder(r, E, r[1], f) /\ VidCore(r, E)
                    /\ E[r[1]].state = "QUEUED"
    BY <2>2 DEF VidReady
  <2>5. VidFilling(E[r[1]], f, p + 1)
    BY <2>4 DEF VidFilling
  <2> HIDE DEF f, t, s, h
  <2> QED BY <2>3, <2>4, <2>5 DEF VidGoes, s, h
<1>11. CASE ~(full \/ Decode!Eof(p))
  <2>1. Decode!Filled(s, p) = t
    BY <1>5, <1>11
  <2>2. VidWhole(a)
    BY <1>4 DEF VidWhole
  <2>3. VidCore(q, C)
    <3>1. \A c \in 1 .. 3 : VidWhole(C[c])
      BY <1>6, <1>9, <2>2
    <3> QED BY <1>1, <1>6, <1>8, <3>1 DEF VidCore
  <2>4. VidFilling(C[h], f, p + 1)
    <3>1. p \in a.data
      BY <1>3, <1>4, <1>11
    <3> QED BY <3>1, <1>6, <1>7, <1>11 DEF VidFilling
  <2>5. C[h].state = "ACTIVE"
    BY <1>4, <1>6
  <2> QED BY <2>1, <2>3, <2>4, <2>5 DEF VidGoes
<1> QED BY <1>10, <1>11

LEMMA VidDecoded ==
    ASSUME VidParams, NEW q, NEW B, NEW l, NEW p \in Nat, NEW g \in 0 .. FrameLen,
           VidCore(q, B), B[q[1]].state # "DONE", VidFilling(B[q[1]], l, p - g)
    PROVE  VidGoes(Decode!Decoded(VidDecoder(q, B, q[1], l), p), l, p)
<1> DEFINE h == q[1]
           s == VidDecoder(q, B, h, l)
           t == Decode!Flushed(s, p)
<1>1. h \in 1 .. 3 /\ B[h] \in VidRecs /\ VidQueueOK(q) /\ B \in [1 .. 3 -> VidRecs]
      /\ B[h].state \in {"IDLE", "QUEUED", "ACTIVE"} /\ VidWhole(B[h]) /\ VidIdle(q, B)
      /\ \A b \in 1 .. 3 : VidWhole(B[b])
  BY DEF VidQueueOK, VidCore, VidRecs
<1>2. /\ s.queue = q /\ s.buf = B /\ s.cur = h /\ s.last = l
  BY DEF VidDecoder
<1>3. CASE B[h].state = "ACTIVE" /\ Decode!Fid(p) # l /\ B[h].data # {}
  <2>1. t = Decode!NextBuffer(s)
    BY <1>2, <1>3 DEF Decode!Flushed
  <2>2. B[h].error \/ OneFrame(B[h].data)
    BY <1>3 DEF VidFilling, OneFrame
  <2>3. VidReady(t, l)
    BY <1>1, <2>1, <2>2, VidNext
  <2>4. PICK r, E : /\ t = VidDecoder(r, E, r[1], l) /\ VidCore(r, E)
                    /\ E[r[1]].state = "QUEUED" /\ E[r[1]].data = {}
    BY <2>3 DEF VidReady
  <2>5. VidGoes(Decode!Filled(t, p), l, p)
    BY <2>4, VidFilled
  <2>6. Decode!Decoded(s, p) = Decode!Filled(t, p)
    <3>1. ~Decode!Waits(t, p)
      <4>1. t.last = l
        <5> HIDE DEF t
        <5> QED BY <2>4 DEF VidDecoder
      <4> HIDE DEF t
      <4> QED BY <1>3, <4>1 DEF Decode!Waits
    <3>2. Decode!Decoded(s, p) = IF Decode!Waits(t, p) THEN t ELSE Decode!Filled(t, p)
      BY DEF Decode!Decoded
    <3> HIDE DEF s, t
    <3> QED BY <3>1, <3>2
  <2> QED BY <2>5, <2>6
<1>4. CASE ~(B[h].state = "ACTIVE" /\ Decode!Fid(p) # l /\ B[h].data # {})
  <2>1. t = s
    BY <1>2, <1>4 DEF Decode!Flushed
  <2>2. CASE Decode!Waits(s, p)
    <3>1. Decode!Decoded(s, p) = s
      BY <2>1, <2>2 DEF Decode!Decoded
    <3>2. B[h].state # "ACTIVE"
      BY <2>2, <1>2 DEF Decode!Waits
    <3>3. VidFilling(B[h], l, p + 1)
      BY <3>2 DEF VidFilling
    <3> QED BY <1>1, <3>1, <3>3 DEF VidGoes
  <2>3. CASE ~Decode!Waits(s, p)
    <3>1. Decode!Decoded(s, p) = Decode!Filled(s, p)
      BY <2>1, <2>3 DEF Decode!Decoded
    <3>2. B[h].error \/ \A r \in B[h].data : Decode!FrameOf(r) = Decode!FrameOf(p)
      <4>1. CASE B[h].state = "ACTIVE" /\ ~B[h].error /\ B[h].data # {}
        <5>1. PICK r \in B[h].data :
                  /\ r + 1 = p - g /\ ~Decode!Eof(r) /\ l = Decode!Fid(r)
                  /\ \A x \in B[h].data : Decode!FrameOf(x) = Decode!FrameOf(r)
          BY <4>1 DEF VidFilling
        <5>2. r \in Nat
          BY <1>1 DEF VidRecs
        <5>3. p = r + 1 + g
          BY <5>1, <5>2
        <5>4. Decode!Fid(p) = Decode!Fid(r)
          BY <1>4, <4>1, <5>1
        <5>5. Decode!FrameOf(p) = Decode!FrameOf(r)
          BY <5>1, <5>2, <5>3, <5>4, VidFrames
        <5> QED BY <5>1, <5>5
      <4>2. CASE B[h].state # "ACTIVE"
        BY <4>2, <1>1 DEF VidWhole
      <4> QED BY <4>1, <4>2
    <3> QED BY <1>1, <3>1, <3>2, VidFilled
  <2> QED BY <2>2, <2>3
<1> QED BY <1>3, <1>4

LEMMA VidInit == VidParams /\ Decode!Init => VidInv
<1> SUFFICES ASSUME VidParams, Decode!Init PROVE VidInv
  OBVIOUS
<1> DEFINE T == 1 .. 3
           B == [b \in T |-> Decode!Empty]
<1>1. /\ vidQueue = <<1, 2, 3>> /\ vidBuf = B /\ vidCur = 0 /\ vidTmp = 0 /\ vidSent = 0
      /\ vidGap = 0
  BY DEF Decode!Init, Decode!Bufs
<1>2. Decode!Empty \in VidRecs /\ Decode!Empty.state = "IDLE" /\ VidWhole(Decode!Empty)
  BY DEF Decode!Empty, VidRecs, VidWhole
<1>3. VidQueueOK(vidQueue)
  <2>1. \A a, b, c \in T : <<a, b, c>> \in Seq(T) /\ Len(<<a, b, c>>) = 3 /\ <<a, b, c>>[1] = a
    <3> HIDE DEF T
    <3> QED OBVIOUS
  <2>2. 1 \in T /\ 2 \in T /\ 3 \in T
    OBVIOUS
  <2> HIDE DEF T
  <2>3. vidQueue \in Seq(T) /\ Len(vidQueue) = 3 /\ vidQueue[1] \in T
    BY <1>1, <2>1, <2>2
  <2> QED BY <2>3 DEF VidQueueOK, T
<1>4. vidBuf \in [T -> VidRecs] /\ \A b \in T : vidBuf[b] = Decode!Empty
  BY <1>1, <1>2
<1> HIDE DEF B
<1>5. \A b \in T : VidWhole(vidBuf[b]) /\ vidBuf[b].state = "IDLE"
  BY <1>2, <1>4
<1>6. VidCore(vidQueue, vidBuf)
  BY <1>3, <1>4, <1>5 DEF VidCore, VidIdle
<1>7. VidFilling(vidBuf[vidQueue[1]], vidFid, vidSent - vidGap)
  BY <1>3, <1>5 DEF VidFilling, VidQueueOK
<1>8. vidGap \in 0 .. FrameLen
  BY <1>1 DEF VidParams
<1> QED BY <1>1, <1>6, <1>7, <1>8 DEF VidInv

LEMMA VidTrpBegin ==
    ASSUME VidInv, Decode!TrpBegin
    PROVE  VidInv'
<1>1. /\ vidCur = 0 /\ UNCHANGED <<vidFid, vidTmp, vidSent, vidGap, vidCompressed>>
      /\ VidQueueOK(vidQueue) /\ vidBuf \in [1 .. 3 -> VidRecs] /\ VidIdle(vidQueue, vidBuf)
      /\ \A b \in 1 .. 3 : VidWhole(vidBuf[b])
      /\ ~vidBuf[vidQueue[1]].used
           => VidFilling(vidBuf[vidQueue[1]], vidFid, vidSent - vidGap)
  BY DEF Decode!TrpBegin, VidInv, VidCore
<1>2. CASE \A b \in 1 .. 3 : vidBuf[b].used
  <2>1. vidCur' = 4 /\ UNCHANGED <<vidQueue, vidBuf>>
    BY <1>2 DEF Decode!TrpBegin, Decode!Bufs, Decode!Skipped
  <2>2. VidCore(vidQueue, vidBuf)'
    BY <1>1, <2>1 DEF VidInv, VidCore, VidIdle, VidWhole
  <2>3. vidQueue[1] \in 1 .. 3
    BY <1>1 DEF VidQueueOK
  <2> QED BY <1>1, <1>2, <2>1, <2>2, <2>3 DEF VidInv
<1>3. CASE ~\A b \in 1 .. 3 : vidBuf[b].used
  <2>1. PICK i \in 1 .. 3 :
            /\ ~vidBuf[vidQueue[i]].used /\ \A j \in 1 .. i - 1 : vidBuf[vidQueue[j]].used
            /\ vidQueue' = SubSeq(vidQueue, i, 3) \o SubSeq(vidQueue, 1, i - 1)
            /\ vidCur' = vidQueue[i]
    BY <1>3 DEF Decode!TrpBegin, Decode!Unused, Decode!Bufs
  <2> DEFINE h == vidQueue[i]
             r == [vidBuf[h] EXCEPT !.state = "IDLE", !.data = {}, !.error = FALSE]
  <2>2. vidBuf' = (IF vidBuf[h].state = "DONE" THEN [vidBuf EXCEPT ![h] = r] ELSE vidBuf)
    BY <1>3, <2>1 DEF Decode!TrpBegin, Decode!Bufs
  <2>3. VidQueueOK(vidQueue') /\ vidQueue'[1] = h /\ h \in 1 .. 3
    <3> DEFINE T == 1 .. 3
               u == SubSeq(vidQueue, i, 3)
               v == SubSeq(vidQueue, 1, i - 1)
    <3>1. vidQueue \in Seq(T) /\ Len(vidQueue) = 3
      BY <1>1 DEF VidQueueOK
    <3>2. \A x \in Seq(T) : Len(x) = 3 => \A j \in 1 .. 3 : x[j] \in T
      <4> SUFFICES ASSUME NEW x \in Seq(T), Len(x) = 3, NEW j \in 1 .. 3 PROVE x[j] \in T
        OBVIOUS
      <4>1. j \in 1 .. Len(x)
        OBVIOUS
      <4> HIDE DEF T
      <4> QED BY <4>1, ElementOfSeq
    <3>3. /\ u \in Seq(T) /\ Len(u) = 4 - i /\ u[1] = vidQueue[i]
          /\ v \in Seq(T) /\ Len(v) = i - 1
      <4>1. \A j \in i .. 3 : vidQueue[j] \in T
        BY <3>1, <3>2
      <4>2. \A j \in 1 .. i - 1 : vidQueue[j] \in T
        BY <3>1, <3>2
      <4> DEFINE a == 3
                 o == 1
                 k == i - 1
      <4>3. a \in Int /\ o \in Int /\ k \in Int /\ i \in Int /\ o <= k + 1 /\ i <= a
        OBVIOUS
      <4>4. /\ SubSeq(vidQueue, i, a) \in Seq(T)
            /\ Len(SubSeq(vidQueue, i, a)) = IF i <= a THEN a - i + 1 ELSE 0
            /\ \A m \in 1 .. a - i + 1 : SubSeq(vidQueue, i, a)[m] = vidQueue[i + m - 1]
        <5>1. \A j \in i .. a : vidQueue[j] \in T
          BY <4>1
        <5> HIDE DEF a, T
        <5> QED BY <5>1, <4>3, SubSeqProperties
      <4>5. /\ SubSeq(vidQueue, o, k) \in Seq(T)
            /\ Len(SubSeq(vidQueue, o, k)) = IF o <= k THEN k - o + 1 ELSE 0
        <5>1. \A j \in o .. k : vidQueue[j] \in T
          BY <4>2
        <5> HIDE DEF o, k, T
        <5> QED BY <5>1, <4>3, SubSeqProperties
      <4> HIDE DEF T
      <4>6. u[1] = vidQueue[i]
        <5>1. 1 \in 1 .. a - i + 1 /\ i + 1 - 1 = i
          OBVIOUS
        <5> QED BY <5>1, <4>4
      <4> QED BY <4>4, <4>5, <4>6
    <3>4. \A x, y \in Seq(T) : /\ x \o y \in Seq(T) /\ Len(x \o y) = Len(x) + Len(y)
                               /\ (Len(x) > 0 => (x \o y)[1] = x[1])
      <4> SUFFICES ASSUME NEW x \in Seq(T), NEW y \in Seq(T)
                   PROVE  /\ x \o y \in Seq(T) /\ Len(x \o y) = Len(x) + Len(y)
                          /\ (Len(x) > 0 => (x \o y)[1] = x[1])
        OBVIOUS
      <4> HIDE DEF T
      <4>1. x \o y \in Seq(T) /\ Len(x \o y) = Len(x) + Len(y)
        OBVIOUS
      <4>2. Len(x) > 0 => (x \o y)[1] = x[1]
        OBVIOUS
      <4> QED BY <4>1, <4>2
    <3>5. vidQueue[i] \in T
      BY <3>1, <3>2
    <3>6. vidQueue' \in Seq(T) /\ Len(vidQueue') = (4 - i) + (i - 1) /\ vidQueue'[1] = h
      <4>1. Len(u) > 0
        BY <3>3
      <4> HIDE DEF T, u, v
      <4> QED BY <2>1, <3>3, <3>4, <4>1 DEF u, v
    <3> QED BY <3>5, <3>6 DEF VidQueueOK
  <2>4. \A b \in 1 .. 3 : b # h /\ ~vidBuf[b].used => vidBuf[b].state # "ACTIVE"
    <3>1. CASE i = 1
      BY <3>1, <1>1 DEF VidIdle
    <3>2. CASE i # 1
      <4>1. vidBuf[vidQueue[1]].used
        <5>1. 1 \in 1 .. i - 1
          BY <3>2
        <5> QED BY <2>1, <5>1
      <4> QED BY <4>1, <1>1 DEF VidIdle
    <3> QED BY <3>1, <3>2
  <2>5. VidFilling(vidBuf[h], vidFid, vidSent - vidGap)
    <3>1. CASE h = vidQueue[1]
      BY <3>1, <1>1, <2>1
    <3>2. CASE h # vidQueue[1]
      BY <3>2, <1>1, <2>1, <2>3 DEF VidIdle, VidFilling
    <3> QED BY <3>1, <3>2
  <2>6. CASE vidBuf[h].state = "DONE"
    <3>1. /\ r \in VidRecs /\ r.state = "IDLE" /\ r.data = {}
      BY <1>1, <2>3 DEF VidRecs
    <3>2. vidBuf' = [vidBuf EXCEPT ![h] = r]
      BY <2>2, <2>6
    <3>3. /\ vidBuf' \in [1 .. 3 -> VidRecs] /\ vidBuf'[h] = r
          /\ \A b \in 1 .. 3 : b # h => vidBuf'[b] = vidBuf[b]
      <4> HIDE DEF r
      <4> QED BY <3>1, <3>2, <1>1, <2>3, VidSet
    <3> HIDE DEF r
    <3>4. \A b \in 1 .. 3 : VidWhole(vidBuf[b])'
      <4> SUFFICES ASSUME NEW b \in 1 .. 3 PROVE VidWhole(vidBuf[b])'
        OBVIOUS
      <4>1. CASE b = h
        BY <4>1, <3>1, <3>3 DEF VidWhole
      <4>2. CASE b # h
        BY <4>2, <3>3, <1>1 DEF VidWhole
      <4> QED BY <4>1, <4>2
    <3>5. VidIdle(vidQueue, vidBuf)'
      BY <3>3, <2>3, <2>4 DEF VidIdle
    <3>6. VidCore(vidQueue, vidBuf)'
      BY <2>3, <3>3, <3>4, <3>5 DEF VidCore
    <3>7. VidFilling(vidBuf'[h], vidFid', vidSent' - vidGap')
      BY <3>1, <3>3 DEF VidFilling
    <3> QED BY <1>1, <2>1, <2>3, <3>1, <3>3, <3>6, <3>7 DEF VidInv
  <2>7. CASE vidBuf[h].state # "DONE"
    <3>1. vidBuf' = vidBuf
      BY <2>2, <2>7
    <3>2. VidIdle(vidQueue, vidBuf)'
      BY <3>1, <2>3, <2>4 DEF VidIdle
    <3>3. \A b \in 1 .. 3 : VidWhole(vidBuf[b])'
      BY <3>1, <1>1 DEF VidWhole
    <3>4. VidCore(vidQueue, vidBuf)'
      BY <1>1, <2>3, <3>1, <3>2, <3>3 DEF VidCore
    <3> QED BY <1>1, <2>1, <2>3, <2>5, <2>7, <3>1, <3>4 DEF VidInv
  <2> QED BY <2>6, <2>7
<1> QED BY <1>2, <1>3

LEMMA VidPacket ==
    ASSUME VidParams, VidInv, Decode!Packet
    PROVE  VidInv'
<1>1. /\ vidCur \in 0 .. 4 /\ vidCur # 0 /\ vidSent' = vidSent + 1 /\ vidGap' = 0
      /\ UNCHANGED <<vidTmp, vidCompressed>> /\ vidSent \in Nat /\ vidTmp \in 0 .. 3
      /\ vidGap \in 0 .. FrameLen /\ 0 \in 0 .. FrameLen
  BY DEF Decode!Packet, VidInv, VidParams
<1>2. CASE vidCur = 4
  <2>1. UNCHANGED <<vidQueue, vidBuf, vidCur, vidFid>>
    BY <1>2 DEF Decode!Packet, Decode!Skipped
  <2>2. VidCore(vidQueue, vidBuf)'
    BY <1>1, <2>1 DEF VidInv, VidCore, VidIdle, VidWhole
  <2>3. vidQueue[1] \in 1 .. 3
    BY DEF VidInv, VidCore, VidQueueOK
  <2> QED BY <1>1, <1>2, <2>1, <2>2, <2>3 DEF VidInv
<1>3. CASE vidCur \in 1 .. 3
  <2> DEFINE n == Decode!Decoded(VidDecoder(vidQueue, vidBuf, vidQueue[1], vidFid), vidSent)
  <2>1. vidQueue' = n.queue /\ vidBuf' = n.buf /\ vidCur' = n.cur /\ vidFid' = n.last
    BY <1>3 DEF Decode!Packet, Decode!Skipped, Decode!Decoder, VidDecoder, VidInv
  <2>2. VidGoes(n, vidFid, vidSent)
    <3>1. VidCore(vidQueue, vidBuf) /\ vidBuf[vidQueue[1]].state # "DONE"
          /\ VidFilling(vidBuf[vidQueue[1]], vidFid, vidSent - vidGap)
      BY <1>3 DEF VidInv
    <3> QED BY <1>1, <3>1, VidDecoded
  <2> HIDE DEF n
  <2>3. PICK q, B, m : /\ n = VidDecoder(q, B, q[1], m) /\ VidCore(q, B)
                       /\ B[q[1]].state \in {"IDLE", "QUEUED", "ACTIVE"}
                       /\ VidFilling(B[q[1]], m, vidSent + 1)
    BY <2>2 DEF VidGoes
  <2>4. vidQueue' = q /\ vidBuf' = B /\ vidCur' = q[1] /\ vidFid' = m
    BY <2>1, <2>3 DEF VidDecoder
  <2>5. VidCore(vidQueue, vidBuf)'
    BY <2>3, <2>4, <1>1 DEF VidCore, VidIdle, VidWhole
  <2>6. q[1] \in 1 .. 3
    BY <2>3 DEF VidCore, VidQueueOK
  <2>7. VidFilling(vidBuf[vidQueue[1]], vidFid, vidSent - vidGap)'
    <3>1. vidSent' - vidGap' = vidSent + 1
      BY <1>1
    <3> QED BY <2>3, <2>4, <3>1
  <2>8. vidCur' \in 0 .. 4 /\ vidCur' # 4 /\ vidCur' # 0 /\ vidCur' = vidQueue'[1]
        /\ vidBuf'[vidCur'].state # "DONE" /\ vidSent' \in Nat
    BY <1>1, <2>3, <2>4, <2>6
  <2> QED BY <1>1, <2>5, <2>7, <2>8 DEF VidInv
<1> QED BY <1>1, <1>2, <1>3

LEMMA VidLost ==
    ASSUME VidParams, VidInv, Decode!Lost
    PROVE  VidInv'
<1>1. /\ vidCur \in 0 .. 4 /\ vidCur # 0 /\ vidSent' = vidSent + 1 /\ vidGap' = 0
      /\ UNCHANGED <<vidQueue, vidCur, vidFid, vidTmp, vidCompressed>>
      /\ vidSent \in Nat /\ vidTmp \in 0 .. 3 /\ 0 \in 0 .. FrameLen
      /\ VidQueueOK(vidQueue) /\ vidBuf \in [1 .. 3 -> VidRecs] /\ VidIdle(vidQueue, vidBuf)
      /\ \A b \in 1 .. 3 : VidWhole(vidBuf[b])
      /\ vidQueue[1] \in 1 .. 3
  BY DEF Decode!Lost, VidInv, VidParams, VidCore, VidQueueOK
<1>2. CASE vidCur = 4
  <2>1. vidBuf' = vidBuf
    BY <1>2 DEF Decode!Lost, Decode!Skipped
  <2>2. VidCore(vidQueue, vidBuf)'
    BY <1>1, <2>1 DEF VidCore, VidIdle, VidWhole
  <2> QED BY <1>1, <1>2, <2>1, <2>2 DEF VidInv
<1>3. CASE vidCur \in 1 .. 3
  <2> DEFINE r == [vidBuf[vidCur] EXCEPT !.error = TRUE]
  <2>1. vidBuf' = [vidBuf EXCEPT ![vidCur] = r]
    BY <1>3 DEF Decode!Lost, Decode!Skipped
  <2>2. /\ r \in VidRecs /\ r.state = vidBuf[vidCur].state /\ r.data = vidBuf[vidCur].data
        /\ r.error /\ r.used = vidBuf[vidCur].used
    BY <1>1, <1>3 DEF VidRecs
  <2> HIDE DEF r
  <2>3. /\ vidBuf' \in [1 .. 3 -> VidRecs] /\ vidBuf'[vidCur] = r
        /\ \A b \in 1 .. 3 : b # vidCur => vidBuf'[b] = vidBuf[b]
    BY <1>1, <1>3, <2>1, <2>2, VidSet
  <2>4. ASSUME NEW b \in 1 .. 3
        PROVE  /\ vidBuf'[b].state = vidBuf[b].state /\ vidBuf'[b].data = vidBuf[b].data
               /\ vidBuf'[b].used = vidBuf[b].used
    <3>1. CASE b = vidCur
      BY <3>1, <2>2, <2>3
    <3>2. CASE b # vidCur
      BY <3>2, <2>3
    <3> QED BY <3>1, <3>2
  <2>5. \A b \in 1 .. 3 : VidWhole(vidBuf[b])'
    BY <1>1, <2>4 DEF VidWhole
  <2>6. VidIdle(vidQueue, vidBuf)'
    BY <1>1, <2>4 DEF VidIdle
  <2>7. VidCore(vidQueue, vidBuf)'
    BY <1>1, <2>3, <2>5, <2>6 DEF VidCore
  <2>8. vidCur = vidQueue[1] /\ vidBuf[vidCur].state # "DONE"
    BY <1>3 DEF VidInv
  <2>9. VidFilling(vidBuf[vidQueue[1]], vidFid, vidSent - vidGap)'
    BY <1>1, <2>2, <2>3, <2>8 DEF VidFilling
  <2>10. vidBuf'[vidCur'].state # "DONE" /\ vidSent' \in Nat /\ vidCur' # 4
    BY <1>1, <1>3, <2>4, <2>8
  <2> QED BY <1>1, <2>7, <2>8, <2>9, <2>10 DEF VidInv
<1> QED BY <1>1, <1>2, <1>3

LEMMA VidShort ==
    ASSUME VidParams, VidInv, Decode!Short
    PROVE  VidInv'
<1>1. /\ vidSent' = vidSent + 1 /\ vidGap' = vidGap + 1 /\ vidGap < FrameLen
      /\ UNCHANGED <<vidQueue, vidBuf, vidCur, vidFid, vidTmp, vidCompressed>>
  BY DEF Decode!Short
<1>2. vidSent \in Nat /\ vidGap \in 0 .. FrameLen
  BY DEF VidInv
<1>3. vidSent' - vidGap' = vidSent - vidGap /\ vidSent' \in Nat /\ vidGap' \in 0 .. FrameLen
  BY <1>1, <1>2 DEF VidParams
<1>4. VidCore(vidQueue, vidBuf)'
  BY <1>1 DEF VidInv, VidCore, VidIdle, VidWhole
<1>5. vidQueue' = vidQueue /\ vidBuf' = vidBuf /\ vidCur' = vidCur /\ vidFid' = vidFid /\ vidTmp' = vidTmp
  BY <1>1
<1> QED BY <1>3, <1>4, <1>5 DEF VidInv

LEMMA VidVideoGet ==
    ASSUME VidInv, Decode!VideoGet
    PROVE  VidInv'
<1>1. /\ vidCur = 0 /\ UNCHANGED <<vidQueue, vidCur, vidFid, vidSent, vidGap, vidCompressed>>
      /\ VidQueueOK(vidQueue) /\ vidBuf \in [1 .. 3 -> VidRecs] /\ VidIdle(vidQueue, vidBuf)
      /\ \A b \in 1 .. 3 : VidWhole(vidBuf[b])
      /\ vidQueue[1] \in 1 .. 3 /\ vidSent \in Nat /\ vidGap \in 0 .. FrameLen
      /\ ~vidBuf[vidQueue[1]].used
           => VidFilling(vidBuf[vidQueue[1]], vidFid, vidSent - vidGap)
  BY DEF Decode!VideoGet, VidInv, VidCore, VidQueueOK
<1>2. PICK h : /\ \E i \in 1 .. 3 : h = vidQueue[i]
               /\ vidBuf[h].state = "DONE"
               /\ vidBuf' = [vidBuf EXCEPT ![h].used = TRUE] /\ vidTmp' = h
  BY DEF Decode!VideoGet, Decode!Bufs
<1>3. h \in 1 .. 3
  <2> DEFINE T == 1 .. 3
  <2>1. vidQueue \in Seq(T) /\ Len(vidQueue) = 3
    BY <1>1 DEF VidQueueOK
  <2>2. \A x \in Seq(T) : Len(x) = 3 => \A j \in 1 .. 3 : x[j] \in T
    <3> HIDE DEF T
    <3> QED OBVIOUS
  <2> QED BY <1>2, <2>1, <2>2
<1> DEFINE r == [vidBuf[h] EXCEPT !.used = TRUE]
<1>4. /\ r \in VidRecs /\ r.state = "DONE" /\ r.data = vidBuf[h].data /\ r.used
  BY <1>1, <1>2, <1>3 DEF VidRecs
<1>5. /\ vidBuf' \in [1 .. 3 -> VidRecs] /\ vidBuf'[h] = r
      /\ \A b \in 1 .. 3 : b # h => vidBuf'[b] = vidBuf[b]
  <2>1. vidBuf' = [vidBuf EXCEPT ![h] = r]
    BY <1>2
  <2> HIDE DEF r
  <2> QED BY <1>1, <1>3, <1>4, <2>1, VidSet
<1> HIDE DEF r
<1>6. ASSUME NEW b \in 1 .. 3
      PROVE  /\ vidBuf'[b].state = vidBuf[b].state /\ vidBuf'[b].data = vidBuf[b].data
             /\ ~vidBuf'[b].used => ~vidBuf[b].used /\ vidBuf'[b] = vidBuf[b]
  <2>1. CASE b = h
    BY <2>1, <1>2, <1>4, <1>5
  <2>2. CASE b # h
    BY <2>2, <1>5
  <2> QED BY <2>1, <2>2
<1>7. \A b \in 1 .. 3 : VidWhole(vidBuf[b])'
  BY <1>1, <1>6 DEF VidWhole
<1>8. VidIdle(vidQueue, vidBuf)'
  BY <1>1, <1>6 DEF VidIdle
<1>9. VidCore(vidQueue, vidBuf)'
  BY <1>1, <1>5, <1>7, <1>8 DEF VidCore
<1>10. ~vidBuf'[vidQueue[1]].used
           => VidFilling(vidBuf'[vidQueue[1]], vidFid, vidSent - vidGap)
  BY <1>1, <1>6
<1>11. /\ vidCur' = 0 /\ vidTmp' \in 0 .. 3 /\ vidSent' = vidSent /\ vidGap' = vidGap
       /\ vidQueue' = vidQueue /\ vidFid' = vidFid
  BY <1>1, <1>2, <1>3
<1> QED BY <1>1, <1>9, <1>10, <1>11 DEF VidInv

LEMMA VidVideoPut ==
    ASSUME VidInv, Decode!VideoPut
    PROVE  VidInv'
<1>1. /\ vidCur = 0 /\ UNCHANGED <<vidQueue, vidCur, vidFid, vidSent, vidGap, vidCompressed>>
      /\ VidQueueOK(vidQueue) /\ vidBuf \in [1 .. 3 -> VidRecs] /\ VidIdle(vidQueue, vidBuf)
      /\ \A b \in 1 .. 3 : VidWhole(vidBuf[b])
      /\ vidQueue[1] \in 1 .. 3 /\ vidSent \in Nat /\ vidGap \in 0 .. FrameLen
      /\ ~vidBuf[vidQueue[1]].used
           => VidFilling(vidBuf[vidQueue[1]], vidFid, vidSent - vidGap)
      /\ vidTmp \in 1 .. 3 /\ vidTmp' = 0
  BY DEF Decode!VideoPut, VidInv, VidCore, VidQueueOK
<1> DEFINE h == vidTmp
           f == Decode!Fresh(vidBuf[h])
           r == [f EXCEPT !.used = FALSE]
<1>2. f \in VidRecs /\ f.state = "QUEUED" /\ f.data = {}
  BY <1>1, VidFresh
<1>3. vidBuf' = [vidBuf EXCEPT ![h] = r]
  BY DEF Decode!VideoPut
<1>4. r \in VidRecs /\ r.state = "QUEUED" /\ r.data = {}
  <2> HIDE DEF f
  <2> QED BY <1>2 DEF VidRecs
<1> HIDE DEF r, h
<1>5. /\ vidBuf' \in [1 .. 3 -> VidRecs] /\ vidBuf'[h] = r
      /\ \A b \in 1 .. 3 : b # h => vidBuf'[b] = vidBuf[b]
  BY <1>1, <1>3, <1>4, VidSet DEF h
<1>6. ASSUME NEW b \in 1 .. 3 PROVE VidWhole(vidBuf[b])'
  <2>1. CASE b = h
    BY <2>1, <1>4, <1>5 DEF VidWhole
  <2>2. CASE b # h
    BY <2>2, <1>1, <1>5 DEF VidWhole
  <2> QED BY <2>1, <2>2
<1>7. VidIdle(vidQueue, vidBuf)'
  BY <1>1, <1>4, <1>5 DEF VidIdle
<1>8. VidCore(vidQueue, vidBuf)'
  BY <1>1, <1>5, <1>6, <1>7 DEF VidCore
<1>9. ~vidBuf'[vidQueue[1]].used
           => VidFilling(vidBuf'[vidQueue[1]], vidFid, vidSent - vidGap)
  <2>1. CASE vidQueue[1] = h
    BY <2>1, <1>4, <1>5 DEF VidFilling
  <2>2. CASE vidQueue[1] # h
    BY <2>2, <1>1, <1>5
  <2> QED BY <2>1, <2>2
<1>10. /\ vidCur' = 0 /\ vidTmp' \in 0 .. 3 /\ vidSent' = vidSent /\ vidGap' = vidGap
       /\ vidQueue' = vidQueue /\ vidFid' = vidFid
  BY <1>1
<1> QED BY <1>1, <1>8, <1>9, <1>10 DEF VidInv

LEMMA VidStep ==
    ASSUME VidParams, VidInv, [Decode!Next]_(Decode!decodeVars)
    PROVE  VidInv'
<1>1. CASE Decode!TrpEnd
  <2>1. /\ vidCur # 0 /\ vidCur' = 0 /\ vidQueue' = vidQueue /\ vidBuf' = vidBuf
        /\ vidFid' = vidFid /\ vidTmp' = vidTmp /\ vidSent' = vidSent /\ vidGap' = vidGap
        /\ vidCompressed' = vidCompressed
    BY <1>1 DEF Decode!TrpEnd
  <2>2. VidCore(vidQueue, vidBuf)'
    BY <2>1 DEF VidInv, VidCore, VidIdle, VidWhole
  <2>3. vidQueue[1] \in 1 .. 3
    BY DEF VidInv, VidCore, VidQueueOK
  <2>4. ~vidBuf[vidQueue[1]].used
           => VidFilling(vidBuf[vidQueue[1]], vidFid, vidSent - vidGap)
    <3>1. CASE vidCur \in 1 .. 3
      BY <3>1 DEF VidInv
    <3>2. CASE vidCur = 4
      BY <3>2, <2>3 DEF VidInv
    <3> QED BY <3>1, <3>2, <2>1 DEF VidInv
  <2> QED BY <2>1, <2>2, <2>3, <2>4 DEF VidInv
<1>2. CASE UNCHANGED Decode!decodeVars
  BY <1>2 DEF Decode!decodeVars, VidInv, VidCore, VidIdle, VidWhole
<1> QED BY <1>1, <1>2, VidTrpBegin, VidPacket, VidLost, VidShort, VidVideoGet, VidVideoPut
        DEF Decode!Next

LEMMA VidDone == VidInv => Decode!FrameWhole
BY DEF VidInv, VidCore, VidWhole, OneFrame, Decode!FrameWhole, Decode!Bufs

\* For any number of packets of a frame: a frame that is done is of one frame of the
\* device, and whole if its size is known.
THEOREM FramesWhole ==
    ASSUME VidParams
    PROVE  Decode!Spec => []Decode!FrameWhole
<1> QED BY VidInit, VidStep, VidDone, PTL DEF Decode!Spec
-----------------------------------------------------------------------------
(* UvcCtrl: settings are kept, and what is allocated is freed              *)

\* A field is of one control; nothing that is set is NoSetting.
CamParams ==
    /\ \A c, d \in CamControls : c # d => MapsOf[c] \cap MapsOf[d] = {}
    /\ \A id \in Camera!Ids, v \in AskedValues : \A c, items :
           NoSetting \notin Camera!Settled(c, id, v, items)

CamInv ==
    /\ camMapped \subseteq Camera!Ids
    /\ DOMAIN camCur = Camera!Ids /\ DOMAIN camMine = Camera!Ids /\ camLoaded \subseteq CamControls
    /\ \A c \in CamControls \ (camLoaded \cup WideCtrls) : \A id \in MapsOf[c] : camMine[id] = NoSetting
    /\ Camera!SettingKept
    /\ camPhase = "none" => camMem = {}
    /\ camPhase \in {"made", "failed"} =>
           \A m \in camMem : m \in Camera!Freed \/ (m.what = "map" /\ m.of \notin camMapped)
    /\ Camera!AllFreed

LEMMA CamInit == Camera!Init => CamInv
<1> SUFFICES ASSUME Camera!Init
             PROVE  CamInv
  OBVIOUS
<1>1. /\ camPhase = "none" /\ camMapped = {} /\ camMem = {} /\ camLoaded = {}
      /\ camCur = [id \in Camera!Ids |-> 0] /\ camMine = [id \in Camera!Ids |-> NoSetting]
  BY DEF Camera!Init
<1>2. \A c \in CamControls : \A id \in MapsOf[c] : id \in Camera!Ids
  BY DEF Camera!Ids
<1>3. \A c \in CamControls : \A id \in MapsOf[c] : camMine[id] = NoSetting
  BY <1>1, <1>2
<1>4. DOMAIN camCur = Camera!Ids /\ DOMAIN camMine = Camera!Ids
  BY <1>1
<1>5. Camera!SettingKept /\ Camera!AllFreed
  BY <1>1 DEF Camera!SettingKept, Camera!AllFreed
<1> QED BY <1>1, <1>3, <1>4, <1>5 DEF CamInv

LEMMA CamCtrlOf ==
    ASSUME CamParams, NEW id \in Camera!Ids
    PROVE  /\ Camera!CtrlOf(id) \in CamControls /\ id \in MapsOf[Camera!CtrlOf(id)]
           /\ \A c \in CamControls : id \in MapsOf[c] => c = Camera!CtrlOf(id)
<1>1. \E c \in CamControls : id \in MapsOf[c]
  BY DEF Camera!Ids
<1>2. Camera!CtrlOf(id) \in CamControls /\ id \in MapsOf[Camera!CtrlOf(id)]
  BY <1>1 DEF Camera!CtrlOf
<1> QED BY <1>2 DEF CamParams

LEMMA CamMade ==
    ASSUME CamInv, Camera!CtrlInit
    PROVE  CamInv'
<1>1. PICK n \in 0 .. Camera!Cardinality(CamUnits), noInfo \in SUBSET CamControls,
           noMap \in SUBSET Camera!Ids, noMenu \in SUBSET Camera!Ids :
        LET us == {u \in CamUnits : Camera!Cardinality({v \in CamUnits : v <= u}) <= n
                                 /\ Camera!UnitCtrls(u) # {}}
            cs == Camera!InfoAdded(us, noInfo)
            ids == Camera!MapsAdded(cs, noMap, noMenu)
        IN /\ camPhase' = IF n = Camera!Cardinality(CamUnits) THEN "made" ELSE "failed"
           /\ camReady' = cs /\ camMapped' = ids
           /\ camMem' = {Camera!Alloc("array", u) : u \in us} \cup {Camera!Alloc("data", c) : c \in cs}
                     \cup {Camera!Alloc("map", id) : id \in ids \cup (noMenu \cap UNION {MapsOf[c] : c \in cs})}
                     \cup {Camera!Alloc("menu", id) : id \in ids}
  BY DEF Camera!CtrlInit
<1> DEFINE us == {u \in CamUnits : Camera!Cardinality({v \in CamUnits : v <= u}) <= n
                                 /\ Camera!UnitCtrls(u) # {}}
           cs == Camera!InfoAdded(us, noInfo)
           ids == Camera!MapsAdded(cs, noMap, noMenu)
           more == noMenu \cap UNION {MapsOf[c] : c \in cs}
<1>2. /\ camPhase' \in {"made", "failed"} /\ camReady' = cs /\ camMapped' = ids
      /\ camMem' = {Camera!Alloc("array", u) : u \in us} \cup {Camera!Alloc("data", c) : c \in cs}
                     \cup {Camera!Alloc("map", id) : id \in ids \cup more}
                     \cup {Camera!Alloc("menu", id) : id \in ids}
      /\ UNCHANGED <<camLoaded, camCur, camBase, camMine>>
  BY <1>1 DEF Camera!CtrlInit
<1>3. us \subseteq CamUnits
  OBVIOUS
<1>4. ids \subseteq Camera!Ids /\ ids \cap noMenu = {}
  <2>1. cs \subseteq CamControls
    BY DEF Camera!InfoAdded, Camera!UnitCtrls
  <2> QED BY <2>1 DEF Camera!MapsAdded, Camera!Ids
<1> HIDE DEF us, cs, ids
<1>5. \A m \in camMem' : m \in Camera!Freed' \/ (m.what = "map" /\ m.of \notin camMapped')
  <2> SUFFICES ASSUME NEW m \in camMem'
               PROVE  m \in Camera!Freed' \/ (m.what = "map" /\ m.of \notin camMapped')
    OBVIOUS
  <2>1. Camera!Freed' = {Camera!Alloc("array", u) : u \in CamUnits}
                        \cup {Camera!Alloc("data", c) : c \in cs}
                        \cup {Camera!Alloc(w, id) : w \in {"map", "menu"}, id \in ids}
    BY <1>2 DEF Camera!Freed
  <2>2. CASE m \in {Camera!Alloc("array", u) : u \in us}
    BY <2>1, <2>2, <1>3
  <2>3. CASE m \in {Camera!Alloc("data", c) : c \in cs}
    BY <2>1, <2>3
  <2>4. CASE m \in {Camera!Alloc("menu", id) : id \in ids}
    BY <2>1, <2>4
  <2>5. CASE m \in {Camera!Alloc("map", id) : id \in ids \cup more}
    <3>1. PICK id \in ids \cup more : m = Camera!Alloc("map", id)
      BY <2>5
    <3>2. CASE id \in ids
      BY <2>1, <3>1, <3>2
    <3>3. CASE id \notin ids
      BY <1>2, <3>1, <3>3 DEF Camera!Alloc
    <3> QED BY <3>2, <3>3
  <2> QED BY <1>2, <2>2, <2>3, <2>4, <2>5
<1>6. Camera!SettingKept' /\ DOMAIN camCur' = Camera!Ids /\ DOMAIN camMine' = Camera!Ids
  BY <1>2 DEF CamInv, Camera!SettingKept
<1>7. camMapped' \subseteq Camera!Ids
  BY <1>2, <1>4
<1> QED BY <1>2, <1>5, <1>6, <1>7 DEF CamInv, Camera!AllFreed

LEMMA CamFreed ==
    ASSUME CamInv, Camera!CtrlDeinit
    PROVE  CamInv'
<1>1. /\ camPhase \in {"made", "failed"} /\ camPhase' = "gone" /\ camMem' = camMem \ Camera!Freed
      /\ UNCHANGED <<camMapped, camLoaded, camCur, camBase, camMine>>
  BY DEF Camera!CtrlDeinit
<1>2. \A m \in camMem' : m.what = "map" /\ m.of \notin camMapped'
  BY <1>1 DEF CamInv
<1> QED BY <1>1, <1>2 DEF CamInv, Camera!SettingKept, Camera!AllFreed

\* A control was loaded with the values of fields, and perhaps one of them set.
CamLoaded(c) ==
    /\ camLoaded' = camLoaded \cup {c}
    /\ \A i \in Camera!Ids \ MapsOf[c] :
           camCur'[i] = camCur[i] /\ camMine'[i] = camMine[i] /\ camBase'[i] = camBase[i]
    /\ \A i \in MapsOf[c] :
           camCur'[i] = IF camMine'[i] = NoSetting THEN camBase'[i] ELSE camMine'[i]

LEMMA CamLoad ==
    ASSUME CamParams, CamInv, NEW c \in CamControls, CamLoaded(c)
    PROVE  Camera!SettingKept'
<1> SUFFICES ASSUME NEW d \in camLoaded' \ WideCtrls, NEW id \in MapsOf[d]
             PROVE  camCur'[id] = IF camMine'[id] = NoSetting THEN camBase'[id] ELSE camMine'[id]
  BY DEF Camera!SettingKept
<1>1. d \in CamControls /\ id \in Camera!Ids
  BY DEF CamInv, CamLoaded, Camera!Ids
<1>2. CASE d = c
  BY <1>1, <1>2 DEF CamLoaded
<1>3. CASE d # c
  <2>1. id \notin MapsOf[c] /\ d \in camLoaded \ WideCtrls
    BY <1>1, <1>3 DEF CamParams, CamLoaded
  <2>2. camCur[id] = IF camMine[id] = NoSetting THEN camBase[id] ELSE camMine[id]
    BY <2>1 DEF CamInv, Camera!SettingKept
  <2> QED BY <1>1, <2>1, <2>2 DEF CamLoaded
<1> QED BY <1>2, <1>3

\* A set that wrote s to the field with the id, or nothing.
CamWritten(id, v, s, items) ==
    LET c == Camera!CtrlOf(id)
        load == c \notin camLoaded /\ c \notin WideCtrls
    IN \/ UNCHANGED <<camCur, camLoaded, camBase, camMine>>
       \/ /\ s \in Camera!Settled(c, id, v, items)
          /\ camCur' = Camera!Stored(c, id, s, TRUE)
          /\ camLoaded' = IF load THEN camLoaded \cup {c} ELSE camLoaded
          /\ camBase' = IF load THEN [i \in Camera!Ids |->
                             IF i \notin MapsOf[c] THEN camBase[i]
                             ELSE IF "cur" \in FlagsOf[c] THEN camDev[i] ELSE 0]
                            ELSE camBase
          /\ camMine' = [camMine EXCEPT ![id] = s]

LEMMA CamSet ==
    ASSUME CamParams, CamInv, Camera!ChainSet
    PROVE  CamInv'
<1>0. PICK id \in Camera!Ids, v \in AskedValues : \E s, items : CamWritten(id, v, s, items)
  <2>1. \A w \in WantedIds : \A id \in Camera!Found(w.id, w.next) : id \in Camera!Ids
    BY DEF Camera!Found, CamInv
  <2> QED BY <2>1 DEF Camera!ChainSet, Camera!Stored, CamWritten
<1>1. PICK s, items : CamWritten(id, v, s, items)
  BY <1>0
<1> DEFINE c == Camera!CtrlOf(id)
<1>2. /\ c \in CamControls /\ id \in MapsOf[c]
      /\ \A d \in CamControls : id \in MapsOf[d] => d = c
  BY CamCtrlOf
<1>3. UNCHANGED <<camPhase, camReady, camMapped, camMem>>
  BY DEF Camera!ChainSet
<1> HIDE DEF c
<1>4. /\ camMapped' \subseteq Camera!Ids /\ Camera!AllFreed'
      /\ camPhase' = "none" => camMem' = {}
      /\ camPhase' \in {"made", "failed"} =>
           \A m \in camMem' : m \in Camera!Freed' \/ (m.what = "map" /\ m.of \notin camMapped')
  BY <1>3 DEF CamInv, Camera!AllFreed, Camera!Freed
<1>5. CASE UNCHANGED <<camCur, camLoaded, camBase, camMine>>
  BY <1>4, <1>5 DEF CamInv, Camera!SettingKept
<1>6. CASE /\ s \in Camera!Settled(c, id, v, items)
           /\ camCur' = Camera!Stored(c, id, s, TRUE)
           /\ camMine' = [camMine EXCEPT ![id] = s]
           /\ c \notin camLoaded /\ c \notin WideCtrls
           /\ camLoaded' = camLoaded \cup {c}
           /\ camBase' = [i \in Camera!Ids |->
                             IF i \notin MapsOf[c] THEN camBase[i]
                             ELSE IF "cur" \in FlagsOf[c] THEN camDev[i] ELSE 0]
  <2> DEFINE w == [i \in Camera!Ids |-> IF "cur" \in FlagsOf[c] THEN camDev[i] ELSE 0]
  <2>1. s # NoSetting
    BY <1>6 DEF CamParams
  <2>2. camCur' = [[i \in Camera!Ids |-> IF i \notin MapsOf[c] THEN camCur[i] ELSE w[i]]
                   EXCEPT ![id] = s]
    BY <1>6 DEF Camera!Stored
  <2>3. MapsOf[c] \subseteq Camera!Ids
    BY <1>2 DEF Camera!Ids
  <2>4. /\ DOMAIN camMine' = Camera!Ids /\ camMine'[id] = s
        /\ \A i \in Camera!Ids : i # id => camMine'[i] = camMine[i]
    BY <1>2, <1>6, <2>3 DEF CamInv
  <2>5. camBase' = [i \in Camera!Ids |-> IF i \in MapsOf[c] THEN w[i] ELSE camBase[i]]
    BY <1>6
  <2> HIDE DEF w
  <2>6. /\ DOMAIN camCur' = Camera!Ids /\ camCur'[id] = s
        /\ \A i \in Camera!Ids : i # id =>
              camCur'[i] = IF i \notin MapsOf[c] THEN camCur[i] ELSE w[i]
    BY <2>2, <2>3, <1>2
  <2>7. \A i \in MapsOf[c] : camMine[i] = NoSetting
    BY <1>2, <1>6 DEF CamInv
  <2>8. \A i \in Camera!Ids \ MapsOf[c] :
           camCur'[i] = camCur[i] /\ camMine'[i] = camMine[i] /\ camBase'[i] = camBase[i]
    BY <2>4, <2>5, <2>6, <1>2
  <2>9. \A i \in MapsOf[c] :
           camCur'[i] = IF camMine'[i] = NoSetting THEN camBase'[i] ELSE camMine'[i]
    <3> SUFFICES ASSUME NEW i \in MapsOf[c]
                 PROVE  camCur'[i] = IF camMine'[i] = NoSetting THEN camBase'[i] ELSE camMine'[i]
      OBVIOUS
    <3>1. CASE i = id
      BY <3>1, <2>1, <2>4, <2>6
    <3>2. CASE i # id
      BY <3>2, <2>3, <2>4, <2>5, <2>6, <2>7
    <3> QED BY <3>1, <3>2
  <2>10. Camera!SettingKept'
    <3>1. CamLoaded(c)
      BY <1>6, <2>8, <2>9 DEF CamLoaded
    <3> QED BY <1>2, <3>1, CamLoad
  <2>11. \A d \in CamControls \ (camLoaded' \cup WideCtrls) : \A i \in MapsOf[d] : camMine'[i] = NoSetting
    <3> SUFFICES ASSUME NEW d \in CamControls \ (camLoaded' \cup WideCtrls), NEW i \in MapsOf[d]
                 PROVE  camMine'[i] = NoSetting
      OBVIOUS
    <3>1. i \in Camera!Ids /\ i # id /\ d \notin camLoaded
      BY <1>2, <1>6 DEF Camera!Ids
    <3> QED BY <3>1, <2>4 DEF CamInv
  <2>12. camLoaded' \subseteq CamControls
    BY <1>2, <1>6 DEF CamInv
  <2> QED BY <1>4, <2>4, <2>6, <2>10, <2>11, <2>12 DEF CamInv
<1>7. CASE /\ camCur' = Camera!Stored(c, id, s, TRUE)
           /\ camMine' = [camMine EXCEPT ![id] = s]
           /\ ~(c \notin camLoaded /\ c \notin WideCtrls)
           /\ camLoaded' = camLoaded /\ camBase' = camBase
           /\ s \in Camera!Settled(c, id, v, items)
  <2>0. s # NoSetting
    BY <1>7 DEF CamParams
  <2>1. camCur' = [camCur EXCEPT ![id] = s]
    BY <1>7 DEF Camera!Stored
  <2>2. /\ DOMAIN camCur' = Camera!Ids /\ camCur'[id] = s
        /\ \A i \in Camera!Ids : i # id => camCur'[i] = camCur[i]
    BY <2>1 DEF CamInv
  <2>3. /\ DOMAIN camMine' = Camera!Ids /\ camMine'[id] = s
        /\ \A i \in Camera!Ids : i # id => camMine'[i] = camMine[i]
    BY <1>7 DEF CamInv
  <2>4. Camera!SettingKept'
    <3> SUFFICES ASSUME NEW d \in camLoaded \ WideCtrls, NEW i \in MapsOf[d]
                 PROVE  camCur'[i] = IF camMine'[i] = NoSetting THEN camBase[i] ELSE camMine'[i]
      BY <1>7 DEF Camera!SettingKept
    <3>1. i \in Camera!Ids
      BY DEF CamInv, Camera!Ids
    <3>2. CASE i = id
      BY <3>2, <2>0, <2>2, <2>3
    <3>3. CASE i # id
      BY <3>1, <3>3, <2>2, <2>3 DEF CamInv, Camera!SettingKept
    <3> QED BY <3>2, <3>3
  <2>5. \A d \in CamControls \ (camLoaded' \cup WideCtrls) : \A i \in MapsOf[d] : camMine'[i] = NoSetting
    <3> SUFFICES ASSUME NEW d \in CamControls \ (camLoaded \cup WideCtrls), NEW i \in MapsOf[d]
                 PROVE  camMine'[i] = NoSetting
      BY <1>7
    <3>1. i \in Camera!Ids /\ i # id
      BY <1>2, <1>7 DEF Camera!Ids
    <3> QED BY <3>1, <2>3 DEF CamInv
  <2>6. camLoaded' \subseteq CamControls
    BY <1>7 DEF CamInv
  <2> QED BY <1>4, <2>2, <2>3, <2>4, <2>5, <2>6 DEF CamInv
<1> QED BY <1>1, <1>5, <1>6, <1>7 DEF c, CamWritten

LEMMA CamGet ==
    ASSUME CamParams, CamInv, Camera!ChainGet
    PROVE  CamInv'
<1>1. PICK id \in Camera!Ids :
        LET c == Camera!CtrlOf(id)
        IN /\ c \notin camLoaded /\ camLoaded' = camLoaded \cup {c}
           /\ camCur' = [i \in Camera!Ids |-> IF i \in MapsOf[c] THEN camDev[i] ELSE camCur[i]]
           /\ camBase' = [i \in Camera!Ids |-> IF i \in MapsOf[c] THEN camDev[i] ELSE camBase[i]]
  <2>1. \A w \in WantedIds : \A id \in Camera!Found(w.id, w.next) : id \in Camera!Ids
    BY DEF Camera!Found, CamInv
  <2> QED BY <2>1 DEF Camera!ChainGet
<1> DEFINE c == Camera!CtrlOf(id)
<1>2. c \in CamControls /\ MapsOf[c] \subseteq Camera!Ids
  BY CamCtrlOf DEF Camera!Ids
<1>3. UNCHANGED <<camPhase, camReady, camMapped, camMem, camMine>>
  BY DEF Camera!ChainGet
<1> HIDE DEF c
<1>4. /\ c \notin camLoaded /\ camLoaded' = camLoaded \cup {c}
      /\ camCur' = [i \in Camera!Ids |-> IF i \in MapsOf[c] THEN camDev[i] ELSE camCur[i]]
      /\ camBase' = [i \in Camera!Ids |-> IF i \in MapsOf[c] THEN camDev[i] ELSE camBase[i]]
  BY <1>1 DEF c
<1>5. /\ camMapped' \subseteq Camera!Ids /\ Camera!AllFreed'
      /\ camPhase' = "none" => camMem' = {}
      /\ camPhase' \in {"made", "failed"} =>
           \A m \in camMem' : m \in Camera!Freed' \/ (m.what = "map" /\ m.of \notin camMapped')
  BY <1>3 DEF CamInv, Camera!AllFreed, Camera!Freed
<1>6. CASE c \notin WideCtrls
  <2>1. \A i \in MapsOf[c] : camMine[i] = NoSetting
    BY <1>2, <1>4, <1>6 DEF CamInv
  <2>2. DOMAIN camCur' = Camera!Ids
    BY <1>4
  <2>3. \A i \in Camera!Ids \ MapsOf[c] :
           camCur'[i] = camCur[i] /\ camMine'[i] = camMine[i] /\ camBase'[i] = camBase[i]
    BY <1>3, <1>4
  <2>4. \A i \in MapsOf[c] :
           camCur'[i] = IF camMine'[i] = NoSetting THEN camBase'[i] ELSE camMine'[i]
    BY <1>2, <1>3, <1>4, <2>1
  <2>5. Camera!SettingKept'
    <3>1. CamLoaded(c)
      BY <1>4, <2>3, <2>4 DEF CamLoaded
    <3> QED BY <1>2, <3>1, CamLoad
  <2> QED BY <1>2, <1>3, <1>4, <1>5, <2>2, <2>5 DEF CamInv
<1>7. CASE c \in WideCtrls
  <2>1. Camera!SettingKept'
    <3> SUFFICES ASSUME NEW d \in camLoaded' \ WideCtrls, NEW i \in MapsOf[d]
                 PROVE  camCur'[i] = IF camMine'[i] = NoSetting THEN camBase'[i] ELSE camMine'[i]
      BY DEF Camera!SettingKept
    <3>1. d \in camLoaded /\ d # c /\ d \in CamControls
      BY <1>4, <1>7 DEF CamInv
    <3>2. i \in Camera!Ids /\ i \notin MapsOf[c]
      BY <1>2, <3>1 DEF Camera!Ids, CamParams
    <3> QED BY <1>3, <1>4, <3>1, <3>2 DEF CamInv, Camera!SettingKept
  <2>2. DOMAIN camCur' = Camera!Ids
    BY <1>4
  <2> QED BY <1>2, <1>3, <1>4, <1>5, <2>1, <2>2 DEF CamInv
<1> QED BY <1>6, <1>7

LEMMA CamStep ==
    ASSUME CamParams, CamInv, [Camera!Next]_(Camera!ctrlVars)
    PROVE  CamInv'
<1>1. CASE Camera!CameraChanges
  BY <1>1 DEF Camera!CameraChanges, CamInv, Camera!SettingKept, Camera!AllFreed, Camera!Freed
<1>2. CASE UNCHANGED Camera!ctrlVars
  BY <1>2 DEF Camera!ctrlVars, CamInv, Camera!SettingKept, Camera!AllFreed, Camera!Freed
<1> QED BY <1>1, <1>2, CamMade, CamFreed, CamSet, CamGet DEF Camera!Next

\* For any camera: what was set stays, the other fields of its control keep what the
\* camera had, and what was allocated is freed.
THEOREM SettingsKept ==
    ASSUME CamParams
    PROVE  Camera!Spec => [](Camera!SettingKept /\ Camera!AllFreed)
<1>1. CamInv => Camera!SettingKept /\ Camera!AllFreed
  BY DEF CamInv
<1> QED BY <1>1, CamInit, CamStep, PTL DEF Camera!Spec
=============================================================================
