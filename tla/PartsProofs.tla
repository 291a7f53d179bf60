---------------------------- MODULE PartsProofs ----------------------------
(***************************************************************************)
(* The theorems of ComponentProofs for the instances of MCParts: every     *)
(* behaviour of one part is one of the component's specification.          *)
(***************************************************************************)
EXTENDS MCParts, FiniteSetTheorems, TLAPS

P == INSTANCE ComponentProofs WITH
    Tasks <- {"t1", "t2", "t3"}, Pipes <- {"p1"}, Nobody <- "nobody", lock <- x1,
    sync <- x2, epEnabled <- x3, epStalled <- x4, call <- x5, trans <- x6, hw <- x7,
    result <- x8,
    FuncsOf <- <<<<"f1">>, <<"f1", "f2">>>>, Failing <- {}, NoCfg <- 0, run <- x1,
    attached <- x2, status <- x3, curCfg <- x4, enabled <- x5, active <- x6,
    stalled <- x7, ep0 <- x8,
    Trps <- {1, 2, 3}, QLen <- 2, Batch <- 2, free <- x1, start <- x2, lost <- x3,
    n_total <- x4, n_start <- x5, busy <- x6, done <- x7, kill <- x8, halt <- x9, netOp <- x10,
    RingSize <- 4, MaxPut <- 4, MaxByte <- 10, ring <- x1, data_pos <- x2, rd_pos <- x3,
    received <- x4, last <- x5,
    Ports <- {1}, MaxPlug <- 3, ErrMax <- 1, plug <- x1, plugged <- x2, chg <- x3,
    hub_status <- x4, trp <- x5, err_cnt <- x6, evt <- x7, p_ports <- x8, thr <- x9,
    stopping <- x10, deaf <- x11, wiped <- x12,
    Chunks <- 2, MaxTag <- 3, host <- x1, dev <- x2, offer <- x3, halted <- x4, store <- x5,
    WatchDevs <- {"d1", "d2"}, Mons <- {"m1", "m2"}, TypesOf <- MonTypes,
    Matches <- MonMatches, Wild <- {}, MaxTold <- 3, jobs <- x1, devList <- x2,
    thread <- x3, watchPc <- x4, mons <- x5, telling <- x6, started <- x7, told <- x8,
    refs <- x9,
    Lus <- {0, 1}, MaxHandles <- 3, msLib <- x1, msAt <- x2, msRef <- x3,
    msRemoved <- x4, msListed <- x5, ready <- x6, bufs <- x7, nextLu <- x8,
    devOpen <- x9, lusOpen <- x10, finding <- x11, devRef <- x12, msFault <- x13,
    SerDevs <- {"d1", "d2"}, SerTrps <- {1}, MaxOpen <- 1, serLib <- x1, serList <- x2,
    serObj <- x3, serTrp <- x4, serCb <- x5, serHeld <- x6, serFinder <- x7,
    WalkNodes <- {"a", "b", "c"}, WalkRoot <- "head", walkInit <- x1, walkList <- x2,
    walkDevs <- x3, walkLoca <- x4, walkGone <- x5, walkRet <- x6, walkAdded <- x7,
    walkFault <- x8,
    MadeClasses <- {"vs", "vp", "hid", "wcid", "ms"}, MadePorts <- 2, madeClass <- x1,
    madeAt <- x2, madeDone <- x3, madeHeld <- x4, madeRet <- x5,
    RbSize <- 3, MaxSent <- 6, Chunk <- 2, portSetup <- x1, portPiped <- x2,
    portEnabled <- x3, portStart <- x4, portHw <- x5, portBuf <- x6, portRb <- x7,
    portSent <- x8, portGot <- x9, portLeaked <- x10, portFault <- x11,
    MaxLu <- 3, NoLu <- 9, unitLus <- x1, unitFreed <- x2, nLu <- x3, luSelect <- x4,
    unitSetup <- x5, unitPiped <- x6, maxLunGet <- x7, unitLock <- x8, unitAt <- x9,
    unitLun <- x10, unitFault <- x11,
    Identities <- {"a", "b"}, PrinterIntf <- 0, printerId <- x1, idCopying <- x2,
    idLock <- x3, printerStatus <- x4, idSent <- x5, printerSetup <- x6,
    PlayFormats <- {"f1", "f2"}, PlayTrps <- {1, 2}, MaxMade <- 2, NoFormat <- "none",
    playOpen <- x1, playState <- x2, playLocked <- x3, playCur <- x4, playEp <- x5,
    playSetup <- x6, playStarted <- x7, playMade <- x8, playEps <- x9, playFlying <- x10,
    playGhost <- x11,
    CamTrps <- {1, 2}, MaxCamOpen <- 2, camSt <- x1, camOpen <- x2, camFrozen <- x3,
    camActs <- x4, camTrp <- x5, camCancelled <- x6, camLock <- x7, camOp <- x8,
    camQueue <- x9, camRemoved <- x10,
    FrameLen <- 2, MaxFrames <- 5, vidQueue <- x1, vidBuf <- x2, vidCur <- x3, vidFid <- x4,
    vidTmp <- x5, vidSent <- x6, vidGap <- x7, vidCompressed <- x8,
    CamUnits <- {1, 2}, CamControls <- CamCtrls, CamXus <- {2}, UnitOfCtrl <- CamUnit,
    KnownCtrls <- CamCtrls, CamBlackListed <- {"old"}, MapsOf <- CamMaps,
    WideCtrls <- {"gain"}, FlagsOf <- CamFlags, KindOf <- CamKind, LimitsOf <- CamLimits,
    MenuOf <- <<0, 2>>, HalfOfInts <- 8, AskedValues <- CamAsked, WantedIds <- CamWants,
    ChangingIds <- {2}, NoSetting <- 99, camPhase <- x1, camReady <- x2, camMapped <- x3,
    camMem <- x4, camCached <- x5, camLoaded <- x6, camDirty <- x7, camFetched <- x8,
    camDev <- x9, camCur <- x10, camBase <- x11, camMine <- x12

\* A step is one of the part that was chosen.
LEMMA PartStays ==
    ASSUME PartsNext
    PROVE  part' = part
BY DEF PartsNext, BufferStep, CtrlStep, PipeStep, BuildStep, BotStep, HubStep, RxStep,
       BytesStep, SerialStep, StreamStep, IsoStep, PeriodStep, PcmStep, LifeStep, AltStep,
       PaceStep, ChoiceStep, MadeStep, VsPortsStep, LunUnitsStep, PrinterStep, StoreStep,
       WalkStep, FieldStep, CameraStep, LinkedStep, ParsedStep, ConfigStep, HidStep,
       WatchStep, QtdsStep, DecodeStep, Keep1, Keep2, Keep3, Keep4, Keep5, Keep6, Keep7,
       Keep8, Keep9, Keep10, Keep11, Keep12, Keep13, Keep14

LEMMA StepOfPart ==
    ASSUME PartsNext
    PROVE  /\ part = "ctrl" => Ctrl!Next
           /\ part = "pipe" => Pipe!Next
           /\ part = "rx" => Rx!Next
           /\ part = "bytes" => Bytes!Next
           /\ part = "hub" => Hub!Next
           /\ part = "bot" => Bot!Next
           /\ part = "serial" => Serial!Next
           /\ part = "msdev" => Store!Next
           /\ part = "liblist" => Walk!Next
           /\ part = "monitor" => Watch!Next
           /\ part = "class" => Made!Next
           /\ part = "port" => VsPorts!Next
           /\ part = "units" => LunUnits!Next
           /\ part = "printer" => Printer!Next
           /\ part = "build" => Build!Next
           /\ part = "hostcfg" => Config!Next
           /\ part = "parse" => Parsed!Next
           /\ part = "hid" => Hid!Next
           /\ part = "life" => Life!Next
           /\ part = "stream" => Stream!Next
           /\ part = "decode" => Decode!Next
           /\ part = "camera" => Camera!Next
BY DEF PartsNext, BufferStep, CtrlStep, PipeStep, BuildStep, BotStep, HubStep, RxStep,
       BytesStep, SerialStep, StreamStep, IsoStep, PeriodStep, PcmStep, LifeStep, AltStep,
       PaceStep, ChoiceStep, MadeStep, VsPortsStep, LunUnitsStep, PrinterStep, StoreStep,
       WalkStep, FieldStep, CameraStep, LinkedStep, ParsedStep, ConfigStep, HidStep,
       WatchStep, QtdsStep, DecodeStep

LEMMA InitOfPart ==
    ASSUME PartsInit
    PROVE  /\ part = "ctrl" => Ctrl!Init
           /\ part = "pipe" => Pipe!Init
           /\ part = "rx" => Rx!Init
           /\ part = "bytes" => Bytes!Init
           /\ part = "hub" => Hub!Init
           /\ part = "bot" => Bot!Init
           /\ part = "serial" => Serial!Init
           /\ part = "msdev" => Store!Init
           /\ part = "liblist" => Walk!Init
           /\ part = "monitor" => Watch!Init
           /\ part = "class" => Made!Init
           /\ part = "port" => VsPorts!Init
           /\ part = "units" => LunUnits!Init
           /\ part = "printer" => Printer!Init
           /\ part = "build" => Build!Init
           /\ part = "hostcfg" => Config!Init
           /\ part = "parse" => Parsed!Init
           /\ part = "hid" => Hid!Init
           /\ part = "life" => Life!Init
           /\ part = "stream" => Stream!Init
           /\ part = "decode" => Decode!Init
           /\ part = "camera" => Camera!Init
BY DEF PartsInit
-----------------------------------------------------------------------------
(* Synchronous transfers of the device                                     *)

LEMMA PipeMaps ==
    /\ Pipe!Init => P!Pipe!Init
    /\ Pipe!Next => P!Pipe!Next
    /\ UNCHANGED partsVars => UNCHANGED P!Pipe!pipeVars
    /\ P!Pipe!FrameAlive => Pipe!FrameAlive
    /\ P!Pipe!ResultFinal => Pipe!ResultFinal
<1>1. Pipe!Init => P!Pipe!Init
  BY DEF Pipe!Init, P!Pipe!Init
<1>2. Pipe!Next => P!Pipe!Next
  BY DEF Pipe!Next, Pipe!Enter, Pipe!Lock, Pipe!Drain, Pipe!StartTrans, Pipe!WaitOk,
         Pipe!WaitTimeout, Pipe!Cancel, Pipe!HwComplete, Pipe!Halt, Pipe!Enable,
         Pipe!Disable, Pipe!At, Pipe!PipeOf, Pipe!Goto, Pipe!Leave, Pipe!Complete,
         P!Pipe!Next, P!Pipe!Enter, P!Pipe!Lock, P!Pipe!Drain, P!Pipe!StartTrans,
         P!Pipe!WaitOk, P!Pipe!WaitTimeout, P!Pipe!Cancel, P!Pipe!HwComplete,
         P!Pipe!Halt, P!Pipe!Enable, P!Pipe!Disable, P!Pipe!At, P!Pipe!PipeOf,
         P!Pipe!Goto, P!Pipe!Leave, P!Pipe!Complete
<1>3. UNCHANGED partsVars => UNCHANGED P!Pipe!pipeVars
  BY DEF partsVars, P!Pipe!pipeVars
<1>4. /\ P!Pipe!FrameAlive => Pipe!FrameAlive
      /\ P!Pipe!ResultFinal => Pipe!ResultFinal
  BY DEF Pipe!FrameAlive, Pipe!ResultFinal, Pipe!At, P!Pipe!FrameAlive,
         P!Pipe!ResultFinal,
         P!Pipe!At
<1> QED BY <1>1, <1>2, <1>3, <1>4

\* A call returns what its own transfer came to, and none when that is still with the
\* controller.
THEOREM PipePartSafe == PartsSpec => []PipeSafe
<1> DEFINE Inv == part = "pipe" => P!PipeInv
<1>1. PartsInit => Inv
  BY InitOfPart, PipeMaps, P!PipeInit
<1>2. Inv /\ [PartsNext]_partsVars => Inv'
  <2> SUFFICES ASSUME Inv, [PartsNext]_partsVars, part' = "pipe"
               PROVE  P!PipeInv'
    OBVIOUS
  <2>1. part = "pipe"
    BY PartStays DEF partsVars
  <2>2. [P!Pipe!Next]_(P!Pipe!pipeVars)
    BY <2>1, StepOfPart, PipeMaps
  <2> QED BY <2>1, <2>2, P!PipeStep
<1>3. Inv => PipeSafe
  BY PipeMaps DEF PipeSafe, P!PipeInv
<1> QED BY <1>1, <1>2, <1>3, PTL DEF PartsSpec
-----------------------------------------------------------------------------
(* The control endpoint of the device                                      *)

LEMMA CtrlMaps ==
    /\ Ctrl!Init => P!Ctrl!Init
    /\ Ctrl!Next => P!Ctrl!Next
    /\ UNCHANGED partsVars => UNCHANGED P!Ctrl!vars
    /\ P!Ctrl!OneStage => Ctrl!OneStage
    /\ P!Ctrl!ConfiguredReady => Ctrl!ConfiguredReady
<1>1. Ctrl!Init => P!Ctrl!Init
  BY DEF
         Ctrl!Init, P!Ctrl!Init
<1>2. Ctrl!Next => P!Ctrl!Next
  <2>1. \A s, d : Ctrl!TransReq(s, d) = P!Ctrl!TransReq(s, d)
    BY DEF Ctrl!TransReq, P!Ctrl!TransReq
  <2>2. \A s, d : Ctrl!Complete(s, d) = P!Ctrl!Complete(s, d)
    BY <2>1 DEF Ctrl!Complete, P!Ctrl!Complete, Ctrl!Other, P!Ctrl!Other
  <2>3. \A s, d : Ctrl!Abort(s, d) = P!Ctrl!Abort(s, d)
    BY <2>2 DEF Ctrl!Abort, P!Ctrl!Abort
  <2>4. \A s : Ctrl!Flush(s) = P!Ctrl!Flush(s) /\ Ctrl!EpReset(s) = P!Ctrl!EpReset(s)
    BY <2>3 DEF Ctrl!Flush, P!Ctrl!Flush, Ctrl!EpReset, P!Ctrl!EpReset
  <2>5. \A s, d, len, data : Ctrl!Answer(s, d, len, data) = P!Ctrl!Answer(s, d, len, data)
    BY <2>1 DEF Ctrl!Answer, P!Ctrl!Answer
  <2>6. \A s, d : Ctrl!Register(s, d) = P!Ctrl!Register(s, d)
    BY DEF Ctrl!Register, P!Ctrl!Register, Ctrl!Other, P!Ctrl!Other
  <2>7. Ctrl!Setup => P!Ctrl!Setup
    BY <2>4, <2>5, <2>6 DEF
       Ctrl!Setup, Ctrl!GetRequest, Ctrl!Refuse, Ctrl!SetAddress, Ctrl!SetInterface,
       Ctrl!ClassRequest, Ctrl!Cfgs, Ctrl!SetConfig, Ctrl!Funcs, Ctrl!Dirs,
       Ctrl!SetHalt, Ctrl!ClearHalt, Ctrl!Reply, Ctrl!Device, Ctrl!Enabled, Ctrl!Range,
       P!Ctrl!Setup, P!Ctrl!GetRequest, P!Ctrl!Refuse, P!Ctrl!SetAddress,
       P!Ctrl!SetInterface, P!Ctrl!ClassRequest, P!Ctrl!Cfgs, P!Ctrl!SetConfig,
       P!Ctrl!Funcs, P!Ctrl!Dirs, P!Ctrl!SetHalt, P!Ctrl!ClearHalt, P!Ctrl!Reply,
       P!Ctrl!Device, P!Ctrl!Enabled, P!Ctrl!Range
  <2>8. Ctrl!BusReset \/ Ctrl!Disconnect \/ Ctrl!Start => P!Ctrl!BusReset \/ P!Ctrl!Disconnect \/ P!Ctrl!Start
    BY <2>4 DEF
       Ctrl!BusReset, Ctrl!Disconnect, Ctrl!Start, Ctrl!ShutDown, Ctrl!Device,
       Ctrl!Range, P!Ctrl!BusReset, P!Ctrl!Disconnect, P!Ctrl!Start, P!Ctrl!ShutDown,
       P!Ctrl!Device, P!Ctrl!Range
  <2>9. Ctrl!StageDone => P!Ctrl!StageDone
    BY <2>2 DEF Ctrl!StageDone, P!Ctrl!StageDone, Ctrl!Device, P!Ctrl!Device
  <2> QED BY <2>7, <2>8, <2>9 DEF Ctrl!Next, P!Ctrl!Next
<1>3. UNCHANGED partsVars => UNCHANGED P!Ctrl!vars
  BY DEF partsVars, P!Ctrl!vars
<1>4. P!Ctrl!OneStage => Ctrl!OneStage
  BY DEF
         Ctrl!OneStage, Ctrl!Dirs, Ctrl!Cardinality, Ctrl!IsFiniteSet, P!Ctrl!OneStage,
         P!Ctrl!Dirs, P!Ctrl!Cardinality, P!Ctrl!IsFiniteSet
<1>5. P!Ctrl!ConfiguredReady => Ctrl!ConfiguredReady
  BY DEF
         Ctrl!ConfiguredReady, Ctrl!Range, P!Ctrl!ConfiguredReady, P!Ctrl!Range
<1> QED BY <1>1, <1>2, <1>3, <1>4, <1>5

LEMMA CtrlParamsHold == P!CtrlParams
<1> DEFINE F == <<<<"f1">>, <<"f1", "f2">>>>
<1>1. P!Ctrl!Cfgs = {1, 2}
  BY DEF P!Ctrl!Cfgs
<1>2. {"f1", "f2"} \subseteq P!Ctrl!Funcs
  BY <1>1 DEF P!Ctrl!Funcs, P!Ctrl!Range
<1>3. F[1] = <<"f1">> /\ F[2] = <<"f1", "f2">>
  OBVIOUS
<1> QED BY <1>1, <1>2, <1>3 DEF P!CtrlParams

\* Endpoint 0 of a device.
THEOREM CtrlPartSafe == PartsSpec => []CtrlSafe
<1> DEFINE Inv == part = "ctrl" => P!CtrlInv /\ P!Ctrl!ConfiguredReady
<1>1. PartsInit => Inv
  BY InitOfPart, CtrlMaps, P!CtrlInit DEF P!Ctrl!Init, P!Ctrl!ConfiguredReady
<1>2. Inv /\ [PartsNext]_partsVars => Inv'
  <2> SUFFICES ASSUME Inv, [PartsNext]_partsVars, part' = "ctrl"
               PROVE  (P!CtrlInv /\ P!Ctrl!ConfiguredReady)'
    OBVIOUS
  <2>1. part = "ctrl"
    BY PartStays DEF partsVars
  <2>2. [P!Ctrl!Next]_(P!Ctrl!vars)
    BY <2>1, StepOfPart, CtrlMaps
  <2> QED BY <2>1, <2>2, CtrlParamsHold, P!CtrlStep, P!CtrlReady
<1>3. Inv => CtrlSafe
  BY CtrlMaps, P!CtrlOneStage DEF CtrlSafe
<1> QED BY <1>1, <1>2, <1>3, PTL DEF PartsSpec

LEMMA CtrlResetMaps == Ctrl!BusReset => P!Ctrl!BusReset
BY ZenonT(60) DEF Ctrl!BusReset, Ctrl!EpReset, Ctrl!Abort, Ctrl!Complete, Ctrl!TransReq, Ctrl!Other,
       Ctrl!ShutDown, Ctrl!Range, P!Ctrl!BusReset, P!Ctrl!EpReset, P!Ctrl!Abort,
       P!Ctrl!Complete, P!Ctrl!TransReq, P!Ctrl!Other, P!Ctrl!ShutDown, P!Ctrl!Range

\* A bus reset of the device leaves endpoint 0 idle.
THEOREM CtrlPartReset == PartsSpec => ResetClean
<1> DEFINE Inv == part = "ctrl" => P!CtrlInv
<1>1. PartsInit => Inv
  BY InitOfPart, CtrlMaps, P!CtrlInit
<1>2. Inv /\ [PartsNext]_partsVars => Inv'
  <2> SUFFICES ASSUME Inv, [PartsNext]_partsVars, part' = "ctrl"
               PROVE  P!CtrlInv'
    OBVIOUS
  <2>1. part = "ctrl"
    BY PartStays DEF partsVars
  <2>2. [P!Ctrl!Next]_(P!Ctrl!vars)
    BY <2>1, StepOfPart, CtrlMaps
  <2> QED BY <2>1, <2>2, CtrlParamsHold, P!CtrlStep
<1>3. Inv /\ [PartsNext]_partsVars
         => [part = "ctrl" /\ Ctrl!BusReset => x8'.busy = {}]_partsVars
  BY CtrlResetMaps, P!CtrlResetIdle
<1> QED BY <1>1, <1>2, <1>3, PTL DEF PartsSpec, ResetClean
-----------------------------------------------------------------------------
(* The receive side of a network device                                    *)

LEMMA RxMaps ==
    /\ Rx!Init => P!Rx!Init
    /\ Rx!Next => P!Rx!Next
    /\ UNCHANGED partsVars => UNCHANGED P!Rx!netVars
    /\ P!Rx!RxOwned => Rx!RxOwned
<1>1. Rx!Init => P!Rx!Init
  BY DEF
         Rx!Init, P!Rx!Init
<1>2. Rx!Next => P!Rx!Next
  BY DEF
         Rx!Next, Rx!NetStart, Rx!StopKill, Rx!StopFree, Rx!Process, Rx!Halt,
         Rx!Complete, Rx!RxDone, Rx!Allocated, Rx!Submit, Rx!NoSubmit, Rx!Cancelled,
         Rx!Flushed, Rx!Alloc, Rx!Cardinality, Rx!IsFiniteSet, P!Rx!Next, P!Rx!NetStart,
         P!Rx!StopKill, P!Rx!StopFree, P!Rx!Process, P!Rx!Halt, P!Rx!Complete,
         P!Rx!RxDone, P!Rx!Allocated, P!Rx!Submit, P!Rx!NoSubmit, P!Rx!Cancelled,
         P!Rx!Flushed, P!Rx!Alloc, P!Rx!Cardinality, P!Rx!IsFiniteSet
<1>3. UNCHANGED partsVars => UNCHANGED P!Rx!netVars
  BY DEF partsVars, P!Rx!netVars
<1>4. P!Rx!RxOwned => Rx!RxOwned
  BY DEF
         Rx!RxOwned, Rx!Alloc, Rx!Cardinality, Rx!IsFiniteSet, P!Rx!RxOwned, P!Rx!Alloc,
         P!Rx!Cardinality, P!Rx!IsFiniteSet
<1> QED BY <1>1, <1>2, <1>3, <1>4

LEMMA BytesMaps ==
    /\ Bytes!Init => P!Bytes!Init
    /\ Bytes!Next => P!Bytes!Next
    /\ UNCHANGED partsVars => UNCHANGED P!Bytes!ringVars
    /\ P!Bytes!RingOrder => Bytes!RingOrder
<1>1. Bytes!Init => P!Bytes!Init
  BY DEF
         Bytes!Init, Bytes!Places, P!Bytes!Init, P!Bytes!Places
<1>2. Bytes!Next => P!Bytes!Next
  BY DEF
         Bytes!Next, Bytes!Put, Bytes!Read, Bytes!Places, Bytes!Taken, Bytes!Wrap,
         Bytes!Given, Bytes!Least, P!Bytes!Next, P!Bytes!Put, P!Bytes!Read,
         P!Bytes!Places, P!Bytes!Taken, P!Bytes!Wrap, P!Bytes!Given, P!Bytes!Least
<1>3. UNCHANGED partsVars => UNCHANGED P!Bytes!ringVars
  BY DEF partsVars, P!Bytes!ringVars
<1>4. P!Bytes!RingOrder => Bytes!RingOrder
  BY DEF
         Bytes!RingOrder, Bytes!Wrap, P!Bytes!RingOrder, P!Bytes!Wrap
<1> QED BY <1>1, <1>2, <1>3, <1>4

LEMMA NetParamsHold == P!IsFiniteSet({1, 2, 3}) /\ P!RingParams
<1>1. \A S : IsFiniteSet(S) => IsFiniteSet(S \cup {2}) /\ IsFiniteSet(S \cup {3})
  BY FS_AddElement
<1>2. IsFiniteSet({1} \cup {2} \cup {3})
  BY <1>1, FS_Singleton
<1>3. {1, 2, 3} = {1} \cup {2} \cup {3}
  OBVIOUS
<1> QED BY <1>2, <1>3 DEF P!RingParams, IsFiniteSet, P!IsFiniteSet

\* Each receive TRP of a network device is on one list, and what is read is what was
\* received, in its order.
THEOREM NetPartSafe == PartsSpec => []NetSafe
<1> DEFINE Inv == /\ part = "rx" => P!RxInv
                  /\ part = "bytes" => P!RingInv
<1>1. PartsInit => Inv
  BY InitOfPart, RxMaps, BytesMaps, P!RxInit, P!RingInit, NetParamsHold
<1>2. Inv /\ [PartsNext]_partsVars => Inv'
  <2> SUFFICES ASSUME Inv, [PartsNext]_partsVars
               PROVE  Inv'
    OBVIOUS
  <2>1. part' = part
    BY PartStays DEF partsVars
  <2>2. part = "rx" => P!RxInv'
    <3>1. part = "rx" => [P!Rx!Next]_(P!Rx!netVars)
      BY StepOfPart, RxMaps
    <3> QED BY <3>1, NetParamsHold, P!RxStep
  <2>3. part = "bytes" => P!RingInv'
    <3>1. part = "bytes" => [P!Bytes!Next]_(P!Bytes!ringVars)
      BY StepOfPart, BytesMaps
    <3> QED BY <3>1, NetParamsHold, P!RingStep
  <2> QED BY <2>1, <2>2, <2>3
<1>3. Inv => NetSafe
  BY RxMaps, BytesMaps, NetParamsHold, P!RingInOrder DEF NetSafe, P!RxInv
<1> QED BY <1>1, <1>2, <1>3, PTL DEF PartsSpec
-----------------------------------------------------------------------------
(* The driver of an external hub                                           *)

LEMMA HubMaps ==
    /\ Hub!Init => P!Hub!Init
    /\ Hub!Next => P!Hub!Next
    /\ UNCHANGED partsVars => UNCHANGED P!Hub!hubVars
    /\ P!Hub!Polled => Hub!Polled
    /\ P!Hub!NoStaleDev => Hub!NoStaleDev
<1>1. Hub!Init => P!Hub!Init
  BY DEF
         Hub!Init, Hub!IdleThr, P!Hub!Init, P!Hub!IdleThr
<1>2. Hub!Next => P!Hub!Next
  BY DEF
         Hub!Next, Hub!Plug, Hub!Unplug, Hub!IntrDone, Hub!HubEvt, Hub!HandleBegin,
         Hub!PortStatus, Hub!HandleEnd, Hub!Connection, Hub!Disconnect, Hub!Connect,
         Hub!Enumerate, Hub!ResetChange, Hub!Start, Hub!StopCancel, Hub!StopDone,
         Hub!Goto, Hub!IdleThr, Hub!Resubmit, Hub!ErrCnt, Hub!Idle, Hub!Same, Hub!Next1,
         Hub!Fails, Hub!ResetFeature, Hub!Busy, P!Hub!Next, P!Hub!Plug, P!Hub!Unplug,
         P!Hub!IntrDone, P!Hub!HubEvt, P!Hub!HandleBegin, P!Hub!PortStatus,
         P!Hub!HandleEnd, P!Hub!Connection, P!Hub!Disconnect, P!Hub!Connect,
         P!Hub!Enumerate, P!Hub!ResetChange, P!Hub!Start, P!Hub!StopCancel,
         P!Hub!StopDone, P!Hub!Goto, P!Hub!IdleThr, P!Hub!Resubmit, P!Hub!ErrCnt,
         P!Hub!Idle, P!Hub!Same, P!Hub!Next1, P!Hub!Fails, P!Hub!ResetFeature,
         P!Hub!Busy
<1>3. UNCHANGED partsVars => UNCHANGED P!Hub!hubVars
  BY DEF partsVars, P!Hub!hubVars
<1>4. P!Hub!Polled => Hub!Polled
  BY DEF
         Hub!Polled, P!Hub!Polled
<1>5. P!Hub!NoStaleDev => Hub!NoStaleDev
  BY DEF
         Hub!NoStaleDev, P!Hub!NoStaleDev
<1> QED BY <1>1, <1>2, <1>3, <1>4, <1>5

LEMMA HubParamsHold == P!HubParams
BY DEF P!HubParams

\* A running hub is polled, and its ports keep no device that has gone.
THEOREM HubPartSafe == PartsSpec => []HubSafe
<1> DEFINE Inv == part = "hub" => P!HubInv
<1>1. PartsInit => Inv
  BY InitOfPart, HubMaps, HubParamsHold, P!HubInit
<1>2. Inv /\ [PartsNext]_partsVars => Inv'
  <2> SUFFICES ASSUME Inv, [PartsNext]_partsVars, part' = "hub"
               PROVE  P!HubInv'
    OBVIOUS
  <2>1. part = "hub"
    BY PartStays DEF partsVars
  <2>2. [P!Hub!Next]_(P!Hub!hubVars)
    BY <2>1, StepOfPart, HubMaps
  <2> QED BY <2>1, <2>2, HubParamsHold, P!HubStep
<1>3. Inv => HubSafe
  BY HubMaps, HubParamsHold, P!HubNoStale DEF HubSafe, P!HubInv
<1> QED BY <1>1, <1>2, <1>3, PTL DEF PartsSpec
-----------------------------------------------------------------------------
(* Mass storage by bulk-only transport                                     *)

LEMMA BotMaps ==
    /\ Bot!Init => P!Bot!Init
    /\ Bot!Next => P!Bot!Next
    /\ UNCHANGED partsVars => UNCHANGED P!Bot!botVars
    /\ P!Bot!InStep => Bot!InStep
    /\ P!Bot!DataWhole => Bot!DataWhole
<1>1. Bot!Init => P!Bot!Init
  BY DEF
         Bot!Init, Bot!None, P!Bot!Init, P!Bot!None
<1>2. Bot!Next => P!Bot!Next
  BY DEF
         Bot!Next, Bot!Ops, Bot!Command, Bot!SendCbw, Bot!SendData, Bot!Receive,
         Bot!HostFails, Bot!ReadChunk, Bot!Rest, Bot!Unstall, Bot!Status,
         Bot!DevTimeout, Bot!To, Bot!AfterCbw, Bot!Start, Bot!Dropped, Bot!IsIn,
         Bot!Data, Bot!HostReads, Bot!None, Bot!Need, Bot!Again, Bot!Offered,
         Bot!HostWrites, Bot!Offer, Bot!Zlp, Bot!Csw, Bot!Retry, P!Bot!Next, P!Bot!Ops,
         P!Bot!Command, P!Bot!SendCbw, P!Bot!SendData, P!Bot!Receive, P!Bot!HostFails,
         P!Bot!ReadChunk, P!Bot!Rest, P!Bot!Unstall, P!Bot!Status, P!Bot!DevTimeout,
         P!Bot!To, P!Bot!AfterCbw, P!Bot!Start, P!Bot!Dropped, P!Bot!IsIn, P!Bot!Data,
         P!Bot!HostReads, P!Bot!None, P!Bot!Need, P!Bot!Again, P!Bot!Offered,
         P!Bot!HostWrites, P!Bot!Offer, P!Bot!Zlp, P!Bot!Csw, P!Bot!Retry
<1>3. UNCHANGED partsVars => UNCHANGED P!Bot!botVars
  BY DEF partsVars, P!Bot!botVars
<1>4. P!Bot!InStep => Bot!InStep
  BY DEF
         Bot!InStep, P!Bot!InStep
<1>5. P!Bot!DataWhole => Bot!DataWhole
  BY DEF
         Bot!DataWhole, Bot!Whole, Bot!Data, P!Bot!DataWhole, P!Bot!Whole, P!Bot!Data
<1> QED BY <1>1, <1>2, <1>3, <1>4, <1>5

LEMMA BotParamsHold == P!BotParams
BY DEF P!BotParams

\* A command that succeeds got its own status and its own data.
THEOREM BotPartSafe == PartsSpec => []BotSafe
<1> DEFINE Inv == part = "bot" => P!BotInv
<1>1. PartsInit => Inv
  BY InitOfPart, BotMaps, BotParamsHold, P!BotInit
<1>2. Inv /\ [PartsNext]_partsVars => Inv'
  <2> SUFFICES ASSUME Inv, [PartsNext]_partsVars, part' = "bot"
               PROVE  P!BotInv'
    OBVIOUS
  <2>1. part = "bot"
    BY PartStays DEF partsVars
  <2>2. [P!Bot!Next]_(P!Bot!botVars)
    BY <2>1, StepOfPart, BotMaps
  <2> QED BY <2>1, <2>2, BotParamsHold, P!BotStep
<1>3. Inv => BotSafe
  BY BotMaps, BotParamsHold, P!BotWhole DEF BotSafe, P!BotInv
<1> QED BY <1>1, <1>2, <1>3, PTL DEF PartsSpec
-----------------------------------------------------------------------------
(* Devices and libraries on the host, and who holds them                   *)

LEMMA SerialMaps ==
    /\ Serial!Init => P!Serial!Init
    /\ Serial!Next => P!Serial!Next
    /\ UNCHANGED partsVars => UNCHANGED P!Serial!serialVars
    /\ P!Serial!CountsExact => Serial!CountsExact
<1>1. Serial!Init => P!Serial!Init
  BY DEF
         Serial!Init, Serial!NoObj, P!Serial!Init, P!Serial!NoObj
<1>2. Serial!Next => P!Serial!Next
  BY DEF
         Serial!Next, Serial!LibInit, Serial!LibDeinit, Serial!ChipInit,
         Serial!CreateList, Serial!CreateRef, Serial!Destroy, Serial!OpenFind,
         Serial!OpenRef, Serial!Close, Serial!PortOpen, Serial!PortClose,
         Serial!ReleaseList, Serial!ReleaseLib, Serial!ReleaseFree, Serial!ReadDone,
         Serial!ReadAgain, Serial!LibPut, Serial!NoObj, Serial!CreateFails, Serial!Put,
         Serial!Alive, Serial!Stages, P!Serial!Next, P!Serial!LibInit,
         P!Serial!LibDeinit, P!Serial!ChipInit, P!Serial!CreateList, P!Serial!CreateRef,
         P!Serial!Destroy, P!Serial!OpenFind, P!Serial!OpenRef, P!Serial!Close,
         P!Serial!PortOpen, P!Serial!PortClose, P!Serial!ReleaseList,
         P!Serial!ReleaseLib, P!Serial!ReleaseFree, P!Serial!ReadDone,
         P!Serial!ReadAgain, P!Serial!LibPut, P!Serial!NoObj, P!Serial!CreateFails,
         P!Serial!Put, P!Serial!Alive, P!Serial!Stages
<1>3. UNCHANGED partsVars => UNCHANGED P!Serial!serialVars
  BY DEF partsVars, P!Serial!serialVars
<1>4. P!Serial!CountsExact => Serial!CountsExact
  BY DEF
         Serial!CountsExact, Serial!ObjCounted, Serial!LibCounted, Serial!DevCounted,
         Serial!Alive, Serial!InLib, Serial!Stages, Serial!Cardinality,
         Serial!IsFiniteSet, P!Serial!CountsExact, P!Serial!ObjCounted,
         P!Serial!LibCounted, P!Serial!DevCounted, P!Serial!Alive, P!Serial!InLib,
         P!Serial!Stages, P!Serial!Cardinality, P!Serial!IsFiniteSet
<1> QED BY <1>1, <1>2, <1>3, <1>4

LEMMA StoreMaps ==
    /\ Store!Init => P!Store!Init
    /\ Store!Next => P!Store!Next
    /\ UNCHANGED partsVars => UNCHANGED P!Store!msDevVars
    /\ P!Store!HandlesCount => Store!HandlesCount
<1>1. Store!Init => P!Store!Init
  BY DEF
         Store!Init, P!Store!Init
<1>2. Store!Next => P!Store!Next
  BY DEF
         Store!Next, Store!LibInit, Store!LibDeinit, Store!Create, Store!InitFails,
         Store!CreateList, Store!CreateCount, Store!Destroy, Store!OpenFind,
         Store!OpenRef, Store!Close, Store!InitLu, Store!LuOpen, Store!LuClose,
         Store!Undo, Store!Handles, Store!Put, Store!NLu, Store!Cardinality,
         Store!IsFiniteSet, P!Store!Next, P!Store!LibInit, P!Store!LibDeinit,
         P!Store!Create, P!Store!InitFails, P!Store!CreateList, P!Store!CreateCount,
         P!Store!Destroy, P!Store!OpenFind, P!Store!OpenRef, P!Store!Close,
         P!Store!InitLu, P!Store!LuOpen, P!Store!LuClose, P!Store!Undo, P!Store!Handles,
         P!Store!Put, P!Store!NLu, P!Store!Cardinality, P!Store!IsFiniteSet
<1>3. UNCHANGED partsVars => UNCHANGED P!Store!msDevVars
  BY DEF partsVars, P!Store!msDevVars
<1>4. P!Store!HandlesCount => Store!HandlesCount
  BY DEF
         Store!HandlesCount, Store!Handles, Store!Cardinality, Store!IsFiniteSet,
         P!Store!HandlesCount, P!Store!Handles, P!Store!Cardinality, P!Store!IsFiniteSet
<1> QED BY <1>1, <1>2, <1>3, <1>4

LEMMA WalkMaps ==
    /\ Walk!Init => P!Walk!Init
    /\ Walk!Next => P!Walk!Next
    /\ UNCHANGED partsVars => UNCHANGED P!Walk!libVars
    /\ P!Walk!TraverseOnce => Walk!TraverseOnce
<1>1. Walk!Init => P!Walk!Init
  BY DEF Walk!Init, P!Walk!Init
<1>2. /\ \A s, i : Walk!RemoveAt(s, i) = P!Walk!RemoveAt(s, i)
      /\ \A s : Walk!ToSet(s) = P!Walk!ToSet(s)
      /\ \A S : Walk!Cardinality(S) = P!Walk!Cardinality(S)
      /\ Walk!Place = P!Walk!Place
  <2>1. \A s, i : Walk!RemoveAt(s, i) = P!Walk!RemoveAt(s, i)
    BY DEF Walk!RemoveAt, P!Walk!RemoveAt
  <2>2. \A s : Walk!ToSet(s) = P!Walk!ToSet(s)
    BY DEF Walk!ToSet, P!Walk!ToSet
  <2>3. \A S : Walk!Cardinality(S) = P!Walk!Cardinality(S)
    BY DEF Walk!Cardinality, P!Walk!Cardinality, Walk!IsFiniteSet, P!Walk!IsFiniteSet
  <2>4. Walk!Place = P!Walk!Place
    BY DEF Walk!Place, P!Walk!Place
  <2> QED BY <2>1, <2>2, <2>3, <2>4
<1>3. Walk!Next => P!Walk!Next
  <2>1. \A n : Walk!DevAdd(n) => P!Walk!DevAdd(n)
    BY <1>2 DEF Walk!DevAdd, P!Walk!DevAdd
  <2>2. \A n : Walk!DevDel(n) => P!Walk!DevDel(n)
    BY <1>2 DEF Walk!DevDel, P!Walk!DevDel
  <2>3. Walk!Traverse => P!Walk!Traverse
    BY <1>2 DEF Walk!Traverse, P!Walk!Traverse
  <2>4. Walk!LibInit \/ Walk!LibDeinit \/ Walk!TraverseReset
           => P!Walk!LibInit \/ P!Walk!LibDeinit \/ P!Walk!TraverseReset
    BY DEF Walk!LibInit, Walk!LibDeinit, Walk!TraverseReset, P!Walk!LibInit,
           P!Walk!LibDeinit, P!Walk!TraverseReset
  <2> QED BY <1>2, <2>1, <2>2, <2>3, <2>4 DEF Walk!Next, P!Walk!Next
<1>4. UNCHANGED partsVars => UNCHANGED P!Walk!libVars
  BY DEF partsVars, P!Walk!libVars
<1>5. P!Walk!TraverseOnce => Walk!TraverseOnce
  BY <1>2 DEF Walk!TraverseOnce, Walk!IsInjective, P!Walk!TraverseOnce, P!Walk!IsInjective
<1> QED BY <1>1, <1>3, <1>4, <1>5

LEMMA WatchMaps ==
    /\ Watch!Init => P!Watch!Init
    /\ Watch!Next => P!Watch!Next
    /\ UNCHANGED partsVars => UNCHANGED P!Watch!monitorVars
    /\ P!Watch!NotMissed => Watch!NotMissed
    /\ P!Watch!LibHeld => Watch!LibHeld
<1>1. Watch!Init => P!Watch!Init
  BY DEF
         Watch!Init, Watch!Idle, P!Watch!Init, P!Watch!Idle
<1>2. Watch!Next => P!Watch!Next
  BY DEF
         Watch!Next, Watch!Inject, Watch!Eject, Watch!Chk, Watch!Job, Watch!Register,
         Watch!List, Watch!Exist, Watch!Found, Watch!Deregister, Watch!Freed,
         Watch!Idle, Watch!Room, Watch!Told, Watch!To, P!Watch!Next, P!Watch!Inject,
         P!Watch!Eject, P!Watch!Chk, P!Watch!Job, P!Watch!Register, P!Watch!List,
         P!Watch!Exist, P!Watch!Found, P!Watch!Deregister, P!Watch!Freed, P!Watch!Idle,
         P!Watch!Room, P!Watch!Told, P!Watch!To
<1>3. UNCHANGED partsVars => UNCHANGED P!Watch!monitorVars
  BY DEF partsVars, P!Watch!monitorVars
<1>4. P!Watch!NotMissed => Watch!NotMissed
  BY DEF
         Watch!NotMissed, Watch!Quiet, Watch!ToldOf, Watch!Idle, P!Watch!NotMissed,
         P!Watch!Quiet, P!Watch!ToldOf, P!Watch!Idle
<1>5. P!Watch!LibHeld => Watch!LibHeld
  BY DEF
         Watch!LibHeld, Watch!Cardinality, Watch!IsFiniteSet, P!Watch!LibHeld,
         P!Watch!Cardinality, P!Watch!IsFiniteSet
<1> QED BY <1>1, <1>2, <1>3, <1>4, <1>5

LEMMA LifeMaps ==
    /\ Life!Init => P!Life!Init
    /\ Life!Next => P!Life!Next
    /\ UNCHANGED partsVars => UNCHANGED P!Life!lifeVars
    /\ P!Life!TrpOnce => Life!TrpOnce
<1>1. Life!Init => P!Life!Init
  BY DEF Life!Init, P!Life!Init
<1>2. Life!Next => P!Life!Next
  BY DEF Life!Next, Life!Open, Life!Close, Life!ParamsRefused, Life!ParamsSet, Life!Prepare,
         Life!Start, Life!Stop, Life!TrpDone, Life!Opened, Life!FormatSet, Life!Configured,
         Life!StartEp, Life!Submitted, Life!Cardinality, Life!IsFiniteSet, P!Life!Next,
         P!Life!Open, P!Life!Close, P!Life!ParamsRefused, P!Life!ParamsSet, P!Life!Prepare,
         P!Life!Start, P!Life!Stop, P!Life!TrpDone, P!Life!Opened, P!Life!FormatSet,
         P!Life!Configured, P!Life!StartEp, P!Life!Submitted, P!Life!Cardinality,
         P!Life!IsFiniteSet
<1>3. UNCHANGED partsVars => UNCHANGED P!Life!lifeVars
  BY DEF partsVars, P!Life!lifeVars
<1>4. P!Life!TrpOnce => Life!TrpOnce
  BY DEF Life!TrpOnce, P!Life!TrpOnce
<1> QED BY <1>1, <1>2, <1>3, <1>4

LEMMA LifeParamsHold ==
    /\ P!IsFiniteSet({"d1", "d2"}) /\ P!WatchParams
    /\ P!IsFiniteSet({0, 1}) /\ "head" \notin {"a", "b", "c"}
<1>1. \A S : IsFiniteSet(S) => IsFiniteSet(S \cup {"d2"}) /\ IsFiniteSet(S \cup {"m2"})
                               /\ IsFiniteSet(S \cup {1})
  BY FS_AddElement
<1>2. IsFiniteSet({"d1"}) /\ IsFiniteSet({"m1"}) /\ IsFiniteSet({0})
  BY FS_Singleton
<1>3. /\ IsFiniteSet({"d1"} \cup {"d2"}) /\ IsFiniteSet({"m1"} \cup {"m2"})
      /\ IsFiniteSet({0} \cup {1})
  BY <1>1, <1>2
<1>4. /\ {"d1", "d2"} = {"d1"} \cup {"d2"} /\ {"m1", "m2"} = {"m1"} \cup {"m2"}
      /\ {0, 1} = {0} \cup {1}
  OBVIOUS
<1>5. /\ IsFiniteSet({"d1", "d2"}) /\ IsFiniteSet({"m1", "m2"}) /\ IsFiniteSet({0, 1})
  BY <1>3, <1>4
<1>6. \A S : IsFiniteSet(S) => P!IsFiniteSet(S)
  BY DEF IsFiniteSet, P!IsFiniteSet
<1> QED BY <1>5, <1>6 DEF P!WatchParams

\* Devices, handles and libraries are counted as they are used, monitors miss no device
\* that is there, a list of devices is traversed once and an audio TRP submitted once.
THEOREM LifePartSafe == PartsSpec => []LifeSafe
<1> DEFINE Inv == /\ part = "serial" => P!SerInv
                  /\ part = "msdev" => P!StoreInv
                  /\ part = "liblist" => P!WalkInv
                  /\ part = "monitor" => P!WatchInv
                  /\ part = "life" => P!LifeInv
<1>1. PartsInit => Inv
  BY InitOfPart, SerialMaps, StoreMaps, WalkMaps, WatchMaps, LifeMaps, LifeParamsHold,
     P!SerInit, P!StoreInit, P!WalkInit, P!WatchInit, P!LifeInit
<1>2. Inv /\ [PartsNext]_partsVars => Inv'
  <2> SUFFICES ASSUME Inv, [PartsNext]_partsVars
               PROVE  Inv'
    OBVIOUS
  <2>1. part' = part
    BY PartStays DEF partsVars
  <2>2. part = "serial" => P!SerInv'
    <3>1. part = "serial" => [P!Serial!Next]_(P!Serial!serialVars)
      BY StepOfPart, SerialMaps
    <3> QED BY <3>1, LifeParamsHold, P!SerStep
  <2>3. part = "msdev" => P!StoreInv'
    <3>1. part = "msdev" => [P!Store!Next]_(P!Store!msDevVars)
      BY StepOfPart, StoreMaps
    <3> QED BY <3>1, LifeParamsHold, P!StoreStep
  <2>4. part = "liblist" => P!WalkInv'
    <3>1. part = "liblist" => [P!Walk!Next]_(P!Walk!libVars)
      BY StepOfPart, WalkMaps
    <3> QED BY <3>1, P!WalkStep
  <2>5. part = "monitor" => P!WatchInv'
    <3>1. part = "monitor" => [P!Watch!Next]_(P!Watch!monitorVars)
      BY StepOfPart, WatchMaps
    <3> QED BY <3>1, LifeParamsHold, P!WatchStep
  <2>6. part = "life" => P!LifeInv'
    <3>1. part = "life" => [P!Life!Next]_(P!Life!lifeVars)
      BY StepOfPart, LifeMaps
    <3>2. P!LifeParams
      BY DEF P!LifeParams
    <3> QED BY <3>1, <3>2, P!LifeStep
  <2> QED BY <2>1, <2>2, <2>3, <2>4, <2>5, <2>6
<1>3. Inv => LifeSafe
  <2>1. P!SerInv => Serial!CountsExact
    BY SerialMaps, P!SerSafe
  <2>2. P!StoreInv => Store!HandlesCount
    BY StoreMaps, LifeParamsHold, P!StoreCounts
  <2>3. P!WalkInv => Walk!TraverseOnce
    BY WalkMaps, P!WalkOnce
  <2>4. P!WatchInv => Watch!NotMissed /\ Watch!LibHeld
    BY WatchMaps, P!WatchNone DEF P!WatchInv
  <2>5. P!LifeInv => Life!TrpOnce
    BY LifeMaps DEF P!LifeInv, P!Life!TrpOnce
  <2> QED BY <2>1, <2>2, <2>3, <2>4, <2>5 DEF LifeSafe
<1> QED BY <1>1, <1>2, <1>3, PTL DEF PartsSpec
-----------------------------------------------------------------------------
(* The classes of the device                                              *)

LEMMA MadeMaps ==
    /\ Made!Init => P!Made!Init
    /\ Made!Next => P!Made!Next
    /\ UNCHANGED partsVars => UNCHANGED P!Made!classVars
    /\ P!Made!CreateBalanced => Made!CreateBalanced
<1>1. Made!Init => P!Made!Init
  BY DEF
         Made!Init, P!Made!Init
<1>2. Made!Next => P!Made!Next
  BY DEF
         Made!Next, Made!Create, Made!CallOk, Made!CallFails, Made!Retry, Made!Destroy,
         Made!Gets, Made!InDev, Made!NCalls, Made!Undo, Made!Freed, Made!VsCalls,
         Made!Names, Made!VsUndo, Made!VpUndo, Made!HidUndo, Made!WcidUndo, Made!MsUndo,
         Made!VsFreed, Made!VpFreed, Made!HidFreed, Made!WcidFreed, Made!MsFreed,
         Made!PortCalls, Made!VpCalls, Made!HidCalls, Made!WcidCalls, Made!MsCalls,
         Made!Own, Made!Rb, Made!PortsDone, Made!Config, P!Made!Next, P!Made!Create,
         P!Made!CallOk, P!Made!CallFails, P!Made!Retry, P!Made!Destroy, P!Made!Gets,
         P!Made!InDev, P!Made!NCalls, P!Made!Undo, P!Made!Freed, P!Made!VsCalls,
         P!Made!Names, P!Made!VsUndo, P!Made!VpUndo, P!Made!HidUndo, P!Made!WcidUndo,
         P!Made!MsUndo, P!Made!VsFreed, P!Made!VpFreed, P!Made!HidFreed,
         P!Made!WcidFreed, P!Made!MsFreed, P!Made!PortCalls, P!Made!VpCalls,
         P!Made!HidCalls, P!Made!WcidCalls, P!Made!MsCalls, P!Made!Own, P!Made!Rb,
         P!Made!PortsDone, P!Made!Config
<1>3. UNCHANGED partsVars => UNCHANGED P!Made!classVars
  BY DEF partsVars, P!Made!classVars
<1>4. P!Made!CreateBalanced => Made!CreateBalanced
  BY DEF
         Made!CreateBalanced, Made!Rb, Made!PortsDone, P!Made!CreateBalanced, P!Made!Rb,
         P!Made!PortsDone
<1> QED BY <1>1, <1>2, <1>3, <1>4

LEMMA VsPortsMaps ==
    /\ VsPorts!Init => P!VsPorts!Init
    /\ VsPorts!Next => P!VsPorts!Next
    /\ UNCHANGED partsVars => UNCHANGED P!VsPorts!vsVars
    /\ P!VsPorts!ReadOnce => VsPorts!ReadOnce
<1>1. VsPorts!Init => P!VsPorts!Init
  BY DEF
         VsPorts!Init, P!VsPorts!Init
<1>2. VsPorts!Next => P!VsPorts!Next
  BY DEF
         VsPorts!Next, VsPorts!DataFuncSet, VsPorts!PortStart, VsPorts!PortRead,
         VsPorts!Shutdown, VsPorts!HostSends, VsPorts!TransDone, VsPorts!Bytes,
         VsPorts!Put, P!VsPorts!Next, P!VsPorts!DataFuncSet, P!VsPorts!PortStart,
         P!VsPorts!PortRead, P!VsPorts!Shutdown, P!VsPorts!HostSends,
         P!VsPorts!TransDone, P!VsPorts!Bytes, P!VsPorts!Put
<1>3. UNCHANGED partsVars => UNCHANGED P!VsPorts!vsVars
  BY DEF partsVars, P!VsPorts!vsVars
<1>4. P!VsPorts!ReadOnce => VsPorts!ReadOnce
  BY DEF
         VsPorts!ReadOnce, P!VsPorts!ReadOnce
<1> QED BY <1>1, <1>2, <1>3, <1>4

LEMMA LunUnitsMaps ==
    /\ LunUnits!Init => P!LunUnits!Init
    /\ LunUnits!Next => P!LunUnits!Next
    /\ UNCHANGED partsVars => UNCHANGED P!LunUnits!unitVars
    /\ P!LunUnits!UnitAlive => LunUnits!UnitAlive
<1>1. LunUnits!Init => P!LunUnits!Init
  BY DEF
         LunUnits!Init, P!LunUnits!Init
<1>2. LunUnits!Next => P!LunUnits!Next
  BY DEF
         LunUnits!Next, LunUnits!LuAdd, LunUnits!GetMaxLun, LunUnits!DataFuncSet,
         LunUnits!Shutdown, LunUnits!Process, LunUnits!Await, LunUnits!Exec,
         LunUnits!LuDel, LunUnits!Command, LunUnits!Free, LunUnits!Exit,
         P!LunUnits!Next, P!LunUnits!LuAdd, P!LunUnits!GetMaxLun,
         P!LunUnits!DataFuncSet, P!LunUnits!Shutdown, P!LunUnits!Process,
         P!LunUnits!Await, P!LunUnits!Exec, P!LunUnits!LuDel, P!LunUnits!Command,
         P!LunUnits!Free, P!LunUnits!Exit
<1>3. UNCHANGED partsVars => UNCHANGED P!LunUnits!unitVars
  BY DEF partsVars, P!LunUnits!unitVars
<1>4. P!LunUnits!UnitAlive => LunUnits!UnitAlive
  BY DEF
         LunUnits!UnitAlive, LunUnits!Cardinality, LunUnits!IsFiniteSet,
         P!LunUnits!UnitAlive, P!LunUnits!Cardinality, P!LunUnits!IsFiniteSet
<1> QED BY <1>1, <1>2, <1>3, <1>4

LEMMA PrinterMaps ==
    /\ Printer!Init => P!Printer!Init
    /\ Printer!Next => P!Printer!Next
    /\ UNCHANGED partsVars => UNCHANGED P!Printer!printerVars
    /\ P!Printer!IdWhole => Printer!IdWhole
<1>1. Printer!Init => P!Printer!Init
  BY DEF
         Printer!Init, Printer!Whole, P!Printer!Init, P!Printer!Whole
<1>2. Printer!Next => P!Printer!Next
  BY DEF
         Printer!Next, Printer!IdSet, Printer!GetDeviceId, Printer!IdCopy,
         Printer!GetPortStatus, Printer!AltSet, Printer!VpShutdown, Printer!Whole,
         P!Printer!Next, P!Printer!IdSet, P!Printer!GetDeviceId, P!Printer!IdCopy,
         P!Printer!GetPortStatus, P!Printer!AltSet, P!Printer!VpShutdown,
         P!Printer!Whole
<1>3. UNCHANGED partsVars => UNCHANGED P!Printer!printerVars
  BY DEF partsVars, P!Printer!printerVars
<1>4. P!Printer!IdWhole => Printer!IdWhole
  BY DEF
         Printer!IdWhole, P!Printer!IdWhole
<1> QED BY <1>1, <1>2, <1>3, <1>4

LEMMA ClassParamsHold == P!MadeParams /\ P!PortParams /\ P!UnitParams
BY DEF P!MadeParams, P!PortParams, P!UnitParams

\* A creation that fails keeps nothing, the bytes of a virtual serial port come once and in
\* order, the unit of a command stays, and an identity is whole.
THEOREM ClassPartSafe == PartsSpec => []ClassSafe
<1> DEFINE Inv == /\ part = "class" => P!MadeInv
                  /\ part = "port" => P!PortInv
                  /\ part = "units" => P!UnitInv
                  /\ part = "printer" => P!IdInv
<1>1. PartsInit => Inv
  BY InitOfPart, MadeMaps, VsPortsMaps, LunUnitsMaps, PrinterMaps, ClassParamsHold,
     P!MadeInit, P!PortInit, P!UnitInit, P!IdInit
<1>2. Inv /\ [PartsNext]_partsVars => Inv'
  <2> SUFFICES ASSUME Inv, [PartsNext]_partsVars
               PROVE  Inv'
    OBVIOUS
  <2>1. part' = part
    BY PartStays DEF partsVars
  <2>2. part = "class" => P!MadeInv'
    <3>1. part = "class" => [P!Made!Next]_(P!Made!classVars)
      BY StepOfPart, MadeMaps
    <3> QED BY <3>1, ClassParamsHold, P!MadeStep
  <2>3. part = "port" => P!PortInv'
    <3>1. part = "port" => [P!VsPorts!Next]_(P!VsPorts!vsVars)
      BY StepOfPart, VsPortsMaps
    <3> QED BY <3>1, ClassParamsHold, P!PortStep
  <2>4. part = "units" => P!UnitInv'
    <3>1. part = "units" => [P!LunUnits!Next]_(P!LunUnits!unitVars)
      BY StepOfPart, LunUnitsMaps
    <3> QED BY <3>1, ClassParamsHold, P!UnitStep
  <2>5. part = "printer" => P!IdInv'
    <3>1. part = "printer" => [P!Printer!Next]_(P!Printer!printerVars)
      BY StepOfPart, PrinterMaps
    <3> QED BY <3>1, P!IdStep
  <2> QED BY <2>1, <2>2, <2>3, <2>4, <2>5
<1>3. Inv => ClassSafe
  <2>1. P!MadeInv => Made!CreateBalanced
    BY MadeMaps DEF P!MadeInv
  <2>2. P!PortInv => VsPorts!ReadOnce
    BY VsPortsMaps, ClassParamsHold, P!PortReads
  <2>3. P!UnitInv => LunUnits!UnitAlive
    BY LunUnitsMaps, ClassParamsHold, P!UnitIsAlive
  <2>4. P!IdInv => Printer!IdWhole
    BY PrinterMaps, P!IdIsWhole
  <2> QED BY <2>1, <2>2, <2>3, <2>4 DEF ClassSafe
<1> QED BY <1>1, <1>2, <1>3, PTL DEF PartsSpec
-----------------------------------------------------------------------------
(* The streams, frames and controls of a camera                           *)

LEMMA StreamMaps ==
    /\ Stream!Init => P!Stream!Init
    /\ Stream!Next => P!Stream!Next
    /\ UNCHANGED partsVars => UNCHANGED P!Stream!streamVars
    /\ P!Stream!StoppedQuiet => Stream!StoppedQuiet
<1>1. Stream!Init => P!Stream!Init
  BY DEF Stream!Init, Stream!Idle, P!Stream!Init, P!Stream!Idle
<1>2. Stream!Next => P!Stream!Next
  BY DEF Stream!Next, Stream!Open, Stream!CfgSet, Stream!Start, Stream!Resume, Stream!Submit,
         Stream!Started, Stream!Stop, Stream!Close, Stream!Suspend, Stream!Cancel,
         Stream!CancelEnd, Stream!Drained, Stream!Remove, Stream!OtherStream, Stream!Complete,
         Stream!Resubmit, Stream!LockTimeout, Stream!Idle, Stream!VideoStart,
         Stream!VideoQueued, Stream!Begin, Stream!Freed, Stream!Busy, P!Stream!Next,
         P!Stream!Open, P!Stream!CfgSet, P!Stream!Start, P!Stream!Resume, P!Stream!Submit,
         P!Stream!Started, P!Stream!Stop, P!Stream!Close, P!Stream!Suspend, P!Stream!Cancel,
         P!Stream!CancelEnd, P!Stream!Drained, P!Stream!Remove, P!Stream!OtherStream,
         P!Stream!Complete, P!Stream!Resubmit, P!Stream!LockTimeout, P!Stream!Idle,
         P!Stream!VideoStart, P!Stream!VideoQueued, P!Stream!Begin, P!Stream!Freed,
         P!Stream!Busy
<1>3. UNCHANGED partsVars => UNCHANGED P!Stream!streamVars
  BY DEF partsVars, P!Stream!streamVars
<1>4. P!Stream!StoppedQuiet => Stream!StoppedQuiet
  BY DEF Stream!StoppedQuiet, Stream!Busy, Stream!Idle, Stream!Cardinality, Stream!IsFiniteSet,
         P!Stream!StoppedQuiet, P!Stream!Busy, P!Stream!Idle, P!Stream!Cardinality,
         P!Stream!IsFiniteSet
<1> QED BY <1>1, <1>2, <1>3, <1>4

LEMMA DecodeMaps ==
    /\ Decode!Init => P!Decode!Init
    /\ Decode!Next => P!Decode!Next
    /\ UNCHANGED partsVars => UNCHANGED P!Decode!decodeVars
    /\ P!Decode!FrameWhole => Decode!FrameWhole
<1>1. Decode!Init => P!Decode!Init
  BY DEF Decode!Init, Decode!Bufs, Decode!Empty, P!Decode!Init, P!Decode!Bufs, P!Decode!Empty
<1>2. Decode!Next => P!Decode!Next
  <2>1. \A p : Decode!Fid(p) = P!Decode!Fid(p)
    BY DEF Decode!Fid, Decode!FrameOf, P!Decode!Fid, P!Decode!FrameOf
  <2>2. \A p : Decode!Eof(p) = P!Decode!Eof(p)
    BY DEF Decode!Eof, P!Decode!Eof
  <2>3. \A b : Decode!Fresh(b) = P!Decode!Fresh(b)
    BY DEF Decode!Fresh, P!Decode!Fresh
  <2>4. \A q, b : Decode!MoveTail(q, b) = P!Decode!MoveTail(q, b)
    BY DEF Decode!MoveTail, Decode!Bufs, P!Decode!MoveTail, P!Decode!Bufs
  <2>5. \A b : Decode!Invalid(b) = P!Decode!Invalid(b)
    BY DEF Decode!Invalid, Decode!Cardinality, Decode!IsFiniteSet, P!Decode!Invalid,
       P!Decode!Cardinality, P!Decode!IsFiniteSet
  <2>6. \A s : Decode!NextBuffer(s) = P!Decode!NextBuffer(s)
    BY <2>3, <2>4, <2>5 DEF Decode!NextBuffer, P!Decode!NextBuffer
  <2>7. \A s, p : Decode!Flushed(s, p) = P!Decode!Flushed(s, p)
    BY <2>1, <2>6 DEF Decode!Flushed, P!Decode!Flushed
  <2>8. \A s, p : Decode!Waits(s, p) = P!Decode!Waits(s, p)
    BY <2>1 DEF Decode!Waits, P!Decode!Waits
  <2>9. \A s, p : Decode!Filled(s, p) = P!Decode!Filled(s, p)
    <3> SUFFICES ASSUME NEW s, NEW p
                 PROVE  Decode!Filled(s, p) = P!Decode!Filled(s, p)
      OBVIOUS
    <3> DEFINE b == s.buf[s.cur]
               full == Cardinality(b.data) = 2
               t == [s EXCEPT !.last = Decode!Fid(p),
                              !.buf[s.cur] = [b EXCEPT !.state = "ACTIVE",
                                                       !.data = IF full THEN b.data ELSE b.data \cup {p}]]
    <3>1. Decode!Cardinality(b.data) = Cardinality(b.data)
          /\ P!Decode!Cardinality(b.data) = Cardinality(b.data)
      BY DEF Decode!Cardinality, P!Decode!Cardinality, Decode!IsFiniteSet,
             P!Decode!IsFiniteSet, Cardinality, IsFiniteSet
    <3>2. Decode!Filled(s, p) = IF full \/ Decode!Eof(p) THEN Decode!NextBuffer(t) ELSE t
      BY <3>1 DEF Decode!Filled
    <3> DEFINE u == [s EXCEPT !.last = P!Decode!Fid(p),
                              !.buf[s.cur] = [b EXCEPT !.state = "ACTIVE",
                                                       !.data = IF full THEN b.data ELSE b.data \cup {p}]]
    <3>3. P!Decode!Filled(s, p) = IF full \/ P!Decode!Eof(p) THEN P!Decode!NextBuffer(u) ELSE u
      BY <3>1 DEF P!Decode!Filled
    <3>4. u = t
      BY <2>1
    <3>5. Decode!Eof(p) = P!Decode!Eof(p)
      BY <2>2
    <3> HIDE DEF t, u, full
    <3> QED BY <3>2, <3>3, <3>4, <3>5, <2>6
  <2>10. \A s, p : Decode!Decoded(s, p) = P!Decode!Decoded(s, p)
    BY <2>7, <2>8, <2>9 DEF Decode!Decoded, P!Decode!Decoded
  <2>11. Decode!Decoder = P!Decode!Decoder
    BY DEF Decode!Decoder, P!Decode!Decoder
  <2>12. Decode!TrpBegin => P!Decode!TrpBegin
    BY Zenon DEF Decode!TrpBegin, Decode!Bufs, Decode!Skipped, Decode!Unused, P!Decode!TrpBegin,
       P!Decode!Bufs, P!Decode!Skipped, P!Decode!Unused
  <2>13. Decode!TrpEnd => P!Decode!TrpEnd
    BY Zenon DEF Decode!TrpEnd, P!Decode!TrpEnd
  <2>14. Decode!Packet => P!Decode!Packet
    BY <2>10, <2>11 DEF Decode!Packet, Decode!Skipped, P!Decode!Packet, P!Decode!Skipped
  <2>15. Decode!Lost => P!Decode!Lost
    BY Zenon DEF Decode!Lost, Decode!Skipped, P!Decode!Lost, P!Decode!Skipped
  <2>16. Decode!Short => P!Decode!Short
    BY Zenon DEF Decode!Short, P!Decode!Short
  <2>17. Decode!VideoGet => P!Decode!VideoGet
    BY Zenon DEF Decode!VideoGet, Decode!Bufs, P!Decode!VideoGet, P!Decode!Bufs
  <2>18. Decode!VideoPut => P!Decode!VideoPut
    BY <2>3, Zenon DEF Decode!VideoPut, P!Decode!VideoPut
  <2> QED BY <2>12, <2>13, <2>14, <2>15, <2>16, <2>17, <2>18 DEF Decode!Next, P!Decode!Next
<1>3. UNCHANGED partsVars => UNCHANGED P!Decode!decodeVars
  BY DEF partsVars, P!Decode!decodeVars
<1>4. P!Decode!FrameWhole => Decode!FrameWhole
  BY DEF Decode!FrameWhole, Decode!Bufs, Decode!FrameOf, Decode!Cardinality,
         Decode!IsFiniteSet, P!Decode!FrameWhole, P!Decode!Bufs, P!Decode!FrameOf,
         P!Decode!Cardinality, P!Decode!IsFiniteSet
<1> QED BY <1>1, <1>2, <1>3, <1>4

LEMMA CameraMaps ==
    /\ Camera!Init => P!Camera!Init
    /\ Camera!Next => P!Camera!Next
    /\ UNCHANGED partsVars => UNCHANGED P!Camera!ctrlVars
    /\ P!Camera!SettingKept => Camera!SettingKept
    /\ P!Camera!AllFreed => Camera!AllFreed
<1>1. Camera!Init => P!Camera!Init
  BY DEF Camera!Init, Camera!Ids, P!Camera!Init, P!Camera!Ids
<1>2. Camera!Next => P!Camera!Next
  <2>1. Camera!CtrlInit => P!Camera!CtrlInit
    BY Zenon DEF Camera!CtrlInit, Camera!Ids, Camera!UnitCtrls, Camera!InfoAdded,
       Camera!MapsAdded, Camera!Alloc, Camera!IsXu, Camera!Cardinality, Camera!IsFiniteSet,
       P!Camera!CtrlInit, P!Camera!Ids, P!Camera!UnitCtrls, P!Camera!InfoAdded,
       P!Camera!MapsAdded, P!Camera!Alloc, P!Camera!IsXu, P!Camera!Cardinality,
       P!Camera!IsFiniteSet
  <2>2. Camera!CtrlDeinit => P!Camera!CtrlDeinit
    <3>1. \A what, x : Camera!Alloc(what, x) = P!Camera!Alloc(what, x)
      BY DEF Camera!Alloc, P!Camera!Alloc
    <3>2. Camera!Freed = P!Camera!Freed
      BY <3>1 DEF Camera!Freed, P!Camera!Freed
    <3> QED BY <3>2 DEF Camera!CtrlDeinit, P!Camera!CtrlDeinit
  <2>3. Camera!ChainSet => P!Camera!ChainSet
    BY Zenon DEF Camera!ChainSet, Camera!Found, Camera!Items, Camera!CtrlOf, Camera!Populated,
       Camera!Settled, Camera!Stored, Camera!Ids, Camera!Order, Camera!IsXu, Camera!Stepped,
       Camera!Item, Camera!Clamp, Camera!Wrap, Camera!Min, Camera!Max, P!Camera!ChainSet,
       P!Camera!Found, P!Camera!Items, P!Camera!CtrlOf, P!Camera!Populated, P!Camera!Settled,
       P!Camera!Stored, P!Camera!Ids, P!Camera!Order, P!Camera!IsXu, P!Camera!Stepped,
       P!Camera!Item, P!Camera!Clamp, P!Camera!Wrap, P!Camera!Min, P!Camera!Max
  <2>4. Camera!ChainGet => P!Camera!ChainGet
    BY Zenon DEF Camera!ChainGet, Camera!Found, Camera!CtrlOf, Camera!Ids, P!Camera!ChainGet,
       P!Camera!Found, P!Camera!CtrlOf, P!Camera!Ids
  <2>5. Camera!CameraChanges => P!Camera!CameraChanges
    BY Zenon DEF Camera!CameraChanges, P!Camera!CameraChanges
  <2> QED BY <2>1, <2>2, <2>3, <2>4, <2>5 DEF Camera!Next, P!Camera!Next
<1>3. UNCHANGED partsVars => UNCHANGED P!Camera!ctrlVars
  BY DEF partsVars, P!Camera!ctrlVars
<1>4. P!Camera!SettingKept => Camera!SettingKept
  BY DEF Camera!SettingKept, P!Camera!SettingKept
<1>5. P!Camera!AllFreed => Camera!AllFreed
  BY DEF Camera!AllFreed, P!Camera!AllFreed
<1> QED BY <1>1, <1>2, <1>3, <1>4, <1>5

\* The greater and the less of two ints, and the step next to a value.
LEMMA CamMax ==
    ASSUME NEW a \in Int, NEW b \in Int
    PROVE  P!Camera!Max({a, b}) \in Int
<1> DEFINE m == IF a <= b THEN b ELSE a
<1>1. m \in {a, b} /\ \A y \in {a, b} : m >= y
  OBVIOUS
<1> HIDE DEF m
<1>2. P!Camera!Max({a, b}) \in {a, b}
  BY <1>1 DEF P!Camera!Max
<1> QED BY <1>2

LEMMA CamMin ==
    ASSUME NEW a \in Int, NEW b \in Int
    PROVE  P!Camera!Min({a, b}) <= b
<1> DEFINE m == IF a <= b THEN a ELSE b
<1>1. m \in {a, b} /\ \A y \in {a, b} : m <= y
  OBVIOUS
<1> HIDE DEF m
<1>2. P!Camera!Min({a, b}) <= b
  BY <1>1 DEF P!Camera!Min
<1> QED BY <1>2

LEMMA CamStepped ==
    ASSUME NEW v \in Int, NEW lo \in Int, NEW hi \in Int, NEW st \in Nat
    PROVE  P!Camera!Stepped(v, lo, hi, st) <= hi
<1> DEFINE step == IF st = 0 THEN 1 ELSE st
           n == ((v - lo) + step \div 2) % 16
           k == lo + (n \div step) * step
           w == P!Camera!Wrap(k)
<1>1. step \in Nat /\ step > 0
  OBVIOUS
<1>2. n \in Int
  <2> HIDE DEF step
  <2>1. (v - lo) + step \div 2 \in Int
    BY <1>1
  <2> QED BY <2>1
<1>3. k \in Int
  <2> HIDE DEF step, n
  <2>1. n \div step \in Int
    BY <1>1, <1>2
  <2> QED BY <1>1, <2>1
<1>4. w \in Int
  <2> HIDE DEF k
  <2> QED BY <1>3 DEF P!Camera!Wrap
<1>5. P!Camera!Stepped(v, lo, hi, st) = P!Camera!Min({P!Camera!Max({w, lo}), hi})
  BY DEF P!Camera!Stepped, P!Camera!Clamp
<1> HIDE DEF w
<1> QED BY <1>4, <1>5, CamMax, CamMin

LEMMA CamParamsHold == P!CamParams
<1>1. \A c, d \in CamCtrls : c # d => CamMaps[c] \cap CamMaps[d] = {}
  BY DEF CamCtrls, CamMaps
<1>2. ASSUME NEW id \in P!Camera!Ids, NEW v \in CamAsked, NEW c, NEW items
      PROVE  99 \notin P!Camera!Settled(c, id, v, items)
  <2>1. id \in 1 .. 4
    BY DEF P!Camera!Ids, CamMaps, CamCtrls
  <2>2. CASE id = 4
    <3>1. CamKind[id] = "menu"
      BY <2>1, <2>2 DEF CamKind
    <3> QED BY <3>1 DEF P!Camera!Settled
  <2>3. CASE id # 4
    <3>1. CamKind[id] = "int"
      BY <2>1, <2>3 DEF CamKind
    <3> DEFINE lo == P!Camera!Item(items, id, "min")
               hi == P!Camera!Item(items, id, "max")
               st == P!Camera!Item(items, id, "res")
    <3>2. lo \in -3 .. 0 /\ hi \in 0 .. 5 /\ st \in 0 .. 3
      BY <2>1, <2>3 DEF P!Camera!Item, CamLimits
    <3>3. v \in Int
      BY DEF CamAsked
    <3>4. P!Camera!Settled(c, id, v, items) = {P!Camera!Stepped(v, lo, hi, st)}
      BY <3>1 DEF P!Camera!Settled
    <3> HIDE DEF lo, hi, st
    <3>5. P!Camera!Stepped(v, lo, hi, st) # 99
      BY <3>2, <3>3, CamStepped
    <3> QED BY <3>4, <3>5
  <2> QED BY <2>2, <2>3
<1> QED BY <1>1, <1>2 DEF P!CamParams

LEMMA VideoParamsHold == P!StreamParams /\ P!VidParams /\ P!CamParams
<1>1. IsFiniteSet({1} \cup {2})
  BY FS_Singleton, FS_AddElement
<1>2. P!StreamParams
  <2>1. {1} \cup {2} = {1, 2}
    OBVIOUS
  <2> QED BY <1>1, <2>1 DEF P!StreamParams, P!IsFiniteSet, IsFiniteSet
<1> QED BY <1>2, CamParamsHold DEF P!VidParams

\* A stream of a camera that is stopped has nothing with the controller, a frame that is
\* done is whole, settings are kept, and what the controls allocate is freed.
THEOREM VideoPartSafe == PartsSpec => []VideoSafe
<1> DEFINE Inv == /\ part = "stream" => P!StreamInv
                  /\ part = "decode" => P!VidInv
                  /\ part = "camera" => P!CamInv
<1>1. PartsInit => Inv
  BY InitOfPart, StreamMaps, DecodeMaps, CameraMaps, VideoParamsHold, P!StreamInit, P!VidInit,
     P!CamInit
<1>2. Inv /\ [PartsNext]_partsVars => Inv'
  <2> SUFFICES ASSUME Inv, [PartsNext]_partsVars
               PROVE  Inv'
    OBVIOUS
  <2>1. part' = part
    BY PartStays DEF partsVars
  <2>2. part = "stream" => P!StreamInv'
    <3>1. part = "stream" => [P!Stream!Next]_(P!Stream!streamVars)
      BY StepOfPart, StreamMaps
    <3> QED BY <3>1, VideoParamsHold, P!StreamStep
  <2>3. part = "decode" => P!VidInv'
    <3>1. part = "decode" => [P!Decode!Next]_(P!Decode!decodeVars)
      BY StepOfPart, DecodeMaps
    <3> QED BY <3>1, VideoParamsHold, P!VidStep
  <2>4. part = "camera" => P!CamInv'
    <3>1. part = "camera" => [P!Camera!Next]_(P!Camera!ctrlVars)
      BY StepOfPart, CameraMaps
    <3> QED BY <3>1, VideoParamsHold, P!CamStep
  <2> QED BY <2>1, <2>2, <2>3, <2>4
<1>3. Inv => VideoSafe
  <2>1. P!StreamInv => Stream!StoppedQuiet
    BY StreamMaps, P!StreamQuiet
  <2>2. P!VidInv => Decode!FrameWhole
    BY DecodeMaps, P!VidDone
  <2>3. P!CamInv => Camera!SettingKept /\ Camera!AllFreed
    BY CameraMaps DEF P!CamInv
  <2> QED BY <2>1, <2>2, <2>3 DEF VideoSafe
<1> QED BY <1>1, <1>2, <1>3, PTL DEF PartsSpec
=============================================================================
