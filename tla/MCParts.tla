------------------------------ MODULE MCParts ------------------------------
(***************************************************************************)
(* Small instances of the components that need few states, one per         *)
(* behaviour, with the ring buffer of usb_lib.c.                           *)
(***************************************************************************)
EXTENDS RingBuf, Integers

\* Intervals of the parameters an application may ask an audio stream for.
Between(min, max, int) ==
    [min |-> min, max |-> max, openmin |-> FALSE, openmax |-> FALSE, integer |-> int]
AskedIntervals ==
    {[rate |-> r, size |-> s, time |-> t, periods |-> p, buffer |-> b] :
        r \in {Between(1, 6, TRUE), Between(3, 3, TRUE), Between(2, 4, TRUE)},
        s \in {Between(1, 8, TRUE), Between(2, 3, TRUE), Between(4, 4, TRUE)},
        p \in {Between(1, 4, TRUE), Between(2, 2, TRUE)},
        b \in {Between(0, 100, TRUE), Between(6, 8, TRUE), Between(8, 8, TRUE)},
        t \in {Between(0, 1000, FALSE), Between(3, 4, FALSE)}}

\* The controls of a camera: one that is wide, two fields of one, a menu, one that
\* the device is known to have wrong, and one of an extension unit.
CamCtrls == {"gain", "pantilt", "menu", "old", "vendor"}
CamUnit == [c \in CamCtrls |-> IF c = "vendor" THEN 2 ELSE 1]
CamMaps == [c \in CamCtrls |-> CASE c = "gain" -> {1} [] c = "pantilt" -> {2, 3}
                                 [] c = "menu" -> {4} [] OTHER -> {}]
CamFlags == [c \in CamCtrls |-> IF c = "menu" THEN {"set"}
                                 ELSE {"set", "cur", "def", "min", "max", "res"}]
CamKind == [i \in 1 .. 4 |-> IF i = 4 THEN "menu" ELSE "int"]
CamLimits == [i \in 1 .. 3 |-> [min |-> -3, max |-> 5, res |-> i]]
CamAsked == {-5, 6}
FieldValues == {-200, -5, -1, 0, 1, 3, 100, 255, 256, 40000}
CamWants == [id : {1, 2, 4}, next : {FALSE}] \cup {[id |-> 2, next |-> TRUE]}

\* The entities of a camera: two inputs, a selector, a processing and an extension
\* unit, and two outputs, with the sources that each may have.
CamList == <<"i", "j", "s", "p", "x", "o1", "o2">>
CamType == [i |-> "it", j |-> "it", s |-> "su", p |-> "pu", x |-> "xu", o1 |-> "ot", o2 |-> "ot"]
CamSources ==
    [i |-> {<<>>}, j |-> {<<>>}, s |-> {<<"i", "j">>, <<"j", "x">>, <<"i">>},
     p |-> {<<"i">>, <<"s">>}, x |-> {<<"p">>, <<"x">>, <<"i">>},
     o1 |-> {<<"p">>, <<"s">>, <<"x">>}, o2 |-> {<<"p">>, <<"x">>}]

\* Items of report descriptors.
HidItems ==
    {[t |-> k, v |-> 0] : k \in {"open", "close", "push", "pop", "delim", "long", "other"}}
    \cup {[t |-> "delim", v |-> 1], [t |-> "page", v |-> 1], [t |-> "count", v |-> 3],
         [t |-> "usage", v |-> 7], [t |-> "min", v |-> 1], [t |-> "upto", v |-> 2],
         [t |-> "field", v |-> "input"]}

\* Configurations of a device: descriptors of associations, interfaces and endpoints.
DA(f, n) == [k |-> "assoc", first |-> f, n |-> n]
DI(n, a, e) == [k |-> "intf", num |-> n, alt |-> a, eps |-> e]
DE(a) == [k |-> "ep", addr |-> a]
DO == [k |-> "other"]
DevConfigs ==
    {[num |-> 3, desc |-> <<DA(0, 2), DI(0, 0, 1), DO, DE(1), DI(1, 0, 0), DI(1, 1, 1), DE(2),
                            DI(2, 0, 1), DE(3)>>],
     [num |-> 2, desc |-> <<DI(0, 0, 1), DE(1), DI(0, 1, 1), DE(1), DE(2), DI(1, 0, 2), DE(2)>>],
     [num |-> 1, desc |-> <<DI(0, 0, 1), DE(1), DI(1, 0, 1), DE(2)>>],
     [num |-> 2, desc |-> <<DI(0, 0, 1), DE(1), DI(1, 0, 1), DE(0)>>],
     [num |-> 4, desc |-> <<DI(0, 0, 0), DA(1, 2), DI(1, 0, 1), DE(1), DI(2, 0, 0), DI(2, 1, 1),
                            DE(2), DI(3, 0, 1), DE(1)>>],
     [num |-> 2, desc |-> <<DA(0, 2), DI(0, 0, 1), DE(1), DI(1, 0, 0), DI(1, 1, 1), DE(2),
                            DI(1, 2, 2), DE(2), DE(3)>>]}

\* Monitors of devices: one of any event, and one of devices that are there.
MonTypes == [m1 |-> {"inject", "eject", "exist"}, m2 |-> {"exist"}]
MonMatches == [m1 |-> {"d1", "d2"}, m2 |-> {"d1"}]

VARIABLES part, x1, x2, x3, x4, x5, x6, x7, x8, x9, x10, x11, x12, x13, x14

\* The part chosen at first runs alone; the slots x1, x2, ... hold its variables.
\* A part with n of them starts with the others at 0 and leaves them alone.
Zero14 == TRUE
Keep14 == UNCHANGED part
Zero13 == x14 = 0 /\ Zero14
Keep13 == UNCHANGED x14 /\ Keep14
Zero12 == x13 = 0 /\ Zero13
Keep12 == UNCHANGED x13 /\ Keep13
Zero11 == x12 = 0 /\ Zero12
Keep11 == UNCHANGED x12 /\ Keep12
Zero10 == x11 = 0 /\ Zero11
Keep10 == UNCHANGED x11 /\ Keep11
Zero9 == x10 = 0 /\ Zero10
Keep9 == UNCHANGED x10 /\ Keep10
Zero8 == x9 = 0 /\ Zero9
Keep8 == UNCHANGED x9 /\ Keep9
Zero7 == x8 = 0 /\ Zero8
Keep7 == UNCHANGED x8 /\ Keep8
Zero6 == x7 = 0 /\ Zero7
Keep6 == UNCHANGED x7 /\ Keep7
Zero5 == x6 = 0 /\ Zero6
Keep5 == UNCHANGED x6 /\ Keep6
Zero4 == x5 = 0 /\ Zero5
Keep4 == UNCHANGED x5 /\ Keep5
Zero3 == x4 = 0 /\ Zero4
Keep3 == UNCHANGED x4 /\ Keep4
Zero2 == x3 = 0 /\ Zero3
Keep2 == UNCHANGED x3 /\ Keep3
Zero1 == x2 = 0 /\ Zero2
Keep1 == UNCHANGED x2 /\ Keep2
-----------------------------------------------------------------------------
Ctrl == INSTANCE DevCtrl WITH 
    FuncsOf <- <<<<"f1">>, <<"f1", "f2">>>>, Failing <- {}, None <- 0, run <- x1,
    attached <- x2, status <- x3, curCfg <- x4, enabled <- x5, active <- x6,
    stalled <- x7, ep0 <- x8
Pipe == INSTANCE DevPipe WITH 
    Tasks <- {"t1", "t2", "t3"}, Pipes <- {"p1"}, Nobody <- "nobody", lock <- x1,
    sync <- x2, enabled <- x3, stalled <- x4, call <- x5, trans <- x6, hw <- x7, result <- x8
Build == INSTANCE DevBuild WITH 
    Strings <- 1 .. 9, MaxCfg <- 2, Intfs <- {0, 1}, EpNums <- {1, 2}, MaxPipes <- 2,
    MaxFuncs <- 2, strMask <- x1, dev <- x2, devStr <- x3, nCfg <- x4, cfg <- x5
Bot == INSTANCE MsBot WITH 
    Chunks <- 2, MaxTag <- 3, host <- x1, dev <- x2, offer <- x3, halted <- x4, store <- x5
Hub == INSTANCE HubDrv WITH 
    Ports <- {1}, MaxPlug <- 3, ErrMax <- 1, plug <- x1, plugged <- x2, chg <- x3,
    status <- x4, trp <- x5, err_cnt <- x6, evt <- x7, p_ports <- x8, thr <- x9,
    stopping <- x10, deaf <- x11, wiped <- x12
Rx == INSTANCE NetRx WITH 
    Trps <- {1, 2, 3}, QLen <- 2, Batch <- 2, free <- x1, start <- x2, lost <- x3,
    n_total <- x4, n_start <- x5, busy <- x6, done <- x7, kill <- x8, halt <- x9, op <- x10
Bytes == INSTANCE NetRing WITH 
    Size <- 4, MaxLen <- 4, MaxByte <- 10, ring <- x1, data_pos <- x2, rd_pos <- x3,
    received <- x4, last <- x5
Serial == INSTANCE SerialDrv WITH 
    Devs <- {"d1", "d2"}, Trps <- {1}, MaxOpen <- 1, lib <- x1, list <- x2, obj <- x3,
    trp <- x4, cb <- x5, held <- x6, finder <- x7
Stream == INSTANCE UvcStream WITH 
    Trps <- {1, 2}, MaxOpen <- 2, st <- x1, open_cnt <- x2, frozen <- x3, n_act <- x4,
    trp <- x5, cancelled <- x6, lock <- x7, op <- x8, queue <- x9, removed <- x10
Iso == INSTANCE EhciIso WITH 
    Frames <- 4, PerFrame <- 2, Ahead <- 2, Interval <- 1, Packets <- 3, Trps <- {1, 2},
    Streams <- {1, 2}, MaxItds <- 5, NoStream <- 0, now <- x1, last <- x2, list <- x3,
    pool <- x4, hw_priv <- x5, stream <- x6, trp <- x7, isoc_count <- x8, misplaced <- x9
Period == INSTANCE EhciPeriod WITH 
    Qhs <- 1 .. 3, FrameCount <- 8, Intervals <- {0, 1, 2, 4}, MaxPeriod <- 4,
    head <- x1, next <- x2, state <- x3, period <- x4, phase <- x5
Pcm == INSTANCE UacPcm WITH 
    Frames <- 4, PeriodSize <- 2, Boundary <- 8, Counts <- {1, 2}, Packets <- 2,
    TrpFrames <- 2, MaxWritten <- 8, status <- x1, running <- x2, appl_ptr <- x3,
    hw_ptr <- x4, hw_base <- x5, silence <- x6, ring <- x7, xfer <- x8, call <- x9,
    written <- x10, sent <- x11, fault <- x12
Life == INSTANCE UacLife WITH 
    Formats <- {"f1", "f2"}, Trps <- {1, 2}, MaxMade <- 2, None <- "none", open <- x1,
    state <- x2, locked <- x3, cur <- x4, dataEp <- x5, needSetup <- x6, started <- x7,
    made <- x8, ep <- x9, flying <- x10, ghost <- x11
Alt == INSTANCE UacFormats WITH 
    Eps <- {[ep |-> 1, dir |-> "play"], [ep |-> 2, dir |-> "play"], [ep |->
    129, dir |-> "capture"]}, Types <- {1, 2}, Kinds <- {[async |-> TRUE, mps
    |-> 2], [async |-> FALSE, mps |-> 2], [async |-> FALSE, mps |-> 1]},
    RateLists <- {<<>>, <<1, 0>>}, Ranges <- {[min |-> 1, max |-> 2]},
    MaxAlts <- 3, parsed <- x1, streams <- x2
Pace == INSTANCE UacRate WITH 
    Rates <- {8000, 44100, 48000, 192000}, Intervals <- 0 .. 3, Strides <- {2,
    4}, MaxPacks <- {100, 800}, Periods <- {32, 441, 4800}, Buffers <- {2, 4},
    PacketLimit <- 12, fmt <- x1, conf <- x2, phase <- x3, packets <- x4, frames <- x5,
    last <- x6
Choice == INSTANCE UacRule WITH 
    Asked <- AskedIntervals, List <- {2, 3, 5}, K <- 5, MaxInt <- 1000, asked <- x1,
    iv <- x2, stamped <- x3, again <- x4, pc <- x5
Made == INSTANCE DevClass WITH 
    Classes <- {"vs", "vp", "hid", "wcid", "ms"}, NPorts <- 2, class <- x1,
    at <- x2, done <- x3, held <- x4, ret <- x5
VsPorts == INSTANCE VsPort WITH 
    RbSize <- 3, MaxByte <- 6, Chunk <- 2, isSetup <- x1, piped <- x2, enabled <- x3,
    isStart <- x4, hw <- x5, buf <- x6, rb <- x7, sent <- x8, got <- x9, leaked <- x10,
    fault <- x11
LunUnits == INSTANCE MsUnits WITH 
    MaxLu <- 3, NoLu <- 9, lus <- x1, freed <- x2, nLu <- x3, select <- x4, isSetup <- x5,
    piped <- x6, maxLunGet <- x7, lock <- x8, at <- x9, lun <- x10, fault <- x11
Printer == INSTANCE VpPrinter WITH 
    Ids <- {"a", "b"}, Intf <- 0, id <- x1, copying <- x2, lock <- x3, status <- x4,
    sent <- x5, isSetup <- x6
Store == INSTANCE MsDev WITH 
    Lus <- {0, 1}, MaxHandles <- 3, lib <- x1, at <- x2, ref <- x3, removed <- x4,
    listed <- x5, ready <- x6, bufs <- x7, next <- x8, devs <- x9, lus <- x10, finder <- x11,
    devRef <- x12, fault <- x13
Walk == INSTANCE LibList WITH 
    Nodes <- {"a", "b", "c"}, Root <- "head", isInit <- x1, list <- x2, nDev <- x3,
    loca <- x4, gone <- x5, returned <- x6, added <- x7, fault <- x8
Field == INSTANCE UvcField WITH 
    Sizes <- {1, 4, 8, 9, 16}, Offsets <- {0, 2, 4, 8, 12}, Fills <- {0, 165,
    255}, Values <- FieldValues, field <- x1, data <- x2, orig <- x3, value <- x4,
    done <- x5
Camera == INSTANCE UvcCtrl WITH 
    Units <- {1, 2}, Xus <- {2}, Ctrls <- CamCtrls, UnitOf <- CamUnit,
    Known <- CamCtrls, BlackListed <- {"old"}, Maps <- CamMaps, Wide <- {"gain"},
    Flags <- CamFlags, Kind <- CamKind, Limits <- CamLimits, Menu <- <<0, 2>>, Half <- 8,
    Wants <- CamWants, Asked <- CamAsked, Changing <- {2}, NoValue <- 99, phase <- x1,
    ready <- x2, mapped <- x3, mem <- x4, cached <- x5, loaded <- x6, dirty <- x7,
    fetched <- x8, dev <- x9, cur <- x10, base <- x11, mine <- x12
Linked == INSTANCE UvcChain WITH 
    Listed <- CamList, Type <- CamType, Reserved <- {"j"}, Streaming <- {"o1",
    "o2"}, Sources <- CamSources, None <- "none", there <- x1, source <- x2,
    linked <- x3, chains <- x4, pos <- x5, chain <- x6, cur <- x7, prev <- x8, pc <- x9,
    ofStream <- x10
Parsed == INSTANCE UvcParse WITH 
    Kinds <- {"fu", "fdv", "fb", "u", "b", "color", "other"}, Counts <- {0,
    1}, MaxDescs <- 3, descs <- x1, at <- x2, pos <- x3, room <- x4, used <- x5,
    formats <- x6, held <- x7, listed <- x8
Config == INSTANCE HostCfg WITH 
    Configs <- DevConfigs, MaxEps <- 2, Addrs <- 0 .. 3, None <- 0, cfg <- x1, at <- x2,
    pos <- x3, eps <- x4, list <- x5, n_assoc <- x6, funs <- x7, table <- x8, enabled <- x9,
    left <- x10
Hid == INSTANCE HidReport WITH 
    Items <- HidItems, MaxItems <- 3, StackSize <- 2, GlobalSize <- 1, MaxUsages <- 2,
    Contact <- 7, Blob <- 9, items <- x1, pos <- x2, at <- x3, group <- x4, stack <- x5,
    collections <- x6, global <- x7, globals <- x8, local <- x9, reports <- x10,
    broken <- x11
Watch == INSTANCE DevMonitor WITH 
    Devs <- {"d1", "d2"}, Mons <- {"m1", "m2"}, TypesOf <- MonTypes,
    Matches <- MonMatches, Wild <- {}, MaxTold <- 3, jobs <- x1, listed <- x2,
    thread <- x3, pc <- x4, mons <- x5, state <- x6, started <- x7, told <- x8, refs <- x9
Qtds == INSTANCE EhciQtd WITH 
    Items <- 1 .. 3, Kinds <- {"in", "intr"}, MaxQtds <- 2, MaxMade <- 4, kind <- x1,
    free <- x2, n_free <- x3, state <- x4, dummy <- x5, list <- x6, qtd <- x7, ov <- x8,
    irq <- x9, scan <- x10, made <- x11, ran <- x12, lost <- x13, resumed <- x14
Decode == INSTANCE UvcDecode WITH 
    Packets <- 2, MaxFrame <- 5, queue <- x1, buf <- x2, cur <- x3, last_fid <- x4,
    p_buf_tmp <- x5, sent <- x6, gap <- x7, compressed <- x8
-----------------------------------------------------------------------------
PartsInit ==
    /\ Init
    /\ \/ part = "buffer" /\ x1 = 0 /\ Zero1
       \/ /\ buf = [i \in 0 .. Size - 1 |-> 0]
          /\ \/ part = "ctrl" /\ Ctrl!Init /\ Zero8
             \/ part = "pipe" /\ Pipe!Init /\ Zero8
             \/ part = "build" /\ Build!Init /\ Zero5
             \/ part = "bot" /\ Bot!Init /\ Zero5
             \/ part = "hub" /\ Hub!Init /\ Zero12
             \/ part = "rx" /\ Rx!Init /\ Zero10
             \/ part = "bytes" /\ Bytes!Init /\ Zero5
             \/ part = "serial" /\ Serial!Init /\ Zero7
             \/ part = "stream" /\ Stream!Init /\ Zero10
             \/ part = "iso" /\ Iso!Init /\ Zero9
             \/ part = "period" /\ Period!Init /\ Zero5
             \/ part = "pcm" /\ Pcm!Init /\ Zero12
             \/ part = "life" /\ Life!Init /\ Zero11
             \/ part = "formats" /\ Alt!Init /\ Zero2
             \/ part = "rate" /\ Pace!Init /\ Zero6
             \/ part = "rule" /\ Choice!Init /\ Zero5
             \/ part = "class" /\ Made!Init /\ Zero5
             \/ part = "port" /\ VsPorts!Init /\ Zero11
             \/ part = "units" /\ LunUnits!Init /\ Zero11
             \/ part = "printer" /\ Printer!Init /\ Zero6
             \/ part = "msdev" /\ Store!Init /\ Zero13
             \/ part = "liblist" /\ Walk!Init /\ Zero8
             \/ part = "field" /\ Field!Init /\ Zero5
             \/ part = "camera" /\ Camera!Init /\ Zero12
             \/ part = "chain" /\ Linked!Init /\ Zero10
             \/ part = "parse" /\ Parsed!Init /\ Zero8
             \/ part = "hostcfg" /\ Config!Init /\ Zero10
             \/ part = "hid" /\ Hid!Init /\ Zero11
             \/ part = "monitor" /\ Watch!Init /\ Zero9
             \/ part = "qtd" /\ Qtds!Init /\ Zero14
             \/ part = "decode" /\ Decode!Init /\ Zero8
CtrlStep == part = "ctrl" /\ Ctrl!Next /\ UNCHANGED vars /\ Keep8
PipeStep == part = "pipe" /\ Pipe!Next /\ UNCHANGED vars /\ Keep8
BuildStep == part = "build" /\ Build!Next /\ UNCHANGED vars /\ Keep5
BotStep == part = "bot" /\ Bot!Next /\ UNCHANGED vars /\ Keep5
HubStep == part = "hub" /\ Hub!Next /\ UNCHANGED vars /\ Keep12
RxStep == part = "rx" /\ Rx!Next /\ UNCHANGED vars /\ Keep10
BytesStep == part = "bytes" /\ Bytes!Next /\ UNCHANGED vars /\ Keep5
SerialStep == part = "serial" /\ Serial!Next /\ UNCHANGED vars /\ Keep7
StreamStep == part = "stream" /\ Stream!Next /\ UNCHANGED vars /\ Keep10
IsoStep == part = "iso" /\ Iso!Next /\ UNCHANGED vars /\ Keep9
PeriodStep == part = "period" /\ Period!Next /\ UNCHANGED vars /\ Keep5
PcmStep == part = "pcm" /\ Pcm!Next /\ UNCHANGED vars /\ Keep12
LifeStep == part = "life" /\ Life!Next /\ UNCHANGED vars /\ Keep11
AltStep == part = "formats" /\ Alt!Next /\ UNCHANGED vars /\ Keep2
PaceStep == part = "rate" /\ Pace!Next /\ UNCHANGED vars /\ Keep6
ChoiceStep == part = "rule" /\ Choice!Next /\ UNCHANGED vars /\ Keep5
MadeStep == part = "class" /\ Made!Next /\ UNCHANGED vars /\ Keep5
VsPortsStep == part = "port" /\ VsPorts!Next /\ UNCHANGED vars /\ Keep11
LunUnitsStep == part = "units" /\ LunUnits!Next /\ UNCHANGED vars /\ Keep11
PrinterStep == part = "printer" /\ Printer!Next /\ UNCHANGED vars /\ Keep6
StoreStep == part = "msdev" /\ Store!Next /\ UNCHANGED vars /\ Keep13
WalkStep == part = "liblist" /\ Walk!Next /\ UNCHANGED vars /\ Keep8
FieldStep == part = "field" /\ Field!Next /\ UNCHANGED vars /\ Keep5
CameraStep == part = "camera" /\ Camera!Next /\ UNCHANGED vars /\ Keep12
LinkedStep == part = "chain" /\ Linked!Next /\ UNCHANGED vars /\ Keep10
ParsedStep == part = "parse" /\ Parsed!Next /\ UNCHANGED vars /\ Keep8
ConfigStep == part = "hostcfg" /\ Config!Next /\ UNCHANGED vars /\ Keep10
HidStep == part = "hid" /\ Hid!Next /\ UNCHANGED vars /\ Keep11
WatchStep == part = "monitor" /\ Watch!Next /\ UNCHANGED vars /\ Keep9
QtdsStep == part = "qtd" /\ Qtds!Next /\ UNCHANGED vars /\ Keep14
DecodeStep == part = "decode" /\ Decode!Next /\ UNCHANGED vars /\ Keep8
BufferStep == part = "buffer" /\ Next /\ UNCHANGED x1 /\ Keep1
PartsNext ==
    \/ BufferStep
    \/ CtrlStep
    \/ PipeStep
    \/ BuildStep
    \/ BotStep
    \/ HubStep
    \/ RxStep
    \/ BytesStep
    \/ SerialStep
    \/ StreamStep
    \/ IsoStep
    \/ PeriodStep
    \/ PcmStep
    \/ LifeStep
    \/ AltStep
    \/ PaceStep
    \/ ChoiceStep
    \/ MadeStep
    \/ VsPortsStep
    \/ LunUnitsStep
    \/ PrinterStep
    \/ StoreStep
    \/ WalkStep
    \/ FieldStep
    \/ CameraStep
    \/ LinkedStep
    \/ ParsedStep
    \/ ConfigStep
    \/ HidStep
    \/ WatchStep
    \/ QtdsStep
    \/ DecodeStep
partsVars == <<vars, part, x1, x2, x3, x4, x5, x6, x7, x8, x9, x10, x11, x12, x13, x14>>
PartsSpec == PartsInit /\ [][PartsNext]_partsVars
-----------------------------------------------------------------------------
\* The types of the variables of each part.
PartsTypeOK ==
    /\ part = "ctrl" => Ctrl!TypeOK
    /\ part = "pipe" => Pipe!TypeOK
    /\ part = "build" => Build!TypeOK
    /\ part = "bot" => Bot!TypeOK
    /\ part = "hub" => Hub!TypeOK
    /\ part = "rx" => Rx!TypeOK
    /\ part = "bytes" => Bytes!TypeOK
    /\ part = "serial" => Serial!TypeOK
    /\ part = "stream" => Stream!TypeOK
    /\ part = "iso" => Iso!TypeOK
    /\ part = "period" => Period!TypeOK
    /\ part = "pcm" => Pcm!TypeOK
    /\ part = "life" => Life!TypeOK
    /\ part = "formats" => Alt!TypeOK
    /\ part = "rate" => Pace!TypeOK
    /\ part = "rule" => Choice!TypeOK
    /\ part = "class" => Made!TypeOK
    /\ part = "port" => VsPorts!TypeOK
    /\ part = "units" => LunUnits!TypeOK
    /\ part = "printer" => Printer!TypeOK
    /\ part = "msdev" => Store!TypeOK
    /\ part = "liblist" => Walk!TypeOK
    /\ part = "field" => Field!TypeOK
    /\ part = "camera" => Camera!TypeOK
    /\ part = "chain" => Linked!TypeOK
    /\ part = "parse" => Parsed!TypeOK
    /\ part = "hostcfg" => Config!TypeOK
    /\ part = "hid" => Hid!TypeOK
    /\ part = "monitor" => Watch!TypeOK
    /\ part = "qtd" => Qtds!TypeOK
    /\ part = "decode" => Decode!TypeOK
-----------------------------------------------------------------------------
(* Properties: each is about one part and stated in its module.            *)

\* A control transfer of the device is never in two stages at once and owes its
\* status only while it has one to send; a configured device has its functions
\* set up, through resets, disconnections and halts (usbd_core.c, usbd_dev.c).
CtrlSafe == part = "ctrl" => Ctrl!OneStage /\ Ctrl!ConfiguredReady

\* After a bus reset endpoint 0 is idle, whatever stage it was in
\* (usbd_core.c:902): else later control transfers would be -USB_EBUSY.
ResetClean == [][part = "ctrl" /\ Ctrl!BusReset => x8'.busy = {}]_partsVars

\* A task in usbd_ep_trans_sync leaves the driver no transfer whose frame has
\* gone, and takes no other call's token for its own (usbd_core.c:540-680).
PipeSafe == part = "pipe" => Pipe!FrameAlive /\ Pipe!ResultFinal

\* While a device is built by calls that may fail, in any order, descriptors
\* count what they hold and a string index has one owner (usbd_dev.c).
BuildSafe == part = "build" => Build!DescExact /\ Build!StrOwned

\* A mass storage command that succeeds got its own status and its own data,
\* after any time-outs, stalls and resets (usbh_ms_drv.c, usbd_ms_scsi_bbb.c).
BotSafe == part = "bot" => Bot!InStep /\ Bot!DataWhole

\* A hub goes on being polled after errors, and its ports keep no device that
\* has gone (usbh_hub_drv.c).
HubSafe == part = "hub" => Hub!Polled /\ Hub!NoStaleDev

\* The receive TRPs of a network device are on one list each while stop, process
\* and callbacks run, and what is read is what was received, in its order
\* (usbh_net.c).
NetSafe == (part = "rx" => Rx!RxOwned) /\ (part = "bytes" => Bytes!RingOrder)

\* Devices, handles and libraries are counted as they are used, while devices come
\* and go, monitors miss none that is there, and a list of devices is traversed once;
\* however a sound card is opened, set and closed, a TRP of it is submitted once
\* (usbh_cdc_serial_drv.c, usbh_cdc_serial_common.c, usbh_ms_drv.c,
\* usbh_dev_monitor.c, usb_lib.c, uac_endpoint.c).
LifeSafe ==
    /\ part = "serial" => Serial!CountsExact
    /\ part = "msdev" => Store!HandlesCount
    /\ part = "liblist" => Walk!TraverseOnce
    /\ part = "monitor" => Watch!NotMissed /\ Watch!LibHeld
    /\ part = "life" => Life!TrpOnce

\* What a device describes is taken as it says: each interface with its alternate
\* settings in one function and in no table when freed, the formats of a camera in
\* the room counted for them, the items of a report nested (usbh_dev_enum.c,
\* usbh_vc_stream.c, usbh_hid_report.c).
DescSafe ==
    /\ part = "hostcfg" => Config!OneFunction /\ Config!TableAlive /\ Config!CfgFreed
    /\ part = "parse" => Parsed!FilledInRoom
    /\ part = "hid" => Hid!AcceptedNested /\ Hid!UsageOwned

\* A class device that cannot be made leaves nothing behind; bytes of the virtual
\* serial port come once and in order, the unit of a command stays, and an
\* identity is whole (usbd_cdc_virtual_serial.c, usbd_virtual_printer.c, usbd_ms.c).
ClassSafe ==
    /\ part = "class" => Made!CreateBalanced
    /\ part = "port" => VsPorts!ReadOnce
    /\ part = "units" => LunUnits!UnitAlive
    /\ part = "printer" => Printer!IdWhole

\* A video stream that is stopped has nothing with the controller, and a frame that
\* is done is whole; settings of a camera are kept as they were asked, and what its
\* controls allocate is freed (usbh_vc_video.c, usbh_vc_queue.c, usbh_vc_ctrl.c).
VideoSafe ==
    /\ part = "stream" => Stream!StoppedQuiet
    /\ part = "decode" => Decode!FrameWhole
    /\ part = "camera" => Camera!SettingKept /\ Camera!AllFreed

\* The controller reaches what was requested and not what was cancelled or given back,
\* in the periodic schedule and in the queue of a QH, whose qTDs all come back to the
\* pool; isochronous streams are counted (usbh_ehci_xfer.c, usbh_ehci_mem.c, usb_pool.c).
PeriodicSafe ==
    /\ part = "iso" => Iso!IsoCounted /\ Iso!IsoWhole
    /\ part = "period" => Period!CancelledUnreached /\ Period!VisitedInTurn
    /\ part = "qtd" => Qtds!PoolExact /\ Qtds!HwInQueue /\ Qtds!NotStranded

\* What is played is what was written, each frame in its place; formats are grouped,
\* found and sent at their rate; the fields of a control are apart, and a setting is in
\* range and on a step; entities are each in one chain (uac_pcm.c, uac_stream.c,
\* uac_format.c, uac_endpoint.c, uac_hw_rule.c, usbh_vc_ctrl.c, usbh_vc_entity.c).
MediaSafe ==
    /\ part = "pcm" => Pcm!PlayedExact
    /\ part = "formats" => Alt!Grouped /\ Alt!FormatBest
    /\ part = "rate" => Pace!RateKept /\ Pace!PacketFits /\ Pace!TrpsFit
    /\ part = "rule" => Choice!NothingLost /\ Choice!PickedFits
    /\ part = "field" => Field!RoundTrip /\ Field!OthersKept /\ Field!TablesAgree
    /\ part = "camera" => Camera!NearestStep
    /\ part = "chain" => Linked!ChainOnce /\ Linked!ChainWhole

=============================================================================
