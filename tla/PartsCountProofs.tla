-------------------------- MODULE PartsCountProofs -------------------------
(***************************************************************************)
(* The theorems of CountProofs for the instances of MCParts, continued     *)
(* from PartsProofs.                                                       *)
(***************************************************************************)
EXTENDS PartsProofs

Q == INSTANCE CountProofs WITH
    Strings <- 1 .. 9, MaxCfg <- 2, Intfs <- {0, 1}, EpNums <- {1, 2}, MaxPipes <- 2,
    MaxFuncs <- 2, builtMask <- x1, builtDev <- x2, builtStr <- x3, builtNum <- x4,
    builtCfg <- x5,
    ParseKinds <- {"fu", "fdv", "fb", "u", "b", "color", "other"}, ParseCounts <- {0, 1},
    MaxDescs <- 3, parseDescs <- x1, parseAt <- x2, parsePos <- x3, parseRoom <- x4,
    parseUsed <- x5, parseFormats <- x6, parseHeld <- x7, parseListed <- x8,
    HidItems <- HidItems, MaxItems <- 3, StackSize <- 2, GlobalSize <- 1, MaxUsages <- 2,
    Contact <- 7, Blob <- 9, hidItems <- x1, hidPos <- x2, hidAt <- x3, hidGroup <- x4,
    hidStack <- x5, hidColls <- x6, hidGlobal <- x7, hidGlobals <- x8, hidLocal <- x9,
    hidReports <- x10, hidBroken <- x11,
    Configs <- DevConfigs, MaxEps <- 2, Addrs <- 0 .. 3, NoEp <- 0, hcCfg <- x1, hcAt <- x2,
    hcPos <- x3, hcEps <- x4, hcList <- x5, hcAssoc <- x6, hcFuns <- x7, hcTable <- x8,
    hcEnabled <- x9, hcLeft <- x10
-----------------------------------------------------------------------------
(* Building a device                                                       *)

LEMMA BuildMaps ==
    /\ Build!Init => Q!Build!Init
    /\ Build!Next => Q!Build!Next
    /\ UNCHANGED partsVars => UNCHANGED Q!Build!buildVars
    /\ Q!Build!DescExact => Build!DescExact
    /\ Q!Build!StrOwned => Build!StrOwned
<1>1. Build!Init => Q!Build!Init
  BY DEF Build!Init, Q!Build!Init
<1>2. /\ \A s, i : Build!RemoveAt(s, i) = Q!Build!RemoveAt(s, i)
      /\ \A S : Build!Cardinality(S) = Q!Build!Cardinality(S)
      /\ \A k, S : Build!kSubset(k, S) = Q!Build!kSubset(k, S)
      /\ \A S : Build!Lowest(S) = Q!Build!Lowest(S)
      /\ \A q : Build!AutoNum(q) = Q!Build!AutoNum(q)
      /\ \A f, S : Build!SumFunctionOnSet(f, S) = Q!Build!SumFunctionOnSet(f, S)
  <2>1. \A s, i : Build!RemoveAt(s, i) = Q!Build!RemoveAt(s, i)
    BY DEF Build!RemoveAt, Q!Build!RemoveAt
  <2>2. \A S : Build!Cardinality(S) = Q!Build!Cardinality(S)
    BY DEF Build!Cardinality, Build!IsFiniteSet, Q!Build!Cardinality, Q!Build!IsFiniteSet
  <2>3. \A k, S : Build!kSubset(k, S) = Q!Build!kSubset(k, S)
    BY <2>2 DEF Build!kSubset, Q!Build!kSubset
  <2>4. \A S : Build!Lowest(S) = Q!Build!Lowest(S)
    BY DEF Build!Lowest, Build!Min, Q!Build!Lowest, Q!Build!Min
  <2>5. \A q : Build!AutoNum(q) = Q!Build!AutoNum(q)
    BY DEF Build!AutoNum, Build!FoldLeft, Build!MapThenFoldSet, Build!Max,
           Q!Build!AutoNum, Q!Build!FoldLeft, Q!Build!MapThenFoldSet, Q!Build!Max
  <2>6. \A f, S : Build!SumFunctionOnSet(f, S) = Q!Build!SumFunctionOnSet(f, S)
    BY DEF Build!SumFunctionOnSet, Build!FoldFunctionOnSet, Build!MapThenFoldSet,
           Q!Build!SumFunctionOnSet, Q!Build!FoldFunctionOnSet, Q!Build!MapThenFoldSet
  <2> QED BY <2>1, <2>2, <2>3, <2>4, <2>5, <2>6
<1>3. /\ Build!Free = Q!Build!Free /\ Build!NoFunc = Q!Build!NoFunc
      /\ \A c, i : Build!HasIntf(c, i) = Q!Build!HasIntf(c, i)
      /\ \A n : Build!CfgFreed(n) = Q!Build!CfgFreed(n)
      /\ \A c, i, s, x, a : Build!FuncMade(c, i, s, x, a) = Q!Build!FuncMade(c, i, s, x, a)
      /\ \A c, i, e : Build!WithPipe(c, i, e) = Q!Build!WithPipe(c, i, e)
      /\ \A s : Build!NewCfg(s) = Q!Build!NewCfg(s)
      /\ \A c : Build!FuncFails(c) = Q!Build!FuncFails(c)
      /\ Build!EpLen = Q!Build!EpLen /\ Build!Building = Q!Build!Building
  BY DEF Build!Free, Build!HasIntf, Build!NoFunc, Build!CfgFreed, Build!FuncStrs,
         Build!FuncMade, Build!WithPipe, Build!NewCfg, Build!FuncFails, Build!EpLen,
         Build!IntfLen, Build!SpecLen, Build!AssocLen, Build!CfgLen, Build!Building,
         Q!Build!Free, Q!Build!HasIntf, Q!Build!NoFunc, Q!Build!CfgFreed, Q!Build!FuncStrs,
         Q!Build!FuncMade, Q!Build!WithPipe, Q!Build!NewCfg, Q!Build!FuncFails,
         Q!Build!EpLen, Q!Build!IntfLen, Q!Build!SpecLen, Q!Build!AssocLen,
         Q!Build!CfgLen, Q!Build!Building
<1>4. Build!Next => Q!Build!Next
  <2>1. Build!DevCreate => Q!Build!DevCreate
    BY <1>2, <1>3 DEF Build!DevCreate, Q!Build!DevCreate
  <2>2. Build!CfgAdd => Q!Build!CfgAdd
    BY <1>2, <1>3 DEF Build!CfgAdd, Q!Build!CfgAdd
  <2>3. Build!DevDestroy => Q!Build!DevDestroy
    BY <1>3 DEF Build!DevDestroy, Q!Build!DevDestroy
  <2>4. Build!Start => Q!Build!Start
    BY <1>3 DEF Build!Start, Q!Build!Start
  <2>5. \A n : Build!CfgDel(n) => Q!Build!CfgDel(n)
    BY <1>3 DEF Build!CfgDel, Q!Build!CfgDel
  <2>6. \A n, i : Build!AssocAdd(n, i) => Q!Build!AssocAdd(n, i)
    BY <1>2, <1>3, ZenonT(40) DEF Build!AssocAdd, Q!Build!AssocAdd
  <2>7. \A n, i, s : Build!FuncAdd(n, i, s) => Q!Build!FuncAdd(n, i, s)
    BY <1>2, <1>3 DEF Build!FuncAdd, Q!Build!FuncAdd
  <2>8. \A n, i, e : Build!PipeAdd(n, i, e) => Q!Build!PipeAdd(n, i, e)
    <3> SUFFICES ASSUME NEW n, NEW i, NEW e, Build!PipeAdd(n, i, e)
                 PROVE  Q!Build!PipeAdd(n, i, e)
      OBVIOUS
    <3> DEFINE ep == IF e = 0 THEN Build!AutoNum(x5[n].pipes) ELSE e
               made == Build!WithPipe(x5[n], i, ep)
    <3>1. /\ Q!Build!Building /\ Q!Build!HasIntf(x5[n], i)
          /\ Len(x5[n].pipes) < 2
          /\ e # 0 => \A k \in DOMAIN x5[n].pipes : x5[n].pipes[k].ep # e
          /\ ep \in {1, 2}
          /\ UNCHANGED <<x1, x2, x3, x4>>
      BY <1>3 DEF Build!PipeAdd
    <3>2. x5' = [x5 EXCEPT ![n] = made]
      BY DEF Build!PipeAdd
    <3>3. /\ made = Q!Build!WithPipe(x5[n], i, ep)
          /\ ep = IF e = 0 THEN Q!Build!AutoNum(x5[n].pipes) ELSE e
      BY <1>2, <1>3
    <3> HIDE DEF made, ep
    <3> QED BY <3>1, <3>2, <3>3 DEF Q!Build!PipeAdd
  <2>9. \A n, i, e : Build!PipeDel(n, i, e) => Q!Build!PipeDel(n, i, e)
    <3> SUFFICES ASSUME NEW n, NEW i, NEW e, Build!PipeDel(n, i, e)
                 PROVE  Q!Build!PipeDel(n, i, e)
      OBVIOUS
    <3>1. Q!Build!Building /\ Q!Build!HasIntf(x5[n], i)
      BY <1>3 DEF Build!PipeDel
    <3>2. PICK k \in DOMAIN x5[n].pipes :
              /\ x5[n].pipes[k] = [ep |-> e, intf |-> i]
              /\ \A j \in 1 .. k - 1 : x5[n].pipes[j] # x5[n].pipes[k]
              /\ x5' = [x5 EXCEPT ![n].pipes = Build!RemoveAt(@, k),
                                  ![n].func[i].nEp = @ - 1,
                                  ![n].total = @ - Build!EpLen]
      BY DEF Build!PipeDel
    <3> DEFINE left == Build!RemoveAt(x5[n].pipes, k)
               len == Build!EpLen
    <3>3. left = Q!Build!RemoveAt(x5[n].pipes, k) /\ len = Q!Build!EpLen
      BY <1>2, <1>3
    <3>4. x5' = [x5 EXCEPT ![n].pipes = left, ![n].func[i].nEp = @ - 1,
                           ![n].total = @ - len]
      BY <3>2
    <3> HIDE DEF left, len
    <3>5. x5' = [x5 EXCEPT ![n].pipes = Q!Build!RemoveAt(@, k),
                           ![n].func[i].nEp = @ - 1,
                           ![n].total = @ - Q!Build!EpLen]
      BY <3>3, <3>4
    <3>6. UNCHANGED <<x1, x2, x3, x4>>
      BY DEF Build!PipeDel
    <3> QED BY <3>1, <3>2, <3>5, <3>6 DEF Q!Build!PipeDel
  <2> QED BY <2>1, <2>2, <2>3, <2>4, <2>5, <2>6, <2>7, <2>8, <2>9 DEF Build!Next, Q!Build!Next
<1>5. UNCHANGED partsVars => UNCHANGED Q!Build!buildVars
  BY DEF partsVars, Q!Build!buildVars
<1>6. Q!Build!DescExact => Build!DescExact
  <2>1. \A c, i : Build!PipesOf(c, i) = Q!Build!PipesOf(c, i)
    BY <1>2 DEF Build!PipesOf, Q!Build!PipesOf
  <2>2. \A c, i : Build!FillLen(c, i) = Q!Build!FillLen(c, i)
    BY <1>3, <2>1 DEF Build!FillLen, Build!IntfLen, Build!SpecLen, Q!Build!FillLen,
                      Q!Build!IntfLen, Q!Build!SpecLen
  <2>3. \A c : Build!MadeLen(c) = Q!Build!MadeLen(c)
    BY <1>2, <2>2 DEF Build!MadeLen, Build!CfgLen, Build!AssocLen, Q!Build!MadeLen,
                      Q!Build!CfgLen, Q!Build!AssocLen
  <2> QED BY <1>3, <2>1, <2>3 DEF Build!DescExact, Q!Build!DescExact
<1>7. Q!Build!StrOwned => Build!StrOwned
  <2>1. \A s : Build!OwnersOf(s) = Q!Build!OwnersOf(s)
    BY DEF Build!OwnersOf, Q!Build!OwnersOf
  <2> QED BY <1>2, <2>1 DEF Build!StrOwned, Q!Build!StrOwned
<1> QED BY <1>1, <1>4, <1>5, <1>6, <1>7

LEMMA BuildParamsHold == Q!BuildParams
<1>1. IsFiniteSet(1 .. 9) /\ IsFiniteSet(0 .. 1)
  <2> DEFINE one == 1
             nine == 9
             nought == 0
  <2>1. one \in Int /\ nine \in Int /\ nought \in Int
    OBVIOUS
  <2> HIDE DEF one, nine, nought
  <2>2. IsFiniteSet(one .. nine) /\ IsFiniteSet(nought .. one)
    BY <2>1, FS_Interval
  <2> QED BY <2>2 DEF one, nine, nought
<1>2. {0, 1} = 0 .. 1
  OBVIOUS
<1>3. \A S : IsFiniteSet(S) = Q!IsFiniteSet(S)
  BY DEF IsFiniteSet, Q!IsFiniteSet
<1> QED BY <1>1, <1>2, <1>3 DEF Q!BuildParams

\* Whatever calls of an application have failed, the device it builds sends the descriptor
\* that was counted, and no string index is that of two strings.
THEOREM BuildPartSafe == PartsSpec => []BuildSafe
<1> DEFINE Inv == part = "build" => Q!BuildInv
<1>1. PartsInit => Inv
  BY InitOfPart, BuildMaps, Q!BuildInit
<1>2. Inv /\ [PartsNext]_partsVars => Inv'
  <2> SUFFICES ASSUME Inv, [PartsNext]_partsVars
               PROVE  Inv'
    OBVIOUS
  <2>1. part' = part
    BY PartStays DEF partsVars
  <2>2. part = "build" => [Q!Build!Next]_(Q!Build!buildVars)
    BY StepOfPart, BuildMaps
  <2>3. part = "build" => Q!BuildInv'
    BY <2>2, BuildParamsHold, Q!BuildStep
  <2> QED BY <2>1, <2>3
<1>3. Inv => BuildSafe
  BY BuildParamsHold, BuildMaps, Q!BuildHolds DEF BuildSafe
<1> QED BY <1>1, <1>2, <1>3, PTL DEF PartsSpec
-----------------------------------------------------------------------------
(* What a device describes                                                 *)

LEMMA ParsedMaps ==
    /\ Parsed!Init => Q!Parsed!Init
    /\ Parsed!Next => Q!Parsed!Next
    /\ UNCHANGED partsVars => UNCHANGED Q!Parsed!parseVars
    /\ Q!Parsed!FilledInRoom => Parsed!FilledInRoom
<1>1. /\ \A d : Parsed!IsFormat(d) = Q!Parsed!IsFormat(d)
      /\ \A d : Parsed!IsFrame(d) = Q!Parsed!IsFrame(d)
      /\ \A d : Parsed!Intervals(d) = Q!Parsed!Intervals(d)
      /\ \A d : Parsed!FrameKind(d) = Q!Parsed!FrameKind(d)
      /\ Parsed!Descs = Q!Parsed!Descs /\ Parsed!Fail = Q!Parsed!Fail
  BY DEF Parsed!IsFormat, Parsed!IsFrame, Parsed!Intervals, Parsed!FrameKind,
         Parsed!Descs, Parsed!Fail, Q!Parsed!IsFormat, Q!Parsed!IsFrame,
         Q!Parsed!Intervals, Q!Parsed!FrameKind, Q!Parsed!Descs, Q!Parsed!Fail
<1>2. Parsed!Init => Q!Parsed!Init
  BY <1>1 DEF Parsed!Init, Q!Parsed!Init
<1>3. /\ \A S : Parsed!Cardinality(S) = Q!Parsed!Cardinality(S)
      /\ \A f, S : Parsed!SumFunctionOnSet(f, S) = Q!Parsed!SumFunctionOnSet(f, S)
  BY DEF Parsed!Cardinality, Parsed!IsFiniteSet, Parsed!SumFunctionOnSet,
         Parsed!FoldFunctionOnSet, Parsed!MapThenFoldSet, Q!Parsed!Cardinality,
         Q!Parsed!IsFiniteSet, Q!Parsed!SumFunctionOnSet, Q!Parsed!FoldFunctionOnSet,
         Q!Parsed!MapThenFoldSet
<1>4. /\ \A S : Parsed!Sum(Parsed!Intervals, S) = Q!Parsed!Sum(Q!Parsed!Intervals, S)
      /\ Parsed!Total(Parsed!FormatsIn) = Q!Parsed!Total(Q!Parsed!FormatsIn)
      /\ Parsed!Total(Parsed!FramesIn) = Q!Parsed!Total(Q!Parsed!FramesIn)
      /\ Parsed!Total(Parsed!IntervalsIn) = Q!Parsed!Total(Q!Parsed!IntervalsIn)
  BY <1>1, <1>3 DEF Parsed!Sum, Parsed!Total, Parsed!FormatsIn, Parsed!FramesIn,
     Parsed!IntervalsIn, Q!Parsed!Sum, Q!Parsed!Total, Q!Parsed!FormatsIn,
     Q!Parsed!FramesIn, Q!Parsed!IntervalsIn
<1>5. /\ \A p : Parsed!OwnFrames(p) = Q!Parsed!OwnFrames(p)
      /\ \A q, kind : Parsed!Past(q, kind) = Q!Parsed!Past(q, kind)
  BY <1>1 DEF Parsed!OwnFrames, Parsed!Past, Q!Parsed!OwnFrames, Q!Parsed!Past
<1>6. Parsed!Next => Q!Parsed!Next
  <2>1. Parsed!Header => Q!Parsed!Header
    BY DEF Parsed!Header, Q!Parsed!Header
  <2>2. Parsed!Count => Q!Parsed!Count
    BY <1>1, <1>4 DEF Parsed!Count, Q!Parsed!Count
  <2>3. Parsed!Format => Q!Parsed!Format
    BY <1>1, <1>3, <1>4, <1>5 DEF Parsed!Format, Q!Parsed!Format
  <2>4. Parsed!Skip => Q!Parsed!Skip
    BY <1>1 DEF Parsed!Skip, Q!Parsed!Skip
  <2>5. Parsed!Listed => Q!Parsed!Listed
    BY DEF Parsed!Listed, Q!Parsed!Listed
  <2> QED BY <2>1, <2>2, <2>3, <2>4, <2>5 DEF Parsed!Next, Q!Parsed!Next
<1>7. UNCHANGED partsVars => UNCHANGED Q!Parsed!parseVars
  BY DEF partsVars, Q!Parsed!parseVars
<1>8. Q!Parsed!FilledInRoom => Parsed!FilledInRoom
  BY DEF Parsed!FilledInRoom, Q!Parsed!FilledInRoom
<1> QED BY <1>2, <1>6, <1>7, <1>8

LEMMA HidMaps ==
    /\ Hid!Init => Q!Hid!Init
    /\ Hid!Next => Q!Hid!Next
    /\ UNCHANGED partsVars => UNCHANGED Q!Hid!hidVars
    /\ Q!Hid!AcceptedNested => Hid!AcceptedNested
    /\ Q!Hid!UsageOwned => Hid!UsageOwned
<1>1. /\ Hid!NoLocal = Q!Hid!NoLocal /\ Hid!It = Q!Hid!It /\ Hid!Done = Q!Hid!Done
      /\ Hid!Fail = Q!Hid!Fail
      /\ \A l : Hid!Taken(l) = Q!Hid!Taken(l)
  BY DEF Hid!NoLocal, Hid!It, Hid!Done, Hid!Fail, Hid!Taken, Q!Hid!NoLocal, Q!Hid!It,
         Q!Hid!Done, Q!Hid!Fail, Q!Hid!Taken
<1>2. Hid!Init => Q!Hid!Init
  BY <1>1 DEF Hid!Init, Q!Hid!Init
<1>3. /\ \A S : Hid!Cardinality(S) = Q!Hid!Cardinality(S)
      /\ \A S : Hid!Max(S) = Q!Hid!Max(S) /\ Hid!Min(S) = Q!Hid!Min(S)
      /\ \A s : Hid!Front(s) = Q!Hid!Front(s) /\ Hid!Last(s) = Q!Hid!Last(s)
  BY DEF Hid!Cardinality, Hid!IsFiniteSet, Hid!Max, Hid!Min, Hid!Front, Hid!Last,
         Q!Hid!Cardinality, Q!Hid!IsFiniteSet, Q!Hid!Max, Q!Hid!Min, Q!Hid!Front,
         Q!Hid!Last
<1>4. /\ \A n : Hid!FieldsFrom(n) = Q!Hid!FieldsFrom(n)
      /\ \A i : Hid!UsagesOf(i) = Q!Hid!UsagesOf(i)
  BY DEF Hid!FieldsFrom, Hid!UsagesOf, Q!Hid!FieldsFrom, Q!Hid!UsagesOf
<1>5. /\ Hid!MainTaken = Q!Hid!MainTaken /\ Hid!Innermost = Q!Hid!Innermost
      /\ \A u, v : Hid!Added(u, v) = Q!Hid!Added(u, v)
  <2>1. Hid!MainTaken = Q!Hid!MainTaken
    BY <1>1 DEF Hid!MainTaken, Q!Hid!MainTaken
  <2>2. Hid!Innermost = Q!Hid!Innermost
    BY <1>3 DEF Hid!Innermost, Q!Hid!Innermost
  <2> QED BY <2>1, <2>2 DEF Hid!Added, Q!Hid!Added
<1>6. Hid!Next => Q!Hid!Next
  <2>1. Hid!Scan => Q!Hid!Scan
    BY <1>3, <1>4 DEF Hid!Scan, Q!Hid!Scan
  <2>2. Hid!Open => Q!Hid!Open
    BY <1>1, <1>5 DEF Hid!Open, Q!Hid!Open
  <2>3. Hid!Close => Q!Hid!Close
    BY <1>1, <1>3, <1>5 DEF Hid!Close, Q!Hid!Close
  <2>4. Hid!Field \/ Hid!Page => Q!Hid!Field \/ Q!Hid!Page
    BY <1>1 DEF Hid!Field, Hid!Page, Q!Hid!Field, Q!Hid!Page
  <2>5. Hid!Push => Q!Hid!Push
    BY <1>1 DEF Hid!Push, Q!Hid!Push
  <2>6. Hid!Pop => Q!Hid!Pop
    BY <1>1, <1>3 DEF Hid!Pop, Q!Hid!Pop
  <2>7. Hid!Count => Q!Hid!Count
    BY <1>1 DEF Hid!Count, Q!Hid!Count
  <2>8. Hid!Delim => Q!Hid!Delim
    BY <1>1 DEF Hid!Delim, Q!Hid!Delim
  <2>9. Hid!Usage => Q!Hid!Usage
    BY <1>1, <1>5 DEF Hid!Usage, Q!Hid!Usage
  <2>10. Hid!UsageMin => Q!Hid!UsageMin
    BY <1>1 DEF Hid!UsageMin, Q!Hid!UsageMin
  <2>11. Hid!UsageUpTo => Q!Hid!UsageUpTo
    BY <1>1, <1>5 DEF Hid!UsageUpTo, Q!Hid!UsageUpTo
  <2>12. Hid!Rest => Q!Hid!Rest
    BY <1>1 DEF Hid!Rest, Q!Hid!Rest
  <2>13. Hid!Item => Q!Hid!Item
    BY <1>1, <2>2, <2>3, <2>4, <2>5, <2>6, <2>7, <2>8, <2>9, <2>10, <2>11, <2>12
       DEF Hid!Item, Q!Hid!Item
  <2>14. Hid!End => Q!Hid!End
    BY <1>1 DEF Hid!End, Q!Hid!End
  <2> QED BY <2>1, <2>13, <2>14 DEF Hid!Next, Q!Hid!Next
<1>7. UNCHANGED partsVars => UNCHANGED Q!Hid!hidVars
  BY DEF partsVars, Q!Hid!hidVars
<1>8. \A t, i, j : Hid!Num(t, i, j) = Q!Hid!Num(t, i, j)
  BY <1>3 DEF Hid!Num, Q!Hid!Num
<1>9. Q!Hid!AcceptedNested => Hid!AcceptedNested
  <2>1. Hid!Mains = Q!Hid!Mains /\ Hid!Refused = Q!Hid!Refused
    BY DEF Hid!Mains, Hid!Refused, Q!Hid!Mains, Q!Hid!Refused
  <2>2. \A i : Hid!Start(i) = Q!Hid!Start(i)
    BY <1>3, <2>1 DEF Hid!Start, Q!Hid!Start
  <2>3. \A i, v : Hid!Delims(i, v) = Q!Hid!Delims(i, v)
    BY <1>3, <2>2 DEF Hid!Delims, Q!Hid!Delims
  <2>4. Hid!Nested = Q!Hid!Nested
    BY <1>8, <2>3 DEF Hid!Nested, Q!Hid!Nested
  <2> QED BY <2>1, <2>4 DEF Hid!AcceptedNested, Q!Hid!AcceptedNested
<1>10. Q!Hid!UsageOwned => Hid!UsageOwned
  <2>1. \A p : Hid!OpenAt(p) = Q!Hid!OpenAt(p)
    BY <1>8 DEF Hid!OpenAt, Q!Hid!OpenAt
  <2> QED BY <1>3, <1>8, <2>1 DEF Hid!UsageOwned, Q!Hid!UsageOwned
<1> QED BY <1>2, <1>6, <1>7, <1>9, <1>10

LEMMA ConfigMaps ==
    /\ Config!Init => Q!Conf!Init
    /\ Config!Next => Q!Conf!Next
    /\ UNCHANGED partsVars => UNCHANGED Q!Conf!cfgVars
    /\ Q!Conf!OneFunction => Config!OneFunction
    /\ Q!Conf!TableAlive => Config!TableAlive
    /\ Q!Conf!CfgFreed => Config!CfgFreed
<1>1. Config!Init => Q!Conf!Init
  BY DEF Config!Init, Q!Conf!Init
<1>2. /\ \A S : Config!Cardinality(S) = Q!Conf!Cardinality(S)
      /\ \A S : Config!Max(S) = Q!Conf!Max(S) /\ Config!Min(S) = Q!Conf!Min(S)
      /\ \A f, S : Config!Restrict(f, S) = Q!Conf!Restrict(f, S)
      /\ \A f : Config!Range(f) = Q!Conf!Range(f)
  BY DEF Config!Cardinality, Config!IsFiniteSet, Config!Max, Config!Min, Config!Restrict,
         Config!Range, Q!Conf!Cardinality, Q!Conf!IsFiniteSet, Q!Conf!Max, Q!Conf!Min,
         Q!Conf!Restrict, Q!Conf!Range
<1>3. /\ \A p : Config!D(p) = Q!Conf!D(p)
      /\ \A p, k : Config!Is(p, k) = Q!Conf!Is(p, k)
      /\ Config!Len0 = Q!Conf!Len0 /\ Config!Live = Q!Conf!Live
      /\ \A p : Config!FunsOf(p) = Q!Conf!FunsOf(p)
      /\ Config!Reached = Q!Conf!Reached /\ Config!Intfs = Q!Conf!Intfs
  BY DEF Config!D, Config!Is, Config!Len0, Config!Live, Config!FunsOf, Config!Reached,
         Config!Intfs, Q!Conf!D, Q!Conf!Is, Q!Conf!Len0, Q!Conf!Live, Q!Conf!FunsOf,
         Q!Conf!Reached, Q!Conf!Intfs
<1>4. /\ \A p : Config!OwnEps(p) = Q!Conf!OwnEps(p)
      /\ Config!Assocs = Q!Conf!Assocs
      /\ \A d : Config!Taken(d) = Q!Conf!Taken(d)
      /\ \A a, S : Config!LastOf(a, S) = Q!Conf!LastOf(a, S)
  BY <1>2, <1>3 DEF Config!OwnEps, Config!Assocs, Config!Taken, Config!LastOf,
     Q!Conf!OwnEps, Q!Conf!Assocs, Q!Conf!Taken, Q!Conf!LastOf
<1>5. /\ Config!Members = Q!Conf!Members /\ Config!InTurn = Q!Conf!InTurn
      /\ \A p : Config!Cleared(p) = Q!Conf!Cleared(p)
  <2>1. Config!Members = Q!Conf!Members
    BY <1>3 DEF Config!Members, Q!Conf!Members
  <2>2. Config!InTurn = Q!Conf!InTurn
    BY <1>2, <1>3, <2>1 DEF Config!InTurn, Q!Conf!InTurn
  <2> QED BY <1>4, <2>1, <2>2 DEF Config!Cleared, Q!Conf!Cleared
<1>6. Config!Next => Q!Conf!Next
  <2>1. Config!CfgInit => Q!Conf!CfgInit
    BY DEF Config!CfgInit, Q!Conf!CfgInit
  <2>2. Config!IntfInit => Q!Conf!IntfInit
    BY <1>3, <1>4 DEF Config!IntfInit, Q!Conf!IntfInit
  <2>3. Config!Other => Q!Conf!Other
    BY <1>3 DEF Config!Other, Q!Conf!Other
  <2>4. Config!Funs => Q!Conf!Funs
    BY <1>3, <1>4 DEF Config!Funs, Q!Conf!Funs
  <2>5. Config!Assoc => Q!Conf!Assoc
    BY <1>3, <1>4 DEF Config!Assoc, Q!Conf!Assoc
  <2>6. Config!Rest => Q!Conf!Rest
    BY <1>2, <1>3, <1>4 DEF Config!Rest, Q!Conf!Rest
  <2>7. Config!IntfSet => Q!Conf!IntfSet
    BY <1>3, <1>4 DEF Config!IntfSet, Q!Conf!IntfSet
  <2>8. Config!Submit \/ Config!Reset \/ Config!Release
           => Q!Conf!Submit \/ Q!Conf!Reset \/ Q!Conf!Release
    BY <1>3 DEF Config!Submit, Config!Reset, Config!Release, Q!Conf!Submit, Q!Conf!Reset,
       Q!Conf!Release
  <2>9. Config!Unenumerate => Q!Conf!Unenumerate
    <3>1. Config!IntfFreed => Q!Conf!IntfFreed
      BY <1>2, <1>3, <1>5 DEF Config!IntfFreed, Q!Conf!IntfFreed
    <3> QED BY <1>3, <1>5, <3>1 DEF Config!Unenumerate, Q!Conf!Unenumerate
  <2>10. Config!DevDestroy => Q!Conf!DevDestroy
    BY <1>2 DEF Config!DevDestroy, Q!Conf!DevDestroy
  <2> QED BY <2>1, <2>2, <2>3, <2>4, <2>5, <2>6, <2>7, <2>8, <2>9, <2>10
             DEF Config!Next, Q!Conf!Next
<1>7. UNCHANGED partsVars => UNCHANGED Q!Conf!cfgVars
  BY DEF partsVars, Q!Conf!cfgVars
<1>8. Q!Conf!OneFunction => Config!OneFunction
  <2>1. \A p : Config!AssocsOf(p) = Q!Conf!AssocsOf(p)
    BY <1>3 DEF Config!AssocsOf, Config!InAssoc, Q!Conf!AssocsOf, Q!Conf!InAssoc
  <2>2. Config!WellFormed = Q!Conf!WellFormed
    BY <1>2, <1>3, <2>1 DEF Config!WellFormed, Q!Conf!WellFormed
  <2> QED BY <1>2, <1>3, <2>1, <2>2 DEF Config!OneFunction, Q!Conf!OneFunction
<1>9. Q!Conf!TableAlive => Config!TableAlive
  BY <1>3 DEF Config!TableAlive, Q!Conf!TableAlive
<1>10. Q!Conf!CfgFreed => Config!CfgFreed
  BY <1>3 DEF Config!CfgFreed, Q!Conf!CfgFreed
<1> QED BY <1>1, <1>6, <1>7, <1>8, <1>9, <1>10

LEMMA DescParamsHold == Q!ParseParams /\ Q!HidParams /\ Q!ConfParams
<1>1. Q!ParseParams
  BY DEF Q!ParseParams
<1>2. Q!HidParams
  BY DEF Q!HidParams, HidItems
<1>3. Q!ConfParams
  <2> DEFINE S == Q!ConfDescs
  <2>1. /\ \A a, b \in {0, 1, 2, 3} : DA(a, b) \in S
        /\ \A a, b, c \in {0, 1, 2, 3} : DI(a, b, c) \in S
        /\ \A a \in {0, 1, 2, 3} : DE(a) \in S
        /\ DO \in S
    BY DEF DA, DI, DE, DO, Q!ConfDescs
  <2> HIDE DEF S
  <2>2. /\ <<DA(0, 2), DI(0, 0, 1), DO, DE(1), DI(1, 0, 0), DI(1, 1, 1), DE(2),
             DI(2, 0, 1), DE(3)>> \in Seq(S)
        /\ <<DI(0, 0, 1), DE(1), DI(0, 1, 1), DE(1), DE(2), DI(1, 0, 2), DE(2)>> \in Seq(S)
        /\ <<DI(0, 0, 1), DE(1), DI(1, 0, 1), DE(2)>> \in Seq(S)
        /\ <<DI(0, 0, 1), DE(1), DI(1, 0, 1), DE(0)>> \in Seq(S)
        /\ <<DI(0, 0, 0), DA(1, 2), DI(1, 0, 1), DE(1), DI(2, 0, 0), DI(2, 1, 1), DE(2),
             DI(3, 0, 1), DE(1)>> \in Seq(S)
        /\ <<DA(0, 2), DI(0, 0, 1), DE(1), DI(1, 0, 0), DI(1, 1, 1), DE(2), DI(1, 2, 2),
             DE(2), DE(3)>> \in Seq(S)
    <3>1. \A a, b, c, d \in S : <<a, b, c, d>> \in Seq(S)
      OBVIOUS
    <3>2. \A a, b, c, d, e, f, g \in S : <<a, b, c, d, e, f, g>> \in Seq(S)
      OBVIOUS
    <3>3. \A a, b, c, d, e, f, g, h, i \in S : <<a, b, c, d, e, f, g, h, i>> \in Seq(S)
      OBVIOUS
    <3>4. /\ DA(0, 2) \in S /\ DA(1, 2) \in S /\ DO \in S
          /\ DE(0) \in S /\ DE(1) \in S /\ DE(2) \in S /\ DE(3) \in S
      BY <2>1
    <3>5. /\ DI(0, 0, 0) \in S /\ DI(0, 0, 1) \in S /\ DI(0, 1, 1) \in S
          /\ DI(1, 0, 0) \in S /\ DI(1, 0, 1) \in S /\ DI(1, 0, 2) \in S
          /\ DI(1, 1, 1) \in S /\ DI(1, 2, 2) \in S
          /\ DI(2, 0, 0) \in S /\ DI(2, 0, 1) \in S /\ DI(2, 1, 1) \in S /\ DI(3, 0, 1) \in S
      BY <2>1
    <3>6. <<DA(0, 2), DI(0, 0, 1), DO, DE(1), DI(1, 0, 0), DI(1, 1, 1), DE(2),
               DI(2, 0, 1), DE(3)>> \in Seq(S)
      BY <3>4, <3>5, <3>3
    <3>7. <<DI(0, 0, 1), DE(1), DI(0, 1, 1), DE(1), DE(2), DI(1, 0, 2), DE(2)>> \in Seq(S)
      BY <3>4, <3>5, <3>2
    <3>8. /\ <<DI(0, 0, 1), DE(1), DI(1, 0, 1), DE(2)>> \in Seq(S)
          /\ <<DI(0, 0, 1), DE(1), DI(1, 0, 1), DE(0)>> \in Seq(S)
      BY <3>4, <3>5, <3>1
    <3>9. <<DI(0, 0, 0), DA(1, 2), DI(1, 0, 1), DE(1), DI(2, 0, 0), DI(2, 1, 1), DE(2),
               DI(3, 0, 1), DE(1)>> \in Seq(S)
      BY <3>4, <3>5, <3>3
    <3>10. <<DA(0, 2), DI(0, 0, 1), DE(1), DI(1, 0, 0), DI(1, 1, 1), DE(2), DI(1, 2, 2),
               DE(2), DE(3)>> \in Seq(S)
      BY <3>4, <3>5, <3>3
    <3> QED BY <3>6, <3>7, <3>8, <3>9, <3>10
  <2>3. \A c \in DevConfigs : c.num \in 0 .. 255 /\ c.desc \in Seq(S)
    <3> DEFINE Whole(c) == c.num \in 0 .. 255 /\ c.desc \in Seq(S)
    <3>1. \A d \in Seq(S) : /\ Whole([num |-> 1, desc |-> d]) /\ Whole([num |-> 2, desc |-> d])
                            /\ Whole([num |-> 3, desc |-> d]) /\ Whole([num |-> 4, desc |-> d])
      OBVIOUS
    <3> HIDE DEF Whole
    <3>2. \A c \in DevConfigs : Whole(c)
      BY <2>2, <3>1 DEF DevConfigs
    <3> QED BY <3>2 DEF Whole
  <2> QED BY <2>3 DEF S, Q!ConfParams
<1> QED BY <1>1, <1>2, <1>3

\* What a device describes is taken as it says: each interface of its configuration is in
\* one function and in no table when freed, the formats of a camera are in the room that
\* was counted for them, and an accepted report descriptor is nested as it should be.
THEOREM DescPartSafe == PartsSpec => []DescSafe
<1> DEFINE Inv == /\ part = "hostcfg" => Q!ConfInv /\ Q!ConfOne
                  /\ part = "parse" => Q!ParseInv
                  /\ part = "hid" => Q!HidInv
<1>1. PartsInit => Inv
  BY InitOfPart, ConfigMaps, ParsedMaps, HidMaps, DescParamsHold, Q!ConfFirst, Q!OneFirst,
     Q!ParseInit, Q!HidFirst
<1>2. Inv /\ [PartsNext]_partsVars => Inv'
  <2> SUFFICES ASSUME Inv, [PartsNext]_partsVars
               PROVE  Inv'
    OBVIOUS
  <2>1. part' = part
    BY PartStays DEF partsVars
  <2>2. part = "hostcfg" => Q!ConfInv' /\ Q!ConfOne'
    <3>1. part = "hostcfg" => [Q!Conf!Next]_(Q!Conf!cfgVars)
      BY StepOfPart, ConfigMaps
    <3> QED BY <3>1, DescParamsHold, Q!ConfNext, Q!OneNext
  <2>3. part = "parse" => Q!ParseInv'
    <3>1. part = "parse" => [Q!Parsed!Next]_(Q!Parsed!parseVars)
      BY StepOfPart, ParsedMaps
    <3> QED BY <3>1, DescParamsHold, Q!ParseStep
  <2>4. part = "hid" => Q!HidInv'
    <3>1. part = "hid" => [Q!Hid!Next]_(Q!Hid!hidVars)
      BY StepOfPart, HidMaps
    <3> QED BY <3>1, DescParamsHold, Q!HidStep
  <2> QED BY <2>1, <2>2, <2>3, <2>4
<1>3. Inv => DescSafe
  <2>1. Q!ConfInv /\ Q!ConfOne => Config!OneFunction /\ Config!TableAlive /\ Config!CfgFreed
    BY ConfigMaps, DescParamsHold, Q!OneTells, Q!ConfTells
  <2>2. Q!ParseInv => Parsed!FilledInRoom
    BY ParsedMaps, DescParamsHold, Q!ParseHolds
  <2>3. Q!HidInv => Hid!AcceptedNested /\ Hid!UsageOwned
    BY HidMaps, DescParamsHold, Q!HidHolds
  <2> QED BY <2>1, <2>2, <2>3 DEF DescSafe
<1> QED BY <1>1, <1>2, <1>3, PTL DEF PartsSpec
=============================================================================
