------------------------------ MODULE DevBuild ------------------------------
(***************************************************************************)
(* How an application builds a device before it starts the controller:     *)
(* usbd_dev_create, configurations, interface functions and associations,  *)
(* pipes, and the string indices and endpoints they take; and the          *)
(* configuration descriptor the device then sends (usbd_dev.c, and         *)
(* usb_dc_ep_alloc of usbd_core.c).                                        *)
(*                                                                         *)
(* Every call holds the lock of the device and runs to its end before the  *)
(* next.  An interface has one setting, [idx, spec, nEp, assoc]: its       *)
(* string index, whether it has class descriptors, num_endpoints, and the  *)
(* string index of its association (0: none).                              *)
(***************************************************************************)
EXTENDS Integers, Sequences, FiniteSets, FiniteSetsExt, SequencesExt

CONSTANTS
    Strings,   \* the string indices, 1 .. 31 in the code
    MaxCfg,    \* USBD_CONFIG_NUM_MAX
    Intfs,     \* interface numbers, 0 .. USBD_INTF_NUM_MAX - 1
    EpNums,    \* the endpoints the controller registered, of one direction
    MaxPipes,  \* bound: pipes of one configuration
    MaxFuncs   \* bound: n_func of one configuration

CfgLen == 9
IntfLen == 9
EpLen == 7
AssocLen == 8
SpecLen == 5

VARIABLES
    strMask,   \* __g_dev_str_idx
    dev,       \* "none", "built" or "run" (is_run)
    devStr,    \* the string indices of the device itself
    nCfg,      \* num_configurations
    cfg        \* p_cfgs: the configurations that are not NULL

buildVars == <<strMask, dev, devStr, nCfg, cfg>>

NoFunc == [idx |-> 0, spec |-> FALSE, nEp |-> 0, assoc |-> 0]
Funcs == [idx : Strings, spec : BOOLEAN, nEp : 0 .. MaxPipes, assoc : Strings \cup {0}]

NewCfg(s) == [idx |-> s, nFunc |-> 0, total |-> CfgLen, whole |-> TRUE,
              func |-> [i \in Intfs |-> NoFunc], pipes |-> <<>>]

HasIntf(c, i) == c.func[i] # NoFunc
Free == Strings \ strMask
Lowest(S) == Min(S)

TypeOK ==
    /\ strMask \subseteq Strings /\ devStr \subseteq Strings
    /\ dev \in {"none", "built", "run"} /\ nCfg \in 0 .. MaxCfg
    /\ DOMAIN cfg \subseteq 1 .. MaxCfg
    /\ \A c \in DOMAIN cfg :
        /\ cfg[c].idx \in Strings /\ cfg[c].nFunc \in Nat /\ cfg[c].total \in Int
        /\ cfg[c].func \in [Intfs -> Funcs \cup {NoFunc}]
        /\ Len(cfg[c].pipes) <= MaxPipes

Init ==
    /\ strMask = {} /\ dev = "none" /\ devStr = {} /\ nCfg = 0 /\ cfg = <<>>

Building == dev = "built"
-----------------------------------------------------------------------------
\* usbd_dev_create takes four indices; with fewer left it gives back what it
\* took and fails.
DevCreate ==
    /\ dev = "none" /\ Cardinality(Free) >= 4
    /\ \E S \in kSubset(4, Free) :
        /\ \A i \in S, j \in Free \ S : i < j
        /\ devStr' = S /\ strMask' = strMask \cup S
    /\ dev' = "built" /\ nCfg' = 0 /\ cfg' = <<>>

\* usbd_dev_cfg_add
CfgAdd ==
    /\ Building /\ nCfg < MaxCfg /\ Free # {}
    /\ cfg' = [c \in DOMAIN cfg \cup {nCfg + 1} |->
                 IF c = nCfg + 1 THEN NewCfg(Lowest(Free)) ELSE cfg[c]]
    /\ nCfg' = nCfg + 1 /\ strMask' = strMask \cup {Lowest(Free)}
    /\ UNCHANGED <<dev, devStr>>

\* __dev_func_init with one string index: a failure after the header of a new
\* interface was made leaves n_func counted up.
FuncFails(c) ==
    [c EXCEPT !.nFunc = @ + 1, !.whole = FALSE]

\* Mutant of FuncMade: the class descriptors are not counted.
FuncMadeNoSpec(c, i, spec, idx, assoc) ==
    [c EXCEPT !.nFunc = @ + 1,
              !.func[i] = [idx |-> idx, spec |-> spec, nEp |-> 0, assoc |-> assoc],
              !.total = @ + IntfLen + (IF assoc = 0 THEN 0 ELSE AssocLen)]

FuncMade(c, i, spec, idx, assoc) ==
    [c EXCEPT !.nFunc = @ + 1,
              !.func[i] = [idx |-> idx, spec |-> spec, nEp |-> 0, assoc |-> assoc],
              !.total = @ + IntfLen + (IF spec THEN SpecLen ELSE 0)
                          + (IF assoc = 0 THEN 0 ELSE AssocLen)]

\* Mutant of FuncAdd: the index is not marked as used.
FuncAddUnmarked(n, i, spec) ==
    /\ Building /\ ~HasIntf(cfg[n], i) /\ Free # {}
    /\ cfg' = [cfg EXCEPT ![n] = FuncMade(@, i, spec, Lowest(Free), 0)]
    /\ UNCHANGED <<strMask, dev, devStr, nCfg>>

\* usbd_dev_func_add: no string index left is an error.
FuncAdd(n, i, spec) ==
    /\ Building /\ ~HasIntf(cfg[n], i) /\ cfg[n].nFunc < MaxFuncs
    /\ \/ /\ Free # {}
          /\ cfg' = [cfg EXCEPT ![n] = FuncMade(@, i, spec, Lowest(Free), 0)]
          /\ strMask' = strMask \cup {Lowest(Free)}
       \/ /\ Free = {} /\ cfg' = [cfg EXCEPT ![n] = FuncFails(@)]
          /\ UNCHANGED strMask
    /\ UNCHANGED <<dev, devStr, nCfg>>

\* usbd_dev_func_assoc_add of interfaces i and i + 1, both new: the first takes
\* an index for the association before its own.
AssocAdd(n, i) ==
    /\ Building /\ {i, i + 1} \subseteq Intfs /\ Cardinality(Free) >= 3
    /\ ~HasIntf(cfg[n], i) /\ ~HasIntf(cfg[n], i + 1)
    /\ i > 0 => HasIntf(cfg[n], i - 1)
    /\ LET s == Lowest(Free)
           t == Lowest(Free \ {s})
           u == Lowest(Free \ {s, t})
           one == FuncMade(cfg[n], i, FALSE, t, s)
       IN /\ cfg' = [cfg EXCEPT ![n] = FuncMade(one, i + 1, FALSE, u, 0)]
          /\ strMask' = strMask \cup {s, t, u}
    /\ UNCHANGED <<dev, devStr, nCfg>>

\* The automatic number: one pass over the pipes, in the order of the list.
AutoNum(pipes) ==
    FoldLeft(LAMBDA num, p : IF p.ep = num THEN num + 1 ELSE num, 1, pipes)

WithPipe(c, i, ep) ==
    [c EXCEPT !.pipes = Append(@, [ep |-> ep, intf |-> i]),
              !.func[i].nEp = @ + 1, !.total = @ + EpLen]

\* usbd_dev_pipe_add with number 0 (automatic) or an endpoint: one in use by
\* another interface is an error, by this one is success without a change.
PipeAdd(n, i, num) ==
    /\ Building /\ HasIntf(cfg[n], i) /\ Len(cfg[n].pipes) < MaxPipes
    /\ LET ep == IF num = 0 THEN AutoNum(cfg[n].pipes) ELSE num
       IN /\ num # 0 => \A k \in DOMAIN cfg[n].pipes : cfg[n].pipes[k].ep # num
          /\ ep \in EpNums
          /\ cfg' = [cfg EXCEPT ![n] = WithPipe(@, i, ep)]
    /\ UNCHANGED <<strMask, dev, devStr, nCfg>>

\* Mutant of PipeDel: the length of the descriptor stays.
PipeDelKeepLen(n, i, ep) ==
    /\ Building /\ HasIntf(cfg[n], i)
    /\ \E k \in DOMAIN cfg[n].pipes :
        /\ cfg[n].pipes[k] = [ep |-> ep, intf |-> i]
        /\ \A j \in 1 .. k - 1 : cfg[n].pipes[j] # cfg[n].pipes[k]
        /\ cfg' = [cfg EXCEPT ![n].pipes = RemoveAt(@, k),
                              ![n].func[i].nEp = @ - 1]
    /\ UNCHANGED <<strMask, dev, devStr, nCfg>>

\* usbd_dev_pipe_del
PipeDel(n, i, ep) ==
    /\ Building /\ HasIntf(cfg[n], i)
    /\ \E k \in DOMAIN cfg[n].pipes :
        /\ cfg[n].pipes[k] = [ep |-> ep, intf |-> i]
        /\ \A j \in 1 .. k - 1 : cfg[n].pipes[j] # cfg[n].pipes[k]
        /\ cfg' = [cfg EXCEPT ![n].pipes = RemoveAt(@, k),
                              ![n].func[i].nEp = @ - 1,
                              ![n].total = @ - EpLen]
    /\ UNCHANGED <<strMask, dev, devStr, nCfg>>

FuncStrs(c) == {c.func[p].idx : p \in DOMAIN c.func} \ {0}
AssocStrs(c) == {c.func[p].assoc : p \in DOMAIN c.func} \ {0}

\* What usbd_dev_config_del gives back: the indices of the functions, not that
\* of the configuration nor those of the associations.
CfgFreed(n) == FuncStrs(cfg[n])

CfgDel(n) ==
    /\ Building
    /\ strMask' = strMask \ CfgFreed(n)
    /\ cfg' = [c \in DOMAIN cfg \ {n} |-> cfg[c]]
    /\ UNCHANGED <<dev, devStr, nCfg>>

\* usbd_dev_destroy deletes the configurations by number: one that is missing
\* already is an error, and the device stays, without those before it.
DevDestroy ==
    /\ Building
    /\ LET gone == {n \in 1 .. nCfg : 1 .. n \subseteq DOMAIN cfg}
           mask == strMask \ UNION {CfgFreed(n) : n \in gone}
       IN IF gone = 1 .. nCfg
          THEN /\ dev' = "none" /\ cfg' = <<>> /\ devStr' = {} /\ nCfg' = 0
               /\ strMask' = mask \ devStr
          ELSE /\ cfg' = [c \in DOMAIN cfg \ gone |-> cfg[c]]
               /\ strMask' = mask /\ UNCHANGED <<dev, devStr, nCfg>>

\* usb_dc_start: nothing can be added or deleted any more.
Start ==
    /\ Building /\ dev' = "run" /\ UNCHANGED <<strMask, devStr, nCfg, cfg>>

Next ==
    \/ DevCreate \/ CfgAdd \/ DevDestroy \/ Start
    \/ \E n \in DOMAIN cfg :
        \/ CfgDel(n)
        \/ \E i \in Intfs :
            \/ AssocAdd(n, i)
            \/ \E spec \in BOOLEAN : FuncAdd(n, i, spec)
            \/ \E ep \in EpNums \cup {0} : PipeAdd(n, i, ep)
            \/ \E ep \in EpNums : PipeDel(n, i, ep)

Spec == Init /\ [][Next]_buildVars
-----------------------------------------------------------------------------
(* Properties                                                              *)

\* What __usb_intf_desc_fill writes: every pipe of the interface.
PipesOf(c, i) == Cardinality({k \in DOMAIN c.pipes : c.pipes[k].intf = i})
FillLen(c, i) == IntfLen + (IF c.func[i].spec THEN SpecLen ELSE 0) + EpLen * PipesOf(c, i)

\* __cfg_desc_make goes over the first n_func interfaces.
MadeLen(c) ==
    CfgLen + SumFunctionOnSet([i \in Intfs |->
        FillLen(c, i) + (IF c.func[i].assoc = 0 THEN 0 ELSE AssocLen)],
        {i \in Intfs : i < c.nFunc})

\* The total length in the configuration descriptor and the number of endpoints
\* in that of an interface, kept up call by call, are what __cfg_desc_make then
\* writes: when no call has failed and the interfaces are numbered from 0.
DescExact ==
    \A n \in DOMAIN cfg :
        LET c == cfg[n]
        IN c.whole /\ {i \in Intfs : HasIntf(c, i)} = {i \in Intfs : i < c.nFunc}
               => /\ c.total = MadeLen(c)
                  /\ \A i \in Intfs : c.func[i].nEp = PipesOf(c, i)

\* A string index in use is one string's alone and is never free, through
\* failed calls and deletions that give back some indices and keep others.
OwnersOf(i) ==
    UNION {{<<n, j, "idx">> : j \in {j \in Intfs : cfg[n].func[j].idx = i}}
           \cup {<<n, j, "assoc">> : j \in {j \in Intfs : cfg[n].func[j].assoc = i}}
           \cup {<<n, n, "cfg">> : c \in {cfg[n].idx} \cap {i}} : n \in DOMAIN cfg}
StrOwned ==
    \A i \in Strings :
        Cardinality(OwnersOf(i)) + (IF i \in devStr THEN 1 ELSE 0)
            <= IF i \in strMask THEN 1 ELSE 0
=============================================================================
