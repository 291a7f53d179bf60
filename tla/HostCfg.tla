----------------------------- MODULE HostCfg -----------------------------
(***************************************************************************)
(* The configuration of a device on the host: its descriptors are parsed   *)
(* into interfaces, the interfaces are gathered into functions, and a      *)
(* table says which endpoint has an address (usbh_dev_enum.c, usbh_dev.c). *)
(***************************************************************************)
EXTENDS Integers, Sequences, SequencesExt, FiniteSets, FiniteSetsExt, Functions

CONSTANTS
    Configs,   \* configurations: [num: interfaces claimed, desc: the descriptors]
    MaxEps,    \* USBH_MAX_EP_NUM
    Addrs,     \* addresses of endpoints; 0 is illegal
    None       \* no endpoint

(* A descriptor is [k: "assoc", first, n], [k: "intf", num, alt, eps], [k: "ep", addr] *)
(* or [k: "other"].  Interfaces and endpoints are named by their descriptors.         *)

VARIABLES
    cfg,       \* the configuration descriptor
    at,        \* "read", "intfs", "funs", "assoc", "rest", "ready", "failed",
               \* "release", "destroy" or "gone"
    pos,       \* the descriptor in turn
    eps,       \* the endpoints of each interface that is allocated
    list,      \* intf_list: interfaces that are in no function yet, in their order
    n_assoc,   \* n_assoc_intf
    funs,      \* p_funs: [first, n, intfs]
    table,     \* p_ep_in and p_ep_out
    enabled,   \* endpoints that have a queue head
    left       \* an interface could not be freed, or memory was lost

cfgVars == <<cfg, at, pos, eps, list, n_assoc, funs, table, enabled, left>>

D(p) == cfg.desc[p]
Len0 == Len(cfg.desc)
Is(p, k) == p <= Len0 /\ D(p).k = k
Live == DOMAIN eps

Init ==
    /\ cfg \in Configs /\ at = "read" /\ pos = 1
    /\ eps = <<>> /\ list = {} /\ n_assoc = 0 /\ funs = <<>>
    /\ table = [a \in Addrs \ {0} |-> None] /\ enabled = {} /\ left = FALSE

\* __dev_cfg_init to the parsing: the descriptor is fetched twice, the second time
\* whole; what fails here loses the buffer it has.
CfgInit ==
    /\ at = "read"
    /\ \/ at' = "intfs" /\ left' = left
       \/ at' = "failed" /\ left' = TRUE
    /\ UNCHANGED <<cfg, pos, eps, list, n_assoc, funs, table, enabled>>

\* __dev_intf_parse: the endpoints up to the next interface or association, no more
\* than the interface has.
OwnEps(p) ==
    LET own == {q \in p + 1 .. Len0 : Is(q, "ep") /\ \A i \in p + 1 .. q : D(i).k \in {"ep", "other"}}
        most == IF D(p).eps < MaxEps THEN D(p).eps ELSE MaxEps
    IN {q \in own : Cardinality({i \in own : i < q}) < most}

\* One interface: it is listed with its endpoints.  An illegal endpoint, no memory or
\* no semaphore ends the parsing, and what was made is lost.
IntfInit ==
    /\ at = "intfs" /\ Is(pos, "intf")
    /\ \/ /\ \A q \in OwnEps(pos) : D(q).addr # 0
          /\ eps' = [p \in Live \cup {pos} |-> IF p = pos THEN OwnEps(pos) ELSE eps[p]]
          /\ list' = list \cup {pos} /\ pos' = pos + 1
          /\ UNCHANGED <<at, left>>
       \/ at' = "failed" /\ left' = TRUE /\ UNCHANGED <<eps, list, pos>>
    /\ UNCHANGED <<cfg, n_assoc, funs, table, enabled>>

\* __dev_cfg_parse, first pass: an association is counted, others are passed over.
Other ==
    /\ at = "intfs" /\ pos <= Len0 /\ ~Is(pos, "intf")
    /\ n_assoc' = IF Is(pos, "assoc") THEN n_assoc + D(pos).n - 1 ELSE n_assoc
    /\ pos' = pos + 1
    /\ UNCHANGED <<cfg, at, eps, list, funs, table, enabled, left>>

\* The last of the endpoints with address a, in the order of the list.
LastOf(a, intfs) ==
    LET c == {q \in UNION {eps[p] : p \in intfs} : D(q).addr = a}
    IN IF c = {} THEN None ELSE Max(c)

\* The endpoints of the alternate settings 0 go in the table, and the functions are
\* allocated (__dev_funs_init).
Funs ==
    /\ at = "intfs" /\ pos > Len0
    /\ table' = [a \in DOMAIN table |-> LastOf(a, {p \in Live : D(p).alt = 0})]
    /\ \/ /\ funs' = [i \in 1 .. (cfg.num - n_assoc) % 256 |-> [first |-> 0, n |-> 0, intfs |-> {}]]
          /\ at' = "assoc" /\ pos' = 1 /\ left' = left
       \/ at' = "failed" /\ left' = TRUE /\ UNCHANGED <<funs, pos>>
    /\ UNCHANGED <<cfg, eps, list, n_assoc, enabled>>

\* Mutant of Taken: an association has one interface too many.
TakenOneMore(d) ==
    {p \in list : D(p).num >= d.first /\ D(p).num <= d.first + d.n}
\* The listed interfaces that an association takes.
Taken(d) ==
    {p \in list : D(p).num >= d.first /\ D(p).num < d.first + d.n}

\* How many functions are an association's.
Assocs == Cardinality({q \in 1 .. pos - 1 : Is(q, "assoc")})

\* The second pass: each association, in turn, is a function.
Assoc ==
    /\ at = "assoc"
    /\ IF pos > Len0 \/ Assocs >= Len(funs)
       THEN at' = "rest" /\ UNCHANGED <<pos, funs, list>>
       ELSE /\ pos' = pos + 1 /\ at' = at
            /\ IF ~Is(pos, "assoc") THEN UNCHANGED <<funs, list>>
               ELSE /\ funs' = [funs EXCEPT ![Assocs + 1] =
                                 [first |-> D(pos).first, n |-> D(pos).n,
                                  intfs |-> Taken(D(pos))]]
                    /\ list' = list \ Taken(D(pos))
    /\ UNCHANGED <<cfg, eps, n_assoc, table, enabled, left>>

\* An interface that is left joins the function of its number, or makes one; without
\* a function left for it, it stays in no list that anyone keeps.
Rest ==
    /\ at = "rest"
    /\ IF list = {} THEN at' = "ready" /\ UNCHANGED <<funs, list, left>>
       ELSE LET p == Min(list)
                may == {j \in Assocs + 1 .. Len(funs) :
                          funs[j].intfs = {} \/ funs[j].first = D(p).num}
            IN /\ funs' = IF may = {} THEN funs
                          ELSE [funs EXCEPT ![Min(may)] =
                                 [first |-> D(p).num, n |-> 1, intfs |-> @.intfs \cup {p}]]
               /\ left' = (left \/ may = {})
               /\ list' = list \ {p} /\ at' = at
    /\ UNCHANGED <<cfg, pos, eps, n_assoc, table, enabled>>

FunsOf(p) == {j \in DOMAIN funs : p \in funs[j].intfs}
\* What the class drivers can reach: usbh_func_intf_get, usbh_intf_ep_get.
Reached == UNION {eps[p] : p \in UNION {funs[j].intfs : j \in DOMAIN funs}}

\* usbh_func_intf_set: the endpoints of the alternate setting replace those with
\* their addresses; the ones that they replace stay enabled.
IntfSet ==
    /\ at = "ready"
    /\ \E p \in Live :
        /\ FunsOf(p) # {}
        /\ table' = [a \in DOMAIN table |->
                      IF LastOf(a, {p}) = None THEN table[a] ELSE LastOf(a, {p})]
    /\ UNCHANGED <<cfg, at, pos, eps, list, n_assoc, funs, enabled, left>>

\* usbh_trp_submit enables the endpoint.
Submit ==
    /\ at = "ready"
    /\ \E q \in Reached \ enabled : enabled' = enabled \cup {q}
    /\ UNCHANGED <<cfg, at, pos, eps, list, n_assoc, funs, table, left>>

\* usbh_dev_ep_halt_clr and usbh_dev_ep_reset: enabled again, unless that fails.
Reset ==
    /\ at = "ready"
    /\ \E q \in enabled : enabled' = enabled \ {q}
    /\ UNCHANGED <<cfg, at, pos, eps, list, n_assoc, funs, table, left>>

\* The device is released (__dev_release), from wherever its enumeration ended.
Release ==
    /\ at \in {"ready", "failed"} /\ at' = "release"
    /\ UNCHANGED <<cfg, pos, eps, list, n_assoc, funs, table, enabled, left>>

Members == (UNION {funs[j].intfs : j \in DOMAIN funs}) \cap Live
\* The functions are freed in their order.
InTurn == CHOOSE p \in Members : \A o \in Members :
            Min(FunsOf(p)) < Min(FunsOf(o)) \/ (FunsOf(p) = FunsOf(o) /\ p <= o)
\* The table without the endpoints at the addresses of an interface.
Cleared(p) == [a \in DOMAIN table |-> IF LastOf(a, {p}) = None THEN table[a] ELSE None]

\* Mutant of IntfFreed: its endpoints stay in the table.
IntfFreedKeeps ==
    /\ eps' = Restrict(eps, Live \ {InTurn}) /\ UNCHANGED <<table, at, left>>

\* __dev_intf_deinit: its endpoints leave the table, whoever is there at their
\* addresses, and it is freed.  They are not disabled.
IntfFreed ==
    /\ table' = Cleared(InTurn)
    /\ eps' = Restrict(eps, Live \ {InTurn}) /\ UNCHANGED <<at, left>>

\* usbh_dev_unenumerate and __dev_cfg_deinit; a semaphore that is not destroyed ends
\* it, with the addresses up to it cleared.
Unenumerate ==
    /\ at = "release"
    /\ IF Members = {} THEN at' = "destroy" /\ UNCHANGED <<table, eps, left>>
       ELSE \/ IntfFreed
            \/ /\ eps[InTurn] # {}
               /\ \E q \in eps[InTurn] :
                    table' = [a \in DOMAIN table |->
                      IF \E i \in eps[InTurn] : i <= q /\ D(i).addr = a THEN None ELSE table[a]]
               /\ at' = "destroy" /\ left' = TRUE /\ eps' = eps
    /\ UNCHANGED <<cfg, pos, list, n_assoc, funs, enabled>>

\* __dev_destroy: each endpoint in the table is disabled, then the device is freed.
DevDestroy ==
    /\ at = "destroy" /\ at' = "gone"
    /\ enabled' = enabled \ Range(table)
    /\ table' = [a \in DOMAIN table |-> None]
    /\ UNCHANGED <<cfg, pos, eps, list, n_assoc, funs, left>>

Next ==
    \/ CfgInit \/ IntfInit \/ Other \/ Funs \/ Assoc \/ Rest
    \/ IntfSet \/ Submit \/ Reset \/ Release \/ Unenumerate \/ DevDestroy

Spec == Init /\ [][Next]_cfgVars
-----------------------------------------------------------------------------
(* Properties                                                              *)

TypeOK ==
    /\ at \in {"read", "intfs", "funs", "assoc", "rest", "ready", "failed", "release",
               "destroy", "gone"}
    /\ pos \in 1 .. Len0 + 1 /\ list \subseteq Live

Intfs == {p \in 1 .. Len0 : Is(p, "intf")}
InAssoc(p, q) == Is(q, "assoc") /\ D(p).num \in D(q).first .. D(q).first + D(q).n - 1
AssocsOf(p) == {q \in 1 .. Len0 : InAssoc(p, q)}
\* A configuration as the USB specification has it: the interfaces are those claimed,
\* and an association takes some that there are, no two of them the same.
WellFormed ==
    /\ {D(p).num : p \in Intfs} = 0 .. cfg.num - 1
    /\ \A p \in Intfs : Cardinality(AssocsOf(p)) <= 1
    /\ \A q \in 1 .. Len0 : Is(q, "assoc") => D(q).n > 0 /\
         \A i \in D(q).first .. D(q).first + D(q).n - 1 : \E p \in Intfs : D(p).num = i

\* Every interface of a configuration, with its alternate settings, is in one function:
\* that of its association or that of its number, and every function has interfaces
\* (usbh_dev_enum.c:522-612).
OneFunction ==
    at = "ready" /\ WellFormed =>
        /\ \A p \in Intfs : Cardinality(FunsOf(p)) = 1
        /\ \A p, o \in Intfs : FunsOf(p) = FunsOf(o) <=>
             D(p).num = D(o).num \/ AssocsOf(p) \cap AssocsOf(o) # {}
        /\ \A j \in DOMAIN funs : funs[j].intfs # {}

\* An endpoint in the table is one of an interface that is still allocated, with that
\* address, through alternate settings, failures and the release
\* (usbh_dev_enum.c:413-420, :513, usbh_dev.c:714, :925).
TableAlive ==
    \A a \in DOMAIN table : table[a] # None =>
        D(table[a]).addr = a /\ \E p \in Live : table[a] \in eps[p]

\* When the device is gone its interfaces are too, unless something failed or it had
\* more of them than it claimed (usbh_dev_enum.c:708-744).
CfgFreed == at = "gone" /\ ~left => Live = {}
=============================================================================
