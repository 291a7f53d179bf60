----------------------------- MODULE UvcChain -----------------------------
(***************************************************************************)
(* The units and terminals of a camera are put in video chains, one for    *)
(* each output terminal, by following their sources (usbh_vc_drv.c,        *)
(* usbh_vc_entity.c).                                                      *)
(***************************************************************************)
EXTENDS Naturals, Sequences, SequencesExt, FiniteSets

CONSTANTS
    Listed,    \* the entities in the order of their descriptors
    Type,      \* "xu", "pu", "su", "it" or "ot", of an entity
    Reserved,  \* bound: terminals that may have a reserved type
    Streaming, \* output terminals that are streaming
    Sources,   \* the sources that the pins of an entity may have
    None

VARIABLES
    there,     \* entities that were parsed
    source,    \* the entities at the pins of each
    linked,    \* entities whose chain node is in a list
    chains,    \* the chains, each the sequence of its entities
    pos,       \* the entity in turn, of __vc_ctrl_parse and of the scan
    chain,     \* the chain being scanned
    cur, prev, \* __vc_chain_scan: p_entity and p_prev
    pc,        \* "parse", "next", "scan", "register", "ready" or "failed"
    ofStream   \* chains that a streaming terminal was registered with

chainVars == <<there, source, linked, chains, pos, chain, cur, prev, pc, ofStream>>

Ents == Range(Listed)
Pins(e) == Len(source[e])
\* __vc_entity_get_by_source_id: the entities that e feeds, in their order.
Fed(e) == SelectSeq(Listed, LAMBDA f : f \in there /\ e \in Range(source[f]))

Init ==
    /\ there = {} /\ source = [e \in Ents |-> <<>>]
    /\ linked = {} /\ chains = <<>> /\ pos = 1 /\ chain = <<>>
    /\ cur = None /\ prev = None /\ pc = "parse"
    /\ ofStream = [e \in Streaming |-> <<>>]

\* __standard_ctrl_parse of a unit: an entity with its sources.
Unit(e) ==
    /\ Type[e] \in {"xu", "pu", "su"}
    /\ \E s \in Sources[e] : source' = [source EXCEPT ![e] = s]
    /\ there' = there \cup {e}

\* The same of a terminal; one with a reserved type is passed over.
Terminal(e) ==
    /\ Type[e] \in {"it", "ot"}
    /\ \/ /\ \E s \in Sources[e] : source' = [source EXCEPT ![e] = s]
          /\ there' = there \cup {e}
       \/ e \in Reserved /\ UNCHANGED <<source, there>>

\* __vc_ctrl_parse: one descriptor after the other; one that is too short, a string
\* that cannot be read or no memory ends it.
Parse ==
    /\ pc = "parse"
    /\ \/ /\ pos <= Len(Listed) /\ pos' = pos + 1
          /\ \/ (Unit(Listed[pos]) \/ Terminal(Listed[pos])) /\ pc' = pc
             \/ pc' = "failed" /\ UNCHANGED <<source, there>>
       \/ /\ pos > Len(Listed) /\ pos' = 1 /\ pc' = "next"
          /\ UNCHANGED <<source, there>>
    /\ UNCHANGED <<linked, chains, chain, cur, prev, ofStream>>

\* The next output terminal that is in no chain gets one; with no memory or no
\* mutex the scan ends there.
NextTerm ==
    /\ pc = "next" /\ pos <= Len(Listed)
    /\ LET e == Listed[pos]
       IN \/ /\ e \notin there \/ Type[e] # "ot" \/ e \in linked
             /\ pos' = pos + 1
             /\ UNCHANGED <<chain, cur, prev, pc>>
          \/ /\ e \in there /\ Type[e] = "ot" /\ e \notin linked
             /\ \/ pc' = "failed" /\ UNCHANGED <<chain, cur, prev>>
                \/ pc' = "scan" /\ chain' = <<>> /\ cur' = e /\ prev' = None
             /\ pos' = pos + 1
    /\ UNCHANGED <<there, source, linked, chains, ofStream>>

Has(type) == \E i \in DOMAIN chain : Type[chain[i]] = type
             /\ (type = "su" => Pins(chain[i]) > 1)

\* __vc_chain_entity_scan: a chain has one processing unit and one selector, and an
\* extension unit one pin.
MayJoin(e) ==
    CASE Type[e] = "xu" -> Pins(e) = 1
      [] Type[e] = "pu" -> ~Has("pu")
      [] Type[e] = "su" -> Pins(e) = 1 \/ ~Has("su")
      [] OTHER -> TRUE

\* Mutant of Forward: the entity that the scan came from joins again.
ForwardBack(e, from) ==
    [ok |-> TRUE, joins |-> SelectSeq(Fed(e), LAMBDA f : Type[f] \in {"xu", "ot"})]

\* __vc_chain_entity_scan_forward: of what e feeds, extension units and output
\* terminals join the chain up to one that is illegal, and not the entity that the
\* scan came from.  Whether they are in a chain is not looked at.
Forward(e, from) ==
    LET fed == SelectSeq(Fed(e), LAMBDA f : f # from /\ Type[f] \in {"xu", "ot"})
        bad == {i \in DOMAIN fed : Type[fed[i]] = "xu" /\ Pins(fed[i]) # 1}
    IN IF bad = {} THEN [ok |-> TRUE, joins |-> fed]
       ELSE [ok |-> FALSE, joins |-> SubSeq(fed, 1, (CHOOSE i \in bad : \A j \in bad : i <= j) - 1)]

\* A selector with several pins: each input terminal joins with what it feeds, up to
\* a pin that has none.
Selected(s) ==
    LET bad == {i \in 1 .. Pins(s) :
                 source[s][i] \notin there \/ Type[source[s][i]] # "it"}
        upto == IF bad = {} THEN Pins(s) ELSE (CHOOSE i \in bad : \A j \in bad : i <= j) - 1
    IN [ok |-> bad = {},
        joins |-> FlattenSeq([i \in 1 .. upto |->
                     <<source[s][i]>> \o Forward(source[s][i], s).joins])]

\* __vc_chain_entity_scan_backward: the entity to go on with.
Backward(e) ==
    IF Type[e] \in {"xu", "pu", "ot"} \/ (Type[e] = "su" /\ Pins(e) = 1)
    THEN source[e][1] ELSE None

\* A chain that is illegal is freed; its entities stay linked to it.
Drop(joined) ==
    /\ linked' = linked \cup Range(joined)
    /\ chain' = <<>> /\ cur' = None /\ prev' = None /\ pc' = "next"
    /\ UNCHANGED chains

\* One turn of __vc_chain_scan.
ScanOne ==
    /\ pc = "scan" /\ cur # None
    /\ IF cur \in linked \/ ~MayJoin(cur) THEN Drop(<<>>)
       ELSE LET fwd == Forward(cur, prev)
                many == Type[cur] = "su" /\ Pins(cur) > 1
                sel == IF fwd.ok /\ many THEN Selected(cur) ELSE [ok |-> TRUE, joins |-> <<>>]
                joined == chain \o <<cur>> \o fwd.joins \o sel.joins
            IN IF ~fwd.ok \/ ~sel.ok \/ Backward(cur) \notin there \cup {None} THEN Drop(joined)
               ELSE /\ linked' = linked \cup Range(joined)
                    /\ chain' = joined /\ prev' = cur /\ cur' = Backward(cur)
                    /\ UNCHANGED <<chains, pc>>
    /\ UNCHANGED <<there, source, pos, ofStream>>

\* The chain is whole and listed.
ChainDone ==
    /\ pc = "scan" /\ cur = None
    /\ chains' = Append(chains, chain) /\ chain' = <<>> /\ pc' = "next"
    /\ UNCHANGED <<there, source, linked, pos, cur, prev, ofStream>>

\* The scan is over: without a chain there is no device.
Scanned ==
    /\ pc = "next" /\ pos > Len(Listed)
    /\ pc' = IF chains = <<>> THEN "failed" ELSE "register"
    /\ UNCHANGED <<there, source, linked, chains, pos, chain, cur, prev, ofStream>>

\* usbh_vc_video_chain_register: each streaming terminal gives its stream the chain;
\* registering a stream may fail, and the others are not.
Register ==
    /\ pc = "register"
    /\ LET regs == FlattenSeq([k \in DOMAIN chains |->
                      [i \in DOMAIN SelectSeq(chains[k], LAMBDA e : e \in Streaming) |->
                         <<SelectSeq(chains[k], LAMBDA e : e \in Streaming)[i], k>>]])
       IN \E n \in 0 .. Len(regs) :
            /\ ofStream' = [e \in Streaming |->
                  SelectSeq([i \in 1 .. n |-> IF regs[i][1] = e THEN regs[i][2] ELSE 0],
                            LAMBDA k : k > 0)]
            /\ pc' = IF n = Len(regs) THEN "ready" ELSE "failed"
    /\ UNCHANGED <<there, source, linked, chains, pos, chain, cur, prev>>

Next == Parse \/ NextTerm \/ ScanOne \/ ChainDone \/ Scanned \/ Register

Spec == Init /\ [][Next]_chainVars
-----------------------------------------------------------------------------
(* Properties                                                              *)

TypeOK ==
    /\ linked \subseteq Ents /\ pos \in 1 .. Len(Listed) + 1
    /\ cur \in Ents \cup {None} /\ prev \in Ents \cup {None}
    /\ pc \in {"parse", "next", "scan", "register", "ready", "failed"}

\* The camera is well formed: no entity feeds itself, and no two pins of one have
\* the same source.
Above(e) ==
    FoldLeft(LAMBDA up, i : up \cup UNION {Range(source[f]) : f \in up},
             Range(source[e]), Listed)
\* The input terminals of a selector with several pins feed nothing else: one that is
\* in a chain already would be put in another (usbh_vc_entity.c:338).
Apart ==
    \A s \in Ents : \A i \in Range(source[s]) :
        Type[s] = "su" /\ Pins(s) > 1 => \A f \in Ents \ {s} : i \notin Range(source[f])
WellFormed ==
    /\ Apart
    /\ \A e \in Ents : IsInjective(source[e])
    /\ \A e \in Ents : e \notin Above(e)

\* No entity is in two chains nor twice in one: its node is in one list, and a stream
\* has one chain (usbh_vc_entity.c:250, :283, :295, :338, :386, :551).
ChainOnce ==
    WellFormed =>
        /\ IsInjective(FlattenSeq(chains) \o chain)
        /\ \A e \in Streaming : Len(ofStream[e]) <= 1

Feeds(e, f) == e \in Range(source[f])
\* A chain leads from its output terminal to an input terminal along sources.
ChainWhole ==
    \A k \in DOMAIN chains :
        LET in == Range(chains[k])
        IN /\ Type[Head(chains[k])] = "ot"
           /\ \E e \in in : Type[e] = "it"
           /\ \A e \in in \ {Head(chains[k])} : \E f \in in : Feeds(e, f) \/ Feeds(f, e)
=============================================================================
