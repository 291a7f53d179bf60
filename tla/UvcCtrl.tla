------------------------------ MODULE UvcCtrl ------------------------------
(***************************************************************************)
(* The controls of a camera (usbh_vc_ctrl.c): they are made for the bits   *)
(* of the units, their ranges and values are fetched when they are first   *)
(* needed, and a setting is written to the cached value.                   *)
(*                                                                         *)
(* A control holds the values of its fields (UvcField).  What is set stays *)
(* in the cache: nothing in the library sends it to the camera, which may  *)
(* change its values by itself.                                            *)
(***************************************************************************)
EXTENDS Integers, FiniteSets, FiniteSetsExt

CONSTANTS
    Units,     \* units and terminals of the camera, in the order of the chain
    Ctrls,     \* controls that they have
    Xus,       \* those that are extension units
    UnitOf,    \* the unit of a control
    Known,     \* controls that are in the tables of UvcField
    BlackListed, \* controls that are pruned for this camera
    Maps,      \* ids of the fields of a control
    Wide,      \* controls with one field that fills it
    Flags,     \* flags of a control
    Kind,      \* "int", "bool" or "menu", of an id
    Limits,     \* min, max and res that the camera reports, of an id
    Menu,      \* values of a menu
    Half,      \* bound: half as many as there are ints (2^31 in the code)
    Asked,     \* values an application sets
    Wants,     \* ids it asks for, with the flag for the next one
    Changing,  \* bound: fields that the camera changes by itself
    NoValue

VARIABLES
    phase,     \* "none", "made", "failed" or "gone"
    ready,     \* controls that are initialized
    mapped,    \* ids that are mapped
    mem,       \* what is allocated
    cached, loaded, dirty,  \* the flags of the controls
    fetched,   \* items that are cached, of a control
    dev, cur,  \* value of a field in the camera, and in the cache
    base, mine \* ghosts: what the last load left, what was set

ctrlVars == <<phase, ready, mapped, mem, cached, loaded, dirty, fetched, dev, cur, base,
              mine>>

Ids == UNION {Maps[c] : c \in Ctrls}
CtrlOf(id) == CHOOSE c \in Ctrls : id \in Maps[c]
Items == {"def", "min", "max", "res"}
IsXu(c) == UnitOf[c] \in Xus

\* An int and, of what is computed unsigned, the int it is stored to.
Ints == -Half .. Half - 1
Wrap(n) == LET m == n % (2 * Half) IN IF m >= Half THEN m - 2 * Half ELSE m

Init ==
    /\ phase = "none" /\ ready = {} /\ mapped = {} /\ mem = {}
    /\ cached = {} /\ loaded = {} /\ dirty = {}
    /\ fetched = [c \in Ctrls |-> {}]
    /\ dev = [id \in Ids |-> 1] /\ cur = [id \in Ids |-> 0] /\ base = cur
    /\ mine = [id \in Ids |-> NoValue]

-----------------------------------------------------------------------------
(* The controls are made and freed.                                        *)

Alloc(what, x) == [what |-> what, of |-> x]

\* __vc_ctrl_entity_prune: the bits of a unit that are left.
UnitCtrls(u) == {c \in Ctrls : UnitOf[c] = u} \ BlackListed

\* Controls that __vc_ctrl_init initializes: not those of an extension unit, nor the
\* ones that are not in the table, nor where __vc_ctrl_info_add has no memory.
InfoAdded(us, noMemory) ==
    {c \in UNION {UnitCtrls(u) : u \in us} : ~IsXu(c) /\ c \in Known} \ noMemory

\* Fields that __vc_ctrl_mapping_add maps; one whose menu cannot be allocated is
\* not mapped, and its memory is not freed.
MapsAdded(cs, noMap, noMenu) == (UNION {Maps[c] : c \in cs}) \ (noMap \cup noMenu)

\* usbh_vc_ctrl_init; with no memory for the array of a unit it returns, and the
\* units before it have theirs.
CtrlInit ==
    /\ phase = "none"
    /\ \E n \in 0 .. Cardinality(Units), noInfo \in SUBSET Ctrls,
          noMap \in SUBSET Ids, noMenu \in SUBSET Ids :
        LET us == {u \in Units : Cardinality({v \in Units : v <= u}) <= n
                                 /\ UnitCtrls(u) # {}}
            cs == InfoAdded(us, noInfo)
            ids == MapsAdded(cs, noMap, noMenu)
        IN /\ Cardinality(noInfo) + Cardinality(noMap) + Cardinality(noMenu) <= 1
           /\ phase' = IF n = Cardinality(Units) THEN "made" ELSE "failed"
           /\ ready' = cs /\ mapped' = ids
           /\ mem' = {Alloc("array", u) : u \in us} \cup {Alloc("data", c) : c \in cs}
                     \cup {Alloc("map", id) : id \in ids \cup (noMenu \cap UNION {Maps[c] : c \in cs})}
                     \cup {Alloc("menu", id) : id \in ids}
    /\ UNCHANGED <<cached, loaded, dirty, fetched, dev, cur, base, mine>>

\* Mutant of Freed: only the controls that were loaded are freed.
FreedLoaded ==
    {Alloc("array", u) : u \in Units} \cup {Alloc("data", c) : c \in loaded}
    \cup {Alloc(w, id) : w \in {"map", "menu"}, id \in mapped}

\* What usbh_vc_ctrl_deinit and __vc_ctrl_mappings_cleanup free.
Freed ==
    {Alloc("array", u) : u \in Units} \cup {Alloc("data", c) : c \in ready}
    \cup {Alloc(w, id) : w \in {"map", "menu"}, id \in mapped}

CtrlDeinit ==
    /\ phase \in {"made", "failed"} /\ phase' = "gone"
    /\ mem' = mem \ Freed
    /\ UNCHANGED <<ready, mapped, cached, loaded, dirty, fetched, dev, cur, base, mine>>

-----------------------------------------------------------------------------
(* Values                                                                  *)

\* __vc_chain_ctrl_get: the field with the id or, when the next is asked for, the
\* one with the smallest id above it; a set of at most one.
Found(id, next) ==
    LET there == {i \in mapped : CtrlOf(i) \in ready}
        above == {i \in there : i > id}
    IN IF next THEN {i \in above : \A j \in above : i <= j} ELSE there \cap {id}

\* __vc_ctrl_populate_cache, with the first item that cannot be fetched, if any:
\* the flags' items in order; RES may fail for an extension unit.
Order == <<"def", "min", "max", "res">>
Populated(c, fails) ==
    LET asked == {k \in 1 .. 4 : Order[k] \in Flags[c]}
        bad == {k \in asked : Order[k] \in fails /\ ~(Order[k] = "res" /\ IsXu(c))}
        upto == IF bad = {} THEN 5 ELSE Min(bad)
    IN [ok |-> bad = {}, items |-> {Order[k] : k \in {i \in asked : i < upto}} \ fails]

\* An item of the range as p_fn_get gives it: 0 if it was not fetched.
Item(items, id, item) == IF item \in items THEN Limits[id][item] ELSE 0

Clamp(v, min, max) == Min({Max({v, min}), max})
\* The step next to the value, computed unsigned.
Stepped(v, min, max, res) ==
    LET step == IF res = 0 THEN 1 ELSE res
        n == ((v - min) + step \div 2) % (2 * Half)
    IN Clamp(Wrap(min + (n \div step) * step), min, max)

\* Mutant of Stored: the setting is written over fields that were not loaded.
StoredBare(c, id, v, ok) == [base EXCEPT ![id] = v]

\* The value is written to the field, after the control was loaded if it has other
\* bits: GET_CUR, or zeros if it cannot be read.
Stored(c, id, v, ok) ==
    [(IF c \in loaded \/ c \in Wide THEN cur
      ELSE [i \in Ids |-> IF i \notin Maps[c] THEN cur[i]
                          ELSE IF "cur" \in Flags[c] THEN dev[i] ELSE 0])
     EXCEPT ![id] = v]

\* The value that usbh_vc_chain_ctrl_set writes; {} when it refuses it.
Settled(c, id, v, items) ==
    CASE Kind[id] = "int" -> {Stepped(v, Item(items, id, "min"), Item(items, id, "max"),
                                      Item(items, id, "res"))}
      [] Kind[id] = "bool" -> {Clamp(v, 0, 1)}
      [] Kind[id] = "menu" -> {Menu[i] : i \in {v + 1} \cap DOMAIN Menu}

\* usbh_vc_chain_ctrl_set; fails are the queries that the camera refuses.
ChainSet ==
    /\ phase = "made"
    /\ \E want \in Wants, v \in Asked : \E id \in Found(want.id, want.next),
          fails \in {{}} \cup {{i} : i \in Items \cup {"cur"}} :
        LET c == CtrlOf(id)
            pop == IF Kind[id] = "int" /\ c \notin cached THEN Populated(c, fails)
                   ELSE [ok |-> TRUE, items |-> fetched[c]]
            load == c \notin loaded /\ c \notin Wide
            ok == pop.ok /\ ~(load /\ "cur" \in Flags[c] /\ "cur" \in fails)
        IN /\ "set" \in Flags[c]
           /\ fetched' = [fetched EXCEPT ![c] = @ \cup pop.items]
           /\ cached' = IF pop.ok /\ Kind[id] = "int" THEN cached \cup {c} ELSE cached
           /\ IF ok /\ Settled(c, id, v, pop.items) # {}
              THEN \E s \in Settled(c, id, v, pop.items) :
                     /\ cur' = Stored(c, id, s, ok)
                     /\ loaded' = IF load THEN loaded \cup {c} ELSE loaded
                     /\ dirty' = dirty \cup {c}
                     /\ base' = IF load THEN [i \in Ids |-> IF i \notin Maps[c] THEN base[i]
                                                ELSE IF "cur" \in Flags[c] THEN dev[i] ELSE 0]
                                ELSE base
                     /\ mine' = [mine EXCEPT ![id] = s]
              ELSE UNCHANGED <<cur, loaded, dirty, base, mine>>
    /\ UNCHANGED <<phase, ready, mapped, mem, dev>>

\* usbh_vc_chain_ctrl_get and __vc_ctrl_value_get: a control is loaded once.
ChainGet ==
    /\ phase = "made"
    /\ \E want \in Wants : \E id \in Found(want.id, want.next) :
        LET c == CtrlOf(id)
        IN /\ "cur" \in Flags[c] /\ c \notin loaded
           /\ loaded' = loaded \cup {c}
           /\ cur' = [i \in Ids |-> IF i \in Maps[c] THEN dev[i] ELSE cur[i]]
           /\ base' = [i \in Ids |-> IF i \in Maps[c] THEN dev[i] ELSE base[i]]
    /\ UNCHANGED <<phase, ready, mapped, mem, cached, dirty, fetched, dev, mine>>

\* The camera changes a value (exposure, focus, a button on it).
CameraChanges ==
    /\ \E id \in Changing, v \in {0, 1} : dev' = [dev EXCEPT ![id] = v]
    /\ UNCHANGED <<phase, ready, mapped, mem, cached, loaded, dirty, fetched, cur, base,
                   mine>>

Next == CtrlInit \/ CtrlDeinit \/ ChainSet \/ ChainGet \/ CameraChanges

Spec == Init /\ [][Next]_ctrlVars
-----------------------------------------------------------------------------
(* Properties                                                              *)

TypeOK ==
    /\ phase \in {"none", "made", "failed", "gone"} /\ ready \subseteq Ctrls
    /\ mapped \subseteq Ids /\ cached \subseteq Ctrls /\ loaded \subseteq ready
    /\ dirty \subseteq ready

\* What was set through one field of a control stays, and its other fields keep what
\* the camera had, whatever is set, read and refused in between: blue and red, pan
\* and tilt share one (usbh_vc_ctrl.c:1424-1450).  Not for a control that one field
\* fills: it is not marked as loaded and the next read fetches it (:1306, :1424).
SettingKept ==
    \A c \in loaded \ Wide : \A id \in Maps[c] :
        cur[id] = IF mine[id] = NoValue THEN base[id] ELSE mine[id]

\* An integer becomes the nearest step of the range the camera gave, and one out of it
\* its end; near the ends of an int the sum wraps (usbh_vc_ctrl.c:1379).
NearestStep ==
    \A c \in cached : \A id \in {i \in Maps[c] : Kind[i] = "int"}, v \in Ints :
        LET min == Item(fetched[c], id, "min")  max == Item(fetched[c], id, "max")
            res == Item(fetched[c], id, "res")
            to == Stepped(v, min, max, res)
        IN /\ min <= to /\ to <= max
           /\ (v - min) \in -Half + res .. Half - res - 1 =>
                IF v < min THEN to = min
                ELSE IF v > max THEN to >= max - res
                ELSE 2 * (to - v) \in -res .. res \/ to = max

\* When the controls are freed nothing is left, after a failure too; but for a field
\* whose menu could not be allocated (usbh_vc_ctrl.c:1034-1037).
AllFreed ==
    phase = "gone" => \A m \in mem : m.what = "map" /\ m.of \notin mapped
=============================================================================
