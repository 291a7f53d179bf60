---------------------------- MODULE HidReport ----------------------------
(***************************************************************************)
(* The report descriptor of a human interface device, scanned for the      *)
(* kind of the device and then parsed item after item, with a stack of     *)
(* collections and a stack of globals (usbh_hid_report.c).                 *)
(***************************************************************************)
EXTENDS Integers, Sequences, SequencesExt, FiniteSets, FiniteSetsExt

CONSTANTS
    Items,       \* items that a descriptor may have: [t, v]
    MaxItems,    \* bound: items of a descriptor
    StackSize,   \* HID_COLLECTION_STACK_SIZE
    GlobalSize,  \* HID_GLOBAL_STACK_SIZE
    MaxUsages,   \* HID_MAX_USAGES
    Contact, Blob \* the usages of a contact and of a Windows 8 touch screen

(* t is "open", "close" or "field" of the main items, "push", "pop", "page" or "count" *)
(* of the globals, "delim", "usage", "min" or "upto" of the locals, "long" or "other". *)

VARIABLES
    items,       \* the descriptor
    pos,         \* the item in turn
    at,          \* "scan", "parse", "ok" or "failed"
    group,       \* the kind of device: "generic", "touch" or "win8"
    stack,       \* collection_stack
    collections, \* p_collection: [level, usage]
    global,      \* [page, count]: the usage page and the report count
    globals,     \* global_stack
    local,       \* [usages, min, depth, branch]
    reports,     \* reports that were registered
    broken       \* an allocation failed

hidVars == <<items, pos, at, group, stack, collections, global, globals, local, reports,
             broken>>

It == items[pos]
Done == pos > Len(items)
NoLocal == [usages |-> <<>>, min |-> 0, depth |-> 0, branch |-> 0]

Init ==
    /\ items \in UNION {[1 .. k -> Items] : k \in 1 .. MaxItems}
    /\ pos = 1 /\ at = "scan" /\ group = "generic"
    /\ stack = <<>> /\ collections = <<>> /\ globals = <<>> /\ local = NoLocal
    /\ global = [page |-> 0, count |-> 0] /\ reports = {} /\ broken = FALSE

FieldsFrom(n) == {i \in n .. Len(items) : items[i].t = "field"}
UsagesOf(i) ==
    {j \in 1 .. i - 1 : items[j].t = "usage" /\ \A m \in j .. i - 1 : items[m].t \notin {"open", "close", "field"}}

\* usbh_hid_report_scan: an input with a contact makes it a touch device, a feature of
\* Windows 8 another; its errors are not looked at.  The parser is not initialised: a
\* first field may seem to have any usage, and the device to be of Windows 8.
Scan ==
    /\ at = "scan"
    /\ LET first == FieldsFrom(1) # {} /\ \A i \in 1 .. Min(FieldsFrom(1)) - 1 : items[i].t \notin {"open", "close"}
           touch == \E i \in FieldsFrom(1) : items[i].v = "input"
                      /\ \E j \in UsagesOf(i) : items[j].v = Contact
           win8 == \E i \in FieldsFrom(1) : items[i].v = "feature"
                      /\ \E j \in UsagesOf(i) : items[j].v = Blob
       IN \E t \in {touch, touch \/ first}, w \in {win8, TRUE} :
            group' = IF ~t THEN "generic" ELSE IF w THEN "win8" ELSE "touch"
    /\ at' = "parse"
    /\ UNCHANGED <<items, pos, stack, collections, global, globals, local, reports, broken>>

\* An item that is refused ends the parsing.
Fail ==
    /\ at' = "failed"
    /\ UNCHANGED <<pos, stack, collections, global, globals, local, reports, broken>>

\* An item that is taken; the locals last until a main item.
Taken(l) == pos' = pos + 1 /\ at' = at /\ local' = l /\ broken' = broken
MainTaken == Taken(NoLocal)

\* __hid_collection_open: no more than the stack holds; the table of collections
\* doubles when it is full.
Open ==
    /\ It.t = "open"
    /\ IF Len(stack) = StackSize THEN Fail
       ELSE \/ /\ stack' = Append(stack, Len(collections) + 1)
               /\ collections' = Append(collections,
                    [level |-> Len(stack),
                     usage |-> IF local.usages = <<>> THEN 0 ELSE local.usages[1].id])
               /\ MainTaken /\ UNCHANGED <<global, globals, reports>>
            \/ at' = "failed" /\ broken' = TRUE
               /\ UNCHANGED <<pos, stack, collections, global, globals, local, reports>>

\* Mutant of Close: a collection that was not opened is closed.
CloseAny ==
    /\ It.t = "close"
    /\ stack' = IF stack = <<>> THEN stack ELSE Front(stack)
    /\ MainTaken /\ UNCHANGED <<collections, global, globals, reports>>

\* __hid_collection_close.
Close ==
    /\ It.t = "close"
    /\ IF stack = <<>> THEN Fail
       ELSE /\ stack' = Front(stack)
            /\ MainTaken /\ UNCHANGED <<collections, global, globals, reports>>

\* __hid_field_add: the report is registered, and then the item is refused just for
\* that; with no memory for it a pointer to nothing is followed.
Field ==
    /\ It.t = "field"
    /\ at' = "failed"
    /\ \/ reports' = reports \cup {It.v} /\ broken' = broken
       \/ reports' = reports /\ broken' = TRUE
    /\ UNCHANGED <<pos, stack, collections, global, globals, local>>

\* __hid_parser_global_item_process: the globals are kept and brought back.
Push ==
    /\ It.t = "push"
    /\ IF Len(globals) = GlobalSize THEN Fail
       ELSE /\ globals' = Append(globals, global)
            /\ Taken(local) /\ UNCHANGED <<stack, collections, global, reports>>
Pop ==
    /\ It.t = "pop"
    /\ IF globals = <<>> THEN Fail
       ELSE /\ global' = Last(globals) /\ globals' = Front(globals)
            /\ Taken(local) /\ UNCHANGED <<stack, collections, reports>>
Page ==
    /\ It.t = "page"
    /\ global' = [global EXCEPT !.page = It.v]
    /\ Taken(local) /\ UNCHANGED <<stack, collections, globals, reports>>
\* A number of fields that is more than the usages, and an unknown global, are refused.
Count ==
    /\ It.t = "count"
    /\ IF It.v > MaxUsages THEN Fail
       ELSE /\ global' = [global EXCEPT !.count = It.v]
            /\ Taken(local) /\ UNCHANGED <<stack, collections, globals, reports>>

\* __hid_parser_local_item_process: sets of alternative usages, of which the first
\* counts.
Delim ==
    /\ It.t = "delim"
    /\ IF (It.v = 1 /\ local.depth # 0) \/ (It.v = 0 /\ local.depth < 1) THEN Fail
       ELSE /\ Taken([local EXCEPT !.depth = @ + (IF It.v = 1 THEN 1 ELSE -1),
                                   !.branch = @ + It.v])
            /\ UNCHANGED <<stack, collections, global, globals, reports>>

Innermost == IF stack = <<>> THEN 0 ELSE Last(stack)
\* __hid_usage_add.
Added(us, ids) == us \o [i \in DOMAIN ids |-> [id |-> ids[i], page |-> global.page, in |-> Innermost,
                                              pos |-> pos]]

Usage ==
    /\ It.t = "usage"
    /\ IF local.branch > 1 THEN Taken(local) /\ UNCHANGED <<stack, collections, global, globals, reports>>
       ELSE IF Len(local.usages) >= MaxUsages THEN Fail
       ELSE /\ Taken([local EXCEPT !.usages = Added(@, <<It.v>>)])
            /\ UNCHANGED <<stack, collections, global, globals, reports>>

\* The bounds of a range of usages.
UsageMin ==
    /\ It.t = "min"
    /\ Taken(IF local.branch > 1 THEN local ELSE [local EXCEPT !.min = It.v])
    /\ UNCHANGED <<stack, collections, global, globals, reports>>
UsageUpTo ==
    /\ It.t = "upto"
    /\ LET n == IF local.branch > 1 \/ It.v < local.min THEN 0 ELSE It.v - local.min + 1
       IN IF Len(local.usages) + n > MaxUsages THEN Fail
          ELSE /\ Taken([local EXCEPT !.usages = Added(@, [i \in 1 .. n |-> local.min + i - 1])])
               /\ UNCHANGED <<stack, collections, global, globals, reports>>

\* Reserved and unknown items pass, a long item is refused.
Rest ==
    /\ It.t \in {"other", "long"}
    /\ IF It.t = "long" THEN Fail
       ELSE Taken(local) /\ UNCHANGED <<stack, collections, global, globals, reports>>

\* usbh_hid_report_parse: one item.
Item ==
    /\ at = "parse" /\ ~Done
    /\ \/ Open \/ Close \/ Field \/ Push \/ Pop \/ Page \/ Count \/ Delim
       \/ Usage \/ UsageMin \/ UsageUpTo \/ Rest
    /\ UNCHANGED <<items, group>>

\* The end: every collection and every set of usages is closed.
End ==
    /\ at = "parse" /\ Done
    /\ at' = IF stack # <<>> \/ local.depth # 0 THEN "failed" ELSE "ok"
    /\ UNCHANGED <<items, pos, group, stack, collections, global, globals, local, reports,
                   broken>>

Next == Scan \/ Item \/ End

Spec == Init /\ [][Next]_hidVars
-----------------------------------------------------------------------------
(* Properties                                                              *)

TypeOK ==
    /\ at \in {"scan", "parse", "ok", "failed"} /\ pos \in 1 .. MaxItems + 1
    /\ group \in {"generic", "touch", "win8"} /\ broken \in BOOLEAN

Num(type, from, to) == Cardinality({i \in from .. to : items[i].t = type})
Mains == {i \in DOMAIN items : items[i].t \in {"open", "close", "field"}}
\* The locals of item i began after the main item before it.
Start(i) == Max({0} \cup {j \in Mains : j < i}) + 1
Delims(to, v) == Cardinality({i \in Start(to + 1) .. to : items[i].t = "delim" /\ items[i].v = v})

\* A descriptor is nested as it should be: collections, globals and sets of usages
\* are closed after they are opened, no deeper than the stacks.
Nested ==
    /\ \A i \in DOMAIN items :
         /\ Num("open", 1, i) - Num("close", 1, i) \in 0 .. StackSize
         /\ Num("push", 1, i) - Num("pop", 1, i) \in 0 .. GlobalSize
         /\ Delims(i, 1) - Delims(i, 0) \in 0 .. 1
    /\ Num("open", 1, Len(items)) = Num("close", 1, Len(items))
    /\ Delims(Len(items), 1) = Delims(Len(items), 0)
Refused == \E i \in DOMAIN items : items[i].t \in {"field", "long"}

\* A descriptor is accepted only if it is nested, and one that is nested is refused
\* only for what the parser does not take (usbh_hid_report.c:161-208, :443-462, :553-570, :736-748).
AcceptedNested ==
    /\ at = "ok" => Nested /\ ~Refused
    /\ at = "failed" /\ Nested /\ ~broken =>
         Refused \/ \E i \in DOMAIN items : items[i].t \in {"usage", "upto", "count"}

\* The openings that are open at item p.
OpenAt(p) == {i \in 1 .. p - 1 : items[i].t = "open" /\
               \A j \in i .. p - 1 : Num("open", i, j) > Num("close", i, j)}
\* A usage belongs to the innermost collection that is open at its item, and the level
\* of a collection is the number of those around it (usbh_hid_report.c:119-122, :185-190).
UsageOwned ==
    /\ \A k \in DOMAIN local.usages :
         LET u == local.usages[k]
         IN u.in = IF OpenAt(u.pos) = {} THEN 0 ELSE Num("open", 1, Max(OpenAt(u.pos)))
    /\ \A k \in DOMAIN collections :
         LET p == CHOOSE i \in DOMAIN items : items[i].t = "open" /\ Num("open", 1, i) = k
         IN collections[k].level = Cardinality(OpenAt(p))
=============================================================================
