------------------------------ MODULE LibList ------------------------------
(***************************************************************************)
(* The list of devices of a class library and the traversal of it          *)
(* (usb_lib.c), which keeps a place in the list from call to call.         *)
(***************************************************************************)
EXTENDS Naturals, Sequences, SequencesExt, FiniteSets

CONSTANTS
    Nodes,      \* devices, each added once
    Root        \* the head of the list as a place

VARIABLES
    isInit,     \* is_lib_init
    list,       \* lib_dev_list
    nDev,       \* n_dev
    loca,       \* p_dev_loca: the device returned last
    gone,       \* the devices that were removed
    returned,   \* what traverse has returned since the last reset
    added,      \* the devices added since the reset
    fault       \* a place that is no longer in the list has been followed

libVars == <<isInit, list, nDev, loca, gone, returned, added, fault>>

Init ==
    /\ isInit = FALSE /\ list = <<>> /\ nDev = 0 /\ loca = Root /\ gone = {}
    /\ returned = <<>> /\ added = {} /\ fault = FALSE
-----------------------------------------------------------------------------
\* usb_lib_init
LibInit ==
    /\ ~isInit
    /\ isInit' = TRUE /\ list' = <<>> /\ nDev' = 0 /\ loca' = Root
    /\ returned' = <<>> /\ added' = {}
    /\ UNCHANGED <<gone, fault>>

\* usb_lib_deinit, by the last device (or with none): the place stays.
LibDeinit ==
    /\ isInit /\ list = <<>>
    /\ isInit' = FALSE /\ nDev' = 0
    /\ UNCHANGED <<list, loca, gone, returned, added, fault>>

\* usb_lib_dev_add
DevAdd(n) ==
    /\ isInit /\ n \notin ToSet(list) \cup gone
    /\ list' = Append(list, n) /\ nDev' = nDev + 1 /\ added' = added \cup {n}
    /\ UNCHANGED <<isInit, loca, gone, returned, fault>>

\* usb_lib_dev_del: the place may be the device that goes.
DevDel(n) ==
    /\ isInit
    /\ \E i \in DOMAIN list : list[i] = n /\ list' = RemoveAt(list, i)
    /\ nDev' = nDev - 1 /\ gone' = gone \cup {n}
    /\ UNCHANGED <<isInit, loca, returned, added, fault>>

\* usb_lib_dev_traverse_reset
TraverseReset ==
    /\ isInit
    /\ loca' = Root /\ returned' = <<>> /\ added' = {}
    /\ UNCHANGED <<isInit, list, nDev, gone, fault>>

Place == IF loca = Root THEN 0 ELSE CHOOSE i \in DOMAIN list : list[i] = loca

\* Mutant of Traverse: the place does not move at the last device.
TraverseStay ==
    /\ isInit /\ list # <<>>
    /\ IF loca \in gone THEN fault' = TRUE /\ UNCHANGED <<loca, returned>>
       ELSE /\ Place < Len(list)
            /\ loca' = IF Place + 1 = Len(list) THEN loca ELSE list[Place + 1]
            /\ returned' = Append(returned, list[Place + 1])
            /\ UNCHANGED fault
    /\ UNCHANGED <<isInit, list, nDev, gone, added>>

\* usb_lib_dev_traverse: the links of a device that has gone are poison.
Traverse ==
    /\ isInit /\ list # <<>>
    /\ IF loca \in gone THEN fault' = TRUE /\ UNCHANGED <<loca, returned>>
       ELSE /\ Place < Len(list)
            /\ loca' = list[Place + 1]
            /\ returned' = Append(returned, list[Place + 1])
            /\ UNCHANGED fault
    /\ UNCHANGED <<isInit, list, nDev, gone, added>>

Next ==
    /\ ~fault /\ Len(returned) <= Cardinality(Nodes)
    /\ \/ LibInit \/ LibDeinit \/ TraverseReset \/ Traverse
       \/ \E n \in Nodes : DevAdd(n) \/ DevDel(n)

Spec == Init /\ [][Next]_libVars
-----------------------------------------------------------------------------
(* Properties                                                              *)

TypeOK ==
    /\ isInit \in BOOLEAN /\ ToSet(list) \subseteq Nodes /\ nDev \in 0 .. Cardinality(Nodes)
    /\ loca \in Nodes \cup {Root} /\ gone \subseteq Nodes /\ fault \in BOOLEAN

\* A traversal returns no device twice, and has passed no device over that is
\* in the list before its place, while devices come and go (usb_lib.c:578).
TraverseOnce ==
    /\ isInit => nDev = Len(list)
    /\ IsInjective(returned)
    /\ (isInit /\ loca \notin gone) =>
         \A i \in 1 .. Place : list[i] \in ToSet(returned)
=============================================================================
