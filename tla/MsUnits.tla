------------------------------ MODULE MsUnits ------------------------------
(***************************************************************************)
(* The logical units of a mass storage device (usbd_ms.c), which the       *)
(* application adds and removes while usbd_ms_scsi_bbb_process takes       *)
(* commands for them (usbd_ms_scsi_bbb.c) and the host shuts the function  *)
(* down.  The data of a command is left to MsBot.                          *)
(***************************************************************************)
EXTENDS Naturals, FiniteSets

CONSTANTS
    MaxLu,      \* bound on the units ever added
    NoLu        \* a null pointer to a unit

VARIABLES
    lus,        \* the numbers of the units on lu_list
    freed,      \* the numbers of the units that are freed
    nLu,        \* n_lu
    select,     \* p_lu_select
    isSetup,    \* is_setup
    piped,      \* p_data_in and p_data_out are not null
    maxLunGet,  \* is_max_lun_get
    lock,       \* p_lock: "none", "process"
    at,         \* where the process is
    lun,        \* the unit of the command
    fault       \* a null pointer has been followed

unitVars == <<lus, freed, nLu, select, isSetup, piped, maxLunGet, lock, at, lun, fault>>

Init ==
    /\ lus = {} /\ freed = {} /\ nLu = 0 /\ select = NoLu /\ isSetup = FALSE /\ piped = FALSE
    /\ maxLunGet = FALSE /\ lock = "none" /\ at = "out" /\ lun = 0 /\ fault = FALSE

\* The application's calls wait for the lock, which the process holds as long
\* as it waits for a command: then they time out and change nothing.
Free == lock = "none" /\ ~fault
-----------------------------------------------------------------------------
\* Mutant of LuAdd: the number is that of units there are.
LuAddCount ==
    /\ Free /\ nLu < MaxLu
    /\ lus' = lus \cup {Cardinality(lus)} /\ nLu' = nLu + 1
    /\ UNCHANGED <<freed, select, isSetup, piped, maxLunGet, lock, at, lun, fault>>

LuAdd ==
    /\ Free /\ nLu < MaxLu
    /\ lus' = lus \cup {nLu} /\ nLu' = nLu + 1
    /\ UNCHANGED <<freed, select, isSetup, piped, maxLunGet, lock, at, lun, fault>>

\* Mutant of LuDel: the selected unit is removed as well.
LuDelSelected(n) ==
    /\ Free /\ n < nLu /\ select # NoLu
    /\ lus' = lus \ {n} /\ freed' = freed \cup ({n} \cap lus)
    /\ UNCHANGED <<nLu, select, isSetup, piped, maxLunGet, lock, at, lun, fault>>

\* The selected unit is busy; with none selected the null pointer is followed.
LuDel(n) ==
    /\ Free /\ n < nLu
    /\ IF select = NoLu
       THEN fault' = TRUE /\ UNCHANGED <<lus, freed>>
       ELSE /\ lus' = IF n = select THEN lus ELSE lus \ {n}
            /\ freed' = IF n = select THEN freed ELSE freed \cup ({n} \cap lus)
            /\ UNCHANGED fault
    /\ UNCHANGED <<nLu, select, isSetup, piped, maxLunGet, lock, at, lun>>

\* __ms_cmd_setup: the host asks for the greatest number of a unit.
GetMaxLun ==
    /\ ~fault /\ isSetup
    /\ maxLunGet' = TRUE
    /\ UNCHANGED <<lus, freed, nLu, select, isSetup, piped, lock, at, lun, fault>>

\* __ms_data_func_set
DataFuncSet ==
    /\ ~fault /\ ~isSetup /\ isSetup' = TRUE /\ piped' = TRUE
    /\ UNCHANGED <<lus, freed, nLu, select, maxLunGet, lock, at, lun, fault>>

\* __ms_shutdown, without the lock: a process may be in a command.
Shutdown ==
    /\ ~fault /\ isSetup
    /\ isSetup' = FALSE /\ piped' = FALSE /\ select' = NoLu
    /\ UNCHANGED <<lus, freed, nLu, maxLunGet, lock, at, lun, fault>>

\* usbd_ms_scsi_bbb_process takes the lock once the host has asked.
Process ==
    /\ Free /\ at = "out" /\ maxLunGet
    /\ lock' = "process" /\ at' = "get"
    /\ UNCHANGED <<lus, freed, nLu, select, isSetup, piped, maxLunGet, lun, fault>>

Exit == at' = "out" /\ lock' = "none"

\* __ms_scsi_bbb_cmd_get: the function is set up, and the process waits.
Await ==
    /\ ~fault /\ at = "get"
    /\ IF isSetup THEN at' = "await" /\ UNCHANGED lock ELSE Exit
    /\ UNCHANGED <<lus, freed, nLu, select, isSetup, piped, maxLunGet, lun, fault>>

\* The wrapper has come; a unit of a number that was never given stalls the pipes.
Command(n) ==
    /\ ~fault /\ at = "await"
    /\ \/ /\ piped /\ n < nLu /\ lun' = n
          /\ select' = IF n \in lus THEN n ELSE NoLu
          /\ IF n \in lus THEN at' = "exec" /\ UNCHANGED lock ELSE Exit
       \/ (n >= nLu \/ ~piped) /\ Exit /\ UNCHANGED <<select, lun>>
    /\ UNCHANGED <<lus, freed, nLu, isSetup, piped, maxLunGet, fault>>

\* A step of __ms_scsi_bbb_cmd_exec follows p_lu_select.
Exec ==
    /\ ~fault /\ at = "exec"
    /\ IF select = NoLu THEN fault' = TRUE /\ UNCHANGED <<at, lock>>
       ELSE UNCHANGED fault /\ (Exit \/ UNCHANGED <<at, lock>>)
    /\ UNCHANGED <<lus, freed, nLu, select, isSetup, piped, maxLunGet, lun>>

Next ==
    \/ LuAdd \/ GetMaxLun \/ DataFuncSet \/ Shutdown \/ Process \/ Await \/ Exec
    \/ \E n \in 0 .. MaxLu : LuDel(n) \/ Command(n)

Spec == Init /\ [][Next]_unitVars
-----------------------------------------------------------------------------
(* Properties                                                              *)

TypeOK ==
    /\ lus \subseteq 0 .. MaxLu /\ freed \subseteq 0 .. MaxLu /\ nLu \in 0 .. MaxLu
    /\ select \in 0 .. MaxLu \cup {NoLu} /\ lock \in {"none", "process"}
    /\ at \in {"out", "get", "await", "exec"}

\* The unit of a command is one that exists while it is executed, and a number
\* names one unit for ever, whatever is added and removed in between
\* (usbd_ms.c:383-491, usbd_ms_scsi_bbb.c:103).
UnitAlive ==
    /\ at = "exec" /\ select # NoLu => select \in lus /\ select = lun
    /\ select # NoLu => select \notin freed
    /\ lus \cap freed = {} /\ (\A n \in lus : n < nLu)
    /\ Cardinality(lus) + Cardinality(freed) = nLu
=============================================================================
