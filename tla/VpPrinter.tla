----------------------------- MODULE VpPrinter -----------------------------
(***************************************************************************)
(* The identity and the life of the virtual printer                        *)
(* (usbd_virtual_printer.c): the application changes the identity, a       *)
(* string, while the host asks for it on endpoint 0, both under p_lock; a  *)
(* string is the sequence of its two halves, copied one after the other.   *)
(***************************************************************************)
EXTENDS Naturals, Sequences

CONSTANTS Ids, Intf

VARIABLES
    id,        \* p_printer_id
    copying,   \* the identity that usbd_virtual_printer_id_set copies, as far as it is left
    lock,      \* p_lock: "none", "app", "lost"
    status,    \* the byte of p_buf that GET_PORT_STATUS writes
    sent,      \* what endpoint 0 sends
    isSetup    \* is_setup

printerVars == <<id, copying, lock, status, sent, isSetup>>

Whole(i) == <<i, i>>

Init ==
    /\ id \in {Whole(i) : i \in Ids} /\ copying = <<>> /\ lock = "none"
    /\ status = FALSE /\ sent = <<>> /\ isSetup = FALSE
-----------------------------------------------------------------------------
\* Mutant of IdSet: without the lock.
IdSetBare(i) ==
    /\ copying = <<>>
    /\ copying' = Whole(i) /\ UNCHANGED <<id, lock, status, sent, isSetup>>

\* usbd_virtual_printer_id_set; with the lock held it times out.
IdSet(i) ==
    /\ copying = <<>> /\ lock = "none"
    /\ copying' = Whole(i) /\ lock' = "app" /\ UNCHANGED <<id, status, sent, isSetup>>

\* strcpy
IdCopy ==
    /\ copying # <<>>
    /\ id' = [id EXCEPT ![3 - Len(copying)] = Head(copying)]
    /\ copying' = Tail(copying)
    /\ lock' = IF Len(copying) = 1 /\ lock = "app" THEN "none" ELSE lock
    /\ UNCHANGED <<status, sent, isSetup>>

\* USB_VP_GET_DEVICE_ID: a request for another interface leaves with the lock,
\* and nobody gets it after that.
GetDeviceId(intf) ==
    /\ isSetup
    /\ IF lock # "none" THEN sent' = <<>> /\ UNCHANGED lock
       ELSE IF intf # Intf THEN lock' = "lost" /\ UNCHANGED sent
       ELSE sent' = id /\ UNCHANGED lock
    /\ status' = IF lock = "none" /\ intf = Intf THEN FALSE ELSE status
    /\ UNCHANGED <<id, copying, isSetup>>

\* USB_VP_GET_PORT_STATUS writes over the first byte of p_buf, which endpoint 0
\* has copied.
GetPortStatus ==
    /\ isSetup
    /\ status' = TRUE
    /\ UNCHANGED <<id, copying, lock, sent, isSetup>>

\* __vp_alt_set and __vp_shutdown
AltSet == ~isSetup /\ isSetup' = TRUE /\ UNCHANGED <<id, copying, lock, status, sent>>
VpShutdown ==
    /\ isSetup /\ isSetup' = FALSE /\ sent' = <<>>
    /\ UNCHANGED <<id, copying, lock, status>>

Next ==
    \/ \E i \in Ids : IdSet(i)
    \/ \E intf \in {Intf, Intf + 1} : GetDeviceId(intf)
    \/ IdCopy \/ GetPortStatus \/ AltSet \/ VpShutdown

Spec == Init /\ [][Next]_printerVars
-----------------------------------------------------------------------------
(* Properties                                                              *)

TypeOK ==
    /\ Len(id) = 2 /\ Len(copying) <= 2 /\ lock \in {"none", "app", "lost"}
    /\ status \in BOOLEAN /\ isSetup \in BOOLEAN

\* The host never hears an identity that is half of one and half of another,
\* whenever it asks (usbd_virtual_printer.c:80-105, :401-409).
IdWhole == sent = <<>> \/ sent[1] = sent[2]
=============================================================================
