---------------------------- MODULE MCSyncXfer ----------------------------
(* Two callers of usbh_trp_sync_xfer, each with an endpoint of its own or  *)
(* both with the default control endpoint of one device.                   *)
EXTENDS SyncXfer, TLC

CONSTANTS ep1, ep2, t1, t2, u1, u2

MCEpOf == [t \in Trps |-> IF t = t1 \/ ep2 \notin AsyncEps THEN ep1 ELSE ep2]
MCTrpOf == (u1 :> t1) @@ (u2 :> t2)
MCNSlots == [e \in IntrEps |-> 1]
=============================================================================
