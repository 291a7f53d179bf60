---------------------------- MODULE MCEhciXfer ----------------------------
(* EhciXfer with a bulk endpoint, up to two TRPs on it, and one or two     *)
(* interrupt endpoints with a TRP each.                                    *)
EXTENDS EhciXfer, TLC

CONSTANTS bulk, intr, intr2, b1, b2, i1, i2, u1, u2

MCEpOf == [t \in Trps |-> CASE t \in {b1, b2} -> bulk
                            [] t = i1 -> intr
                            [] t = i2 -> intr2]
MCNSlots == [e \in IntrEps |-> 2]
MCSymmetry == Permutations(Trps \cap {b1, b2}) \cup Permutations(Users)
=============================================================================
