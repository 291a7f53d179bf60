SPECIFICATION Spec
CONSTANTS
    bulk = bulk  intr = intr  intr2 = intr2
    b1 = b1  b2 = b2  i1 = i1  i2 = i2  u1 = u1  u2 = u2
    AsyncEps = {bulk}
    IntrEps = {intr}
    Trps = {b1, b2, i1}
    EpOf <- MCEpOf
    Resubmits = {}
    Users = {u1, u2}
    EhciTask = EhciTask
    NSlots <- MCNSlots
    MaxQtds = 2
    MaxXact = 2
    Faults = {"SHORT", "HALT", "XACT"}
    Nobody = Nobody
SYMMETRY MCSymmetry
INVARIANTS TypeOK AsyncCountExact IntrCountActive PendingScheduled ScanAlive OnePlace CancelFinal
PROPERTIES NoneDropped
