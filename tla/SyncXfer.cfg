SPECIFICATION SyncSpec
CONSTANTS
    ep1 = ep1  ep2 = ep2  t1 = t1  t2 = t2  u1 = u1  u2 = u2
    AsyncEps = {ep1, ep2}
    IntrEps = {}
    Trps = {t1, t2}
    EpOf <- MCEpOf
    TrpOf <- MCTrpOf
    Resubmits = {}
    Users = {u1, u2}
    EhciTask = EhciTask
    NSlots <- MCNSlots
    MaxQtds = 1
    MaxXact = 2
    Faults = {"HALT", "XACT"}
    Nobody = Nobody
INVARIANTS NoDanglingFrame NoStaleToken SecondWaitReady
