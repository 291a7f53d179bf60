---------------------------- MODULE DevMonitor ----------------------------
(***************************************************************************)
(* Monitors of the devices on the host: an application registers a         *)
(* callback that is told of devices that come, go, or are there already,   *)
(* while the event thread lists and removes them (usbh_dev_monitor.c, and  *)
(* usbh_dev.c, which calls it).                                            *)
(***************************************************************************)
EXTENDS Naturals, Sequences, FiniteSets

CONSTANTS
    Devs,      \* devices
    Mons,      \* monitors
    TypesOf,   \* what a monitor is told of: a set of "inject", "eject" and "exist"
    Matches,   \* the devices that it is about
    Wild,      \* monitors that are about any device: they are told of none that is there
    MaxTold    \* bound: calls of a callback

VARIABLES
    jobs,      \* the platform has jobs; if not the event thread runs the callbacks
    listed,    \* dev_list
    thread,    \* the event thread: [type, dev] between the list and its monitors
    pc,        \* of each monitor: "none", "made", "listed", "found", "registered",
               \* "nojob", "freed" or "failed"
    mons,      \* monitor_list
    state,     \* what the job of a monitor is to tell
    started,   \* how often its job was started and has not run
    told,      \* what its callback was told
    refs       \* references of the library

monitorVars == <<jobs, listed, thread, pc, mons, state, started, told, refs>>

Idle == [type |-> "none", dev |-> "none"]
\* The callbacks still to come are bounded.
Room(m) == Len(told[m]) + started[m] < MaxTold

Init ==
    /\ jobs \in BOOLEAN /\ listed = {} /\ thread = Idle
    /\ pc = [m \in Mons |-> "none"] /\ mons = {} /\ state = [m \in Mons |-> "none"]
    /\ started = [m \in Mons |-> 0] /\ told = [m \in Mons |-> <<>>] /\ refs = 1

\* __dev_inject lists the device, and __dev_eject removes it.
Inject ==
    /\ thread = Idle
    /\ \E d \in Devs \ listed :
         listed' = listed \cup {d} /\ thread' = [type |-> "inject", dev |-> d]
    /\ refs' = refs + 1
    /\ UNCHANGED <<jobs, pc, mons, state, started, told>>
Eject ==
    /\ thread = Idle
    /\ \E d \in listed :
         listed' = listed \ {d} /\ thread' = [type |-> "eject", dev |-> d]
    /\ refs' = refs - 1
    /\ UNCHANGED <<jobs, pc, mons, state, started, told>>

Told(m, type) == told' = [told EXCEPT ![m] = Append(@, type)]

\* usbh_dev_monitor_chk: each monitor of such devices is told, or its job started with
\* what it is to tell; what it was to tell before is lost.  (That a start fails here is
\* only traced, and left out.)
Chk ==
    /\ thread # Idle
    /\ LET who == {m \in mons : thread.dev \in Matches[m] /\ thread.type \in TypesOf[m]}
       IN /\ \A m \in who : Room(m)
          /\ state' = [m \in Mons |-> IF m \in who THEN thread.type ELSE state[m]]
          /\ IF jobs
             THEN started' = [m \in Mons |-> IF m \in who THEN started[m] + 1 ELSE started[m]]
                  /\ told' = told
             ELSE told' = [m \in Mons |-> IF m \in who THEN Append(told[m], thread.type) ELSE told[m]]
                  /\ started' = started
    /\ thread' = Idle
    /\ UNCHANGED <<jobs, listed, pc, mons, refs>>

\* The job of a monitor runs: a second start finds nothing to tell.
Job(m) ==
    /\ started[m] > 0 /\ pc[m] # "freed"
    /\ started' = [started EXCEPT ![m] = @ - 1]
    /\ Told(m, state[m]) /\ state' = [state EXCEPT ![m] = "none"]
    /\ UNCHANGED <<jobs, listed, thread, pc, mons, refs>>

To(m, p) == pc' = [pc EXCEPT ![m] = p]

\* usbh_dev_monitor_register makes the monitor and its job.
Register(m) ==
    /\ pc[m] = "none" /\ To(m, "made")
    /\ UNCHANGED <<jobs, listed, thread, mons, state, started, told, refs>>

\* It is listed, unless it is only about devices that are there.
List(m) ==
    /\ pc[m] = "made" /\ To(m, "listed")
    /\ IF TypesOf[m] = {"exist"} THEN UNCHANGED <<mons, refs>>
       ELSE mons' = mons \cup {m} /\ refs' = refs + 1
    /\ UNCHANGED <<jobs, listed, thread, state, started, told>>

\* Mutant of Exist: a monitor that is told of devices that come does not look for others.
ExistOnly(m) ==
    /\ pc[m] = "listed"
    /\ To(m, IF TypesOf[m] = {"exist"} /\ m \notin Wild /\ listed \cap Matches[m] # {}
             THEN "found" ELSE "registered")
    /\ UNCHANGED <<jobs, listed, thread, mons, state, started, told, refs>>

\* __is_dev_exsit: a device that it is about is there, now.
Exist(m) ==
    /\ pc[m] = "listed"
    /\ To(m, IF "exist" \in TypesOf[m] /\ m \notin Wild /\ listed \cap Matches[m] # {}
             THEN "found" ELSE "registered")
    /\ UNCHANGED <<jobs, listed, thread, mons, state, started, told, refs>>

\* The application is told of it, whether or not it is there still.  A job that cannot be
\* started ends the registration.
Found(m) ==
    /\ pc[m] = "found" /\ Room(m)
    /\ state' = [state EXCEPT ![m] = "exist"]
    /\ \/ /\ ~jobs \/ TypesOf[m] = {"exist"}
          /\ Told(m, "exist") /\ To(m, "registered") /\ UNCHANGED <<mons, started, refs>>
       \/ /\ jobs /\ TypesOf[m] # {"exist"} /\ told' = told
          /\ \/ started' = [started EXCEPT ![m] = @ + 1] /\ To(m, "registered")
                /\ UNCHANGED <<mons, refs>>
             \/ started' = started /\ mons' = mons \ {m} /\ refs' = refs - 1 /\ To(m, "failed")
    /\ UNCHANGED <<jobs, listed, thread>>

\* usbh_dev_monitor_deregister destroys the job, then takes the monitor from the list
\* and frees it; that it was listed is not looked at.
Deregister(m) ==
    /\ pc[m] = "registered" /\ TypesOf[m] # {"exist"} /\ To(m, "nojob")
    /\ started' = [started EXCEPT ![m] = 0]
    /\ UNCHANGED <<jobs, listed, thread, mons, state, told, refs>>
Freed(m) ==
    /\ pc[m] = "nojob" /\ To(m, "freed")
    /\ mons' = mons \ {m} /\ refs' = refs - 1
    /\ UNCHANGED <<jobs, listed, thread, state, started, told>>

Next ==
    \/ Inject \/ Eject \/ Chk
    \/ \E m \in Mons : Job(m) \/ Register(m) \/ List(m) \/ Exist(m) \/ Found(m)
                       \/ Deregister(m) \/ Freed(m)

Spec == Init /\ [][Next]_monitorVars
-----------------------------------------------------------------------------
(* Properties                                                              *)

TypeOK ==
    /\ listed \subseteq Devs /\ mons \subseteq Mons
    /\ \A m \in Mons : started[m] \in 0 .. MaxTold /\ Len(told[m]) <= MaxTold

Quiet(m) == thread = Idle /\ pc[m] = "registered" /\ started[m] = 0
ToldOf(m, types) == \E i \in DOMAIN told[m] : told[m][i] \in types
\* No device is missed: one that is there was told to each monitor of such devices, found
\* or seen to come, however its coming fell into the registration.  With jobs it was
\* called, though a later event may have replaced it (usbh_dev_monitor.c:111-161, :235, :248,
\* usbh_dev.c:997, :1012).
NotMissed ==
    \A m \in Mons \ Wild :
        Quiet(m) /\ {"inject", "exist"} \subseteq TypesOf[m] /\ listed \cap Matches[m] # {} =>
            ToldOf(m, IF jobs THEN {"inject", "eject", "exist"} ELSE {"inject", "exist"})

\* The library is held once by itself, each device and each monitor on the list: it is
\* not freed under one of them.
LibHeld == refs = 1 + Cardinality(listed) + Cardinality(mons)
=============================================================================
