----------------------------- MODULE FleetProofs -----------------------------
(***************************************************************************)
(* Proofs about Fleet.tla for any number of windows, routers, ports, paths *)
(* and ids, and any faults: no router takes away or replaces the entry of  *)
(* a window that registered itself.                                        *)
(***************************************************************************)
EXTENDS Fleet, TLAPS

\* i is one of the ids that processes with this pid try.
Belongs(i, p) == \E at \in Endpoint : at[1] = p /\ \E k \in DOMAIN Candidates[at] : Candidates[at][k] = i

\* The hashes of endpoints of different processes differ.
IdsDiffer == \A p, q \in Ida : \A i \in Id : Belongs(i, p) /\ Belongs(i, q) => p = q

States == {"new", "off", "idle", "serving", "up", "closing", "stopping"}
Places == {"down", "sweeping", "expiring", "knowing", "scanning", "probing", "adopting", "serving"}

\* A window has a port and a path while it serves, an id while it is registered.
Window ==
    {w \in [st : States, port : Port \cup {None}, path : Path \cup {None}, id : Id \cup {None}] :
        /\ w.st \in {"serving", "up", "closing", "stopping"} => w.port \in Port /\ w.path \in Path
        /\ w.st \notin {"up", "closing"} => w.id = None}

TypeOK ==
    /\ ida \in [Ida -> Window]
    /\ pc \in [Router -> Places]
    /\ DOMAIN todo = Router /\ DOMAIN job = Router

\* An entry has an id of the process it is for, which exists or did.
EntriesBelong ==
    \A i \in DOMAIN live :
        /\ i \in Id /\ live[i].at \in Endpoint
        /\ Belongs(i, live[i].at[1]) /\ ida[live[i].at[1]].st # "new"

\* A clean-up works on entries there have been, and expires those of a process
\* that is still gone.
SweepsBelong ==
    \A r \in Router :
        /\ pc[r] \in {"sweeping", "expiring"} =>
              \A e \in todo[r] : e[1] \in Id /\ e[2] \in Ida /\ Belongs(e[1], e[2]) /\ ida[e[2]].st # "new"
        /\ pc[r] = "expiring" => \E p \in Ida : job[r] \in Id /\ Belongs(job[r], p) /\ ida[p].st = "off"

\* A rediscovery adopts a window that is there or has been.
AdoptsWindow ==
    \A r \in Router : pc[r] = "adopting" => job[r] \in Endpoint /\ ida[job[r][1]].st # "new"

\* The ports that are probed are those of windows.
ProbesWindows ==
    \A r \in Router : pc[r] \in {"probing", "adopting"} => \A e \in todo[r] : e[1] \in Ida

IInv == TypeOK /\ EntriesBelong /\ SweepsBelong /\ ProbesWindows /\ AdoptsWindow /\ OwnEntryIntact
-----------------------------------------------------------------------------
LEMMA InitIInv == Init => IInv
<1> SUFFICES ASSUME Init PROVE IInv
  OBVIOUS
<1>1. TypeOK
  <2>1. [Off EXCEPT !.st = "new"] \in Window
    BY DEF Off, Window, States
  <2> QED
    BY <2>1 DEF Init, TypeOK, Places
<1>2. EntriesBelong /\ OwnEntryIntact
  <2>1. [Off EXCEPT !.st = "new"].st = "new"
    BY DEF Off
  <2>2. DOMAIN << >> = {}
    OBVIOUS
  <2>3. DOMAIN live = {} /\ \A p \in Ida : ida[p].st = "new"
    BY <2>1, <2>2 DEF Init
  <2> QED
    BY <2>3 DEF EntriesBelong, OwnEntryIntact
<1>3. SweepsBelong /\ ProbesWindows /\ AdoptsWindow
  BY DEF Init, SweepsBelong, ProbesWindows, AdoptsWindow
<1> QED
  BY <1>1, <1>2, <1>3 DEF IInv

(* Windows. *)

LEMMA SetKeepsTypes ==
    ASSUME TypeOK, NEW p \in Ida, NEW w \in Window, w.st # "new", Set(p, w), UNCHANGED routers
    PROVE  TypeOK' /\ ida'[p].st # "new" /\ \A o \in Ida \ {p} : ida'[o] = ida[o]
BY DEF TypeOK, Set, routers

LEMMA WindowKeepsTypes ==
    ASSUME TypeOK, NEW p \in Ida, WindowStep(p)
    PROVE  TypeOK' /\ ida'[p].st # "new" /\ \A o \in Ida \ {p} : ida'[o] = ida[o]
<1> DEFINE w == ida[p]
<1> USE FleetAssumption
<1>0. w \in Window
  BY DEF TypeOK
<1>1. CASE Launch(p) \/ StopServer(p)
  <2>1. [Off EXCEPT !.st = "idle"] \in Window /\ [Off EXCEPT !.st = "idle"].st # "new"
    BY DEF Off, Window, States
  <2> QED
    BY <1>1, <2>1, SetKeepsTypes DEF Launch, StopServer
<1>2. CASE StartServer(p)
  <2>1. PICK q \in Port, f \in Path : Set(p, [st |-> "serving", port |-> q, path |-> f, id |-> None])
    BY <1>2 DEF StartServer
  <2>2. [st |-> "serving", port |-> q, path |-> f, id |-> None] \in Window
    BY DEF Window, States
  <2> QED
    BY <1>2, <2>1, <2>2, SetKeepsTypes DEF StartServer
<1>3. CASE RegisterInstance(p)
  <2>1. PICK i \in Id : Set(p, [w EXCEPT !.st = "up", !.id = i])
    BY <1>3 DEF RegisterInstance
  <2>2. [w EXCEPT !.st = "up", !.id = i] \in Window /\ [w EXCEPT !.st = "up", !.id = i].st = "up"
    BY <1>0, <1>3 DEF Window, States, RegisterInstance
  <2> QED
    BY <1>3, <2>1, <2>2, SetKeepsTypes DEF RegisterInstance
<1>4. CASE RegisterFails(p)
  <2>1. [w EXCEPT !.st = "up"] \in Window /\ [w EXCEPT !.st = "up"].st = "up"
    BY <1>0, <1>4 DEF Window, States, RegisterFails
  <2> QED
    BY <1>4, <2>1, SetKeepsTypes DEF RegisterFails
<1>5. CASE CloseBase(p)
  <2>1. [w EXCEPT !.st = "closing"] \in Window /\ [w EXCEPT !.st = "closing"].st = "closing"
    BY <1>0, <1>5 DEF Window, States, CloseBase
  <2> QED
    BY <1>5, <2>1, SetKeepsTypes DEF CloseBase
<1>6. CASE UnregisterInstance(p) \/ UnregisterFails(p)
  <2>1. /\ [w EXCEPT !.st = "stopping", !.id = None] \in Window
        /\ [w EXCEPT !.st = "stopping", !.id = None].st = "stopping"
    BY <1>0, <1>6 DEF Window, States, UnregisterInstance, UnregisterFails
  <2> QED
    BY <1>6, <2>1, SetKeepsTypes DEF UnregisterInstance, UnregisterFails
<1>7. CASE Quit(p)
  <2>1. Off \in Window /\ Off.st # "new"
    BY DEF Off, Window, States
  <2> QED
    BY <1>7, <2>1, SetKeepsTypes DEF Quit
<1> QED
  BY <1>1, <1>2, <1>3, <1>4, <1>5, <1>6, <1>7 DEF WindowStep

\* What routers have seen of a window stays true of it.
LEMMA WindowKeepsRouters ==
    ASSUME IInv, NEW p \in Ida, WindowStep(p)
    PROVE  SweepsBelong' /\ ProbesWindows' /\ AdoptsWindow'
<1>1. UNCHANGED routers
  BY DEF WindowStep, Launch, StartServer, RegisterInstance, RegisterFails, CloseBase,
         UnregisterInstance, UnregisterFails, StopServer, Quit
<1>2. ida'[p].st # "new" /\ \A o \in Ida \ {p} : ida'[o] = ida[o]
  BY WindowKeepsTypes DEF IInv
<1>3. ida[p].st = "off" => ida'[p].st = "off" \/ \A r \in Router : pc[r] # "expiring"
  BY DEF WindowStep, Launch, StartServer, RegisterInstance, RegisterFails, CloseBase,
         UnregisterInstance, UnregisterFails, StopServer, Quit, IsProcessAlive
<1>4. SweepsBelong'
  BY <1>1, <1>2, <1>3 DEF IInv, SweepsBelong, routers
<1>5. ProbesWindows'
  BY <1>1 DEF IInv, ProbesWindows, routers
<1>6. AdoptsWindow'
  BY <1>1, <1>2 DEF IInv, AdoptsWindow, routers, Endpoint
<1> QED
  BY <1>4, <1>5, <1>6

\* What the registry has stays true of the windows.
LEMMA WindowKeepsEntries ==
    ASSUME IdsDiffer, IInv, NEW p \in Ida, WindowStep(p)
    PROVE  EntriesBelong' /\ OwnEntryIntact'
<1>0. TypeOK' /\ ida'[p].st # "new" /\ \A o \in Ida \ {p} : ida'[o] = ida[o]
  BY WindowKeepsTypes DEF IInv
<1>a. \A o \in Ida \ {p} : At(o)' = At(o)
  BY <1>0 DEF At
<1>b. \A o \in Ida : ida[o].st \in {"up", "closing"} /\ ida[o].id # None =>
         ida[o].id \in DOMAIN live /\ live[ida[o].id] = [at |-> At(o), adopted |-> FALSE] /\ At(o)[1] = o
  BY DEF IInv, OwnEntryIntact, At
<1>1. CASE RegisterInstance(p)
  <2>1. PICK i \in Id : RegisterAs(At(p), FALSE, i) /\ Set(p, [ida[p] EXCEPT !.st = "up", !.id = i])
    BY <1>1 DEF RegisterInstance
  <2>2. At(p) \in Endpoint /\ At(p)[1] = p /\ At(p)' = At(p)
    BY <2>1, <1>1 DEF IInv, TypeOK, Window, At, Endpoint, RegisterInstance, Set
  <2>3. i \notin DOMAIN live /\ Belongs(i, p)
    BY <2>1, <2>2, FleetAssumption DEF RegisterAs, Free, Belongs
  <2>4. /\ DOMAIN live' = DOMAIN live \cup {i} /\ live'[i] = [at |-> At(p), adopted |-> FALSE]
        /\ \A j \in DOMAIN live : live'[j] = live[j]
    BY <2>1, <2>3 DEF RegisterAs
  <2>5. ida'[p].id = i
    BY <2>1 DEF Set, IInv, TypeOK, Window
  <2>6. EntriesBelong'
    BY <1>0, <2>2, <2>3, <2>4 DEF IInv, EntriesBelong, Endpoint
  <2>7. OwnEntryIntact'
    <3>1. SUFFICES ASSUME NEW o \in Ida, ida'[o].st \in {"up", "closing"}, ida'[o].id # None
                   PROVE  ida'[o].id \in DOMAIN live' /\ live'[ida'[o].id] = [at |-> At(o)', adopted |-> FALSE]
      BY DEF OwnEntryIntact
    <3>2. CASE o = p
      BY <2>2, <2>4, <2>5, <3>2
    <3>3. CASE o # p
      BY <1>0, <1>a, <1>b, <2>4, <3>1, <3>3
    <3> QED
      BY <3>2, <3>3
  <2> QED
    BY <2>6, <2>7
<1>2. CASE UnregisterInstance(p)
  <2>1. ida'[p].st = "stopping"
    BY <1>2 DEF UnregisterInstance, Set, IInv, TypeOK, Window
  <2>2. \A o \in Ida : ida[o].st \in {"up", "closing"} /\ ida[o].id # None /\ o # p => ida[o].id # ida[p].id
    <3>1. ida[p].st = "closing"
      BY <1>2 DEF UnregisterInstance
    <3>2. SUFFICES ASSUME NEW o \in Ida, ida[o].st \in {"up", "closing"}, ida[o].id # None, ida[o].id = ida[p].id
                   PROVE  o = p
      OBVIOUS
    <3>3. [at |-> At(p), adopted |-> FALSE] = [at |-> At(o), adopted |-> FALSE]
      BY <1>b, <3>1, <3>2
    <3>4. At(p) = At(o)
      BY ONLY <3>3
    <3> QED
      BY <1>b, <3>1, <3>2, <3>4
  <2>3. /\ DOMAIN live' \subseteq DOMAIN live /\ \A j \in DOMAIN live' : live'[j] = live[j]
        /\ \A j \in DOMAIN live : j # ida[p].id => j \in DOMAIN live'
    BY <1>2 DEF UnregisterInstance, Unregister, Restrict, registry
  <2>4. EntriesBelong'
    BY <1>0, <2>3 DEF IInv, EntriesBelong, Endpoint
  <2>5. OwnEntryIntact'
    BY <1>0, <1>a, <1>b, <2>1, <2>2, <2>3 DEF OwnEntryIntact
  <2> QED
    BY <2>4, <2>5
<1>3. ASSUME UNCHANGED live,
             ida'[p].st \in {"up", "closing"} /\ ida'[p].id # None =>
                 ida[p].st \in {"up", "closing"} /\ ida'[p].id = ida[p].id /\ At(p)' = At(p)
      PROVE  EntriesBelong' /\ OwnEntryIntact'
  BY <1>0, <1>3 DEF IInv, EntriesBelong, OwnEntryIntact, Endpoint, At
<1>4. CASE Launch(p) \/ StartServer(p) \/ UnregisterFails(p) \/ StopServer(p) \/ Quit(p)
  <2>1. UNCHANGED live
    BY <1>4 DEF Launch, StartServer, UnregisterFails, StopServer, Quit, registry
  <2>2. [Off EXCEPT !.st = "idle"].st = "idle" /\ Off.st = "off"
    BY DEF Off
  <2>3. ida \in [Ida -> Window]
    BY DEF IInv, TypeOK
  <2>4. CASE Launch(p) \/ StopServer(p) \/ Quit(p)
    BY <1>3, <2>1, <2>2, <2>3, <2>4 DEF Launch, StopServer, Quit, Set
  <2>5. CASE StartServer(p)
    BY <1>3, <2>1, <2>3, <2>5 DEF StartServer, Set
  <2>6. CASE UnregisterFails(p)
    BY <1>3, <2>1, <2>3, <2>6 DEF UnregisterFails, Set, Window
  <2> QED
    BY <1>4, <2>4, <2>5, <2>6
<1>5. CASE RegisterFails(p) \/ CloseBase(p)
  <2>1. UNCHANGED live /\ ida'[p].id = ida[p].id /\ At(p)' = At(p)
    BY <1>5 DEF RegisterFails, CloseBase, Set, registry, IInv, TypeOK, Window, At
  <2>2. ida[p].st = "serving" => ida[p].id = None
    BY DEF IInv, TypeOK, Window
  <2> QED
    BY <1>3, <1>5, <2>1, <2>2 DEF RegisterFails, CloseBase
<1> QED
  BY <1>1, <1>2, <1>4, <1>5 DEF WindowStep

(* Routers. *)

\* A router moves only itself.
LEMMA RouterKeepsTypes ==
    ASSUME TypeOK, NEW r \in Router, StartUp(r) \/ Stop(r)
    PROVE  /\ TypeOK' /\ UNCHANGED ida
           /\ \A o \in Router \ {r} : pc'[o] = pc[o] /\ todo'[o] = todo[o] /\ job'[o] = job[o]
<1> USE DEF TypeOK, Places, Goto
<1>1. CASE Start(r) \/ Sweep(r) \/ ExpireDead(r)
  BY <1>1 DEF Start, Sweep, ExpireDead
<1>2. CASE Look(r) \/ Know(r) \/ Scan(r)
  BY <1>2 DEF Look, Know, Scan
<1>3. CASE Probe(r) \/ Adopt(r) \/ Serve(r) \/ Stop(r)
  BY <1>3 DEF Probe, Adopt, Serve, Stop
<1> QED
  BY <1>1, <1>2, <1>3 DEF StartUp

\* What a router knows of windows is true.
LEMMA RouterKeepsRouters ==
    ASSUME IInv, NEW r \in Router, StartUp(r) \/ Stop(r)
    PROVE  SweepsBelong' /\ ProbesWindows' /\ AdoptsWindow'
<1>0. /\ TypeOK' /\ UNCHANGED ida
      /\ \A o \in Router \ {r} : pc'[o] = pc[o] /\ todo'[o] = todo[o] /\ job'[o] = job[o]
  BY RouterKeepsTypes DEF IInv
<1>1. SUFFICES
        /\ pc'[r] \in {"sweeping", "expiring"} =>
              \A e \in todo'[r] : e[1] \in Id /\ e[2] \in Ida /\ Belongs(e[1], e[2]) /\ ida[e[2]].st # "new"
        /\ pc'[r] = "expiring" => \E p \in Ida : job'[r] \in Id /\ Belongs(job'[r], p) /\ ida[p].st = "off"
        /\ pc'[r] \in {"probing", "adopting"} => \A e \in todo'[r] : e[1] \in Ida
        /\ pc'[r] = "adopting" => job'[r] \in Endpoint /\ ida[job'[r][1]].st # "new"
  BY <1>0 DEF IInv, SweepsBelong, ProbesWindows, AdoptsWindow
<1> USE DEF IInv, TypeOK, SweepsBelong, ProbesWindows, AdoptsWindow, Goto, Places
<1>2. CASE Start(r)
  BY <1>2 DEF Start, EntriesBelong, Endpoint
<1>3. CASE Sweep(r)
  <2>1. PICK e \in todo[r] :
           /\ todo' = [todo EXCEPT ![r] = @ \ {e}]
           /\ IF IsProcessAlive(e[2]) THEN UNCHANGED <<pc, job>>
              ELSE Goto(r, "expiring") /\ job' = [job EXCEPT ![r] = e[1]]
    BY <1>3 DEF Sweep
  <2>2. pc[r] = "sweeping" /\ e[1] \in Id /\ e[2] \in Ida /\ Belongs(e[1], e[2]) /\ ida[e[2]].st # "new"
    BY <1>3 DEF Sweep
  <2>3. ~IsProcessAlive(e[2]) => ida[e[2]].st = "off"
    BY <2>2 DEF IsProcessAlive
  <2> QED
    BY <2>1, <2>2, <2>3
<1>4. CASE ExpireDead(r)
  BY <1>4 DEF ExpireDead
<1>5. CASE Look(r) \/ Know(r) \/ Serve(r)
  BY <1>5 DEF Look, Know, Serve
<1>6. CASE Scan(r)
  BY <1>6 DEF Scan
<1>7. CASE Probe(r)
  <2>1. PICK e \in todo[r] :
           /\ todo' = [todo EXCEPT ![r] = @ \ {e}]
           /\ \/ /\ ida[e[1]].st = "up" /\ job' = [job EXCEPT ![r] = At(e[1])]
                 /\ Goto(r, "adopting")
              \/ UNCHANGED <<job, pc>>
    BY <1>7 DEF Probe
  <2>2. pc[r] = "probing" /\ e[1] \in Ida
    BY <1>7 DEF Probe
  <2>3. ida[e[1]].st = "up" => At(e[1]) \in Endpoint /\ At(e[1])[1] = e[1]
    BY <2>2 DEF At, Endpoint, Window
  <2> QED
    BY <2>1, <2>2, <2>3
<1>8. CASE Adopt(r)
  BY <1>8 DEF Adopt
<1>9. CASE Stop(r)
  BY <1>9 DEF Stop
<1> QED
  BY <1>2, <1>3, <1>4, <1>5, <1>6, <1>7, <1>8, <1>9 DEF StartUp

\* A clean-up expires no entry of a window that is there, a rediscovery replaces
\* none.
LEMMA RouterKeepsEntries ==
    ASSUME IdsDiffer, IInv, NEW r \in Router, StartUp(r) \/ Stop(r)
    PROVE  EntriesBelong' /\ OwnEntryIntact'
<1>0. UNCHANGED ida /\ \A o \in Ida : At(o)' = At(o)
  BY RouterKeepsTypes DEF IInv, At
<1>1. ASSUME UNCHANGED live PROVE EntriesBelong' /\ OwnEntryIntact'
  BY <1>0, <1>1 DEF IInv, EntriesBelong, OwnEntryIntact
<1>2. CASE ExpireDead(r)
  <2>1. /\ DOMAIN live' \subseteq DOMAIN live /\ \A j \in DOMAIN live' : live'[j] = live[j]
        /\ \A j \in DOMAIN live : j # job[r] => j \in DOMAIN live'
    BY <1>2 DEF ExpireDead, Expire, Restrict
  <2>2. PICK p \in Ida : job[r] \in Id /\ Belongs(job[r], p) /\ ida[p].st = "off"
    BY <1>2 DEF ExpireDead, IInv, SweepsBelong
  <2>3. ASSUME NEW o \in Ida, ida[o].st \in {"up", "closing"}, ida[o].id # None PROVE ida[o].id # job[r]
    <3>1. ida[o].id \in DOMAIN live /\ live[ida[o].id] = [at |-> At(o), adopted |-> FALSE]
      BY <2>3 DEF IInv, OwnEntryIntact
    <3>2. ida[o].id \in Id /\ Belongs(ida[o].id, o)
      BY <3>1 DEF IInv, EntriesBelong, At
    <3> QED
      BY <2>2, <2>3, <3>2 DEF IdsDiffer
  <2>4. EntriesBelong'
    BY <1>0, <2>1 DEF IInv, EntriesBelong
  <2>5. OwnEntryIntact'
    BY <1>0, <2>1, <2>3 DEF IInv, OwnEntryIntact
  <2> QED
    BY <2>4, <2>5
<1>3. CASE Adopt(r)
  <2>1. PICK i \in Id : RegisterAs(job[r], TRUE, i)
    BY <1>3 DEF Adopt
  <2>2. job[r] \in Endpoint /\ ida[job[r][1]].st # "new"
    BY <1>3 DEF Adopt, IInv, AdoptsWindow
  <2>3. i \notin DOMAIN live /\ Belongs(i, job[r][1])
    BY <2>1, <2>2, FleetAssumption DEF RegisterAs, Free, Belongs
  <2>4. /\ DOMAIN live' = DOMAIN live \cup {i} /\ live'[i] = [at |-> job[r], adopted |-> TRUE]
        /\ \A j \in DOMAIN live : live'[j] = live[j]
    BY <2>1, <2>3 DEF RegisterAs
  <2>5. EntriesBelong'
    BY <1>0, <2>2, <2>3, <2>4 DEF IInv, EntriesBelong
  <2>6. OwnEntryIntact'
    BY <1>0, <2>3, <2>4 DEF IInv, OwnEntryIntact
  <2> QED
    BY <2>5, <2>6
<1>4. CASE Start(r) \/ Sweep(r) \/ Look(r) \/ Know(r) \/ Scan(r) \/ Probe(r) \/ Serve(r) \/ Stop(r)
  BY <1>1, <1>4 DEF Start, Sweep, Look, Know, Scan, Probe, Serve, Stop, registry
<1> QED
  BY <1>2, <1>3, <1>4 DEF StartUp
-----------------------------------------------------------------------------
LEMMA NextIInv == IdsDiffer /\ IInv /\ [Next]_vars => IInv'
<1> SUFFICES ASSUME IdsDiffer, IInv, [Next]_vars PROVE IInv'
  OBVIOUS
<1>1. ASSUME NEW p \in Ida, WindowStep(p) PROVE IInv'
  BY <1>1, WindowKeepsTypes, WindowKeepsRouters, WindowKeepsEntries DEF IInv
<1>2. ASSUME NEW r \in Router, StartUp(r) \/ Stop(r) PROVE IInv'
  BY <1>2, RouterKeepsTypes, RouterKeepsRouters, RouterKeepsEntries DEF IInv
<1>3. CASE UNCHANGED vars
  <2>1. TypeOK' /\ UNCHANGED <<ida, pc, todo, job, live>>
    BY <1>3 DEF vars, IInv, TypeOK
  <2>2. EntriesBelong' /\ OwnEntryIntact'
    BY <2>1 DEF IInv, EntriesBelong, OwnEntryIntact, At
  <2>3. SweepsBelong' /\ ProbesWindows' /\ AdoptsWindow'
    BY <2>1 DEF IInv, SweepsBelong, ProbesWindows, AdoptsWindow
  <2> QED
    BY <2>1, <2>2, <2>3 DEF IInv
<1> QED
  BY <1>1, <1>2, <1>3 DEF Next

\* If ids of different processes differ, no clean-up and no rediscovery
\* (health.py) takes away or replaces the entry of a window that registered
\* itself (plugin/ida_fusion_mcp.py), until that window unregisters.
THEOREM OwnEntryStays ==
    ASSUME IdsDiffer
    PROVE  Spec => []OwnEntryIntact
<1>1. IInv /\ [Next]_vars => IInv'
  BY NextIInv
<1>2. IInv => OwnEntryIntact
  BY DEF IInv
<1> QED
  BY InitIInv, <1>1, <1>2, PTL DEF Spec
=============================================================================
