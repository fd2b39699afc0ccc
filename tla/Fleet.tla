------------------------------- MODULE Fleet -------------------------------
(***************************************************************************)
(* The IDA windows and the routers around one registry.  A window starts   *)
(* its HTTP server and then registers itself; when its database closes it  *)
(* unregisters and then stops the server.  A router that starts expires    *)
(* the entries whose process is dead and, if nothing is left, looks for    *)
(* IDA windows by their listening ports and registers them itself.         *)
(*                                                                         *)
(* Each registry call is atomic (RegistryFile.tla implements that).  The   *)
(* registry is abstracted to its entries and the ids that are expired:     *)
(* order, focus and ages are the subject of Registry.tla.                  *)
(***************************************************************************)
EXTENDS Integers, Sequences, FiniteSets, Functions

CONSTANTS
    Ida,           \* process ids of IDA windows
    Router,        \* routers (ida-fusion-mcp processes)
    Frail,         \* those that may die while they start, or miss a ping
    Port, Path,    \* ports the system hands out; databases that are opened
    Id, None,
    Candidates,    \* the ids tried for <<pid, port, path>>, in order
    Faults         \* subset of AllFaults

\* A window dies, its pid is given out again, its registry calls fail.
AllFaults == {"ida", "pid", "register", "unregister"}

Endpoint == Ida \X Port \X Path
Info == [at : Endpoint, adopted : BOOLEAN]

ASSUME FleetAssumption ==
    /\ Candidates \in [Endpoint -> Seq(Id)]
    /\ None \notin Id \cup Port \cup Path
    /\ Faults \subseteq AllFaults
    /\ Frail \subseteq Router

VARIABLES
    live,          \* "instances": a partial function from Id to Info
    expired,       \* the ids in "expired"
    ida,           \* ida[p]: the window: state, port, path, instance_id
    pc,            \* where each router is
    todo,          \* what its loop has still to visit
    job            \* the id it is about to expire, or the endpoint to adopt

vars == <<live, expired, ida, pc, todo, job>>
registry == <<live, expired>>
routers == <<pc, todo, job>>

Off == [st |-> "off", port |-> None, path |-> None, id |-> None]

Init ==
    /\ live = << >> /\ expired = {}
    /\ ida = [p \in Ida |-> [Off EXCEPT !.st = "new"]]
    /\ pc = [r \in Router |-> "down"]
    /\ todo = [r \in Router |-> {}]
    /\ job = [r \in Router |-> None]
-----------------------------------------------------------------------------
(* The registry calls. *)
\* Mutant: the first id is taken whether or not an entry has it.
FreeOrNot(at) == {1}

Free(at) == {k \in DOMAIN Candidates[at] :
                /\ Candidates[at][k] \notin DOMAIN live
                /\ \A l \in 1..(k-1) : Candidates[at][l] \in DOMAIN live}

RegisterAs(at, adopted, i) ==
    /\ i \in {Candidates[at][k] : k \in Free(at)}
    /\ live' = [j \in DOMAIN live \cup {i} |->
                   IF j = i THEN [at |-> at, adopted |-> adopted] ELSE live[j]]
    /\ UNCHANGED expired

Unregister(i) ==
    live' = Restrict(live, DOMAIN live \ {i}) /\ UNCHANGED expired

Expire(i) ==
    /\ live' = Restrict(live, DOMAIN live \ {i})
    /\ expired' = expired \cup ({i} \cap DOMAIN live)
-----------------------------------------------------------------------------
(* A window.  Its main thread runs start_server and stop_server, and answers *)
(* the metadata query in between.                                            *)
Set(p, r) == ida' = [ida EXCEPT ![p] = r]

IsProcessAlive(p) == ida[p].st \notin {"new", "off"}
Listens(p) == ida[p].port # None
At(p) == <<p, ida[p].port, ida[p].path>>

\* A pid that was used comes back, though not in the instant between a router's
\* check of a pid and the expiry that follows (IdalibManager.tla shows what an
\* expiry by id does when the id has a new owner).
Launch(p) ==
    /\ \/ ida[p].st = "new"
       \/ /\ "pid" \in Faults /\ ida[p].st = "off"
          /\ \A r \in Router : pc[r] # "expiring"
    /\ Set(p, [Off EXCEPT !.st = "idle"])
    /\ UNCHANGED <<registry, routers>>

\* start_server: serve on a port the system assigns ...
StartServer(p) ==
    /\ ida[p].st = "idle"
    /\ \E q \in Port, f \in Path :
          /\ \A o \in Ida : ida[o].port # q
          /\ Set(p, [st |-> "serving", port |-> q, path |-> f, id |-> None])
    /\ UNCHANGED <<registry, routers>>

\* ... then register.
RegisterInstance(p) ==
    /\ ida[p].st = "serving"
    /\ \E i \in Id :
          /\ RegisterAs(At(p), FALSE, i)
          /\ Set(p, [ida[p] EXCEPT !.st = "up", !.id = i])
    /\ UNCHANGED routers

\* register raises: the server goes on, unregistered and without heartbeat.
RegisterFails(p) ==
    /\ ida[p].st = "serving"
    /\ "register" \in Faults \/ Free(At(p)) = {}
    /\ Set(p, [ida[p] EXCEPT !.st = "up"])
    /\ UNCHANGED <<registry, routers>>

\* closebase, the toggle, or term: stop_server unregisters, whether or not
\* that succeeds, and stops the server.
CloseBase(p) ==
    /\ ida[p].st = "up"
    /\ Set(p, [ida[p] EXCEPT !.st = "closing"])
    /\ UNCHANGED <<registry, routers>>

UnregisterInstance(p) ==
    /\ ida[p].st = "closing"
    /\ IF ida[p].id # None THEN Unregister(ida[p].id) ELSE UNCHANGED registry
    /\ Set(p, [ida[p] EXCEPT !.st = "stopping", !.id = None])
    /\ UNCHANGED routers

UnregisterFails(p) ==
    /\ "unregister" \in Faults
    /\ ida[p].st = "closing"
    /\ Set(p, [ida[p] EXCEPT !.st = "stopping", !.id = None])
    /\ UNCHANGED <<registry, routers>>

StopServer(p) ==
    /\ ida[p].st = "stopping"
    /\ Set(p, [Off EXCEPT !.st = "idle"])
    /\ UNCHANGED <<registry, routers>>

\* The window is quit with no database open, or it dies.
Quit(p) ==
    /\ ida[p].st = "idle" \/ ("ida" \in Faults /\ IsProcessAlive(p))
    /\ Set(p, Off)
    /\ UNCHANGED <<registry, routers>>
-----------------------------------------------------------------------------
(* A router's start-up. *)
Goto(r, l) == pc' = [pc EXCEPT ![r] = l]

\* Mutant: the start-up skips the clean-up of dead instances.
StartUnswept(r) ==
    /\ pc[r] = "down"
    /\ Goto(r, "sweeping")
    /\ UNCHANGED <<registry, ida, todo, job>>

\* cleanup_stale_instances: list ...
Start(r) ==
    /\ pc[r] = "down"
    /\ todo' = [todo EXCEPT ![r] = {<<i, live[i].at[1]>> : i \in DOMAIN live}]
    /\ Goto(r, "sweeping")
    /\ UNCHANGED <<registry, ida, job>>

\* ... then, for each entry, check its process ...
Sweep(r) ==
    /\ pc[r] = "sweeping"
    /\ \E e \in todo[r] :
          /\ todo' = [todo EXCEPT ![r] = @ \ {e}]
          /\ IF IsProcessAlive(e[2])
             THEN UNCHANGED <<pc, job>>
             ELSE Goto(r, "expiring") /\ job' = [job EXCEPT ![r] = e[1]]
    /\ UNCHANGED <<registry, ida>>

\* ... and expire it by its id.
ExpireDead(r) ==
    /\ pc[r] = "expiring"
    /\ Expire(job[r])
    /\ job' = [job EXCEPT ![r] = None]
    /\ Goto(r, "sweeping")
    /\ UNCHANGED <<ida, todo>>

\* Mutant: the router never rediscovers.
LookNoFurther(r) ==
    /\ pc[r] = "sweeping" /\ todo[r] = {}
    /\ expired' \in SUBSET expired
    /\ Goto(r, "serving")
    /\ UNCHANGED <<live, ida, todo, job>>

\* cleanup_expired, which may forget any of the expired ids, and the decision
\* to rediscover.
Look(r) ==
    /\ pc[r] = "sweeping" /\ todo[r] = {}
    /\ expired' \in SUBSET expired
    /\ Goto(r, IF DOMAIN live = {} THEN "knowing" ELSE "serving")
    /\ UNCHANGED <<live, ida, todo, job>>

\* rediscover_instances: the endpoints that are known ...
Know(r) ==
    /\ pc[r] = "knowing"
    /\ todo' = [todo EXCEPT ![r] = {<<live[i].at[1], live[i].at[2]>> : i \in DOMAIN live}]
    /\ Goto(r, "scanning")
    /\ UNCHANGED <<registry, ida, job>>

\* ... then the ports that IDA processes listen on ...
Scan(r) ==
    /\ pc[r] = "scanning"
    /\ todo' = [todo EXCEPT ![r] =
                   {<<p, ida[p].port>> : p \in {o \in Ida : Listens(o)}} \ @]
    /\ Goto(r, "probing")
    /\ UNCHANGED <<registry, ida, job>>

\* ... and for each a ping and a metadata query, which a busy window misses ...
Probe(r) ==
    /\ pc[r] = "probing"
    /\ \E e \in todo[r] :
          /\ todo' = [todo EXCEPT ![r] = @ \ {e}]
          /\ \/ /\ ida[e[1]].st = "up" /\ ida[e[1]].port = e[2]
                /\ job' = [job EXCEPT ![r] = At(e[1])]
                /\ Goto(r, "adopting")
             \/ /\ r \in Frail \/ ida[e[1]].st # "up" \/ ida[e[1]].port # e[2]
                /\ UNCHANGED <<job, pc>>
    /\ UNCHANGED <<registry, ida>>

\* ... and a registration.
Adopt(r) ==
    /\ pc[r] = "adopting"
    /\ \E i \in Id : RegisterAs(job[r], TRUE, i)
    /\ job' = [job EXCEPT ![r] = None]
    /\ Goto(r, "probing")
    /\ UNCHANGED <<ida, todo>>

Serve(r) ==
    /\ pc[r] = "probing" /\ todo[r] = {}
    /\ Goto(r, "serving")
    /\ UNCHANGED <<registry, ida, todo, job>>

\* The client ends the router, or it dies (a registry call that raises during
\* the start-up ends it too).
Stop(r) ==
    /\ \/ pc[r] = "serving"
       \/ r \in Frail /\ pc[r] # "down"
       \/ pc[r] = "adopting" /\ Free(job[r]) = {}
    /\ Goto(r, "down")
    /\ todo' = [todo EXCEPT ![r] = {}]
    /\ job' = [job EXCEPT ![r] = None]
    /\ UNCHANGED <<registry, ida>>
-----------------------------------------------------------------------------
WindowStep(p) ==
    \/ Launch(p) \/ StartServer(p) \/ RegisterInstance(p) \/ RegisterFails(p)
    \/ CloseBase(p) \/ UnregisterInstance(p) \/ UnregisterFails(p)
    \/ StopServer(p) \/ Quit(p)

StartUp(r) ==
    \/ Start(r) \/ Sweep(r) \/ ExpireDead(r) \/ Look(r) \/ Know(r) \/ Scan(r)
    \/ Probe(r) \/ Adopt(r) \/ Serve(r)

Next ==
    \/ \E p \in Ida : WindowStep(p)
    \/ \E r \in Router : StartUp(r) \/ Stop(r)

Spec == Init /\ [][Next]_vars

\* Clients start and end routers again and again, and a window finishes what
\* start_server and stop_server began.  Nothing is assumed of frail routers.
FairSpec ==
    /\ Spec
    /\ \A r \in Router \ Frail : WF_vars(StartUp(r) \/ Stop(r))
    /\ \A p \in Ida :
          /\ WF_vars(RegisterInstance(p) \/ RegisterFails(p))
          /\ WF_vars(UnregisterInstance(p) \/ UnregisterFails(p))
          /\ WF_vars(StopServer(p))
-----------------------------------------------------------------------------
\* A window that registered keeps its entry, and the entry describes it,
\* until the window itself unregisters: no router's clean-up takes it away or
\* replaces it, even if the window died and came back under the same pid
\* while routers were starting.
OwnEntryIntact ==
    \A p \in Ida : ida[p].st \in {"up", "closing"} /\ ida[p].id # None =>
        /\ ida[p].id \in DOMAIN live
        /\ live[ida[p].id] = [at |-> At(p), adopted |-> FALSE]

Dead(i) == i \in DOMAIN live /\ ~IsProcessAlive(live[i].at[1])

\* An entry whose process is gone does not stay: some later router start
\* removes it, unless the system gives its pid to another window first.
DeadEntriesSwept == \A i \in Id : Dead(i) ~> ~Dead(i)

\* A registry does not stay empty while a window serves: the next router that
\* starts adopts the windows whose registration failed.
EmptyRegistryRefilled ==
    (\E p \in Ida : ida[p].st = "up") /\ live = << >>
        ~> (\A p \in Ida : ida[p].st # "up") \/ live # << >>
=============================================================================
