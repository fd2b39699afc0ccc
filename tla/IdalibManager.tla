--------------------------- MODULE IdalibManager ---------------------------
(***************************************************************************)
(* The headless workers and the routers that own them.  Every router       *)
(* process has one IdalibManager, which handles one call at a time; the    *)
(* routers share the registry and nothing else.  A call is several steps   *)
(* (registry transactions, pings, waits for a process), between which the  *)
(* other routers and the workers act, and every registry transaction may   *)
(* raise.                                                                  *)
(*                                                                         *)
(* A generation is one worker process.  Its number stands for its          *)
(* ownership nonce (secrets.token_hex), for its port, and for the cleanup  *)
(* id "pending-<pid>-<n>" it gets when its start fails.                    *)
(***************************************************************************)
EXTENDS RegistryDoc

CONSTANTS
    Manager,       \* the routers
    Reaped,        \* those started with SIGCHLD ignored: the system reaps
    Pid,           \* process ids of workers
    Path,          \* binaries that can be opened
    Gen,           \* bound: 1..N, the generations that can be spawned
    MaxWorkers     \* IDA_MCP_MAX_IDALIB_WORKERS (4)

ASSUME ManagerAssumption ==
    /\ Reaped \subseteq Manager /\ None \notin Manager
    /\ Gen \subseteq Nat \ {0}
    /\ MaxWorkers \in Nat \ {0}
    /\ Info = [gen : Gen, pid : Pid, path : Path]
    /\ NonceOf = [x \in Info |-> x.gen]

VARIABLES
    doc,           \* the registry
    worker,        \* worker[g]: its process: state, pid, path and parent; and
                   \* for the history, whether an interrupt cut its start short
    owned,         \* owned[m]: _owned_generations and _processes, by instance id
    local,         \* local[m]: unregistered workers under a cleanup id
    pend,          \* pend[m]: _pending_registry_contexts
    pc,            \* what each router is doing
    job,           \* its locals
    todo           \* the <<id, generation>> pairs a loop has still to visit

books == <<owned, local, pend>>
vars == <<doc, worker, books, pc, job, todo>>

NoJob == [gen |-> 0, id |-> None, path |-> None, unsure |-> FALSE, back |-> "idle"]

Init ==
    /\ doc = EmptyDoc
    /\ worker = [g \in Gen |->
                   [st |-> "none", pid |-> None, path |-> None, by |-> None, cut |-> FALSE]]
    /\ owned = [m \in Manager |-> << >>]
    /\ local = [m \in Manager |-> {}]
    /\ pend = [m \in Manager |-> {}]
    /\ pc = [m \in Manager |-> "down"]
    /\ job = [m \in Manager |-> NoJob]
    /\ todo = [m \in Manager |-> {}]
-----------------------------------------------------------------------------
\* A zombie still has its pid: os.kill(pid, 0) succeeds until it is reaped.
Exists(g) == worker[g].st \notin {"none", "gone"}
IsProcessAlive(p) == \E g \in Gen : Exists(g) /\ worker[g].pid = p

Ids(m) == DOMAIN owned[m]
Tracked(m) == local[m] \cup {owned[m][i] : i \in Ids(m)}
EntriesOf(g) == {i \in Live(doc) : doc.inst[i].info.gen = g}

\* _is_reachable: the process exists and its port answers the ping.
Reachable(i) == worker[doc.inst[i].info.gen].st = "ready"

Goto(m, l, j) == pc' = [pc EXCEPT ![m] = l] /\ job' = [job EXCEPT ![m] = j]

\* A call or a sub-call ends.
Return(m) ==
    IF job[m].back = "counting"
    THEN Goto(m, "counting", [NoJob EXCEPT !.path = job[m].path])
    ELSE Goto(m, job[m].back, NoJob)

Enter(m, l, i, g, back) ==
    Goto(m, l, [job[m] EXCEPT !.id = i, !.gen = g, !.back = back])

Become(g, st) == worker' = [worker EXCEPT ![g].st = st]

Track(m, i, g) == owned' = [owned EXCEPT ![m] = Put(@, i, g)]
Release(m, i) == owned' = [owned EXCEPT ![m] = Restrict(@, DOMAIN @ \ {i})]

\* _stop_process: terminate, wait, kill, wait.  It reaps the process or, when
\* the process outlives even SIGKILL for five seconds, gives up.
StopConfirmed(g) == Become(g, "gone")
StopUnconfirmed(g) == worker[g].st \in {"starting", "ready", "dying"} /\ Become(g, "dying")
-----------------------------------------------------------------------------
(* A router starts: cleanup_stale_instances. *)
Start(m) ==
    /\ pc[m] = "down"
    /\ todo' = [todo EXCEPT ![m] = {<<i, doc.inst[i].info.gen>> : i \in Live(doc)}]
    /\ Goto(m, "sweeping", NoJob)
    /\ UNCHANGED <<doc, worker, books>>

\* For each entry of the list, a check of its process ...
Sweep(m) ==
    /\ pc[m] = "sweeping"
    /\ \E e \in todo[m] :
          /\ todo' = [todo EXCEPT ![m] = @ \ {e}]
          /\ IF IsProcessAlive(worker[e[2]].pid)
             THEN UNCHANGED <<pc, job>>
             ELSE Goto(m, "expiring", [NoJob EXCEPT !.id = e[1]])
    /\ UNCHANGED <<doc, worker, books>>

\* ... and then, by its id alone, the expiry.
ExpireDead(m) ==
    /\ pc[m] = "expiring"
    /\ doc' = InstanceExpired(doc, job[m].id, 0)
    /\ Goto(m, "sweeping", NoJob)
    /\ UNCHANGED <<worker, books, todo>>

Serve(m) ==
    /\ pc[m] = "sweeping" /\ todo[m] = {}
    /\ doc' = ExpiredCleaned(doc, 0)
    /\ Goto(m, "idle", NoJob)
    /\ UNCHANGED <<worker, books, todo>>

(* spawn_session (idalib_open). *)
\* No reachable worker has the binary open, or the call would return that one.
Open(m, p) ==
    /\ pc[m] = "idle"
    /\ \A i \in Live(doc) : doc.inst[i].info.path = p => ~Reachable(i)
    /\ Goto(m, "counting", [NoJob EXCEPT !.path = p])
    /\ UNCHANGED <<doc, worker, books, todo>>

\* _owned_worker_count, after it dropped its own dead workers (NoticeDead).
WorkersCounted(m) ==
    Cardinality({worker[g].pid : g \in Tracked(m)}
        \cup {p \in {doc.inst[i].info.pid : i \in Live(doc)} : IsProcessAlive(p)})

\* Mutant: an off-by-one at the maximum.
CountOneMore(m) ==
    /\ pc[m] = "counting"
    /\ \A g \in Tracked(m) : IsProcessAlive(worker[g].pid)
    /\ IF WorkersCounted(m) > MaxWorkers
       THEN Return(m)
       ELSE Goto(m, "spawning", job[m])
    /\ UNCHANGED <<doc, worker, books, todo>>

Count(m) ==
    /\ pc[m] = "counting"
    /\ \A g \in Tracked(m) : IsProcessAlive(worker[g].pid)
    /\ IF WorkersCounted(m) >= MaxWorkers
       THEN Return(m)
       ELSE Goto(m, "spawning", job[m])
    /\ UNCHANGED <<doc, worker, books, todo>>

Spawn(m) ==
    /\ pc[m] = "spawning"
    /\ \E g \in Gen, p \in Pid :
          /\ worker[g].st = "none" /\ \A h \in Gen : h < g => worker[h].st # "none"
          /\ ~IsProcessAlive(p)
          /\ worker' = [worker EXCEPT ![g] =
                          [st |-> "starting", pid |-> p, path |-> job[m].path, by |-> m, cut |-> FALSE]]
          /\ Goto(m, "waiting", [job[m] EXCEPT !.gen = g])
    /\ UNCHANGED <<doc, books, todo>>

SpawnFails(m) ==
    /\ pc[m] = "spawning"
    /\ Return(m)
    /\ UNCHANGED <<doc, worker, books, todo>>

\* _wait_for_ready.
WorkerAnswers(m) ==
    /\ pc[m] = "waiting" /\ worker[job[m].gen].st = "ready"
    /\ Goto(m, "registering", job[m])
    /\ UNCHANGED <<doc, worker, books, todo>>

WorkerExited(m) ==
    /\ pc[m] = "waiting" /\ worker[job[m].gen].st \in {"zombie", "gone"}
    /\ StopConfirmed(job[m].gen)
    /\ Return(m)
    /\ UNCHANGED <<doc, books, todo>>

\* Mutant: the wait for the worker has no deadline.
WaitForWorker(m) == FALSE

WorkerLate(m) ==
    /\ pc[m] = "waiting"
    /\ Goto(m, "abandoning", job[m])
    /\ UNCHANGED <<doc, worker, books, todo>>

InfoOf(g) == [gen |-> g, pid |-> worker[g].pid, path |-> worker[g].path]

Commit(g, i) ==
    /\ CanRegister(doc, InfoOf(g))
    /\ i \in ResolveCollision(InfoOf(g), Live(doc))
    /\ doc' = Registered(doc, InfoOf(g), i, 0)

Register(m) ==
    /\ pc[m] = "registering"
    /\ \E i \in Id : Commit(job[m].gen, i) /\ Track(m, i, job[m].gen)
    /\ Return(m)
    /\ UNCHANGED <<worker, local, pend, todo>>

\* register() raises, before its commit or after it.
RegisterRaises(m) ==
    /\ pc[m] = "registering"
    /\ UNCHANGED doc \/ \E i \in Id : Commit(job[m].gen, i)
    /\ Goto(m, "reconciling", job[m])
    /\ UNCHANGED <<worker, books, todo>>

\* Mutant: a listing that fails is taken for an empty one.
ReconcileUnknownAsAbsent(m) ==
    /\ pc[m] = "reconciling"
    /\ \/ \E i \in EntriesOf(job[m].gen) :
             Track(m, i, job[m].gen) /\ Return(m)
       \/ Goto(m, "abandoning", job[m]) /\ UNCHANGED owned
    /\ UNCHANGED <<doc, worker, local, pend, todo>>

\* _reconcile_registration: "committed", "absent", or "unknown" when it fails.
Reconcile(m) ==
    /\ pc[m] = "reconciling"
    /\ \/ \E i \in EntriesOf(job[m].gen) :
             Track(m, i, job[m].gen) /\ Return(m)
       \/ /\ EntriesOf(job[m].gen) = {}
          /\ Goto(m, "abandoning", job[m])
          /\ UNCHANGED owned
       \/ /\ Goto(m, "abandoning", [job[m] EXCEPT !.unsure = TRUE])
          /\ UNCHANGED owned
    /\ UNCHANGED <<doc, worker, local, pend, todo>>

\* Mutant: a worker that could not be stopped is dropped.
AbandonForgets(m) ==
    LET g == job[m].gen IN
    /\ pc[m] = "abandoning"
    /\ StopConfirmed(g) \/ StopUnconfirmed(g)
    /\ pend' = [pend EXCEPT ![m] = IF job[m].unsure THEN @ \cup {g} ELSE @]
    /\ Return(m)
    /\ UNCHANGED <<doc, owned, local, todo>>

\* _failed_start_result: what could not be stopped, or may be registered,
\* stays under a cleanup id for a later close.
Abandon(m) ==
    LET g == job[m].gen IN
    /\ pc[m] = "abandoning"
    /\ \/ StopConfirmed(g) /\ UNCHANGED local
       \/ StopUnconfirmed(g) /\ local' = [local EXCEPT ![m] = @ \cup {g}]
    /\ pend' = [pend EXCEPT ![m] = IF job[m].unsure THEN @ \cup {g} ELSE @]
    /\ Return(m)
    /\ UNCHANGED <<doc, owned, todo>>

(* close_session (idalib_close), for a session, a cleanup id, or an entry    *)
(* whose process is dead and that this router does not own.                  *)
CloseOwned(m, i, g, back) ==
    /\ i \in Ids(m) /\ owned[m][i] = g
    /\ \/ StopConfirmed(g) /\ Release(m, i) /\ Enter(m, "unregistering", i, g, back)
       \/ StopUnconfirmed(g) /\ UNCHANGED owned /\ Goto(m, back, NoJob)
    /\ UNCHANGED <<doc, local, pend>>

\* Once the worker is known to be stopped, settle its registry entry, if any.
AfterStop(m, g, back) ==
    IF g \in pend[m] THEN Enter(m, "settling", None, g, back) ELSE Goto(m, back, job[m])

CloseCleanup(m, g, back) ==
    /\ g \in local[m] \cup pend[m]
    /\ \/ /\ IF g \in local[m] THEN StopConfirmed(g) ELSE UNCHANGED worker
          /\ local' = [local EXCEPT ![m] = @ \ {g}]
          /\ AfterStop(m, g, back)
       \/ /\ g \in local[m] /\ StopUnconfirmed(g)
          /\ UNCHANGED local /\ Goto(m, back, NoJob)
    /\ UNCHANGED <<doc, owned, pend>>

CloseForeign(m, i) ==
    /\ i \in Live(doc) \ Ids(m)
    /\ ~IsProcessAlive(doc.inst[i].info.pid)
    /\ Enter(m, "unregistering", i, doc.inst[i].info.gen, "idle")
    /\ UNCHANGED <<doc, worker, books>>

Close(m) ==
    /\ pc[m] = "idle"
    /\ \/ \E i \in Ids(m) : CloseOwned(m, i, owned[m][i], "idle")
       \/ \E g \in Gen : CloseCleanup(m, g, "idle")
       \/ \E i \in Id : CloseForeign(m, i)
    /\ UNCHANGED todo

\* _cleanup_pending_registry, up to its conditional unregister.
Settle(m) ==
    LET g == job[m].gen IN
    /\ pc[m] = "settling"
    /\ \/ \E i \in EntriesOf(g) :
             Enter(m, "unregistering", i, g, job[m].back) /\ UNCHANGED pend
       \/ /\ EntriesOf(g) = {}
          /\ pend' = [pend EXCEPT ![m] = @ \ {g}]
          /\ Return(m)
       \/ Return(m) /\ UNCHANGED pend
    /\ UNCHANGED <<doc, worker, owned, local, todo>>

\* _conditional_unregister: compare-and-delete under the captured nonce.
Unregister(m) ==
    LET g == job[m].gen IN
    /\ pc[m] = "unregistering"
    /\ \/ /\ doc' = UnregisteredIfOwner(doc, job[m].id, g)
          /\ pend' = [pend EXCEPT ![m] = @ \ {g}]
       \/ UNCHANGED <<doc, pend>>
    /\ Return(m)
    /\ UNCHANGED <<worker, owned, local, todo>>

\* list_sessions, get_status and _owned_worker_count drop their dead workers.
NoticeDead(m, g) ==
    /\ ~IsProcessAlive(worker[g].pid)
    /\ \/ \E i \in Ids(m) :
             /\ owned[m][i] = g /\ Release(m, i) /\ UNCHANGED local
             /\ Enter(m, "unregistering", i, g, pc[m])
       \/ /\ g \in local[m] /\ UNCHANGED owned
          /\ local' = [local EXCEPT ![m] = @ \ {g}]
          /\ AfterStop(m, g, pc[m])
    /\ UNCHANGED <<doc, worker, pend, todo>>

\* Mutant: the exit visits the pending contexts and no session.
ExitPendingOnly(m) ==
    /\ pc[m] = "idle"
    /\ todo' = [todo EXCEPT ![m] = {<<None, g>> : g \in local[m] \cup pend[m]}]
    /\ Goto(m, "leaving", NoJob)
    /\ UNCHANGED <<doc, worker, books>>

(* The router ends: close_all_sessions at interpreter exit, or a crash.  Its *)
(* workers go on without it, and init reaps the ones that exit.              *)
Held(m) == {<<i, owned[m][i]>> : i \in Ids(m)} \cup {<<None, g>> : g \in local[m] \cup pend[m]}

\* The client closes the router's input between two calls.
Exit(m) ==
    /\ pc[m] = "idle"
    /\ todo' = [todo EXCEPT ![m] = Held(m)]
    /\ Goto(m, "leaving", NoJob)
    /\ UNCHANGED <<doc, worker, books>>

\* A KeyboardInterrupt in the middle of a call, or of the start.  It is no
\* Exception, so no handler of the manager sees it; the loop over the input
\* ends and the exit is the orderly one.  A worker that is being started is
\* in none of the books, registered or not.  (An interrupt of the exit itself
\* ends it there, as Crash does.)
Interrupt(m) ==
    /\ pc[m] \notin {"down", "idle", "leaving"} /\ job[m].back # "leaving"
    /\ \/ UNCHANGED doc
       \/ pc[m] = "registering" /\ \E i \in Id : Commit(job[m].gen, i)
    /\ todo' = [todo EXCEPT ![m] = Held(m)]
    /\ Goto(m, "leaving", NoJob)
    /\ worker' = IF pc[m] \in {"waiting", "registering", "reconciling", "abandoning"}
                 THEN [worker EXCEPT ![job[m].gen].cut = TRUE] ELSE worker
    /\ UNCHANGED books

CloseNext(m) ==
    /\ pc[m] = "leaving"
    /\ \E e \in todo[m] :
          /\ todo' = [todo EXCEPT ![m] = @ \ {e}]
          /\ \/ CloseOwned(m, e[1], e[2], "leaving")
             \/ e[1] = None /\ CloseCleanup(m, e[2], "leaving")

Vanish(m) ==
    /\ worker' = [g \in Gen |->
                    IF worker[g].by # m THEN worker[g]
                    ELSE [worker[g] EXCEPT !.by = None, !.cut = FALSE,
                                           !.st = IF @ = "zombie" THEN "gone" ELSE @]]
    /\ owned' = [owned EXCEPT ![m] = << >>]
    /\ local' = [local EXCEPT ![m] = {}]
    /\ pend' = [pend EXCEPT ![m] = {}]
    /\ todo' = [todo EXCEPT ![m] = {}]
    /\ Goto(m, "down", NoJob)
    /\ UNCHANGED doc

Leave(m) == pc[m] = "leaving" /\ todo[m] = {} /\ Vanish(m)
Crash(m) == pc[m] # "down" /\ Vanish(m)

(* The worker: it opens the binary and serves; it exits when opening fails,  *)
(* when its idle TTL expires, or when it crashes.                            *)
BecomeReady(g) ==
    /\ worker[g].st = "starting"
    /\ Become(g, "ready")
    /\ UNCHANGED <<doc, books, pc, job, todo>>

WorkerExits(g) ==
    /\ worker[g].st \in {"starting", "ready", "dying"}
    /\ Become(g, IF worker[g].by \in Manager \ Reaped THEN "zombie" ELSE "gone")
    /\ UNCHANGED <<doc, books, pc, job, todo>>
-----------------------------------------------------------------------------
\* The steps of a call that is under way.
Step(m) ==
    \/ Sweep(m) \/ ExpireDead(m) \/ Serve(m)
    \/ Count(m) \/ Spawn(m) \/ SpawnFails(m)
    \/ WorkerAnswers(m) \/ WorkerExited(m) \/ WorkerLate(m)
    \/ Register(m) \/ RegisterRaises(m) \/ Reconcile(m) \/ Abandon(m)
    \/ Settle(m) \/ Unregister(m)
    \/ CloseNext(m) \/ Leave(m)
    \/ pc[m] = "counting" /\ \E g \in Gen : NoticeDead(m, g)

Call(m) ==
    \/ Start(m)
    \/ \E p \in Path : Open(m, p)
    \/ Close(m)
    \/ pc[m] = "idle" /\ \E g \in Gen : NoticeDead(m, g)
    \/ Exit(m)

Next ==
    \/ \E m \in Manager : Call(m) \/ Step(m) \/ Interrupt(m) \/ Crash(m)
    \/ \E g \in Gen : BecomeReady(g) \/ WorkerExits(g)

Spec == Init /\ [][Next]_vars

\* A router keeps running; nothing is assumed of the workers or the clients.
FairSpec == Spec /\ \A m \in Manager : WF_vars(Step(m))
-----------------------------------------------------------------------------
Serving(g) == worker[g].st \in {"starting", "ready"}

LiveEntryRemoved ==
    \E i \in Live(doc) \ Live(doc') : Serving(doc.inst[i].info.gen)

\* "Live sessions owned by another router are left registered" (idalib_close,
\* tools/idalib.py), and a router's own ones until the worker has stopped: no
\* close, status, list, retry or exit removes the entry of a worker that
\* serves, even when the id it cleans up has been given to a newer worker.
ManagersKeepLiveEntries ==
    [][LiveEntryRemoved => \E m \in Manager : ExpireDead(m)]_vars

\* "Only removes instances whose IDA process is no longer running"
\* (cleanup_stale_instances, health.py).
CleanupKeepsLiveEntries == [][~LiveEntryRemoved]_vars

\* "every exceptional path must either confirm process death or retain the
\* process" (spawn_session): a router never loses sight of a worker process,
\* whatever fails in a start, a close or an exit, except the one whose start an
\* interrupt cut short.
NoWorkerForgotten ==
    \A m \in Manager, g \in Gen :
        worker[g].by = m /\ Exists(g) /\ ~worker[g].cut => g \in Tracked(m) \/ job[m].gen = g

\* Between calls, what a router believes it owns and what the registry says
\* agree in both directions, whichever registry calls raised before.
BooksMatchRegistry ==
    \A m \in Manager : pc[m] = "idle" =>
        /\ \A i \in Ids(m) : i \in Live(doc) /\ doc.inst[i].info.gen = owned[m][i]
        /\ \A i \in Live(doc) : LET g == doc.inst[i].info.gen IN
              worker[g].by = m /\ Exists(g) =>
                  (i \in Ids(m) /\ owned[m][i] = g) \/ g \in pend[m]

\* A router never has more worker processes than the maximum, counting those
\* it could not stop and those that start.
OwnLimit ==
    \A m \in Manager : Cardinality({g \in Gen : worker[g].by = m /\ Exists(g)}) <= MaxWorkers

\* A router that exits in order, at the end of its input or by an interrupt in
\* the middle of any call, leaves no worker serving behind but the one it was
\* starting then: each is stopped, or outlived a SIGKILL.
ExitLeavesNothing ==
    [][\A m \in Manager : Leave(m) =>
          \A g \in Gen : worker[g].by = m /\ ~worker[g].cut => ~Serving(g)]_vars

\* Every call returns, even if the worker it waits for never gets ready.
CallsReturn ==
    \A m \in Manager : pc[m] # "idle" ~> pc[m] \in {"idle", "down"}
=============================================================================
