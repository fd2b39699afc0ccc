------------------------ MODULE IdalibManagerProofs ------------------------
(***************************************************************************)
(* Proofs about IdalibManager.tla for any number of workers, process ids   *)
(* and ids, and any failures. With one router: it never loses sight of a   *)
(* worker, its books agree with the registry between calls, it respects    *)
(* its limit, and an orderly exit leaves nothing serving. With several     *)
(* routers the race of the clean-up can expire the entry of a worker that  *)
(* serves, and these no longer hold; but with any number of them nothing   *)
(* else takes away such an entry.                                          *)
(***************************************************************************)
EXTENDS IdalibManager, RegistryDocProofs, FiniteSetTheorems

OneRouter == \A m, n \in Manager : m = n

\* Where a router may be, by what its job is about.
Calm == {"down", "sweeping", "expiring", "idle", "counting", "spawning", "leaving"}
Starting == {"waiting", "registering", "reconciling", "abandoning"}
Ending == {"settling", "unregistering"}

States == {"none", "starting", "ready", "dying", "zombie", "gone"}

Worker == [st : States, pid : Pid \cup {None}, path : Path \cup {None}, by : Manager \cup {None},
           cut : BOOLEAN]
Job ==
    [gen : Gen \cup {0}, id : Id \cup {None}, path : Path \cup {None},
     unsure : BOOLEAN, back : {"idle", "counting", "leaving"}]

TypeOK ==
    /\ Sound(doc)
    /\ worker \in [Gen -> Worker]
    /\ DOMAIN owned = Manager /\ DOMAIN todo = Manager
    /\ \A m \in Manager : Ids(m) \subseteq Id /\ \A i \in Ids(m) : owned[m][i] \in Gen
    /\ local \in [Manager -> SUBSET Gen]
    /\ pend \in [Manager -> SUBSET Gen]
    /\ pc \in [Manager -> Calm \cup Starting \cup Ending]
    /\ job \in [Manager -> Job]
    /\ \A m \in Manager : pc[m] \in {"sweeping", "expiring"} => \A e \in todo[m] : e[1] \in Id

\* A worker that was spawned has a pid and a binary, and no two processes there
\* are have the same pid.
WorkersInv ==
    /\ \A g \in Gen : worker[g].st # "none" => worker[g].pid \in Pid /\ worker[g].path \in Path
    /\ \A g, h \in Gen : Exists(g) /\ Exists(h) /\ worker[g].pid = worker[h].pid => g = h

\* An entry names a worker that was spawned, and its pid.
EntriesInv ==
    \A i \in Live(doc) :
        LET x == doc.inst[i].info
        IN  worker[x.gen].st # "none" /\ worker[x.gen].pid = x.pid

\* A session is registered under its id, and not pending; what is pending and
\* not kept as a process has ended.
BooksInv ==
    \A m \in Manager :
        /\ \A i \in Ids(m) : i \in Live(doc) /\ doc.inst[i].info.gen = owned[m][i]
        /\ \A g \in Tracked(m) \cup pend[m] : worker[g].st # "none"
        /\ \A i \in Ids(m) : owned[m][i] \notin pend[m]
        /\ \A g \in pend[m] : g \in local[m] \/ ~Exists(g)
        /\ pc[m] \in {"down", "sweeping", "expiring"} => Ids(m) = {}

\* A worker that is being started is new to the books, and has an entry only
\* after a registration that raised; one whose entry is removed has ended.
JobInv ==
    \A m \in Manager :
        LET g == job[m].gen IN
        /\ pc[m] \in Calm => g = 0
        /\ pc[m] \in Starting => g \in Gen /\ worker[g].st # "none" /\ g \notin Tracked(m) \cup pend[m]
        /\ pc[m] \in {"waiting", "registering"} => EntriesOf(g) = {}
        /\ pc[m] = "abandoning" /\ ~job[m].unsure => EntriesOf(g) = {}
        /\ pc[m] = "reconciling" => \A i, j \in EntriesOf(g) : i = j
        /\ pc[m] \in Ending => g \in Gen /\ ~Exists(g)
        /\ pc[m] = "settling" => g \in pend[m]
        /\ pc[m] = "unregistering" => job[m].id \notin Ids(m)
        /\ pc[m] \in {"counting", "spawning"} \/ job[m].back = "counting" => job[m].path \in Path

\* The processes router m answers for: not the one whose start was cut short.
Runs(m, g) == worker[g].by = m /\ Exists(g) /\ ~worker[g].cut

\* An entry of a worker it answers for is in its books.
EntriesKnown ==
    \A m \in Manager, i \in Live(doc) :
        LET g == doc.inst[i].info.gen IN
        Runs(m, g) =>
            \/ i \in Ids(m) /\ owned[m][i] = g
            \/ g \in pend[m]
            \/ pc[m] \in Starting /\ job[m].gen = g

IInv == TypeOK /\ WorkersInv /\ EntriesInv /\ BooksInv /\ JobInv /\ NoWorkerForgotten /\ EntriesKnown

Own(m) == {g \in Gen : worker[g].by = m /\ Exists(g)}

LimitInv ==
    \A m \in Manager :
        /\ Cardinality(Own(m)) <= MaxWorkers
        /\ pc[m] = "spawning" => Cardinality(Own(m)) < MaxWorkers
-----------------------------------------------------------------------------
(* What every step shares. *)

LEMMA InitIInv == Init => IInv
<1> SUFFICES ASSUME Init PROVE IInv
  OBVIOUS
<1>1. \A m \in Manager : Ids(m) = {} /\ Tracked(m) = {}
  <2>1. DOMAIN << >> = {}
    OBVIOUS
  <2> QED
    BY <2>1 DEF Init, Ids, Tracked
<1>2. Sound(doc) /\ Live(doc) = {}
  BY EmptyDocSound DEF Init
<1>3. NoJob \in Job /\ NoJob.gen = 0 /\ NoJob.back = "idle"
  BY DEF NoJob, Job
<1>4. TypeOK
  BY <1>1, <1>2, <1>3 DEF Init, TypeOK, Worker, States, Calm
<1>5. WorkersInv /\ EntriesInv
  BY <1>2 DEF Init, WorkersInv, EntriesInv, Exists
<1>6. BooksInv
  BY <1>1 DEF Init, BooksInv
<1>7. JobInv
  BY <1>3 DEF Init, JobInv, Calm, Starting, Ending
<1>8. NoWorkerForgotten /\ EntriesKnown
  BY <1>2 DEF Init, NoWorkerForgotten, EntriesKnown, Runs, Exists
<1> QED
  BY <1>4, <1>5, <1>6, <1>7, <1>8 DEF IInv

LEMMA GotoFacts ==
    ASSUME TypeOK, NEW m \in Manager, NEW l \in Calm \cup Starting \cup Ending, NEW j \in Job, Goto(m, l, j)
    PROVE  /\ pc' \in [Manager -> Calm \cup Starting \cup Ending] /\ job' \in [Manager -> Job]
           /\ pc'[m] = l /\ job'[m] = j
BY DEF Goto, TypeOK

\* Where the others are does not change.
Went(m) ==
    /\ pc' \in [Manager -> Calm \cup Starting \cup Ending] /\ job' \in [Manager -> Job]
    /\ \A n \in Manager \ {m} : pc'[n] = pc[n] /\ job'[n] = job[n]

LEMMA GotoWent ==
    ASSUME TypeOK, NEW m \in Manager, NEW l \in Calm \cup Starting \cup Ending, NEW j \in Job, Goto(m, l, j)
    PROVE  Went(m) /\ pc'[m] = l /\ job'[m] = j
BY DEF Goto, TypeOK, Went

\* The end of a call or of a part of one leaves an empty job.
LEMMA ReturnFacts ==
    ASSUME TypeOK, JobInv, NEW m \in Manager, Return(m)
    PROVE  /\ pc' \in [Manager -> Calm \cup Starting \cup Ending] /\ job' \in [Manager -> Job]
           /\ pc'[m] \in {"idle", "counting", "leaving"}
           /\ job'[m].gen = 0 /\ job'[m].back = "idle"
           /\ pc'[m] = "counting" => job'[m].path \in Path
<1>1. job[m] \in Job /\ job[m].path \in Path \cup {None}
  BY DEF TypeOK, Job
<1>2. NoJob \in Job /\ NoJob.gen = 0 /\ NoJob.back = "idle"
  BY DEF NoJob, Job
<1>3. CASE job[m].back = "counting"
  <2> DEFINE j == [NoJob EXCEPT !.path = job[m].path]
  <2>1. j \in Job /\ j.gen = 0 /\ j.back = "idle" /\ j.path = job[m].path
    BY <1>1 DEF NoJob, Job
  <2>2. Goto(m, "counting", j)
    BY <1>3 DEF Return
  <2>3. job[m].path \in Path
    BY <1>3 DEF JobInv
  <2> HIDE DEF j
  <2> QED
    BY <2>1, <2>2, <2>3, GotoFacts DEF Calm
<1>4. CASE job[m].back # "counting"
  <2>1. job[m].back \in {"idle", "leaving"} /\ Goto(m, job[m].back, NoJob)
    BY <1>1, <1>4 DEF Return, Job
  <2> QED
    BY <1>2, <2>1, GotoFacts DEF Calm
<1> QED
  BY <1>3, <1>4

LEMMA EnterFacts ==
    ASSUME TypeOK, NEW m \in Manager, NEW l \in Ending, NEW i \in Id \cup {None}, NEW g \in Gen,
           NEW back \in {"idle", "counting", "leaving"}, Enter(m, l, i, g, back)
    PROVE  /\ pc' \in [Manager -> Calm \cup Starting \cup Ending] /\ job' \in [Manager -> Job]
           /\ pc'[m] = l /\ job'[m].gen = g /\ job'[m].id = i /\ job'[m].back = back
           /\ job'[m].path = job[m].path
<1> DEFINE j == [job[m] EXCEPT !.id = i, !.gen = g, !.back = back]
<1>1. job[m] \in Job
  BY DEF TypeOK
<1>2. j \in Job /\ j.gen = g /\ j.id = i /\ j.back = back /\ j.path = job[m].path
  BY <1>1 DEF Job
<1>3. Goto(m, l, j)
  BY DEF Enter
<1> HIDE DEF j
<1> QED
  BY <1>2, <1>3, GotoFacts

\* Workers do nothing but come to an end, or lose their router.
Fades ==
    \A g \in Gen :
        /\ worker'[g].st = "none" <=> worker[g].st = "none"
        /\ worker[g].st = "gone" => worker'[g].st = "gone"
        /\ worker'[g].pid = worker[g].pid /\ worker'[g].path = worker[g].path
        /\ worker'[g].by \in {worker[g].by, None}
        /\ worker'[g].by = None \/ worker'[g].cut = worker[g].cut

LEMMA BecomeFades ==
    ASSUME TypeOK, NEW g \in Gen, worker[g].st # "none", NEW st \in States \ {"none"},
           worker[g].st = "gone" => st = "gone", Become(g, st)
    PROVE  worker' \in [Gen -> Worker] /\ worker'[g].st = st /\ Fades
<1>1. worker \in [Gen -> Worker]
  BY DEF TypeOK
<1>2. worker' = [worker EXCEPT ![g] = [worker[g] EXCEPT !.st = st]]
  BY DEF Become
<1>3. [worker[g] EXCEPT !.st = st] \in Worker
  BY <1>1 DEF Worker
<1> QED
  BY <1>1, <1>2, <1>3 DEF Fades, Worker

LEMMA StopFacts ==
    ASSUME TypeOK, NEW g \in Gen, worker[g].st # "none"
    PROVE  /\ StopConfirmed(g) => worker' \in [Gen -> Worker] /\ Fades /\ worker'[g].st = "gone"
           /\ StopUnconfirmed(g) => worker' \in [Gen -> Worker] /\ Fades
BY BecomeFades DEF StopConfirmed, StopUnconfirmed, States

\* A step that starts and registers nothing keeps the invariant if what it drops
\* from the books has ended, or is still known where it matters.
LEMMA StepKeepsIInv ==
    ASSUME IInv, OneRouter, None \notin Manager, NEW m \in Manager, TypeOK', Fades, JobInv',
           Live(doc') \subseteq Live(doc),
           \A i \in Live(doc') : doc'.inst[i].info = doc.inst[i].info,
           Ids(m)' \subseteq Ids(m), \A i \in Ids(m)' : owned'[m][i] = owned[m][i] /\ i \in Live(doc'),
           pc'[m] \in {"down", "sweeping", "expiring"} => Ids(m)' = {},
           local'[m] \subseteq local[m] \cup {job[m].gen},
           pend'[m] \subseteq pend[m] \cup {job[m].gen},
           pc[m] \in Calm \cup Ending => local'[m] \subseteq local[m] /\ pend'[m] \subseteq pend[m],
           \A g \in pend'[m] : g \in local'[m] \/ ~Exists(g)',
           \A g \in Gen : Runs(m, g)' =>
              /\ \A i \in Ids(m) : owned[m][i] = g => i \in Ids(m)'
              /\ g \in local[m] => g \in local'[m]
              /\ g \in pend[m] => g \in pend'[m] \/ EntriesOf(g) = {}
              /\ pc[m] \in Starting /\ job[m].gen = g =>
                    \/ pc'[m] \in Starting /\ job'[m].gen = g
                    \/ g \in local'[m] /\ (g \in pend'[m] \/ EntriesOf(g) = {})
    PROVE  IInv'
<1> USE DEF IInv
<1>0. \A n \in Manager : n = m
  BY DEF OneRouter
<1>1. \A g \in Gen : (Exists(g)' => Exists(g)) /\ (Runs(m, g)' => Runs(m, g))
  BY DEF Fades, Exists, Runs
<1>2. \A i \in Live(doc) : doc.inst[i].info.gen \in Gen
  BY ManagerAssumption DEF TypeOK, Sound, IsDoc, Entry
<1>3. WorkersInv'
  BY <1>1 DEF WorkersInv, Fades
<1>4. EntriesInv'
  BY <1>2 DEF EntriesInv, Fades
<1>5. BooksInv'
  <2>1. pc[m] \in Calm \cup Starting \cup Ending
    BY DEF TypeOK
  <2>2. \A i \in Ids(m)' : i \in Live(doc)' /\ doc'.inst[i].info.gen = owned'[m][i]
    BY DEF BooksInv
  <2>3. \A i \in Ids(m) : owned[m][i] \in Gen /\ worker[owned[m][i]].st # "none" /\ owned[m][i] \notin pend[m]
    BY DEF TypeOK, BooksInv, Tracked
  <2>4. \A g \in local[m] \cup pend[m] : g \in Gen /\ worker[g].st # "none"
    BY DEF TypeOK, BooksInv, Tracked
  <2>5. pc[m] \in Starting => /\ job[m].gen \in Gen /\ worker[job[m].gen].st # "none"
                              /\ \A i \in Ids(m) : owned[m][i] # job[m].gen
    BY DEF JobInv, Tracked
  <2>6. \A g \in Tracked(m)' \cup pend'[m] : worker'[g].st # "none"
    BY <2>1, <2>3, <2>4, <2>5 DEF Tracked, Fades
  <2>7. \A i \in Ids(m)' : owned'[m][i] \notin pend'[m]
    BY <2>1, <2>3, <2>5
  <2> QED
    BY <1>0, <2>2, <2>6, <2>7 DEF BooksInv
<1>6. ASSUME NEW g \in Gen, Runs(m, g)'
      PROVE  \/ \E i \in Ids(m)' : owned'[m][i] = g
             \/ g \in local'[m]
             \/ pc'[m] \in Starting /\ job'[m].gen = g
  <2>1. Runs(m, g) /\ Exists(g)
    BY <1>1, <1>6 DEF Runs
  <2>2. g \in Tracked(m) \/ job[m].gen = g
    BY <2>1 DEF NoWorkerForgotten, Runs
  <2>3. CASE g \in Tracked(m)
    BY <1>6, <2>3 DEF Tracked
  <2>4. CASE job[m].gen = g
    <3>1. 0 \notin Gen /\ pc[m] \in Calm \cup Starting \cup Ending
      BY ManagerAssumption DEF TypeOK
    <3> QED
      BY <1>6, <2>1, <2>4, <3>1 DEF JobInv
  <2> QED
    BY <2>2, <2>3, <2>4
<1>7. NoWorkerForgotten'
  <2> SUFFICES ASSUME NEW g \in Gen, Runs(m, g)' PROVE g \in Tracked(m)' \/ job'[m].gen = g
    BY <1>0 DEF NoWorkerForgotten, Runs
  <2> QED
    BY <1>6 DEF Tracked
<1>8. EntriesKnown'
  <2>1. ASSUME NEW i \in Live(doc'), NEW g \in Gen, g = doc.inst[i].info.gen, Runs(m, g)'
        PROVE  \/ i \in Ids(m)' /\ owned'[m][i] = g
               \/ g \in pend'[m]
               \/ pc'[m] \in Starting /\ job'[m].gen = g
    <3>1. i \in EntriesOf(g) /\ Runs(m, g)
      BY <1>1, <2>1 DEF EntriesOf
    <3>2. \/ i \in Ids(m) /\ owned[m][i] = g
          \/ g \in pend[m]
          \/ pc[m] \in Starting /\ job[m].gen = g
      BY <2>1, <3>1 DEF EntriesKnown, Runs
    <3> QED
      BY <2>1, <3>1, <3>2
  <2>2. \A i \in Live(doc') : doc'.inst[i].info.gen = doc.inst[i].info.gen /\ doc.inst[i].info.gen \in Gen
    BY <1>2
  <2> QED
    BY <1>0, <2>1, <2>2 DEF EntriesKnown, Runs
<1> QED
  BY <1>3, <1>4, <1>5, <1>7, <1>8

\* The router is not in the middle of a worker's start, or its end.
LEMMA CalmJob ==
    ASSUME OneRouter, NEW m \in Manager, pc'[m] \in Calm, job'[m].gen = 0,
           pc'[m] \in {"counting", "spawning"} \/ job'[m].back = "counting" => job'[m].path \in Path
    PROVE  JobInv'
BY DEF OneRouter, JobInv, Calm, Starting, Ending

LEMMA EndingJob ==
    ASSUME OneRouter, NEW m \in Manager, pc'[m] \in Ending, NEW g \in Gen, job'[m].gen = g, ~Exists(g)',
           pc'[m] = "settling" => g \in pend'[m],
           pc'[m] = "unregistering" => job'[m].id \notin Ids(m)',
           job'[m].back = "counting" => job'[m].path \in Path
    PROVE  JobInv'
BY DEF OneRouter, JobInv, Calm, Starting, Ending, Exists

\* A step that only moves on.
LEMMA MoveKeepsIInv ==
    ASSUME IInv, OneRouter, NEW m \in Manager, UNCHANGED <<doc, worker, books>>, DOMAIN todo' = Manager,
           pc' \in [Manager -> Calm \cup Starting \cup Ending], job' \in [Manager -> Job], JobInv',
           pc'[m] \in {"sweeping", "expiring"} => \A e \in todo'[m] : e[1] \in Id,
           pc'[m] \in {"down", "sweeping", "expiring"} => Ids(m) = {},
           pc[m] \in Starting => pc'[m] \in Starting /\ job'[m].gen = job[m].gen
    PROVE  IInv'
<1>1. doc' = doc /\ worker' = worker /\ owned' = owned /\ local' = local /\ pend' = pend
  BY DEF books
<1>2. \A n \in Manager : n = m
  BY DEF OneRouter
<1>3. TypeOK'
  BY <1>1, <1>2 DEF IInv, TypeOK, Ids
<1>4. Fades
  BY <1>1 DEF Fades
<1>5. Ids(m)' = Ids(m) /\ \A g \in Gen : Exists(g)' => Exists(g)
  BY <1>1 DEF Ids, Exists
<1>6. \A i \in Ids(m) : i \in Live(doc)
  BY DEF IInv, BooksInv
<1>7. \A g \in pend[m] : g \in Gen /\ (g \in local[m] \/ ~Exists(g))
  BY DEF IInv, BooksInv, TypeOK
<1> QED
  BY <1>1, <1>3, <1>4, <1>5, <1>6, <1>7, StepKeepsIInv, ManagerAssumption
-----------------------------------------------------------------------------
(* The steps of a call. *)

LEMMA SweepKeepsIInv ==
    ASSUME IInv, OneRouter, NEW m \in Manager, Start(m) \/ Sweep(m)
    PROVE  IInv'
<1>1. NoJob \in Job /\ NoJob.gen = 0 /\ NoJob.back = "idle"
  BY DEF NoJob, Job
<1>2. TypeOK /\ JobInv
  BY DEF IInv
<1>3. Live(doc) \subseteq Id
  BY <1>2 DEF TypeOK, Sound, IsDoc
<1>4. CASE Start(m)
  <2>1. pc' \in [Manager -> Calm \cup Starting \cup Ending] /\ job' \in [Manager -> Job]
        /\ pc'[m] = "sweeping" /\ job'[m] = NoJob
    BY <1>1, <1>2, <1>4, GotoFacts DEF Start, Calm
  <2>2. DOMAIN todo' = Manager /\ \A e \in todo'[m] : e[1] \in Id
    BY <1>2, <1>3, <1>4 DEF Start, TypeOK
  <2>3. JobInv'
    BY <1>1, <2>1, CalmJob DEF Calm
  <2>4. Ids(m) = {} /\ pc[m] \notin Starting
    BY <1>4 DEF Start, IInv, BooksInv, Starting
  <2> QED
    BY <1>4, <2>1, <2>2, <2>3, <2>4, MoveKeepsIInv DEF Start
<1>5. CASE Sweep(m)
  <2>1. PICK e \in todo[m] :
          /\ todo' = [todo EXCEPT ![m] = @ \ {e}]
          /\ \/ UNCHANGED <<pc, job>>
             \/ Goto(m, "expiring", [NoJob EXCEPT !.id = e[1]])
    BY <1>5 DEF Sweep
  <2> DEFINE j == [NoJob EXCEPT !.id = e[1]]
  <2>2. e[1] \in Id /\ DOMAIN todo' = Manager /\ \A f \in todo'[m] : f[1] \in Id
    BY <1>2, <1>5, <2>1 DEF Sweep, TypeOK
  <2>3. j \in Job /\ j.gen = 0 /\ j.back = "idle"
    BY <1>1, <2>2 DEF Job, NoJob
  <2> HIDE DEF j
  <2>4. /\ pc' \in [Manager -> Calm \cup Starting \cup Ending] /\ job' \in [Manager -> Job]
        /\ \/ pc'[m] = "sweeping" /\ job'[m] = job[m]
           \/ pc'[m] = "expiring" /\ job'[m] = j
    <3>1. CASE UNCHANGED <<pc, job>>
      BY <1>2, <1>5, <3>1 DEF Sweep, TypeOK
    <3>2. CASE Goto(m, "expiring", j)
      BY <1>2, <2>3, <3>2, GotoFacts DEF Calm
    <3> QED
      BY <2>1, <3>1, <3>2 DEF j
  <2>5. job'[m].gen = 0 /\ (job'[m].back = "counting" => job'[m].path \in Path)
    BY <1>2, <1>5, <2>3, <2>4 DEF Sweep, JobInv, Calm
  <2>6. JobInv'
    BY <2>4, <2>5, CalmJob DEF Calm
  <2>7. Ids(m) = {} /\ pc[m] \notin Starting
    BY <1>5 DEF Sweep, IInv, BooksInv, Starting
  <2> QED
    BY <1>5, <2>2, <2>4, <2>6, <2>7, MoveKeepsIInv DEF Sweep
<1> QED
  BY <1>4, <1>5

\* The clean-up only takes entries out of the document.
LEMMA ShrinkFacts ==
    ASSUME TypeOK, NEW m \in Manager, ExpireDead(m) \/ Serve(m)
    PROVE  /\ Sound(doc') /\ Live(doc') \subseteq Live(doc)
           /\ \A i \in Live(doc') : doc'.inst[i].info = doc.inst[i].info
<1>1. CASE ExpireDead(m)
  <2> DEFINE S == {job[m].id} \cap Live(doc)
  <2>1. S \in SUBSET Live(doc) /\ doc' = ExpiredDoc(doc, S, 0) /\ Sound(doc)
    BY <1>1 DEF ExpireDead, InstanceExpired, TypeOK
  <2> HIDE DEF S
  <2>2. /\ Sound(ExpiredDoc(doc, S, 0)) /\ Live(ExpiredDoc(doc, S, 0)) = Live(doc) \ S
        /\ \A j \in Live(doc) \ S : ExpiredDoc(doc, S, 0).inst[j] = doc.inst[j]
    BY <2>1, ExpiredDocSound
  <2> QED
    BY <2>1, <2>2
<1>2. CASE Serve(m)
  BY <1>2, ExpiredCleanedSound DEF Serve, TypeOK, Live
<1> QED
  BY <1>1, <1>2

\* Steps that keep the document and end the clean-up, or expire an entry.
LEMMA ShrinkKeepsIInv ==
    ASSUME IInv, OneRouter, NEW m \in Manager, ExpireDead(m) \/ Serve(m)
    PROVE  IInv'
<1> USE DEF IInv
<1>1. NoJob \in Job /\ NoJob.gen = 0 /\ NoJob.back = "idle"
  BY DEF NoJob, Job
<1>2. pc[m] \in {"sweeping", "expiring"} /\ Ids(m) = {}
  BY DEF ExpireDead, Serve, BooksInv
<1>3. Sound(doc') /\ Live(doc') \subseteq Live(doc) /\ \A i \in Live(doc') : doc'.inst[i].info = doc.inst[i].info
  BY ShrinkFacts
<1>4. worker' = worker /\ owned' = owned /\ local' = local /\ pend' = pend /\ todo' = todo
  BY DEF ExpireDead, Serve, books
<1>5. pc' \in [Manager -> Calm \cup Starting \cup Ending] /\ job' \in [Manager -> Job]
      /\ pc'[m] \in {"sweeping", "idle"} /\ job'[m] = NoJob
  BY <1>1, GotoFacts DEF ExpireDead, Serve, Calm
<1>6. JobInv'
  BY <1>1, <1>5, CalmJob DEF Calm
<1>7. \A n \in Manager : n = m
  BY DEF OneRouter
<1>8. Ids(m)' = {} /\ Fades /\ \A g \in Gen : Exists(g)' => Exists(g)
  BY <1>2, <1>4 DEF Ids, Fades, Exists
<1>9. TypeOK'
  BY <1>2, <1>3, <1>4, <1>5, <1>7 DEF TypeOK, Ids
<1>10. pc[m] \notin Starting /\ \A g \in pend[m] : g \in Gen /\ (g \in local[m] \/ ~Exists(g))
  BY <1>2 DEF Starting, BooksInv, TypeOK
<1> QED
  BY <1>2, <1>3, <1>4, <1>5, <1>6, <1>8, <1>9, <1>10, StepKeepsIInv, ManagerAssumption

\* Steps of a start that leave documents, workers and books alone.
LEMMA MovesKeepIInv ==
    ASSUME IInv, OneRouter, NEW m \in Manager,
           \/ \E p \in Path : Open(m, p)
           \/ Count(m) \/ SpawnFails(m) \/ WorkerAnswers(m) \/ WorkerLate(m) \/ Exit(m)
    PROVE  IInv'
<1> USE DEF IInv
<1>0. UNCHANGED <<doc, worker, books>> /\ DOMAIN todo' = Manager
  BY DEF Open, Count, SpawnFails, WorkerAnswers, WorkerLate, Exit, TypeOK
<1>1. NoJob \in Job /\ NoJob.gen = 0 /\ NoJob.back = "idle" /\ job[m] \in Job
  BY DEF NoJob, Job, TypeOK
<1>2. ASSUME Return(m), pc[m] \notin Starting PROVE IInv'
  <2>1. JobInv'
    BY <1>2, ReturnFacts, CalmJob DEF Calm
  <2> QED
    BY <1>0, <1>2, <2>1, ReturnFacts, MoveKeepsIInv
<1>3. ASSUME NEW p \in Path, Open(m, p) PROVE IInv'
  <2> DEFINE j == [NoJob EXCEPT !.path = p]
  <2>1. j \in Job /\ j.gen = 0 /\ j.path = p
    BY DEF NoJob, Job
  <2>2. Goto(m, "counting", j) /\ pc[m] \notin Starting
    BY <1>3 DEF Open, Starting
  <2> HIDE DEF j
  <2>3. pc' \in [Manager -> Calm \cup Starting \cup Ending] /\ job' \in [Manager -> Job]
        /\ pc'[m] = "counting" /\ job'[m] = j
    BY <2>1, <2>2, GotoFacts DEF Calm
  <2>4. JobInv'
    BY <2>1, <2>3, CalmJob DEF Calm
  <2> QED
    BY <1>0, <2>2, <2>3, <2>4, MoveKeepsIInv
<1>4. CASE Count(m) \/ SpawnFails(m)
  <2>1. pc[m] \in {"counting", "spawning"} /\ pc[m] \notin Starting
    BY <1>4 DEF Count, SpawnFails, Starting
  <2>2. CASE Goto(m, "spawning", job[m])
    <3>1. pc' \in [Manager -> Calm \cup Starting \cup Ending] /\ job' \in [Manager -> Job]
          /\ pc'[m] = "spawning" /\ job'[m] = job[m]
      BY <1>1, <2>2, GotoFacts DEF Calm
    <3>2. job[m].gen = 0 /\ job[m].path \in Path
      BY <2>1 DEF JobInv, Calm
    <3>3. JobInv'
      BY <3>1, <3>2, CalmJob DEF Calm
    <3> QED
      BY <1>0, <2>1, <3>1, <3>3, MoveKeepsIInv
  <2> QED
    BY <1>2, <1>4, <2>1, <2>2 DEF Count, SpawnFails
<1>5. CASE WorkerAnswers(m) \/ WorkerLate(m)
  <2>1. pc' \in [Manager -> Calm \cup Starting \cup Ending] /\ job' \in [Manager -> Job]
        /\ pc'[m] \in {"registering", "abandoning"} /\ job'[m] = job[m] /\ pc[m] = "waiting"
    BY <1>1, <1>5, GotoFacts DEF WorkerAnswers, WorkerLate, Starting
  <2>2. JobInv'
    BY <1>0, <2>1 DEF OneRouter, JobInv, Calm, Starting, Ending, Tracked, Ids, EntriesOf, books
  <2> QED
    BY <1>0, <2>1, <2>2, MoveKeepsIInv DEF Starting
<1>6. CASE Exit(m)
  <2>1. pc' \in [Manager -> Calm \cup Starting \cup Ending] /\ job' \in [Manager -> Job]
        /\ pc'[m] = "leaving" /\ job'[m] = NoJob /\ pc[m] = "idle"
    BY <1>1, <1>6, GotoFacts DEF Exit, Calm
  <2>2. JobInv'
    BY <1>1, <2>1, CalmJob DEF Calm
  <2> QED
    BY <1>0, <2>1, <2>2, MoveKeepsIInv DEF Starting
<1> QED
  BY <1>3, <1>4, <1>5, <1>6

\* Spawning starts a process that nothing refers to yet.
LEMMA SpawnKeepsIInv ==
    ASSUME IInv, OneRouter, NEW m \in Manager, Spawn(m)
    PROVE  IInv'
<1> USE DEF IInv
<1>1. PICK g \in Gen, p \in Pid :
        /\ worker[g].st = "none" /\ ~IsProcessAlive(p)
        /\ worker' = [worker EXCEPT ![g] = [st |-> "starting", pid |-> p, path |-> job[m].path, by |-> m, cut |-> FALSE]]
        /\ Goto(m, "waiting", [job[m] EXCEPT !.gen = g])
  BY DEF Spawn
<1> DEFINE w == [st |-> "starting", pid |-> p, path |-> job[m].path, by |-> m, cut |-> FALSE]
           j == [job[m] EXCEPT !.gen = g]
<1>2. job[m].path \in Path /\ job[m] \in Job /\ pc[m] = "spawning" /\ job[m].gen = 0
  BY DEF Spawn, TypeOK, JobInv, Calm
<1>3. w \in Worker /\ w.st = "starting" /\ w.pid = p /\ w.path \in Path /\ w.by = m
  BY <1>2 DEF Worker, States
<1>4. j \in Job /\ j.gen = g /\ j.path = job[m].path
  BY <1>2 DEF Job
<1> HIDE DEF w, j
<1>5. worker' \in [Gen -> Worker] /\ worker'[g] = w /\ \A h \in Gen \ {g} : worker'[h] = worker[h]
  BY <1>1, <1>3 DEF TypeOK, w
<1>6. pc' \in [Manager -> Calm \cup Starting \cup Ending] /\ job' \in [Manager -> Job]
      /\ pc'[m] = "waiting" /\ job'[m] = j
  BY <1>1, <1>4, GotoFacts DEF Starting, j
<1>7. doc' = doc /\ owned' = owned /\ local' = local /\ pend' = pend /\ todo' = todo
  BY DEF Spawn, books
<1>8. \A n \in Manager : n = m
  BY DEF OneRouter
<1>9. TypeOK'
  BY <1>5, <1>6, <1>7, <1>8 DEF TypeOK, Ids
<1>10. \A h \in Gen : Exists(h)' => h = g \/ Exists(h)
  BY <1>5 DEF Exists
<1>11. \A h \in Gen : Exists(h) => worker[h].pid # p
  BY <1>1 DEF IsProcessAlive
<1>12. WorkersInv'
  BY <1>3, <1>5, <1>10, <1>11 DEF WorkersInv
<1>13. \A i \in Live(doc) : doc.inst[i].info.gen \in Gen \ {g}
  BY <1>1, ManagerAssumption DEF TypeOK, Sound, IsDoc, Entry, EntriesInv
<1>14. EntriesInv'
  BY <1>5, <1>7, <1>13 DEF EntriesInv
<1>15. g \notin Tracked(m) \cup pend[m] /\ Tracked(m) \cup pend[m] \subseteq Gen
  BY <1>1 DEF BooksInv, TypeOK, Tracked
<1>16. BooksInv'
  <2>1. \A h \in Tracked(m) \cup pend[m] : worker'[h].st # "none"
    BY <1>5, <1>15 DEF BooksInv
  <2>2. \A h \in pend[m] : h \in local[m] \/ ~Exists(h)'
    BY <1>10, <1>15 DEF BooksInv
  <2> QED
    BY <1>6, <1>7, <1>8, <2>1, <2>2 DEF BooksInv, Tracked, Ids
<1>17. JobInv'
  BY <1>2, <1>3, <1>4, <1>5, <1>6, <1>7, <1>8, <1>13, <1>15
  DEF JobInv, Calm, Starting, Ending, EntriesOf, Tracked, Ids
<1>18. NoWorkerForgotten'
  <2>1. 0 \notin Gen
    BY ManagerAssumption
  <2>2. ASSUME NEW h \in Gen, worker'[h].by = m, Exists(h)', ~worker'[h].cut PROVE h \in Tracked(m) \/ h = g
    BY <1>2, <1>5, <1>10, <2>1, <2>2 DEF NoWorkerForgotten
  <2> QED
    BY <1>4, <1>6, <1>7, <1>8, <2>2 DEF NoWorkerForgotten, Tracked, Ids
<1>19. EntriesKnown'
  <2>1. ASSUME NEW i \in Live(doc), NEW h \in Gen, h = doc.inst[i].info.gen, Runs(m, h)'
        PROVE  (i \in Ids(m) /\ owned[m][i] = h) \/ h \in pend[m]
    <3>1. h # g /\ worker'[h] = worker[h] /\ Runs(m, h)
      BY <1>5, <1>10, <1>13, <2>1 DEF Runs
    <3> QED
      BY <1>2, <2>1, <3>1 DEF EntriesKnown, Starting
  <2> QED
    BY <1>7, <1>8, <1>13, <2>1 DEF EntriesKnown, Ids
<1> QED
  BY <1>9, <1>12, <1>14, <1>16, <1>17, <1>18, <1>19

\* The start of a worker ends without an entry that the books do not know.
LEMMA AbandonKeepsIInv ==
    ASSUME IInv, OneRouter, NEW m \in Manager, WorkerExited(m) \/ Abandon(m)
    PROVE  IInv'
<1> USE DEF IInv
<1> DEFINE g == job[m].gen
<1>1. pc[m] \in Starting /\ g \in Gen /\ worker[g].st # "none" /\ g \notin Tracked(m) \cup pend[m]
  BY DEF WorkerExited, Abandon, JobInv, Starting
<1>2. doc' = doc /\ owned' = owned /\ todo' = todo /\ Return(m)
  BY DEF WorkerExited, Abandon, books
<1>3. worker' \in [Gen -> Worker] /\ Fades
  BY <1>1, StopFacts DEF WorkerExited, Abandon
<1>4. /\ pc' \in [Manager -> Calm \cup Starting \cup Ending] /\ job' \in [Manager -> Job]
      /\ pc'[m] \in {"idle", "counting", "leaving"} /\ JobInv'
  BY <1>2, ReturnFacts, CalmJob DEF Calm
<1>5. \/ worker'[g].st = "gone" /\ local' = local
      \/ local' = [local EXCEPT ![m] = @ \cup {g}]
  BY <1>1, StopFacts DEF WorkerExited, Abandon, books
<1>6. \/ pend' = pend /\ (EntriesOf(g) = {})
      \/ pend' = [pend EXCEPT ![m] = @ \cup {g}]
  <2>1. CASE WorkerExited(m)
    BY <2>1 DEF WorkerExited, books, JobInv
  <2>2. CASE Abandon(m) /\ job[m].unsure
    BY <2>2 DEF Abandon
  <2>3. CASE Abandon(m) /\ ~job[m].unsure
    <3>1. pend' = [pend EXCEPT ![m] = pend[m]] /\ EntriesOf(g) = {}
      BY <2>3 DEF Abandon, JobInv
    <3> QED
      BY <3>1 DEF TypeOK
  <2> QED
    BY <2>1, <2>2, <2>3
<1>7. /\ local' \in [Manager -> SUBSET Gen] /\ local[m] \subseteq local'[m] /\ local'[m] \subseteq local[m] \cup {g}
      /\ pend' \in [Manager -> SUBSET Gen] /\ pend[m] \subseteq pend'[m] /\ pend'[m] \subseteq pend[m] \cup {g}
      /\ worker'[g].st = "gone" \/ g \in local'[m]
      /\ g \in pend'[m] \/ EntriesOf(g) = {}
  BY <1>1, <1>5, <1>6 DEF TypeOK
<1> HIDE DEF g
<1>8. \A n \in Manager : n = m
  BY DEF OneRouter
<1>9. TypeOK'
  BY <1>2, <1>3, <1>4, <1>7, <1>8 DEF TypeOK, Ids
<1>10. \A h \in Gen : Exists(h)' => Exists(h) /\ worker'[h].st # "gone"
  BY <1>3 DEF Fades, Exists
<1>11. \A h \in pend'[m] : h \in local'[m] \/ ~Exists(h)'
  BY <1>1, <1>7, <1>10 DEF BooksInv, TypeOK
<1>12. \A h \in Gen : h = g /\ Runs(m, h)' => h \in local'[m]
  BY <1>1, <1>7, <1>10 DEF Runs
<1>13. Ids(m)' = Ids(m) /\ \A i \in Ids(m) : i \in Live(doc)
  BY <1>2 DEF Ids, BooksInv
<1>14. pc[m] \notin Calm \cup Ending
  BY <1>1 DEF Starting, Calm, Ending
<1> QED
  BY <1>2, <1>3, <1>4, <1>7, <1>9, <1>11, <1>12, <1>13, <1>14, StepKeepsIInv, ManagerAssumption DEF g

\* What register adds to the document, if it commits.
LEMMA CommitAdds ==
    ASSUME TypeOK, NEW g \in Gen, worker[g].pid \in Pid, worker[g].path \in Path, NEW i \in Id, Commit(g, i)
    PROVE  /\ Sound(doc') /\ i \notin Live(doc) /\ Live(doc') = Live(doc) \cup {i}
           /\ doc'.inst[i].info = InfoOf(g)
           /\ \A k \in Live(doc) : doc'.inst[k] = doc.inst[k]
           /\ InfoOf(g).gen = g /\ InfoOf(g).pid = worker[g].pid
<1>1. worker[g].pid \in Pid /\ worker[g].path \in Path /\ Sound(doc)
  BY DEF TypeOK
<1>2. InfoOf(g) \in Info /\ InfoOf(g).gen = g /\ InfoOf(g).pid = worker[g].pid
  BY <1>1, ManagerAssumption DEF InfoOf
<1>3. doc' = Registered(doc, InfoOf(g), i, 0) /\ i \in ResolveCollision(InfoOf(g), Live(doc))
  BY DEF Commit
<1>4. doc'.inst = Put(doc.inst, i, [info |-> InfoOf(g), seq |-> doc.n, beat |-> 0])
  BY <1>3 DEF Registered
<1>5. doc'.inst[i].info = InfoOf(g)
  BY <1>4 DEF Put
<1> QED
  BY <1>1, <1>2, <1>3, <1>5, RegisteredSound

LEMMA CommitFacts ==
    ASSUME IInv, NEW g \in Gen, worker[g].st # "none", NEW i \in Id, Commit(g, i)
    PROVE  /\ Sound(doc') /\ i \notin Live(doc) /\ Live(doc') = Live(doc) \cup {i}
           /\ doc'.inst[i].info = InfoOf(g)
           /\ \A k \in Live(doc) : doc'.inst[k] = doc.inst[k]
           /\ InfoOf(g).gen = g /\ InfoOf(g).pid = worker[g].pid
BY CommitAdds DEF IInv, WorkersInv

LEMMA RegisterKeepsIInv ==
    ASSUME IInv, OneRouter, NEW m \in Manager, Register(m) \/ RegisterRaises(m)
    PROVE  IInv'
<1> USE DEF IInv
<1> DEFINE g == job[m].gen
<1>1. /\ pc[m] = "registering" /\ g \in Gen /\ worker[g].st # "none" /\ g \notin Tracked(m) \cup pend[m]
      /\ EntriesOf(g) = {} /\ Ids(m) \subseteq Id /\ job[m] \in Job
  BY DEF Register, RegisterRaises, JobInv, Starting, TypeOK
<1>2. worker' = worker /\ local' = local /\ pend' = pend /\ todo' = todo
  BY DEF Register, RegisterRaises, books
<1>3. \A n \in Manager : n = m
  BY DEF OneRouter
<1>4. 0 \notin Gen
  BY ManagerAssumption
<1>5. CASE RegisterRaises(m) /\ UNCHANGED doc
  <2>1. pc' \in [Manager -> Calm \cup Starting \cup Ending] /\ job' \in [Manager -> Job]
        /\ pc'[m] = "reconciling" /\ job'[m] = job[m]
    BY <1>1, <1>5, GotoFacts DEF RegisterRaises, Starting
  <2>2. owned' = owned /\ UNCHANGED <<doc, worker, books>> /\ DOMAIN todo' = Manager
    BY <1>2, <1>5 DEF RegisterRaises, books, TypeOK
  <2>3. JobInv'
    BY <1>1, <1>2, <1>3, <1>5, <2>1, <2>2 DEF JobInv, Calm, Starting, Ending, Tracked, Ids, EntriesOf
  <2> QED
    BY <1>1, <2>1, <2>2, <2>3, MoveKeepsIInv DEF Starting
<1>6. ASSUME NEW i \in Id, Commit(g, i),
             \/ Track(m, i, g) /\ Return(m)
             \/ owned' = owned /\ Goto(m, "reconciling", job[m])
      PROVE  IInv'
  <2>1. /\ Sound(doc') /\ i \notin Live(doc) /\ Live(doc') = Live(doc) \cup {i}
        /\ doc'.inst[i].info.gen = g /\ doc'.inst[i].info.pid = worker[g].pid
        /\ \A k \in Live(doc) : doc'.inst[k] = doc.inst[k]
    BY <1>1, <1>6, CommitFacts
  <2> HIDE DEF g
  <2>2. i \notin Ids(m)
    BY <2>1 DEF BooksInv
  <2>3. \/ /\ pc'[m] \in {"idle", "counting", "leaving"} /\ job'[m].gen = 0 /\ JobInv'
           /\ pc' \in [Manager -> Calm \cup Starting \cup Ending] /\ job' \in [Manager -> Job]
           /\ DOMAIN owned' = Manager /\ Ids(m)' = Ids(m) \cup {i} /\ owned'[m][i] = g
           /\ \A k \in Ids(m) : owned'[m][k] = owned[m][k]
        \/ /\ pc'[m] = "reconciling" /\ job'[m] = job[m] /\ Ids(m)' = Ids(m) /\ owned' = owned
           /\ pc' \in [Manager -> Calm \cup Starting \cup Ending] /\ job' \in [Manager -> Job]
    <3>1. CASE Track(m, i, g) /\ Return(m)
      <4>1. DOMAIN owned' = Manager /\ owned'[m] = Put(owned[m], i, g)
        BY <3>1 DEF Track, TypeOK
      <4>2. Ids(m)' = Ids(m) \cup {i} /\ owned'[m][i] = g /\ \A k \in Ids(m) : owned'[m][k] = owned[m][k]
        BY <2>2, <4>1 DEF Put, Ids
      <4>3. JobInv'
        BY <3>1, ReturnFacts, CalmJob DEF Calm
      <4> QED
        BY <3>1, <4>1, <4>2, <4>3, ReturnFacts
    <3>2. CASE owned' = owned /\ Goto(m, "reconciling", job[m])
      BY <1>1, <3>2, GotoFacts DEF Starting, Ids
    <3> QED
      BY <1>6, <3>1, <3>2 DEF g
  <2>4. TypeOK'
    BY <1>1, <1>2, <1>3, <2>1, <2>3 DEF TypeOK, Ids, g
  <2>5. WorkersInv'
    BY <1>2 DEF WorkersInv, Exists
  <2>6. EntriesInv'
    BY <1>1, <1>2, <2>1 DEF EntriesInv, g
  <2>7. BooksInv'
    <3>1. \A k \in Ids(m) : k \in Live(doc) /\ doc.inst[k].info.gen = owned[m][k] /\ owned[m][k] \notin pend[m]
      BY DEF BooksInv
    <3>2. \A k \in Ids(m)' : /\ k \in Live(doc') /\ doc'.inst[k].info.gen = owned'[m][k]
                             /\ owned'[m][k] \notin pend[m]
      BY <1>1, <2>1, <2>3, <3>1 DEF g
    <3>3. \A h \in Tracked(m)' \cup pend[m] : worker[h].st # "none"
      BY <1>1, <1>2, <2>3 DEF Tracked, BooksInv, g
    <3> QED
      BY <1>2, <1>3, <2>3, <3>2, <3>3 DEF BooksInv, Exists
  <2>8. JobInv'
    <3>1. \A k, l \in Live(doc') : doc'.inst[k].info.gen = g /\ doc'.inst[l].info.gen = g => k = l
      BY <1>1, <2>1 DEF EntriesOf, g
    <3>2. CASE pc'[m] = "reconciling" /\ job'[m] = job[m]
      BY <1>1, <1>2, <1>3, <2>3, <3>1, <3>2, SMTT(30) DEF JobInv, Calm, Starting, Ending, Tracked, EntriesOf, g
    <3> QED
      BY <2>3, <3>2
  <2>9. NoWorkerForgotten'
    <3>1. ASSUME NEW h \in Gen, worker[h].by = m, Exists(h), ~worker[h].cut
          PROVE  h \in Tracked(m)' \/ job'[m].gen = h
      BY <1>2, <2>3, <3>1 DEF NoWorkerForgotten, Tracked, g
    <3> QED
      BY <1>2, <1>3, <3>1 DEF NoWorkerForgotten, Exists
  <2>10. EntriesKnown'
    <3>1. ASSUME NEW k \in Live(doc'), Runs(m, doc'.inst[k].info.gen)
          PROVE  LET h == doc'.inst[k].info.gen IN
                 \/ k \in Ids(m)' /\ owned'[m][k] = h
                 \/ h \in pend[m]
                 \/ pc'[m] \in Starting /\ job'[m].gen = h
      <4>1. CASE k = i
        BY <2>1, <2>3, <4>1 DEF Starting, g
      <4>2. CASE k \in Live(doc) /\ k # i
        <5>1. k \notin EntriesOf(g)
          BY <1>1 DEF g
        <5>2. doc.inst[k].info.gen # g
          BY <4>2, <5>1 DEF EntriesOf
        <5> QED
          BY <2>1, <2>3, <3>1, <4>2, <5>2 DEF EntriesKnown, g
      <4> QED
        BY <2>1, <4>1, <4>2
    <3> QED
      BY <1>2, <1>3, <3>1 DEF EntriesKnown, Runs, Exists
  <2> QED
    BY <2>4, <2>5, <2>6, <2>7, <2>8, <2>9, <2>10
<1> QED
  BY <1>5, <1>6 DEF Register, RegisterRaises, books

LEMMA ReconcileKeepsIInv ==
    ASSUME IInv, OneRouter, NEW m \in Manager, Reconcile(m)
    PROVE  IInv'
<1> USE DEF IInv
<1> DEFINE g == job[m].gen
<1>1. /\ pc[m] = "reconciling" /\ g \in Gen /\ worker[g].st # "none" /\ g \notin Tracked(m) \cup pend[m]
      /\ \A i, k \in EntriesOf(g) : i = k
      /\ Ids(m) \subseteq Id /\ job[m] \in Job /\ Live(doc) \subseteq Id
  BY DEF Reconcile, JobInv, Starting, TypeOK, Sound, IsDoc
<1>2. doc' = doc /\ worker' = worker /\ local' = local /\ pend' = pend /\ todo' = todo
  BY DEF Reconcile
<1>3. \A n \in Manager : n = m
  BY DEF OneRouter
<1>4. ASSUME NEW j \in Job, j.gen = g, j.path = job[m].path, j.back = job[m].back,
             j.unsure \/ EntriesOf(g) = {}, Goto(m, "abandoning", j), owned' = owned
      PROVE  IInv'
  <2>1. pc' \in [Manager -> Calm \cup Starting \cup Ending] /\ job' \in [Manager -> Job]
        /\ pc'[m] = "abandoning" /\ job'[m] = j
    BY <1>4, GotoFacts DEF Starting
  <2>2. UNCHANGED <<doc, worker, books>> /\ DOMAIN todo' = Manager
    BY <1>2, <1>4 DEF books, TypeOK
  <2>3. JobInv'
    BY <1>1, <1>2, <1>3, <1>4, <2>1 DEF JobInv, Calm, Starting, Ending, Tracked, Ids, EntriesOf
  <2> QED
    BY <1>1, <1>4, <2>1, <2>2, <2>3, MoveKeepsIInv DEF Starting
<1>5. ASSUME NEW i \in EntriesOf(g), Track(m, i, g), Return(m) PROVE IInv'
  <2>1. i \in Live(doc) /\ doc.inst[i].info.gen = g /\ i \in Id
    BY <1>1, <1>5 DEF EntriesOf
  <2>2. i \notin Ids(m)
    BY <1>1, <2>1 DEF BooksInv, Tracked
  <2>3. DOMAIN owned' = Manager /\ owned'[m] = Put(owned[m], i, g)
    BY <1>5 DEF Track, TypeOK
  <2>4. Ids(m)' = Ids(m) \cup {i} /\ owned'[m][i] = g /\ \A k \in Ids(m) : owned'[m][k] = owned[m][k]
    BY <2>2, <2>3 DEF Put, Ids
  <2>5. /\ pc' \in [Manager -> Calm \cup Starting \cup Ending] /\ job' \in [Manager -> Job]
        /\ pc'[m] \in {"idle", "counting", "leaving"} /\ JobInv'
    BY <1>5, ReturnFacts, CalmJob DEF Calm
  <2> HIDE DEF g
  <2>6. TypeOK'
    BY <1>1, <1>2, <1>3, <2>1, <2>3, <2>4, <2>5 DEF TypeOK, Ids
  <2>7. WorkersInv' /\ EntriesInv'
    BY <1>2 DEF WorkersInv, EntriesInv, Exists
  <2>8. BooksInv'
    <3>1. \A k \in Ids(m)' : /\ k \in Live(doc) /\ doc.inst[k].info.gen = owned'[m][k]
                             /\ owned'[m][k] \notin pend[m]
      BY <1>1, <2>1, <2>4 DEF BooksInv
    <3>2. \A h \in Tracked(m)' \cup pend[m] : worker[h].st # "none"
      BY <1>1, <1>2, <2>4 DEF Tracked, BooksInv
    <3> QED
      BY <1>2, <1>3, <2>5, <3>1, <3>2 DEF BooksInv, Exists
  <2>9. NoWorkerForgotten'
    <3>1. ASSUME NEW h \in Gen, worker[h].by = m, Exists(h), ~worker[h].cut PROVE h \in Tracked(m)'
      BY <1>2, <2>4, <3>1 DEF NoWorkerForgotten, Tracked, g
    <3> QED
      BY <1>2, <1>3, <3>1 DEF NoWorkerForgotten, Exists
  <2>10. EntriesKnown'
    <3>1. ASSUME NEW k \in Live(doc), NEW h, h = doc.inst[k].info.gen, Runs(m, h)
          PROVE  (k \in Ids(m)' /\ owned'[m][k] = h) \/ h \in pend[m]
      <4>1. CASE h = g
        BY <1>1, <2>4, <3>1, <4>1 DEF EntriesOf
      <4>2. CASE h # g
        BY <2>4, <3>1, <4>2 DEF EntriesKnown, g
      <4> QED
        BY <4>1, <4>2
    <3> QED
      BY <1>2, <1>3, <3>1 DEF EntriesKnown, Runs, Exists
  <2> QED
    BY <2>5, <2>6, <2>7, <2>8, <2>9, <2>10
<1>6. /\ [job[m] EXCEPT !.unsure = TRUE] \in Job
      /\ [job[m] EXCEPT !.unsure = TRUE].gen = g
      /\ [job[m] EXCEPT !.unsure = TRUE].path = job[m].path
      /\ [job[m] EXCEPT !.unsure = TRUE].back = job[m].back
      /\ [job[m] EXCEPT !.unsure = TRUE].unsure
  BY <1>1 DEF Job
<1>7. \/ \E i \in EntriesOf(g) : Track(m, i, g) /\ Return(m)
      \/ EntriesOf(g) = {} /\ Goto(m, "abandoning", job[m]) /\ owned' = owned
      \/ Goto(m, "abandoning", [job[m] EXCEPT !.unsure = TRUE]) /\ owned' = owned
  BY DEF Reconcile
<1> QED
  BY <1>1, <1>4, <1>5, <1>6, <1>7
-----------------------------------------------------------------------------
(* The end of sessions. *)

\* A step outside of a start that may stop a worker and drop it from the books.
LEMMA DropKeepsIInv ==
    ASSUME IInv, OneRouter, NEW m \in Manager, pc[m] \notin Starting, doc' = doc,
           worker' \in [Gen -> Worker], Fades, DOMAIN owned' = Manager, DOMAIN todo' = Manager,
           Ids(m)' \subseteq Ids(m), \A i \in Ids(m)' : owned'[m][i] = owned[m][i],
           local' \in [Manager -> SUBSET Gen], local'[m] \subseteq local[m],
           pend' \in [Manager -> SUBSET Gen], pend'[m] \subseteq pend[m],
           pc' \in [Manager -> Calm \cup Starting \cup Ending], job' \in [Manager -> Job], JobInv',
           pc'[m] \notin {"down", "sweeping", "expiring"},
           \A g \in Gen : Exists(g)' =>
              /\ \A i \in Ids(m) : owned[m][i] = g => i \in Ids(m)'
              /\ g \in local[m] => g \in local'[m]
              /\ g \in pend[m] => g \in pend'[m] \/ EntriesOf(g) = {}
    PROVE  IInv'
<1>1. \A n \in Manager : n = m
  BY DEF OneRouter
<1>2. TypeOK'
  BY <1>1 DEF IInv, TypeOK, Ids
<1>3. \A g \in Gen : Exists(g)' => Exists(g)
  BY DEF Fades, Exists
<1>4. \A g \in pend'[m] : g \in local'[m] \/ ~Exists(g)'
  BY <1>3 DEF IInv, BooksInv, TypeOK
<1>5. \A g \in Gen : Runs(m, g)' => Exists(g)'
  BY DEF Runs
<1>6. \A i \in Ids(m) : i \in Live(doc)
  BY DEF IInv, BooksInv
<1> QED
  BY <1>2, <1>4, <1>5, <1>6, StepKeepsIInv, ManagerAssumption

\* A step that goes back to waiting for calls, or to the next session to close.
LEMMA BackFacts ==
    ASSUME IInv, OneRouter, NEW m \in Manager, NEW back \in {"idle", "leaving"},
           Goto(m, back, NoJob) \/ (Goto(m, back, job[m]) /\ pc[m] = back)
    PROVE  /\ pc' \in [Manager -> Calm \cup Starting \cup Ending] /\ job' \in [Manager -> Job]
           /\ pc'[m] = back /\ JobInv'
<1>1. NoJob \in Job /\ NoJob.gen = 0 /\ NoJob.back = "idle" /\ job[m] \in Job
  BY DEF NoJob, Job, IInv, TypeOK
<1>2. pc' \in [Manager -> Calm \cup Starting \cup Ending] /\ job' \in [Manager -> Job]
      /\ pc'[m] = back /\ (job'[m] = NoJob \/ (job'[m] = job[m] /\ pc[m] = back))
  <2>1. TypeOK /\ back \in Calm
    BY DEF IInv, Calm
  <2>2. CASE Goto(m, back, NoJob)
    BY <1>1, <2>1, <2>2, GotoFacts
  <2>3. CASE Goto(m, back, job[m]) /\ pc[m] = back
    BY <1>1, <2>1, <2>3, GotoFacts
  <2> QED
    BY <2>2, <2>3
<1>3. job'[m].gen = 0 /\ (job'[m].back = "counting" => job'[m].path \in Path)
  BY <1>1, <1>2 DEF IInv, JobInv, Calm
<1> QED
  BY <1>2, <1>3, CalmJob DEF Calm

LEMMA ReleaseFacts ==
    ASSUME TypeOK, NEW m \in Manager, NEW i, Release(m, i)
    PROVE  /\ DOMAIN owned' = Manager /\ Ids(m)' = Ids(m) \ {i}
           /\ \A k \in Ids(m)' : owned'[m][k] = owned[m][k]
<1>1. DOMAIN owned' = Manager /\ owned'[m] = Restrict(owned[m], DOMAIN owned[m] \ {i})
  BY DEF Release, TypeOK
<1> QED
  BY <1>1 DEF Ids, Restrict

LEMMA CloseOwnedKeepsIInv ==
    ASSUME IInv, OneRouter, NEW m \in Manager, pc[m] \in {"idle", "leaving"}, DOMAIN todo' = Manager,
           NEW i \in Ids(m), CloseOwned(m, i, owned[m][i], pc[m])
    PROVE  IInv'
<1> USE DEF IInv
<1> DEFINE g == owned[m][i]
<1>1. g \in Gen /\ worker[g].st # "none" /\ i \in Id /\ doc' = doc /\ local' = local /\ pend' = pend
  BY DEF CloseOwned, TypeOK, BooksInv, Tracked
<1>2. pc[m] \notin Starting /\ local \in [Manager -> SUBSET Gen] /\ pend \in [Manager -> SUBSET Gen]
  BY DEF Starting, TypeOK
<1>3. CASE StopConfirmed(g) /\ Release(m, i) /\ Enter(m, "unregistering", i, g, pc[m])
  <2>1. worker' \in [Gen -> Worker] /\ Fades /\ worker'[g].st = "gone"
    BY <1>1, <1>3, StopFacts
  <2>2. DOMAIN owned' = Manager /\ Ids(m)' = Ids(m) \ {i} /\ \A k \in Ids(m)' : owned'[m][k] = owned[m][k]
    BY <1>3, ReleaseFacts
  <2>3. /\ pc' \in [Manager -> Calm \cup Starting \cup Ending] /\ job' \in [Manager -> Job]
        /\ pc'[m] = "unregistering" /\ job'[m].gen = g /\ job'[m].id = i /\ job'[m].back = pc[m]
    BY <1>1, <1>3, EnterFacts DEF Ending
  <2> HIDE DEF g
  <2>4. \A h \in Gen : Exists(h)' => h # g
    BY <2>1 DEF Exists
  <2>5. JobInv'
    BY <1>1, <2>2, <2>3, <2>4, EndingJob DEF Ending
  <2>6. \A h \in Gen : Exists(h)' => \A k \in Ids(m) : owned[m][k] = h => k \in Ids(m)'
    BY <2>2, <2>4 DEF g
  <2> QED
    BY <1>1, <1>2, <2>1, <2>2, <2>3, <2>5, <2>6, DropKeepsIInv
<1>4. CASE StopUnconfirmed(g) /\ UNCHANGED owned /\ Goto(m, pc[m], NoJob)
  <2>1. worker' \in [Gen -> Worker] /\ Fades /\ Ids(m)' = Ids(m) /\ DOMAIN owned' = Manager
    BY <1>1, <1>4, StopFacts DEF Ids, TypeOK
  <2> HIDE DEF g
  <2>2. /\ pc' \in [Manager -> Calm \cup Starting \cup Ending] /\ job' \in [Manager -> Job]
        /\ pc'[m] = pc[m] /\ JobInv'
    BY <1>4, BackFacts
  <2> QED
    BY <1>1, <1>2, <1>4, <2>1, <2>2, DropKeepsIInv
<1> QED
  BY <1>3, <1>4 DEF CloseOwned

\* After a worker kept under a cleanup id has ended.
LEMMA AfterStopFacts ==
    ASSUME IInv, OneRouter, NEW m \in Manager, pc[m] \in {"idle", "counting", "leaving"}, NEW g \in Gen, ~Exists(g)',
           pend' = pend, AfterStop(m, g, pc[m])
    PROVE  /\ pc' \in [Manager -> Calm \cup Starting \cup Ending] /\ job' \in [Manager -> Job]
           /\ pc'[m] \notin {"down", "sweeping", "expiring"} /\ JobInv'
<1> USE DEF IInv
<1>1. job[m] \in Job
  BY DEF TypeOK
<1>2. job[m].gen = 0 /\ (pc[m] \in {"counting", "spawning"} \/ job[m].back = "counting" => job[m].path \in Path)
  BY DEF JobInv, Calm
<1>3. CASE g \in pend[m]
  <2>1. Enter(m, "settling", None, g, pc[m])
    BY <1>3 DEF AfterStop
  <2>2. /\ pc' \in [Manager -> Calm \cup Starting \cup Ending] /\ job' \in [Manager -> Job]
        /\ pc'[m] = "settling" /\ job'[m].gen = g /\ job'[m].back = pc[m] /\ job'[m].path = job[m].path
    BY <2>1, EnterFacts DEF Ending
  <2>3. JobInv'
    BY <1>2, <1>3, <2>2, EndingJob DEF Ending
  <2> QED
    BY <2>2, <2>3
<1>4. CASE g \notin pend[m]
  <2>1. /\ pc' \in [Manager -> Calm \cup Starting \cup Ending] /\ job' \in [Manager -> Job]
        /\ pc'[m] = pc[m] /\ job'[m] = job[m]
    BY <1>1, <1>4, GotoFacts DEF AfterStop, Calm
  <2>2. JobInv'
    BY <1>2, <2>1, CalmJob DEF Calm
  <2> QED
    BY <2>1, <2>2
<1> QED
  BY <1>3, <1>4

LEMMA CloseCleanupKeepsIInv ==
    ASSUME IInv, OneRouter, NEW m \in Manager, pc[m] \in {"idle", "leaving"}, DOMAIN todo' = Manager,
           NEW g, CloseCleanup(m, g, pc[m])
    PROVE  IInv'
<1> USE DEF IInv
<1>1. g \in Gen /\ worker[g].st # "none" /\ doc' = doc /\ owned' = owned /\ pend' = pend
  BY DEF CloseCleanup, TypeOK, BooksInv, Tracked
<1>2. pc[m] \notin Starting /\ pend \in [Manager -> SUBSET Gen] /\ local \in [Manager -> SUBSET Gen]
      /\ worker \in [Gen -> Worker] /\ Ids(m)' = Ids(m) /\ DOMAIN owned' = Manager
  BY <1>1 DEF Starting, TypeOK, Ids
<1>3. CASE /\ IF g \in local[m] THEN StopConfirmed(g) ELSE UNCHANGED worker
           /\ local' = [local EXCEPT ![m] = @ \ {g}]
           /\ AfterStop(m, g, pc[m])
  <2>1. worker' \in [Gen -> Worker] /\ Fades /\ ~Exists(g)'
    <3>1. CASE g \in local[m]
      BY <1>1, <1>3, <3>1, StopFacts DEF Exists
    <3>2. CASE g \notin local[m]
      <4>1. worker' = worker /\ ~Exists(g)
        BY <1>3, <3>2 DEF CloseCleanup, BooksInv
      <4> QED
        BY <1>2, <4>1 DEF Fades, Exists
    <3> QED
      BY <3>1, <3>2
  <2>2. local' \in [Manager -> SUBSET Gen] /\ local'[m] = local[m] \ {g}
    BY <1>2, <1>3
  <2>3. /\ pc' \in [Manager -> Calm \cup Starting \cup Ending] /\ job' \in [Manager -> Job]
        /\ pc'[m] \notin {"down", "sweeping", "expiring"} /\ JobInv'
    BY <1>1, <1>3, <2>1, AfterStopFacts
  <2>4. \A h \in Gen : Exists(h)' /\ h \in local[m] => h \in local'[m]
    BY <2>1, <2>2
  <2> QED
    BY <1>1, <1>2, <2>1, <2>2, <2>3, <2>4, DropKeepsIInv
<1>4. CASE StopUnconfirmed(g) /\ UNCHANGED local /\ Goto(m, pc[m], NoJob)
  <2>1. worker' \in [Gen -> Worker] /\ Fades
    BY <1>1, <1>4, StopFacts
  <2>2. /\ pc' \in [Manager -> Calm \cup Starting \cup Ending] /\ job' \in [Manager -> Job]
        /\ pc'[m] = pc[m] /\ JobInv'
    BY <1>4, BackFacts
  <2> QED
    BY <1>1, <1>2, <1>4, <2>1, <2>2, DropKeepsIInv
<1> QED
  BY <1>3, <1>4 DEF CloseCleanup

\* The entry of a process that is gone is of a worker that has ended.
LEMMA GoneEnded ==
    ASSUME IInv, NEW g \in Gen, worker[g].st # "none", ~IsProcessAlive(worker[g].pid)
    PROVE  ~Exists(g)
BY DEF IsProcessAlive

LEMMA CloseForeignKeepsIInv ==
    ASSUME IInv, OneRouter, NEW m \in Manager, pc[m] = "idle", DOMAIN todo' = Manager, NEW i \in Id, CloseForeign(m, i)
    PROVE  IInv'
<1> USE DEF IInv
<1> DEFINE g == doc.inst[i].info.gen
<1>1. i \in Live(doc) \ Ids(m) /\ ~IsProcessAlive(doc.inst[i].info.pid)
      /\ Enter(m, "unregistering", i, g, "idle") /\ UNCHANGED <<doc, worker, books>>
  BY DEF CloseForeign
<1>2. g \in Gen /\ worker[g].st # "none" /\ worker[g].pid = doc.inst[i].info.pid
  BY <1>1, ManagerAssumption DEF TypeOK, Sound, IsDoc, Entry, EntriesInv
<1>3. /\ pc' \in [Manager -> Calm \cup Starting \cup Ending] /\ job' \in [Manager -> Job]
      /\ pc'[m] = "unregistering" /\ job'[m].gen = g /\ job'[m].id = i /\ job'[m].back = "idle"
  BY <1>1, <1>2, EnterFacts DEF Ending
<1> HIDE DEF g
<1>4. \A h \in Gen : h = g => ~Exists(h)'
  BY <1>1, <1>2, GoneEnded DEF Exists
<1>5. Ids(m)' = Ids(m)
  BY <1>1 DEF Ids, books
<1>6. JobInv'
  BY <1>1, <1>2, <1>3, <1>4, <1>5, EndingJob DEF Ending
<1> QED
  BY <1>1, <1>3, <1>6, MoveKeepsIInv DEF Starting

LEMMA NoticeDeadKeepsIInv ==
    ASSUME IInv, OneRouter, NEW m \in Manager, pc[m] \in {"idle", "counting"}, NEW g \in Gen, NoticeDead(m, g)
    PROVE  IInv'
<1> USE DEF IInv
<1>1. doc' = doc /\ worker' = worker /\ pend' = pend /\ DOMAIN todo' = Manager
  BY DEF NoticeDead, TypeOK
<1>2. g \in Tracked(m) /\ ~Exists(g) /\ ~Exists(g)'
  BY <1>1 DEF NoticeDead, IsProcessAlive, Exists, Tracked
<1>3. pc[m] \notin Starting /\ pend \in [Manager -> SUBSET Gen] /\ local \in [Manager -> SUBSET Gen]
      /\ worker' \in [Gen -> Worker] /\ Fades
  BY <1>1 DEF Starting, TypeOK, Fades
<1>4. job[m].path \in Path \/ (pc[m] # "counting" /\ job[m].back # "counting")
  BY DEF JobInv
<1>5. ASSUME NEW i \in Ids(m), owned[m][i] = g, Release(m, i), UNCHANGED local, Enter(m, "unregistering", i, g, pc[m])
      PROVE  IInv'
  <2>1. i \in Id
    BY DEF TypeOK
  <2>2. DOMAIN owned' = Manager /\ Ids(m)' = Ids(m) \ {i} /\ \A k \in Ids(m)' : owned'[m][k] = owned[m][k]
    BY <1>5, ReleaseFacts
  <2>3. /\ pc' \in [Manager -> Calm \cup Starting \cup Ending] /\ job' \in [Manager -> Job]
        /\ pc'[m] = "unregistering" /\ job'[m].gen = g /\ job'[m].id = i /\ job'[m].back = pc[m]
        /\ job'[m].path = job[m].path
    BY <1>5, <2>1, EnterFacts DEF Ending
  <2>4. JobInv'
    BY <1>2, <1>4, <2>2, <2>3, EndingJob DEF Ending
  <2>5. \A h \in Gen : Exists(h)' => \A k \in Ids(m) : owned[m][k] = h => k \in Ids(m)'
    BY <1>2, <1>5, <2>2
  <2> QED
    BY <1>1, <1>3, <1>5, <2>2, <2>3, <2>4, <2>5, DropKeepsIInv
<1>6. CASE UNCHANGED owned /\ local' = [local EXCEPT ![m] = @ \ {g}] /\ AfterStop(m, g, pc[m])
  <2>1. local' \in [Manager -> SUBSET Gen] /\ local'[m] = local[m] \ {g}
        /\ DOMAIN owned' = Manager /\ Ids(m)' = Ids(m)
    BY <1>3, <1>6 DEF TypeOK, Ids
  <2>2. /\ pc' \in [Manager -> Calm \cup Starting \cup Ending] /\ job' \in [Manager -> Job]
        /\ pc'[m] \notin {"down", "sweeping", "expiring"} /\ JobInv'
    BY <1>1, <1>2, <1>6, AfterStopFacts
  <2>3. \A h \in Gen : Exists(h)' /\ h \in local[m] => h \in local'[m]
    BY <1>2, <2>1
  <2> QED
    BY <1>1, <1>3, <1>6, <2>1, <2>2, <2>3, DropKeepsIInv
<1> QED
  BY <1>5, <1>6 DEF NoticeDead

LEMMA SettleKeepsIInv ==
    ASSUME IInv, OneRouter, NEW m \in Manager, Settle(m)
    PROVE  IInv'
<1> USE DEF IInv
<1> DEFINE g == job[m].gen
<1>1. /\ pc[m] = "settling" /\ g \in Gen /\ ~Exists(g) /\ g \in pend[m]
      /\ job[m].back \in {"idle", "counting", "leaving"} /\ (job[m].back = "counting" => job[m].path \in Path)
      /\ pc[m] \notin Starting /\ DOMAIN todo = Manager /\ DOMAIN owned = Manager
  BY DEF Settle, JobInv, Ending, Starting, TypeOK, Job
<1>2. doc' = doc /\ worker' = worker /\ owned' = owned /\ local' = local /\ todo' = todo
  BY DEF Settle
<1>3. Ids(m)' = Ids(m) /\ Fades /\ worker' \in [Gen -> Worker] /\ local' \in [Manager -> SUBSET Gen]
      /\ \A h \in Gen : Exists(h)' => Exists(h)
  BY <1>2 DEF Ids, Fades, TypeOK, Exists
<1>4. ASSUME NEW i \in EntriesOf(g), Enter(m, "unregistering", i, g, job[m].back), UNCHANGED pend PROVE IInv'
  <2>1. i \in Id /\ i \notin Ids(m)
    BY <1>1, <1>4 DEF EntriesOf, TypeOK, Sound, IsDoc, BooksInv
  <2>2. /\ pc' \in [Manager -> Calm \cup Starting \cup Ending] /\ job' \in [Manager -> Job]
        /\ pc'[m] = "unregistering" /\ job'[m].gen = g /\ job'[m].id = i /\ job'[m].back = job[m].back
        /\ job'[m].path = job[m].path
    BY <1>1, <1>4, <2>1, EnterFacts DEF Ending
  <2> HIDE DEF g
  <2>3. \A h \in Gen : h = g => ~Exists(h)'
    BY <1>1, <1>3
  <2>4. JobInv'
    BY <1>1, <1>3, <2>1, <2>2, <2>3, EndingJob DEF Ending
  <2> QED
    BY <1>1, <1>2, <1>4, <2>2, <2>4, MoveKeepsIInv DEF books
<1>5. ASSUME Return(m), pend' \in [Manager -> SUBSET Gen], pend'[m] \subseteq pend[m],
             \A h \in pend[m] : h \in pend'[m] \/ h = g
      PROVE  IInv'
  <2>1. /\ pc' \in [Manager -> Calm \cup Starting \cup Ending] /\ job' \in [Manager -> Job]
        /\ pc'[m] \notin {"down", "sweeping", "expiring"} /\ JobInv'
    BY <1>5, ReturnFacts, CalmJob DEF Calm
  <2> HIDE DEF g
  <2>2. \A h \in Gen : Exists(h)' /\ h \in pend[m] => h \in pend'[m]
    BY <1>1, <1>3, <1>5
  <2> QED
    BY <1>1, <1>2, <1>3, <1>5, <2>1, <2>2, DropKeepsIInv
<1>6. pend \in [Manager -> SUBSET Gen]
  BY DEF TypeOK
<1>7. CASE Return(m) /\ (UNCHANGED pend \/ pend' = [pend EXCEPT ![m] = @ \ {g}])
  BY <1>5, <1>6, <1>7
<1> QED
  BY <1>4, <1>7 DEF Settle

LEMMA UnregisterKeepsIInv ==
    ASSUME IInv, OneRouter, NEW m \in Manager, Unregister(m)
    PROVE  IInv'
<1> USE DEF IInv
<1> DEFINE g == job[m].gen
<1>1. /\ pc[m] = "unregistering" /\ g \in Gen /\ ~Exists(g) /\ job[m].id \notin Ids(m)
      /\ pc[m] \notin Starting /\ pend \in [Manager -> SUBSET Gen]
  BY DEF Unregister, JobInv, Ending, Starting, TypeOK
<1>2. worker' = worker /\ owned' = owned /\ local' = local /\ todo' = todo /\ Return(m)
  BY DEF Unregister
<1>3. Ids(m)' = Ids(m) /\ Fades /\ \A h \in Gen : Exists(h)' => Exists(h)
  BY <1>2 DEF Ids, Fades, Exists
<1>4. /\ Sound(doc') /\ Live(doc') \subseteq Live(doc) /\ Live(doc) \ {job[m].id} \subseteq Live(doc')
      /\ \A i \in Live(doc') : doc'.inst[i].info = doc.inst[i].info
  <2>1. Sound(doc)
    BY DEF TypeOK
  <2>2. CASE doc' = doc
    BY <2>1, <2>2
  <2>3. CASE doc' = UnregisteredIfOwner(doc, job[m].id, g)
    BY <2>1, <2>3, RemovedSound DEF UnregisteredIfOwner
  <2> QED
    BY <2>2, <2>3 DEF Unregister
<1>5. /\ pend' \in [Manager -> SUBSET Gen] /\ pend'[m] \subseteq pend[m]
      /\ \A h \in pend[m] : h \in pend'[m] \/ h = g
  BY <1>1 DEF Unregister
<1>6. /\ pc' \in [Manager -> Calm \cup Starting \cup Ending] /\ job' \in [Manager -> Job]
      /\ pc'[m] \in {"idle", "counting", "leaving"} /\ JobInv'
  BY <1>2, ReturnFacts, CalmJob DEF Calm
<1> HIDE DEF g
<1>7. \A n \in Manager : n = m
  BY DEF OneRouter
<1>8. TypeOK'
  BY <1>2, <1>4, <1>5, <1>6, <1>7 DEF TypeOK, Ids
<1>9. \A i \in Ids(m)' : owned'[m][i] = owned[m][i] /\ i \in Live(doc')
  BY <1>1, <1>2, <1>3, <1>4 DEF BooksInv
<1>10. \A h \in pend'[m] : h \in local'[m] \/ ~Exists(h)'
  BY <1>2, <1>3, <1>5 DEF BooksInv, TypeOK
<1>11. \A h \in Gen : Runs(m, h)' => h # g
  BY <1>1, <1>3 DEF Runs
<1> QED
  BY <1>1, <1>2, <1>3, <1>4, <1>5, <1>6, <1>8, <1>9, <1>10, <1>11, StepKeepsIInv, ManagerAssumption

\* A router that is gone is the parent of no worker.
LEMMA VanishFacts ==
    ASSUME TypeOK, NEW m \in Manager, Vanish(m)
    PROVE  worker' \in [Gen -> Worker] /\ Fades /\ \A g \in Gen : worker'[g].by # m
<1>0. None \notin Manager
  BY ManagerAssumption
<1>1. \A g \in Gen : worker'[g] = IF worker[g].by # m THEN worker[g]
                                  ELSE [worker[g] EXCEPT !.by = None, !.cut = FALSE,
                                                         !.st = IF @ = "zombie" THEN "gone" ELSE @]
  BY DEF Vanish
<1>2. \A g \in Gen : worker[g] \in Worker
  BY DEF TypeOK
<1>3. \A g \in Gen : worker'[g] \in Worker /\ worker'[g].by # m
  <2> SUFFICES ASSUME NEW g \in Gen PROVE worker'[g] \in Worker /\ worker'[g].by # m
    OBVIOUS
  <2> DEFINE st == IF worker[g].st = "zombie" THEN "gone" ELSE worker[g].st
  <2>1. st \in States
    BY <1>2 DEF Worker, States
  <2>2. CASE worker[g].by # m
    BY <1>1, <1>2, <2>2
  <2>3. CASE worker[g].by = m
    <3>1. worker'[g] = [worker[g] EXCEPT !.by = None, !.cut = FALSE, !.st = st]
      BY <1>1, <2>3 DEF Worker
    <3> HIDE DEF st
    <3>2. worker'[g] \in Worker /\ worker'[g].by = None
      BY <1>2, <2>1, <3>1 DEF Worker
    <3> QED
      BY <1>0, <3>2
  <2> QED
    BY <2>2, <2>3
<1>4. Fades
  BY <1>1, <1>2 DEF Fades, Worker
<1> QED
  BY <1>3, <1>4 DEF Vanish

LEMMA VanishKeepsIInv ==
    ASSUME IInv, OneRouter, NEW m \in Manager, Vanish(m)
    PROVE  IInv'
<1> USE DEF IInv
<1>0. None \notin Manager
  BY ManagerAssumption
<1>1. worker' \in [Gen -> Worker] /\ Fades /\ \A g \in Gen : worker'[g].by # m
  BY VanishFacts
<1>2. Ids(m)' = {} /\ DOMAIN owned' = Manager /\ DOMAIN todo' = Manager /\ doc' = doc
  <2>1. DOMAIN << >> = {}
    OBVIOUS
  <2> QED
    BY <2>1 DEF Vanish, TypeOK, Ids
<1>3. local' \in [Manager -> SUBSET Gen] /\ local'[m] = {} /\ pend' \in [Manager -> SUBSET Gen] /\ pend'[m] = {}
  BY DEF Vanish, TypeOK
<1>4. NoJob \in Job /\ NoJob.gen = 0 /\ NoJob.back = "idle"
  BY DEF NoJob, Job
<1>5. /\ pc' \in [Manager -> Calm \cup Starting \cup Ending] /\ job' \in [Manager -> Job]
      /\ pc'[m] = "down" /\ job'[m] = NoJob
  BY <1>4, GotoFacts DEF Vanish, Calm
<1>6. JobInv'
  BY <1>4, <1>5, CalmJob DEF Calm
<1>7. \A n \in Manager : n = m
  BY DEF OneRouter
<1>8. TypeOK'
  BY <1>1, <1>2, <1>3, <1>5, <1>7 DEF TypeOK
<1>9. \A g \in Gen : ~Runs(m, g)'
  BY <1>1 DEF Runs
<1> QED
  BY <1>0, <1>1, <1>2, <1>3, <1>6, <1>8, <1>9, StepKeepsIInv

\* What an interrupt leaves: the books, and no job; a worker it cut short is not
\* answered for any more, registered or not.
LEMMA InterruptFacts ==
    ASSUME TypeOK, NEW m \in Manager, Interrupt(m),
           pc[m] \in Starting => job[m].gen \in Gen
    PROVE  /\ worker' \in [Gen -> Worker] /\ UNCHANGED <<owned, local, pend>>
           /\ pc' \in [Manager -> Calm \cup Starting \cup Ending] /\ job' \in [Manager -> Job]
           /\ pc'[m] = "leaving" /\ job'[m] = NoJob /\ Went(m)
           /\ todo'[m] = Held(m) /\ DOMAIN todo' = Manager /\ \A n \in Manager \ {m} : todo'[n] = todo[n]
           /\ \A g \in Gen :
                 /\ worker'[g].st = worker[g].st /\ worker'[g].pid = worker[g].pid
                 /\ worker'[g].path = worker[g].path /\ worker'[g].by = worker[g].by
                 /\ worker[g].cut => worker'[g].cut
           /\ pc[m] \in Starting => worker'[job[m].gen].cut
<1>1. NoJob \in Job
  BY DEF NoJob, Job
<1>2. Went(m) /\ pc'[m] = "leaving" /\ job'[m] = NoJob
  BY <1>1, GotoWent DEF Interrupt, Calm
<1>3. pc \in [Manager -> Calm \cup Starting \cup Ending] /\ worker \in [Gen -> Worker]
  BY DEF TypeOK
<1>4. CASE pc[m] \in Starting
  <2>1. worker' = [worker EXCEPT ![job[m].gen] = [worker[job[m].gen] EXCEPT !.cut = TRUE]]
    BY <1>4 DEF Interrupt, Starting
  <2>2. [worker[job[m].gen] EXCEPT !.cut = TRUE] \in Worker
    BY <1>3, <1>4 DEF Worker
  <2>3. /\ worker' \in [Gen -> Worker] /\ worker'[job[m].gen].cut
        /\ \A g \in Gen :
              /\ worker'[g].st = worker[g].st /\ worker'[g].pid = worker[g].pid
              /\ worker'[g].path = worker[g].path /\ worker'[g].by = worker[g].by
              /\ worker[g].cut => worker'[g].cut
    BY <1>3, <1>4, <2>1, <2>2 DEF Worker
  <2> QED
    BY <1>2, <1>4, <2>3 DEF Interrupt, Went, books, TypeOK
<1>5. CASE pc[m] \notin Starting
  <2>1. worker' = worker
    BY <1>5 DEF Interrupt, Starting
  <2> QED
    BY <1>2, <1>3, <1>5, <2>1 DEF Interrupt, Went, books, TypeOK
<1> QED
  BY <1>4, <1>5

LEMMA InterruptKeepsIInv ==
    ASSUME IInv, OneRouter, NEW m \in Manager, Interrupt(m)
    PROVE  IInv'
<1> USE DEF IInv
<1>0. pc[m] \in Starting => job[m].gen \in Gen /\ worker[job[m].gen].st # "none"
  BY DEF JobInv
<1>1. /\ worker' \in [Gen -> Worker] /\ owned' = owned /\ local' = local /\ pend' = pend
      /\ pc' \in [Manager -> Calm \cup Starting \cup Ending] /\ job' \in [Manager -> Job]
      /\ pc'[m] = "leaving" /\ job'[m] = NoJob /\ DOMAIN todo' = Manager
  BY <1>0, InterruptFacts
<1>2. \A g \in Gen :
        /\ worker'[g].st = worker[g].st /\ worker'[g].pid = worker[g].pid
        /\ worker'[g].path = worker[g].path /\ worker'[g].by = worker[g].by
        /\ (Exists(g)' <=> Exists(g)) /\ (Runs(m, g)' => Runs(m, g))
        /\ pc[m] \in Starting /\ g = job[m].gen => ~Runs(m, g)'
  BY <1>0, InterruptFacts DEF Exists, Runs
<1>3. /\ Sound(doc') /\ Live(doc) \subseteq Live(doc')
      /\ \A i \in Live(doc) : doc'.inst[i].info = doc.inst[i].info
      /\ \A i \in Live(doc') \ Live(doc) :
            /\ pc[m] \in Starting /\ doc'.inst[i].info.gen = job[m].gen
            /\ doc'.inst[i].info.pid = worker[job[m].gen].pid
  <2>1. CASE UNCHANGED doc
    BY <2>1 DEF TypeOK
  <2>2. ASSUME NEW i \in Id, pc[m] = "registering", Commit(job[m].gen, i) PROVE <1>3!:
    BY <1>0, <2>2, CommitFacts DEF Starting
  <2> QED
    BY <2>1, <2>2 DEF Interrupt
<1>4. \A n \in Manager : n = m
  BY DEF OneRouter
<1>5. \A i \in Live(doc) : doc.inst[i].info.gen \in Gen
  BY ManagerAssumption DEF TypeOK, Sound, IsDoc, Entry
<1>6. TypeOK'
  BY <1>1, <1>3, <1>4 DEF TypeOK, Ids
<1>7. WorkersInv' /\ EntriesInv'
  BY <1>0, <1>2, <1>3, <1>5 DEF WorkersInv, EntriesInv
<1>8. Tracked(m) \cup pend[m] \subseteq Gen /\ Tracked(m)' = Tracked(m) /\ Ids(m)' = Ids(m)
  BY <1>1 DEF TypeOK, Tracked, Ids
<1>9. BooksInv'
  BY <1>1, <1>2, <1>3, <1>4, <1>8 DEF BooksInv
<1>10. JobInv'
  BY <1>1, CalmJob DEF Calm, NoJob
<1>11. NoWorkerForgotten'
  <2>1. 0 \notin Gen /\ pc[m] \in Calm \cup Starting \cup Ending
    BY ManagerAssumption DEF TypeOK
  <2>2. ASSUME NEW g \in Gen, Runs(m, g)' PROVE g \in Tracked(m)'
    <3>1. Runs(m, g) /\ Exists(g)
      BY <1>2, <2>2 DEF Runs
    <3>2. job[m].gen # g
      BY <1>2, <2>1, <2>2, <3>1 DEF JobInv
    <3> QED
      BY <1>8, <3>1, <3>2 DEF NoWorkerForgotten, Runs
  <2>3. ASSUME NEW g \in Gen, worker'[g].by = m, Exists(g)', ~worker'[g].cut PROVE g \in Tracked(m)'
    BY <2>2, <2>3 DEF Runs
  <2> QED
    BY <1>4, <2>3 DEF NoWorkerForgotten
<1>12. EntriesKnown'
  <2>1. \A i \in Live(doc') : doc'.inst[i].info.gen \in Gen
    BY ManagerAssumption, <1>3 DEF Sound, IsDoc, Entry
  <2>2. ASSUME NEW i \in Live(doc'), NEW g \in Gen, g = doc'.inst[i].info.gen, Runs(m, g)'
        PROVE  (i \in Ids(m) /\ owned[m][i] = g) \/ g \in pend[m]
    <3>1. i \in Live(doc) /\ doc.inst[i].info.gen = g /\ Runs(m, g) /\ ~(pc[m] \in Starting /\ job[m].gen = g)
      BY <1>0, <1>2, <1>3, <2>2
    <3> QED
      BY <3>1 DEF EntriesKnown
  <2> QED
    BY <1>1, <1>4, <1>8, <2>1, <2>2 DEF EntriesKnown
<1> QED
  BY <1>6, <1>7, <1>9, <1>10, <1>11, <1>12

LEMMA WorkerKeepsIInv ==
    ASSUME IInv, NEW g \in Gen, BecomeReady(g) \/ WorkerExits(g)
    PROVE  IInv'
<1> USE DEF IInv
<1>1. UNCHANGED <<doc, owned, local, pend, pc, job, todo>>
  BY DEF BecomeReady, WorkerExits, books
<1>2. worker' \in [Gen -> Worker] /\ Fades
  BY BecomeFades DEF BecomeReady, WorkerExits, States
<1>3. worker' \in [Gen -> Worker] /\ \A h \in Gen :
        /\ Exists(h)' => Exists(h)
        /\ worker'[h].pid = worker[h].pid /\ worker'[h].path = worker[h].path
        /\ worker'[h].st = "none" <=> worker[h].st = "none"
  BY <1>2 DEF Fades, Exists
<1>4. \A h \in Gen, m \in Manager : worker'[h].by = m => worker[h].by = m /\ worker'[h].cut = worker[h].cut
  BY <1>2, ManagerAssumption DEF Fades
<1>5. TypeOK'
  BY <1>1, <1>3 DEF TypeOK, Ids
<1>6. WorkersInv'
  BY <1>3 DEF WorkersInv
<1>7. \A i \in Live(doc) : doc.inst[i].info.gen \in Gen
  BY ManagerAssumption DEF TypeOK, Sound, IsDoc, Entry
<1>8. EntriesInv'
  BY <1>1, <1>3, <1>7 DEF EntriesInv
<1>9. \A m \in Manager : Tracked(m) \cup pend[m] \subseteq Gen
  BY DEF TypeOK, Tracked
<1>10. BooksInv'
  BY <1>1, <1>3, <1>9 DEF BooksInv, Tracked, Ids
<1>11. JobInv'
  BY <1>1, <1>3 DEF JobInv, Tracked, Ids, EntriesOf
<1>12. NoWorkerForgotten'
  BY <1>1, <1>3, <1>4 DEF NoWorkerForgotten, Tracked, Ids
<1>13. EntriesKnown'
  BY <1>1, <1>3, <1>4, <1>7 DEF EntriesKnown, Runs, Ids
<1> QED
  BY <1>5, <1>6, <1>8, <1>10, <1>11, <1>12, <1>13

LEMMA NextIInv == OneRouter /\ IInv /\ [Next]_vars => IInv'
<1> SUFFICES ASSUME OneRouter, IInv, [Next]_vars PROVE IInv'
  OBVIOUS
<1>1. DOMAIN todo = Manager
  BY DEF IInv, TypeOK
<1>2. ASSUME NEW m \in Manager, Close(m) PROVE IInv'
  <2>1. pc[m] = "idle" /\ DOMAIN todo' = Manager
    BY <1>1, <1>2 DEF Close
  <2> QED
    BY <1>2, <2>1, CloseOwnedKeepsIInv, CloseCleanupKeepsIInv, CloseForeignKeepsIInv DEF Close
<1>3. ASSUME NEW m \in Manager, CloseNext(m) PROVE IInv'
  <2>1. pc[m] = "leaving" /\ DOMAIN todo' = Manager
    BY <1>1, <1>3 DEF CloseNext
  <2>2. PICK e \in todo[m] : CloseOwned(m, e[1], e[2], "leaving") \/ CloseCleanup(m, e[2], "leaving")
    BY <1>3 DEF CloseNext
  <2>3. CASE CloseOwned(m, e[1], e[2], "leaving")
    <3>1. e[1] \in Ids(m) /\ owned[m][e[1]] = e[2]
      BY <2>3 DEF CloseOwned
    <3> QED
      BY <2>1, <2>3, <3>1, CloseOwnedKeepsIInv
  <2>4. CASE CloseCleanup(m, e[2], "leaving")
    BY <2>1, <2>4, CloseCleanupKeepsIInv
  <2> QED
    BY <2>2, <2>3, <2>4
<1>4. ASSUME NEW m \in Manager, Call(m) PROVE IInv'
  BY <1>2, <1>4, SweepKeepsIInv, MovesKeepIInv, NoticeDeadKeepsIInv DEF Call
<1>5. ASSUME NEW m \in Manager, Step(m) PROVE IInv'
  BY <1>3, <1>5, SweepKeepsIInv, ShrinkKeepsIInv, MovesKeepIInv, SpawnKeepsIInv, AbandonKeepsIInv,
     RegisterKeepsIInv, ReconcileKeepsIInv, SettleKeepsIInv, UnregisterKeepsIInv, VanishKeepsIInv,
     NoticeDeadKeepsIInv
  DEF Step, Leave
<1>6. ASSUME NEW m \in Manager, Crash(m) \/ Interrupt(m) PROVE IInv'
  BY <1>6, VanishKeepsIInv, InterruptKeepsIInv DEF Crash
<1>7. ASSUME NEW g \in Gen, BecomeReady(g) \/ WorkerExits(g) PROVE IInv'
  BY <1>7, WorkerKeepsIInv
<1>8. CASE UNCHANGED vars
  <2>1. UNCHANGED <<doc, worker, owned, local, pend, pc, job, todo>>
    BY <1>8 DEF vars, books
  <2>2. TypeOK' /\ WorkersInv' /\ EntriesInv'
    BY <2>1 DEF IInv, TypeOK, WorkersInv, EntriesInv, Ids, Exists
  <2>3. BooksInv' /\ JobInv'
    BY <2>1 DEF IInv, BooksInv, JobInv, Ids, Tracked, Exists, EntriesOf
  <2>4. NoWorkerForgotten' /\ EntriesKnown'
    BY <2>1 DEF IInv, NoWorkerForgotten, EntriesKnown, Runs, Ids, Tracked, Exists
  <2> QED
    BY <2>2, <2>3, <2>4 DEF IInv
<1> QED
  BY <1>4, <1>5, <1>6, <1>7, <1>8 DEF Next
-----------------------------------------------------------------------------
(* Any number of routers.  Less of the invariant is left: the books may      *)
(* differ from the registry, but a worker whose entry a router is about to   *)
(* remove has ended for good, whatever the others do in between.             *)

WorkersNamed == \A g \in Gen : worker[g].st # "none" => worker[g].pid \in Pid /\ worker[g].path \in Path

\* What is in a router's books was spawned; what is pending and not kept as a
\* process has ended.
BooksWell(m) ==
    /\ \A h \in Tracked(m) \cup pend[m] : worker[h].st # "none"
    /\ \A h \in pend[m] \ local[m] : worker[h].st = "gone"

JobWell(m) ==
    LET g == job[m].gen IN
    /\ pc[m] \in Starting => g \in Gen /\ worker[g].st # "none"
    /\ pc[m] \in Ending => g \in Gen /\ worker[g].st = "gone"
    /\ pc[m] \in {"counting", "spawning"} \/ job[m].back = "counting" => job[m].path \in Path

EndedInv ==
    /\ TypeOK /\ WorkersNamed /\ EntriesInv
    /\ \A m \in Manager : BooksWell(m) /\ JobWell(m)

\* A worker that was spawned keeps its pid, and one that has ended stays so.
Ages ==
    \A g \in Gen : worker[g].st # "none" =>
        /\ worker'[g].st # "none" /\ (worker[g].st = "gone" => worker'[g].st = "gone")
        /\ worker'[g].pid = worker[g].pid /\ worker'[g].path = worker[g].path

OthersKept(m) ==
    /\ DOMAIN owned' = Manager /\ DOMAIN todo' = Manager
    /\ \A n \in Manager \ {m} :
          owned'[n] = owned[n] /\ local'[n] = local[n] /\ pend'[n] = pend[n] /\ todo'[n] = todo[n]

LEMMA InitEndedInv == Init => EndedInv
BY InitIInv DEF Init, IInv, WorkersInv, BooksInv, JobInv, Exists, EndedInv, WorkersNamed, BooksWell, JobWell,
   Calm, Starting, Ending, Tracked, Ids

\* What a step of one router has to keep up, for the invariant to hold of all.
LEMMA StepKeepsEndedInv ==
    ASSUME EndedInv, NEW m \in Manager, OthersKept(m), Went(m),
           Sound(doc'), worker' \in [Gen -> Worker], WorkersNamed', Ages,
           \A i \in Live(doc') :
              \/ i \in Live(doc) /\ doc'.inst[i].info = doc.inst[i].info
              \/ /\ worker[doc'.inst[i].info.gen].st # "none"
                 /\ worker[doc'.inst[i].info.gen].pid = doc'.inst[i].info.pid,
           Ids(m)' \subseteq Id, \A i \in Ids(m)' : owned'[m][i] \in Gen,
           local' \in [Manager -> SUBSET Gen], pend' \in [Manager -> SUBSET Gen],
           pc'[m] \in {"sweeping", "expiring"} => \A e \in todo'[m] : e[1] \in Id,
           \A h \in Tracked(m)' \cup pend'[m] : worker[h].st # "none",
           \A h \in pend'[m] \ local'[m] : worker'[h].st = "gone",
           JobWell(m)'
    PROVE  EndedInv'
<1> USE DEF EndedInv
<1>1. TypeOK'
  BY DEF TypeOK, OthersKept, Went, Ids
<1>2. EntriesInv'
  <2> SUFFICES ASSUME NEW i \in Live(doc'), NEW x, x = doc'.inst[i].info
               PROVE  worker'[x.gen].st # "none" /\ worker'[x.gen].pid = x.pid
    BY DEF EntriesInv
  <2>1. x.gen \in Gen
    BY ManagerAssumption DEF Sound, IsDoc, Entry
  <2>2. worker[x.gen].st # "none" /\ worker[x.gen].pid = x.pid
    BY DEF EntriesInv
  <2> QED
    BY <2>1, <2>2 DEF Ages
<1>3. ASSUME NEW n \in Manager PROVE BooksWell(n)'
  <2>1. Tracked(n) \cup pend[n] \subseteq Gen /\ Tracked(m)' \cup pend'[m] \subseteq Gen
    BY DEF TypeOK, Tracked
  <2>2. CASE n = m
    BY <2>1, <2>2 DEF BooksWell, Ages
  <2>3. CASE n # m
    <3>1. Tracked(n)' = Tracked(n) /\ pend'[n] = pend[n] /\ local'[n] = local[n]
      BY <2>3 DEF OthersKept, Tracked, Ids
    <3> QED
      BY <2>1, <3>1 DEF BooksWell, Ages
  <2> QED
    BY <2>2, <2>3
<1>4. ASSUME NEW n \in Manager PROVE JobWell(n)'
  <2>1. CASE n # m
    BY <2>1 DEF JobWell, Went, Ages
  <2> QED
    BY <2>1
<1> QED
  BY <1>1, <1>2, <1>3, <1>4

LEMMA ReturnWent ==
    ASSUME TypeOK, NEW m \in Manager, JobWell(m), Return(m)
    PROVE  /\ Went(m) /\ JobWell(m)'
           /\ pc'[m] = job[m].back /\ job'[m].back = "idle" /\ pc'[m] \in {"idle", "counting", "leaving"}
<1>1. job[m] \in Job /\ job[m].path \in Path \cup {None} /\ job[m].back \in {"idle", "counting", "leaving"}
  BY DEF TypeOK, Job
<1>2. CASE job[m].back = "counting"
  <2> DEFINE j == [NoJob EXCEPT !.path = job[m].path]
  <2>1. j \in Job /\ j.back = "idle" /\ j.path = job[m].path
    BY <1>1 DEF NoJob, Job
  <2>2. Goto(m, "counting", j)
    BY <1>2 DEF Return
  <2>3. job[m].path \in Path
    BY <1>2 DEF JobWell
  <2> HIDE DEF j
  <2>4. Went(m) /\ pc'[m] = "counting" /\ job'[m] = j
    BY <2>1, <2>2, GotoWent DEF Calm
  <2> QED
    BY <1>2, <2>1, <2>3, <2>4 DEF JobWell, Starting, Ending
<1>3. CASE job[m].back # "counting"
  <2>1. NoJob \in Job /\ NoJob.back = "idle" /\ job[m].back \in Calm
    BY <1>1 DEF NoJob, Job, Calm
  <2>2. Went(m) /\ pc'[m] = job[m].back /\ job'[m] = NoJob
    BY <1>3, <2>1, GotoWent DEF Return
  <2> QED
    BY <1>1, <1>3, <2>1, <2>2 DEF JobWell, Starting, Ending
<1> QED
  BY <1>2, <1>3

LEMMA EnterWent ==
    ASSUME TypeOK, NEW m \in Manager, NEW l \in Ending, NEW i \in Id \cup {None}, NEW g \in Gen,
           NEW back \in {"idle", "counting", "leaving"}, Enter(m, l, i, g, back),
           JobWell(m), worker'[g].st = "gone", back = "counting" => job[m].path \in Path
    PROVE  Went(m) /\ JobWell(m)' /\ pc'[m] = l /\ job'[m].back = back
<1> DEFINE j == [job[m] EXCEPT !.id = i, !.gen = g, !.back = back]
<1>1. job[m] \in Job
  BY DEF TypeOK
<1>2. j \in Job /\ j.gen = g /\ j.back = back /\ j.path = job[m].path
  BY <1>1 DEF Job
<1>3. Goto(m, l, j)
  BY DEF Enter
<1> HIDE DEF j
<1>4. Went(m) /\ pc'[m] = l /\ job'[m] = j
  BY <1>2, <1>3, GotoWent
<1>5. l \notin Starting /\ l \notin {"counting", "spawning"}
  BY DEF Ending, Starting
<1> QED
  BY <1>2, <1>4, <1>5 DEF JobWell

\* A step that only moves on.
LEMMA MoveKeepsEndedInv ==
    ASSUME EndedInv, NEW m \in Manager, UNCHANGED <<doc, worker, books>>, Went(m), JobWell(m)',
           DOMAIN todo' = Manager, \A n \in Manager \ {m} : todo'[n] = todo[n],
           pc'[m] \in {"sweeping", "expiring"} => \A e \in todo'[m] : e[1] \in Id
    PROVE  EndedInv'
<1>1. doc' = doc /\ worker' = worker /\ owned' = owned /\ local' = local /\ pend' = pend
  BY DEF books
<1>2. OthersKept(m) /\ Ages
  BY <1>1 DEF OthersKept, Ages, EndedInv, TypeOK
<1>3. Ids(m)' = Ids(m) /\ Tracked(m)' = Tracked(m)
  BY <1>1 DEF Ids, Tracked
<1>4. TypeOK /\ WorkersNamed' /\ BooksWell(m)
  BY <1>1 DEF EndedInv, WorkersNamed
<1> QED
  BY <1>1, <1>2, <1>3, <1>4, StepKeepsEndedInv DEF TypeOK, BooksWell

\* The clean-up at a start, and the steps that only move on.
LEMMA MovesKeepEndedInv ==
    ASSUME EndedInv, NEW m \in Manager,
           \/ Start(m) \/ Sweep(m) \/ Exit(m)
           \/ \E p \in Path : Open(m, p)
           \/ Count(m) \/ SpawnFails(m) \/ WorkerAnswers(m) \/ WorkerLate(m)
    PROVE  EndedInv'
<1> USE DEF EndedInv
<1>0. UNCHANGED <<doc, worker, books>> /\ DOMAIN todo' = Manager /\ \A n \in Manager \ {m} : todo'[n] = todo[n]
  BY DEF Start, Sweep, Exit, Open, Count, SpawnFails, WorkerAnswers, WorkerLate, TypeOK
<1>1. NoJob \in Job /\ NoJob.gen = 0 /\ NoJob.back = "idle" /\ job[m] \in Job /\ JobWell(m)
  BY DEF NoJob, Job, TypeOK
<1>2. ASSUME NEW l \in Calm \cup Starting, NEW j \in Job, Goto(m, l, j),
             l \in {"counting", "spawning"} \/ j.back = "counting" => j.path \in Path,
             l \in Starting => j = job[m] /\ pc[m] \in Starting,
             l \in {"sweeping", "expiring"} => \A e \in todo'[m] : e[1] \in Id
      PROVE  EndedInv'
  <2>1. Went(m) /\ pc'[m] = l /\ job'[m] = j
    BY <1>2, GotoWent
  <2>2. JobWell(m)'
    BY <1>0, <1>1, <1>2, <2>1 DEF JobWell, Calm, Starting, Ending
  <2> QED
    BY <1>0, <1>2, <2>1, <2>2, MoveKeepsEndedInv
<1>3. CASE Start(m)
  <2>1. \A e \in todo'[m] : e[1] \in Id
    BY <1>3 DEF Start, TypeOK, Sound, IsDoc
  <2> QED
    BY <1>1, <1>2, <1>3, <2>1 DEF Start, Calm, Starting
<1>4. CASE Sweep(m)
  <2>1. PICK e \in todo[m] :
          /\ todo' = [todo EXCEPT ![m] = @ \ {e}]
          /\ UNCHANGED <<pc, job>> \/ Goto(m, "expiring", [NoJob EXCEPT !.id = e[1]])
    BY <1>4 DEF Sweep
  <2>2. e[1] \in Id /\ \A f \in todo'[m] : f[1] \in Id
    BY <1>4, <2>1 DEF Sweep, TypeOK
  <2>3. CASE UNCHANGED <<pc, job>>
    <3>1. Went(m) /\ JobWell(m)'
      BY <1>0, <1>1, <2>3 DEF Went, JobWell, TypeOK
    <3> QED
      BY <1>0, <2>2, <3>1, MoveKeepsEndedInv
  <2>4. CASE Goto(m, "expiring", [NoJob EXCEPT !.id = e[1]])
    <3> DEFINE j == [NoJob EXCEPT !.id = e[1]]
    <3>1. j \in Job /\ j.back = "idle"
      BY <1>1, <2>2 DEF NoJob, Job
    <3> HIDE DEF j
    <3> QED
      BY <1>2, <2>2, <2>4, <3>1 DEF Calm, Starting, j
  <2> QED
    BY <2>1, <2>3, <2>4
<1>5. ASSUME NEW p \in Path, Open(m, p) PROVE EndedInv'
  <2> DEFINE j == [NoJob EXCEPT !.path = p]
  <2>1. j \in Job /\ j.path = p
    BY DEF NoJob, Job
  <2>2. Goto(m, "counting", j)
    BY <1>5 DEF Open
  <2> HIDE DEF j
  <2> QED
    BY <1>2, <2>1, <2>2 DEF Calm, Starting
<1>6. ASSUME Return(m) PROVE EndedInv'
  BY <1>0, <1>6, ReturnWent, MoveKeepsEndedInv
<1>7. CASE Count(m) /\ Goto(m, "spawning", job[m])
  BY <1>1, <1>2, <1>7 DEF Count, JobWell, Calm, Starting
<1>8. CASE WorkerAnswers(m) \/ WorkerLate(m)
  <2>1. PICK l \in {"registering", "abandoning"} : Goto(m, l, job[m]) /\ pc[m] = "waiting"
    BY <1>8 DEF WorkerAnswers, WorkerLate
  <2> QED
    BY <1>1, <1>2, <2>1 DEF JobWell, Calm, Starting
<1>9. CASE Exit(m)
  BY <1>1, <1>2, <1>9 DEF Exit, Calm, Starting
<1> QED
  BY <1>3, <1>4, <1>5, <1>6, <1>7, <1>8, <1>9 DEF Count, SpawnFails

\* An entry is expired, or the clean-up comes to its end.
LEMMA ShrinkKeepsEndedInv ==
    ASSUME EndedInv, NEW m \in Manager, ExpireDead(m) \/ Serve(m)
    PROVE  EndedInv'
<1> USE DEF EndedInv
<1>1. NoJob \in Job /\ NoJob.back = "idle" /\ TypeOK
  BY DEF NoJob, Job
<1>2. Sound(doc') /\ Live(doc') \subseteq Live(doc) /\ \A i \in Live(doc') : doc'.inst[i].info = doc.inst[i].info
  BY ShrinkFacts
<1>3. PICK l \in {"sweeping", "idle"} : Goto(m, l, NoJob) /\ (l = "sweeping" => pc[m] = "expiring")
  BY DEF ExpireDead, Serve
<1>4. Went(m) /\ pc'[m] = l /\ job'[m] = NoJob
  BY <1>1, <1>3, GotoWent DEF Calm
<1>5. JobWell(m)'
  BY <1>1, <1>4 DEF JobWell, Starting, Ending
<1>6. worker' = worker /\ owned' = owned /\ local' = local /\ pend' = pend /\ todo' = todo
  BY DEF ExpireDead, Serve, books
<1>7. OthersKept(m) /\ Ages /\ Ids(m)' = Ids(m) /\ Tracked(m)' = Tracked(m) /\ WorkersNamed'
  BY <1>6 DEF OthersKept, Ages, TypeOK, Ids, Tracked, WorkersNamed
<1>8. BooksWell(m)
  OBVIOUS
<1> QED
  BY <1>1, <1>2, <1>3, <1>4, <1>5, <1>6, <1>7, <1>8, StepKeepsEndedInv DEF TypeOK, BooksWell

LEMMA SpawnKeepsEndedInv ==
    ASSUME EndedInv, NEW m \in Manager, Spawn(m)
    PROVE  EndedInv'
<1> USE DEF EndedInv
<1>1. PICK g \in Gen, p \in Pid :
        /\ worker[g].st = "none"
        /\ worker' = [worker EXCEPT ![g] = [st |-> "starting", pid |-> p, path |-> job[m].path, by |-> m, cut |-> FALSE]]
        /\ Goto(m, "waiting", [job[m] EXCEPT !.gen = g])
  BY DEF Spawn
<1> DEFINE w == [st |-> "starting", pid |-> p, path |-> job[m].path, by |-> m, cut |-> FALSE]
           j == [job[m] EXCEPT !.gen = g]
<1>2. job[m].path \in Path /\ job[m] \in Job
  BY DEF Spawn, TypeOK, JobWell
<1>3. w \in Worker /\ w.st = "starting" /\ w.pid = p /\ w.path \in Path
  BY <1>2 DEF Worker, States
<1>4. j \in Job /\ j.gen = g /\ j.path = job[m].path
  BY <1>2 DEF Job
<1> HIDE DEF w, j
<1>5. worker' \in [Gen -> Worker] /\ worker'[g] = w /\ \A h \in Gen \ {g} : worker'[h] = worker[h]
  BY <1>1, <1>3 DEF TypeOK, w
<1>6. Went(m) /\ pc'[m] = "waiting" /\ job'[m] = j
  BY <1>1, <1>4, GotoWent DEF Starting, j
<1>7. doc' = doc /\ owned' = owned /\ local' = local /\ pend' = pend /\ todo' = todo
  BY DEF Spawn, books
<1>8. OthersKept(m) /\ Ids(m)' = Ids(m) /\ Tracked(m)' = Tracked(m)
  BY <1>7 DEF OthersKept, TypeOK, Ids, Tracked
<1>9. Ages /\ WorkersNamed'
  BY <1>1, <1>3, <1>5 DEF Ages, WorkersNamed
<1>10. JobWell(m)'
  BY <1>2, <1>3, <1>4, <1>5, <1>6 DEF JobWell, Starting, Ending
<1>11. \A h \in pend[m] \ local[m] : worker'[h].st = "gone"
  BY <1>9 DEF BooksWell, TypeOK, Tracked, Ages
<1> QED
  BY <1>5, <1>6, <1>7, <1>8, <1>9, <1>10, <1>11, StepKeepsEndedInv DEF TypeOK, BooksWell

\* What every stop of a worker leaves.
LEMMA StopAges ==
    ASSUME EndedInv, NEW g \in Gen, worker[g].st # "none", StopConfirmed(g) \/ StopUnconfirmed(g)
    PROVE  /\ worker' \in [Gen -> Worker] /\ Ages /\ WorkersNamed'
           /\ StopConfirmed(g) => worker'[g].st = "gone"
<1>1. TypeOK /\ WorkersNamed
  BY DEF EndedInv
<1>2. worker' \in [Gen -> Worker] /\ Fades /\ (StopConfirmed(g) => worker'[g].st = "gone")
  BY <1>1, StopFacts
<1> QED
  BY <1>1, <1>2 DEF Fades, Ages, WorkersNamed

LEMMA AbandonKeepsEndedInv ==
    ASSUME EndedInv, NEW m \in Manager, WorkerExited(m) \/ Abandon(m)
    PROVE  EndedInv'
<1> USE DEF EndedInv
<1> DEFINE g == job[m].gen
<1>1. pc[m] \in Starting /\ g \in Gen /\ worker[g].st # "none" /\ JobWell(m) /\ BooksWell(m) /\ TypeOK
  BY DEF WorkerExited, Abandon, JobWell, Starting
<1>2. doc' = doc /\ owned' = owned /\ todo' = todo /\ Return(m)
  BY DEF WorkerExited, Abandon, books
<1>3. worker' \in [Gen -> Worker] /\ Ages /\ WorkersNamed' /\ (StopConfirmed(g) => worker'[g].st = "gone")
  BY <1>1, StopAges DEF WorkerExited, Abandon
<1>4. \/ worker'[g].st = "gone" /\ local' = local
      \/ local' = [local EXCEPT ![m] = @ \cup {g}]
  BY <1>3 DEF WorkerExited, Abandon, books
<1>5. pend' = pend \/ pend' = [pend EXCEPT ![m] = @ \cup {g}]
  <2>1. ASSUME pend' = [pend EXCEPT ![m] = pend[m]] PROVE pend' = pend
    BY <2>1 DEF TypeOK
  <2> QED
    BY <2>1 DEF WorkerExited, Abandon, books
<1> HIDE DEF g
<1>6. /\ local' \in [Manager -> SUBSET Gen] /\ pend' \in [Manager -> SUBSET Gen]
      /\ local[m] \subseteq local'[m] /\ local'[m] \subseteq local[m] \cup {g} /\ pend'[m] \subseteq pend[m] \cup {g}
      /\ \A n \in Manager \ {m} : local'[n] = local[n] /\ pend'[n] = pend[n]
      /\ worker'[g].st = "gone" \/ g \in local'[m]
  BY <1>1, <1>4, <1>5 DEF TypeOK
<1>7. OthersKept(m) /\ Ids(m)' = Ids(m)
  BY <1>2, <1>6 DEF OthersKept, TypeOK, Ids
<1>8. Went(m) /\ JobWell(m)' /\ pc'[m] \in {"idle", "counting", "leaving"}
  BY <1>1, <1>2, ReturnWent
<1>9. \A h \in Tracked(m)' \cup pend'[m] : worker[h].st # "none"
  BY <1>1, <1>2, <1>6, <1>7 DEF BooksWell, Tracked
<1>10. \A h \in pend'[m] \ local'[m] : worker'[h].st = "gone"
  BY <1>1, <1>3, <1>6 DEF BooksWell, Tracked, Ages
<1> QED
  BY <1>2, <1>3, <1>6, <1>7, <1>8, <1>9, <1>10, StepKeepsEndedInv DEF TypeOK

\* What register adds, and what the router then tracks.
LEMMA RegisterKeepsEndedInv ==
    ASSUME EndedInv, NEW m \in Manager, Register(m) \/ RegisterRaises(m) \/ Reconcile(m)
    PROVE  EndedInv'
<1> USE DEF EndedInv
<1> DEFINE g == job[m].gen
<1>1. /\ pc[m] \in Starting /\ g \in Gen /\ worker[g].st # "none" /\ JobWell(m) /\ BooksWell(m) /\ TypeOK
      /\ job[m] \in Job /\ worker' = worker /\ local' = local /\ pend' = pend /\ todo' = todo
  BY DEF Register, RegisterRaises, Reconcile, JobWell, Starting, TypeOK, books
<1>2. /\ Sound(doc')
      /\ \A i \in Live(doc') : \/ i \in Live(doc) /\ doc'.inst[i].info = doc.inst[i].info
                               \/ doc'.inst[i].info = InfoOf(g)
  <2>1. ASSUME NEW i \in Id, Commit(g, i) PROVE <1>2!:
    <3>1. InfoOf(g) \in Info
      BY <1>1, ManagerAssumption DEF InfoOf, WorkersNamed
    <3>2. doc' = Registered(doc, InfoOf(g), i, 0) /\ i \in ResolveCollision(InfoOf(g), Live(doc)) /\ Sound(doc)
      BY <2>1 DEF Commit, TypeOK
    <3>3. doc'.inst = Put(doc.inst, i, [info |-> InfoOf(g), seq |-> doc.n, beat |-> 0])
      BY <3>2 DEF Registered
    <3>4. doc'.inst[i].info = InfoOf(g)
      BY <3>3 DEF Put
    <3> HIDE DEF g
    <3>5. Sound(doc') /\ Live(doc') = Live(doc) \cup {i} /\ \A k \in Live(doc) : doc'.inst[k] = doc.inst[k]
      BY <3>1, <3>2, RegisteredSound
    <3> QED
      BY <3>4, <3>5
  <2>2. ASSUME doc' = doc PROVE <1>2!:
    BY <2>2, <1>1 DEF TypeOK
  <2> QED
    BY <2>1, <2>2 DEF Register, RegisterRaises, Reconcile
<1>3. \/ \E i \in Id : Track(m, i, g) /\ Return(m)
      \/ owned' = owned /\ Goto(m, "reconciling", job[m])
      \/ owned' = owned /\ Goto(m, "abandoning", job[m])
      \/ owned' = owned /\ Goto(m, "abandoning", [job[m] EXCEPT !.unsure = TRUE])
  <2>1. \A i \in EntriesOf(g) : i \in Id
    BY <1>1 DEF EntriesOf, TypeOK, Sound, IsDoc
  <2> QED
    BY <2>1 DEF Register, RegisterRaises, Reconcile, books
<1>4. /\ Went(m) /\ JobWell(m)' /\ pc'[m] \notin {"sweeping", "expiring"}
      /\ DOMAIN owned' = Manager /\ \A n \in Manager \ {m} : owned'[n] = owned[n]
      /\ Ids(m)' \subseteq Id /\ \A i \in Ids(m)' : owned'[m][i] \in {owned[m][k] : k \in Ids(m)} \cup {g}
  <2>1. ASSUME NEW i \in Id, Track(m, i, g), Return(m) PROVE <1>4!:
    <3>1. /\ DOMAIN owned' = Manager /\ owned'[m] = Put(owned[m], i, g)
          /\ \A n \in Manager \ {m} : owned'[n] = owned[n]
      BY <1>1, <2>1 DEF Track, TypeOK
    <3>2. Ids(m)' = Ids(m) \cup {i} /\ \A k \in Ids(m)' : owned'[m][k] = IF k = i THEN g ELSE owned[m][k]
      BY <3>1 DEF Put, Ids
    <3> HIDE DEF g
    <3>3. Ids(m) \subseteq Id
      BY <1>1 DEF TypeOK
    <3> QED
      BY <1>1, <2>1, <3>1, <3>2, <3>3, ReturnWent
  <2>2. ASSUME NEW l \in {"reconciling", "abandoning"}, NEW j \in Job, j.gen = g, j.path = job[m].path,
               j.back = job[m].back, owned' = owned, Goto(m, l, j)
        PROVE  <1>4!:
    <3>1. Went(m) /\ pc'[m] = l /\ job'[m] = j
      BY <1>1, <2>2, GotoWent DEF Starting
    <3>2. JobWell(m)'
      BY <1>1, <2>2, <3>1 DEF JobWell, Starting, Ending
    <3> QED
      BY <1>1, <2>2, <3>1, <3>2 DEF TypeOK, Ids
  <2> DEFINE j == [job[m] EXCEPT !.unsure = TRUE]
  <2>3. j \in Job /\ j.gen = g /\ j.path = job[m].path /\ j.back = job[m].back
    BY <1>1 DEF Job
  <2>4. CASE owned' = owned /\ Goto(m, "abandoning", j)
    <3> HIDE DEF g, j
    <3> QED
      BY <2>2, <2>3, <2>4
  <2> QED
    BY <1>1, <1>3, <2>1, <2>2, <2>4
<1> HIDE DEF g
<1>5. OthersKept(m) /\ Ages /\ WorkersNamed'
  BY <1>1, <1>4 DEF OthersKept, Ages, TypeOK, WorkersNamed
<1>6. \A i \in Ids(m)' : owned'[m][i] \in Gen /\ worker[owned'[m][i]].st # "none"
  BY <1>1, <1>4 DEF TypeOK, BooksWell, Tracked
<1>7. \A h \in Tracked(m)' \cup pend'[m] : worker[h].st # "none"
  BY <1>1, <1>6 DEF BooksWell, Tracked
<1>8. \A i \in Live(doc') :
         \/ i \in Live(doc) /\ doc'.inst[i].info = doc.inst[i].info
         \/ /\ worker[doc'.inst[i].info.gen].st # "none"
            /\ worker[doc'.inst[i].info.gen].pid = doc'.inst[i].info.pid
  BY <1>1, <1>2 DEF InfoOf
<1>9. \A h \in pend'[m] \ local'[m] : worker'[h].st = "gone"
  BY <1>1 DEF BooksWell
<1> QED
  BY <1>1, <1>2, <1>4, <1>5, <1>6, <1>7, <1>8, <1>9, StepKeepsEndedInv DEF TypeOK

\* After a worker kept under a cleanup id has ended.
LEMMA AfterStopWent ==
    ASSUME EndedInv, NEW m \in Manager, pc[m] \in {"idle", "counting", "leaving"}, NEW g \in Gen,
           worker'[g].st = "gone", AfterStop(m, g, pc[m])
    PROVE  Went(m) /\ JobWell(m)' /\ pc'[m] \notin {"sweeping", "expiring"}
<1> USE DEF EndedInv
<1>1. TypeOK /\ JobWell(m) /\ job[m] \in Job /\ pc[m] \in Calm
  BY DEF TypeOK, Calm
<1>2. CASE Enter(m, "settling", None, g, pc[m])
  BY <1>1, <1>2, EnterWent DEF Ending, JobWell
<1>3. CASE Goto(m, pc[m], job[m])
  <2>1. Went(m) /\ pc'[m] = pc[m] /\ job'[m] = job[m]
    BY <1>1, <1>3, GotoWent
  <2> QED
    BY <1>1, <2>1 DEF JobWell, Starting, Ending
<1> QED
  BY <1>2, <1>3 DEF AfterStop

\* A step that may stop a worker and drop it from the books.
LEMMA DropKeepsEndedInv ==
    ASSUME EndedInv, NEW m \in Manager, OthersKept(m), Went(m), doc' = doc,
           worker' \in [Gen -> Worker], Ages, WorkersNamed',
           Ids(m)' \subseteq Ids(m), \A i \in Ids(m)' : owned'[m][i] = owned[m][i],
           local' \in [Manager -> SUBSET Gen], local'[m] \subseteq local[m],
           pend' \in [Manager -> SUBSET Gen], pend'[m] \subseteq pend[m],
           \A h \in local[m] \ local'[m] : worker'[h].st = "gone",
           pc'[m] \notin {"sweeping", "expiring"}, JobWell(m)'
    PROVE  EndedInv'
<1>1. TypeOK /\ BooksWell(m)
  BY DEF EndedInv
<1>2. Ids(m)' \subseteq Id /\ \A i \in Ids(m)' : owned'[m][i] \in Gen
  BY <1>1 DEF TypeOK
<1>3. \A h \in Tracked(m)' \cup pend'[m] : worker[h].st # "none"
  BY <1>1 DEF BooksWell, Tracked
<1>4. \A h \in pend'[m] \ local'[m] : worker'[h].st = "gone"
  BY <1>1 DEF BooksWell, Tracked, Ages, TypeOK
<1>5. Sound(doc')
  BY <1>1 DEF TypeOK
<1> QED
  BY <1>2, <1>3, <1>4, <1>5, StepKeepsEndedInv

LEMMA CloseOwnedKeepsEndedInv ==
    ASSUME EndedInv, NEW m \in Manager, pc[m] \in {"idle", "leaving"},
           DOMAIN todo' = Manager, \A n \in Manager \ {m} : todo'[n] = todo[n],
           NEW i, NEW g, CloseOwned(m, i, g, pc[m])
    PROVE  EndedInv'
<1>1. /\ i \in Ids(m) /\ i \in Id /\ g \in Gen /\ worker[g].st # "none" /\ g = owned[m][i]
      /\ doc' = doc /\ local' = local /\ pend' = pend /\ TypeOK /\ JobWell(m)
  BY DEF CloseOwned, EndedInv, TypeOK, BooksWell, Tracked
<1>2. worker' \in [Gen -> Worker] /\ Ages /\ WorkersNamed' /\ (StopConfirmed(g) => worker'[g].st = "gone")
  BY <1>1, StopAges DEF CloseOwned
<1>3. /\ DOMAIN owned' = Manager /\ \A n \in Manager \ {m} : owned'[n] = owned[n]
      /\ Ids(m)' \subseteq Ids(m) /\ \A k \in Ids(m)' : owned'[m][k] = owned[m][k]
  <2>1. CASE Release(m, i)
    BY <1>1, <2>1, ReleaseFacts DEF Release, TypeOK
  <2>2. CASE UNCHANGED owned
    BY <1>1, <2>2 DEF TypeOK, Ids
  <2> QED
    BY <2>1, <2>2 DEF CloseOwned
<1>4. Went(m) /\ JobWell(m)' /\ pc'[m] \notin {"sweeping", "expiring"}
  <2>1. CASE StopConfirmed(g) /\ Enter(m, "unregistering", i, g, pc[m])
    BY <1>1, <1>2, <2>1, EnterWent DEF Ending
  <2>2. CASE Goto(m, pc[m], NoJob)
    <3>1. NoJob \in Job /\ NoJob.back = "idle" /\ pc[m] \in Calm
      BY DEF NoJob, Job, Calm
    <3>2. Went(m) /\ pc'[m] = pc[m] /\ job'[m] = NoJob
      BY <1>1, <2>2, <3>1, GotoWent
    <3> QED
      BY <3>1, <3>2 DEF JobWell, Starting, Ending
  <2> QED
    BY <2>1, <2>2 DEF CloseOwned
<1>5. OthersKept(m)
  BY <1>1, <1>3 DEF OthersKept
<1> QED
  BY <1>1, <1>2, <1>3, <1>4, <1>5, DropKeepsEndedInv DEF TypeOK

LEMMA CloseCleanupKeepsEndedInv ==
    ASSUME EndedInv, NEW m \in Manager, pc[m] \in {"idle", "leaving"},
           DOMAIN todo' = Manager, \A n \in Manager \ {m} : todo'[n] = todo[n],
           NEW g, CloseCleanup(m, g, pc[m])
    PROVE  EndedInv'
<1>1. /\ g \in Gen /\ worker[g].st # "none" /\ doc' = doc /\ owned' = owned /\ pend' = pend
      /\ TypeOK /\ JobWell(m) /\ BooksWell(m)
  BY DEF CloseCleanup, EndedInv, TypeOK, BooksWell, Tracked
<1>2. CASE /\ IF g \in local[m] THEN StopConfirmed(g) ELSE UNCHANGED worker
           /\ local' = [local EXCEPT ![m] = @ \ {g}]
           /\ AfterStop(m, g, pc[m])
  <2>1. worker' \in [Gen -> Worker] /\ Ages /\ WorkersNamed' /\ worker'[g].st = "gone"
    <3>1. CASE g \in local[m]
      BY <1>1, <1>2, <3>1, StopAges
    <3>2. CASE g \notin local[m]
      <4>1. worker' = worker /\ g \in pend[m] \ local[m]
        BY <1>2, <3>2 DEF CloseCleanup
      <4> QED
        BY <1>1, <4>1 DEF BooksWell, Ages, EndedInv, TypeOK, WorkersNamed
    <3> QED
      BY <3>1, <3>2
  <2>2. /\ local' \in [Manager -> SUBSET Gen] /\ local'[m] = local[m] \ {g}
        /\ \A n \in Manager \ {m} : local'[n] = local[n]
    BY <1>1, <1>2 DEF TypeOK
  <2>3. Went(m) /\ JobWell(m)' /\ pc'[m] \notin {"sweeping", "expiring"}
    BY <1>1, <1>2, <2>1, AfterStopWent
  <2>4. OthersKept(m) /\ Ids(m)' = Ids(m)
    BY <1>1, <2>2 DEF OthersKept, TypeOK, Ids
  <2> QED
    BY <1>1, <2>1, <2>2, <2>3, <2>4, DropKeepsEndedInv DEF TypeOK
<1>3. CASE StopUnconfirmed(g) /\ UNCHANGED local /\ Goto(m, pc[m], NoJob)
  <2>1. NoJob \in Job /\ NoJob.back = "idle" /\ pc[m] \in Calm
    BY DEF NoJob, Job, Calm
  <2>2. Went(m) /\ pc'[m] = pc[m] /\ job'[m] = NoJob
    BY <1>1, <1>3, <2>1, GotoWent
  <2>3. JobWell(m)'
    BY <2>1, <2>2 DEF JobWell, Starting, Ending
  <2>4. worker' \in [Gen -> Worker] /\ Ages /\ WorkersNamed'
    BY <1>1, <1>3, StopAges
  <2>5. OthersKept(m) /\ Ids(m)' = Ids(m)
    BY <1>1, <1>3 DEF OthersKept, TypeOK, Ids
  <2> QED
    BY <1>1, <1>3, <2>2, <2>3, <2>4, <2>5, DropKeepsEndedInv DEF TypeOK
<1> QED
  BY <1>2, <1>3 DEF CloseCleanup

\* A worker that was spawned and whose pid no process has has ended.
LEMMA DeadEnded ==
    ASSUME EndedInv, NEW g \in Gen, worker[g].st # "none", ~IsProcessAlive(worker[g].pid)
    PROVE  worker[g].st = "gone"
BY DEF IsProcessAlive, Exists

LEMMA CloseForeignKeepsEndedInv ==
    ASSUME EndedInv, NEW m \in Manager, pc[m] = "idle", UNCHANGED todo, NEW i \in Id, CloseForeign(m, i)
    PROVE  EndedInv'
<1> USE DEF EndedInv
<1> DEFINE g == doc.inst[i].info.gen
<1>1. i \in Live(doc) /\ ~IsProcessAlive(doc.inst[i].info.pid)
      /\ Enter(m, "unregistering", i, g, "idle") /\ UNCHANGED <<doc, worker, books>>
  BY DEF CloseForeign
<1>2. g \in Gen /\ worker[g].st # "none" /\ worker[g].pid = doc.inst[i].info.pid
  BY <1>1, ManagerAssumption DEF TypeOK, Sound, IsDoc, Entry, EntriesInv
<1> HIDE DEF g
<1>3. worker'[g].st = "gone"
  BY <1>1, <1>2, DeadEnded
<1>4. TypeOK /\ JobWell(m)
  OBVIOUS
<1>5. Went(m) /\ JobWell(m)' /\ pc'[m] = "unregistering"
  BY <1>1, <1>2, <1>3, <1>4, EnterWent DEF Ending
<1> QED
  BY <1>1, <1>5, MoveKeepsEndedInv DEF TypeOK

LEMMA NoticeDeadKeepsEndedInv ==
    ASSUME EndedInv, NEW m \in Manager, pc[m] \in {"idle", "counting"}, NEW g \in Gen, NoticeDead(m, g)
    PROVE  EndedInv'
<1>1. /\ doc' = doc /\ worker' = worker /\ pend' = pend /\ todo' = todo
      /\ TypeOK /\ JobWell(m) /\ WorkersNamed
  BY DEF NoticeDead, EndedInv
<1>2. worker'[g].st = "gone"
  <2>1. worker[g].st # "none"
    BY DEF NoticeDead, EndedInv, BooksWell, Tracked
  <2> QED
    BY <1>1, <2>1, DeadEnded DEF NoticeDead
<1>3. worker' \in [Gen -> Worker] /\ Ages /\ WorkersNamed'
  BY <1>1 DEF TypeOK, Ages, WorkersNamed
<1>4. ASSUME NEW i \in Ids(m), Release(m, i), UNCHANGED local, Enter(m, "unregistering", i, g, pc[m])
      PROVE  EndedInv'
  <2>1. i \in Id
    BY <1>1 DEF TypeOK
  <2>2. /\ DOMAIN owned' = Manager /\ \A n \in Manager \ {m} : owned'[n] = owned[n]
        /\ Ids(m)' \subseteq Ids(m) /\ \A k \in Ids(m)' : owned'[m][k] = owned[m][k]
    BY <1>1, <1>4, ReleaseFacts DEF Release, TypeOK
  <2>3. Went(m) /\ JobWell(m)' /\ pc'[m] = "unregistering"
    BY <1>1, <1>2, <1>4, <2>1, EnterWent DEF Ending, JobWell
  <2>4. OthersKept(m)
    BY <1>1, <1>4, <2>2 DEF OthersKept, TypeOK
  <2> QED
    BY <1>1, <1>3, <1>4, <2>2, <2>3, <2>4, DropKeepsEndedInv DEF TypeOK
<1>5. CASE UNCHANGED owned /\ local' = [local EXCEPT ![m] = @ \ {g}] /\ AfterStop(m, g, pc[m])
  <2>1. /\ local' \in [Manager -> SUBSET Gen] /\ local'[m] = local[m] \ {g}
        /\ \A n \in Manager \ {m} : local'[n] = local[n]
    BY <1>1, <1>5 DEF TypeOK
  <2>2. OthersKept(m) /\ Ids(m)' = Ids(m)
    BY <1>1, <1>5, <2>1 DEF OthersKept, TypeOK, Ids
  <2>3. Went(m) /\ JobWell(m)' /\ pc'[m] \notin {"sweeping", "expiring"}
    BY <1>2, <1>5, AfterStopWent
  <2> QED
    BY <1>1, <1>2, <1>3, <1>5, <2>1, <2>2, <2>3, DropKeepsEndedInv DEF TypeOK
<1> QED
  BY <1>4, <1>5 DEF NoticeDead

LEMMA SettleKeepsEndedInv ==
    ASSUME EndedInv, NEW m \in Manager, Settle(m) \/ Unregister(m)
    PROVE  EndedInv'
<1> USE DEF EndedInv
<1> DEFINE g == job[m].gen
<1>1. /\ pc[m] \in Ending /\ g \in Gen /\ worker[g].st = "gone" /\ JobWell(m) /\ BooksWell(m) /\ TypeOK
      /\ job[m].back \in {"idle", "counting", "leaving"} /\ (job[m].back = "counting" => job[m].path \in Path)
  BY DEF Settle, Unregister, JobWell, Ending, TypeOK, Job
<1>2. worker' = worker /\ owned' = owned /\ local' = local /\ todo' = todo
  BY DEF Settle, Unregister
<1>3. pend' = pend \/ pend' = [pend EXCEPT ![m] = @ \ {g}]
  BY DEF Settle, Unregister
<1>4. /\ Sound(doc') /\ Live(doc') \subseteq Live(doc) /\ \A i \in Live(doc') : doc'.inst[i].info = doc.inst[i].info
  <2>1. Sound(doc)
    BY <1>1 DEF TypeOK
  <2>2. CASE doc' = doc
    BY <2>1, <2>2
  <2>3. CASE doc' = UnregisteredIfOwner(doc, job[m].id, g)
    BY <2>1, <2>3, RemovedSound DEF UnregisteredIfOwner
  <2> QED
    BY <2>2, <2>3 DEF Settle, Unregister
<1>5. Went(m) /\ JobWell(m)' /\ pc'[m] \notin {"sweeping", "expiring"}
  <2>1. CASE Return(m)
    BY <1>1, <2>1, ReturnWent
  <2>2. ASSUME NEW i \in EntriesOf(g), Enter(m, "unregistering", i, g, job[m].back) PROVE <1>5!:
    <3>1. i \in Id /\ worker'[g].st = "gone"
      BY <1>1, <1>2 DEF EntriesOf, TypeOK, Sound, IsDoc
    <3> HIDE DEF g
    <3> QED
      BY <1>1, <2>2, <3>1, EnterWent DEF Ending
  <2> QED
    BY <2>1, <2>2 DEF Settle, Unregister
<1> HIDE DEF g
<1>6. /\ pend' \in [Manager -> SUBSET Gen] /\ pend'[m] \subseteq pend[m]
      /\ \A n \in Manager \ {m} : pend'[n] = pend[n]
  BY <1>1, <1>3 DEF TypeOK
<1>7. OthersKept(m) /\ Ages /\ WorkersNamed' /\ Ids(m)' = Ids(m) /\ Tracked(m)' = Tracked(m)
  BY <1>1, <1>2, <1>6 DEF OthersKept, Ages, WorkersNamed, TypeOK, Ids, Tracked
<1>8. /\ \A h \in Tracked(m)' \cup pend'[m] : worker[h].st # "none"
      /\ \A h \in pend'[m] \ local'[m] : worker'[h].st = "gone"
  BY <1>1, <1>2, <1>6, <1>7 DEF BooksWell
<1> QED
  BY <1>1, <1>2, <1>4, <1>5, <1>6, <1>7, <1>8, StepKeepsEndedInv DEF TypeOK

LEMMA VanishKeepsEndedInv ==
    ASSUME EndedInv, NEW m \in Manager, Vanish(m)
    PROVE  EndedInv'
<1> USE DEF EndedInv
<1>1. worker' \in [Gen -> Worker] /\ Fades
  BY VanishFacts
<1>2. Ages /\ WorkersNamed'
  BY <1>1 DEF Fades, Ages, WorkersNamed
<1>3. /\ Ids(m)' = {} /\ doc' = doc /\ OthersKept(m)
      /\ local' \in [Manager -> SUBSET Gen] /\ local'[m] = {}
      /\ pend' \in [Manager -> SUBSET Gen] /\ pend'[m] = {}
  <2>1. DOMAIN << >> = {}
    OBVIOUS
  <2> QED
    BY <2>1 DEF Vanish, TypeOK, Ids, OthersKept
<1>4. NoJob \in Job /\ NoJob.back = "idle" /\ TypeOK
  BY DEF NoJob, Job
<1>5. Went(m) /\ pc'[m] = "down" /\ job'[m] = NoJob
  BY <1>4, GotoWent DEF Vanish, Calm
<1>6. JobWell(m)'
  BY <1>4, <1>5 DEF JobWell, Starting, Ending
<1>7. Tracked(m)' = {}
  BY <1>3 DEF Tracked, Ids
<1> QED
  BY <1>1, <1>2, <1>3, <1>4, <1>5, <1>6, <1>7, StepKeepsEndedInv DEF TypeOK

LEMMA InterruptKeepsEndedInv ==
    ASSUME EndedInv, NEW m \in Manager, Interrupt(m)
    PROVE  EndedInv'
<1> USE DEF EndedInv
<1>0. /\ pc[m] \in Starting => job[m].gen \in Gen /\ worker[job[m].gen].st # "none"
      /\ TypeOK /\ BooksWell(m)
  BY DEF JobWell
<1>1. /\ worker' \in [Gen -> Worker] /\ owned' = owned /\ local' = local /\ pend' = pend
      /\ pc'[m] = "leaving" /\ job'[m] = NoJob /\ Went(m)
      /\ DOMAIN todo' = Manager /\ \A n \in Manager \ {m} : todo'[n] = todo[n]
      /\ \A g \in Gen : worker'[g].st = worker[g].st /\ worker'[g].pid = worker[g].pid
                       /\ worker'[g].path = worker[g].path
  BY <1>0, InterruptFacts
<1>2. Ages /\ WorkersNamed' /\ OthersKept(m) /\ Ids(m)' = Ids(m) /\ Tracked(m)' = Tracked(m)
  BY <1>1 DEF Ages, WorkersNamed, OthersKept, TypeOK, Ids, Tracked
<1>3. /\ Sound(doc')
      /\ \A i \in Live(doc') :
           \/ i \in Live(doc) /\ doc'.inst[i].info = doc.inst[i].info
           \/ /\ worker[doc'.inst[i].info.gen].st # "none"
              /\ worker[doc'.inst[i].info.gen].pid = doc'.inst[i].info.pid
  <2>1. CASE UNCHANGED doc
    BY <2>1, <1>0 DEF TypeOK
  <2>2. ASSUME NEW i \in Id, pc[m] = "registering", Commit(job[m].gen, i) PROVE <1>3!:
    BY <1>0, <2>2, CommitAdds DEF Starting, WorkersNamed
  <2> QED
    BY <2>1, <2>2 DEF Interrupt
<1>4. JobWell(m)'
  BY <1>1 DEF JobWell, NoJob, Starting, Ending
<1>5. \A h \in pend[m] \ local[m] : worker'[h].st = "gone"
  BY <1>1 DEF BooksWell, TypeOK
<1> QED
  BY <1>0, <1>1, <1>2, <1>3, <1>4, <1>5, StepKeepsEndedInv DEF TypeOK, BooksWell

LEMMA WorkerKeepsEndedInv ==
    ASSUME EndedInv, NEW g \in Gen, BecomeReady(g) \/ WorkerExits(g)
    PROVE  EndedInv'
<1> USE DEF EndedInv
<1>1. UNCHANGED <<doc, owned, local, pend, pc, job, todo>>
  BY DEF BecomeReady, WorkerExits, books
<1>2. worker' \in [Gen -> Worker] /\ Fades
  BY BecomeFades DEF BecomeReady, WorkerExits, States
<1>3. Ages /\ WorkersNamed'
  BY <1>2 DEF Fades, Ages, WorkersNamed
<1>4. TypeOK'
  BY <1>1, <1>2 DEF TypeOK, Ids
<1>5. \A i \in Live(doc) : doc.inst[i].info.gen \in Gen
  BY ManagerAssumption DEF TypeOK, Sound, IsDoc, Entry
<1>6. EntriesInv'
  BY <1>1, <1>3, <1>5 DEF EntriesInv, Ages
<1>7. \A m \in Manager : Tracked(m) \cup pend[m] \subseteq Gen
  BY DEF TypeOK, Tracked
<1>8. \A m \in Manager : BooksWell(m)' /\ JobWell(m)'
  BY <1>1, <1>3, <1>7 DEF BooksWell, JobWell, Tracked, Ids, Ages
<1> QED
  BY <1>3, <1>4, <1>6, <1>8

LEMMA NextEndedInv == EndedInv /\ [Next]_vars => EndedInv'
<1> SUFFICES ASSUME EndedInv, [Next]_vars PROVE EndedInv'
  OBVIOUS
<1>1. DOMAIN todo = Manager
  BY DEF EndedInv, TypeOK
<1>2. ASSUME NEW m \in Manager, Close(m) PROVE EndedInv'
  <2>1. pc[m] = "idle" /\ UNCHANGED todo
    BY <1>2 DEF Close
  <2> QED
    BY <1>1, <1>2, <2>1, CloseOwnedKeepsEndedInv, CloseCleanupKeepsEndedInv, CloseForeignKeepsEndedInv DEF Close
<1>3. ASSUME NEW m \in Manager, CloseNext(m) PROVE EndedInv'
  <2>1. pc[m] = "leaving" /\ DOMAIN todo' = Manager /\ \A n \in Manager \ {m} : todo'[n] = todo[n]
    BY <1>1, <1>3 DEF CloseNext
  <2>2. PICK e \in todo[m] : CloseOwned(m, e[1], e[2], "leaving") \/ CloseCleanup(m, e[2], "leaving")
    BY <1>3 DEF CloseNext
  <2> QED
    BY <2>1, <2>2, CloseOwnedKeepsEndedInv, CloseCleanupKeepsEndedInv
<1>4. ASSUME NEW m \in Manager, Call(m) PROVE EndedInv'
  BY <1>2, <1>4, MovesKeepEndedInv, NoticeDeadKeepsEndedInv DEF Call
<1>5. ASSUME NEW m \in Manager, Step(m) PROVE EndedInv'
  BY <1>3, <1>5, MovesKeepEndedInv, ShrinkKeepsEndedInv, SpawnKeepsEndedInv, AbandonKeepsEndedInv,
     RegisterKeepsEndedInv, SettleKeepsEndedInv, VanishKeepsEndedInv, NoticeDeadKeepsEndedInv
  DEF Step, Leave
<1>6. ASSUME NEW m \in Manager, Crash(m) \/ Interrupt(m) PROVE EndedInv'
  BY <1>6, VanishKeepsEndedInv, InterruptKeepsEndedInv DEF Crash
<1>7. ASSUME NEW g \in Gen, BecomeReady(g) \/ WorkerExits(g) PROVE EndedInv'
  BY <1>7, WorkerKeepsEndedInv
<1>8. CASE UNCHANGED vars
  <2>1. UNCHANGED <<doc, worker, owned, local, pend, pc, job, todo>>
    BY <1>8 DEF vars, books
  <2> QED
    BY <2>1 DEF EndedInv, TypeOK, WorkersNamed, EntriesInv, BooksWell, JobWell, Tracked, Ids
<1> QED
  BY <1>4, <1>5, <1>6, <1>7, <1>8 DEF Next

\* The only step that takes entries out of the document, but for the clean-up at
\* a start, is a compare-and-delete under the nonce of a worker that has ended.
LEMMA RemovedHasEnded ==
    ASSUME EndedInv, [Next]_vars, LiveEntryRemoved
    PROVE  \E m \in Manager : ExpireDead(m)
<1>1. PICK i \in Live(doc) \ Live(doc') : Serving(doc.inst[i].info.gen)
  BY DEF LiveEntryRemoved
<1>2. doc' # doc
  BY <1>1
<1>3. Sound(doc) /\ doc.inst[i].info \in Info
  BY <1>1 DEF EndedInv, TypeOK, Sound, IsDoc, Entry
<1>4. \A t : ExpiredCleaned(doc, t).inst = doc.inst
  BY <1>3, ExpiredCleanedSound
<1>5. \A g \in Gen, k \in Id : Commit(g, k) => i \in Live(doc')
  <2> SUFFICES ASSUME NEW g \in Gen, NEW k \in Id, Commit(g, k) PROVE i \in Live(doc')
    OBVIOUS
  <2>1. doc'.inst = Put(doc.inst, k, [info |-> InfoOf(g), seq |-> doc.n, beat |-> 0])
    BY DEF Commit, Registered
  <2> QED
    BY <1>1, <2>1 DEF Put, Live
<1>6. ASSUME NEW m \in Manager, Unregister(m) PROVE FALSE
  <2>1. doc' = UnregisteredIfOwner(doc, job[m].id, job[m].gen)
    BY <1>2, <1>6 DEF Unregister
  <2>2. OwnerMatches(doc, job[m].id, job[m].gen) /\ doc' = Removed(doc, {job[m].id})
    BY <1>2, <2>1 DEF UnregisteredIfOwner
  <2>3. job[m].id = i
    BY <1>1, <1>3, <2>2, RemovedSound
  <2>4. doc.inst[i].info.gen = job[m].gen
    BY <1>3, <2>2, <2>3, ManagerAssumption DEF OwnerMatches
  <2>5. worker[job[m].gen].st = "gone"
    BY <1>6 DEF Unregister, EndedInv, JobWell, Ending
  <2> QED
    BY <1>1, <2>4, <2>5 DEF Serving
<1>7. ASSUME NEW m \in Manager, Call(m) PROVE FALSE
  BY <1>2, <1>7 DEF Call, Start, Open, Close, CloseOwned, CloseCleanup, CloseForeign, NoticeDead, Exit
<1>8. ASSUME NEW m \in Manager, Register(m) \/ RegisterRaises(m) \/ Interrupt(m) PROVE FALSE
  <2>1. pc[m] = "registering" => job[m].gen \in Gen
    BY DEF EndedInv, JobWell, Starting
  <2> QED
    BY <1>1, <1>2, <1>5, <1>8, <2>1 DEF Register, RegisterRaises, Interrupt
<1>9. ASSUME NEW m \in Manager, Serve(m) PROVE FALSE
  BY <1>1, <1>4, <1>9 DEF Serve, Live
<1>10. ASSUME NEW m \in Manager, CloseNext(m) \/ Leave(m) \/ Crash(m) PROVE FALSE
  BY <1>2, <1>10 DEF CloseNext, CloseOwned, CloseCleanup, Leave, Crash, Vanish
<1>11. ASSUME NEW m \in Manager, Step(m) PROVE ExpireDead(m)
  BY <1>2, <1>6, <1>8, <1>9, <1>10, <1>11
  DEF Step, Sweep, Count, Spawn, SpawnFails, WorkerAnswers, WorkerExited, WorkerLate, Reconcile, Abandon,
      Settle, NoticeDead
<1>12. ASSUME NEW g \in Gen, BecomeReady(g) \/ WorkerExits(g) PROVE FALSE
  BY <1>2, <1>12 DEF BecomeReady, WorkerExits
<1>13. ~ UNCHANGED vars
  BY <1>2 DEF vars
<1> QED
  BY <1>7, <1>8, <1>10, <1>11, <1>12, <1>13 DEF Next

\* "Live sessions owned by another router are left registered" (idalib_close,
\* tools/idalib.py): with any number of routers that share the registry, no
\* close, status, list, retry or exit of one removes the entry of a worker that
\* serves, whoever started it and whichever calls and stops failed; only the
\* clean-up at a router's start can.
THEOREM LiveEntriesStay ==
    Spec => ManagersKeepLiveEntries
<1>1. EndedInv /\ [Next]_vars => [LiveEntryRemoved => \E m \in Manager : ExpireDead(m)]_vars
  BY RemovedHasEnded
<1> QED
  BY InitEndedInv, NextEndedInv, <1>1, PTL DEF Spec, ManagersKeepLiveEntries
-----------------------------------------------------------------------------
(* The exit of a router that is alone.  From its start on, every worker of   *)
(* its own that still serves waits to be closed.                             *)

Leaves(m) == pc[m] = "leaving" \/ job[m].back = "leaving"

Waits(m, g) ==
    \/ \E i \in Ids(m) : owned[m][i] = g /\ <<i, g>> \in todo[m]
    \/ g \in local[m] /\ <<None, g>> \in todo[m]

ExitInv ==
    \A m \in Manager :
        /\ pc[m] \notin Ending => job[m].back = "idle"
        /\ Leaves(m) => \A g \in Gen : Runs(m, g) /\ Serving(g) => Waits(m, g)

\* A step of another kind, or of no router at all.
LEMMA StayKeepsExitInv ==
    ASSUME IInv, ExitInv, OneRouter, NEW m \in Manager,
           pc'[m] \notin Ending => job'[m].back = "idle",
           Leaves(m)' => /\ Leaves(m) /\ owned' = owned /\ local' = local /\ todo' = todo
                         /\ \A g \in Gen : Runs(m, g)' /\ Serving(g)' => Runs(m, g) /\ Serving(g)
    PROVE  ExitInv'
<1>1. \A n \in Manager : n = m
  BY DEF OneRouter
<1>2. Leaves(m)' => \A g \in Gen : Waits(m, g) => Waits(m, g)'
  BY DEF Waits, Ids
<1> QED
  BY <1>1, <1>2 DEF ExitInv

\* The exit begins with all the books, whether between calls or in the middle of one.
LEMMA ExitKeepsExitInv ==
    ASSUME IInv, ExitInv, OneRouter, NEW m \in Manager, Exit(m) \/ Interrupt(m)
    PROVE  ExitInv'
<1> USE DEF IInv
<1>1. owned' = owned /\ local' = local /\ todo'[m] = Held(m) /\ pc'[m] = "leaving" /\ job'[m] = NoJob
  <2>1. CASE Exit(m)
    BY <2>1 DEF Exit, books, Goto, TypeOK
  <2>2. CASE Interrupt(m)
    BY <2>2, InterruptFacts DEF JobInv
  <2> QED
    BY <2>1, <2>2
<1>2. \A g \in Gen : Runs(m, g)' => Runs(m, g) /\ ~(pc[m] \in Starting /\ g = job[m].gen)
  <2>1. CASE Exit(m)
    BY <2>1 DEF Exit, Runs, Exists, Starting
  <2>2. CASE Interrupt(m)
    BY <2>2, InterruptFacts DEF JobInv, Runs, Exists
  <2> QED
    BY <2>1, <2>2
<1>3. pc[m] \in Calm \cup Starting \cup Ending /\ 0 \notin Gen
  BY ManagerAssumption DEF TypeOK
<1>4. ASSUME NEW g \in Gen, Runs(m, g)', Serving(g)' PROVE Waits(m, g)'
  <2>1. g \in Tracked(m)
    BY <1>2, <1>3, <1>4 DEF NoWorkerForgotten, Runs, JobInv
  <2> QED
    BY <1>1, <2>1 DEF Tracked, Waits, Ids, Held
<1>5. \A n \in Manager : n = m
  BY DEF OneRouter
<1> QED
  BY <1>1, <1>4, <1>5 DEF ExitInv, NoJob

\* A stop leaves no worker that serves, and touches no other.
LEMMA StopSpares ==
    ASSUME TypeOK, NEW g \in Gen, StopConfirmed(g) \/ StopUnconfirmed(g)
    PROVE  ~Serving(g)' /\ \A h \in Gen \ {g} : worker'[h] = worker[h]
<1>1. PICK st \in {"gone", "dying"} : worker' = [worker EXCEPT ![g] = [worker[g] EXCEPT !.st = st]]
  BY DEF StopConfirmed, StopUnconfirmed, Become
<1>2. [worker[g] EXCEPT !.st = st].st = st
  BY DEF TypeOK, Worker
<1> QED
  BY <1>1, <1>2 DEF Serving, TypeOK

\* What is taken off the list has been stopped, or outlived its SIGKILL.
LEMMA CloseNextKeepsExitInv ==
    ASSUME IInv, ExitInv, OneRouter, NEW m \in Manager, CloseNext(m)
    PROVE  ExitInv'
<1> USE DEF IInv
<1>0. None \notin Id /\ pc[m] = "leaving" /\ job[m].back = "idle" /\ job[m] \in Job
  BY DocAssumption DEF CloseNext, ExitInv, Ending, TypeOK
<1>1. PICK e \in todo[m] :
        /\ todo' = [todo EXCEPT ![m] = @ \ {e}]
        /\ \/ CloseOwned(m, e[1], e[2], "leaving")
           \/ e[1] = None /\ CloseCleanup(m, e[2], "leaving")
  BY DEF CloseNext
<1>2. todo'[m] = todo[m] \ {e}
  BY <1>1 DEF TypeOK
<1>3. pc'[m] \notin Ending => job'[m].back = "idle"
  BY <1>0, <1>1 DEF CloseOwned, CloseCleanup, AfterStop, Enter, Goto, NoJob, TypeOK, Ending, Job
<1>4. ASSUME NEW g \in Gen, Runs(m, g)', Serving(g)' PROVE Waits(m, g)'
  <2>1. CASE CloseOwned(m, e[1], e[2], "leaving")
    <3>1. e[1] \in Ids(m) /\ owned[m][e[1]] = e[2] /\ e[2] \in Gen /\ e[1] # None /\ local' = local
      BY <1>0, <2>1 DEF CloseOwned, TypeOK
    <3>2. g # e[2] /\ Runs(m, g) /\ Serving(g)
      BY <1>4, <2>1, <3>1, StopSpares DEF CloseOwned, Runs, Exists, Serving
    <3>3. Waits(m, g)
      BY <1>0, <3>2 DEF ExitInv, Leaves
    <3>4. \A i \in Ids(m) : i # e[1] => i \in Ids(m)' /\ owned'[m][i] = owned[m][i]
      BY <2>1, ReleaseFacts DEF CloseOwned, Ids
    <3>5. CASE g \in local[m] /\ <<None, g>> \in todo[m]
      BY <1>2, <3>1, <3>5 DEF Waits
    <3>6. ASSUME NEW i \in Ids(m), owned[m][i] = g, <<i, g>> \in todo[m] PROVE Waits(m, g)'
      <4>1. i # e[1] /\ <<i, g>> # e
        BY <3>1, <3>2, <3>6
      <4> QED
        BY <1>2, <3>4, <3>6, <4>1 DEF Waits
    <3> QED
      BY <3>3, <3>5, <3>6 DEF Waits
  <2>2. CASE e[1] = None /\ CloseCleanup(m, e[2], "leaving")
    <3>1. e[2] \in Gen /\ owned' = owned /\ local' \in [Manager -> SUBSET Gen] /\ local[m] \ {e[2]} \subseteq local'[m]
      BY <2>2 DEF CloseCleanup, TypeOK
    <3>2. g # e[2] /\ Runs(m, g) /\ Serving(g)
      <4>1. e[2] \notin local[m] => ~Exists(e[2]) /\ worker' = worker
        BY <2>2 DEF CloseCleanup, BooksInv
      <4>2. e[2] \in local[m] => StopConfirmed(e[2]) \/ StopUnconfirmed(e[2])
        BY <2>2 DEF CloseCleanup
      <4>3. CASE e[2] \in local[m]
        BY <1>4, <3>1, <4>2, <4>3, StopSpares DEF Runs, Exists, Serving
      <4>4. CASE e[2] \notin local[m]
        BY <1>4, <4>1, <4>4 DEF Runs, Serving, Exists
      <4> QED
        BY <4>3, <4>4
    <3>3. Waits(m, g)
      BY <1>0, <3>2 DEF ExitInv, Leaves
    <3>4. CASE g \in local[m] /\ <<None, g>> \in todo[m]
      <4>1. <<None, g>> # e
        BY <3>2
      <4> QED
        BY <1>2, <3>1, <3>2, <3>4, <4>1 DEF Waits
    <3>5. ASSUME NEW i \in Ids(m), owned[m][i] = g, <<i, g>> \in todo[m] PROVE Waits(m, g)'
      <4>1. i \in Id /\ <<i, g>> # e
        BY <1>0, <2>2 DEF TypeOK
      <4> QED
        BY <1>2, <3>1, <3>5, <4>1 DEF Waits, Ids
    <3> QED
      BY <3>3, <3>4, <3>5 DEF Waits
  <2> QED
    BY <1>1, <2>1, <2>2
<1>5. \A n \in Manager : n = m
  BY DEF OneRouter
<1> QED
  BY <1>3, <1>4, <1>5 DEF ExitInv

\* The calls and their steps neither begin an exit nor are part of one.
LEMMA CallKeepsExitInv ==
    ASSUME IInv, ExitInv, OneRouter, NEW m \in Manager,
           \/ Start(m) \/ Sweep(m) \/ ExpireDead(m) \/ Serve(m)
           \/ \E p \in Path : Open(m, p)
           \/ Count(m) \/ Spawn(m) \/ SpawnFails(m) \/ WorkerAnswers(m) \/ WorkerExited(m) \/ WorkerLate(m)
           \/ Register(m) \/ RegisterRaises(m) \/ Reconcile(m) \/ Abandon(m)
           \/ Close(m)
           \/ pc[m] \in {"idle", "counting"} /\ \E g \in Gen : NoticeDead(m, g)
           \/ Vanish(m)
    PROVE  ExitInv'
<1> USE DEF IInv
<1>1. CASE Vanish(m)
  <2>1. pc'[m] = "down" /\ job'[m].back = "idle"
    BY <1>1 DEF Vanish, Goto, TypeOK, NoJob
  <2> QED
    BY <2>1, StayKeepsExitInv DEF Leaves
<1>2. CASE ~Vanish(m)
  <2> DEFINE Stays == /\ pc'[m] # "leaving" /\ job'[m].back # "leaving"
                      /\ pc'[m] \notin Ending => job'[m].back = "idle"
  <2>1. /\ pc[m] \notin Ending \cup {"leaving"} /\ job[m] \in Job /\ job[m].back = "idle"
        /\ DOMAIN pc = Manager /\ DOMAIN job = Manager
    <3>1. pc[m] \notin Ending \cup {"leaving"}
      BY <1>2 DEF Start, Sweep, ExpireDead, Serve, Open, Count, Spawn, SpawnFails, WorkerAnswers, WorkerExited,
         WorkerLate, Register, RegisterRaises, Reconcile, Abandon, Close, Ending
    <3> QED
      BY <3>1 DEF ExitInv, TypeOK
  <2>2. NoJob.back = "idle" /\ \A i : [NoJob EXCEPT !.id = i].back = "idle" /\ [NoJob EXCEPT !.path = i].back = "idle"
    BY DEF NoJob
  <2>3. ASSUME NEW l, NEW j, Goto(m, l, j) PROVE pc'[m] = l /\ job'[m] = j
    BY <2>1, <2>3 DEF Goto
  <2>4. ASSUME NEW l, NEW j, Goto(m, l, j), l # "leaving", j.back = "idle" PROVE Stays
    BY <2>3, <2>4
  <2>5. ASSUME Return(m) PROVE Stays
    <3>1. Goto(m, "idle", NoJob)
      BY <2>1, <2>5 DEF Return
    <3> QED
      BY <2>2, <2>4, <3>1
  <2>6. ASSUME NEW l \in Ending, NEW i, NEW g, NEW back \in {"idle", "counting"}, Enter(m, l, i, g, back)
        PROVE  Stays
    <3> DEFINE j == [job[m] EXCEPT !.id = i, !.gen = g, !.back = back]
    <3>1. Goto(m, l, j) /\ j.back = back
      BY <2>1, <2>6 DEF Enter, Job
    <3> HIDE DEF j
    <3> QED
      BY <2>3, <2>6, <3>1 DEF Ending
  <2>7. Stays
    <3>1. CASE Start(m) \/ ExpireDead(m) \/ Serve(m)
      BY <2>2, <2>4, <3>1 DEF Start, ExpireDead, Serve
    <3>2. CASE Sweep(m) \/ \E p \in Path : Open(m, p)
      <4>1. ASSUME NEW i, Goto(m, "expiring", [NoJob EXCEPT !.id = i]) PROVE Stays
        BY <2>2, <2>4, <4>1
      <4>2. ASSUME NEW p, Goto(m, "counting", [NoJob EXCEPT !.path = p]) PROVE Stays
        BY <2>2, <2>4, <4>2
      <4> QED
        BY <2>1, <3>2, <4>1, <4>2 DEF Sweep, Open
    <3>3. CASE Count(m) \/ SpawnFails(m) \/ WorkerAnswers(m) \/ WorkerExited(m) \/ WorkerLate(m)
               \/ Register(m) \/ RegisterRaises(m) \/ Abandon(m)
      BY <2>1, <2>4, <2>5, <3>3
      DEF Count, SpawnFails, WorkerAnswers, WorkerExited, WorkerLate, Register, RegisterRaises, Abandon
    <3>4. CASE Spawn(m) \/ Reconcile(m)
      <4>1. ASSUME NEW g, Goto(m, "waiting", [job[m] EXCEPT !.gen = g]) PROVE Stays
        <5>1. [job[m] EXCEPT !.gen = g].back = "idle"
          BY <2>1 DEF Job
        <5> QED
          BY <2>4, <4>1, <5>1
      <4>2. ASSUME Goto(m, "abandoning", [job[m] EXCEPT !.unsure = TRUE]) PROVE Stays
        <5>1. [job[m] EXCEPT !.unsure = TRUE].back = "idle"
          BY <2>1 DEF Job
        <5> QED
          BY <2>4, <4>2, <5>1
      <4> QED
        BY <2>1, <2>4, <2>5, <3>4, <4>1, <4>2 DEF Spawn, Reconcile
    <3>5. CASE Close(m)
      BY <2>1, <2>2, <2>4, <2>6, <3>5 DEF Close, CloseOwned, CloseCleanup, CloseForeign, AfterStop, Ending
    <3>6. CASE pc[m] \in {"idle", "counting"} /\ \E g \in Gen : NoticeDead(m, g)
      BY <2>1, <2>4, <2>6, <3>6 DEF NoticeDead, AfterStop, Ending
    <3> QED
      BY <1>2, <3>1, <3>2, <3>3, <3>4, <3>5, <3>6
  <2> QED
    BY <2>7, StayKeepsExitInv DEF Leaves
<1> QED
  BY <1>1, <1>2

LEMMA EndKeepsExitInv ==
    ASSUME IInv, ExitInv, OneRouter, NEW m \in Manager, Settle(m) \/ Unregister(m)
    PROVE  ExitInv'
<1>1. owned' = owned /\ local' = local /\ todo' = todo /\ worker' = worker
  BY DEF Settle, Unregister
<1>2. pc[m] \in Ending /\ job[m] \in Job /\ DOMAIN pc = Manager /\ DOMAIN job = Manager
  BY DEF Settle, Unregister, Ending, IInv, TypeOK
<1>3. (pc'[m] \notin Ending => job'[m].back = "idle") /\ (Leaves(m)' => Leaves(m))
  <2>1. CASE Return(m)
    <3>1. pc'[m] = job[m].back /\ job'[m].back = "idle"
      BY <1>2, <2>1 DEF Return, Goto, NoJob
    <3> QED
      BY <3>1 DEF Leaves
  <2>2. ASSUME NEW i, Enter(m, "unregistering", i, job[m].gen, job[m].back)
        PROVE  pc'[m] = "unregistering" /\ job'[m].back = job[m].back
    BY <1>2, <2>2 DEF Enter, Goto, Job
  <2> QED
    BY <2>1, <2>2 DEF Settle, Unregister, Leaves, Ending
<1> QED
  BY <1>1, <1>3, StayKeepsExitInv DEF Serving, Runs, Exists

LEMMA WorkerKeepsExitInv ==
    ASSUME IInv, ExitInv, NEW g \in Gen, BecomeReady(g) \/ WorkerExits(g)
    PROVE  ExitInv'
<1>1. UNCHANGED <<owned, local, todo, pc, job>>
  BY DEF BecomeReady, WorkerExits, books
<1>2. \A h \in Gen, m \in Manager : (Runs(m, h)' => Runs(m, h)) /\ (Serving(h)' => Serving(h))
  BY DEF BecomeReady, WorkerExits, Become, Runs, Exists, Serving, IInv, TypeOK, Worker
<1>3. \A m \in Manager, h \in Gen : Waits(m, h)' <=> Waits(m, h)
  BY <1>1 DEF Waits, Ids
<1> QED
  BY <1>1, <1>2, <1>3 DEF ExitInv, Leaves

LEMMA NextExitInv == OneRouter /\ IInv /\ ExitInv /\ [Next]_vars => ExitInv'
<1> SUFFICES ASSUME OneRouter, IInv, ExitInv, [Next]_vars PROVE ExitInv'
  OBVIOUS
<1>1. ASSUME NEW m \in Manager, Call(m) PROVE ExitInv'
  BY <1>1, CallKeepsExitInv, ExitKeepsExitInv DEF Call
<1>2. ASSUME NEW m \in Manager, Step(m) PROVE ExitInv'
  BY <1>2, CallKeepsExitInv, CloseNextKeepsExitInv, EndKeepsExitInv DEF Step, Leave
<1>3. ASSUME NEW m \in Manager, Crash(m) \/ Interrupt(m) PROVE ExitInv'
  BY <1>3, CallKeepsExitInv, ExitKeepsExitInv DEF Crash
<1>4. CASE UNCHANGED vars
  BY <1>4 DEF vars, books, ExitInv, Leaves, Waits, Ids, Serving, Runs, Exists
<1> QED
  BY <1>1, <1>2, <1>3, <1>4, WorkerKeepsExitInv DEF Next

\* close_all_sessions (idalib_manager.py): when a router that is alone has gone
\* through its sessions at exit, whether its input ended or an interrupt came in
\* the middle of a call, none of the workers it started still serves, whichever
\* stops failed, but for the one whose start that interrupt cut short.
THEOREM ExitAlwaysComplete ==
    ASSUME OneRouter
    PROVE  Spec => ExitLeavesNothing
<1>1. Init => ExitInv
  BY DEF Init, ExitInv, Leaves, NoJob
<1>2. ExitInv /\ [Next]_vars =>
        [\A m \in Manager : Leave(m) =>
            \A g \in Gen : worker[g].by = m /\ ~worker[g].cut => ~Serving(g)]_vars
  BY DEF ExitInv, Leaves, Leave, Waits, Runs, Exists, Serving
<1>3. OneRouter /\ IInv /\ ExitInv /\ [Next]_vars => IInv' /\ ExitInv'
  BY NextIInv, NextExitInv
<1> QED
  BY InitIInv, <1>1, <1>2, <1>3, PTL DEF Spec, ExitLeavesNothing
-----------------------------------------------------------------------------
(* The limit and the books of a router that is alone.  A worker whose start  *)
(* was cut short has a router only while that router leaves.                 *)

CutInv == \A m \in Manager, g \in Gen : worker[g].by = m /\ worker[g].cut => Leaves(m)

\* Between calls every process of the router is in its books, under a pid of its
\* own, so what it counts is at least what it has.
LEMMA CountCoversOwn ==
    ASSUME IInv, ExitInv, CutInv, IsFiniteSet(Pid), NEW m \in Manager, pc[m] = "counting"
    PROVE  IsFiniteSet(Own(m)) /\ Cardinality(Own(m)) \in Nat /\ WorkersCounted(m) \in Nat
           /\ Cardinality(Own(m)) <= WorkersCounted(m)
<1> DEFINE P == {worker[g].pid : g \in Tracked(m)}
           Q == {p \in {doc.inst[i].info.pid : i \in Live(doc)} : IsProcessAlive(p)}
           f == [g \in Own(m) |-> worker[g].pid]
<1>1. Own(m) \subseteq Tracked(m)
  <2>1. job[m].gen = 0 /\ 0 \notin Gen
    BY ManagerAssumption DEF IInv, JobInv, Calm
  <2>2. ~Leaves(m)
    BY DEF Leaves, ExitInv, Ending
  <2> QED
    BY <2>1, <2>2 DEF Own, CutInv, IInv, NoWorkerForgotten
<1>2. P \subseteq Pid
  BY DEF IInv, TypeOK, BooksInv, WorkersInv, Tracked
<1>3. Q \subseteq Pid
  BY ManagerAssumption DEF IInv, TypeOK, Sound, IsDoc, Entry
<1>4. IsFiniteSet(P \cup Q) /\ WorkersCounted(m) = Cardinality(P \cup Q)
  BY <1>2, <1>3, FS_Subset DEF WorkersCounted
<1>5. f \in [Own(m) -> P \cup Q] /\ \A g, h \in Own(m) : f[g] = f[h] => g = h
  BY <1>1 DEF Own, IInv, WorkersInv
<1> HIDE DEF P, Q, f
<1>6. f \in Injection(Own(m), P \cup Q)
  BY <1>5 DEF Injection, IsInjective
<1> QED
  BY <1>4, <1>6, FS_Injection, FS_CardinalityType


\* Only Spawn adds a process.
LEMMA FadeOrSpawn ==
    ASSUME IInv, NEW m \in Manager, Call(m) \/ Step(m) \/ Crash(m)
    PROVE  Spawn(m) \/ Fades
<1> USE DEF IInv
<1>1. ASSUME worker' = worker PROVE Fades
  BY <1>1 DEF Fades
<1>2. ASSUME NEW i, NEW g, NEW back, CloseOwned(m, i, g, back) PROVE Fades
  <2>1. g \in Gen /\ worker[g].st # "none" /\ (StopConfirmed(g) \/ StopUnconfirmed(g))
    BY <1>2 DEF CloseOwned, TypeOK, BooksInv, Tracked
  <2> QED
    BY <2>1, StopFacts
<1>3. ASSUME NEW g, NEW back, CloseCleanup(m, g, back) PROVE Fades
  <2>1. g \in Gen /\ worker[g].st # "none" /\ (StopConfirmed(g) \/ StopUnconfirmed(g) \/ worker' = worker)
    BY <1>3 DEF CloseCleanup, TypeOK, BooksInv, Tracked
  <2> QED
    BY <1>1, <2>1, StopFacts
<1>4. CASE WorkerExited(m) \/ Abandon(m)
  <2>1. job[m].gen \in Gen /\ worker[job[m].gen].st # "none"
    BY <1>4 DEF WorkerExited, Abandon, JobInv, Starting
  <2> QED
    BY <1>4, <2>1, StopFacts DEF WorkerExited, Abandon
<1>5. CASE Crash(m) \/ Leave(m)
  BY <1>5, VanishFacts DEF Crash, Leave
<1>6. CASE Close(m) \/ CloseNext(m)
  BY <1>1, <1>2, <1>3, <1>6 DEF Close, CloseNext, CloseForeign
<1>7. CASE \/ Start(m) \/ Exit(m) \/ Sweep(m) \/ ExpireDead(m) \/ Serve(m) \/ \E p \in Path : Open(m, p)
           \/ \E g \in Gen : NoticeDead(m, g)
  BY <1>1, <1>7 DEF Start, Exit, Sweep, ExpireDead, Serve, Open, NoticeDead
<1>8. CASE \/ Count(m) \/ SpawnFails(m) \/ WorkerAnswers(m) \/ WorkerLate(m) \/ Register(m)
           \/ RegisterRaises(m) \/ Reconcile(m) \/ Settle(m) \/ Unregister(m)
  BY <1>1, <1>8 DEF Count, SpawnFails, WorkerAnswers, WorkerLate, Register, RegisterRaises,
                    Reconcile, Settle, Unregister
<1> QED
  BY <1>4, <1>5, <1>6, <1>7, <1>8 DEF Call, Step

\* Only a count below the maximum leads to Spawn.
LEMMA SpawnsCounted ==
    ASSUME IInv, NEW m \in Manager, Call(m) \/ Step(m) \/ Crash(m), pc'[m] = "spawning"
    PROVE  pc[m] = "counting" /\ ~(WorkersCounted(m) >= MaxWorkers) /\ ~Spawn(m)
<1> USE DEF IInv
<1>0. m \in DOMAIN pc /\ MaxWorkers \in Nat /\ TypeOK /\ JobInv
  BY ManagerAssumption DEF TypeOK
<1>1. ASSUME NEW l, NEW j, Goto(m, l, j) PROVE l = "spawning"
  BY <1>0, <1>1 DEF Goto
<1>2. ~Return(m)
  BY <1>0, ReturnFacts
<1>3. ASSUME NEW l \in Ending, NEW i, NEW g, NEW back, Enter(m, l, i, g, back) PROVE FALSE
  BY <1>1, <1>3 DEF Enter, Ending
<1>4. ASSUME NEW g, NEW back \in {"idle", "counting", "leaving"}, AfterStop(m, g, back) PROVE FALSE
  BY <1>1, <1>3, <1>4 DEF AfterStop, Ending
<1>5. ASSUME NEW i, NEW g, NEW back \in {"idle", "leaving"}, CloseOwned(m, i, g, back) \/ CloseCleanup(m, g, back)
      PROVE  FALSE
  BY <1>1, <1>3, <1>4, <1>5 DEF CloseOwned, CloseCleanup, Ending
<1>6. ~Close(m) /\ ~CloseNext(m)
  BY <1>3, <1>5 DEF Close, CloseNext, CloseForeign, Ending
<1>7. ~Start(m) /\ ~Exit(m) /\ ~ExpireDead(m) /\ ~Serve(m) /\ ~Spawn(m) /\ \A p \in Path : ~Open(m, p)
  BY <1>1 DEF Start, Exit, ExpireDead, Serve, Spawn, Open
<1>8. ~Sweep(m)
  BY <1>1 DEF Sweep
<1>9. \A g \in Gen : pc[m] \in {"idle", "counting"} => ~NoticeDead(m, g)
  BY <1>3, <1>4 DEF NoticeDead, Ending
<1>10. ~Crash(m) /\ ~Leave(m)
  BY <1>1 DEF Crash, Leave, Vanish
<1>11. ~WorkerAnswers(m) /\ ~WorkerLate(m) /\ ~RegisterRaises(m)
  BY <1>1 DEF WorkerAnswers, WorkerLate, RegisterRaises
<1>12. ~SpawnFails(m) /\ ~WorkerExited(m) /\ ~Register(m) /\ ~Abandon(m) /\ ~Unregister(m)
  BY <1>2 DEF SpawnFails, WorkerExited, Register, Abandon, Unregister
<1>13. ~Reconcile(m) /\ ~Settle(m)
  BY <1>1, <1>2, <1>3 DEF Reconcile, Settle, Ending
<1>14. Count(m)
  BY <1>6, <1>7, <1>8, <1>9, <1>10, <1>11, <1>12, <1>13 DEF Call, Step
<1>15. pc[m] = "counting" /\ ~(WorkersCounted(m) >= MaxWorkers)
  BY <1>2, <1>14 DEF Count
<1> QED
  BY <1>7, <1>15

LEMMA InitCut == Init => ExitInv /\ CutInv
BY DEF Init, ExitInv, CutInv, Leaves, NoJob

\* An exit goes on to its end.
LEMMA LeavesOn ==
    ASSUME IInv, ExitInv, NEW m \in Manager, Leaves(m), Call(m) \/ Step(m) \/ Interrupt(m) \/ Crash(m), ~Vanish(m)
    PROVE  Leaves(m)'
<1> USE DEF IInv
<1>1. pc[m] = "leaving" \/ (pc[m] \in Ending /\ job[m].back = "leaving")
  BY DEF Leaves, ExitInv
<1>2. job[m] \in Job /\ DOMAIN pc = Manager /\ DOMAIN job = Manager
  BY DEF TypeOK
<1>3. ASSUME NEW l, NEW i, NEW g, Enter(m, l, i, g, "leaving") PROVE Leaves(m)'
  BY <1>2, <1>3 DEF Enter, Goto, Job, Leaves
<1>4. ASSUME NEW j, Goto(m, "leaving", j) PROVE Leaves(m)'
  BY <1>2, <1>4 DEF Goto, Leaves
<1>5. CASE CloseNext(m)
  BY <1>3, <1>4, <1>5 DEF CloseNext, CloseOwned, CloseCleanup, AfterStop
<1>6. CASE job[m].back = "leaving" /\ (Settle(m) \/ Unregister(m))
  BY <1>3, <1>4, <1>6 DEF Settle, Unregister, Return
<1>7. pc[m] = "leaving" => ~Settle(m) /\ ~Unregister(m)
  BY DEF Settle, Unregister
<1>8. pc[m] \in Ending \cup {"leaving"} =>
        /\ ~Start(m) /\ ~Exit(m) /\ ~Close(m) /\ ~Sweep(m) /\ ~ExpireDead(m) /\ ~Serve(m)
        /\ \A p \in Path : ~Open(m, p)
        /\ pc[m] # "idle" /\ pc[m] # "counting"
  BY DEF Start, Exit, Close, Sweep, ExpireDead, Serve, Open, Ending
<1>9. pc[m] \in Ending \cup {"leaving"} =>
        /\ ~Count(m) /\ ~Spawn(m) /\ ~SpawnFails(m) /\ ~WorkerAnswers(m) /\ ~WorkerExited(m) /\ ~WorkerLate(m)
        /\ ~Register(m) /\ ~RegisterRaises(m) /\ ~Reconcile(m) /\ ~Abandon(m)
  BY DEF Count, Spawn, SpawnFails, WorkerAnswers, WorkerExited, WorkerLate, Register, RegisterRaises,
         Reconcile, Abandon, Ending
<1>10. ~Interrupt(m)
  BY <1>1 DEF Interrupt
<1> QED
  BY <1>1, <1>5, <1>6, <1>7, <1>8, <1>9, <1>10 DEF Call, Step, Leave, Crash

LEMMA NextCutInv ==
    ASSUME OneRouter, IInv, ExitInv, CutInv, [Next]_vars
    PROVE  CutInv'
<1>0. TypeOK /\ JobInv /\ None \notin Manager
  BY ManagerAssumption DEF IInv
<1>1. ASSUME NEW m \in Manager, Call(m) \/ Step(m) \/ Interrupt(m) \/ Crash(m) PROVE CutInv'
  <2>1. \A n \in Manager : n = m
    BY DEF OneRouter
  <2>2. CASE Vanish(m)
    BY <1>0, <2>1, <2>2, VanishFacts DEF CutInv
  <2>3. CASE Leaves(m) /\ ~Vanish(m)
    BY <1>1, <2>1, <2>3, LeavesOn DEF CutInv
  <2>4. CASE ~Leaves(m) /\ Interrupt(m)
    BY <1>0, <2>1, <2>4, InterruptFacts DEF JobInv, CutInv, Leaves
  <2>5. CASE ~Leaves(m) /\ Fades
    BY <1>0, <2>1, <2>5 DEF Fades, CutInv
  <2>6. CASE ~Leaves(m) /\ Spawn(m)
    <3>1. PICK g \in Gen : ~worker'[g].cut /\ \A h \in Gen \ {g} : worker'[h] = worker[h]
      BY <1>0, <2>6 DEF Spawn, TypeOK
    <3> QED
      BY <2>1, <2>6, <3>1 DEF CutInv
  <2> QED
    BY <1>1, <2>2, <2>3, <2>4, <2>5, <2>6, FadeOrSpawn
<1>2. ASSUME NEW g \in Gen, BecomeReady(g) \/ WorkerExits(g) PROVE CutInv'
  <2>1. Fades /\ pc' = pc /\ job' = job
    BY <1>0, <1>2, BecomeFades DEF BecomeReady, WorkerExits, States
  <2> QED
    BY <1>0, <2>1 DEF Fades, CutInv, Leaves
<1>3. CASE UNCHANGED vars
  BY <1>3 DEF vars, CutInv, Leaves
<1> QED
  BY <1>1, <1>2, <1>3 DEF Next

LEMMA FadesOwn ==
    ASSUME TypeOK, IsFiniteSet(Gen), NEW m \in Manager, Fades
    PROVE  IsFiniteSet(Own(m)) /\ IsFiniteSet(Own(m)') /\ Cardinality(Own(m)') <= Cardinality(Own(m))
           /\ Cardinality(Own(m)') \in Nat /\ Cardinality(Own(m)) \in Nat
<1>1. Own(m) \subseteq Gen
  BY DEF Own
<1>2. Own(m)' \subseteq Own(m)
  BY ManagerAssumption DEF Own, Fades, Exists
<1> QED
  BY <1>1, <1>2, FS_Subset, FS_CardinalityType

LEMMA NextLimit ==
    ASSUME OneRouter, IsFiniteSet(Gen), IsFiniteSet(Pid), IInv, ExitInv, CutInv, LimitInv, [Next]_vars
    PROVE  LimitInv'
<1>0. MaxWorkers \in Nat /\ TypeOK
  BY ManagerAssumption DEF IInv
<1>1. ASSUME NEW m \in Manager, Call(m) \/ Step(m) \/ Crash(m) PROVE LimitInv'
  <2>1. \A n \in Manager : n = m
    BY DEF OneRouter
  <2>2. CASE Spawn(m)
    <3>1. PICK g \in Gen : worker'[g].by = m /\ \A h \in Gen \ {g} : worker'[h] = worker[h]
      BY <1>0, <2>2 DEF Spawn, TypeOK
    <3>2. pc[m] = "spawning" /\ pc'[m] # "spawning"
      BY <1>1, <2>2, SpawnsCounted DEF Spawn
    <3>3. Own(m) \subseteq Gen /\ Own(m)' \subseteq Own(m) \cup {g}
      BY <3>1 DEF Own, Exists
    <3>4. IsFiniteSet(Own(m)) /\ Cardinality(Own(m)) \in Nat /\ Cardinality(Own(m)) < MaxWorkers
      BY <3>2, <3>3, FS_Subset, FS_CardinalityType DEF LimitInv
    <3>5. IsFiniteSet(Own(m) \cup {g}) /\ Cardinality(Own(m) \cup {g}) <= Cardinality(Own(m)) + 1
      <4>1. /\ IsFiniteSet(Own(m) \cup {g})
            /\ Cardinality(Own(m) \cup {g}) = IF g \in Own(m) THEN Cardinality(Own(m)) ELSE Cardinality(Own(m)) + 1
        BY <3>4, FS_AddElement
      <4>2. Cardinality(Own(m)) \in Nat
        BY <3>4
      <4> HIDE DEF Own
      <4> QED
        BY <4>1, <4>2
    <3>6. Cardinality(Own(m)') <= Cardinality(Own(m) \cup {g}) /\ Cardinality(Own(m)') \in Nat
          /\ Cardinality(Own(m) \cup {g}) \in Nat
      BY <3>3, <3>5, FS_Subset, FS_CardinalityType
    <3>7. Cardinality(Own(m)') <= MaxWorkers
      BY <1>0, <3>4, <3>5, <3>6
    <3> QED
      BY <2>1, <3>2, <3>7 DEF LimitInv
  <2>3. CASE Fades
    <3>1. /\ Cardinality(Own(m)') <= Cardinality(Own(m))
          /\ Cardinality(Own(m)') \in Nat /\ Cardinality(Own(m)) \in Nat
      BY <1>0, <2>3, FadesOwn
    <3>2. Cardinality(Own(m)') <= MaxWorkers
      BY <1>0, <3>1 DEF LimitInv
    <3>3. pc'[m] = "spawning" => Cardinality(Own(m)') < MaxWorkers
      BY <1>0, <1>1, <3>1, SpawnsCounted, CountCoversOwn
    <3> QED
      BY <2>1, <3>2, <3>3 DEF LimitInv
  <2> QED
    BY <1>1, <2>2, <2>3, FadeOrSpawn
<1>2. ASSUME Fades, pc' = pc PROVE LimitInv'
  <2>1. ASSUME NEW m \in Manager
        PROVE  Cardinality(Own(m)') <= MaxWorkers /\ (pc[m] = "spawning" => Cardinality(Own(m)') < MaxWorkers)
    <3>1. /\ Cardinality(Own(m)') <= Cardinality(Own(m))
          /\ Cardinality(Own(m)') \in Nat /\ Cardinality(Own(m)) \in Nat
      BY <1>0, <1>2, FadesOwn
    <3> QED
      BY <1>0, <3>1 DEF LimitInv
  <2> QED
    BY <1>2, <2>1 DEF LimitInv
<1>3. ASSUME NEW g \in Gen, BecomeReady(g) \/ WorkerExits(g) PROVE Fades /\ pc' = pc
  BY <1>0, <1>3, BecomeFades DEF BecomeReady, WorkerExits, States
<1>4. CASE UNCHANGED vars
  BY <1>2, <1>4 DEF vars, Fades
<1>5. ASSUME NEW m \in Manager, Interrupt(m) PROVE LimitInv'
  <2>1. pc'[m] = "leaving" /\ \A g \in Gen : worker'[g].by = worker[g].by /\ worker'[g].st = worker[g].st
    BY <1>5, InterruptFacts DEF IInv, JobInv
  <2>2. Own(m)' = Own(m)
    BY <2>1 DEF Own, Exists
  <2> QED
    BY <2>1, <2>2 DEF OneRouter, LimitInv
<1> QED
  BY <1>1, <1>2, <1>3, <1>4, <1>5 DEF Next
-----------------------------------------------------------------------------
\* "Every exceptional path must either confirm process death or retain the
\* process" (spawn_session, idalib_manager.py): with one router, a worker process
\* it started and that has not ended is in its books or in the call it handles,
\* whatever registry calls, starts and stops fail.  The one exception is a worker
\* whose start an interrupt cut short.
THEOREM NoWorkerEverForgotten ==
    ASSUME OneRouter
    PROVE  Spec => []NoWorkerForgotten
<1>1. IInv /\ [Next]_vars => IInv'
  BY NextIInv
<1>2. IInv => NoWorkerForgotten
  BY DEF IInv
<1> QED
  BY InitIInv, <1>1, <1>2, PTL DEF Spec

\* With one router, its sessions and the registry agree between calls
\* (_register_and_track, _conditional_unregister in idalib_manager.py): every
\* session is registered, and every entry of a worker of its own that runs is a
\* session or waits for its clean-up.
THEOREM BooksAlwaysMatch ==
    ASSUME OneRouter
    PROVE  Spec => []BooksMatchRegistry
<1>1. IInv /\ ExitInv /\ CutInv /\ [Next]_vars => IInv' /\ ExitInv' /\ CutInv'
  BY NextIInv, NextExitInv, NextCutInv
<1>2. ASSUME IInv, ExitInv, CutInv, NEW m \in Manager, pc[m] = "idle"
      PROVE  /\ \A i \in Ids(m) : i \in Live(doc) /\ doc.inst[i].info.gen = owned[m][i]
             /\ \A i \in Live(doc), g \in Gen :
                   g = doc.inst[i].info.gen /\ worker[g].by = m /\ Exists(g) =>
                      (i \in Ids(m) /\ owned[m][i] = g) \/ g \in pend[m]
  <2>1. ~Leaves(m) /\ pc[m] \notin Starting
    BY <1>2 DEF ExitInv, Leaves, Ending, Starting
  <2> QED
    BY <1>2, <2>1 DEF IInv, BooksInv, EntriesKnown, Runs, CutInv
<1>3. IInv /\ ExitInv /\ CutInv => BooksMatchRegistry
  <2>1. IInv => \A i \in Live(doc) : doc.inst[i].info.gen \in Gen
    BY ManagerAssumption DEF IInv, TypeOK, Sound, IsDoc, Entry
  <2> QED
    BY <1>2, <2>1 DEF BooksMatchRegistry
<1> QED
  BY InitIInv, InitCut, <1>1, <1>3, PTL DEF Spec

\* With one router, the processes it started and that have not ended are never
\* more than MaxWorkers (_owned_worker_count): it counts what it could not stop,
\* too.  The number of workers ever started and of process ids is finite.
THEOREM LimitAlwaysKept ==
    ASSUME OneRouter, IsFiniteSet(Gen), IsFiniteSet(Pid)
    PROVE  Spec => []OwnLimit
<1>1. Init => LimitInv
  <2> SUFFICES ASSUME Init, NEW m \in Manager
               PROVE  Cardinality(Own(m)) <= MaxWorkers /\ pc[m] # "spawning"
    BY DEF LimitInv
  <2>1. Own(m) = {} /\ pc[m] # "spawning"
    BY DEF Init, Own, Exists
  <2> QED
    BY <2>1, FS_EmptySet, ManagerAssumption
<1>2. IInv /\ ExitInv /\ CutInv /\ LimitInv /\ [Next]_vars => IInv' /\ ExitInv' /\ CutInv' /\ LimitInv'
  BY NextIInv, NextExitInv, NextCutInv, NextLimit
<1>3. LimitInv => OwnLimit
  BY DEF LimitInv, OwnLimit, Own
<1> QED
  BY InitIInv, InitCut, <1>1, <1>2, <1>3, PTL DEF Spec
=============================================================================
