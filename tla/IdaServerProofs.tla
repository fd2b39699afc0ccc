--------------------------- MODULE IdaServerProofs ---------------------------
(***************************************************************************)
(* Proofs about IdaServer.tla and MainThread.tla for any number of         *)
(* requests, timeouts, request ids and sessions: between two calls IDA is  *)
(* left clean, the cancelled flag a tool sees was set by its own timer or  *)
(* watcher, and the table of pending requests names only requests that are *)
(* being served.                                                           *)
(***************************************************************************)
EXTENDS IdaServer, TLAPS

(* The main thread. *)

OnStack == {"body", "leaving", "joined"}

\* The call on the stack is the one that runs.
StackInv ==
    /\ \A r \in Request : phase[r] \in OnStack <=> Runs(r)
    /\ Idle => ~batch

\* Each queued call is in the queue once.
QueueInv ==
    /\ \A i \in 1..Len(queue) : phase[queue[i]] = "queued"
    /\ \A i, j \in 1..Len(queue) : queue[i] = queue[j] => i = j

\* A thread that may still set the flag belongs to a call whose body runs or
\* that waits for it, and is about to do so for a reason.
ThreadInv ==
    \A r \in Request :
        /\ timer[r] \in {"on", "firing"} => r \in Timed /\ phase[r] \in {"body", "leaving"}
        /\ watcher[r] \in {"on", "firing"} => r \in Watched /\ phase[r] \in {"body", "leaving"}
        /\ timer[r] = "firing" => expired[r]
        /\ watcher[r] = "firing" => event[r]

\* The flag is clear between calls, and during one that nobody guards.
FlagInv ==
    /\ Idle => flag = {}
    /\ \A r \in Request : Runs(r) /\ ~Guarded(r) => flag = {}
    /\ FlagIsOwn

MainInv == MainTypeOK /\ StackInv /\ QueueInv /\ ThreadInv /\ FlagInv

LEMMA MainInvInit == MainInit => MainInv
<1> SUFFICES ASSUME MainInit PROVE MainInv
  OBVIOUS
<1> USE DEF MainInit
<1>1. MainTypeOK
  <2>1. \A r \in Request : result[r] = None /\ phase[r] = "out" /\ timer[r] = "off" /\ watcher[r] = "off"
    OBVIOUS
  <2>2. queue \in Seq(Request) /\ stack \in {<<>>} \cup {<<r>> : r \in Request}
    OBVIOUS
  <2>3. phase \in [Request -> Phases] /\ result \in [Request -> Results \cup {None}]
    BY <2>1 DEF Phases
  <2>4. timer \in [Request -> Threads] /\ watcher \in [Request -> Threads]
    BY <2>1 DEF Threads
  <2> QED BY <2>2, <2>3, <2>4 DEF MainTypeOK
<1>2. StackInv
  BY DEF StackInv, OnStack, Runs, Idle
<1>3. QueueInv
  BY DEF QueueInv
<1>4. ThreadInv
  BY DEF ThreadInv
<1>5. FlagInv
  BY DEF FlagInv, FlagIsOwn
<1> QED BY <1>1, <1>2, <1>3, <1>4, <1>5 DEF MainInv

LEMMA MainInvClean == MainInv => IdleIsClean /\ FlagIsOwn
<1> SUFFICES ASSUME MainInv PROVE IdleIsClean /\ FlagIsOwn
  OBVIOUS
<1>1. ASSUME Idle, NEW r \in Request PROVE timer[r] \in {"off", "over"} /\ watcher[r] \in {"off", "over"}
  <2>1. phase[r] \notin {"body", "leaving"}
    BY <1>1 DEF MainInv, StackInv, OnStack, Idle, Runs
  <2>2. timer[r] \in Threads /\ watcher[r] \in Threads
    BY DEF MainInv, MainTypeOK
  <2> QED BY <2>1, <2>2 DEF MainInv, ThreadInv, Threads
<1> QED BY <1>1 DEF MainInv, StackInv, FlagInv, IdleIsClean

\* Only one call runs.
LEMMA OneRuns ==
    ASSUME NEW r \in Request, NEW q \in Request, Runs(r), Runs(q)
    PROVE  r = q
BY DEF Runs
-----------------------------------------------------------------------------
LEMMA QueueGrows ==
    ASSUME MainInv, NEW r \in Request, phase[r] = "out",
           queue' = Append(queue, r), phase' = [phase EXCEPT ![r] = "queued"]
    PROVE  queue' \in Seq(Request) /\ QueueInv'
<1> queue \in Seq(Request) /\ phase \in [Request -> Phases]
  BY DEF MainInv, MainTypeOK
<1>1. queue' \in Seq(Request) /\ Len(queue') = Len(queue) + 1
  OBVIOUS
<1>2. \A i \in 1..Len(queue) : queue[i] \in Request /\ queue'[i] = queue[i]
  OBVIOUS
<1>3. queue'[Len(queue) + 1] = r
  OBVIOUS
<1>4. \A i \in 1..Len(queue) : queue[i] # r
  BY DEF MainInv, QueueInv
<1>5. \A i \in 1..Len(queue') : i \in 1..Len(queue) \/ i = Len(queue) + 1
  BY <1>1
<1> QED BY <1>1, <1>2, <1>3, <1>4, <1>5 DEF MainInv, QueueInv

LEMMA QueueShrinks ==
    ASSUME MainInv, NEW r \in Request, queue # <<>>, r = Head(queue),
           queue' = Tail(queue), NEW p, phase' = [phase EXCEPT ![r] = p]
    PROVE  queue' \in Seq(Request) /\ QueueInv' /\ phase[r] = "queued"
<1> queue \in Seq(Request) /\ phase \in [Request -> Phases]
  BY DEF MainInv, MainTypeOK
<1>1. queue' \in Seq(Request) /\ Len(queue') = Len(queue) - 1 /\ Len(queue) \in Nat \ {0}
  OBVIOUS
<1>2. \A i \in 1..Len(queue') : i + 1 \in 1..Len(queue) /\ queue'[i] = queue[i + 1]
  OBVIOUS
<1>3. r = queue[1] /\ 1 \in 1..Len(queue)
  BY <1>1
<1>4. \A i \in 1..Len(queue') : queue'[i] # r /\ queue'[i] \in Request
  BY <1>1, <1>2, <1>3 DEF MainInv, QueueInv
<1>5. \A i \in 1..Len(queue') : phase'[queue'[i]] = "queued"
  BY <1>2, <1>4 DEF MainInv, QueueInv
<1>6. \A i, j \in 1..Len(queue') : queue'[i] = queue'[j] => i = j
  BY <1>1, <1>2 DEF MainInv, QueueInv
<1> QED BY <1>1, <1>3, <1>5, <1>6 DEF MainInv, QueueInv

\* A call that is not queued and leaves the queue alone.
LEMMA QueueStays ==
    ASSUME MainInv, NEW r \in Request, phase[r] # "queued",
           queue' = queue, NEW p, phase' = [phase EXCEPT ![r] = p]
    PROVE  QueueInv'
<1> queue \in Seq(Request) /\ phase \in [Request -> Phases]
  BY DEF MainInv, MainTypeOK
<1>1. \A i \in 1..Len(queue) : queue[i] \in Request /\ queue[i] # r
  BY DEF MainInv, QueueInv
<1> QED BY <1>1 DEF MainInv, QueueInv
-----------------------------------------------------------------------------
LEMMA ScheduleStep == ASSUME MainInv, NEW r \in Request, Schedule(r) PROVE MainInv'
<1> USE DEF Schedule
<1>1. queue' \in Seq(Request) /\ QueueInv'
  BY QueueGrows
<1>2. MainTypeOK'
  BY <1>1 DEF MainInv, MainTypeOK, Phases
<1>3. StackInv'
  BY DEF MainInv, MainTypeOK, StackInv, OnStack, Runs, Idle
<1>4. ThreadInv'
  BY DEF MainInv, MainTypeOK, ThreadInv
<1>5. FlagInv'
  BY DEF MainInv, FlagInv, FlagIsOwn, Runs, Idle, Guarded
<1> QED BY <1>1, <1>2, <1>3, <1>4, <1>5 DEF MainInv

LEMMA NotScheduledStep == ASSUME MainInv, NEW r \in Request, NotScheduled(r) PROVE MainInv'
<1> USE DEF NotScheduled
<1>1. QueueInv'
  BY QueueStays
<1>2. MainTypeOK'
  BY DEF MainInv, MainTypeOK, Phases, Results
<1>3. StackInv'
  BY DEF MainInv, MainTypeOK, StackInv, OnStack, Runs, Idle
<1>4. ThreadInv'
  BY DEF MainInv, MainTypeOK, ThreadInv
<1>5. FlagInv'
  BY DEF MainInv, FlagInv, FlagIsOwn, Runs, Idle, Guarded
<1> QED BY <1>1, <1>2, <1>3, <1>4, <1>5 DEF MainInv

LEMMA RefuseStep == ASSUME MainInv, NEW r \in Request, Refuse(r) PROVE MainInv'
<1> USE DEF Refuse
<1>1. queue' \in Seq(Request) /\ QueueInv' /\ phase[r] = "queued"
  BY QueueShrinks
<1>2. MainTypeOK'
  BY <1>1 DEF MainInv, MainTypeOK, Phases, Results
<1>3. StackInv'
  BY <1>1 DEF MainInv, MainTypeOK, StackInv, OnStack, Runs, Idle
<1>4. ThreadInv'
  BY <1>1 DEF MainInv, MainTypeOK, ThreadInv
<1>5. FlagInv'
  BY DEF MainInv, FlagInv, FlagIsOwn, Runs, Idle, Guarded
<1> QED BY <1>1, <1>2, <1>3, <1>4, <1>5 DEF MainInv

LEMMA EnterStep == ASSUME MainInv, NEW r \in Request, Enter(r) PROVE MainInv'
<1> USE DEF Enter
<1>1. queue' \in Seq(Request) /\ QueueInv' /\ phase[r] = "queued"
  BY QueueShrinks
<1>2. MainTypeOK'
  <2>1. Guarded(r) \in BOOLEAN
    BY DEF Guarded
  <2> QED BY <1>1, <2>1 DEF MainInv, MainTypeOK, Phases, Threads
<1>3. StackInv'
  BY <1>1 DEF MainInv, MainTypeOK, StackInv, OnStack, Runs, Idle
<1>4. ThreadInv'
  BY <1>1 DEF MainInv, MainTypeOK, ThreadInv
<1>5. FlagInv'
  <2>1. flag' = {}
    BY DEF MainInv, FlagInv
  <2> QED BY <2>1 DEF FlagInv, FlagIsOwn
<1> QED BY <1>1, <1>2, <1>3, <1>4, <1>5 DEF MainInv

LEMMA DeadlineStep == ASSUME MainInv, NEW r \in Request, DeadlinePasses(r) PROVE MainInv'
<1> USE DEF DeadlinePasses
<1>1. QueueInv'
  BY DEF MainInv, QueueInv
<1>2. MainTypeOK'
  BY DEF MainInv, MainTypeOK
<1>3. StackInv'
  BY DEF MainInv, StackInv, Runs, Idle
<1>4. ThreadInv'
  BY DEF MainInv, MainTypeOK, ThreadInv
<1>5. FlagInv'
  BY DEF MainInv, MainTypeOK, FlagInv, FlagIsOwn, Runs, Idle, Guarded
<1> QED BY <1>1, <1>2, <1>3, <1>4, <1>5 DEF MainInv

\* The timer and the watcher: whoever fires belongs to the call that runs.
LEMMA FiringRuns ==
    ASSUME MainInv, NEW r \in Request, timer[r] = "firing" \/ watcher[r] = "firing"
    PROVE  Runs(r) /\ Guarded(r) /\ (expired[r] \/ event[r])
<1>1. phase[r] \in {"body", "leaving"}
  BY DEF MainInv, ThreadInv
<1> QED BY <1>1 DEF MainInv, ThreadInv, StackInv, OnStack, Guarded

LEMMA TimersStep == ASSUME MainInv, NEW r \in Request, Timers(r) PROVE MainInv'
<1>1. UNCHANGED <<queue, stack, phase, result, event, expired, armed, batch>>
  BY DEF Timers, TimerWakes, TimerFires, WatcherWakes, WatcherFires
<1>2. QueueInv' /\ StackInv'
  BY <1>1 DEF MainInv, QueueInv, StackInv, Runs, Idle
<1>3. MainTypeOK'
  BY <1>1 DEF MainInv, MainTypeOK, Timers, TimerWakes, TimerFires, WatcherWakes, WatcherFires, Threads
<1>4. ThreadInv'
  BY <1>1 DEF MainInv, MainTypeOK, ThreadInv, Timers, TimerWakes, TimerFires, WatcherWakes, WatcherFires
<1>5. FlagInv'
  <2>1. CASE flag' = flag
    BY <1>1, <2>1 DEF MainInv, FlagInv, FlagIsOwn, Runs, Idle, Guarded
  <2>2. CASE flag' # flag
    <3>1. flag' = flag \cup {r} /\ (timer[r] = "firing" \/ watcher[r] = "firing")
      BY <2>2 DEF Timers, TimerWakes, TimerFires, WatcherWakes, WatcherFires
    <3>2. Runs(r) /\ Guarded(r) /\ (expired[r] \/ event[r])
      BY <3>1, FiringRuns
    <3>3. ASSUME NEW q \in Request, Runs(q)' PROVE q = r
      BY <1>1, <3>2, <3>3 DEF Runs
    <3>4. flag \subseteq {q \in {r} : expired[q] \/ event[q]}
      BY <3>2 DEF MainInv, FlagInv, FlagIsOwn
    <3>5. ~Idle'
      BY <1>1, <3>2 DEF Idle, Runs
    <3>6. Guarded(r)'
      BY <3>2 DEF Guarded
    <3>7. FlagIsOwn'
      BY <1>1, <3>1, <3>2, <3>3, <3>4 DEF FlagIsOwn
    <3> QED BY <3>3, <3>5, <3>6, <3>7 DEF FlagInv
  <2> QED BY <2>1, <2>2
<1> QED BY <1>2, <1>3, <1>4, <1>5 DEF MainInv

LEMMA LeaveStep ==
    ASSUME MainInv, NEW r \in Request, NEW v \in Results, Leave(r, v) PROVE MainInv'
<1> USE DEF Leave
<1>1. QueueInv'
  BY QueueStays
<1>2. MainTypeOK'
  BY DEF MainInv, MainTypeOK, Phases, Threads
<1>3. StackInv'
  BY DEF MainInv, MainTypeOK, StackInv, OnStack, Runs, Idle
<1>4. ThreadInv'
  BY DEF MainInv, MainTypeOK, ThreadInv
<1>5. FlagInv'
  BY DEF MainInv, FlagInv, FlagIsOwn, Runs, Idle, Guarded
<1> QED BY <1>1, <1>2, <1>3, <1>4, <1>5 DEF MainInv

LEMMA JoinStep == ASSUME MainInv, NEW r \in Request, Join(r) PROVE MainInv'
<1> USE DEF Join
<1>1. QueueInv'
  BY QueueStays
<1>2. MainTypeOK'
  BY DEF MainInv, MainTypeOK, Phases
<1>3. StackInv'
  BY DEF MainInv, MainTypeOK, StackInv, OnStack, Runs, Idle
<1>4. ThreadInv'
  BY DEF MainInv, MainTypeOK, ThreadInv
<1>5. FlagInv'
  BY DEF MainInv, FlagInv, FlagIsOwn, Runs, Idle, Guarded
<1> QED BY <1>1, <1>2, <1>3, <1>4, <1>5 DEF MainInv

LEMMA ExitStep == ASSUME MainInv, NEW r \in Request, Exit(r) PROVE MainInv'
<1> USE DEF Exit
<1>1. QueueInv'
  BY QueueStays
<1>2. MainTypeOK'
  BY DEF MainInv, MainTypeOK, Phases
<1>3. StackInv'
  BY DEF MainInv, MainTypeOK, StackInv, OnStack, Runs, Idle
<1>4. ThreadInv'
  BY DEF MainInv, MainTypeOK, ThreadInv
<1>5. FlagInv'
  <2>1. flag' = {}
    BY DEF MainInv, FlagInv
  <2> QED BY <2>1 DEF FlagInv, FlagIsOwn
<1> QED BY <1>1, <1>2, <1>3, <1>4, <1>5 DEF MainInv

LEMMA SetEventStep == ASSUME MainInv, NEW r \in Request, SetEvent(r) PROVE MainInv'
<1> USE DEF SetEvent
<1>1. QueueInv'
  BY DEF MainInv, QueueInv
<1>2. MainTypeOK'
  BY DEF MainInv, MainTypeOK
<1>3. StackInv'
  BY DEF MainInv, StackInv, Runs, Idle
<1>4. ThreadInv'
  BY DEF MainInv, MainTypeOK, ThreadInv
<1>5. FlagInv'
  BY DEF MainInv, MainTypeOK, FlagInv, FlagIsOwn, Runs, Idle, Guarded
<1> QED BY <1>1, <1>2, <1>3, <1>4, <1>5 DEF MainInv

LEMMA MainUnchanged == MainInv /\ UNCHANGED mainVars => MainInv'
BY DEF MainInv, mainVars, MainTypeOK, StackInv, QueueInv, ThreadInv, FlagInv, FlagIsOwn,
       Runs, Idle, Guarded

LEMMA MainStepsStep == ASSUME MainInv, NEW r \in Request, MainSteps(r) PROVE MainInv'
BY EnterStep, LeaveStep, JoinStep, ExitStep
   DEF MainSteps, ToolEnds, FlagSeen, ProfileRaises, Results
-----------------------------------------------------------------------------
(* The server. *)

ServerTypeOK ==
    /\ running \in BOOLEAN /\ listening \in BOOLEAN
    /\ ui \in {"pumps", "closes"}
    /\ starts \in {0} \cup Starts
    /\ handler \in [Request -> {"none", "dispatch", "call", "wait", "respond", "over"}]
    /\ answer \in [Request -> {None, "sent", "400"}]
    /\ pending \in [RpcId -> Request \cup {None}]
    /\ session \in [Session -> {"none", "open", "broken", "dropped", "closed"}]
    /\ epoch \in [Session -> {0} \cup Starts]

\* The table has a request under its own id, while it is served.
PendingInv ==
    \A i \in RpcId : pending[i] # None =>
        handler[pending[i]] \in {"call", "wait"} /\ IdOf[pending[i]] = i

ServerInv == ServerTypeOK /\ PendingInv

IInv == MainInv /\ ServerInv

LEMMA InitIInv == Init => IInv
<1> SUFFICES ASSUME Init PROVE IInv
  OBVIOUS
<1>1. MainInv
  BY MainInvInit DEF Init
<1>2. ServerTypeOK
  BY DEF Init, ServerTypeOK
<1>3. PendingInv
  BY DEF Init, PendingInv
<1> QED BY <1>1, <1>2, <1>3 DEF IInv, ServerInv

LEMMA IInvImplies == IInv => TypeOK /\ IdleIsClean /\ FlagIsOwn /\ PendingIsServed
<1> SUFFICES ASSUME IInv PROVE TypeOK /\ IdleIsClean /\ FlagIsOwn /\ PendingIsServed
  OBVIOUS
<1>1. TypeOK
  BY DEF IInv, ServerInv, MainInv, ServerTypeOK, TypeOK
<1>2. IdleIsClean /\ FlagIsOwn
  BY MainInvClean DEF IInv
<1>3. PendingIsServed
  BY DEF IInv, ServerInv, PendingInv, PendingIsServed
<1> QED BY <1>1, <1>2, <1>3

\* The steps of a handler thread.
LEMMA HandlerStep ==
    ASSUME IInv, NEW r \in Request, Accept(r) \/ Handle(r)
    PROVE  IInv'
<1> USE DEF To, IInv, ServerInv
<1>0. IdOf \in [Request -> RpcId \cup {None}] /\ None \notin RpcId /\ None \notin Request
  BY IdaServerAssumption, MainThreadAssumption
<1>1. CASE Accept(r)
  <2>1. MainInv'
    BY <1>1, MainUnchanged DEF Accept
  <2>2. ServerTypeOK'
    BY <1>1 DEF Accept, ServerTypeOK
  <2>3. PendingInv'
    BY <1>0, <1>1 DEF Accept, ServerTypeOK, PendingInv
  <2> QED BY <2>1, <2>2, <2>3
<1>2. CASE Register(r)
  <2>1. MainInv'
    BY <1>2, MainUnchanged DEF Register
  <2>2. ServerTypeOK'
    BY <1>0, <1>2 DEF Register, ServerTypeOK
  <2>3. PendingInv'
    BY <1>0, <1>2 DEF Register, ServerTypeOK, PendingInv
  <2> QED BY <2>1, <2>2, <2>3
<1>3. CASE GroupDisabled(r)
  <2>1. MainInv'
    BY <1>3, MainUnchanged DEF GroupDisabled
  <2>2. ServerTypeOK'
    BY <1>3 DEF GroupDisabled, ServerTypeOK
  <2>3. PendingInv'
    BY <1>0, <1>3 DEF GroupDisabled, ServerTypeOK, PendingInv
  <2> QED BY <2>1, <2>2, <2>3
<1>4. CASE CallTool(r)
  <2>1. MainInv'
    BY <1>4, ScheduleStep, NotScheduledStep DEF CallTool
  <2>2. ServerTypeOK'
    BY <1>4 DEF CallTool, ServerTypeOK
  <2>3. PendingInv'
    BY <1>0, <1>4 DEF CallTool, ServerTypeOK, PendingInv
  <2> QED BY <2>1, <2>2, <2>3
<1>5. CASE Unregister(r)
  <2>1. MainInv'
    BY <1>5, MainUnchanged DEF Unregister
  <2>2. ServerTypeOK'
    BY <1>0, <1>5 DEF Unregister, ServerTypeOK
  <2>3. PendingInv'
    BY <1>0, <1>5 DEF Unregister, ServerTypeOK, PendingInv
  <2> QED BY <2>1, <2>2, <2>3
<1>6. CASE Respond(r)
  <2>1. MainInv'
    BY <1>6, MainUnchanged DEF Respond
  <2>2. ServerTypeOK'
    BY <1>6 DEF Respond, ServerTypeOK
  <2>3. PendingInv'
    BY <1>0, <1>6 DEF Respond, ServerTypeOK, PendingInv
  <2> QED BY <2>1, <2>2, <2>3
<1> QED BY <1>1, <1>2, <1>3, <1>4, <1>5, <1>6 DEF Handle

\* What the main thread and the background threads do.
LEMMA MainThreadStep ==
    ASSUME IInv, NEW r \in Request, Pump(r) \/ Reenter(r) \/ Background(r)
    PROVE  IInv'
<1>1. MainInv'
  BY MainStepsStep, RefuseStep, DeadlineStep, TimersStep DEF IInv, Pump, Reenter, Background
<1>2. ServerInv'
  BY DEF IInv, ServerInv, ServerTypeOK, PendingInv, Pump, Reenter, Background, serverVars
<1> QED BY <1>1, <1>2 DEF IInv

LEMMA CancelStep == ASSUME IInv, NEW m \in Request, Cancel(m) PROVE IInv'
<1>1. pending[IdOf[m]] \in Request
  BY IdaServerAssumption DEF IInv, ServerInv, ServerTypeOK, Cancel
<1>2. MainInv'
  BY <1>1, SetEventStep DEF IInv, Cancel
<1>3. ServerInv'
  BY DEF IInv, ServerInv, ServerTypeOK, PendingInv, Cancel, serverVars
<1> QED BY <1>2, <1>3 DEF IInv

\* The table and the handlers are not touched by sessions and databases.
LEMMA OtherStep ==
    ASSUME IInv,
           \/ \E s \in Session : Connect(s) \/ Break(s) \/ EndSession(s)
           \/ StartServer \/ BindFails \/ StopSessions \/ CloseSocket
    PROVE  IInv'
<1>1. UNCHANGED <<mainVars, handler, answer, pending>>
  BY DEF Connect, Break, EndSession, StartServer, BindFails, StopSessions, CloseSocket
<1>2. MainInv'
  BY <1>1, MainUnchanged DEF IInv
<1>3. ServerTypeOK'
  <2> USE DEF IInv, ServerInv, ServerTypeOK
  <2>1. ASSUME NEW s \in Session, Connect(s) PROVE ServerTypeOK'
    BY <2>1 DEF Connect
  <2>2. ASSUME NEW s \in Session, Break(s) \/ EndSession(s) PROVE ServerTypeOK'
    BY <2>2 DEF Break, EndSession
  <2>3. CASE StartServer \/ BindFails
    BY <2>3 DEF StartServer, BindFails
  <2>4. CASE StopSessions \/ CloseSocket
    BY <2>4 DEF StopSessions, CloseSocket
  <2> QED BY <2>1, <2>2, <2>3, <2>4
<1>4. PendingInv'
  BY <1>1 DEF IInv, ServerInv, PendingInv
<1> QED BY <1>2, <1>3, <1>4 DEF IInv, ServerInv

LEMMA Inductive == IInv /\ [Next]_vars => IInv'
<1> SUFFICES ASSUME IInv, [Next]_vars PROVE IInv'
  OBVIOUS
<1>1. CASE UNCHANGED vars
  <2>1. MainInv'
    BY <1>1, MainUnchanged DEF IInv, vars
  <2>2. ServerInv'
    BY <1>1 DEF IInv, ServerInv, ServerTypeOK, PendingInv, vars, serverVars
  <2> QED BY <2>1, <2>2 DEF IInv
<1> QED BY <1>1, HandlerStep, MainThreadStep, CancelStep, OtherStep DEF Next

LEMMA Invariance == Spec => []IInv
BY InitIInv, Inductive, PTL DEF Spec
-----------------------------------------------------------------------------
\* The server and the main thread keep their shape.
THEOREM ServerTypeCorrect == Spec => []TypeOK
BY Invariance, IInvImplies, PTL

\* sync.py: between two calls the cancelled flag of IDA is clear, its dialogs
\* are shown (batch mode is off), and no timer or watcher is left that could set
\* the flag for what the user does next.
THEOREM IdleAlwaysClean == Spec => []IdleIsClean
BY Invariance, IInvImplies, PTL

\* sync.py: the cancelled flag a tool sees was set by its own timer after its
\* deadline, or by its own watcher after its event was set, whoever's cancel set it.
THEOREM FlagAlwaysOwn == Spec => []FlagIsOwn
BY Invariance, IInvImplies, PTL

\* jsonrpc.py: a cancel never sets the event of a request that has been answered.
THEOREM PendingAlwaysServed == Spec => []PendingIsServed
BY Invariance, IInvImplies, PTL
=============================================================================
