----------------------------- MODULE MainThread -----------------------------
(***************************************************************************)
(* ida_mcp/sync.py: how the tool call of a handler thread runs on the main *)
(* thread of IDA, with a deadline and a cancel event.                      *)
(*                                                                         *)
(* execute_sync queues a call for the main thread.  While its tool runs, a *)
(* timer thread (the deadline) and a watcher thread (the cancel event) may *)
(* set the cancelled flag of IDA, which is one flag for the whole process, *)
(* after testing that the call is still armed: the test and the set are    *)
(* two steps.                                                              *)
(***************************************************************************)
EXTENDS Naturals, Sequences, FiniteSets

CONSTANTS
    Request,       \* the calls; each is made by a handler thread of its own
    Timed,         \* those whose tool has a timeout greater than zero
    Watched,       \* those with a cancel event, i.e. with a JSON-RPC id
    Endless,       \* those whose tool is in a native loop that only looks at
                   \* the cancelled flag
    None

ASSUME MainThreadAssumption ==
    /\ Timed \subseteq Request /\ Watched \subseteq Request
    /\ Endless \subseteq Timed
    /\ None \notin Request

VARIABLES
    queue,         \* calls queued by execute_sync, in order
    stack,         \* call_stack: the call that runs on the main thread
    phase,         \* where each call is
    result,        \* what it answers, None before
    event,         \* its cancel event is set
    expired,       \* its deadline has passed
    armed,         \* cancel_armed
    timer,         \* its timer thread
    watcher,       \* its watcher thread
    flag,          \* who has set the cancelled flag of IDA since it was cleared
    batch          \* IDA answers its own dialogs (idc.batch)

mainVars == <<queue, stack, phase, result, event, expired, armed, timer, watcher, flag, batch>>

Phases  == {"out", "queued", "body", "leaving", "joined", "done"}
Results == {"ok", "error", "cancelled", "timeout", "busy", "unscheduled"}
Threads == {"off", "on", "firing", "over"}

MainInit ==
    /\ queue = <<>> /\ stack = <<>>
    /\ phase = [r \in Request |-> "out"]
    /\ result = [r \in Request |-> None]
    /\ event = [r \in Request |-> FALSE]
    /\ expired = [r \in Request |-> FALSE]
    /\ armed = [r \in Request |-> FALSE]
    /\ timer = [r \in Request |-> "off"]
    /\ watcher = [r \in Request |-> "off"]
    /\ flag = {}
    /\ batch = FALSE

\* sync_wrapper puts timed_ff around the tool; otherwise it runs unguarded.
Guarded(r) == r \in Timed \cup Watched

Idle == stack = <<>>
Runs(r) == stack = <<r>>
-----------------------------------------------------------------------------
\* execute_sync, called by the handler thread.
Schedule(r) ==
    /\ phase[r] = "out"
    /\ queue' = Append(queue, r)
    /\ phase' = [phase EXCEPT ![r] = "queued"]
    /\ UNCHANGED <<stack, result, event, expired, armed, timer, watcher, flag, batch>>

\* execute_sync returns -1.
NotScheduled(r) ==
    /\ phase[r] = "out"
    /\ result' = [result EXCEPT ![r] = "unscheduled"]
    /\ phase' = [phase EXCEPT ![r] = "done"]
    /\ UNCHANGED <<queue, stack, event, expired, armed, timer, watcher, flag, batch>>

\* The running tool lets IDA handle its queue: the call that comes up finds
\* call_stack occupied.
Refuse(r) ==
    /\ ~Idle /\ queue # <<>> /\ r = Head(queue)
    /\ queue' = Tail(queue)
    /\ result' = [result EXCEPT ![r] = "busy"]
    /\ phase' = [phase EXCEPT ![r] = "done"]
    /\ UNCHANGED <<stack, event, expired, armed, timer, watcher, flag, batch>>

\* Mutant: runned does not look at call_stack.
EnterNested(r) ==
    /\ queue # <<>> /\ r = Head(queue)
    /\ queue' = Tail(queue)
    /\ stack' = Append(stack, r)
    /\ batch' = TRUE
    /\ phase' = [phase EXCEPT ![r] = "body"]
    /\ armed' = [armed EXCEPT ![r] = Guarded(r)]
    /\ flag' = IF Guarded(r) THEN {} ELSE flag
    /\ timer' = [timer EXCEPT ![r] = IF r \in Timed THEN "on" ELSE "off"]
    /\ watcher' = [watcher EXCEPT ![r] = IF r \in Watched THEN "on" ELSE "off"]
    /\ UNCHANGED <<result, event, expired>>

\* runned and timed_ff up to the call of the tool.
Enter(r) ==
    /\ Idle /\ queue # <<>> /\ r = Head(queue)
    /\ queue' = Tail(queue)
    /\ stack' = <<r>>
    /\ batch' = TRUE
    /\ phase' = [phase EXCEPT ![r] = "body"]
    /\ armed' = [armed EXCEPT ![r] = Guarded(r)]
    /\ flag' = IF Guarded(r) THEN {} ELSE flag
    /\ timer' = [timer EXCEPT ![r] = IF r \in Timed THEN "on" ELSE "off"]
    /\ watcher' = [watcher EXCEPT ![r] = IF r \in Watched THEN "on" ELSE "off"]
    /\ UNCHANGED <<result, event, expired>>

DeadlinePasses(r) ==
    /\ phase[r] = "body" /\ r \in Timed /\ ~expired[r]
    /\ expired' = [expired EXCEPT ![r] = TRUE]
    /\ UNCHANGED <<queue, stack, phase, result, event, armed, timer, watcher, flag, batch>>

\* fire_native_cancel and watch_request_cancel: test cancel_armed, then set
\* the flag.
TimerWakes(r) ==
    /\ timer[r] = "on" /\ expired[r]
    /\ timer' = [timer EXCEPT ![r] = IF armed[r] THEN "firing" ELSE "over"]
    /\ UNCHANGED <<queue, stack, phase, result, event, expired, armed, watcher, flag, batch>>

TimerFires(r) ==
    /\ timer[r] = "firing"
    /\ timer' = [timer EXCEPT ![r] = "over"]
    /\ flag' = flag \cup {r}
    /\ UNCHANGED <<queue, stack, phase, result, event, expired, armed, watcher, batch>>

WatcherWakes(r) ==
    /\ watcher[r] = "on"
    /\ \/ event[r] /\ watcher' = [watcher EXCEPT ![r] = IF armed[r] THEN "firing" ELSE "over"]
       \/ ~event[r] /\ phase[r] = "leaving" /\ watcher' = [watcher EXCEPT ![r] = "over"]
    /\ UNCHANGED <<queue, stack, phase, result, event, expired, armed, timer, flag, batch>>

WatcherFires(r) ==
    /\ watcher[r] = "firing"
    /\ watcher' = [watcher EXCEPT ![r] = "over"]
    /\ flag' = flag \cup {r}
    /\ UNCHANGED <<queue, stack, phase, result, event, expired, armed, timer, batch>>

\* The tool ends with v; timed_ff disarms the call, stops the watcher and
\* cancels a timer that has not woken.
Leave(r, v) ==
    /\ Runs(r) /\ phase[r] = "body"
    /\ result' = [result EXCEPT ![r] = v]
    /\ phase' = [phase EXCEPT ![r] = "leaving"]
    /\ armed' = [armed EXCEPT ![r] = FALSE]
    /\ timer' = [timer EXCEPT ![r] = IF @ = "on" THEN "over" ELSE @]
    /\ UNCHANGED <<queue, stack, event, expired, watcher, flag, batch>>

ToolEnds(r) == r \notin Endless /\ \E v \in {"ok", "error"} : Leave(r, v)

\* An SDK function notices the cancelled flag and the tool gives up.
FlagSeen(r) == flag # {} /\ Leave(r, "error")

\* The profile function raises at the next Python call or return, be it the
\* return of a tool that has done its work.  The five seconds it grants a tool
\* whose flag was set are not timed here.  A tool that catches what it raises
\* goes on without it: that is the tool which ends late, by ToolEnds.
ProfileRaises(r) ==
    /\ r \notin Endless
    /\ \/ r \in Watched /\ event[r] /\ Leave(r, "cancelled")
       \/ expired[r] /\ Leave(r, "timeout")

\* Mutant: the threads are not joined.
LeaveUnjoined(r) ==
    /\ phase[r] = "leaving" /\ phase' = [phase EXCEPT ![r] = "joined"]
    /\ UNCHANGED <<queue, stack, result, event, expired, armed, timer, watcher, flag, batch>>

Join(r) ==
    /\ phase[r] = "leaving"
    /\ timer[r] \in {"off", "over"} /\ watcher[r] \in {"off", "over"}
    /\ phase' = [phase EXCEPT ![r] = "joined"]
    /\ UNCHANGED <<queue, stack, result, event, expired, armed, timer, watcher, flag, batch>>

\* clr_cancelled, the batch mode as it was, call_stack.pop and the result.
Exit(r) ==
    /\ Runs(r) /\ phase[r] = "joined"
    /\ flag' = IF Guarded(r) THEN {} ELSE flag
    /\ batch' = FALSE
    /\ stack' = <<>>
    /\ phase' = [phase EXCEPT ![r] = "done"]
    /\ UNCHANGED <<queue, result, event, expired, armed, timer, watcher>>

\* cancel_request sets the event of a call, whatever it is doing.
SetEvent(r) ==
    /\ event' = [event EXCEPT ![r] = TRUE]
    /\ UNCHANGED <<queue, stack, phase, result, expired, armed, timer, watcher, flag, batch>>

\* What runs without anybody asking for it.
MainSteps(r) == Enter(r) \/ ToolEnds(r) \/ FlagSeen(r) \/ ProfileRaises(r) \/ Join(r) \/ Exit(r)
Timers(r)    == TimerWakes(r) \/ TimerFires(r) \/ WatcherWakes(r) \/ WatcherFires(r)
-----------------------------------------------------------------------------
MainTypeOK ==
    /\ queue \in Seq(Request)
    /\ stack \in {<<>>} \cup {<<r>> : r \in Request}
    /\ phase \in [Request -> Phases]
    /\ result \in [Request -> Results \cup {None}]
    /\ event \in [Request -> BOOLEAN]
    /\ expired \in [Request -> BOOLEAN]
    /\ armed \in [Request -> BOOLEAN]
    /\ timer \in [Request -> Threads]
    /\ watcher \in [Request -> Threads]
    /\ flag \in SUBSET Request
    /\ batch \in BOOLEAN

\* Between two calls IDA is as its user left it: nothing is cancelled, dialogs
\* are shown, and no thread of a finished call is about to cancel what the
\* user does next.
IdleIsClean ==
    Idle => /\ flag = {} /\ ~batch
            /\ \A r \in Request : timer[r] \in {"off", "over"} /\ watcher[r] \in {"off", "over"}

\* The cancelled flag a tool sees was set by its own timer after its own deadline,
\* or by its own watcher after its own event was set, never by the timer or the
\* watcher of another call.  (Who may set the event: Cancel in IdaServer.)
FlagIsOwn ==
    \A r \in Request : Runs(r) => flag \subseteq {q \in {r} : expired[q] \/ event[q]}
=============================================================================
