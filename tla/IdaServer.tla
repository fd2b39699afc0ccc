----------------------------- MODULE IdaServer ------------------------------
(***************************************************************************)
(* The MCP server inside an IDA window (ida_mcp/zeromcp, plugin): a server *)
(* thread that gives every connection a handler thread of its own, the     *)
(* JSON-RPC table of pending requests, SSE sessions,                       *)
(* and stop_server and start_server, which run on the main thread of IDA   *)
(* when its user closes or opens a database.  MainThread is how a handler  *)
(* thread gets a tool run there.                                           *)
(*                                                                         *)
(* A handler thread serves one request: the handler speaks HTTP/1.0.       *)
(***************************************************************************)
EXTENDS MainThread

CONSTANTS
    RpcId,         \* ids that clients give their requests
    IdOf,          \* Request -> RpcId \cup {None}; None: a notification
    Session,       \* SSE connections that clients open
    SessionOf,     \* Request -> Session \cup {None}; None: posted to /mcp
    MaxSse,        \* McpHttpRequestHandler._MAX_SSE_CONNECTIONS
    Starts         \* bound: 1..N, the databases opened after one another

ASSUME IdaServerAssumption ==
    /\ IdOf \in [Request -> RpcId \cup {None}] /\ None \notin RpcId
    /\ Watched = {r \in Request : IdOf[r] # None}
    /\ SessionOf \in [Request -> Session \cup {None}] /\ None \notin Session
    /\ MaxSse \in Nat \ {0}

VARIABLES
    running,       \* McpServer._running
    listening,     \* the socket is open and its server thread accepts
    ui,            \* the main thread "pumps" its queue, or "closes" a database
    starts,        \* databases opened so far
    handler,       \* where the handler thread of each request is
    answer,        \* what its client was sent
    pending,       \* _pending_requests: by id, the request whose event it holds
    session,       \* SSE connections, by state
    epoch          \* history: the start a session belongs to, 0 for one opened
                   \* while stop is at work

serverVars == <<running, listening, ui, starts, handler, answer, pending, session, epoch>>
vars == <<mainVars, serverVars>>

Init ==
    /\ MainInit
    /\ running = FALSE /\ listening = FALSE
    /\ ui = "pumps"
    /\ starts = 0
    /\ handler = [r \in Request |-> "none"]
    /\ answer = [r \in Request |-> None]
    /\ pending = [i \in RpcId |-> None]
    /\ session = [s \in Session |-> "none"]
    /\ epoch = [s \in Session |-> 0]
-----------------------------------------------------------------------------
\* A handler thread.
To(r, l) == handler' = [handler EXCEPT ![r] = l]

\* The server thread accepts a connection and starts a handler thread; a POST
\* to /sse needs a session to name.  Extension groups and validation can answer
\* without the main thread; a notification runs as any other call does.
Accept(r) ==
    /\ listening /\ handler[r] = "none"
    /\ SessionOf[r] # None => session[SessionOf[r]] # "none"
    /\ To(r, "dispatch")
    /\ UNCHANGED <<mainVars, running, listening, ui, starts, answer, pending, session, epoch>>

\* _mcp_tools_call: register_pending_request, if the request has an id.
Register(r) ==
    /\ handler[r] = "dispatch"
    /\ To(r, "call")
    /\ pending' = IF IdOf[r] = None THEN pending ELSE [pending EXCEPT ![IdOf[r]] = r]
    /\ UNCHANGED <<mainVars, running, listening, ui, starts, answer, session, epoch>>

\* The tool's group is not enabled: no registration, no call.
GroupDisabled(r) ==
    /\ handler[r] = "dispatch"
    /\ To(r, "respond")
    /\ UNCHANGED <<mainVars, running, listening, ui, starts, answer, pending, session, epoch>>

Returned(r) ==
    \/ handler[r] = "wait" /\ phase[r] = "done"
    \/ handler[r] = "call"

CallTool(r) ==
    /\ handler[r] = "call"
    /\ To(r, "wait")
    /\ Schedule(r) \/ NotScheduled(r)
    /\ UNCHANGED <<running, listening, ui, starts, answer, pending, session, epoch>>

\* Mutant: unregister_pending_request is skipped when the tool raised.
UnregisterUnlessError(r) ==
    /\ Returned(r)
    /\ To(r, "respond")
    /\ pending' = IF IdOf[r] = None \/ result[r] \in {"cancelled", "timeout", "error"} THEN pending
                  ELSE [pending EXCEPT ![IdOf[r]] = None]
    /\ UNCHANGED <<mainVars, running, listening, ui, starts, answer, session, epoch>>

\* The call is over, or _call has refused an unknown tool or arguments that do
\* not fit; unregister_pending_request pops whatever is stored under the id.
Unregister(r) ==
    /\ Returned(r)
    /\ To(r, "respond")
    /\ pending' = IF IdOf[r] = None THEN pending ELSE [pending EXCEPT ![IdOf[r]] = None]
    /\ UNCHANGED <<mainVars, running, listening, ui, starts, answer, session, epoch>>

\* The answer goes back on the connection, or to the session if that is still
\* there; the client may have left in either case.
Respond(r) ==
    /\ handler[r] = "respond"
    /\ To(r, "over")
    /\ answer' = [answer EXCEPT ![r] =
                     IF SessionOf[r] # None /\ session[SessionOf[r]] # "open" THEN "400" ELSE "sent"]
    /\ UNCHANGED <<mainVars, running, listening, ui, starts, pending, session, epoch>>

\* notifications/cancelled, on a connection of its own, from the client that sent
\* m and perhaps has its answer by now: cancel_request sets the event of whoever
\* holds the id.
Cancel(m) ==
    /\ listening
    /\ handler[m] # "none" /\ IdOf[m] # None
    /\ pending[IdOf[m]] # None
    /\ SetEvent(pending[IdOf[m]])
    /\ UNCHANGED serverVars
-----------------------------------------------------------------------------
\* SSE sessions.
Listed == {s \in Session : session[s] \in {"open", "broken"}}

\* The session is listed unless ten are; a GET beyond them is refused.
Connect(s) ==
    /\ listening /\ session[s] = "none"
    /\ session' = [session EXCEPT ![s] = IF Cardinality(Listed) < MaxSse THEN "open" ELSE "closed"]
    /\ epoch' = [epoch EXCEPT ![s] = IF running THEN starts ELSE 0]
    /\ UNCHANGED <<mainVars, running, listening, ui, starts, handler, answer, pending>>

\* A write to the client fails: send_event marks the connection dead.
Break(s) ==
    /\ session[s] = "open"
    /\ session' = [session EXCEPT ![s] = "broken"]
    /\ UNCHANGED <<mainVars, running, listening, ui, starts, handler, answer, pending, epoch>>

\* The loop of _handle_sse_get looks once a second at conn.alive and _running,
\* and takes the session off the list.
EndSession(s) ==
    /\ session[s] \in {"broken", "dropped"} \/ (session[s] = "open" /\ ~running)
    /\ session' = [session EXCEPT ![s] = "closed"]
    /\ UNCHANGED <<mainVars, running, listening, ui, starts, handler, answer, pending, epoch>>
-----------------------------------------------------------------------------
\* The plugin, on the main thread, which it gets only between tools.

\* database_inited: serve binds and starts the server thread.  (Fleet has the
\* registration that follows.)  A session that was opened during the last stop,
\* and has not looked at _running since, goes on under this start.
StartServer ==
    /\ ui = "pumps" /\ Idle /\ ~running
    /\ starts + 1 \in Starts
    /\ starts' = starts + 1
    /\ running' = TRUE /\ listening' = TRUE
    /\ epoch' = [s \in Session |-> IF s \in Listed /\ epoch[s] = 0 THEN starts + 1 ELSE epoch[s]]
    /\ UNCHANGED <<mainVars, ui, handler, answer, pending, session>>

\* The port cannot be bound: serve closes the socket and raises.
BindFails ==
    /\ ui = "pumps" /\ Idle /\ ~running
    /\ starts + 1 \in Starts
    /\ starts' = starts + 1
    /\ UNCHANGED <<mainVars, running, listening, ui, handler, answer, pending, session, epoch>>

\* Mutant: stop leaves it to _running to end the sessions.
StopSessionsByFlag ==
    /\ ui = "pumps" /\ Idle /\ running
    /\ running' = FALSE
    /\ ui' = "closes"
    /\ UNCHANGED <<mainVars, listening, starts, handler, answer, pending, session, epoch>>

\* closebase: stop_server waits at most two seconds for the heartbeat thread,
\* unregisters, and calls McpServer.stop, which marks every session dead.
StopSessions ==
    /\ ui = "pumps" /\ Idle /\ running
    /\ running' = FALSE
    /\ session' = [s \in Session |-> IF s \in Listed THEN "dropped" ELSE session[s]]
    /\ ui' = "closes"
    /\ UNCHANGED <<mainVars, listening, starts, handler, answer, pending, epoch>>

\* Mutant: handler threads that are not daemons; server_close joins them.
CloseSocketAndJoin ==
    /\ ui = "closes"
    /\ \A r \in Request : handler[r] \in {"none", "over"}
    /\ listening' = FALSE
    /\ ui' = "pumps"
    /\ UNCHANGED <<mainVars, running, starts, handler, answer, pending, session, epoch>>

\* shutdown, server_close and the join of the server thread.  The handler
\* threads are daemons: they are not waited for, and whatever they have queued
\* runs when the main thread is back in its loop.
CloseSocket ==
    /\ ui = "closes"
    /\ listening' = FALSE
    /\ ui' = "pumps"
    /\ UNCHANGED <<mainVars, running, starts, handler, answer, pending, session, epoch>>
-----------------------------------------------------------------------------
\* IDA handles its queue between two events of its user.
Pump(r) == ui = "pumps" /\ MainSteps(r) /\ UNCHANGED serverVars

Reenter(r) == ui = "pumps" /\ Refuse(r) /\ UNCHANGED serverVars

Background(r) == (DeadlinePasses(r) \/ Timers(r)) /\ UNCHANGED serverVars

Handle(r) ==
    \/ Register(r) \/ GroupDisabled(r) \/ CallTool(r) \/ Unregister(r) \/ Respond(r)

Next ==
    \/ \E r \in Request :
          Accept(r) \/ Handle(r) \/ Cancel(r) \/ Pump(r) \/ Reenter(r) \/ Background(r)
    \/ \E s \in Session : Connect(s) \/ Break(s) \/ EndSession(s)
    \/ StartServer \/ BindFails \/ StopSessions \/ CloseSocket

Spec == Init /\ [][Next]_vars

\* Threads run, time passes, IDA returns to its queue, and a tool either ends
\* or is in a loop that looks at the cancelled flag.  Nothing is assumed of
\* clients, or of the user who opens and closes databases.
FairSpec ==
    /\ Spec
    /\ \A r \in Request : WF_vars(Handle(r)) /\ WF_vars(Pump(r)) /\ WF_vars(Background(r))
    /\ \A s \in Session : WF_vars(EndSession(s))
    /\ WF_vars(CloseSocket)
-----------------------------------------------------------------------------
TypeOK ==
    /\ MainTypeOK
    /\ running \in BOOLEAN /\ listening \in BOOLEAN
    /\ ui \in {"pumps", "closes"}
    /\ starts \in {0} \cup Starts
    /\ handler \in [Request -> {"none", "dispatch", "call", "wait", "respond", "over"}]
    /\ answer \in [Request -> {None, "sent", "400"}]
    /\ pending \in [RpcId -> Request \cup {None}]
    /\ session \in [Session -> {"none", "open", "broken", "dropped", "closed"}]
    /\ epoch \in [Session -> {0} \cup Starts]

\* Every accepted request gets its answer, and closing a database ends: the
\* main thread never waits for a handler thread that waits for it, and a tool
\* in a native loop is ended by its deadline.
EveryoneGetsOn ==
    /\ \A r \in Request : handler[r] # "none" ~> handler[r] = "over"
    /\ ui # "pumps" ~> ui = "pumps"

\* stop marks every session dead: the session of an earlier database ends,
\* although the next start may have set _running again before its thread looked.
\* One that was opened while stop was at work ends, or goes on under the next
\* start and ends with that.
DroppedSessionsEnd ==
    \A s \in Session :
        /\ epoch[s] \in 1..(starts - 1) ~> session[s] = "closed"
        /\ session[s] = "open" /\ epoch[s] = 0 ~> session[s] = "closed" \/ epoch[s] > 0

\* The table names only requests that are being served: a cancel never sets the
\* event of a request that has been answered.  Nothing is said of whether it is the
\* request the cancel was sent for, which the id alone does not tell: see Cancel.
PendingIsServed ==
    \A i \in RpcId : pending[i] # None => handler[pending[i]] \in {"call", "wait"}
=============================================================================
