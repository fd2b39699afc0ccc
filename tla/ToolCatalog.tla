----------------------------- MODULE ToolCatalog -----------------------------
(***************************************************************************)
(* The tools a router advertises and how it answers calls of them          *)
(* (server.py): _refresh_tools builds the catalogue from its own tools,    *)
(* the bundled schemas and what the first instance that answers says of    *)
(* its tools; a call goes to whichever instance the client names and its   *)
(* answer is made to fit the catalogue and the length the client asked for.*)
(*                                                                         *)
(* Router.tla has the way of a call to its instance.  The router serves    *)
(* one request at a time, so a refresh and a call do not overlap, but      *)
(* instances come and go and the registry may be out of reach at any step. *)
(***************************************************************************)
EXTENDS Preview, FiniteSets

CONSTANTS
    Instance,      \* the ids there can be, in order: 1..N
    Local,         \* tools of the router itself
    Static,        \* bundled tools -> the schemas of their answers
    Newer,         \* tools some instances have besides -> the schemas
    Payload,       \* tools -> what instances answer
    Limits,        \* max_output_chars that clients ask for; 0 is no limit
    None

ASSUME CatalogAssumption ==
    /\ Instance \subseteq Nat /\ Limits \subseteq Nat
    /\ Local \cap (DOMAIN Static \cup DOMAIN Newer) = {}
    /\ DOMAIN Payload = DOMAIN Static \cup DOMAIN Newer
    /\ \A tool \in DOMAIN Payload : \A v \in Payload[tool] :
          Conforms((Static @@ Newer)[tool], v)

\* No tool of IDA answers an object whose only field is "result" (py_eval and
\* py_exec_file have two more): Coerce would take it for a wrapped answer and, for
\* a tool that advertises a plain object, unwrap it.
ASSUME PayloadAssumption ==
    \A tool \in DOMAIN Payload : \A v \in Payload[tool] : ~IsWrapped(v)

VARIABLES
    cache,         \* _tool_cache: the tools and the schemas of their answers
    valid,         \* _cache_valid
    listed,        \* the ids in the registry
    serving,       \* what each instance speaks, None when it does not answer:
                   \* "raw" and "wraps" its answers, "newer" has more tools
    pc, left,      \* where _refresh_tools is; the candidates it has left
    found,         \* the tools the instance it asked has told
    answer         \* of the last call or refresh

vars == <<cache, valid, listed, serving, pc, left, found, answer>>

Speech == {"raw", "wraps", "newer"}
NoAnswer == [kind |-> "none"]

Result(s) == ObjectOf([result |-> s], {"result"}, TRUE)

ToolsOf(sp) == IF sp = "newer" THEN Static @@ Newer ELSE Static

\* What an instance says of its tools, and what it answers.
Told(sp) ==
    [tool \in DOMAIN ToolsOf(sp) |->
        IF sp = "wraps" /\ ToolsOf(sp)[tool] # AnySchema THEN Result(ToolsOf(sp)[tool])
        ELSE ToolsOf(sp)[tool]]
Says(sp, v) == IF sp = "wraps" THEN Wrapped(v) ELSE v

Init ==
    /\ cache = << >> /\ valid = FALSE
    /\ listed = {} /\ serving = [i \in Instance |-> None]
    /\ pc = "start" /\ left = {} /\ found = << >>
    /\ answer = NoAnswer
-----------------------------------------------------------------------------
\* Windows and workers.
Appear(i, sp) ==
    /\ serving[i] = None /\ serving' = [serving EXCEPT ![i] = sp]
    /\ listed' \in {listed, listed \cup {i}}
    /\ UNCHANGED <<cache, valid, pc, left, found, answer>>

Vanish(i) ==
    /\ serving[i] # None /\ serving' = [serving EXCEPT ![i] = None]
    /\ listed' \in {listed, listed \ {i}}
    /\ UNCHANGED <<cache, valid, pc, left, found, answer>>

(* _refresh_tools. *)
LocalTools == [tool \in Local |-> Plain("object")]

\* Mutant: the bundled schemas are added when the instances have been asked.
BeginLocal ==
    /\ pc' = "list" /\ cache' = LocalTools
    /\ answer' = NoAnswer
    /\ UNCHANGED <<valid, listed, serving, left, found>>

\* The catalogue starts anew with what needs no instance.
Begin ==
    /\ pc' = "list" /\ cache' = LocalTools @@ Static
    /\ answer' = NoAnswer
    /\ UNCHANGED <<valid, listed, serving, left, found>>

\* At the start, by the tool refresh_tools, and after idalib_open has
\* succeeded.
Refresh == pc \in {"start", "idle"} /\ Begin

\* list_instances; an empty registry is refilled first (Fleet.tla), if that
\* finds a server.
ListInstances ==
    /\ pc = "list"
    /\ \/ listed' = listed
       \/ listed = {} /\ listed' = {i \in Instance : serving[i] # None}
    /\ left' = listed' /\ pc' = "ask"
    /\ UNCHANGED <<cache, valid, serving, found, answer>>

\* get_instance and _discover_ida_tools, until one instance tells its tools.
\* It may not be there any more, or be too busy to answer in ten seconds.
Ask ==
    /\ pc = "ask" /\ left # {}
    /\ LET i == Min(left)
       IN  \/ /\ serving[i] # None /\ i \in listed
              /\ found' = Told(serving[i]) /\ left' = {}
           \/ left' = left \ {i} /\ UNCHANGED found
    /\ UNCHANGED <<cache, valid, listed, serving, pc, answer>>

\* An answer is an object to clients: anything else goes under "result".
Normalised(s) ==
    IF s # AnySchema /\ Len(s) = 1 /\ s[1].t = "object" THEN s ELSE Result(s)

Finish ==
    /\ pc = "ask" /\ left = {}
    /\ LET all == found @@ cache
       IN  cache' = [tool \in DOMAIN all |-> Normalised(all[tool])]
    /\ valid' = TRUE
    /\ pc' = "idle" /\ found' = << >>
    /\ answer' = [kind |-> "refreshed"]
    /\ UNCHANGED <<listed, serving, left>>

\* The registry cannot be read.  Before the server has started this ends it;
\* later the client gets an error and the catalogue stays as far as it is.
RefreshFails ==
    /\ pc \in {"list", "ask"}
    /\ pc' = IF valid THEN "idle" ELSE "dead"
    /\ left' = {} /\ found' = << >>
    /\ answer' = [kind |-> "error"]
    /\ UNCHANGED <<cache, valid, listed, serving>>
-----------------------------------------------------------------------------
\* A tool that is not in the catalogue has no schema.
Schema(tool) == IF tool \in DOMAIN cache THEN cache[tool] ELSE AnySchema

\* The shortest preview fits into max_output_chars.
Possible(tool, max) == max = 0 \/ max >= Size(Minimal(Schema(tool), Null))

\* custom_tools_call, for a tool of IDA.
Call(tool, i, max) ==
    /\ pc = "idle"
    /\ IF ~Possible(tool, max) THEN answer' = [kind |-> "error"]
       ELSE \/ answer' = [kind |-> "error"]
            \/ /\ i \in listed /\ serving[i] # None /\ tool \in DOMAIN ToolsOf(serving[i])
               /\ \E v \in Payload[tool] :
                     LET whole == Coerce(Schema(tool), Says(serving[i], v))
                     IN  answer' = [kind |-> "done", tool |-> tool, max |-> max, whole |-> whole,
                                    shown |-> IF max = 0 THEN whole
                                              ELSE Shortened(whole, max, Schema(tool))]
    /\ UNCHANGED <<cache, valid, listed, serving, pc, left, found>>

\* custom_tools_list never finds the catalogue invalid: the server refreshes
\* it before it takes requests.
ListTools ==
    /\ pc = "idle"
    /\ answer' = [kind |-> "tools"]
    /\ UNCHANGED <<cache, valid, listed, serving, pc, left, found>>

Next ==
    \/ \E i \in Instance : Vanish(i) \/ \E sp \in Speech : Appear(i, sp)
    \/ Refresh \/ ListInstances \/ Ask \/ Finish \/ RefreshFails \/ ListTools
    \/ \E tool \in DOMAIN Payload, i \in Instance, max \in Limits : Call(tool, i, max)

Spec == Init /\ [][Next]_vars
-----------------------------------------------------------------------------
\* "Ensure structuredContent matches the tool's advertised outputSchema": an
\* answer, whole or shortened, is an instance of the schema the catalogue has
\* for its tool, whatever instance gave it, with or without the wrapper, and
\* also when a refresh was left half-way.
AnswersConform ==
    answer.kind = "done" =>
        /\ Conforms(Schema(answer.tool), answer.whole)
        /\ Conforms(Schema(answer.tool), answer.shown)

\* The structured answer is never longer than the client allowed, and is the
\* whole one whenever that is short enough.  (One character is less than any
\* array, object or text takes: a tool without a schema may exceed it.)
AnswersFit ==
    answer.kind = "done" /\ answer.max >= 2 =>
        /\ Size(answer.shown) <= answer.max
        /\ Size(answer.whole) <= answer.max => answer.shown = answer.whole

\* "Always load static IDA tool schemas so tools are visible even when no IDA
\* instance is connected": no tool the router knows by itself is missing when
\* a client asks, also when the last refresh failed or found nobody.
OwnToolsListed ==
    answer.kind = "tools" => Local \cup DOMAIN Static \subseteq DOMAIN cache
=============================================================================
