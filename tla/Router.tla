------------------------------- MODULE Router -------------------------------
(***************************************************************************)
(* One router between its client and the instances: custom_tools_call of   *)
(* the server, InstanceRouter and the response cache.  The client sends    *)
(* one request at a time.  Every read of the registry and every HTTP       *)
(* exchange is a step of its own, and between them the registry and the    *)
(* servers change: windows and workers come and go, ids and ports get      *)
(* new owners.                                                             *)
(*                                                                         *)
(* The instances are seen from here as the ports they listen on and the    *)
(* binary each of them answers for.  Fleet.tla and IdalibManager.tla say   *)
(* how they come to be registered.                                         *)
(***************************************************************************)
EXTENDS ResponseCache, FiniteSets

CONSTANTS
    Id, Port,
    Name,          \* names of binaries
    None,
    NameTimeout,   \* _cache_timeout: 5 seconds
    Output,        \* cache ids (uuid4) that can be drawn
    Times          \* bound on the clock: Nat, or 0..n for TLC

ASSUME RouterAssumption ==
    /\ None \notin Id \cup Port \cup Name
    /\ None \notin {"none", "not one", "expired", "missing", "changed"}
    /\ NameTimeout \in Nat \ {0}
    /\ Times \subseteq Nat

VARIABLES
    live,          \* "instances": id -> its port, binary_name and registration time
    expired,       \* the ids in "expired"
    host,          \* host[q]: the binary served at q, None when nobody answers
    since,         \* since[q]: when host[q] changed last
    now,
    names,         \* _binary_path_cache
    pc, job,       \* the call in progress
    answer,        \* what the last step told the client, None when nothing
    facts,         \* history: what was true at some moment of this call
    cache,         \* _response_cache
    recent         \* history: the last MaxEntries answers stored or read, in order

registry == <<live, expired>>
world == <<registry, host, since, now>>
call == <<names, pc, job>>
store == <<cache, recent>>
vars == <<world, call, answer, facts, store>>

NoJob == [id |-> None, to |-> None, at |-> 0, doubt |-> FALSE]

Init ==
    /\ live = << >> /\ expired = {}
    /\ host = [q \in Port |-> None] /\ since = [q \in Port |-> 0]
    /\ now = 0
    /\ names = << >>
    /\ pc = "idle" /\ job = NoJob /\ answer = None
    /\ facts = {}
    /\ cache = << >> /\ recent = << >>
-----------------------------------------------------------------------------
Put(f, k, v) == [x \in DOMAIN f \cup {k} |-> IF x = k THEN v ELSE f[x]]

\* What a request for instance i would be told if it were told now.
Facts(i, ids, tombs) ==
    {IF Cardinality(ids) = 1 THEN "one" ELSE "not one"}
    \cup (IF ids = {} THEN {"none"} ELSE {})
    \cup {IF i \in ids THEN "live" ELSE IF i \in tombs THEN "expired" ELSE "missing"}

FactsNow(i) == Facts(i, DOMAIN live, expired)

\* Nothing more is said about which instances there are.
Settled == {"idle", "verifying", "querying", "sending"}

Remember ==
    facts' = IF pc \in Settled THEN {}
             ELSE facts \cup Facts(job.id, DOMAIN live', expired')

\* A step of the world tells the client nothing.
Aside == answer' = None /\ UNCHANGED <<call, store>>

Newest(s) == SubSeq(s, IF Len(s) > MaxEntries THEN Len(s) - MaxEntries + 1 ELSE 1, Len(s))

WithLast(s, e) == Append(Kept(s, {f \in Range(s) : f.id # e.id}), e)

(* The world. *)
\* The name was read before, or is "unknown" or a file's: the server may by now
\* answer with another one, or not at all.
RegisterEntry(i, q, n) ==
    /\ i \notin DOMAIN live
    /\ live' = Put(live, i, [port |-> q, name |-> n, at |-> now])
    /\ Aside /\ UNCHANGED <<expired, host, since, now>>
    /\ Remember

RemoveEntry(i) ==
    /\ i \in DOMAIN live
    /\ live' = Restrict(live, DOMAIN live \ {i})
    /\ expired' \in {expired, expired \cup {i}}
    /\ Remember
    /\ Aside /\ UNCHANGED <<host, since, now>>

CleanupExpired ==
    /\ expired' \in SUBSET expired
    /\ Aside /\ UNCHANGED <<live, host, since, now>>
    /\ Remember

\* A server starts, stops, or its port goes to another one.
Rehost(q, n) ==
    /\ host[q] # n
    /\ host' = [host EXCEPT ![q] = n]
    /\ since' = [since EXCEPT ![q] = now]
    /\ Aside /\ UNCHANGED <<registry, now, facts>>

\* Time passes while the router waits for input, for the lock or for a server,
\* not while it compares what it has just read.
Tick ==
    /\ now + 1 \in Times
    /\ pc # "verifying"
    /\ now' = now + 1
    /\ Aside /\ UNCHANGED <<registry, host, since, facts>>

World ==
    \/ \E i \in Id, q \in Port, n \in Name : RegisterEntry(i, q, n)
    \/ \E i \in Id : RemoveEntry(i)
    \/ CleanupExpired
    \/ \E q \in Port, n \in Name \cup {None} : Rehost(q, n)
    \/ Tick
-----------------------------------------------------------------------------
Proceed(l, j) == pc' = l /\ job' = j /\ answer' = None
Goto(l, j) == Proceed(l, j) /\ UNCHANGED facts
Answer(a) == pc' = "idle" /\ job' = NoJob /\ answer' = a /\ facts' = {}

(* custom_tools_call, for a tool of IDA. *)
Call(i) ==
    /\ pc = "idle"
    /\ Proceed("looking", [NoJob EXCEPT !.id = i])
    /\ facts' = FactsNow(i)
    /\ UNCHANGED <<world, names, store>>

\* get_active.
LookForAny ==
    /\ pc = "looking"
    /\ Goto(IF live # << >> THEN "selecting" ELSE "discovering", job)
    /\ UNCHANGED <<world, names, store>>

\* rediscover_instances registers what it finds (RegisterEntry); get_active is
\* read again only when that was something.
LookAgain ==
    /\ pc = "discovering"
    /\ \/ Answer("none")
       \/ live # << >> /\ Goto("selecting", job)
    /\ UNCHANGED <<world, names, store>>

(* route_request. *)
Select ==
    /\ pc = "selecting"
    /\ IF job.id # None THEN Goto("getting", job)
       ELSE IF Cardinality(DOMAIN live) = 1
       THEN \E i \in DOMAIN live :
               /\ Proceed("getting", [job EXCEPT !.id = i])
               /\ facts' = facts \cup FactsNow(i)
       ELSE Answer("not one")
    /\ UNCHANGED <<world, names, store>>

GetInstance ==
    /\ pc = "getting"
    /\ IF job.id \in DOMAIN live
       THEN /\ Proceed("verifying", [job EXCEPT !.to = live[job.id], !.at = now])
            /\ facts' = {}
       ELSE Goto("missing", job)
    /\ UNCHANGED <<world, names, store>>

\* Mutant: an id that is not live is unknown.
ForgetExpired ==
    /\ pc = "missing"
    /\ Answer("missing")
    /\ UNCHANGED <<world, names, store>>

\* get_expired, and the answer with the instances there are.
GetExpired ==
    /\ pc = "missing"
    /\ Answer(IF job.id \in expired THEN "expired" ELSE "missing")
    /\ UNCHANGED <<world, names, store>>

Compare(name, j) ==
    IF name = None THEN Goto("sending", [j EXCEPT !.doubt = TRUE])
    ELSE IF name = j.to.name THEN Goto("sending", j)
    ELSE Answer("changed")

\* Mutant: a cached name never gets old.
CachedForEver(i) == i \in DOMAIN names

Cached(i) == i \in DOMAIN names /\ now - names[i].at < NameTimeout

\* _verify_binary_path: the cached name, or a query.
VerifyCached ==
    /\ pc = "verifying" /\ Cached(job.id)
    /\ Compare(names[job.id].name, [job EXCEPT !.at = now])
    /\ UNCHANGED <<world, names, store>>

StartQuery ==
    /\ pc = "verifying" /\ ~Cached(job.id)
    /\ Goto("querying", [job EXCEPT !.at = now])
    /\ UNCHANGED <<world, names, store>>

\* Mutant: the name that was registered is cached, not the one that answered.
CacheRegistered(name) == Put(names, job.id, [name |-> job.to.name, at |-> job.at])

CacheName(name) == Put(names, job.id, [name |-> name, at |-> job.at])

\* A busy window does not answer in time.
Query ==
    /\ pc = "querying"
    /\ \E name \in {host[job.to.port], None} :
          /\ names' = CacheName(name)
          /\ Compare(name, job)
    /\ UNCHANGED <<world, store>>

\* _send_request.  Whoever listens at the port executes the request; its
\* answer may be lost, be short, or be cached because it is too long.
Send ==
    /\ pc = "sending"
    /\ \/ Answer("failed") /\ UNCHANGED store
       \/ host[job.to.port] # None /\ Answer("done") /\ UNCHANGED store
       \/ /\ host[job.to.port] # None /\ Answer("truncated")
          /\ \E o \in Output \ (Keys(cache) \cup Keys(recent)) :
                /\ cache' = Stored(cache, o, now)
                /\ recent' = Newest(Append(recent, [id |-> o, at |-> now]))
    /\ UNCHANGED <<world, names>>

\* get_cached_output, for an id of this router or an unknown one.
GetCached(o) ==
    /\ pc = "idle"
    /\ cache' = Fetched(cache, o, now)
    /\ \/ \E e \in Range(cache') :
             e.id = o /\ Answer("page") /\ recent' = Newest(WithLast(recent, e))
       \/ o \notin Keys(cache') /\ Answer("no page") /\ UNCHANGED recent
    /\ UNCHANGED <<world, names>>

\* list_cached_outputs.
ListCached ==
    /\ pc = "idle"
    /\ cache' = Evicted(cache, now)
    /\ Goto("idle", NoJob)
    /\ UNCHANGED <<world, names, recent>>

Step ==
    \/ LookForAny \/ LookAgain \/ Select \/ GetInstance \/ GetExpired
    \/ VerifyCached \/ StartQuery \/ Query \/ Send

Next ==
    \/ World
    \/ \E i \in Id \cup {None} : Call(i)
    \/ Step
    \/ \E o \in Output : GetCached(o)
    \/ ListCached

Spec == Init /\ [][Next]_vars
-----------------------------------------------------------------------------
\* "None", "not one" and "expired" are what the client is told only if it was so
\* at some moment while the request was handled, however the registry changes
\* between two look-ups.  "Missing" (router.py: "not found") is said of an id that
\* was neither live nor expired at some moment, or of one that was expired and is
\* live again: it came back between get_instance and get_expired, and its record
\* of having expired was dropped there too.  An id that stays expired is never
\* called missing, nor one that expires.
AnswersTrue ==
    [][/\ answer' \in {"none", "not one", "expired"} => answer' \in facts
       /\ answer' = "missing" =>
             "missing" \in facts \/ ("expired" \in facts /\ job.id \in DOMAIN live)]_vars

ReachesAnother ==
    Send /\ answer' \in {"done", "truncated"} /\ host[job.to.port] # job.to.name

\* After the check, or so little before it that a cached name can be older.
Fresh(t) == t > job.at - NameTimeout

\* A request is executed on another binary than its instance was registered
\* for only if its server changed after the check or less than the cache's five
\* seconds before it, if the id was registered again as shortly before it, or if
\* the server's name could not be had: one cached name never vouches for longer,
\* whatever name was registered.
MisroutingBounded ==
    [][ReachesAnother => job.doubt \/ Fresh(since[job.to.port]) \/ Fresh(job.to.at)]_vars

ToldChanged == (VerifyCached \/ Query) /\ answer' = "changed"

\* A request is refused as stale only when its server serves another binary than
\* the one registered, or the server changed or the id was registered again in
\* the last five seconds.
AlarmsJustified ==
    [][ToldChanged =>
          host[job.to.port] # job.to.name \/ Fresh(since[job.to.port]) \/ Fresh(job.to.at)]_vars

\* "To get more: get_cached_output(cache_id)" (server.py): the answers stored or
\* read last, as many as the cache holds, are there until their TTL has passed;
\* reading one protects it from those that come later.
PagesKept ==
    [][\A k \in DOMAIN recent :
          GetCached(recent[k].id) /\ answer' = "no page" => now - recent[k].at > Ttl]_vars
=============================================================================
