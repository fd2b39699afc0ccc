---------------------------- MODULE RouterProofs ----------------------------
(***************************************************************************)
(* Proofs about Router.tla for any number of ids, ports, binaries and      *)
(* answers and any changes of the registry and the servers: what the       *)
(* client is told about an id was true during its request, how far a name  *)
(* in the router's cache can be trusted, and which answers of its response *)
(* cache a client can count on.                                            *)
(***************************************************************************)
EXTENDS Router, FiniteSetTheorems, SequenceTheorems, WellFoundedInduction, TLAPS

Entry == [port : Port, name : Name, at : Nat]

Places ==
    {"idle", "looking", "discovering", "selecting", "getting", "missing", "verifying", "querying", "sending"}

Checking == pc \in {"verifying", "querying"}

TypeOK ==
    /\ now \in Nat
    /\ host \in [Port -> Name \cup {None}]
    /\ since \in [Port -> Nat]
    /\ DOMAIN live \subseteq Id /\ \A i \in DOMAIN live : live[i] \in Entry
    /\ \A i \in DOMAIN names : names[i] \in [name : Name \cup {None}, at : Nat]
    /\ pc \in Places
    /\ job \in [id : Id \cup {None}, to : Entry \cup {None}, at : Nat, doubt : BOOLEAN]
    /\ Checking \/ pc = "sending" => job.to \in Entry

\* Nothing the router remembers is from the future, and it compares what it read
\* at the moment it read it.
Past ==
    /\ \A i \in DOMAIN live : live[i].at <= now
    /\ \A i \in DOMAIN names : names[i].at <= now
    /\ job.at <= now
    /\ Checking => job.to.at <= now
    /\ pc = "verifying" => job.at = now

\* A cached name is what the entry's server answers, or since the query the server
\* changed or the entry was made.
Vouched(e, c) == c.name \in {None, host[e.port]} \/ since[e.port] >= c.at \/ e.at >= c.at

NamesTrue ==
    \A i \in DOMAIN names :
        /\ i \in DOMAIN live => Vouched(live[i], names[i])
        /\ pc = "verifying" /\ i = job.id => Vouched(job.to, names[i])

\* The entry that is checked is still there, or another one was made meanwhile.
CheckedIsCurrent ==
    Checking /\ job.id \in DOMAIN live => live[job.id] = job.to \/ live[job.id].at >= job.at

SendTrue ==
    pc = "sending" /\ ~job.doubt =>
        host[job.to.port] = job.to.name \/ Fresh(since[job.to.port]) \/ Fresh(job.to.at)

NamesInv == TypeOK /\ Past /\ NamesTrue /\ CheckedIsCurrent /\ SendTrue

\* What is known of an id that was not live when the router looked.
MissingKnown ==
    pc = "missing" =>
        /\ job.id \in expired => "expired" \in facts
        /\ job.id \notin expired =>
              "missing" \in facts \/ ("expired" \in facts /\ job.id \in DOMAIN live)

FactsInv ==
    /\ pc \in Places
    /\ pc \notin Settled => Facts(job.id, DOMAIN live, expired) \subseteq facts
    /\ pc = "discovering" => "none" \in facts
    /\ MissingKnown
-----------------------------------------------------------------------------
(* What the client is told. *)

\* A change of the registry during a call adds to what was true during it.
LEMMA WorldKeepsFacts ==
    ASSUME FactsInv, World
    PROVE  FactsInv'
<1>1. pc' = pc /\ job' = job
  BY DEF World, RegisterEntry, RemoveEntry, CleanupExpired, Rehost, Tick, Aside, call
<1>2. CASE pc \in Settled
  BY <1>1, <1>2 DEF FactsInv, MissingKnown, Settled
<1>3. CASE pc \notin Settled
  <2>1. ASSUME Remember
        PROVE  facts' = facts \cup Facts(job.id, DOMAIN live', expired')
    BY <1>3, <2>1 DEF Remember
  <2>2. ASSUME Remember, MissingKnown'
        PROVE  FactsInv'
    BY <1>1, <2>1, <2>2 DEF FactsInv
  <2>3. ASSUME NEW i \in Id, NEW q \in Port, NEW n \in Name, RegisterEntry(i, q, n) PROVE FactsInv'
    <3>1. DOMAIN live' = DOMAIN live \cup {i} /\ expired' = expired /\ Remember
      BY <2>3 DEF RegisterEntry, Put
    <3>2. facts \subseteq facts'
      BY <2>1, <3>1
    <3>3. MissingKnown'
      BY <1>1, <3>1, <3>2 DEF FactsInv, MissingKnown
    <3> QED
      BY <2>2, <3>1, <3>3
  <2>4. ASSUME NEW i \in Id, RemoveEntry(i) PROVE FactsInv'
    <3>1. DOMAIN live' = DOMAIN live \ {i} /\ expired' \in {expired, expired \cup {i}} /\ Remember
      BY <2>4 DEF RemoveEntry, Restrict
    <3>2. facts \subseteq facts' /\ Facts(job.id, DOMAIN live', expired') \subseteq facts'
      BY <2>1, <3>1
    <3>3. job.id \notin DOMAIN live' =>
             IF job.id \in expired' THEN "expired" \in facts' ELSE "missing" \in facts'
      BY <3>2 DEF Facts
    <3>4. job.id \in DOMAIN live' => job.id # i /\ (job.id \in expired' <=> job.id \in expired)
      BY <3>1
    <3>5. MissingKnown'
      BY <1>1, <3>1, <3>2, <3>3, <3>4 DEF FactsInv, MissingKnown
    <3> QED
      BY <2>2, <3>1, <3>5
  <2>5. CASE CleanupExpired
    <3>1. live' = live /\ expired' \subseteq expired /\ Remember
      BY <2>5 DEF CleanupExpired
    <3>2. facts \subseteq facts' /\ Facts(job.id, DOMAIN live', expired') \subseteq facts'
      BY <2>1, <3>1
    <3>3. job.id \notin expired' => IF job.id \in DOMAIN live' THEN "live" \in facts' ELSE "missing" \in facts'
      BY <3>2 DEF Facts
    <3>4. MissingKnown'
      BY <1>1, <3>1, <3>2, <3>3 DEF FactsInv, MissingKnown
    <3> QED
      BY <2>2, <3>1, <3>4
  <2>6. CASE Tick \/ \E q \in Port, n \in Name \cup {None} : Rehost(q, n)
    BY <1>1, <2>6 DEF Tick, Rehost, registry, FactsInv, MissingKnown
  <2> QED
    BY <2>3, <2>4, <2>5, <2>6 DEF World
<1> QED
  BY <1>2, <1>3

LEMMA NextFacts == TypeOK /\ FactsInv /\ [Next]_vars => FactsInv'
<1> SUFFICES ASSUME TypeOK, FactsInv, [Next]_vars PROVE FactsInv'
  OBVIOUS
<1> USE DEF Places, Settled
<1>1. ASSUME pc' \in Settled PROVE FactsInv'
  BY <1>1 DEF FactsInv, MissingKnown
<1>2. CASE World
  BY <1>2, WorldKeepsFacts
<1>3. ASSUME NEW i \in Id \cup {None}, Call(i) PROVE FactsInv'
  <2>1. pc' = "looking" /\ job'.id = i /\ UNCHANGED registry /\ facts' = FactsNow(i)
    BY <1>3 DEF Call, Proceed, NoJob, world
  <2> QED
    BY <2>1 DEF FactsInv, FactsNow, MissingKnown, registry
<1>4. CASE LookForAny
  <2>1. CASE live = << >>
    <3>1. DOMAIN live = {}
      BY <2>1
    <3>2. "none" \in facts
      BY <1>4, <3>1 DEF LookForAny, FactsInv, Facts
    <3> QED
      BY <1>4, <3>2 DEF LookForAny, Goto, Proceed, FactsInv, MissingKnown, world, registry
  <2>2. CASE live # << >>
    BY <1>4, <2>2 DEF LookForAny, Goto, Proceed, FactsInv, MissingKnown, world, registry
  <2> QED
    BY <2>1, <2>2
<1>5. CASE LookAgain
  BY <1>1, <1>5 DEF LookAgain, Answer, Goto, Proceed, FactsInv, MissingKnown, world, registry
<1>6. CASE Select
  <2>1. ASSUME NEW i \in DOMAIN live, Proceed("getting", [job EXCEPT !.id = i]), facts' = facts \cup FactsNow(i)
        PROVE  FactsInv'
    BY <1>6, <2>1 DEF TypeOK, Select, Proceed, FactsInv, FactsNow, MissingKnown, world, registry
  <2> QED
    BY <1>1, <1>6, <2>1 DEF Select, Answer, Goto, Proceed, FactsInv, MissingKnown, world, registry
<1>7. CASE GetInstance
  <2>1. CASE job.id \in DOMAIN live
    BY <1>1, <1>7, <2>1 DEF GetInstance, Proceed
  <2>2. CASE job.id \notin DOMAIN live
    <3>1. (job.id \in expired => "expired" \in facts) /\ (job.id \notin expired => "missing" \in facts)
      BY <1>7, <2>2 DEF GetInstance, FactsInv, Facts
    <3> QED
      BY <1>7, <2>2, <3>1 DEF GetInstance, Goto, Proceed, FactsInv, MissingKnown, world, registry
  <2> QED
    BY <2>1, <2>2
<1>8. CASE GetExpired \/ VerifyCached \/ StartQuery \/ Query \/ Send
  BY <1>1, <1>8 DEF GetExpired, VerifyCached, StartQuery, Query, Send, Compare, Answer, Goto, Proceed
<1>9. CASE ListCached \/ \E o \in Output : GetCached(o)
  BY <1>1, <1>9 DEF ListCached, GetCached, Answer, Goto, Proceed
<1>10. CASE UNCHANGED vars
  BY <1>10 DEF vars, world, registry, call, FactsInv, MissingKnown
<1> QED
  BY <1>2, <1>3, <1>4, <1>5, <1>6, <1>7, <1>8, <1>9, <1>10 DEF Next, Step
-----------------------------------------------------------------------------
(* Which binary is reached. *)

LEMMA InitNames == Init => NamesInv /\ FactsInv
<1> SUFFICES ASSUME Init PROVE NamesInv /\ FactsInv
  OBVIOUS
<1>1. DOMAIN << >> = {}
  OBVIOUS
<1>2. DOMAIN live = {} /\ DOMAIN names = {}
  BY <1>1 DEF Init
<1>3. TypeOK
  BY <1>2 DEF Init, TypeOK, NoJob, Places, Checking
<1>4. Past /\ NamesTrue /\ CheckedIsCurrent /\ SendTrue
  BY <1>2 DEF Init, NoJob, Checking, Past, NamesTrue, CheckedIsCurrent, SendTrue
<1>5. FactsInv
  BY DEF Init, FactsInv, MissingKnown, Places, Settled
<1> QED
  BY <1>3, <1>4, <1>5 DEF NamesInv

LEMMA WorldKeepsTypes ==
    ASSUME TypeOK, Past, World
    PROVE  TypeOK' /\ Past' /\ now' \in Nat /\ now <= now'
<1>1. names' = names /\ pc' = pc /\ job' = job
  BY DEF World, RegisterEntry, RemoveEntry, CleanupExpired, Rehost, Tick, Aside, call
<1>2. ASSUME NEW i \in Id, NEW q \in Port, NEW n \in Name, RegisterEntry(i, q, n)
      PROVE  TypeOK' /\ Past' /\ now' = now
  <2>2. /\ DOMAIN live' = DOMAIN live \cup {i}
        /\ live'[i] = [port |-> q, name |-> n, at |-> now]
        /\ \A j \in DOMAIN live : live'[j] = live[j]
    BY <1>2 DEF RegisterEntry, Put
  <2>3. live'[i] \in Entry /\ live'[i].at = now
    BY <2>2 DEF TypeOK, Entry
  <2>4. host' = host /\ since' = since /\ now' = now /\ now \in Nat
    BY <1>2 DEF RegisterEntry, TypeOK
  <2> QED
    BY <1>1, <2>2, <2>3, <2>4 DEF TypeOK, Past, Checking
<1>3. ASSUME NEW i \in Id, RemoveEntry(i) PROVE TypeOK' /\ Past' /\ now' = now
  BY <1>1, <1>3 DEF RemoveEntry, Restrict, TypeOK, Past, Checking
<1>4. CASE CleanupExpired
  <2>1. live' = live /\ host' = host /\ since' = since /\ now' = now
    BY <1>4 DEF CleanupExpired
  <2> QED
    BY <1>1, <2>1 DEF TypeOK, Past, Checking
<1>5. ASSUME NEW q \in Port, NEW n \in Name \cup {None}, Rehost(q, n) PROVE TypeOK' /\ Past' /\ now' = now
  BY <1>1, <1>5 DEF Rehost, registry, TypeOK, Past, Checking
<1>6. CASE Tick
  <2>1. now' = now + 1 /\ pc # "verifying" /\ live' = live /\ host' = host /\ since' = since
    BY <1>6 DEF Tick, registry
  <2>2. TypeOK'
    BY <1>1, <2>1 DEF TypeOK, Checking
  <2>3. /\ \A i \in DOMAIN live : live[i].at \in Nat
        /\ \A i \in DOMAIN names : names[i].at \in Nat
        /\ job.at \in Nat /\ (Checking => job.to.at \in Nat)
    BY DEF TypeOK, Entry
  <2>4. Past'
    BY <1>1, <2>1, <2>3 DEF TypeOK, Past, Checking
  <2> QED
    BY <2>1, <2>2, <2>4 DEF TypeOK
<1> QED
  BY <1>2, <1>3, <1>4, <1>5, <1>6 DEF World, TypeOK

\* Once the server of an entry or the entry itself changed, it stays so.
LEMMA WorldKeepsTruth ==
    ASSUME TypeOK, Past, World, NEW e \in Entry
    PROVE  /\ since'[e.port] \in Nat /\ since[e.port] \in Nat
           /\ (host'[e.port] = host[e.port] /\ since'[e.port] = since[e.port]) \/ since'[e.port] = now
           /\ \A i \in DOMAIN names : Vouched(e, names[i]) => Vouched(e, names[i])'
<1>1. e.port \in Port /\ e.at \in Nat /\ now \in Nat
  BY DEF Entry, TypeOK
<1>2. since[e.port] \in Nat /\ since'[e.port] \in Nat
  BY <1>1, WorldKeepsTypes DEF TypeOK
<1>3. (host'[e.port] = host[e.port] /\ since'[e.port] = since[e.port]) \/ since'[e.port] = now
  BY <1>1 DEF World, RegisterEntry, RemoveEntry, CleanupExpired, Rehost, Tick, TypeOK
<1>4. names' = names
  BY DEF World, RegisterEntry, RemoveEntry, CleanupExpired, Rehost, Tick, Aside, call
<1>5. \A i \in DOMAIN names : names[i].at \in Nat /\ names[i].at <= now
  BY DEF TypeOK, Past
<1> QED
  BY <1>1, <1>2, <1>3, <1>4, <1>5 DEF Vouched

LEMMA WorldKeepsNames ==
    ASSUME NamesInv, World
    PROVE  NamesInv'
<1> USE DEF NamesInv
<1>1. names' = names /\ pc' = pc /\ job' = job
  BY DEF World, RegisterEntry, RemoveEntry, CleanupExpired, Rehost, Tick, Aside, call
<1>2. TypeOK' /\ Past' /\ now \in Nat
  BY WorldKeepsTypes DEF TypeOK
\* A live entry was there before, or it is of now.
<1>3. ASSUME NEW i \in DOMAIN live'
      PROVE  \/ i \in DOMAIN live /\ live'[i] = live[i]
             \/ live'[i] \in Entry /\ live'[i].at = now
  <2>1. ASSUME NEW j \in Id, NEW q \in Port, NEW n \in Name, RegisterEntry(j, q, n)
        PROVE  \/ i \in DOMAIN live /\ live'[i] = live[i]
               \/ live'[i].at = now
    BY <2>1 DEF RegisterEntry, Put
  <2>2. ASSUME NEW j \in Id, RemoveEntry(j) PROVE i \in DOMAIN live /\ live'[i] = live[i]
    BY <2>2 DEF RemoveEntry, Restrict
  <2>3. CASE CleanupExpired \/ Tick \/ \E q \in Port, n \in Name \cup {None} : Rehost(q, n)
    BY <2>3 DEF CleanupExpired, Tick, Rehost, registry
  <2>4. live'[i] \in Entry
    BY <1>2 DEF TypeOK
  <2> QED
    BY <2>1, <2>2, <2>3, <2>4 DEF World
<1>4. ASSUME NEW i \in DOMAIN live PROVE live[i] \in Entry /\ live[i].at <= now
  BY DEF TypeOK, Past
<1>5. Checking => job.to \in Entry /\ job.to.at <= now
  BY DEF TypeOK, Past
<1>7. NamesTrue'
  <2> SUFFICES ASSUME NEW i \in DOMAIN names
               PROVE  /\ i \in DOMAIN live' => Vouched(live[i], names[i])'
                      /\ pc = "verifying" /\ i = job.id => Vouched(job.to, names[i])'
    BY <1>1 DEF NamesTrue
  <2>1. names[i].at \in Nat /\ names[i].at <= now
    BY DEF TypeOK, Past
  <2>2. ASSUME i \in DOMAIN live' PROVE Vouched(live[i], names[i])'
    <3>1. CASE i \in DOMAIN live /\ live'[i] = live[i]
      <4>1. Vouched(live[i], names[i])
        BY <3>1 DEF NamesTrue
      <4>2. \/ names[i].name \in {None, host'[live[i].port]}
            \/ since'[live[i].port] >= names[i].at \/ live[i].at >= names[i].at
        BY <1>1, <1>4, <3>1, <4>1, WorldKeepsTruth DEF Vouched
      <4> QED
        BY <1>1, <3>1, <4>2 DEF Vouched
    <3>2. CASE live'[i].at = now
      BY <1>1, <1>2, <2>1, <3>2 DEF Vouched
    <3> QED
      BY <1>3, <2>2, <3>1, <3>2
  <2>3. ASSUME pc = "verifying", i = job.id PROVE Vouched(job.to, names[i])'
    <3>1. job.to \in Entry /\ Vouched(job.to, names[i])
      BY <1>5, <2>3 DEF NamesTrue, Checking
    <3>2. \/ names[i].name \in {None, host'[job.to.port]}
          \/ since'[job.to.port] >= names[i].at \/ job.to.at >= names[i].at
      BY <1>1, <3>1, WorldKeepsTruth DEF Vouched
    <3> QED
      BY <1>1, <3>2 DEF Vouched
  <2> QED
    BY <2>2, <2>3
<1>8. CheckedIsCurrent'
  <2>1. job.at \in Nat /\ job.at <= now
    BY DEF TypeOK, Past
  <2> QED
    BY <1>1, <1>2, <1>3, <2>1 DEF CheckedIsCurrent, Checking
<1>9. SendTrue'
  <2>1. ASSUME pc = "sending", ~job.doubt
        PROVE  \/ host'[job.to.port] = job.to.name
               \/ since'[job.to.port] > job.at - NameTimeout \/ job.to.at > job.at - NameTimeout
    <3>1. job.to \in Entry /\ job.at \in Nat /\ job.at <= now
      BY <2>1 DEF TypeOK, Past
    <3>2. \/ host[job.to.port] = job.to.name
          \/ since[job.to.port] > job.at - NameTimeout \/ job.to.at > job.at - NameTimeout
      BY <2>1 DEF SendTrue, Fresh
    <3>3. NameTimeout \in Nat /\ NameTimeout > 0
      <4>1. NameTimeout \in Nat /\ NameTimeout # 0
        BY RouterAssumption
      <4> QED
        BY <4>1
    <3>4. /\ since'[job.to.port] \in Nat /\ since[job.to.port] \in Nat
          /\ \/ host'[job.to.port] = host[job.to.port] /\ since'[job.to.port] = since[job.to.port]
             \/ since'[job.to.port] = now
      BY <3>1, WorldKeepsTruth
    <3>5. now > job.at - NameTimeout
      BY <1>2, <3>1, <3>3
    <3> QED
      BY <3>2, <3>4, <3>5
  <2> QED
    BY <1>1, <2>1 DEF SendTrue, Fresh
<1> QED
  BY <1>2, <1>7, <1>8, <1>9

\* What a step of the router itself does: it leaves the world alone, and where it
\* does not write the cache of names only the place and the job change.
LEMMA StepKeepsTypes ==
    ASSUME TypeOK, Past, UNCHANGED <<world, names>>, pc' \in Places,
           job' \in [id : Id \cup {None}, to : Entry \cup {None}, at : Nat, doubt : BOOLEAN],
           job'.at <= now,
           pc' \in {"verifying", "querying", "sending"} => job'.to \in Entry,
           pc' \in {"verifying", "querying"} => job'.to.at <= now,
           pc' = "verifying" => job'.at = now
    PROVE  TypeOK' /\ Past'
<1>1. live' = live /\ host' = host /\ since' = since /\ now' = now /\ names' = names
  BY DEF world, registry
<1>2. TypeOK'
  BY <1>1 DEF TypeOK, Checking
<1>3. Past'
  BY <1>1 DEF Past, Checking
<1> QED
  BY <1>2, <1>3

\* A step to a place where nothing is being checked.
LEMMA UncheckedKeepsNames ==
    ASSUME NamesInv, UNCHANGED <<world, names>>,
           pc' \in {"idle", "looking", "discovering", "selecting", "getting", "missing"},
           job' \in [id : Id \cup {None}, to : Entry \cup {None}, at : Nat, doubt : BOOLEAN],
           job'.at <= now
    PROVE  NamesInv'
<1>1. TypeOK' /\ Past'
  BY StepKeepsTypes DEF NamesInv, Places
<1>2. live' = live /\ host' = host /\ since' = since /\ names' = names
  BY DEF world, registry
<1>4. NamesTrue'
  BY <1>2 DEF NamesInv, NamesTrue, Vouched
<1>5. CheckedIsCurrent' /\ SendTrue'
  BY DEF CheckedIsCurrent, SendTrue, Checking
<1> QED
  BY <1>1, <1>4, <1>5 DEF NamesInv

LEMMA GetInstanceKeepsNames ==
    ASSUME NamesInv, GetInstance
    PROVE  NamesInv'
<1> USE DEF NamesInv
<1>1. CASE job.id \notin DOMAIN live
  BY <1>1, UncheckedKeepsNames DEF GetInstance, Goto, Proceed, TypeOK, Past
<1>2. CASE job.id \in DOMAIN live
  <2> DEFINE e == live[job.id]
  <2>1. /\ live' = live /\ host' = host /\ since' = since /\ now' = now /\ names' = names
        /\ pc' = "verifying" /\ job' = [job EXCEPT !.to = e, !.at = now]
    BY <1>2 DEF GetInstance, Proceed, world, registry
  <2>2. e \in Entry /\ e.at <= now /\ now \in Nat
    BY <1>2 DEF TypeOK, Past
  <2>3. /\ job' \in [id : Id \cup {None}, to : Entry \cup {None}, at : Nat, doubt : BOOLEAN]
        /\ job'.id = job.id /\ job'.to = e /\ job'.at = now
    BY <2>1, <2>2 DEF TypeOK
  <2>4. TypeOK' /\ Past'
    BY <1>2, <2>1, <2>2, <2>3, StepKeepsTypes DEF GetInstance, Places
  <2>6. NamesTrue'
    BY <1>2, <2>1, <2>3 DEF NamesTrue, Vouched
  <2>7. CheckedIsCurrent' /\ SendTrue'
    BY <2>1, <2>3 DEF CheckedIsCurrent, SendTrue
  <2> QED
    BY <2>4, <2>6, <2>7
<1> QED
  BY <1>1, <1>2

LEMMA StartQueryKeepsNames ==
    ASSUME NamesInv, StartQuery
    PROVE  NamesInv'
<1> USE DEF NamesInv
<1>1. /\ live' = live /\ host' = host /\ since' = since /\ now' = now /\ names' = names
      /\ pc = "verifying" /\ pc' = "querying" /\ job' = [job EXCEPT !.at = now]
  BY DEF StartQuery, Goto, Proceed, world, registry
<1>2. /\ job' \in [id : Id \cup {None}, to : Entry \cup {None}, at : Nat, doubt : BOOLEAN]
      /\ job'.id = job.id /\ job'.to = job.to /\ job'.at = now /\ now \in Nat
      /\ job.at = now
  BY <1>1 DEF TypeOK, Past
<1>3. job.to \in Entry /\ job.to.at <= now
  BY <1>1 DEF TypeOK, Past, Checking
<1>4. TypeOK' /\ Past'
  BY <1>1, <1>2, <1>3, StepKeepsTypes DEF StartQuery, Places
<1>6. NamesTrue'
  BY <1>1 DEF NamesTrue, Vouched
<1>7. CheckedIsCurrent' /\ SendTrue'
  BY <1>1, <1>2 DEF CheckedIsCurrent, SendTrue, Checking
<1> QED
  BY <1>4, <1>6, <1>7

\* A cached name lets a request pass only when its server has that binary, or
\* changed after the name was asked for.
LEMMA CachedNameTrue ==
    ASSUME NamesInv, pc = "verifying", Cached(job.id), names[job.id].name # None
    PROVE  /\ job.at = now /\ now \in Nat
           /\ \/ names[job.id].name = host[job.to.port]
              \/ Fresh(since[job.to.port]) \/ Fresh(job.to.at)
<1>1. job.at = now /\ now \in Nat /\ job.to \in Entry
  BY DEF NamesInv, TypeOK, Past, Checking
<1>2. names[job.id].at \in Nat /\ now - names[job.id].at < NameTimeout /\ job.id \in DOMAIN names
  BY DEF Cached, NamesInv, TypeOK
<1>3. since[job.to.port] \in Nat /\ job.to.at \in Nat
  BY <1>1 DEF NamesInv, TypeOK, Entry
<1>4. Vouched(job.to, names[job.id])
  BY <1>2 DEF NamesInv, NamesTrue
<1>5. NameTimeout \in Nat
  BY RouterAssumption
<1>6. names[job.id].at > job.at - NameTimeout
  BY <1>1, <1>2, <1>5
<1> QED
  BY <1>1, <1>2, <1>3, <1>4, <1>5, <1>6 DEF Vouched, Fresh

\* A step that sends the request or refuses it: the name is known to be right, or
\* in doubt.
LEMMA CompareKeepsNames ==
    ASSUME NamesInv, UNCHANGED world, NEW name, NEW j, Compare(name, j), Checking,
           (j = [job EXCEPT !.at = now] /\ pc = "verifying") \/ j = job,
           \A i \in DOMAIN names' : names'[i] \in [name : Name \cup {None}, at : Nat] /\ names'[i].at <= now,
           \A i \in DOMAIN names' : i \in DOMAIN live => Vouched(live[i], names'[i]),
           name = job.to.name /\ name # None =>
               host[job.to.port] = job.to.name \/ Fresh(since[job.to.port]) \/ Fresh(job.to.at)
    PROVE  NamesInv'
<1> USE DEF NamesInv
<1>1. live' = live /\ host' = host /\ since' = since /\ now' = now
  BY DEF world, registry
<1>2. /\ j \in [id : Id \cup {None}, to : Entry \cup {None}, at : Nat, doubt : BOOLEAN]
      /\ j.to = job.to /\ j.to \in Entry /\ j.at \in Nat /\ j.at <= now /\ j.at = job.at
  BY DEF TypeOK, Past, Checking
<1>3. \/ pc' = "idle" /\ job' = NoJob
      \/ pc' = "sending" /\ job' = [j EXCEPT !.doubt = TRUE]
      \/ pc' = "sending" /\ job' = j /\ name = job.to.name /\ name # None
  BY <1>2 DEF Compare, Answer, Goto, Proceed
<1>4. /\ job' \in [id : Id \cup {None}, to : Entry \cup {None}, at : Nat, doubt : BOOLEAN]
      /\ job'.at <= now /\ (pc' = "sending" => job'.to \in Entry)
  <2> DEFINE Job == [id : Id \cup {None}, to : Entry \cup {None}, at : Nat, doubt : BOOLEAN]
  <2>1. CASE job' = NoJob /\ pc' = "idle"
    BY <2>1 DEF NoJob, TypeOK
  <2>2. CASE job' = [j EXCEPT !.doubt = TRUE]
    <3>1. job' \in Job /\ job'.at = j.at /\ job'.to = j.to
      BY <1>2, <2>2
    <3> QED
      BY <1>2, <3>1
  <2>3. CASE job' = j
    BY <1>2, <2>3
  <2> QED
    BY <1>3, <2>1, <2>2, <2>3
<1>5. TypeOK'
  BY <1>1, <1>3, <1>4 DEF TypeOK, Places, Checking
<1>6. Past'
  BY <1>1, <1>3, <1>4 DEF Past, Checking
<1>8. NamesTrue'
  BY <1>1, <1>3 DEF NamesTrue, Vouched
<1>9. CheckedIsCurrent' /\ SendTrue'
  BY <1>1, <1>2, <1>3 DEF CheckedIsCurrent, SendTrue, Fresh, Checking
<1> QED
  BY <1>5, <1>6, <1>8, <1>9

LEMMA VerifyCachedKeepsNames ==
    ASSUME NamesInv, VerifyCached
    PROVE  NamesInv'
<1> DEFINE name == names[job.id].name
<1>1. /\ pc = "verifying" /\ Cached(job.id) /\ UNCHANGED world /\ names' = names
      /\ Compare(name, [job EXCEPT !.at = now])
  BY DEF VerifyCached
<1>2. job.at = now /\ [job EXCEPT !.at = now].at = now
  BY <1>1 DEF NamesInv, TypeOK, Past
<1>3. name = job.to.name /\ name # None =>
          host[job.to.port] = job.to.name \/ Fresh(since[job.to.port]) \/ Fresh(job.to.at)
  BY <1>1, <1>2, CachedNameTrue
<1>4. \A i \in DOMAIN names' : names'[i] \in [name : Name \cup {None}, at : Nat] /\ names'[i].at <= now
  BY <1>1 DEF NamesInv, TypeOK, Past
<1>5. \A i \in DOMAIN names' : i \in DOMAIN live => Vouched(live[i], names'[i])
  BY <1>1 DEF NamesInv, NamesTrue
<1>6. Checking
  BY <1>1 DEF Checking
<1> HIDE DEF name
<1> QED
  BY <1>1, <1>2, <1>3, <1>4, <1>5, <1>6, CompareKeepsNames

LEMMA QueryKeepsNames ==
    ASSUME NamesInv, Query
    PROVE  NamesInv'
<1>1. PICK name \in {host[job.to.port], None} : names' = CacheName(name) /\ Compare(name, job)
  BY DEF Query
<1>2. UNCHANGED world /\ pc = "querying" /\ Checking
  BY DEF Query, Checking
<1>3. /\ DOMAIN names' = DOMAIN names \cup {job.id}
      /\ names'[job.id] = [name |-> name, at |-> job.at]
      /\ \A i \in DOMAIN names \ {job.id} : names'[i] = names[i]
  BY <1>1 DEF CacheName, Put
<1>4. name \in Name \cup {None} /\ job.at \in Nat /\ job.at <= now /\ now \in Nat /\ job.to \in Entry
  BY <1>1, <1>2 DEF NamesInv, TypeOK, Past, Checking, Entry
<1>5. \A i \in DOMAIN names' : names'[i] \in [name : Name \cup {None}, at : Nat] /\ names'[i].at <= now
  BY <1>3, <1>4 DEF NamesInv, TypeOK, Past
<1>6. ASSUME NEW i \in DOMAIN names', i \in DOMAIN live PROVE Vouched(live[i], names'[i])
  <2>1. CASE i # job.id
    BY <1>3, <1>6, <2>1 DEF NamesInv, NamesTrue
  <2>2. CASE i = job.id
    <3>1. live[i] = job.to \/ live[i].at >= job.at
      BY <1>2, <1>6, <2>2 DEF NamesInv, CheckedIsCurrent
    <3>2. names'[i].name = name /\ names'[i].at = job.at
      BY <1>3, <2>2
    <3> QED
      BY <1>1, <3>1, <3>2 DEF Vouched
  <2> QED
    BY <2>1, <2>2
<1>7. name # None => host[job.to.port] = name
  BY <1>1
<1> QED
  BY <1>1, <1>2, <1>5, <1>6, <1>7, CompareKeepsNames

LEMMA NextNames == NamesInv /\ [Next]_vars => NamesInv'
<1> SUFFICES ASSUME NamesInv, [Next]_vars PROVE NamesInv'
  OBVIOUS
<1>1. NoJob \in [id : Id \cup {None}, to : Entry \cup {None}, at : Nat, doubt : BOOLEAN] /\ NoJob.at <= now
  BY DEF NoJob, NamesInv, TypeOK
<1>2. CASE World
  BY <1>2, WorldKeepsNames
<1>3. ASSUME NEW i \in Id \cup {None}, Call(i) PROVE NamesInv'
  <2>1. [NoJob EXCEPT !.id = i].at = NoJob.at
    BY DEF NoJob
  <2>2. [NoJob EXCEPT !.id = i] \in [id : Id \cup {None}, to : Entry \cup {None}, at : Nat, doubt : BOOLEAN]
    BY <1>1
  <2> QED
    BY <1>1, <1>3, <2>1, <2>2, UncheckedKeepsNames DEF Call, Proceed
<1>4. CASE LookForAny \/ LookAgain \/ GetExpired \/ Send
  BY <1>1, <1>4, UncheckedKeepsNames
  DEF LookForAny, LookAgain, GetExpired, Send, Answer, Goto, Proceed, NamesInv, TypeOK, Past
<1>5. CASE Select
  <2>1. ASSUME NEW i \in DOMAIN live
        PROVE  /\ [job EXCEPT !.id = i] \in [id : Id \cup {None}, to : Entry \cup {None}, at : Nat, doubt : BOOLEAN]
               /\ [job EXCEPT !.id = i].at = job.at
    BY DEF NamesInv, TypeOK
  <2>2. job.at <= now /\ job \in [id : Id \cup {None}, to : Entry \cup {None}, at : Nat, doubt : BOOLEAN]
    BY DEF NamesInv, TypeOK, Past
  <2> QED
    BY <1>1, <1>5, <2>1, <2>2, UncheckedKeepsNames DEF Select, Answer, Goto, Proceed
<1>6. CASE GetInstance \/ VerifyCached \/ StartQuery \/ Query
  BY <1>6, GetInstanceKeepsNames, VerifyCachedKeepsNames, StartQueryKeepsNames, QueryKeepsNames
<1>7. CASE ListCached \/ \E o \in Output : GetCached(o)
  <2>1. pc' = "idle" /\ job' = NoJob /\ UNCHANGED <<world, names>>
    BY <1>7 DEF ListCached, GetCached, Answer, Goto, Proceed
  <2> QED
    BY <1>1, <2>1, UncheckedKeepsNames
<1>8. CASE UNCHANGED vars
  <2>1. /\ live' = live /\ host' = host /\ since' = since /\ now' = now /\ names' = names
        /\ pc' = pc /\ job' = job
    BY <1>8 DEF vars, world, registry, call
  <2>2. TypeOK' /\ Past'
    BY <2>1 DEF NamesInv, TypeOK, Past, Checking
  <2> QED
    BY <2>1, <2>2
    DEF NamesInv, NamesTrue, Vouched, CheckedIsCurrent, SendTrue, Fresh, Checking
<1> QED
  BY <1>2, <1>3, <1>4, <1>5, <1>6, <1>7, <1>8 DEF Next, Step
-----------------------------------------------------------------------------
\* That there is no instance, or not one, or that an id expired is told only if it
\* was so at some moment of the request, whatever happens to the registry meanwhile;
\* "not found" also of an id that was expired at such a moment and is live again
\* (custom_tools_call, route_request).
THEOREM AnswersAlwaysTrue == Spec => AnswersTrue
<1> DEFINE Told(a) ==
        /\ a \in {"none", "not one", "expired"} => a \in facts
        /\ a = "missing" =>
              "missing" \in facts \/ ("expired" \in facts /\ job.id \in DOMAIN live)
<1>1. ASSUME NamesInv, FactsInv, Next PROVE Told(answer')
  <2>1. None \notin {"none", "not one", "expired", "missing"}
    BY RouterAssumption
  <2>2. CASE World \/ ListCached \/ \E i \in Id \cup {None} : Call(i)
    <3>1. answer' = None
      BY <2>2 DEF World, RegisterEntry, RemoveEntry, CleanupExpired, Rehost, Tick, Aside,
                  ListCached, Call, Goto, Proceed
    <3> QED
      BY <2>1, <3>1
  <2>3. CASE LookForAny \/ GetInstance \/ VerifyCached \/ StartQuery \/ Query
    <3>1. answer' = None \/ answer' = "changed"
      BY <2>3 DEF LookForAny, GetInstance, VerifyCached, StartQuery, Query, Compare, Answer, Goto, Proceed
    <3> QED
      BY <2>1, <3>1
  <2>4. CASE LookAgain
    BY <1>1, <2>1, <2>4 DEF LookAgain, Answer, Goto, Proceed, FactsInv
  <2>5. CASE Select
    <3>1. answer' = None \/ (answer' = "not one" /\ Cardinality(DOMAIN live) # 1)
      BY <2>5 DEF Select, Answer, Goto, Proceed
    <3>2. Cardinality(DOMAIN live) # 1 => "not one" \in facts
      BY <1>1, <2>5 DEF Select, FactsInv, Facts, Settled
    <3> QED
      BY <2>1, <3>1, <3>2
  <2>6. CASE GetExpired
    BY <1>1, <2>6 DEF GetExpired, Answer, FactsInv, MissingKnown
  <2>7. CASE Send
    <3>1. answer' \in {"failed", "done", "truncated"}
      BY <2>7 DEF Send, Answer
    <3> QED
      BY <3>1
  <2>8. CASE \E o \in Output : GetCached(o)
    <3>1. answer' \in {"page", "no page"}
      BY <2>8 DEF GetCached, Answer
    <3> QED
      BY <3>1
  <2> QED
    BY <1>1, <2>2, <2>3, <2>4, <2>5, <2>6, <2>7, <2>8 DEF Next, Step
<1>2. NamesInv /\ FactsInv /\ [Next]_vars => NamesInv' /\ FactsInv'
  BY NextNames, NextFacts DEF NamesInv
<1>3. NamesInv /\ FactsInv /\ [Next]_vars => [Told(answer')]_vars
  BY <1>1
<1> QED
  BY InitNames, <1>2, <1>3, PTL DEF Spec, AnswersTrue

\* A request is executed on a binary other than its instance was registered for
\* only if the server changed after the check or less than _cache_timeout before
\* it, the id was registered as shortly before it, or its name could not be had
\* (_verify_binary_path).
THEOREM MisroutingAlwaysBounded == Spec => MisroutingBounded
<1> DEFINE Bounded == ReachesAnother => job.doubt \/ Fresh(since[job.to.port]) \/ Fresh(job.to.at)
<1>1. NamesInv => Bounded
  BY DEF NamesInv, SendTrue, ReachesAnother, Send
<1>2. NamesInv /\ [Next]_vars => [Bounded]_vars
  BY <1>1
<1> QED
  BY InitNames, NextNames, <1>2, PTL DEF Spec, MisroutingBounded

\* A request is refused as stale (_verify_binary_path) only when its server has
\* another binary, or the server changed or the id was registered again less than
\* _cache_timeout ago.
THEOREM AlarmsAlwaysJustified == Spec => AlarmsJustified
<1> DEFINE Justified ==
        ToldChanged =>
          host[job.to.port] # job.to.name \/ Fresh(since[job.to.port]) \/ Fresh(job.to.at)
<1>1. ASSUME NamesInv, ToldChanged PROVE Justified
  <2> None # "changed"
    BY RouterAssumption
  <2>1. CASE VerifyCached
    <3>1. names[job.id].name # None /\ names[job.id].name # job.to.name
      BY <1>1, <2>1 DEF ToldChanged, VerifyCached, Compare, Goto, Proceed, Answer, TypeOK, NamesInv
    <3>2. pc = "verifying" /\ Cached(job.id)
      BY <2>1 DEF VerifyCached
    <3> QED
      BY <1>1, <3>1, <3>2, CachedNameTrue
  <2>2. CASE Query
    <3>1. PICK name \in {host[job.to.port], None} : Compare(name, job)
      BY <2>2 DEF Query
    <3>2. name # None /\ name # job.to.name
      BY <1>1, <3>1 DEF ToldChanged, Compare, Goto, Proceed
    <3> QED
      BY <3>1, <3>2
  <2> QED
    BY <1>1, <2>1, <2>2 DEF ToldChanged
<1>2. NamesInv /\ [Next]_vars => [Justified]_vars
  BY <1>1
<1> QED
  BY InitNames, NextNames, <1>2, PTL DEF Spec, AlarmsJustified
-----------------------------------------------------------------------------
(***************************************************************************)
(* The response cache.  It is a sequence, and so is the history of what    *)
(* the client had last; what matters of both is which entries they have    *)
(* and in which order.                                                     *)
(***************************************************************************)
\* Induction over the natural numbers, with the set where something holds.
LEMMA EveryNat ==
    ASSUME NEW T \in SUBSET Nat, 0 \in T, \A n \in T : n + 1 \in T
    PROVE  T = Nat
<1> DEFINE R == OpToRel(<, Nat)
           U == Nat \ T
<1>1. IsWellFoundedOn(R, Nat)
  BY NatLessThanWellFounded
<1>2. ASSUME U # {} PROVE FALSE
  <2>1. U \subseteq Nat
    OBVIOUS
  <2>2. PICK m \in U : \A y \in U : ~ (<<y, m>> \in R)
    <3> HIDE DEF R, U
    <3> QED BY <1>1, <1>2, <2>1, WFMin
  <2>3. m \in Nat /\ m # 0 /\ m \notin T
    OBVIOUS
  <2>4. m - 1 \in Nat /\ m - 1 < m /\ m - 1 + 1 = m
    BY <2>3
  <2>5. m - 1 \notin T
    BY <2>3, <2>4
  <2>6. <<m - 1, m>> \in R
    BY <2>3, <2>4 DEF OpToRel
  <2> QED BY <2>2, <2>4, <2>5, <2>6
<1> QED BY <1>2

\* The first n entries of c that are in s.
KeptStep(c, s, f, n) ==
    IF n = 0 THEN << >> ELSE IF c[n] \in s THEN Append(f[n - 1], c[n]) ELSE f[n - 1]

IsKept(c, s, f, m) == f = [n \in 0..m |-> KeptStep(c, s, f, n)]

\* The function that Kept describes is there ...
LEMMA KeptExists ==
    ASSUME NEW c, NEW s
    PROVE  \A m \in Nat : \E f : IsKept(c, s, f, m)
<1> DEFINE T == {m \in Nat : \E f : IsKept(c, s, f, m)}
<1>1. 0 \in T
  <2> DEFINE f == [n \in 0..0 |-> << >>]
  <2>1. IsKept(c, s, f, 0)
    BY DEF IsKept, KeptStep
  <2> QED BY <2>1
<1>2. ASSUME NEW m \in T PROVE m + 1 \in T
  <2>1. PICK f : IsKept(c, s, f, m)
    BY <1>2
  <2> DEFINE g == [n \in 0..m+1 |-> KeptStep(c, s, f, n)]
  <2>2. \A n \in 0..m : g[n] = f[n]
    BY <2>1 DEF IsKept
  <2>3. \A n \in 0..m+1 : KeptStep(c, s, f, n) = KeptStep(c, s, g, n)
    <3> SUFFICES ASSUME NEW n \in 0..m+1 PROVE KeptStep(c, s, f, n) = KeptStep(c, s, g, n)
      OBVIOUS
    <3> HIDE DEF g
    <3>1. CASE n = 0
      BY <3>1 DEF KeptStep
    <3>2. CASE n # 0
      <4>1. n - 1 \in 0..m
        BY <3>2
      <4>2. f[n - 1] = g[n - 1]
        BY <2>2, <4>1
      <4> QED BY <4>2 DEF KeptStep
    <3> QED BY <3>1, <3>2
  <2>4. IsKept(c, s, g, m + 1)
    BY <2>3 DEF IsKept
  <2> HIDE DEF g
  <2> QED BY <2>4
<1> HIDE DEF T
<1>3. T = Nat
  <2>1. T \in SUBSET Nat
    BY DEF T
  <2> QED BY <1>1, <1>2, <2>1, EveryNat
<1> QED BY <1>3 DEF T

LEMMA KeptDef ==
    ASSUME NEW c, NEW s, Len(c) \in Nat
    PROVE  \E f : IsKept(c, s, f, Len(c)) /\ Kept(c, s) = f[Len(c)]
<1> DEFINE Is(f) == f = [n \in 0..Len(c) |-> IF n = 0 THEN << >>
                          ELSE IF c[n] \in s THEN Append(f[n - 1], c[n]) ELSE f[n - 1]]
           kept == CHOOSE f : Is(f)
<1>1. \E f : Is(f)
  <2>1. PICK f : IsKept(c, s, f, Len(c))
    BY KeptExists
  <2>2. Is(f)
    BY <2>1 DEF IsKept, KeptStep
  <2> HIDE DEF Is
  <2> QED BY <2>2
<1>2. Kept(c, s) = kept[Len(c)]
  BY DEF Kept
<1>3. Is(kept)
  <2> HIDE DEF Is
  <2> QED BY <1>1
<1> HIDE DEF kept
<1>4. IsKept(c, s, kept, Len(c))
  BY <1>3 DEF IsKept, KeptStep
<1> QED BY <1>2, <1>4

\* k has the entries of the first m of c that are in s: g says where they are.
Picks(c, s, k, m, g) ==
    /\ g \in [1..Len(k) -> 1..m]
    /\ \A x \in 1..Len(k) : k[x] = c[g[x]] /\ k[x] \in s
    /\ \A x, y \in 1..Len(k) : x < y => g[x] < g[y]
    /\ \A i \in 1..m : c[i] \in s => \E x \in 1..Len(k) : g[x] = i

\* ... and picks the entries in their order.
LEMMA KeptPicks ==
    ASSUME NEW E, NEW c \in Seq(E), NEW s
    PROVE  Kept(c, s) \in Seq(E) /\ \E g : Picks(c, s, Kept(c, s), Len(c), g)
<1>1. Len(c) \in Nat /\ \A n \in 1..Len(c) : c[n] \in E
  BY LenProperties, ElementOfSeq
<1>2. PICK f : IsKept(c, s, f, Len(c)) /\ Kept(c, s) = f[Len(c)]
  BY <1>1, KeptDef
<1>3. \A n \in 0..Len(c) : f[n] = KeptStep(c, s, f, n)
  BY <1>2 DEF IsKept
<1> DEFINE P(m) == f[m] \in Seq(E) /\ \E g : Picks(c, s, f[m], m, g)
           T == {m \in Nat : m <= Len(c) => P(m)}
<1>4. 0 \in T
  <2>1. f[0] = << >>
    BY <1>1, <1>3 DEF KeptStep
  <2>2. << >> \in Seq(E) /\ Len(<< >>) = 0
    BY EmptySeq
  <2>3. Picks(c, s, << >>, 0, << >>)
    BY <2>2 DEF Picks
  <2> QED BY <2>1, <2>2, <2>3
<1>5. ASSUME NEW m \in T PROVE m + 1 \in T
  <2> DEFINE n == m + 1
             k == f[m]
  <2> SUFFICES ASSUME n <= Len(c) PROVE P(n)
    OBVIOUS
  <2>0. m \in Nat /\ n \in Nat /\ n # 0 /\ n - 1 = m /\ n \in 0..Len(c) /\ n \in 1..Len(c) /\ m <= Len(c)
    BY <1>1
  <2>1. k \in Seq(E) /\ \E g : Picks(c, s, k, m, g)
    BY <1>5, <2>0
  <2>2. f[n] = IF c[n] \in s THEN Append(k, c[n]) ELSE k
    BY <1>3, <2>0 DEF KeptStep
  <2>3. PICK g : Picks(c, s, k, m, g)
    BY <2>1
  <2> HIDE DEF n, k, P
  <2>4. Len(k) \in Nat /\ \A x \in 1..Len(k) : k[x] \in E
    BY <2>1, LenProperties, ElementOfSeq
  <2>5. CASE c[n] \notin s
    <3>1. f[n] = k
      BY <2>2, <2>5
    <3>2. 1..m \subseteq 1..n /\ \A i \in 1..n : i \in 1..m \/ i = n
      BY <2>0 DEF n
    <3>3. Picks(c, s, k, n, g)
      BY <2>3, <2>5, <3>2 DEF Picks
    <3> QED BY <2>1, <3>1, <3>3 DEF P
  <2>6. CASE c[n] \in s
    <3> DEFINE l == Len(k) + 1
               h == [x \in 1..l |-> IF x = l THEN n ELSE g[x]]
               a == Append(k, c[n])
    <3>1. f[n] = a /\ c[n] \in E
      BY <1>1, <2>0, <2>2, <2>6
    <3>2. a \in Seq(E) /\ Len(a) = l /\ a[l] = c[n] /\ \A x \in 1..Len(k) : a[x] = k[x]
      BY <2>1, <2>4, <3>1, AppendProperties
    <3> HIDE DEF a
    <3>3. \A x \in 1..l : x = l \/ (x \in 1..Len(k) /\ x < l /\ x # l)
      BY <2>4
    <3>4. \A x \in 1..Len(k) : x \in 1..l /\ x # l /\ x < l
      BY <2>4
    <3>l. l \in 1..l /\ l \in Nat
      BY <2>4
    <3>5. \A i \in 1..m : i \in 1..n /\ i < n
      BY <2>0 DEF n
    <3>6. \A i \in 1..n : i \in 1..m \/ i = n
      BY <2>0 DEF n
    <3>7. n \in 1..n
      BY <2>0
    <3> HIDE DEF l
    <3>8. h \in [1..l -> 1..n]
      BY <2>3, <3>3, <3>5, <3>7 DEF Picks
    <3>9. h[l] = n /\ \A x \in 1..Len(k) : h[x] = g[x] /\ g[x] \in 1..m
      BY <2>3, <3>4, <3>l DEF Picks
    <3> HIDE DEF h
    <3>10. \A x \in 1..l : a[x] = c[h[x]] /\ a[x] \in s
      BY <2>3, <2>6, <3>2, <3>3, <3>9 DEF Picks
    <3>11. \A x, y \in 1..l : x < y => h[x] < h[y]
      <4> SUFFICES ASSUME NEW x \in 1..l, NEW y \in 1..l, x < y PROVE h[x] < h[y]
        OBVIOUS
      <4>1. x # l
        BY <3>l
      <4>2. x \in 1..Len(k)
        BY <3>3, <4>1
      <4>3. CASE y = l
        BY <3>5, <3>9, <4>2, <4>3
      <4>4. CASE y # l
        <5>1. y \in 1..Len(k)
          BY <3>3, <4>4
        <5> QED BY <2>3, <3>9, <4>2, <5>1 DEF Picks
      <4> QED BY <4>3, <4>4
    <3>12. \A i \in 1..n : c[i] \in s => \E x \in 1..l : h[x] = i
      <4> SUFFICES ASSUME NEW i \in 1..n, c[i] \in s PROVE \E x \in 1..l : h[x] = i
        OBVIOUS
      <4>1. CASE i = n
        BY <3>9, <3>l, <4>1
      <4>2. CASE i \in 1..m
        <5>1. PICK x \in 1..Len(k) : g[x] = i
          BY <2>3, <4>2 DEF Picks
        <5> QED BY <3>4, <3>9, <5>1
      <4> QED BY <3>6, <4>1, <4>2
    <3>13. Picks(c, s, a, n, h)
      BY <3>2, <3>8, <3>10, <3>11, <3>12 DEF Picks
    <3> QED BY <3>1, <3>2, <3>13 DEF P
  <2> QED BY <2>5, <2>6
<1> HIDE DEF P
<1>6. T = Nat
  <2>1. T \in SUBSET Nat
    OBVIOUS
  <2> HIDE DEF T
  <2> QED BY <1>4, <1>5, <2>1, EveryNat
<1>7. P(Len(c))
  BY <1>1, <1>6
<1> QED BY <1>2, <1>7 DEF P

(* What is in a sequence, and in which order: f comes after e. *)
Ahead(s, e, f) == \E i, j \in 1..Len(s) : i < j /\ s[i] = e /\ s[j] = f
Has(s, e) == \E i \in 1..Len(s) : s[i] = e
Distinct(s) == \A i, j \in 1..Len(s) : s[i].id = s[j].id => i = j

\* Keeping some entries changes no order.
LEMMA KeptOrder ==
    ASSUME NEW E, NEW c \in Seq(E), NEW s, NEW e, NEW f
    PROVE  /\ Kept(c, s) \in Seq(E)
           /\ Has(Kept(c, s), e) <=> Has(c, e) /\ e \in s
           /\ Ahead(Kept(c, s), e, f) <=> Ahead(c, e, f) /\ e \in s /\ f \in s
           /\ Distinct(c) => Distinct(Kept(c, s))
<1> DEFINE k == Kept(c, s)
<1>1. PICK g : Picks(c, s, k, Len(c), g)
  BY KeptPicks
<1>2. k \in Seq(E)
  BY KeptPicks
<1>3. Len(k) \in Nat /\ Len(c) \in Nat
  BY <1>2, LenProperties
<1> HIDE DEF k
<1>4. \A x \in 1..Len(k) : g[x] \in 1..Len(c) /\ k[x] = c[g[x]] /\ k[x] \in s
  BY <1>1 DEF Picks
<1>5. Has(k, e) <=> Has(c, e) /\ e \in s
  <2>1. ASSUME Has(k, e) PROVE Has(c, e) /\ e \in s
    BY <1>4, <2>1 DEF Has
  <2>2. ASSUME NEW i \in 1..Len(c), c[i] = e, e \in s PROVE Has(k, e)
    <3>1. PICK x \in 1..Len(k) : g[x] = i
      BY <1>1, <2>2 DEF Picks
    <3> QED BY <1>4, <2>2, <3>1 DEF Has
  <2> QED BY <2>1, <2>2 DEF Has
<1>6. ASSUME Ahead(k, e, f) PROVE Ahead(c, e, f) /\ e \in s /\ f \in s
  <2>1. PICK x \in 1..Len(k), y \in 1..Len(k) : x < y /\ k[x] = e /\ k[y] = f
    BY <1>6 DEF Ahead
  <2>2. g[x] < g[y]
    BY <1>1, <2>1 DEF Picks
  <2> QED BY <1>4, <2>1, <2>2 DEF Ahead
<1>7. ASSUME Ahead(c, e, f), e \in s, f \in s PROVE Ahead(k, e, f)
  <2>1. PICK i \in 1..Len(c), j \in 1..Len(c) : i < j /\ c[i] = e /\ c[j] = f
    BY <1>7 DEF Ahead
  <2>2. PICK x \in 1..Len(k) : g[x] = i
    BY <1>1, <1>7, <2>1 DEF Picks
  <2>3. PICK y \in 1..Len(k) : g[y] = j
    BY <1>1, <1>7, <2>1 DEF Picks
  <2>4. ~ (y < x)
    <3>1. ASSUME y < x PROVE FALSE
      <4>1. g[y] < g[x]
        BY <1>1, <3>1 DEF Picks
      <4> QED BY <1>3, <2>1, <2>2, <2>3, <4>1
    <3> QED BY <3>1
  <2>5. x # y
    BY <1>3, <2>1, <2>2, <2>3
  <2>6. x < y
    BY <1>3, <2>4, <2>5
  <2> QED BY <1>4, <2>1, <2>2, <2>3, <2>6 DEF Ahead
<1>8. ASSUME Distinct(c) PROVE Distinct(k)
  <2> SUFFICES ASSUME NEW x \in 1..Len(k), NEW y \in 1..Len(k), k[x].id = k[y].id PROVE x = y
    BY DEF Distinct
  <2>1. g[x] = g[y]
    BY <1>4, <1>8 DEF Distinct
  <2>2. ~ (x < y) /\ ~ (y < x)
    <3>1. g[x] \in 1..Len(c)
      BY <1>4
    <3>2. ~ (g[x] < g[y]) /\ ~ (g[y] < g[x])
      BY <1>3, <2>1, <3>1
    <3> QED BY <1>1, <3>2 DEF Picks
  <2> QED BY <1>3, <2>2
<1> QED BY <1>2, <1>5, <1>6, <1>7, <1>8 DEF k

\* The end of a sequence.
LEMMA SuffixOrder ==
    ASSUME NEW E, NEW s \in Seq(E), NEW m \in 1..Len(s) + 1, NEW e, NEW f
    PROVE  LET u == SubSeq(s, m, Len(s)) IN
           /\ u \in Seq(E) /\ Len(u) = Len(s) - m + 1
           /\ Has(u, e) <=> \E i \in m..Len(s) : s[i] = e
           /\ Ahead(u, e, f) => Ahead(s, e, f)
           /\ Distinct(s) /\ Has(u, e) /\ Ahead(s, e, f) => Ahead(u, e, f)
           /\ Distinct(s) => Distinct(u)
<1> DEFINE u == SubSeq(s, m, Len(s))
           n == Len(s)
           l == Len(u)
<1>0. n \in Nat /\ m \in Nat /\ m # 0 /\ m <= n + 1
  BY LenProperties
<1>1. \A i \in m..n : s[i] \in E
  <2>1. \A i \in m..n : i \in 1..n
    BY <1>0
  <2> QED BY <2>1, ElementOfSeq
<1>2. /\ u \in Seq(E) /\ l = n - m + 1
      /\ \A x \in 1..n - m + 1 : u[x] = s[m + x - 1]
  <2>1. /\ u \in Seq(E) /\ l = IF m <= n THEN n - m + 1 ELSE 0
        /\ \A x \in 1..n - m + 1 : u[x] = s[m + x - 1]
    BY <1>0, <1>1, SubSeqProperties
  <2> QED BY <1>0, <2>1
<1> HIDE DEF u, n
<1>3. \A x \in 1..l : m + x - 1 \in m..n /\ m + x - 1 \in 1..n /\ u[x] = s[m + x - 1]
  BY <1>0, <1>2
<1>4. \A i \in m..n : i - m + 1 \in 1..l /\ u[i - m + 1] = s[i]
  <2> SUFFICES ASSUME NEW i \in m..n PROVE i - m + 1 \in 1..l /\ u[i - m + 1] = s[i]
    OBVIOUS
  <2>1. i - m + 1 \in 1..n - m + 1 /\ m + (i - m + 1) - 1 = i
    BY <1>0
  <2> QED BY <1>2, <2>1
<1> HIDE DEF l
<1>l. l \in Nat
  BY <1>0, <1>2
<1>5. Has(u, e) <=> \E i \in m..n : s[i] = e
  BY <1>3, <1>4 DEF Has, l
<1>6. ASSUME Ahead(u, e, f) PROVE Ahead(s, e, f)
  <2>1. PICK x \in 1..l, y \in 1..l : x < y /\ u[x] = e /\ u[y] = f
    BY <1>6 DEF Ahead, l
  <2>2. m + x - 1 < m + y - 1
    BY <1>0, <1>l, <2>1
  <2> QED BY <1>3, <2>1, <2>2 DEF Ahead, n
<1>7. ASSUME Distinct(s), Has(u, e), Ahead(s, e, f) PROVE Ahead(u, e, f)
  <2>1. PICK i \in m..n : s[i] = e
    BY <1>5, <1>7
  <2>2. PICK j \in 1..n, k \in 1..n : j < k /\ s[j] = e /\ s[k] = f
    BY <1>7 DEF Ahead, n
  <2>3. i \in 1..n
    BY <1>0
  <2>4. j = i
    BY <1>7, <2>1, <2>2, <2>3 DEF Distinct, n
  <2>5. k \in m..n /\ i - m + 1 < k - m + 1
    BY <1>0, <2>2, <2>4
  <2> QED BY <1>4, <2>1, <2>2, <2>5 DEF Ahead, l
<1>8. ASSUME Distinct(s) PROVE Distinct(u)
  <2> SUFFICES ASSUME NEW x \in 1..l, NEW y \in 1..l, u[x].id = u[y].id PROVE x = y
    BY DEF Distinct, l
  <2>0. \A i, j \in 1..n : s[i].id = s[j].id => i = j
    BY <1>8 DEF Distinct, n
  <2>1. m + x - 1 = m + y - 1
    <3>1. m + x - 1 \in 1..n /\ m + y - 1 \in 1..n /\ s[m + x - 1].id = s[m + y - 1].id
      BY <1>3
    <3> QED BY <2>0, <3>1
  <2> QED BY <1>0, <1>l, <2>1
<1> QED BY <1>2, <1>5, <1>6, <1>7, <1>8 DEF u, n, l

\* One sequence after another.
LEMMA ConcatOrder ==
    ASSUME NEW E, NEW s \in Seq(E), NEW t \in Seq(E), NEW e, NEW f
    PROVE  /\ Has(s \o t, e) <=> Has(s, e) \/ Has(t, e)
           /\ Ahead(s \o t, e, f) <=> Ahead(s, e, f) \/ Ahead(t, e, f) \/ (Has(s, e) /\ Has(t, f))
           /\ Distinct(s) /\ Distinct(t) /\ (\A x, y : Has(s, x) /\ Has(t, y) => x.id # y.id)
                => Distinct(s \o t)
<1> DEFINE u == s \o t
           m == Len(s)
           n == Len(t)
<1>1. /\ m \in Nat /\ n \in Nat /\ u \in Seq(E) /\ Len(u) = m + n
      /\ \A i \in 1..m + n : u[i] = IF i <= m THEN s[i] ELSE t[i - m]
  BY LenProperties, ConcatProperties
<1> HIDE DEF u, m, n
<1>2. \A i \in 1..m : i \in 1..m + n /\ u[i] = s[i]
  BY <1>1
<1>3. \A i \in 1..n : m + i \in 1..m + n /\ u[m + i] = t[i]
  <2> SUFFICES ASSUME NEW i \in 1..n PROVE m + i \in 1..m + n /\ u[m + i] = t[i]
    OBVIOUS
  <2>1. m + i \in 1..m + n /\ ~ (m + i <= m) /\ m + i - m = i
    BY <1>1
  <2> QED BY <1>1, <2>1
<1>4. \A i \in 1..m + n : i \in 1..m \/ (i - m \in 1..n /\ i = m + (i - m))
  BY <1>1
<1>5. Has(u, e) <=> Has(s, e) \/ Has(t, e)
  <2>1. Has(u, e) => Has(s, e) \/ Has(t, e)
    BY <1>1, <1>2, <1>3, <1>4 DEF Has, m, n
  <2>2. Has(s, e) => Has(u, e)
    BY <1>1, <1>2 DEF Has, m
  <2>3. Has(t, e) => Has(u, e)
    BY <1>1, <1>3 DEF Has, n
  <2> QED BY <2>1, <2>2, <2>3
<1>6. ASSUME Ahead(u, e, f) PROVE Ahead(s, e, f) \/ Ahead(t, e, f) \/ (Has(s, e) /\ Has(t, f))
  <2>1. PICK i \in 1..m + n, j \in 1..m + n : i < j /\ u[i] = e /\ u[j] = f
    BY <1>1, <1>6 DEF Ahead
  <2>2. CASE i \in 1..m /\ j \in 1..m
    BY <1>2, <2>1, <2>2 DEF Ahead, m
  <2>3. CASE i \in 1..m /\ j \notin 1..m
    <3>1. s[i] = e /\ j - m \in 1..n /\ t[j - m] = f
      BY <1>2, <1>3, <1>4, <2>1, <2>3
    <3> QED BY <2>3, <3>1 DEF Has, m, n
  <2>4. CASE i \notin 1..m
    <3>1. j \notin 1..m
      BY <1>1, <2>1, <2>4
    <3>2. i - m \in 1..n /\ t[i - m] = e /\ j - m \in 1..n /\ t[j - m] = f
      BY <1>3, <1>4, <2>1, <2>4, <3>1
    <3>3. i - m < j - m
      BY <1>1, <2>1
    <3> QED BY <3>2, <3>3 DEF Ahead, n
  <2> QED BY <2>2, <2>3, <2>4
<1>7. ASSUME Ahead(s, e, f) PROVE Ahead(u, e, f)
  <2>1. PICK i \in 1..m, j \in 1..m : i < j /\ s[i] = e /\ s[j] = f
    BY <1>7 DEF Ahead, m
  <2> QED BY <1>1, <1>2, <2>1 DEF Ahead
<1>8. ASSUME Ahead(t, e, f) PROVE Ahead(u, e, f)
  <2>1. PICK i \in 1..n, j \in 1..n : i < j /\ t[i] = e /\ t[j] = f
    BY <1>8 DEF Ahead, n
  <2>2. m + i < m + j
    BY <1>1, <2>1
  <2> QED BY <1>1, <1>3, <2>1, <2>2 DEF Ahead
<1>9. ASSUME Has(s, e), Has(t, f) PROVE Ahead(u, e, f)
  <2>1. PICK i \in 1..m : s[i] = e
    BY <1>9 DEF Has, m
  <2>2. PICK j \in 1..n : t[j] = f
    BY <1>9 DEF Has, n
  <2>3. i < m + j
    BY <1>1, <2>1, <2>2
  <2> QED BY <1>1, <1>2, <1>3, <2>1, <2>2, <2>3 DEF Ahead
<1>10. ASSUME Distinct(s), Distinct(t), \A x, y : Has(s, x) /\ Has(t, y) => x.id # y.id
       PROVE  Distinct(u)
  <2> SUFFICES ASSUME NEW i \in 1..m + n, NEW j \in 1..m + n, u[i].id = u[j].id PROVE i = j
    BY <1>1 DEF Distinct
  <2>1. CASE i \in 1..m /\ j \in 1..m
    BY <1>2, <1>10, <2>1 DEF Distinct, m
  <2>2. CASE i \notin 1..m /\ j \notin 1..m
    <3>1. i - m \in 1..n /\ j - m \in 1..n /\ u[i] = t[i - m] /\ u[j] = t[j - m]
      BY <1>3, <1>4, <2>2
    <3>2. i - m = j - m
      BY <1>10, <3>1 DEF Distinct, n
    <3> QED BY <1>1, <3>2
  <2>3. ASSUME NEW x \in 1..m, NEW y \in 1..m + n, y \notin 1..m PROVE u[x].id # u[y].id
    <3>1. Has(s, u[x])
      BY <1>2 DEF Has, m
    <3>2. y - m \in 1..n /\ u[y] = t[y - m]
      BY <1>3, <1>4, <2>3
    <3>3. Has(t, u[y])
      BY <3>2 DEF Has, n
    <3> QED BY <1>10, <3>1, <3>3
  <2> QED BY <2>1, <2>2, <2>3
<1> QED BY <1>5, <1>6, <1>7, <1>8, <1>9, <1>10 DEF u

\* How many come after an entry says where it is.
LEMMA AfterCount ==
    ASSUME NEW E, NEW s \in Seq(E), Distinct(s), NEW i \in 1..Len(s)
    PROVE  LET after == {e \in E : Ahead(s, s[i], e)}
           IN  IsFiniteSet(after) /\ Cardinality(after) = Len(s) - i
<1> DEFINE after == {e \in E : Ahead(s, s[i], e)}
           n == Len(s) - i
           h == [x \in 1..n |-> s[i + x]]
<1>1. Len(s) \in Nat /\ i \in Nat /\ n \in Nat /\ \A x \in 1..Len(s) : s[x] \in E
  <2>1. Len(s) \in Nat /\ \A x \in 1..Len(s) : s[x] \in E
    BY LenProperties, ElementOfSeq
  <2> QED BY <2>1
<1>2. \A x \in 1..n : i + x \in 1..Len(s) /\ i < i + x
  BY <1>1
<1>3. h \in [1..n -> after]
  <2> SUFFICES ASSUME NEW x \in 1..n PROVE s[i + x] \in after
    OBVIOUS
  <2> QED BY <1>1, <1>2 DEF Ahead
<1>4. \A x, y \in 1..n : h[x] = h[y] => x = y
  <2> SUFFICES ASSUME NEW x \in 1..n, NEW y \in 1..n, s[i + x] = s[i + y] PROVE x = y
    OBVIOUS
  <2>1. i + x = i + y
    BY <1>2 DEF Distinct
  <2> QED BY <1>1, <2>1
<1>5. \A e \in after : \E x \in 1..n : h[x] = e
  <2> SUFFICES ASSUME NEW e \in E, Ahead(s, s[i], e) PROVE \E x \in 1..n : s[i + x] = e
    OBVIOUS
  <2>1. PICK j \in 1..Len(s), k \in 1..Len(s) : j < k /\ s[j] = s[i] /\ s[k] = e
    BY DEF Ahead
  <2>2. j = i
    BY <2>1 DEF Distinct
  <2>3. k - i \in 1..n /\ i + (k - i) = k
    BY <1>1, <2>1, <2>2
  <2> QED BY <2>1, <2>3
<1> HIDE DEF h, after, n
<1>6. h \in Injection(1..n, after) /\ h \in Surjection(1..n, after)
  BY <1>3, <1>4, <1>5 DEF Injection, Surjection, IsInjective
<1>7. IsFiniteSet(1..n) /\ Cardinality(1..n) = n
  <2>1. n \in Nat /\ 1 \in Int /\ n \in Int
    BY <1>1
  <2> QED BY <2>1, FS_Interval
<1>8. IsFiniteSet(after) /\ Cardinality(after) = n
  BY <1>6, <1>7, FS_Surjection
<1> QED BY <1>8 DEF after, n
-----------------------------------------------------------------------------
(* The operators of the cache. *)
CacheEntry == [id : Output, at : Nat]

Entries(s) == s \in Seq(CacheEntry) /\ Distinct(s)

LEMMA RangeHas ==
    ASSUME NEW E, NEW s \in Seq(E), NEW e
    PROVE  e \in Range(s) <=> Has(s, e)
<1>1. DOMAIN s = 1..Len(s)
  BY LenProperties
<1> QED BY <1>1 DEF Range, Has

LEMMA EvictedOrder ==
    ASSUME NEW c, Entries(c), NEW t, NEW e, NEW f
    PROVE  /\ Entries(Evicted(c, t))
           /\ Has(Evicted(c, t), e) <=> Has(c, e) /\ t - e.at <= Ttl
           /\ Ahead(Evicted(c, t), e, f) => Ahead(c, e, f)
<1> DEFINE S == {x \in Range(c) : t - x.at <= Ttl}
<1>1. c \in Seq(CacheEntry) /\ Distinct(c)
  BY DEF Entries
<1>2. e \in S <=> Has(c, e) /\ t - e.at <= Ttl
  BY <1>1, RangeHas
<1> HIDE DEF S
<1>3. /\ Kept(c, S) \in Seq(CacheEntry) /\ Distinct(Kept(c, S))
      /\ Has(Kept(c, S), e) <=> Has(c, e) /\ e \in S
      /\ Ahead(Kept(c, S), e, f) => Ahead(c, e, f)
  BY <1>1, KeptOrder
<1> QED BY <1>2, <1>3 DEF Evicted, Entries, S

\* An entry that is read comes last.
LEMMA FetchedOrder ==
    ASSUME NEW c, Entries(c), NEW i, NEW t, NEW e, NEW f
    PROVE  /\ Entries(Fetched(c, i, t))
           /\ Has(Fetched(c, i, t), e) <=> Has(c, e) /\ t - e.at <= Ttl
           /\ Ahead(Fetched(c, i, t), e, f) => e.id # i /\ (f.id = i \/ Ahead(c, e, f))
<1> DEFINE y == Evicted(c, t)
           one == {x \in Range(y) : x.id = i}
           rest == Range(y) \ one
           a == Kept(y, rest)
           b == Kept(y, one)
<1>1. /\ y \in Seq(CacheEntry) /\ Distinct(y)
      /\ Has(y, e) <=> Has(c, e) /\ t - e.at <= Ttl
      /\ Ahead(y, e, f) => Ahead(c, e, f)
  BY EvictedOrder DEF Entries
<1> HIDE DEF y
<1>2. \A x : (x \in one <=> Has(y, x) /\ x.id = i) /\ (x \in rest <=> Has(y, x) /\ x.id # i)
  BY <1>1, RangeHas
<1> HIDE DEF one, rest
<1>3. /\ a \in Seq(CacheEntry) /\ Distinct(a) /\ b \in Seq(CacheEntry) /\ Distinct(b)
      /\ \A x : Has(a, x) <=> Has(y, x) /\ x \in rest
      /\ \A x : Has(b, x) <=> Has(y, x) /\ x \in one
      /\ Ahead(a, e, f) <=> Ahead(y, e, f) /\ e \in rest /\ f \in rest
      /\ Ahead(b, e, f) <=> Ahead(y, e, f) /\ e \in one /\ f \in one
  BY <1>1, KeptOrder
<1> HIDE DEF a, b
<1>4. ~ Ahead(b, e, f)
  <2> SUFFICES ASSUME Ahead(b, e, f) PROVE FALSE
    OBVIOUS
  <2>1. PICK k \in 1..Len(b), l \in 1..Len(b) : k < l /\ b[k] = e /\ b[l] = f
    BY DEF Ahead
  <2>2. e.id = f.id
    BY <1>2, <1>3
  <2>3. k = l
    BY <1>3, <2>1, <2>2 DEF Distinct
  <2>4. k \in Nat
    OBVIOUS
  <2> QED BY <2>1, <2>3, <2>4
<1>5. \A x, z : Has(a, x) /\ Has(b, z) => x.id # z.id
  BY <1>2, <1>3
<1>6. /\ a \o b \in Seq(CacheEntry) /\ Distinct(a \o b)
      /\ Has(a \o b, e) <=> Has(a, e) \/ Has(b, e)
      /\ Ahead(a \o b, e, f) <=> Ahead(a, e, f) \/ Ahead(b, e, f) \/ (Has(a, e) /\ Has(b, f))
  BY <1>3, <1>5, ConcatOrder, ConcatProperties
<1>7. Has(a \o b, e) <=> Has(c, e) /\ t - e.at <= Ttl
  BY <1>1, <1>2, <1>3, <1>6
<1>8. Ahead(a \o b, e, f) => e.id # i /\ (f.id = i \/ Ahead(c, e, f))
  BY <1>1, <1>2, <1>3, <1>4, <1>6
<1>9. Fetched(c, i, t) = a \o b
  BY DEF Fetched, a, b, rest, one, y
<1> QED BY <1>6, <1>7, <1>8, <1>9 DEF Entries

LEMMA AppendOrder ==
    ASSUME NEW s, Entries(s), NEW x \in CacheEntry, ~ \E d : Has(s, d) /\ d.id = x.id, NEW e, NEW f
    PROVE  /\ Entries(Append(s, x))
           /\ Has(Append(s, x), e) <=> Has(s, e) \/ e = x
           /\ Ahead(Append(s, x), e, f) <=> Ahead(s, e, f) \/ (Has(s, e) /\ f = x)
<1>1. s \in Seq(CacheEntry) /\ Distinct(s) /\ Append(s, x) = s \o <<x>>
  BY AppendIsConcat DEF Entries
<1>2. <<x>> \in Seq(CacheEntry) /\ Len(<<x>>) = 1 /\ <<x>>[1] = x
  OBVIOUS
<1>3. /\ \A d : Has(<<x>>, d) <=> d = x
      /\ Distinct(<<x>>) /\ \A d, g : ~ Ahead(<<x>>, d, g)
  BY <1>2 DEF Has, Distinct, Ahead
<1>4. /\ Has(s \o <<x>>, e) <=> Has(s, e) \/ Has(<<x>>, e)
      /\ Ahead(s \o <<x>>, e, f) <=> Ahead(s, e, f) \/ Ahead(<<x>>, e, f) \/ (Has(s, e) /\ Has(<<x>>, f))
      /\ Distinct(s) /\ Distinct(<<x>>) /\ (\A d, g : Has(s, d) /\ Has(<<x>>, g) => d.id # g.id)
           => Distinct(s \o <<x>>)
  BY <1>1, <1>2, ConcatOrder
<1>5. s \o <<x>> \in Seq(CacheEntry)
  BY <1>1, <1>2, ConcatProperties
<1> QED BY <1>1, <1>3, <1>4, <1>5 DEF Entries

\* WithLast: an answer that is read again comes last in the history too.
LEMMA WithLastOrder ==
    ASSUME NEW s, Entries(s), NEW x \in CacheEntry, NEW e, NEW f
    PROVE  /\ Entries(WithLast(s, x))
           /\ Has(WithLast(s, x), e) <=> (Has(s, e) /\ e.id # x.id) \/ e = x
           /\ Ahead(s, e, f) /\ e.id # x.id /\ f.id # x.id => Ahead(WithLast(s, x), e, f)
           /\ Has(s, e) /\ e.id # x.id => Ahead(WithLast(s, x), e, x)
<1> DEFINE S == {d \in Range(s) : d.id # x.id}
           k == Kept(s, S)
<1>1. s \in Seq(CacheEntry) /\ Distinct(s)
  BY DEF Entries
<1>2. \A d : d \in S <=> Has(s, d) /\ d.id # x.id
  BY <1>1, RangeHas
<1> HIDE DEF S
<1>3. /\ k \in Seq(CacheEntry) /\ Distinct(k)
      /\ \A d : Has(k, d) <=> Has(s, d) /\ d \in S
      /\ Ahead(k, e, f) <=> Ahead(s, e, f) /\ e \in S /\ f \in S
  BY <1>1, KeptOrder
<1> HIDE DEF k
<1>4. Entries(k) /\ ~ \E d : Has(k, d) /\ d.id = x.id
  BY <1>2, <1>3 DEF Entries
<1>5. /\ Entries(Append(k, x))
      /\ \A d : Has(Append(k, x), d) <=> Has(k, d) \/ d = x
      /\ \A g : Ahead(Append(k, x), e, g) <=> Ahead(k, e, g) \/ (Has(k, e) /\ g = x)
  BY <1>4, AppendOrder
<1>6. Ahead(s, e, f) => Has(s, e) /\ Has(s, f)
  BY DEF Ahead, Has
<1>7. WithLast(s, x) = Append(k, x)
  BY DEF WithLast, k, S
<1>8. Has(Append(k, x), e) <=> (Has(s, e) /\ e.id # x.id) \/ e = x
  BY <1>2, <1>3, <1>5
<1>9. Ahead(s, e, f) /\ e.id # x.id /\ f.id # x.id => Ahead(Append(k, x), e, f)
  BY <1>2, <1>3, <1>5, <1>6
<1>10. Has(s, e) /\ e.id # x.id => Ahead(Append(k, x), e, x)
  BY <1>2, <1>3, <1>5
<1> QED BY <1>5, <1>7, <1>8, <1>9, <1>10

\* The last n entries, of the cache (LastOf) or of the history (Newest).
LEMMA LastOrder ==
    ASSUME NEW s, Entries(s), NEW n \in Nat, NEW e, NEW f
    PROVE  /\ Entries(LastOf(s, n))
           /\ Has(LastOf(s, n), e) <=> \E i \in 1..Len(s) : s[i] = e /\ Len(s) - i < n
           /\ Ahead(LastOf(s, n), e, f) => Ahead(s, e, f)
           /\ Has(LastOf(s, n), e) /\ Ahead(s, e, f) => Ahead(LastOf(s, n), e, f)
<1> DEFINE l == Len(s)
           m == IF l > n THEN l - n + 1 ELSE 1
           u == SubSeq(s, m, l)
<1>1. s \in Seq(CacheEntry) /\ Distinct(s) /\ l \in Nat
  BY LenProperties DEF Entries
<1>2. m \in 1..l + 1
  BY <1>1
<1>3. \A i \in 1..l : i \in m..l <=> l - i < n
  BY <1>1
<1>4. \A i \in m..l : i \in 1..l
  BY <1>1
<1>5. LastOf(s, n) = u
  BY DEF LastOf
<1> HIDE DEF m
<1>6. /\ u \in Seq(CacheEntry) /\ Distinct(u)
      /\ Has(u, e) <=> \E i \in m..l : s[i] = e
      /\ Ahead(u, e, f) => Ahead(s, e, f)
      /\ Has(u, e) /\ Ahead(s, e, f) => Ahead(u, e, f)
  BY <1>1, <1>2, SuffixOrder
<1> HIDE DEF u
<1>7. Has(u, e) <=> \E i \in 1..l : s[i] = e /\ l - i < n
  BY <1>3, <1>4, <1>6
<1> QED BY <1>5, <1>6, <1>7 DEF Entries

LEMMA NewestIsLastOf == \A s : Newest(s) = LastOf(s, MaxEntries)
  BY DEF Newest, LastOf

(***************************************************************************)
(* What the client had last is in the cache as long as it is young, and    *)
(* nothing comes after it there that the client did not have after it.     *)
(***************************************************************************)
Protects(c, s, t) ==
    /\ Entries(c) /\ Entries(s)
    /\ \A e \in CacheEntry : Has(s, e) /\ t - e.at <= Ttl =>
          Has(c, e) /\ \A f \in CacheEntry : Ahead(c, e, f) => Ahead(s, e, f)

\* _evict_expired takes nothing that is young.
LEMMA EvictedProtects ==
    ASSUME NEW c, NEW s, NEW t, Protects(c, s, t)
    PROVE  Protects(Evicted(c, t), s, t)
<1>1. Entries(c) /\ Entries(s)
  BY DEF Protects
<1>2. \A e, f : /\ Entries(Evicted(c, t))
                /\ Has(Evicted(c, t), e) <=> Has(c, e) /\ t - e.at <= Ttl
                /\ Ahead(Evicted(c, t), e, f) => Ahead(c, e, f)
  BY <1>1, EvictedOrder
<1> QED BY <1>1, <1>2 DEF Protects

\* store: what is dropped for the new entry has as many after it as the cache
\* holds.
LEMMA StoredProtects ==
    ASSUME NEW c, NEW s, NEW t \in Nat, Protects(c, s, t),
           NEW o \in Output, o \notin Keys(c) \cup Keys(s)
    PROVE  Protects(Stored(c, o, t), Newest(Append(s, [id |-> o, at |-> t])), t)
<1> DEFINE x == [id |-> o, at |-> t]
           y == Evicted(c, t)
           n == MaxEntries - 1
           l == LastOf(y, n)
           a == Append(s, x)
<1>1. Entries(c) /\ Entries(s) /\ Entries(y) /\ Protects(y, s, t)
  BY EvictedProtects DEF Protects
<1>2. x \in CacheEntry /\ x.id = o
  BY DEF CacheEntry
<1>3. n \in Nat /\ n < MaxEntries /\ MaxEntries \in Nat
  BY CacheAssumption
<1>4. ~ (\E d : Has(s, d) /\ d.id = o) /\ ~ (\E d : Has(c, d) /\ d.id = o)
  <2>1. ASSUME NEW q, Entries(q), NEW d, Has(q, d) PROVE d.id \in Keys(q)
    <3>1. DOMAIN q = 1..Len(q)
      BY <2>1, LenProperties DEF Entries
    <3> QED BY <2>1, <3>1 DEF Has, Keys
  <2> QED BY <1>1, <2>1
<1>5. \A e : Has(y, e) => Has(c, e)
  BY <1>1, EvictedOrder
<1> HIDE DEF x, y, n
<1>6. \A e, f : /\ Entries(l)
                /\ Has(l, e) <=> \E i \in 1..Len(y) : y[i] = e /\ Len(y) - i < n
                /\ Ahead(l, e, f) => Ahead(y, e, f)
  BY <1>1, <1>3, LastOrder
<1> HIDE DEF l
<1>7. \A e : Has(l, e) => Has(y, e)
  BY <1>6 DEF Has
<1>8. ~ \E d : Has(l, d) /\ d.id = x.id
  BY <1>2, <1>4, <1>5, <1>7
<1>9. \A e, f : /\ Entries(Append(l, x))
                /\ Has(Append(l, x), e) <=> Has(l, e) \/ e = x
                /\ Ahead(Append(l, x), e, f) <=> Ahead(l, e, f) \/ (Has(l, e) /\ f = x)
  BY <1>2, <1>6, <1>8, AppendOrder
<1>10. \A e, f : /\ Entries(a)
                 /\ Has(a, e) <=> Has(s, e) \/ e = x
                 /\ Ahead(a, e, f) <=> Ahead(s, e, f) \/ (Has(s, e) /\ f = x)
  BY <1>1, <1>2, <1>4, AppendOrder
<1>11. Len(a) = Len(s) + 1 /\ a[Len(s) + 1] = x /\ Len(s) \in Nat /\ \A i \in 1..Len(s) : a[i] = s[i]
  BY <1>1, <1>2, AppendProperties, LenProperties DEF Entries
<1> HIDE DEF a
<1> DEFINE r == LastOf(a, MaxEntries)
<1>12. \A e, f : /\ Entries(r)
                 /\ Has(r, e) <=> \E i \in 1..Len(a) : a[i] = e /\ Len(a) - i < MaxEntries
                 /\ Has(r, e) /\ Ahead(a, e, f) => Ahead(r, e, f)
  BY <1>3, <1>10, LastOrder
<1> HIDE DEF r
<1>13. ASSUME NEW e \in CacheEntry, Has(r, e), t - e.at <= Ttl
       PROVE  /\ Has(Append(l, x), e)
              /\ \A f \in CacheEntry : Ahead(Append(l, x), e, f) => Ahead(r, e, f)
  <2>1. CASE e = x
    <3>1. ~ Has(l, e) /\ \A f : ~ Ahead(l, e, f)
      <4>1. ~ Has(l, e)
        BY <1>8, <2>1
      <4>2. \A f : Ahead(l, e, f) => Has(l, e)
        BY DEF Ahead, Has
      <4> QED BY <4>1, <4>2
    <3> QED BY <1>9, <2>1, <3>1
  <2>2. CASE e # x
    <3>1. PICK k \in 1..Len(a) : a[k] = e /\ Len(a) - k < MaxEntries
      BY <1>12, <1>13
    <3>2. k \in 1..Len(s) /\ s[k] = e /\ Len(s) - k < n
      BY <1>3, <1>11, <2>2, <3>1 DEF n
    <3>3. Has(y, e) /\ \A f \in CacheEntry : Ahead(y, e, f) => Ahead(s, e, f)
      BY <1>1, <1>13, <3>2 DEF Protects, Has
    <3>4. PICK j \in 1..Len(y) : y[j] = e
      BY <3>3 DEF Has
    <3>5. Len(y) - j <= Len(s) - k
      <4> DEFINE inY == {f \in CacheEntry : Ahead(y, e, f)}
                 inS == {f \in CacheEntry : Ahead(s, e, f)}
      <4>1. Cardinality(inY) = Len(y) - j
        <5>1. Cardinality({f \in CacheEntry : Ahead(y, y[j], f)}) = Len(y) - j
          BY <1>1, AfterCount DEF Entries
        <5> QED BY <3>4, <5>1
      <4>2. IsFiniteSet(inS) /\ Cardinality(inS) = Len(s) - k
        BY <1>1, <3>2, AfterCount DEF Entries
      <4>3. inY \subseteq inS
        BY <3>3
      <4>4. Cardinality(inY) <= Cardinality(inS)
        BY <4>2, <4>3, FS_Subset
      <4> QED BY <4>1, <4>2, <4>4
    <3>6. Len(y) \in Nat
      BY <1>1, LenProperties DEF Entries
    <3>7. Has(l, e)
      <4>1. Len(y) - j < n
        BY <1>3, <1>11, <3>2, <3>5, <3>6
      <4> QED BY <1>6, <3>4, <4>1
    <3>8. ASSUME NEW f \in CacheEntry, Ahead(Append(l, x), e, f) PROVE Ahead(r, e, f)
      <4>1. Ahead(l, e, f) => Ahead(s, e, f)
        BY <1>6, <3>3
      <4>2. Has(s, e)
        BY <3>2 DEF Has
      <4>3. Ahead(a, e, f)
        BY <1>9, <1>10, <3>8, <4>1, <4>2
      <4> QED BY <1>12, <1>13, <4>3
    <3> QED BY <1>9, <3>7, <3>8
  <2> QED BY <2>1, <2>2
<1>14. Stored(c, o, t) = Append(l, x) /\ Newest(a) = r
  BY NewestIsLastOf DEF Stored, l, y, n, x, r
<1> QED BY <1>9, <1>12, <1>13, <1>14 DEF Protects, a, x

\* get: what is read comes last in both.
LEMMA FetchedProtects ==
    ASSUME NEW c, NEW s, NEW t, Protects(c, s, t), NEW o
    PROVE  /\ Protects(Fetched(c, o, t), s, t) \/ \E e \in CacheEntry : e.id = o /\ Has(Fetched(c, o, t), e)
           /\ \A x \in CacheEntry : x.id = o /\ Has(Fetched(c, o, t), x)
                => Protects(Fetched(c, o, t), Newest(WithLast(s, x)), t)
           /\ \A e \in CacheEntry : Has(s, e) /\ t - e.at <= Ttl => Has(Fetched(c, o, t), e)
<1> DEFINE y == Fetched(c, o, t)
<1>1. Entries(c) /\ Entries(s)
  BY DEF Protects
<1>2. \A e, f : /\ Entries(y)
                /\ Has(y, e) <=> Has(c, e) /\ t - e.at <= Ttl
                /\ Ahead(y, e, f) => e.id # o /\ (f.id = o \/ Ahead(c, e, f))
  BY <1>1, FetchedOrder
<1> HIDE DEF y
<1>3. \A e, f : Ahead(y, e, f) => Has(y, e) /\ Has(y, f)
  BY DEF Ahead, Has
<1>4. ASSUME ~ \E e \in CacheEntry : e.id = o /\ Has(y, e)
      PROVE  Protects(y, s, t)
  BY <1>1, <1>2, <1>3, <1>4 DEF Protects
<1>5. ASSUME NEW x \in CacheEntry, x.id = o, Has(y, x)
      PROVE  Protects(y, Newest(WithLast(s, x)), t)
  <2> DEFINE w == WithLast(s, x)
             r == LastOf(w, MaxEntries)
  <2>1. \A e, f : /\ Entries(w)
                  /\ Has(w, e) <=> (Has(s, e) /\ e.id # o) \/ e = x
                  /\ Ahead(s, e, f) /\ e.id # o /\ f.id # o => Ahead(w, e, f)
                  /\ Has(s, e) /\ e.id # o => Ahead(w, e, x)
    BY <1>1, <1>5, WithLastOrder
  <2> HIDE DEF w
  <2>2. \A e, f : /\ Entries(r)
                  /\ Has(r, e) <=> \E i \in 1..Len(w) : w[i] = e /\ Len(w) - i < MaxEntries
                  /\ Has(r, e) /\ Ahead(w, e, f) => Ahead(r, e, f)
    BY <2>1, CacheAssumption, LastOrder
  <2> HIDE DEF r
  <2>3. \A e : Has(r, e) => Has(w, e)
    BY <2>2 DEF Has
  <2>4. \A e : Has(y, e) /\ e.id = o => e = x
    BY <1>2, <1>5 DEF Has, Entries, Distinct
  <2>5. ASSUME NEW e \in CacheEntry, Has(r, e), t - e.at <= Ttl PROVE Has(y, e)
    <3>1. CASE e = x
      BY <1>5, <3>1
    <3>2. CASE e # x
      BY <1>2, <2>1, <2>3, <2>5, <3>2 DEF Protects
    <3> QED BY <3>1, <3>2
  <2>6. ASSUME NEW e \in CacheEntry, Has(r, e), t - e.at <= Ttl, NEW f \in CacheEntry, Ahead(y, e, f)
        PROVE  Ahead(r, e, f)
    <3>1. e.id # o /\ (f.id = o \/ Ahead(c, e, f))
      BY <1>2, <2>6
    <3>2. Has(s, e)
      BY <1>5, <2>1, <2>3, <2>6, <3>1
    <3>3. f.id = o => f = x
      BY <1>3, <2>4, <2>6
    <3>4. f.id # o => Ahead(s, e, f)
      BY <2>6, <3>1, <3>2 DEF Protects
    <3>5. Ahead(w, e, f)
      BY <2>1, <3>1, <3>2, <3>3, <3>4
    <3> QED BY <2>2, <2>6, <3>5
  <2>7. Newest(w) = r
    BY NewestIsLastOf DEF r
  <2> QED BY <1>2, <2>2, <2>5, <2>6, <2>7 DEF Protects, w
<1>6. \A e \in CacheEntry : Has(s, e) /\ t - e.at <= Ttl => Has(y, e)
  BY <1>2 DEF Protects
<1> QED BY <1>4, <1>5, <1>6 DEF y

PagesInv == Protects(cache, recent, now)

\* What is young was young a tick ago.
LEMMA Ages ==
    \A t, a, d \in Nat : (t + 1 - a <= d => t - a <= d) /\ (~ (t - a > d) => t - a <= d)
  OBVIOUS

LEMMA PagesKeptByNext == TypeOK /\ PagesInv /\ [Next]_vars => PagesInv'
<1> SUFFICES ASSUME TypeOK, PagesInv, [Next]_vars PROVE PagesInv'
  OBVIOUS
<1> USE DEF PagesInv
<1>0. now \in Nat
  BY DEF TypeOK
<1>1. CASE UNCHANGED <<cache, recent, now>>
  BY <1>1
<1>2. CASE World
  <2>1. CASE Tick
    <3>1. UNCHANGED <<cache, recent>> /\ now' = now + 1
      BY <2>1 DEF Tick, Aside, store
    <3> DEFINE t == now + 1
    <3>2. \A e \in CacheEntry : t - e.at <= Ttl => now - e.at <= Ttl
      BY <1>0, Ages, CacheAssumption DEF CacheEntry
    <3> HIDE DEF t
    <3>3. Protects(cache, recent, now)
      OBVIOUS
    <3>4. Protects(cache, recent, t)
      BY <3>2, <3>3 DEF Protects
    <3> QED BY <3>1, <3>4 DEF t
  <2>2. CASE UNCHANGED now
    BY <1>1, <1>2, <2>2 DEF World, RegisterEntry, RemoveEntry, CleanupExpired, Rehost, Tick, Aside, store
  <2> QED BY <1>2, <2>1, <2>2 DEF World, RegisterEntry, RemoveEntry, CleanupExpired, Rehost
<1>3. CASE \E i \in Id \cup {None} : Call(i)
  BY <1>1, <1>3 DEF Call, world, store
<1>4. CASE LookForAny \/ LookAgain \/ Select \/ GetInstance \/ GetExpired \/ VerifyCached \/ StartQuery \/ Query
  BY <1>1, <1>4 DEF LookForAny, LookAgain, Select, GetInstance, GetExpired, VerifyCached, StartQuery, Query,
     world, store
<1>5. CASE Send
  <2>1. CASE UNCHANGED store
    BY <1>1, <1>5, <2>1 DEF Send, world, store
  <2>2. CASE \E o \in Output \ (Keys(cache) \cup Keys(recent)) :
                /\ cache' = Stored(cache, o, now)
                /\ recent' = Newest(Append(recent, [id |-> o, at |-> now]))
    <3>1. PICK o \in Output \ (Keys(cache) \cup Keys(recent)) :
                /\ cache' = Stored(cache, o, now)
                /\ recent' = Newest(Append(recent, [id |-> o, at |-> now]))
      BY <2>2
    <3>2. now' = now
      BY <1>5 DEF Send, world
    <3> QED BY <1>0, <3>1, <3>2, StoredProtects
  <2> QED BY <1>5, <2>1, <2>2 DEF Send
<1>6. CASE \E o \in Output : GetCached(o)
  <2>1. PICK o \in Output : GetCached(o)
    BY <1>6
  <2>2. cache' = Fetched(cache, o, now) /\ now' = now
    BY <2>1 DEF GetCached, world
  <2> DEFINE y == Fetched(cache, o, now)
  <2>3. Entries(y)
    BY FetchedOrder DEF Protects
  <2>4. \A e : (e \in Range(y) <=> Has(y, e)) /\ (Has(y, e) => e \in CacheEntry)
    <3>1. y \in Seq(CacheEntry)
      BY <2>3 DEF Entries
    <3> HIDE DEF y
    <3>2. \A e : e \in Range(y) <=> Has(y, e)
      BY <3>1, RangeHas
    <3>3. \A e : Has(y, e) => e \in CacheEntry
      BY <3>1, ElementOfSeq DEF Has
    <3> QED BY <3>2, <3>3
  <2> HIDE DEF y
  <2>5. CASE \E e \in Range(y) : e.id = o /\ recent' = Newest(WithLast(recent, e))
    BY <2>2, <2>4, <2>5, FetchedProtects DEF y
  <2>6. CASE o \notin Keys(y) /\ UNCHANGED recent
    <3>1. ASSUME NEW e \in CacheEntry, Has(y, e) PROVE e.id # o
      <4>1. DOMAIN y = 1..Len(y)
        BY <2>3, LenProperties DEF Entries
      <4> QED BY <2>6, <3>1, <4>1 DEF Keys, Has
    <3> QED BY <2>2, <2>6, <3>1, FetchedProtects DEF y
  <2> QED BY <2>1, <2>2, <2>5, <2>6 DEF GetCached, y
<1>7. CASE ListCached
  <2>1. cache' = Evicted(cache, now) /\ UNCHANGED <<recent, now>>
    BY <1>7 DEF ListCached, world
  <2> QED BY <2>1, EvictedProtects
<1>8. CASE UNCHANGED vars
  BY <1>1, <1>8 DEF vars, world, store
<1> QED BY <1>2, <1>3, <1>4, <1>5, <1>6, <1>7, <1>8 DEF Next, Step

\* The answers that the client had last, as many as the cache holds, are there
\* until their TTL has passed (ResponseCache.store and get), however it mixes
\* new answers, readings and lists.
THEOREM PagesAlwaysKept == Spec => PagesKept
<1> DEFINE Kept1 == \A k \in DOMAIN recent :
                GetCached(recent[k].id) /\ answer' = "no page" => now - recent[k].at > Ttl
<1>1. Init => PagesInv
  <2>1. <<>> \in Seq(CacheEntry) /\ Len(<<>>) = 0
    BY EmptySeq
  <2> QED BY <2>1 DEF Init, PagesInv, Protects, Entries, Distinct, Has
<1>2. TypeOK /\ PagesInv => Kept1
  <2> SUFFICES ASSUME TypeOK, PagesInv, NEW k \in DOMAIN recent, GetCached(recent[k].id),
                      answer' = "no page", ~ (now - recent[k].at > Ttl)
               PROVE  FALSE
    OBVIOUS
  <2> DEFINE e == recent[k]
             y == Fetched(cache, e.id, now)
  <2>1. recent \in Seq(CacheEntry) /\ Entries(cache)
    BY DEF PagesInv, Protects, Entries
  <2>2. e \in CacheEntry /\ Has(recent, e)
    <3>1. DOMAIN recent = 1..Len(recent)
      BY <2>1, LenProperties
    <3> QED BY <2>1, <3>1, ElementOfSeq DEF Has
  <2>3. now - e.at <= Ttl
    <3>1. now \in Nat /\ e.at \in Nat /\ Ttl \in Nat
      BY <2>2, CacheAssumption DEF TypeOK, CacheEntry
    <3> HIDE DEF e
    <3>2. ~ (now - e.at > Ttl)
      BY DEF e
    <3> QED BY <3>1, <3>2, Ages
  <2> HIDE DEF e
  <2>4. Has(y, e)
    BY <2>2, <2>3, FetchedProtects DEF PagesInv
  <2>5. Entries(y)
    BY <2>1, FetchedOrder
  <2>6. e.id \in Keys(y)
    <3> HIDE DEF y
    <3>1. DOMAIN y = 1..Len(y)
      BY <2>5, LenProperties DEF Entries
    <3> QED BY <2>4, <3>1 DEF Keys, Has
  <2>7. answer' = "page" \/ e.id \notin Keys(y)
    BY DEF GetCached, Answer, e
  <2> QED BY <2>6, <2>7
<1>3. NamesInv /\ PagesInv /\ [Next]_vars => [Kept1]_vars
  BY <1>2 DEF NamesInv
<1>4. NamesInv /\ PagesInv /\ [Next]_vars => NamesInv' /\ PagesInv'
  BY NextNames, PagesKeptByNext DEF NamesInv
<1>5. Init => NamesInv
  BY InitNames
<1> HIDE DEF Kept1
<1>6. Spec => [][Kept1]_vars
  BY <1>1, <1>3, <1>4, <1>5, PTL DEF Spec
<1> QED BY <1>6 DEF PagesKept, Kept1
-----------------------------------------------------------------------------
(* The capacity of the cache. *)

\* What is picked for two purposes is no more than there was.
LEMMA KeptFits ==
    ASSUME NEW E, NEW c \in Seq(E), NEW a, NEW b, a \cap b = {}
    PROVE  /\ Len(Kept(c, a)) \in Nat /\ Len(Kept(c, b)) \in Nat
           /\ Len(Kept(c, a)) + Len(Kept(c, b)) <= Len(c)
<1>1. Len(c) \in Nat /\ \A n \in 1..Len(c) : c[n] \in E
  BY LenProperties, ElementOfSeq
<1>2. PICK f : IsKept(c, a, f, Len(c)) /\ Kept(c, a) = f[Len(c)]
  BY <1>1, KeptDef
<1>3. PICK g : IsKept(c, b, g, Len(c)) /\ Kept(c, b) = g[Len(c)]
  BY <1>1, KeptDef
<1>4. \A n \in 0..Len(c) : f[n] = KeptStep(c, a, f, n) /\ g[n] = KeptStep(c, b, g, n)
  BY <1>2, <1>3 DEF IsKept
<1> DEFINE P(m) == f[m] \in Seq(E) /\ g[m] \in Seq(E) /\ Len(f[m]) + Len(g[m]) <= m
           T == {m \in Nat : m <= Len(c) => P(m)}
<1>5. 0 \in T
  <2>1. f[0] = << >> /\ g[0] = << >>
    BY <1>1, <1>4 DEF KeptStep
  <2>2. << >> \in Seq(E) /\ Len(<< >>) = 0
    BY EmptySeq
  <2>3. P(0)
    BY <2>1, <2>2
  <2> HIDE DEF P
  <2> QED BY <2>3
<1>6. ASSUME NEW m \in T PROVE m + 1 \in T
  <2> DEFINE n == m + 1
             k == f[m]
             l == g[m]
  <2>0. SUFFICES ASSUME n <= Len(c) PROVE P(n)
    <3> HIDE DEF P
    <3> QED OBVIOUS
  <2>1. m \in Nat /\ n \in Nat /\ n # 0 /\ n - 1 = m /\ n \in 0..Len(c) /\ n \in 1..Len(c) /\ m <= Len(c)
    BY <1>1, <2>0
  <2>2. k \in Seq(E) /\ l \in Seq(E) /\ Len(k) + Len(l) <= m
    BY <1>6, <2>1
  <2>3. /\ f[n] = IF c[n] \in a THEN Append(k, c[n]) ELSE k
        /\ g[n] = IF c[n] \in b THEN Append(l, c[n]) ELSE l
    BY <1>4, <2>1 DEF KeptStep
  <2>4. n = m + 1
    OBVIOUS
  <2> HIDE DEF n, k, l
  <2>5. c[n] \in E /\ (c[n] \notin a \/ c[n] \notin b)
    BY <1>1, <2>1
  <2>6. Len(k) \in Nat /\ Len(l) \in Nat
    BY <2>2, LenProperties
  <2>7. /\ Append(k, c[n]) \in Seq(E) /\ Len(Append(k, c[n])) = Len(k) + 1
        /\ Append(l, c[n]) \in Seq(E) /\ Len(Append(l, c[n])) = Len(l) + 1
    BY <2>2, <2>5, AppendProperties
  <2>8. f[n] \in Seq(E) /\ g[n] \in Seq(E)
    BY <2>2, <2>3, <2>7
  <2> DEFINE u == Len(f[n])
             v == Len(g[n])
             w == Len(k)
             z == Len(l)
  <2>9. u \in {w, w + 1} /\ v \in {z, z + 1} /\ (u = w \/ v = z)
    BY <2>3, <2>5, <2>7
  <2>10. w \in Nat /\ z \in Nat /\ w + z <= m
    BY <2>2, <2>6
  <2>11. u + v <= n
    <3> HIDE DEF u, v, w, z
    <3> QED BY <2>1, <2>4, <2>9, <2>10
  <2> QED BY <2>8, <2>11
<1> HIDE DEF P
<1>7. T = Nat
  <2>1. T \in SUBSET Nat
    OBVIOUS
  <2> HIDE DEF T
  <2> QED BY <1>5, <1>6, <2>1, EveryNat
<1>8. P(Len(c))
  BY <1>1, <1>7
<1> QED BY <1>2, <1>3, <1>8, LenProperties DEF P

LEMMA EvictedFits ==
    ASSUME NEW c, Entries(c), NEW t
    PROVE  Len(Evicted(c, t)) \in Nat /\ Len(Evicted(c, t)) <= Len(c)
<1> DEFINE s == {e \in Range(c) : t - e.at <= Ttl}
<1>1. c \in Seq(CacheEntry) /\ s \cap {} = {} /\ Len(c) \in Nat
  BY LenProperties DEF Entries
<1> HIDE DEF s
<1>2. /\ Len(Kept(c, s)) \in Nat /\ Len(Kept(c, {})) \in Nat
      /\ Len(Kept(c, s)) + Len(Kept(c, {})) <= Len(c)
  BY <1>1, KeptFits
<1>3. Len(Kept(c, s)) <= Len(c)
  BY <1>1, <1>2
<1> QED BY <1>2, <1>3 DEF Evicted, s

LEMMA FetchedFits ==
    ASSUME NEW c, Entries(c), NEW i, NEW t
    PROVE  Len(Fetched(c, i, t)) \in Nat /\ Len(Fetched(c, i, t)) <= Len(c)
<1> DEFINE y == Evicted(c, t)
           one == {x \in Range(y) : x.id = i}
           rest == Range(y) \ one
           a == Kept(y, rest)
           b == Kept(y, one)
<1>1. y \in Seq(CacheEntry) /\ Len(y) \in Nat /\ Len(y) <= Len(c) /\ Len(c) \in Nat
  BY EvictedOrder, EvictedFits, LenProperties DEF Entries
<1>2. rest \cap one = {}
  OBVIOUS
<1>3. Fetched(c, i, t) = a \o b
  BY DEF Fetched
<1> HIDE DEF y, one, rest
<1>4. Len(a) \in Nat /\ Len(b) \in Nat /\ Len(a) + Len(b) <= Len(y)
  BY <1>1, <1>2, KeptFits
<1>5. a \in Seq(CacheEntry) /\ b \in Seq(CacheEntry)
  BY <1>1, KeptPicks
<1> HIDE DEF a, b
<1>6. Len(a \o b) = Len(a) + Len(b)
  BY <1>5, ConcatProperties
<1> QED BY <1>1, <1>3, <1>4, <1>6

LEMMA StoredFits ==
    ASSUME NEW c, Entries(c), NEW o \in Output, NEW t \in Nat
    PROVE  Len(Stored(c, o, t)) <= MaxEntries
<1> DEFINE y == Evicted(c, t)
           n == MaxEntries - 1
           l == LastOf(y, n)
           x == [id |-> o, at |-> t]
           m == IF Len(y) > n THEN Len(y) - n + 1 ELSE 1
<1>1. Entries(y) /\ y \in Seq(CacheEntry) /\ Len(y) \in Nat /\ x \in CacheEntry
  BY EvictedOrder, LenProperties DEF Entries, CacheEntry
<1>2. n \in Nat /\ n + 1 = MaxEntries
  BY CacheAssumption
<1>3. Stored(c, o, t) = Append(l, x)
  BY DEF Stored
<1>4. l \in Seq(CacheEntry)
  <2> HIDE DEF y, n
  <2> QED BY <1>1, <1>2, LastOrder DEF Entries
<1>5. l = SubSeq(y, m, Len(y))
  BY DEF LastOf
<1> HIDE DEF y, n, l, x
<1>6. m \in 1..Len(y) + 1 /\ Len(y) - m + 1 <= n
  BY <1>1, <1>2
<1> HIDE DEF m
<1>7. Len(l) = IF m <= Len(y) THEN Len(y) - m + 1 ELSE 0
  BY <1>1, <1>5, <1>6, SubSeqProperties
<1>8. Len(l) \in Nat /\ Len(l) <= n
  BY <1>1, <1>2, <1>4, <1>6, <1>7, LenProperties
<1>9. Len(Append(l, x)) = Len(l) + 1
  BY <1>1, <1>4, AppendProperties
<1> QED BY <1>2, <1>3, <1>8, <1>9

\* The cache holds at most MaxEntries answers and one under each id
\* (ResponseCache.store), whatever is stored, read and listed in between.
CacheBounded == Entries(cache) /\ Len(cache) <= MaxEntries

THEOREM CacheAlwaysBounded == Spec => []CacheBounded
<1>1. Init => CacheBounded
  <2>1. <<>> \in Seq(CacheEntry) /\ Len(<<>>) = 0
    BY EmptySeq
  <2> QED BY <2>1, CacheAssumption DEF Init, CacheBounded, Entries, Distinct
<1>2. ASSUME TypeOK, PagesInv, CacheBounded, [Next]_vars, PagesInv' PROVE CacheBounded'
  <2>1. Entries(cache) /\ Entries(cache)' /\ now \in Nat /\ MaxEntries \in Nat /\ Len(cache) \in Nat
    BY <1>2, CacheAssumption, LenProperties DEF PagesInv, Protects, Entries, TypeOK
  <2>2. CASE UNCHANGED cache
    BY <1>2, <2>1, <2>2 DEF CacheBounded
  <2>3. CASE World \/ \E i \in Id \cup {None} : Call(i)
    BY <2>2, <2>3 DEF World, RegisterEntry, RemoveEntry, CleanupExpired, Rehost, Tick, Aside, Call, world, store
  <2>4. CASE LookForAny \/ LookAgain \/ Select \/ GetInstance \/ GetExpired \/ VerifyCached \/ StartQuery \/ Query
    BY <2>2, <2>4 DEF LookForAny, LookAgain, Select, GetInstance, GetExpired, VerifyCached, StartQuery, Query,
       world, store
  <2>5. CASE Send
    <3>1. CASE \E o \in Output : cache' = Stored(cache, o, now)
      BY <2>1, <3>1, StoredFits DEF CacheBounded
    <3> QED BY <2>2, <2>5, <3>1 DEF Send, store
  <2>6. CASE \E o \in Output : GetCached(o)
    <3>1. PICK o \in Output : cache' = Fetched(cache, o, now)
      BY <2>6 DEF GetCached
    <3>2. Len(cache') \in Nat /\ Len(cache') <= Len(cache)
      BY <2>1, <3>1, FetchedFits
    <3>3. Len(cache') <= MaxEntries
      BY <1>2, <2>1, <3>2 DEF CacheBounded
    <3> QED BY <2>1, <3>3 DEF CacheBounded
  <2>7. CASE ListCached
    <3>1. cache' = Evicted(cache, now)
      BY <2>7 DEF ListCached
    <3>2. Len(cache') \in Nat /\ Len(cache') <= Len(cache)
      BY <2>1, <3>1, EvictedFits
    <3>3. Len(cache') <= MaxEntries
      BY <1>2, <2>1, <3>2 DEF CacheBounded
    <3> QED BY <2>1, <3>3 DEF CacheBounded
  <2>8. CASE UNCHANGED vars
    BY <2>2, <2>8 DEF vars, store
  <2> QED BY <1>2, <2>3, <2>4, <2>5, <2>6, <2>7, <2>8 DEF Next, Step
<1>3. NamesInv /\ PagesInv /\ CacheBounded /\ [Next]_vars => NamesInv' /\ PagesInv' /\ CacheBounded'
  BY <1>2, NextNames, PagesKeptByNext DEF NamesInv
<1>4. Init => NamesInv
  BY InitNames
<1>5. Init => PagesInv
  <2>1. <<>> \in Seq(CacheEntry) /\ Len(<<>>) = 0
    BY EmptySeq
  <2> QED BY <2>1 DEF Init, PagesInv, Protects, Entries, Distinct, Has
<1> QED BY <1>1, <1>3, <1>4, <1>5, PTL DEF Spec
=============================================================================
