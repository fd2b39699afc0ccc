---------------------------- MODULE RegistryDoc ----------------------------
(***************************************************************************)
(* The registry document (instances.json) and what each operation of       *)
(* InstanceRegistry computes from it.  Nothing here is a state machine:    *)
(* Registry.tla applies these operators atomically, RegistryFile.tla       *)
(* applies them between a load and a save under the file lock, and the     *)
(* modules about routers, plugins and workers use them for their calls.    *)
(*                                                                         *)
(* A JSON object keeps its insertion order, and the code relies on it      *)
(* ("remaining[0]", "next(iter(expired))").  Here every insertion takes    *)
(* the document's next sequence number, so the order is that of seq.       *)
(***************************************************************************)
EXTENDS Integers, Sequences, FiniteSets, Functions

CONSTANTS
    Id,            \* the short instance ids that can be generated
    Info,          \* what registrations describe: process, port, path, nonce...
    None,          \* JSON null
    Candidates,    \* Candidates[x]: the ids tried for x, in the order tried
    NonceOf,       \* NonceOf[x]: its "_manager_nonce", or None
    MaxInstances,  \* MAX_INSTANCES (100 in the code)
    MaxExpired,    \* MAX_EXPIRED (200)
    MaxAge,        \* max_age_seconds of cleanup_expired (3600)
    StaleAfter     \* timeout_seconds of cleanup_stale (120)

ASSUME DocAssumption ==
    /\ None \notin Id
    /\ Candidates \in [Info -> Seq(Id)]
    /\ DOMAIN NonceOf = Info
    /\ MaxInstances \in Nat \ {0}
    /\ MaxExpired \in Nat
    /\ MaxAge \in Nat
    /\ StaleAfter \in Nat

Live(d) == DOMAIN d.inst

EmptyDoc ==
    [inst |-> << >>, active |-> None, exp |-> << >>, n |-> 0]

Entry == [info : Info, seq : Nat, beat : Nat]
Tombstone == [info : Info, seq : Nat, rank : Nat, at : Nat]

IsDoc(d) ==
    /\ d \in [inst : {d.inst}, active : Id \cup {None}, exp : {d.exp}, n : Nat]
    /\ Live(d) \subseteq Id /\ d.inst \in [Live(d) -> Entry]
    /\ DOMAIN d.exp \subseteq Id /\ d.exp \in [DOMAIN d.exp -> Tombstone]

\* The active instance is a live one, and there is one if any is live.
WellFocused(d) ==
    /\ d.active # None => d.active \in Live(d)
    /\ Live(d) # {} => d.active # None

Put(f, k, v) == [x \in DOMAIN f \cup {k} |-> IF x = k THEN v ELSE f[x]]

\* The first key of "instances": the entry registered the longest time ago.
FirstKey(f) == CHOOSE i \in DOMAIN f : \A j \in DOMAIN f : f[i].seq <= f[j].seq

\* The order of "expired".  Entries that one cleanup_stale moves together
\* share seq and keep the order they had among the instances (rank).
Before(a, b) == a.seq < b.seq \/ (a.seq = b.seq /\ a.rank < b.rank)

\* Mutant: the first id is taken whether or not an entry has it.
ResolveBlindly(x, existing) == {Candidates[x][1]}

(***************************************************************************)
(* generate_instance_id + resolve_collision: the first candidate that no   *)
(* live entry has.  The set is empty when every candidate is taken         *)
(* (RuntimeError).  Ids of expired instances are not looked at.            *)
(***************************************************************************)
ResolveCollision(x, existing) ==
    LET ids == Candidates[x]
    IN  {ids[k] : k \in {m \in DOMAIN ids : /\ ids[m] \notin existing
                                            /\ \A l \in 1..(m-1) : ids[l] \in existing}}

\* Mutant: an off-by-one at MAX_INSTANCES.
CanRegisterOneMore(d, x) ==
    /\ Cardinality(Live(d)) <= MaxInstances
    /\ ResolveCollision(x, Live(d)) # {}

\* register succeeds: not ValueError("Registry full") and not RuntimeError.
CanRegister(d, x) ==
    /\ Cardinality(Live(d)) < MaxInstances
    /\ ResolveCollision(x, Live(d)) # {}

\* Mutant: the newest instance takes the focus.
RegisteredFocused(d, x, i, t) ==
    [inst   |-> Put(d.inst, i, [info |-> x, seq |-> d.n, beat |-> t]),
     active |-> i, exp |-> d.exp, n |-> d.n + 1]

\* Mutant: the entry gets no "last_heartbeat".
RegisteredNoBeat(d, x, i, t) ==
    [inst   |-> Put(d.inst, i, [info |-> x, seq |-> d.n, beat |-> None]),
     active |-> IF d.active = None THEN i ELSE d.active,
     exp    |-> d.exp,
     n      |-> d.n + 1]

Registered(d, x, i, t) ==
    [inst   |-> Put(d.inst, i, [info |-> x, seq |-> d.n, beat |-> t]),
     active |-> IF d.active = None THEN i ELSE d.active,
     exp    |-> d.exp,
     n      |-> d.n + 1]

\* Mutant: "active_instance" is left as it is.
RemovedFocusLeft(d, S) ==
    [inst |-> Restrict(d.inst, Live(d) \ S), active |-> d.active, exp |-> d.exp, n |-> d.n]

\* Delete the entries S, then move "active_instance" off a deleted one.
Removed(d, S) ==
    LET rest == Restrict(d.inst, Live(d) \ S)
    IN  [inst   |-> rest,
         active |-> IF d.active \notin S THEN d.active
                    ELSE IF DOMAIN rest = {} THEN None
                    ELSE FirstKey(rest),
         exp    |-> d.exp,
         n      |-> d.n]

Unregistered(d, i) == IF i \in Live(d) THEN Removed(d, {i}) ELSE d

OwnerMatches(d, i, nonce) ==
    /\ i \in Live(d)
    /\ nonce # None
    /\ NonceOf[d.inst[i].info] = nonce

\* Mutant: delete without comparing.
UnregisteredAnyOwner(d, i, nonce) == Unregistered(d, i)

UnregisteredIfOwner(d, i, nonce) ==
    IF OwnerMatches(d, i, nonce) THEN Removed(d, {i}) ELSE d

HeartbeatUpdated(d, i, t) ==
    IF i \in Live(d)
    THEN [d EXCEPT !.inst = Put(@, i, [d.inst[i] EXCEPT !.beat = t])]
    ELSE d

Activated(d, i) == IF i \in Live(d) THEN [d EXCEPT !.active = i] ELSE d

\* Assigning an existing key of "expired" keeps its place in the order.
Buried(d, S, t) ==
    [i \in DOMAIN d.exp \cup S |->
        IF i \notin S THEN d.exp[i]
        ELSE [info |-> d.inst[i].info, at |-> t,
              seq  |-> IF i \in DOMAIN d.exp THEN d.exp[i].seq ELSE d.n,
              rank |-> IF i \in DOMAIN d.exp THEN d.exp[i].rank ELSE d.inst[i].seq]]

ExpiredDoc(d, S, t) ==
    IF S = {} THEN d
    ELSE [inst   |-> Removed(d, S).inst,
          active |-> Removed(d, S).active,
          exp    |-> Buried(d, S, t),
          n      |-> d.n + 1]

InstanceExpired(d, i, t) == ExpiredDoc(d, {i} \cap Live(d), t)

StaleCleaned(d, t) ==
    ExpiredDoc(d, {i \in Live(d) : t - d.inst[i].beat > StaleAfter}, t)

\* Mutant: an off-by-one at max_age_seconds.
ExpiredCleanedEarly(d, t) ==
    [d EXCEPT !.exp = Restrict(@, {i \in DOMAIN @ : t - @[i].at < MaxAge})]

\* Drop what is older than MaxAge, then the first keys while too many remain.
ExpiredCleaned(d, t) ==
    LET young == {i \in DOMAIN d.exp : t - d.exp[i].at <= MaxAge}
        kept  == {i \in young :
                    Cardinality({j \in young : Before(d.exp[i], d.exp[j])}) < MaxExpired}
    IN  [d EXCEPT !.exp = Restrict(@, kept)]
=============================================================================
