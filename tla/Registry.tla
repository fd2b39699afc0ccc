------------------------------ MODULE Registry ------------------------------
(***************************************************************************)
(* What InstanceRegistry promises its callers: every operation is one      *)
(* atomic step on the document.  RegistryFile.tla shows that the file, the *)
(* lock and the processes implement this.  Any caller may call any         *)
(* operation with any argument at any time: the calls of GUI plugins,      *)
(* routers and managers interleave in every order.                         *)
(***************************************************************************)
EXTENDS RegistryDoc

CONSTANTS
    SeqNos,        \* bound on the insertions: Nat, or 0..n for TLC
    Times          \* bound on the clock: Nat, or 0..n for TLC

ASSUME RegistryAssumption == SeqNos \subseteq Nat /\ Times \subseteq Nat

VARIABLES
    doc,           \* the committed document
    durable,       \* the document that is there when the machine starts again
    now            \* the wall clock, in units of the coarsest timeout

vars == <<doc, durable, now>>

Init == doc = EmptyDoc /\ durable = EmptyDoc /\ now = 0

Register(x) ==
    /\ doc.n \in SeqNos
    /\ CanRegister(doc, x)
    /\ \E i \in ResolveCollision(x, Live(doc)) : doc' = Registered(doc, x, i, now)
    /\ UNCHANGED <<durable, now>>

Unregister(i) ==
    /\ doc' = Unregistered(doc, i)
    /\ UNCHANGED <<durable, now>>

UnregisterIfOwner(i, nonce) ==
    /\ doc' = UnregisteredIfOwner(doc, i, nonce)
    /\ UNCHANGED <<durable, now>>

UpdateHeartbeat(i) ==
    /\ doc' = HeartbeatUpdated(doc, i, now)
    /\ UNCHANGED <<durable, now>>

SetActive(i) ==
    /\ doc' = Activated(doc, i)
    /\ UNCHANGED <<durable, now>>

ExpireInstance(i) ==
    /\ doc.n \in SeqNos
    /\ doc' = InstanceExpired(doc, i, now)
    /\ UNCHANGED <<durable, now>>

CleanupExpired ==
    /\ doc' = ExpiredCleaned(doc, now)
    /\ UNCHANGED <<durable, now>>

CleanupStale ==
    /\ doc.n \in SeqNos
    /\ doc' = StaleCleaned(doc, now)
    /\ UNCHANGED <<durable, now>>

\* The file is missing or unreadable: _load answers an empty document.
Lose ==
    /\ doc' = EmptyDoc
    /\ UNCHANGED <<durable, now>>

Tick ==
    /\ now + 1 \in Times
    /\ now' = now + 1
    /\ UNCHANGED <<doc, durable>>

\* The system writes the document back to the disk at a time of its own, since
\* _save does not ask for it; when the machine dies, what was written back last is
\* the document again, or what is found there is broken.
Persist ==
    /\ durable' = doc
    /\ UNCHANGED <<doc, now>>

GoBack ==
    /\ doc' \in {durable, EmptyDoc}
    /\ durable' = doc'
    /\ UNCHANGED now

Operation ==
    \/ \E x \in Info : Register(x)
    \/ \E i \in Id : Unregister(i)
    \/ \E i \in Id, x \in Info : UnregisterIfOwner(i, NonceOf[x])
    \/ \E i \in Id : UpdateHeartbeat(i)
    \/ \E i \in Id : SetActive(i)
    \/ \E i \in Id : ExpireInstance(i)
    \/ CleanupExpired
    \/ CleanupStale

Next == Operation \/ Lose \/ Tick \/ Persist \/ GoBack

Spec == Init /\ [][Next]_vars
-----------------------------------------------------------------------------
KeepsIdentity ==
    \A i \in Live(doc) \cap Live(doc') :
        /\ doc'.inst[i].info = doc.inst[i].info
        /\ doc'.inst[i].seq = doc.inst[i].seq

FocusMovesRightly ==
    doc.active # None /\ doc'.active # doc.active =>
        \/ SetActive(doc'.active)
        \/ /\ doc.active \notin Live(doc')
           /\ \A j \in Live(doc') : doc'.inst[doc'.active].seq <= doc'.inst[j].seq

TypeOK == IsDoc(doc) /\ IsDoc(durable) /\ now \in Nat

\* The active instance is a live one, and there is one whenever any instance
\* is live: registry.py moves "active_instance" in five different operations,
\* and the tools that default to it would otherwise address nothing.
ActiveIsLive == WellFocused(doc)

\* MAX_INSTANCES is never exceeded, whatever mix of registrations, expiries
\* and reused ids came before.
CapacityRespected == Cardinality(Live(doc)) <= MaxInstances

\* A live entry is never replaced in place: as long as its id stays live the
\* registration it stands for is the same one.  A router or a manager that
\* kept the id cannot find another process behind it without the id having
\* been removed in between (resolve_collision, and id reuse after expiry).  An
\* older document that a power loss brings back is exempt: nobody who knew an id
\* of the other one runs any more.
NoIdentityTheft == [][GoBack \/ KeepsIdentity]_vars

\* Focus never moves behind the user's back: it changes from one instance to
\* another only because set_active asked for it or because the focused
\* instance is gone, and then to the one registered the longest; or because a power
\* loss brought an older document back.
FocusIsStable == [][GoBack \/ FocusMovesRightly]_vars

\* The clean-up of expired instances loses no recent tombstone while the list
\* fits its cap: the router can still tell a client that its instance expired.
RecentTombstonesKept ==
    [][CleanupExpired /\ Cardinality(DOMAIN doc.exp) <= MaxExpired =>
          \A i \in DOMAIN doc.exp :
             now - doc.exp[i].at <= MaxAge => i \in DOMAIN doc'.exp]_vars
=============================================================================
