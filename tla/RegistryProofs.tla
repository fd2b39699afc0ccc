--------------------------- MODULE RegistryProofs ---------------------------
(***************************************************************************)
(* Proofs about Registry.tla, for every set of ids and registrations and   *)
(* every bound, and about the file and the lock that implement it.         *)
(***************************************************************************)
EXTENDS Registry, RegistryFile, RegistryDocProofs
-----------------------------------------------------------------------------
(***************************************************************************)
(* The inductive invariant.  ActiveIsLive is inductive together with the   *)
(* typing of the document; the capacity needs the live ids to be a finite  *)
(* set, since Id itself may be infinite.  The document that a power loss   *)
(* brings back was one itself, so the same holds of it.                    *)
(***************************************************************************)
DocInv == Sound(doc) /\ now \in Nat /\ IsFiniteSet(Live(doc)) /\ CapacityRespected

\* What one operation may do to the document, in the terms of the lemmas.
Shrinks(S) ==
    /\ Sound(doc') /\ now' \in Nat
    /\ Live(doc)' = Live(doc) \ S

LEMMA ShrinkKeepsDocInv ==
    ASSUME DocInv, NEW S, Shrinks(S)
    PROVE  DocInv'
<1>1. IsFiniteSet(Live(doc)') /\ Cardinality(Live(doc)') <= Cardinality(Live(doc))
  BY FS_Subset DEF DocInv, Shrinks
<1>2. Cardinality(Live(doc)) \in Nat /\ Cardinality(Live(doc)') \in Nat
  BY <1>1, FS_CardinalityType DEF DocInv
<1>3. CapacityRespected'
  BY <1>1, <1>2, DocAssumption DEF DocInv, CapacityRespected
<1> QED BY <1>1, <1>3 DEF DocInv, Shrinks

DurableInv ==
    /\ Sound(durable) /\ IsFiniteSet(Live(durable))
    /\ Cardinality(Live(durable)) <= MaxInstances

IInv == DocInv /\ DurableInv

EmptyIsSound ==
    /\ Sound(EmptyDoc) /\ IsFiniteSet(Live(EmptyDoc))
    /\ Cardinality(Live(EmptyDoc)) <= MaxInstances

LEMMA EmptyDocFits == EmptyIsSound
<1>1. Live(EmptyDoc) = {}
  BY DEF Live, EmptyDoc
<1> QED BY <1>1, EmptyDocSound, FS_EmptySet, DocAssumption DEF EmptyIsSound

LEMMA InitIInv == Init => IInv
BY EmptyDocFits DEF Init, IInv, DocInv, DurableInv, CapacityRespected, EmptyIsSound

LEMMA StepDocInv ==
    ASSUME DocInv, Operation \/ Lose \/ Tick \/ (doc' = doc /\ now' = now)
    PROVE  DocInv'
<1>0. Sound(doc) /\ now \in Nat
  BY DEF DocInv
<1>1. ASSUME NEW x \in Info, Register(x) PROVE DocInv'
  <2>1. PICK i \in ResolveCollision(x, Live(doc)) : doc' = Registered(doc, x, i, now)
    BY <1>1 DEF Register
  <2>2. Sound(doc') /\ i \notin Live(doc) /\ Live(doc') = Live(doc) \cup {i}
    BY <1>0, <2>1, RegisteredSound
  <2>3. IsFiniteSet(Live(doc)) /\ Cardinality(Live(doc)) < MaxInstances
    BY <1>1 DEF DocInv, Register, CanRegister
  <2>4. /\ IsFiniteSet(Live(doc'))
        /\ Cardinality(Live(doc')) = Cardinality(Live(doc)) + 1
    BY <2>2, <2>3, FS_AddElement
  <2>5. Cardinality(Live(doc)) \in Nat
    BY <2>3, FS_CardinalityType
  <2>6. Cardinality(Live(doc')) <= MaxInstances
    BY <2>3, <2>4, <2>5, DocAssumption
  <2> QED BY <1>0, <1>1, <2>2, <2>4, <2>6 DEF DocInv, CapacityRespected, Register
<1>2. ASSUME NEW i \in Id, Unregister(i) PROVE DocInv'
  <2>1. CASE i \in Live(doc)
    <3>1. doc' = Removed(doc, {i}) /\ now' = now
      BY <1>2, <2>1 DEF Unregister, Unregistered
    <3>2. Shrinks({i})
      BY <1>0, <3>1, RemovedSound DEF Shrinks
    <3> QED BY <3>2, ShrinkKeepsDocInv
  <2>2. CASE i \notin Live(doc)
    BY <1>2, <2>2 DEF Unregister, Unregistered, DocInv, CapacityRespected
  <2> QED BY <2>1, <2>2
<1>3. ASSUME NEW i \in Id, NEW x \in Info, UnregisterIfOwner(i, NonceOf[x]) PROVE DocInv'
  <2>1. CASE OwnerMatches(doc, i, NonceOf[x])
    <3>1. doc' = Removed(doc, {i}) /\ now' = now
      BY <1>3, <2>1 DEF UnregisterIfOwner, UnregisteredIfOwner
    <3>2. Shrinks({i})
      BY <1>0, <3>1, RemovedSound DEF Shrinks
    <3> QED BY <3>2, ShrinkKeepsDocInv
  <2>2. CASE ~OwnerMatches(doc, i, NonceOf[x])
    BY <1>3, <2>2 DEF UnregisterIfOwner, UnregisteredIfOwner, DocInv, CapacityRespected
  <2> QED BY <2>1, <2>2
<1>4. ASSUME NEW i \in Id, UpdateHeartbeat(i) PROVE DocInv'
  <2>1. doc' = HeartbeatUpdated(doc, i, now) /\ now' = now
    BY <1>4 DEF UpdateHeartbeat
  <2>2. Sound(doc') /\ Live(doc') = Live(doc)
    BY <1>0, <2>1, HeartbeatSound
  <2> QED BY <1>0, <2>1, <2>2 DEF DocInv, CapacityRespected
<1>5. ASSUME NEW i \in Id, SetActive(i) PROVE DocInv'
  <2>1. Sound(doc') /\ Live(doc') = Live(doc) /\ now' = now
    BY <1>0, <1>5, ActivatedSound DEF SetActive, Live
  <2> QED BY <1>0, <2>1 DEF DocInv, CapacityRespected
<1>6. ASSUME NEW i \in Id, ExpireInstance(i) PROVE DocInv'
  <2> DEFINE S == {i} \cap Live(doc)
  <2>1. doc' = ExpiredDoc(doc, S, now) /\ now' = now
    BY <1>6 DEF ExpireInstance, InstanceExpired
  <2>2. Shrinks(S)
    BY <1>0, <2>1, ExpiredDocSound DEF Shrinks
  <2> QED BY <2>2, ShrinkKeepsDocInv
<1>7. CASE CleanupExpired
  <2>1. Sound(doc') /\ Live(doc') = Live(doc) /\ now' = now
    BY <1>0, <1>7, ExpiredCleanedSound DEF CleanupExpired, Live
  <2> QED BY <1>0, <2>1 DEF DocInv, CapacityRespected
<1>8. CASE CleanupStale
  <2> DEFINE S == {i \in Live(doc) : now - doc.inst[i].beat > StaleAfter}
  <2>1. doc' = ExpiredDoc(doc, S, now) /\ now' = now
    BY <1>8 DEF CleanupStale, StaleCleaned
  <2>2. Shrinks(S)
    BY <1>0, <2>1, ExpiredDocSound DEF Shrinks
  <2> QED BY <2>2, ShrinkKeepsDocInv
<1>9. CASE Lose
  <2>1. Shrinks(Live(doc))
    BY <1>0, <1>9, EmptyDocSound DEF Lose, Shrinks
  <2> QED BY <2>1, ShrinkKeepsDocInv
<1>10. CASE Tick
  BY <1>10 DEF Tick, DocInv, CapacityRespected
<1>11. CASE doc' = doc /\ now' = now
  BY <1>11 DEF DocInv, CapacityRespected
<1> QED
  BY <1>1, <1>2, <1>3, <1>4, <1>5, <1>6, <1>7, <1>8, <1>9, <1>10, <1>11 DEF Operation

LEMMA DurableKept == Operation \/ Lose \/ Tick => durable' = durable
BY DEF Operation, Register, Unregister, UnregisterIfOwner, UpdateHeartbeat, SetActive,
   ExpireInstance, CleanupExpired, CleanupStale, Lose, Tick

LEMMA StepIInv == IInv /\ [Next]_vars => IInv'
<1> SUFFICES ASSUME IInv, [Next]_vars PROVE IInv'
  OBVIOUS
<1>1. CASE Operation \/ Lose \/ Tick \/ UNCHANGED vars
  <2>1. DocInv'
    BY <1>1, StepDocInv DEF IInv, vars
  <2>2. durable' = durable
    BY <1>1, DurableKept DEF vars
  <2> QED BY <2>1, <2>2 DEF IInv, DurableInv
<1>2. CASE Persist
  BY <1>2 DEF Persist, IInv, DocInv, DurableInv, CapacityRespected
<1>3. CASE GoBack
  BY <1>3, EmptyDocFits DEF GoBack, IInv, DocInv, DurableInv, CapacityRespected, EmptyIsSound
<1> QED BY <1>1, <1>2, <1>3 DEF Next

LEMMA Invariance == Spec => []IInv
<1>1. Init => IInv
  BY InitIInv
<1>2. IInv /\ [Next]_vars => IInv'
  BY StepIInv
<1> QED BY <1>1, <1>2, PTL DEF Spec

\* Every reachable document has the shape the code relies on: entries,
\* tombstones, ids and the focus are what their types say.
THEOREM TypeCorrect == Spec => []TypeOK
<1>1. IInv => TypeOK
  BY DEF IInv, DocInv, DurableInv, Sound, TypeOK
<1> QED BY <1>1, Invariance, PTL

\* The focus is on a live instance whenever there is one, for any number of
\* callers and after any sequence of calls.
THEOREM ActiveAlwaysLive == Spec => []ActiveIsLive
<1>1. IInv => ActiveIsLive
  BY DEF IInv, DocInv, Sound, ActiveIsLive
<1> QED BY <1>1, Invariance, PTL

\* MAX_INSTANCES is a bound of the registry, not only of one registration.
THEOREM CapacityAlwaysRespected == Spec => []CapacityRespected
<1>1. IInv => CapacityRespected
  BY DEF IInv, DocInv
<1> QED BY <1>1, Invariance, PTL
-----------------------------------------------------------------------------
\* What the lemmas say of a step that deletes the entries S and nothing else.
Deletes(S) ==
    /\ Live(doc') = Live(doc) \ S
    /\ \A j \in Live(doc) \ S : doc'.inst[j] = doc.inst[j]
    /\ doc.active \notin S => doc'.active = doc.active
    /\ doc.active \in S => \A j \in Live(doc) \ S :
          doc'.inst[doc'.active].seq <= doc'.inst[j].seq

LEMMA DeletionIsRight ==
    ASSUME NEW S, Deletes(S)
    PROVE  KeepsIdentity /\ FocusMovesRightly
BY DEF Deletes, KeepsIdentity, FocusMovesRightly

LEMMA ExpiryDeletes ==
    ASSUME Sound(doc), now \in Nat, NEW S \in SUBSET Live(doc), doc' = ExpiredDoc(doc, S, now)
    PROVE  Deletes(S)
BY ExpiredDocSound DEF Deletes

LEMMA StepIsRight ==
    ASSUME DocInv, Operation \/ Lose \/ Tick \/ doc' = doc
    PROVE  KeepsIdentity /\ FocusMovesRightly
<1>0. Sound(doc) /\ now \in Nat
  BY DEF DocInv
<1>1. ASSUME NEW x \in Info, Register(x) PROVE KeepsIdentity /\ FocusMovesRightly
  <2>1. PICK i \in ResolveCollision(x, Live(doc)) : doc' = Registered(doc, x, i, now)
    BY <1>1 DEF Register
  <2>2. /\ \A j \in Live(doc) : doc'.inst[j] = doc.inst[j]
        /\ doc.active # None => doc'.active = doc.active
    BY <1>0, <2>1, RegisteredSound
  <2> QED BY <2>2 DEF KeepsIdentity, FocusMovesRightly
<1>2. ASSUME NEW i \in Id, Unregister(i) PROVE KeepsIdentity /\ FocusMovesRightly
  <2>1. CASE i \in Live(doc)
    <3>1. doc' = Removed(doc, {i})
      BY <1>2, <2>1 DEF Unregister, Unregistered
    <3>2. Deletes({i})
      BY <1>0, <3>1, RemovedSound DEF Deletes
    <3> QED BY <3>2, DeletionIsRight
  <2>2. CASE i \notin Live(doc)
    BY <1>2, <2>2 DEF Unregister, Unregistered, KeepsIdentity, FocusMovesRightly
  <2> QED BY <2>1, <2>2
<1>3. ASSUME NEW i \in Id, NEW x \in Info, UnregisterIfOwner(i, NonceOf[x])
      PROVE KeepsIdentity /\ FocusMovesRightly
  <2>1. CASE OwnerMatches(doc, i, NonceOf[x])
    <3>1. doc' = Removed(doc, {i})
      BY <1>3, <2>1 DEF UnregisterIfOwner, UnregisteredIfOwner
    <3>2. Deletes({i})
      BY <1>0, <3>1, RemovedSound DEF Deletes
    <3> QED BY <3>2, DeletionIsRight
  <2>2. CASE ~OwnerMatches(doc, i, NonceOf[x])
    BY <1>3, <2>2 DEF UnregisterIfOwner, UnregisteredIfOwner, KeepsIdentity, FocusMovesRightly
  <2> QED BY <2>1, <2>2
<1>4. ASSUME NEW i \in Id, UpdateHeartbeat(i) PROVE KeepsIdentity /\ FocusMovesRightly
  <2>1. doc' = HeartbeatUpdated(doc, i, now)
    BY <1>4 DEF UpdateHeartbeat
  <2>2. /\ \A j \in Live(doc) : /\ doc'.inst[j].info = doc.inst[j].info
                                 /\ doc'.inst[j].seq = doc.inst[j].seq
        /\ doc'.active = doc.active
    BY <1>0, <2>1, HeartbeatSound
  <2> QED BY <2>2 DEF KeepsIdentity, FocusMovesRightly
<1>5. ASSUME NEW i \in Id, SetActive(i) PROVE KeepsIdentity /\ FocusMovesRightly
  <2>1. doc' = Activated(doc, i) /\ now' = now
    BY <1>5 DEF SetActive
  <2>2. doc'.inst = doc.inst
    BY <1>0, <2>1, ActivatedSound
  <2>3. doc' = doc \/ doc'.active = i
    BY <1>0, <2>1 DEF Activated, Sound, IsDoc
  <2>4. FocusMovesRightly
    BY <1>5, <2>3 DEF FocusMovesRightly
  <2> QED BY <2>2, <2>4 DEF KeepsIdentity
<1>6. ASSUME NEW i \in Id, ExpireInstance(i) PROVE KeepsIdentity /\ FocusMovesRightly
  <2> DEFINE S == {i} \cap Live(doc)
  <2>1. doc' = ExpiredDoc(doc, S, now)
    BY <1>6 DEF ExpireInstance, InstanceExpired
  <2>2. S \in SUBSET Live(doc)
    OBVIOUS
  <2> HIDE DEF S
  <2>3. Deletes(S)
    BY <1>0, <2>1, <2>2, ExpiryDeletes
  <2> QED BY <2>3, DeletionIsRight
<1>7. CASE CleanupExpired
  <2>1. doc'.inst = doc.inst /\ doc'.active = doc.active
    BY <1>0, <1>7, ExpiredCleanedSound DEF CleanupExpired
  <2> QED BY <2>1 DEF KeepsIdentity, FocusMovesRightly
<1>8. CASE CleanupStale
  <2> DEFINE S == {i \in Live(doc) : now - doc.inst[i].beat > StaleAfter}
  <2>1. doc' = ExpiredDoc(doc, S, now)
    BY <1>8 DEF CleanupStale, StaleCleaned
  <2>2. S \in SUBSET Live(doc)
    OBVIOUS
  <2> HIDE DEF S
  <2>3. Deletes(S)
    BY <1>0, <2>1, <2>2, ExpiryDeletes
  <2> QED BY <2>3, DeletionIsRight
<1>9. CASE Lose
  <2>1. Live(doc') = {} /\ (doc.active # None => doc.active \notin Live(doc'))
    BY <1>9, EmptyDocSound DEF Lose
  <2> QED BY <2>1 DEF KeepsIdentity, FocusMovesRightly
<1>10. CASE Tick \/ doc' = doc
  BY <1>10 DEF Tick, KeepsIdentity, FocusMovesRightly
<1> QED
  BY <1>1, <1>2, <1>3, <1>4, <1>5, <1>6, <1>7, <1>8, <1>9, <1>10 DEF Operation

LEMMA StepsAreRight ==
    IInv /\ [Next]_vars =>
       /\ [GoBack \/ KeepsIdentity]_vars
       /\ [GoBack \/ FocusMovesRightly]_vars
<1> SUFFICES ASSUME IInv, [Next]_vars, ~GoBack, ~UNCHANGED vars
             PROVE  KeepsIdentity /\ FocusMovesRightly
  OBVIOUS
<1>1. DocInv
  BY DEF IInv
<1>2. Operation \/ Lose \/ Tick \/ doc' = doc
  BY DEF Next, Persist
<1> QED BY <1>1, <1>2, StepIsRight

\* An id never comes to stand for another registration while it is live, unless a
\* power loss brings an older document back.
THEOREM IdentityIsKept == Spec => NoIdentityTheft
<1>1. IInv /\ [Next]_vars => [GoBack \/ KeepsIdentity]_vars
  BY StepsAreRight
<1> QED BY <1>1, Invariance, PTL DEF Spec, NoIdentityTheft

\* The focus moves only on request, off an instance that is gone, or with an older
\* document that a power loss brings back.
THEOREM FocusStaysPut == Spec => FocusIsStable
<1>1. IInv /\ [Next]_vars => [GoBack \/ FocusMovesRightly]_vars
  BY StepsAreRight
<1> QED BY <1>1, Invariance, PTL DEF Spec, FocusIsStable
-----------------------------------------------------------------------------
(***************************************************************************)
(* The clean-up of the tombstones.  Id may be infinite, so that the list   *)
(* is finite at all is an invariant: an expiry buries live ids only.       *)
(***************************************************************************)
TombstonesFinite == IsFiniteSet(DOMAIN doc.exp) /\ IsFiniteSet(DOMAIN durable.exp)

\* Whatever fits the cap survives: of the recent tombstones fewer than
\* MaxExpired come after any one of them.
LEMMA CleanupKeepsYoung ==
    ASSUME NEW d, IsDoc(d), NEW t, IsFiniteSet(DOMAIN d.exp),
           Cardinality(DOMAIN d.exp) <= MaxExpired,
           NEW i \in DOMAIN d.exp, t - d.exp[i].at <= MaxAge
    PROVE  i \in DOMAIN ExpiredCleaned(d, t).exp
<1> DEFINE young == {j \in DOMAIN d.exp : t - d.exp[j].at <= MaxAge}
           after == {j \in young : Before(d.exp[i], d.exp[j])}
           kept  == {k \in young :
                      Cardinality({j \in young : Before(d.exp[k], d.exp[j])}) < MaxExpired}
<1>1. i \notin after
  <2>1. d.exp[i].seq \in Nat /\ d.exp[i].rank \in Nat
    BY DEF IsDoc, Tombstone
  <2> QED BY <2>1 DEF Before
<1>2. after \subseteq DOMAIN d.exp /\ after # DOMAIN d.exp
  BY <1>1
<1> HIDE DEF after
<1>3. Cardinality(after) \in Nat /\ Cardinality(DOMAIN d.exp) \in Nat
  BY <1>2, FS_Subset, FS_CardinalityType
<1>4. Cardinality(after) < Cardinality(DOMAIN d.exp)
  BY <1>2, <1>3, FS_Subset
<1>5. Cardinality(after) < MaxExpired
  BY <1>3, <1>4, DocAssumption
<1>6. i \in kept
  BY <1>5 DEF after
<1> HIDE DEF kept
<1>7. ExpiredCleaned(d, t).exp = Restrict(d.exp, kept)
  BY DEF ExpiredCleaned, IsDoc, kept
<1> QED BY <1>6, <1>7 DEF Restrict

LEMMA ExpiredDocBuriesLive ==
    ASSUME NEW d, NEW S \in SUBSET Live(d), NEW t
    PROVE  DOMAIN ExpiredDoc(d, S, t).exp \subseteq DOMAIN d.exp \cup Live(d)
<1>1. CASE S = {}
  BY <1>1 DEF ExpiredDoc
<1>2. CASE S # {}
  <2>1. ExpiredDoc(d, S, t).exp = Buried(d, S, t)
    BY <1>2 DEF ExpiredDoc
  <2>2. DOMAIN Buried(d, S, t) = DOMAIN d.exp \cup S
    BY DEF Buried
  <2> QED BY <2>1, <2>2
<1> QED BY <1>1, <1>2

\* No operation makes a tombstone for an id that was neither live nor buried.
LEMMA OnlyTheLiveAreBuried ==
    ASSUME IInv, [Next]_vars, ~GoBack
    PROVE  DOMAIN doc'.exp \subseteq DOMAIN doc.exp \cup Live(doc)
<1>0. Sound(doc) /\ now \in Nat
  BY DEF IInv, DocInv
<1>1. ASSUME NEW S, doc' = Removed(doc, S) PROVE doc'.exp = doc.exp
  BY <1>0, <1>1, RemovedSound
<1>2. ASSUME NEW x \in Info, Register(x) PROVE doc'.exp = doc.exp
  BY <1>0, <1>2, RegisteredSound DEF Register
<1>3. ASSUME NEW i \in Id, Unregister(i) PROVE doc'.exp = doc.exp
  BY <1>1, <1>3 DEF Unregister, Unregistered
<1>4. ASSUME NEW i \in Id, NEW x \in Info, UnregisterIfOwner(i, NonceOf[x])
      PROVE  doc'.exp = doc.exp
  BY <1>1, <1>4 DEF UnregisterIfOwner, UnregisteredIfOwner
<1>5. ASSUME NEW i \in Id, UpdateHeartbeat(i) PROVE doc'.exp = doc.exp
  BY <1>0, <1>5, HeartbeatSound DEF UpdateHeartbeat
<1>6. ASSUME NEW i \in Id, SetActive(i) PROVE doc'.exp = doc.exp
  BY <1>0, <1>6, ActivatedSound DEF SetActive
<1>7. ASSUME NEW S \in SUBSET Live(doc), doc' = ExpiredDoc(doc, S, now)
      PROVE  DOMAIN doc'.exp \subseteq DOMAIN doc.exp \cup Live(doc)
  BY <1>7, ExpiredDocBuriesLive
<1>8. ASSUME NEW i \in Id, ExpireInstance(i)
      PROVE  DOMAIN doc'.exp \subseteq DOMAIN doc.exp \cup Live(doc)
  BY <1>7, <1>8 DEF ExpireInstance, InstanceExpired
<1>9. CASE CleanupStale
  BY <1>7, <1>9 DEF CleanupStale, StaleCleaned
<1>10. CASE CleanupExpired
  <2>1. \A S : DOMAIN Restrict(doc.exp, S) = S
    BY DEF Restrict
  <2>2. PICK S \in SUBSET DOMAIN doc.exp : doc'.exp = Restrict(doc.exp, S)
    BY <1>0, <1>10 DEF CleanupExpired, ExpiredCleaned, Sound, IsDoc
  <2> QED BY <2>1, <2>2
<1>11. CASE Lose
  BY <1>11 DEF Lose, EmptyDoc
<1>12. CASE doc' = doc
  BY <1>12
<1> QED
  BY <1>2, <1>3, <1>4, <1>5, <1>6, <1>8, <1>9, <1>10, <1>11, <1>12
     DEF Next, Operation, Tick, Persist, vars

LEMMA StepTombstonesFinite ==
    ASSUME IInv, TombstonesFinite, [Next]_vars
    PROVE  TombstonesFinite'
<1>1. IsFiniteSet(DOMAIN doc.exp \cup Live(doc))
  BY FS_Union DEF IInv, DocInv, TombstonesFinite
<1>2. CASE GoBack
  <2>1. IsFiniteSet(DOMAIN EmptyDoc.exp)
    BY FS_EmptySet DEF EmptyDoc
  <2> QED BY <1>2, <2>1 DEF GoBack, TombstonesFinite
<1>3. CASE ~GoBack
  <2>1. IsFiniteSet(DOMAIN doc'.exp)
    BY <1>1, <1>3, OnlyTheLiveAreBuried, FS_Subset
  <2>2. durable' = durable \/ durable' = doc
    BY <1>3, DurableKept DEF Next, Persist, vars
  <2> QED BY <2>1, <2>2 DEF TombstonesFinite
<1> QED BY <1>2, <1>3

\* The clean-up loses no recent tombstone while the list fits its cap, however
\* many ids there are and whatever MAX_EXPIRED and max_age_seconds are.
THEOREM RecentTombstonesStay == Spec => RecentTombstonesKept
<1> DEFINE Kept ==
      CleanupExpired /\ Cardinality(DOMAIN doc.exp) <= MaxExpired =>
          \A i \in DOMAIN doc.exp :
             now - doc.exp[i].at <= MaxAge => i \in DOMAIN doc'.exp
<1>1. Init => TombstonesFinite
  BY FS_EmptySet DEF Init, EmptyDoc, TombstonesFinite
<1>2. IInv /\ TombstonesFinite /\ [Next]_vars => TombstonesFinite'
  BY StepTombstonesFinite
<1>3. IInv /\ TombstonesFinite => [Kept]_vars
  <2> SUFFICES ASSUME IInv, TombstonesFinite, CleanupExpired,
                      Cardinality(DOMAIN doc.exp) <= MaxExpired,
                      NEW i \in DOMAIN doc.exp, now - doc.exp[i].at <= MaxAge
               PROVE  i \in DOMAIN doc'.exp
    OBVIOUS
  <2> QED BY CleanupKeepsYoung DEF IInv, DocInv, Sound, TombstonesFinite, CleanupExpired
<1> QED BY <1>1, <1>2, <1>3, Invariance, PTL DEF Spec, RecentTombstonesKept
-----------------------------------------------------------------------------
(***************************************************************************)
(* RegistryFile.tla, for any number of callers and requests: flock gives   *)
(* exclusive access and the file implements the atomic registry, in spite  *)
(* of crashes, power losses, failed saves and failed reads.                *)
(***************************************************************************)


\* The lock: whoever is in the critical section is its holder.
LockTypes ==
    /\ holder \in Proc \cup {None}
    /\ pc \in [Proc -> {"idle", "waiting", "locked", "saving", "unlocking"}]

InsideHolds == \A p \in Proc : InCritical(p) => holder = p

LockInv == LockTypes /\ InsideHolds

LEMMA LockInvInit == FileInit => LockInv
BY FileAssumption DEF FileInit, LockInv, LockTypes, InsideHolds, InCritical

LEMMA LockInvExclusion == LockInv => MutualExclusion
BY DEF LockInv, InsideHolds, MutualExclusion

LEMMA LockInvStep ==
    ASSUME LockInv, [FileNext]_fileVars
    PROVE  LockInv'
<1> USE DEF LockInv, LockTypes, InsideHolds, InCritical, Goto
<1>0. None \notin Proc
  BY FileAssumption
<1>1. ASSUME NEW p \in Proc, NEW r \in Requests, Open(p, r) PROVE LockInv'
  BY <1>0, <1>1 DEF Open
<1>2. ASSUME NEW p \in Proc, Flock(p) PROVE LockInv'
  BY <1>0, <1>2 DEF Flock
<1>3. ASSUME NEW p \in Proc, Timeout(p) PROVE LockInv'
  BY <1>0, <1>3 DEF Timeout
<1>4. ASSUME NEW p \in Proc, NEW d, LoadFrom(p, d) PROVE LockInv'
  BY <1>0, <1>4 DEF LoadFrom
<1>5. ASSUME NEW p \in Proc, Replace(p) \/ SaveFails(p) PROVE LockInv'
  BY <1>0, <1>5 DEF Replace, SaveFails
<1>6. ASSUME NEW p \in Proc, Unlock(p) PROVE LockInv'
  BY <1>0, <1>6 DEF Unlock
<1>7. ASSUME NEW p \in Proc, Crash(p) PROVE LockInv'
  BY <1>0, <1>7 DEF Crash
<1>8. CASE PowerLoss \/ WriteBack
  BY <1>0, <1>8 DEF PowerLoss, WriteBack
<1>9. CASE UNCHANGED fileVars
  BY <1>9 DEF fileVars
<1> QED
  BY <1>1, <1>2, <1>3, <1>4, <1>5, <1>6, <1>7, <1>8, <1>9
     DEF FileNext, Step, Load, LoadFails

\* Exclusive access (filelock.py): no two callers are ever both between flock
\* and unlock.
THEOREM Exclusion == FileSpec => []MutualExclusion
<1>1. LockInv /\ [FileNext]_fileVars => LockInv'
  BY LockInvStep
<1> QED BY <1>1, LockInvInit, LockInvExclusion, PTL DEF FileSpec
-----------------------------------------------------------------------------
(***************************************************************************)
(* Refinement.  While a caller is between its load and its replace, its    *)
(* document is what its request makes of the file as it still is: nobody   *)
(* else can have replaced the file, because of the lock.                   *)
(***************************************************************************)
SavesWhatItLoaded ==
    \A p \in Proc :
        /\ pc[p] # "idle" => req[p] \in Requests
        /\ pc[p] = "saving" => /\ Saves(req[p], Committed)
                              /\ mem[p] = Result(req[p], Committed)

FileInv ==
    /\ LockInv
    /\ Sound(Committed) /\ Sound(stored.doc)
    /\ DOMAIN mem = Proc /\ DOMAIN req = Proc
    /\ SavesWhatItLoaded

LEMMA FileInvInit == FileInit => FileInv
BY LockInvInit, EmptyDocSound
   DEF FileInit, FileInv, SavesWhatItLoaded, Committed, Absent

LEMMA ResultSound ==
    ASSUME NEW d, Sound(d), NEW r \in Requests, Saves(r, d)
    PROVE  Sound(Result(r, d))
<1>1. CASE r.op = "register"
  <2>1. r.x \in Info /\ ResolveCollision(r.x, Live(d)) # {}
    BY <1>1, FileAssumption DEF Saves, CanRegister
  <2> DEFINE i == CHOOSE i \in ResolveCollision(r.x, Live(d)) : TRUE
  <2>2. i \in ResolveCollision(r.x, Live(d))
    BY <2>1
  <2> HIDE DEF i
  <2>3. Sound(Registered(d, r.x, i, 0))
    BY <2>1, <2>2, RegisteredSound
  <2> QED BY <1>1, <2>3 DEF Result, i
<1>2. CASE r.op = "unregister"
  <2>1. r.id \in Live(d)
    BY <1>2 DEF Saves
  <2>2. Sound(Removed(d, {r.id}))
    BY RemovedSound
  <2> QED BY <1>2, <2>1, <2>2 DEF Result, Unregistered
<1>3. CASE r.op = "owner"
  <2>1. OwnerMatches(d, r.id, r.nonce)
    BY <1>3 DEF Saves
  <2>2. Sound(Removed(d, {r.id}))
    BY RemovedSound
  <2> QED BY <1>3, <2>1, <2>2 DEF Result, UnregisteredIfOwner
<1>4. CASE r.op = "activate"
  BY <1>4, ActivatedSound DEF Result
<1>5. CASE r.op = "expire"
  <2> DEFINE S == {r.id} \cap Live(d)
  <2>1. S \in SUBSET Live(d)
    OBVIOUS
  <2> HIDE DEF S
  <2>2. Sound(ExpiredDoc(d, S, 0))
    BY <2>1, ExpiredDocSound
  <2> QED BY <1>5, <2>2 DEF Result, InstanceExpired, S
<1>6. CASE r.op = "cleanup"
  BY <1>6, ExpiredCleanedSound DEF Result
<1>7. CASE r.op = "read"
  BY <1>7 DEF Saves
<1>8. CASE r.op = "heartbeat"
  BY <1>8, HeartbeatSound DEF Result
<1> QED BY <1>1, <1>2, <1>3, <1>4, <1>5, <1>6, <1>7, <1>8, FileAssumption

\* Another caller is in the critical section, so p is not between load and
\* replace, and what the others hold is untouched.
LEMMA FileInvStep ==
    ASSUME FileInv, [FileNext]_fileVars
    PROVE  FileInv'
<1> USE DEF FileInv, SavesWhatItLoaded, InCritical, Goto, Committed
<1>0. LockInv' /\ MutualExclusion
  BY LockInvStep, LockInvExclusion
<1>1. pc \in [Proc -> {"idle", "waiting", "locked", "saving", "unlocking"}]
  BY DEF LockInv, LockTypes
<1>2. ASSUME NEW p \in Proc, NEW r \in Requests, Open(p, r) PROVE FileInv'
  <2>1. Committed' = Committed /\ mem' = mem /\ stored' = stored
    BY <1>2 DEF Open
  <2>2. Sound(Committed') /\ Sound(stored'.doc)
    BY <2>1
  <2>3. req' = [req EXCEPT ![p] = r] /\ pc' = [pc EXCEPT ![p] = "waiting"]
    BY <1>2 DEF Open
  <2>4. \A q \in Proc : pc'[q] # "idle" => req'[q] \in Requests
    BY <1>1, <2>3
  <2>5. \A q \in Proc : pc'[q] = "saving" => pc[q] = "saving" /\ req'[q] = req[q]
    BY <1>1, <2>3
  <2>6. SavesWhatItLoaded'
    BY <2>1, <2>4, <2>5
  <2>7. DOMAIN mem' = Proc /\ DOMAIN req' = Proc
    BY <2>1, <2>3
  <2> QED BY <1>0, <2>2, <2>6, <2>7
<1>3. ASSUME NEW p \in Proc, Flock(p) PROVE FileInv'
  BY <1>0, <1>1, <1>3 DEF Flock
<1>4. ASSUME NEW p \in Proc, Timeout(p) PROVE FileInv'
  BY <1>0, <1>1, <1>4 DEF Timeout
<1>5. ASSUME NEW p \in Proc, NEW d, LoadFrom(p, d), file'.doc = d, Sound(d) PROVE FileInv'
  <2>1. \A q \in Proc : pc[q] # "saving"
    BY <1>0, <1>5 DEF LoadFrom, MutualExclusion
  <2>2. \A q \in Proc : pc'[q] = "saving" =>
            q = p /\ Saves(req[p], d) /\ mem'[p] = Result(req[p], d)
    BY <1>1, <1>5, <2>1 DEF LoadFrom
  <2> QED BY <1>0, <1>1, <1>5, <2>2 DEF LoadFrom
<1>6. CASE \E p \in Proc : Load(p)
  <2>1. PICK p \in Proc : Load(p)
    BY <1>6
  <2>2. file'.doc = Committed
    BY <2>1 DEF Load, Absent, Garbage
  <2> QED BY <1>5, <2>1, <2>2 DEF Load
<1>7. CASE \E p \in Proc : LoadFails(p)
  <2>1. PICK p \in Proc : LoadFails(p)
    BY <1>7
  <2>2. file'.doc = EmptyDoc /\ Sound(EmptyDoc)
    BY <2>1, EmptyDocSound DEF LoadFails, Absent
  <2> QED BY <1>5, <2>1, <2>2 DEF LoadFails
<1>8. ASSUME NEW p \in Proc, Replace(p) PROVE FileInv'
  <2>1. \A q \in Proc : pc'[q] # "saving"
    BY <1>0, <1>1, <1>8 DEF Replace, MutualExclusion
  <2>2. Sound(mem[p])
    BY <1>8, ResultSound DEF Replace
  <2>3. Committed' = mem[p]
    BY <1>8 DEF Replace, Json
  <2> QED BY <1>0, <1>1, <1>8, <2>1, <2>2, <2>3 DEF Replace
<1>9. ASSUME NEW p \in Proc, SaveFails(p) PROVE FileInv'
  BY <1>0, <1>1, <1>9 DEF SaveFails
<1>10. ASSUME NEW p \in Proc, Unlock(p) PROVE FileInv'
  BY <1>0, <1>1, <1>10 DEF Unlock
<1>11. ASSUME NEW p \in Proc, Crash(p) PROVE FileInv'
  BY <1>0, <1>1, <1>11 DEF Crash
<1>12. CASE PowerLoss
  <2>1. file' \in {stored, Garbage, Absent} /\ stored' = file'
    BY <1>12 DEF PowerLoss
  <2>2. Sound(Committed') /\ Sound(stored'.doc)
    BY <2>1, EmptyDocSound DEF Garbage, Absent
  <2>3. \A q \in Proc : pc'[q] = "idle"
    BY <1>12 DEF PowerLoss
  <2>4. DOMAIN mem' = Proc /\ DOMAIN req' = Proc
    BY <1>12 DEF PowerLoss
  <2> QED BY <1>0, <2>2, <2>3, <2>4
<1>14. CASE WriteBack
  BY <1>0, <1>14 DEF WriteBack
<1>13. CASE UNCHANGED fileVars
  BY <1>0, <1>13 DEF fileVars
<1> QED
  BY <1>2, <1>3, <1>4, <1>6, <1>7, <1>8, <1>9, <1>10, <1>11, <1>12, <1>13, <1>14
     DEF FileNext, Step, LockInv, LockTypes

\* The operators of the instance R are those of RegistryDoc.
LEMMA SameBasics ==
    /\ R!EmptyDoc = EmptyDoc
    /\ \A d : R!Live(d) = Live(d)
    /\ \A x, S : R!ResolveCollision(x, S) = ResolveCollision(x, S)
    /\ \A S : R!Cardinality(S) = Cardinality(S)
    /\ \A f, S : R!Restrict(f, S) = Restrict(f, S)
    /\ \A f, k, v : R!Put(f, k, v) = Put(f, k, v)
    /\ \A f : R!FirstKey(f) = FirstKey(f)
    /\ \A a, b : R!Before(a, b) <=> Before(a, b)
<1>1. R!EmptyDoc = EmptyDoc
  BY DEF R!EmptyDoc, EmptyDoc
<1>2. ASSUME NEW d PROVE R!Live(d) = Live(d)
  BY DEF R!Live, Live
<1>3. ASSUME NEW x, NEW S PROVE R!ResolveCollision(x, S) = ResolveCollision(x, S)
  BY DEF R!ResolveCollision, ResolveCollision
<1>4. ASSUME NEW S PROVE R!Cardinality(S) = Cardinality(S)
  BY DEF R!Cardinality, Cardinality
<1>5. ASSUME NEW f, NEW S PROVE R!Restrict(f, S) = Restrict(f, S)
  BY DEF R!Restrict, Restrict
<1>6. ASSUME NEW f, NEW k, NEW v PROVE R!Put(f, k, v) = Put(f, k, v)
  BY DEF R!Put, Put
<1>7. ASSUME NEW f PROVE R!FirstKey(f) = FirstKey(f)
  BY DEF R!FirstKey, FirstKey
<1>8. ASSUME NEW a, NEW b PROVE R!Before(a, b) <=> Before(a, b)
  BY DEF R!Before, Before
<1> QED BY <1>1, <1>2, <1>3, <1>4, <1>5, <1>6, <1>7, <1>8

LEMMA SameRegistration ==
    /\ \A d, x : R!CanRegister(d, x) <=> CanRegister(d, x)
    /\ \A d, x, i, t : R!Registered(d, x, i, t) = Registered(d, x, i, t)
    /\ \A d, i : R!Activated(d, i) = Activated(d, i)
    /\ \A d, i, n : R!OwnerMatches(d, i, n) <=> OwnerMatches(d, i, n)
<1>1. ASSUME NEW d, NEW x PROVE R!CanRegister(d, x) <=> CanRegister(d, x)
  BY SameBasics DEF R!CanRegister, CanRegister
<1>2. ASSUME NEW d, NEW x, NEW i, NEW t
      PROVE  R!Registered(d, x, i, t) = Registered(d, x, i, t)
  BY SameBasics DEF R!Registered, Registered
<1>3. ASSUME NEW d, NEW i PROVE R!Activated(d, i) = Activated(d, i)
  BY SameBasics DEF R!Activated, Activated
<1>4. ASSUME NEW d, NEW i, NEW n PROVE R!OwnerMatches(d, i, n) <=> OwnerMatches(d, i, n)
  BY SameBasics DEF R!OwnerMatches, OwnerMatches
<1> QED BY <1>1, <1>2, <1>3, <1>4

LEMMA SameRemoval ==
    /\ \A d, i : R!Unregistered(d, i) = Unregistered(d, i)
    /\ \A d, i, n : R!UnregisteredIfOwner(d, i, n) = UnregisteredIfOwner(d, i, n)
    /\ \A d, i, t : R!InstanceExpired(d, i, t) = InstanceExpired(d, i, t)
    /\ \A d, t : R!ExpiredCleaned(d, t) = ExpiredCleaned(d, t)
    /\ \A d, i, t : R!HeartbeatUpdated(d, i, t) = HeartbeatUpdated(d, i, t)
<1>1. ASSUME NEW d, NEW S PROVE R!Removed(d, S) = Removed(d, S)
  BY SameBasics DEF R!Removed, Removed
<1>2. ASSUME NEW d, NEW i PROVE R!Unregistered(d, i) = Unregistered(d, i)
  BY SameBasics, <1>1 DEF R!Unregistered, Unregistered
<1>3. ASSUME NEW d, NEW i, NEW n
      PROVE  R!UnregisteredIfOwner(d, i, n) = UnregisteredIfOwner(d, i, n)
  BY SameRegistration, <1>1 DEF R!UnregisteredIfOwner, UnregisteredIfOwner
<1>4. ASSUME NEW d, NEW S, NEW t PROVE R!Buried(d, S, t) = Buried(d, S, t)
  BY DEF R!Buried, Buried
<1>5. ASSUME NEW d, NEW S, NEW t PROVE R!ExpiredDoc(d, S, t) = ExpiredDoc(d, S, t)
  BY <1>1, <1>4 DEF R!ExpiredDoc, ExpiredDoc
<1>6. ASSUME NEW d, NEW i, NEW t PROVE R!InstanceExpired(d, i, t) = InstanceExpired(d, i, t)
  BY SameBasics, <1>5 DEF R!InstanceExpired, InstanceExpired
<1>7. ASSUME NEW d, NEW t PROVE R!ExpiredCleaned(d, t) = ExpiredCleaned(d, t)
  BY SameBasics DEF R!ExpiredCleaned, ExpiredCleaned
<1>8. ASSUME NEW d, NEW i, NEW t PROVE R!HeartbeatUpdated(d, i, t) = HeartbeatUpdated(d, i, t)
  BY SameBasics DEF R!HeartbeatUpdated, HeartbeatUpdated
<1> QED BY <1>2, <1>3, <1>6, <1>7, <1>8

\* The commit of each kind of request is the operation of Registry.tla.
LEMMA ReplaceIsAnOperation ==
    ASSUME NEW r \in Requests, Sound(Committed), Saves(r, Committed),
           Committed' = Result(r, Committed), stored' = stored
    PROVE  R!Operation
<1>0. Committed.n \in Nat /\ Committed.inst \in [Live(Committed) -> Entry]
  BY DEF Sound, IsDoc
<1>1. CASE r.op = "register"
  <2>1. r.x \in Info /\ CanRegister(Committed, r.x)
    BY <1>1, FileAssumption DEF Saves
  <2> DEFINE i == CHOOSE i \in ResolveCollision(r.x, Live(Committed)) : TRUE
  <2>2. i \in ResolveCollision(r.x, Live(Committed))
    BY <2>1 DEF CanRegister
  <2> HIDE DEF i
  <2>3. Committed' = Registered(Committed, r.x, i, 0)
    BY <1>1 DEF Result, i
  <2>4. R!Register(r.x)
    BY <1>0, <2>1, <2>2, <2>3, SameBasics, SameRegistration DEF R!Register
  <2> QED BY <2>1, <2>4 DEF R!Operation
<1>2. CASE r.op = "unregister"
  <2>1. R!Unregister(r.id) /\ r.id \in Id
    BY <1>2, FileAssumption, SameRemoval DEF Result, R!Unregister
  <2> QED BY <2>1 DEF R!Operation
<1>3. CASE r.op = "owner"
  <2>1. OwnerMatches(Committed, r.id, r.nonce)
    BY <1>3 DEF Saves
  <2>2. PICK x \in Info : NonceOf[x] = r.nonce
    BY <1>0, <2>1 DEF OwnerMatches, Entry
  <2>3. R!UnregisterIfOwner(r.id, NonceOf[x]) /\ r.id \in Id
    BY <1>3, <2>2, FileAssumption, SameRemoval DEF Result, R!UnregisterIfOwner
  <2> QED BY <2>2, <2>3 DEF R!Operation
<1>4. CASE r.op = "activate"
  <2>1. R!SetActive(r.id) /\ r.id \in Id
    BY <1>4, FileAssumption, SameRegistration DEF Result, R!SetActive
  <2> QED BY <2>1 DEF R!Operation
<1>5. CASE r.op = "expire"
  <2>1. R!ExpireInstance(r.id) /\ r.id \in Id
    BY <1>0, <1>5, FileAssumption, SameRemoval DEF Result, R!ExpireInstance
  <2> QED BY <2>1 DEF R!Operation
<1>6. CASE r.op = "cleanup"
  <2>1. R!CleanupExpired
    BY <1>6, SameRemoval DEF Result, R!CleanupExpired
  <2> QED BY <2>1 DEF R!Operation
<1>7. CASE r.op = "read"
  BY <1>7 DEF Saves
<1>8. CASE r.op = "heartbeat"
  <2>1. R!UpdateHeartbeat(r.id) /\ r.id \in Id
    BY <1>8, FileAssumption, SameRemoval DEF Result, R!UpdateHeartbeat
  <2> QED BY <2>1 DEF R!Operation
<1> QED BY <1>1, <1>2, <1>3, <1>4, <1>5, <1>6, <1>7, <1>8, FileAssumption

LEMMA LosesOrKeeps ==
    ASSUME Committed' \in {Committed, EmptyDoc}, stored' = stored
    PROVE  [R!Next]_(R!vars)
BY SameBasics DEF R!Next, R!Lose, R!vars

\* Only a replace changes the document; everything else keeps it, loses it, for a
\* file that was broken or could not be read, or brings an older one back.
LEMMA StepRefines ==
    ASSUME FileInv, [FileNext]_fileVars
    PROVE  [R!Next]_(R!vars)
<1>1. ASSUME NEW p \in Proc, Replace(p) PROVE [R!Next]_(R!vars)
  <2>1. req[p] \in Requests /\ Saves(req[p], Committed)
    BY <1>1 DEF Replace, FileInv, SavesWhatItLoaded
  <2>2. Committed' = Result(req[p], Committed) /\ stored' = stored
    BY <1>1 DEF Replace, FileInv, SavesWhatItLoaded, Committed, Json
  <2>3. R!Operation
    BY <2>1, <2>2, ReplaceIsAnOperation DEF FileInv
  <2> QED BY <2>3 DEF R!Next
<1>2. CASE \E p \in Proc : Load(p) \/ LoadFails(p)
  <2>1. Committed' \in {Committed, EmptyDoc} /\ stored' = stored
    BY <1>2 DEF Load, LoadFails, LoadFrom, Committed, Absent
  <2> QED BY <2>1, LosesOrKeeps
<1>3. CASE PowerLoss
  <2>1. file' \in {stored, Garbage, Absent} /\ stored' = file'
    BY <1>3 DEF PowerLoss
  <2>2. Committed' \in {stored.doc, EmptyDoc} /\ stored'.doc = Committed'
    BY <2>1 DEF Committed, Garbage, Absent
  <2>3. R!GoBack
    BY <2>2, SameBasics DEF R!GoBack
  <2> QED BY <2>3 DEF R!Next
<1>5. CASE WriteBack
  <2>1. R!Persist
    BY <1>5 DEF WriteBack, R!Persist, Committed
  <2> QED BY <2>1 DEF R!Next
<1>4. ASSUME file' = file, stored' = stored PROVE [R!Next]_(R!vars)
  BY <1>4, LosesOrKeeps DEF Committed
<1> QED
  BY <1>1, <1>2, <1>3, <1>4, <1>5
     DEF FileNext, Step, Open, Flock, Timeout, SaveFails, Unlock, Crash, fileVars

\* The file, the lock and the callers implement the atomic operations of
\* Registry.tla: no update is lost, none is half done, and a power loss takes back
\* whole updates.
THEOREM Refinement == FileSpec => Atomic
<1>1. FileInit => R!Init
  BY SameBasics DEF FileInit, R!Init, Committed, Absent
<1>2. FileInv /\ [FileNext]_fileVars => FileInv'
  BY FileInvStep
<1>3. FileInv /\ [FileNext]_fileVars => [R!Next]_(R!vars)
  BY StepRefines
<1> QED BY <1>1, <1>2, <1>3, FileInvInit, PTL DEF FileSpec, Atomic, R!Spec
-----------------------------------------------------------------------------
(***************************************************************************)
(* Type correctness.  A caller that is inside has a request (FileInv), the *)
(* document it loads is sound, and so is what its request makes of it.     *)
(***************************************************************************)
LEMMA TypeInit == FileInit => FileTypeOK
<1> SUFFICES ASSUME FileInit PROVE FileTypeOK
  OBVIOUS
<1>1. IsDoc(EmptyDoc)
  BY EmptyDocSound DEF Sound
<1>2. /\ file \in [state : {"absent", "garbage", "json"}, doc : {file.doc}]
      /\ file.doc = EmptyDoc /\ stored = file
  BY DEF FileInit, Absent
<1>3. holder = None /\ pc \in [Proc -> {"idle", "waiting", "locked", "saving", "unlocking"}]
  BY DEF FileInit
<1>4. req \in [Proc -> Requests \cup {None}]
  BY DEF FileInit
<1>5. DOMAIN mem = Proc /\ \A p \in Proc : mem[p] = EmptyDoc
  BY DEF FileInit
<1>6. calls \in [Proc -> 0..MaxCalls]
  BY FileAssumption DEF FileInit
<1> QED BY <1>1, <1>2, <1>3, <1>4, <1>5, <1>6 DEF FileTypeOK

\* The three parts of FileTypeOK that a step can disturb independently.
WellFormed(f) ==
    f \in [state : {"absent", "garbage", "json"}, doc : {f.doc}] /\ IsDoc(f.doc)
FileTypes == WellFormed(file) /\ WellFormed(stored)

MemTypes == DOMAIN mem = Proc /\ \A p \in Proc : IsDoc(mem[p])

CallTypes ==
    /\ req \in [Proc -> Requests \cup {None}]
    /\ calls \in [Proc -> 0..MaxCalls]

LEMMA FileTypesStep ==
    ASSUME FileInv, FileTypes, [FileNext]_fileVars
    PROVE  FileTypes'
<1>0. IsDoc(EmptyDoc)
  BY EmptyDocSound DEF Sound
<1>1. ASSUME NEW s \in {"absent", "garbage", "json"}, NEW d, IsDoc(d)
      PROVE  WellFormed([state |-> s, doc |-> d])
  BY <1>1 DEF WellFormed
<1>2. WellFormed(Absent) /\ WellFormed(Garbage)
  BY <1>0, <1>1 DEF Absent, Garbage
<1>3. ASSUME file' \in {file, stored, Absent, Garbage}, stored' \in {file, stored, file'}
      PROVE  FileTypes'
  BY <1>2, <1>3 DEF FileTypes, WellFormed
<1>4. ASSUME NEW p \in Proc, Replace(p) PROVE FileTypes'
  <2>1. req[p] \in Requests /\ Saves(req[p], Committed) /\ mem[p] = Result(req[p], Committed)
    BY <1>4 DEF Replace, FileInv, SavesWhatItLoaded
  <2>2. IsDoc(mem[p])
    BY <2>1, ResultSound DEF FileInv, Sound
  <2>3. file' = [state |-> "json", doc |-> mem[p]] /\ stored' = stored
    BY <1>4 DEF Replace, Json
  <2>4. WellFormed(file')
    BY <1>1, <2>2, <2>3
  <2> QED BY <2>3, <2>4 DEF FileTypes, WellFormed
<1>5. ASSUME NEW p \in Proc, Load(p) \/ LoadFails(p) PROVE FileTypes'
  BY <1>3, <1>5 DEF Load, LoadFails, LoadFrom
<1>6. CASE PowerLoss \/ WriteBack
  BY <1>3, <1>6 DEF PowerLoss, WriteBack
<1> QED
  BY <1>3, <1>4, <1>5, <1>6
     DEF FileNext, Step, Open, Flock, Timeout, SaveFails, Unlock, Crash, fileVars

LEMMA MemTypesStep ==
    ASSUME FileInv, MemTypes, [FileNext]_fileVars
    PROVE  MemTypes'
<1>0. IsDoc(EmptyDoc) /\ Sound(EmptyDoc)
  BY EmptyDocSound DEF Sound
<1>1. ASSUME NEW p \in Proc, NEW d, IsDoc(d), mem' = [mem EXCEPT ![p] = d] PROVE MemTypes'
  BY <1>1 DEF MemTypes
<1>2. ASSUME mem' = mem PROVE MemTypes'
  BY <1>2 DEF MemTypes
<1>3. ASSUME NEW p \in Proc, NEW d, LoadFrom(p, d), Sound(d) PROVE MemTypes'
  <2>1. CASE Saves(req[p], d)
    <3>1. req[p] \in Requests
      BY <1>3 DEF LoadFrom, FileInv, SavesWhatItLoaded
    <3>2. IsDoc(Result(req[p], d))
      BY <1>3, <2>1, <3>1, ResultSound DEF Sound
    <3>3. mem' = [mem EXCEPT ![p] = Result(req[p], d)]
      BY <1>3, <2>1 DEF LoadFrom
    <3> QED BY <1>1, <3>2, <3>3
  <2>2. CASE ~ Saves(req[p], d)
    BY <1>2, <1>3, <2>2 DEF LoadFrom
  <2> QED BY <2>1, <2>2
<1>4. ASSUME NEW p \in Proc, Load(p) \/ LoadFails(p) PROVE MemTypes'
  BY <1>0, <1>3, <1>4 DEF Load, LoadFails, FileInv
<1>5. ASSUME NEW p \in Proc, Replace(p) \/ SaveFails(p) \/ Crash(p) PROVE MemTypes'
  BY <1>0, <1>1, <1>5 DEF Replace, SaveFails, Crash
<1>6. CASE PowerLoss
  BY <1>0, <1>6 DEF PowerLoss, MemTypes
<1> QED
  BY <1>2, <1>4, <1>5, <1>6 DEF FileNext, Step, Open, Flock, Timeout, Unlock, WriteBack, fileVars

LEMMA CallTypesStep ==
    ASSUME CallTypes, [FileNext]_fileVars
    PROVE  CallTypes'
<1>1. ASSUME NEW p \in Proc, NEW r \in Requests, Open(p, r) PROVE CallTypes'
  <2>1. calls[p] + 1 \in 0..MaxCalls
    BY <1>1, FileAssumption DEF Open, CallTypes
  <2> QED BY <1>1, <2>1 DEF Open, CallTypes
<1>2. ASSUME NEW p \in Proc, Timeout(p) \/ Unlock(p) \/ Crash(p) PROVE CallTypes'
  BY <1>2 DEF Timeout, Unlock, Crash, CallTypes
<1>3. CASE PowerLoss \/ WriteBack
  BY <1>3 DEF PowerLoss, WriteBack, CallTypes
<1>4. ASSUME req' = req, calls' = calls PROVE CallTypes'
  BY <1>4 DEF CallTypes
<1> QED
  BY <1>1, <1>2, <1>3, <1>4
     DEF FileNext, Step, Flock, Load, LoadFails, LoadFrom, Replace, SaveFails, fileVars

LEMMA TypeParts ==
    LockTypes /\ FileTypes /\ MemTypes /\ CallTypes <=> FileTypeOK
BY DEF LockTypes, FileTypes, WellFormed, MemTypes, CallTypes, FileTypeOK

\* The file is at every instant absent, garbage or a well-formed document, and
\* so is every document a caller has in memory, whatever crashed or failed.
THEOREM FileTypeCorrect == FileSpec => []FileTypeOK
<1>1. FileInv /\ FileTypeOK /\ [FileNext]_fileVars => FileInv' /\ FileTypeOK'
  <2> SUFFICES ASSUME FileInv, FileTypeOK, [FileNext]_fileVars PROVE FileInv' /\ FileTypeOK'
    OBVIOUS
  <2>1. FileInv'
    BY FileInvStep
  <2>2. FileTypes' /\ MemTypes' /\ CallTypes'
    BY TypeParts, FileTypesStep, MemTypesStep, CallTypesStep
  <2>3. LockTypes'
    BY <2>1 DEF FileInv, LockInv
  <2>4. FileTypeOK'
    BY <2>2, <2>3 DEF LockTypes, FileTypes, WellFormed, MemTypes, CallTypes, FileTypeOK
  <2> QED BY <2>1, <2>4
<1> QED BY <1>1, FileInvInit, TypeInit, PTL DEF FileSpec
=============================================================================
