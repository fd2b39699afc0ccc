------------------------- MODULE RegistryDocProofs -------------------------
(***************************************************************************)
(* What the operations of the registry document preserve, for every        *)
(* document, id, registration and time.  RegistryProofs.tla and            *)
(* IdalibManagerProofs.tla cite these lemmas.                              *)
(***************************************************************************)
EXTENDS RegistryDoc, FiniteSetTheorems, WellFoundedInduction, TLAPS

\* The first key of a non-empty JSON object exists and is one of its keys.
LEMMA FirstKeyExists ==
    ASSUME NEW f, DOMAIN f # {}, \A i \in DOMAIN f : f[i].seq \in Nat
    PROVE  /\ FirstKey(f) \in DOMAIN f
           /\ \A j \in DOMAIN f : f[FirstKey(f)].seq <= f[j].seq
<1> DEFINE R == OpToRel(<, Nat)
           T == {f[i].seq : i \in DOMAIN f}
<1>1. IsWellFoundedOn(R, Nat)
  BY NatLessThanWellFounded
<1>2. T \subseteq Nat /\ T # {}
  OBVIOUS
<1>3. PICK m \in T : \A y \in T : ~ (<<y, m>> \in R)
  <2> HIDE DEF R, T
  <2> QED BY <1>1, <1>2, WFMin
<1>4. \A y \in T : m <= y
  <2> TAKE y \in T
  <2>1. ~ (<<y, m>> \in R)
    BY <1>3
  <2>2. y \in Nat /\ m \in Nat
    BY <1>2, <1>3
  <2>3. ~ (y < m)
    BY <2>1, <2>2 DEF OpToRel
  <2> QED BY <2>2, <2>3
<1>5. PICK i \in DOMAIN f : m = f[i].seq
  BY <1>3
<1>6. \A j \in DOMAIN f : f[i].seq <= f[j].seq
  BY <1>4, <1>5
<1> QED BY <1>6 DEF FirstKey

(***************************************************************************)
(* The operators on documents keep them well formed and well focused.      *)
(***************************************************************************)
Sound(d) == IsDoc(d) /\ WellFocused(d)

LEMMA EmptyDocSound == Sound(EmptyDoc) /\ Live(EmptyDoc) = {}
BY DocAssumption DEF Sound, IsDoc, WellFocused, EmptyDoc, Live

LEMMA RegisteredSound ==
    ASSUME NEW d, Sound(d), NEW x \in Info, NEW t \in Nat,
           NEW i \in ResolveCollision(x, Live(d))
    PROVE  /\ Sound(Registered(d, x, i, t))
           /\ i \in Id \ Live(d)
           /\ Live(Registered(d, x, i, t)) = Live(d) \cup {i}
           /\ \A j \in Live(d) : Registered(d, x, i, t).inst[j] = d.inst[j]
           /\ Registered(d, x, i, t).exp = d.exp
           /\ d.active # None => Registered(d, x, i, t).active = d.active
<1>1. i \in Id /\ i \notin Live(d)
  BY DocAssumption DEF ResolveCollision
<1>2. d.n \in Nat /\ Live(d) \subseteq Id /\ d.inst \in [Live(d) -> Entry]
  BY DEF Sound, IsDoc
<1> DEFINE e == [info |-> x, seq |-> d.n, beat |-> t]
           r == Registered(d, x, i, t)
<1>3. e \in Entry
  BY <1>2 DEF Entry
<1>4. /\ r = [inst |-> Put(d.inst, i, e),
              active |-> IF d.active = None THEN i ELSE d.active,
              exp |-> d.exp, n |-> d.n + 1]
  BY DEF Registered
<1>5. Live(r) = Live(d) \cup {i} /\ r.inst \in [Live(d) \cup {i} -> Entry]
  BY <1>2, <1>3, <1>4 DEF Put, Live
<1>6. \A j \in Live(d) : r.inst[j] = d.inst[j]
  BY <1>1, <1>4 DEF Put, Live
<1> HIDE DEF r
<1>7. IsDoc(r)
  <2>1. d.active \in Id \cup {None} /\ DOMAIN d.exp \subseteq Id
        /\ d.exp \in [DOMAIN d.exp -> Tombstone]
    BY DEF Sound, IsDoc
  <2>2. r.active \in Id \cup {None} /\ r.n \in Nat /\ r.exp = d.exp
    BY <1>1, <1>2, <1>4, <2>1
  <2>3. r \in [inst : {r.inst}, active : Id \cup {None}, exp : {r.exp}, n : Nat]
    BY <1>4, <2>2
  <2>4. Live(r) \subseteq Id /\ r.inst \in [Live(r) -> Entry]
    BY <1>1, <1>2, <1>5
  <2> QED BY <2>1, <2>2, <2>3, <2>4 DEF IsDoc
<1>8. WellFocused(r)
  BY <1>1, <1>4, <1>5, DocAssumption DEF Sound, WellFocused
<1> QED BY <1>1, <1>4, <1>5, <1>6, <1>7, <1>8 DEF Sound, r

LEMMA RemovedSound ==
    ASSUME NEW d, Sound(d), NEW S
    PROVE  /\ Sound(Removed(d, S))
           /\ Live(Removed(d, S)) = Live(d) \ S
           /\ \A j \in Live(d) \ S : Removed(d, S).inst[j] = d.inst[j]
           /\ Removed(d, S).exp = d.exp /\ Removed(d, S).n = d.n
           /\ d.active \notin S => Removed(d, S).active = d.active
           /\ d.active \in S => \A j \in Live(d) \ S :
                 Removed(d, S).inst[Removed(d, S).active].seq <= Removed(d, S).inst[j].seq
<1> DEFINE r == Removed(d, S)
           rest == Restrict(d.inst, Live(d) \ S)
<1>1. Live(d) \subseteq Id /\ d.inst \in [Live(d) -> Entry]
  BY DEF Sound, IsDoc
<1>2. /\ DOMAIN rest = Live(d) \ S /\ rest \in [Live(d) \ S -> Entry]
      /\ \A j \in Live(d) \ S : rest[j] = d.inst[j]
  BY <1>1 DEF Restrict, Live
<1>3. DOMAIN rest # {} =>
         /\ FirstKey(rest) \in DOMAIN rest
         /\ \A j \in DOMAIN rest : rest[FirstKey(rest)].seq <= rest[j].seq
  <2> HIDE DEF rest
  <2>1. \A j \in DOMAIN rest : rest[j].seq \in Nat
    BY <1>2 DEF Entry
  <2> QED BY <2>1, FirstKeyExists
<1>4. r = [inst |-> rest,
           active |-> IF d.active \notin S THEN d.active
                      ELSE IF DOMAIN rest = {} THEN None ELSE FirstKey(rest),
           exp |-> d.exp, n |-> d.n]
  BY DEF Removed
<1> HIDE DEF rest, r
<1>5. Live(r) = Live(d) \ S
  BY <1>2, <1>4 DEF Live
<1>6. IsDoc(r)
  BY <1>1, <1>2, <1>3, <1>4, <1>5 DEF Sound, IsDoc
<1>7. WellFocused(r)
  <2>1. CASE d.active \notin S
    BY <2>1, <1>4, <1>5 DEF Sound, WellFocused
  <2>2. CASE d.active \in S
    BY <2>2, <1>1, <1>2, <1>3, <1>4, <1>5, DocAssumption DEF Sound, WellFocused
  <2> QED BY <2>1, <2>2
<1>8. \A j \in Live(d) \ S : r.inst[j] = d.inst[j]
  BY <1>2, <1>4
<1>9. d.active \in S => \A j \in Live(d) \ S : r.inst[r.active].seq <= r.inst[j].seq
  BY <1>2, <1>3, <1>4
<1> QED BY <1>4, <1>5, <1>6, <1>7, <1>8, <1>9 DEF Sound, r

LEMMA ActivatedSound ==
    ASSUME NEW d, Sound(d), NEW i
    PROVE  /\ Sound(Activated(d, i))
           /\ Activated(d, i).inst = d.inst
           /\ Activated(d, i).exp = d.exp
<1>1. CASE i \in Live(d)
  <2> DEFINE r == Activated(d, i)
  <2>1. r = [inst |-> d.inst, active |-> i, exp |-> d.exp, n |-> d.n]
    BY <1>1 DEF Activated, Sound, IsDoc
  <2> HIDE DEF r
  <2>2. Live(r) = Live(d)
    BY <2>1 DEF Live
  <2>3. Sound(r)
    BY <1>1, <2>1, <2>2, DocAssumption DEF Sound, IsDoc, WellFocused
  <2> QED BY <2>1, <2>3 DEF r
<1>2. CASE i \notin Live(d)
  BY <1>2 DEF Activated
<1> QED BY <1>1, <1>2

LEMMA HeartbeatSound ==
    ASSUME NEW d, Sound(d), NEW i, NEW t \in Nat
    PROVE  LET r == HeartbeatUpdated(d, i, t)
           IN  /\ Sound(r) /\ Live(r) = Live(d)
               /\ r.active = d.active /\ r.exp = d.exp
               /\ \A j \in Live(d) : /\ r.inst[j].info = d.inst[j].info
                                      /\ r.inst[j].seq = d.inst[j].seq
<1>1. CASE i \in Live(d)
  <2> DEFINE r == HeartbeatUpdated(d, i, t)
             f == Put(d.inst, i, [d.inst[i] EXCEPT !.beat = t])
  <2>1. r = [inst |-> f, active |-> d.active, exp |-> d.exp, n |-> d.n]
    BY <1>1 DEF HeartbeatUpdated, Sound, IsDoc
  <2>2. /\ f \in [Live(d) -> Entry]
        /\ \A j \in Live(d) : f[j].info = d.inst[j].info /\ f[j].seq = d.inst[j].seq
    BY <1>1 DEF Sound, IsDoc, Entry, Live, Put
  <2> HIDE DEF r, f
  <2>3. Live(r) = Live(d)
    BY <2>1, <2>2 DEF Live
  <2>4. Sound(r)
    BY <2>1, <2>2, <2>3 DEF Sound, IsDoc, WellFocused
  <2> QED BY <2>1, <2>2, <2>3, <2>4 DEF r
<1>2. CASE i \notin Live(d)
  BY <1>2 DEF HeartbeatUpdated
<1> QED BY <1>1, <1>2

LEMMA ExpiredDocSound ==
    ASSUME NEW d, Sound(d), NEW S \in SUBSET Live(d), NEW t \in Nat
    PROVE  LET r == ExpiredDoc(d, S, t)
           IN  /\ Sound(r) /\ Live(r) = Live(d) \ S
               /\ \A j \in Live(d) \ S : r.inst[j] = d.inst[j]
               /\ d.active \notin S => r.active = d.active
               /\ d.active \in S => \A j \in Live(d) \ S : r.inst[r.active].seq <= r.inst[j].seq
<1>1. CASE S = {}
  BY <1>1 DEF ExpiredDoc
<1>2. CASE S # {}
  <2> DEFINE r == ExpiredDoc(d, S, t)
             m == Removed(d, S)
             e == Buried(d, S, t)
  <2>1. r = [inst |-> m.inst, active |-> m.active, exp |-> e, n |-> d.n + 1]
    BY <1>2 DEF ExpiredDoc
  <2>2. DOMAIN e = DOMAIN d.exp \cup S /\ e \in [DOMAIN d.exp \cup S -> Tombstone]
    <3>1. Live(d) \subseteq Id /\ d.inst \in [Live(d) -> Entry] /\ d.n \in Nat
      BY DEF Sound, IsDoc
    <3>2. d.exp \in [DOMAIN d.exp -> Tombstone]
      BY DEF Sound, IsDoc
    <3>3. ASSUME NEW i \in DOMAIN d.exp \cup S
          PROVE  e[i] \in Tombstone
      <4>1. CASE i \notin S
        BY <4>1, <3>2 DEF Buried
      <4>2. CASE i \in S
        <5>1. d.inst[i] \in Entry
          BY <4>2, <3>1
        <5>2. i \in DOMAIN d.exp => d.exp[i] \in Tombstone
          BY <3>2
        <5> QED BY <4>2, <5>1, <5>2, <3>1 DEF Buried, Entry, Tombstone
      <4> QED BY <4>1, <4>2
    <3>4. e = [i \in DOMAIN d.exp \cup S |-> e[i]]
      BY DEF Buried
    <3> HIDE DEF e
    <3> QED BY <3>3, <3>4
  <2>3. /\ Sound(m) /\ Live(m) = Live(d) \ S
        /\ \A j \in Live(d) \ S : m.inst[j] = d.inst[j]
        /\ m.n = d.n
        /\ d.active \notin S => m.active = d.active
        /\ d.active \in S => \A j \in Live(d) \ S : m.inst[m.active].seq <= m.inst[j].seq
    BY RemovedSound
  <2> HIDE DEF r, m, e
  <2>4. Live(r) = Live(m)
    BY <2>1 DEF Live
  <2>5. Sound(r)
    BY <2>1, <2>2, <2>3, <2>4 DEF Sound, IsDoc, WellFocused
  <2> QED BY <2>1, <2>3, <2>4, <2>5 DEF r
<1> QED BY <1>1, <1>2

LEMMA ExpiredCleanedSound ==
    ASSUME NEW d, Sound(d), NEW t
    PROVE  LET r == ExpiredCleaned(d, t)
           IN  Sound(r) /\ r.inst = d.inst /\ r.active = d.active
<1> DEFINE young == {i \in DOMAIN d.exp : t - d.exp[i].at <= MaxAge}
           kept == {i \in young :
                      Cardinality({j \in young : Before(d.exp[i], d.exp[j])}) < MaxExpired}
           r == ExpiredCleaned(d, t)
<1>1. r = [inst |-> d.inst, active |-> d.active, exp |-> Restrict(d.exp, kept), n |-> d.n]
  BY DEF ExpiredCleaned, Sound, IsDoc
<1>2. kept \subseteq DOMAIN d.exp
  OBVIOUS
<1> HIDE DEF kept, r
<1>3. /\ DOMAIN Restrict(d.exp, kept) = kept
      /\ Restrict(d.exp, kept) \in [kept -> Tombstone]
  BY <1>2 DEF Restrict, Sound, IsDoc
<1>4. Live(r) = Live(d)
  BY <1>1 DEF Live
<1>5. Sound(r)
  BY <1>1, <1>2, <1>3, <1>4 DEF Sound, IsDoc, WellFocused
<1> QED BY <1>1, <1>5 DEF r
=============================================================================
