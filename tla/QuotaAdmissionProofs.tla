------------------------ MODULE QuotaAdmissionProofs ------------------------
(***************************************************************************)
(* What holds of QuotaAdmission for every finite set of Workspaces, every  *)
(* allowance and every bound.                                              *)
(*                                                                         *)
(* The sums of quotaUsage are recursive over the set of Workspaces.  What  *)
(* is said of them is proved for a set that would be a minimal exception,  *)
(* which every property of finite sets with exceptions has.                *)
(***************************************************************************)
EXTENDS QuotaAdmission, FiniteSetTheorems, TLAPS

-----------------------------------------------------------------------------
(* Minimal exceptions *)

\* A set of natural numbers has a smallest one.
LEMMA SmallestIn ==
  ASSUME NEW T \in SUBSET Nat, T # {}
  PROVE  \E m \in T : \A k \in T : m <= k
  <1>1. PICK m \in T : \A k \in T : ~(<<k, m>> \in OpToRel(<, Nat))
    BY NatLessThanWellFounded, WFMin
  <1>2. \A k \in T : ~(k < m)
    BY <1>1 DEF OpToRel
  <1> QED BY <1>2

\* A set of sets of Workspaces has one that includes no other.
LEMMA MinimalIn ==
  ASSUME NEW T \in SUBSET SUBSET Names, T # {}
  PROVE  \E m \in T : \A k \in T : k \subseteq m => k = m
  <1>1. T \subseteq FiniteSubsetsOf(Names)
    BY NamesAssumption, FS_FiniteSubsetsOfFinite
  <1>2. IsWellFoundedOn(StrictSubsetOrdering(Names), FiniteSubsetsOf(Names))
    BY FS_StrictSubsetOrderingWellFounded
  <1>3. PICK m \in T : \A k \in T : ~(<<k, m>> \in StrictSubsetOrdering(Names))
    BY <1>1, <1>2, WFMin
  <1>4. \A k \in T : k \subseteq m => k = m
    BY <1>3 DEF StrictSubsetOrdering
  <1> QED BY <1>3, <1>4

-----------------------------------------------------------------------------
(* Sums *)

\* The Workspace that is counted last.
Last(s) == CHOOSE n \in s : TRUE

\* g holds, for each set in D, the sum of f over it.
Sums(f, g, D) ==
  \A s \in D : g[s] = IF s = {} THEN 0 ELSE f[Last(s)] + g[s \ {Last(s)}]

\* The sums over all the sets of Workspaces, as MapThenSumSet chooses them.
Partial(f) ==
  CHOOSE g : g = [s \in SUBSET Names |->
                    IF s = {} THEN 0 ELSE f[Last(s)] + g[s \ {Last(s)}]]

\* The total is the last of them.
LEMMA TotalIsPartial ==
  ASSUME NEW f
  PROVE  Total(f) = Partial(f)[Names]
  BY DEF Total, MapThenSumSet, MapThenFoldSet, Partial, Last

\* The Workspace that is counted last is one of them, and the others are fewer.
LEMMA LastFacts ==
  ASSUME NEW s \in SUBSET Names
  PROVE  /\ Cardinality(s) \in Nat
         /\ Cardinality(s) <= Cardinality(Names)
         /\ Cardinality(s) = 0 <=> s = {}
         /\ s # {} => /\ Last(s) \in s
                      /\ Cardinality(s \ {Last(s)}) = Cardinality(s) - 1
  <1>1. IsFiniteSet(s) /\ Cardinality(s) <= Cardinality(Names)
    BY NamesAssumption, FS_Subset
  <1>2. Cardinality(s) \in Nat
    BY <1>1, FS_CardinalityType
  <1>3. Cardinality(s) = 0 <=> s = {}
    BY <1>1, FS_EmptySet
  <1>4. s # {} => Last(s) \in s
    BY DEF Last
  <1>5. s # {} => Cardinality(s \ {Last(s)}) = Cardinality(s) - 1
    BY <1>1, <1>4, FS_RemoveElement
  <1> QED BY <1>1, <1>2, <1>3, <1>4, <1>5

\* The sets of at most k Workspaces.
UpTo(k) == {s \in SUBSET Names : Cardinality(s) <= k}

\* The sums over the sets of at most k Workspaces exist.
Summable(f, k) == \E g \in [UpTo(k) -> Nat] : Sums(f, g, UpTo(k))

\* One more Workspace can be added.
LEMMA SummableStep ==
  ASSUME NEW f \in [Names -> Nat], NEW k \in Nat, Summable(f, k)
  PROVE  Summable(f, k + 1)
  <1>1. PICK g \in [UpTo(k) -> Nat] : Sums(f, g, UpTo(k))
    BY DEF Summable
  <1> DEFINE h == [s \in UpTo(k + 1) |->
                     IF s = {} THEN 0 ELSE f[Last(s)] + g[s \ {Last(s)}]]
  <1>2. \A s \in UpTo(k + 1) : s # {} =>
          Last(s) \in Names /\ s \ {Last(s)} \in UpTo(k)
    <2> SUFFICES ASSUME NEW s \in UpTo(k + 1), s # {}
                 PROVE  Last(s) \in Names /\ s \ {Last(s)} \in UpTo(k)
      OBVIOUS
    <2>1. s \in SUBSET Names /\ Cardinality(s) <= k + 1
      BY DEF UpTo
    <2> QED BY <2>1, LastFacts DEF UpTo
  <1>3. h \in [UpTo(k + 1) -> Nat]
    BY <1>2
  <1>4. UpTo(k) \subseteq UpTo(k + 1)
    <2> SUFFICES ASSUME NEW s \in SUBSET Names, Cardinality(s) <= k
                 PROVE  Cardinality(s) <= k + 1
      BY DEF UpTo
    <2>1. Cardinality(s) \in Nat
      BY LastFacts
    <2> QED BY <2>1
  <1>5. \A s \in UpTo(k) : h[s] = g[s]
    BY <1>1, <1>4 DEF Sums
  <1>6. Sums(f, h, UpTo(k + 1))
    <2> SUFFICES ASSUME NEW s \in UpTo(k + 1)
                 PROVE  h[s] = IF s = {} THEN 0
                               ELSE f[Last(s)] + h[s \ {Last(s)}]
      BY DEF Sums
    <2> QED BY <1>2, <1>5
  <1> QED BY <1>3, <1>6 DEF Summable

\* The sums over all the sets of Workspaces exist.
LEMMA SumsExist ==
  ASSUME NEW f \in [Names -> Nat]
  PROVE  \E g \in [SUBSET Names -> Nat] : Sums(f, g, SUBSET Names)
  <1> DEFINE bad == {k \in Nat : ~Summable(f, k)}
  <1>1. Summable(f, 0)
    <2> DEFINE g == [s \in UpTo(0) |-> 0]
    <2>1. \A s \in UpTo(0) : s = {}
      <3> SUFFICES ASSUME NEW s \in SUBSET Names, Cardinality(s) <= 0
                   PROVE  s = {}
        BY DEF UpTo
      <3>1. Cardinality(s) \in Nat /\ (Cardinality(s) = 0 <=> s = {})
        BY LastFacts
      <3> QED BY <3>1
    <2>2. g \in [UpTo(0) -> Nat] /\ Sums(f, g, UpTo(0))
      BY <2>1 DEF Sums
    <2> QED BY <2>2 DEF Summable
  <1>2. ASSUME bad # {} PROVE FALSE
    <2>1. PICK m \in bad : \A k \in bad : m <= k
      BY <1>2, SmallestIn
    <2>2. m # 0 /\ m \in Nat /\ ~Summable(f, m)
      BY <1>1, <2>1
    <2>3. m - 1 \in Nat /\ m - 1 \notin bad
      BY <2>1, <2>2
    <2>4. Summable(f, (m - 1) + 1)
      BY <2>3, SummableStep
    <2> QED BY <2>2, <2>4
  <1>3. Cardinality(Names) \in Nat
    BY LastFacts
  <1>4. Summable(f, Cardinality(Names))
    BY <1>2, <1>3
  <1>5. UpTo(Cardinality(Names)) = SUBSET Names
    BY LastFacts DEF UpTo
  <1> QED BY <1>4, <1>5 DEF Summable

\* What MapThenSumSet computes are sums.
LEMMA PartialFacts ==
  ASSUME NEW f \in [Names -> Nat]
  PROVE  /\ Partial(f) \in [SUBSET Names -> Nat]
         /\ Partial(f)[{}] = 0
         /\ \A s \in SUBSET Names : s # {} =>
              Partial(f)[s] = f[Last(s)] + Partial(f)[s \ {Last(s)}]
         /\ Total(f) \in Nat
  <1> DEFINE Is(g) == g = [s \in SUBSET Names |->
                        IF s = {} THEN 0 ELSE f[Last(s)] + g[s \ {Last(s)}]]
  <1>1. PICK g \in [SUBSET Names -> Nat] : Sums(f, g, SUBSET Names)
    BY SumsExist
  <1>2. Is(g)
    BY <1>1 DEF Sums
  <1>3. Is(Partial(f))
    BY <1>2 DEF Partial
  <1>4. DOMAIN Partial(f) = SUBSET Names
    BY <1>3
  <1>5. Sums(f, Partial(f), SUBSET Names)
    BY <1>3 DEF Sums
  <1> DEFINE bad == {s \in SUBSET Names : Partial(f)[s] # g[s]}
  <1>6. ASSUME bad # {} PROVE FALSE
    <2>0. PICK T \in SUBSET SUBSET Names : T = bad
      OBVIOUS
    <2>11. T # {}
      BY <1>6, <2>0
    <2>1. PICK m \in T : \A k \in T : k \subseteq m => k = m
      BY <2>11, MinimalIn
    <2>2. m \in SUBSET Names /\ Partial(f)[m] # g[m]
      BY <2>0, <2>1
    <2>3. CASE m = {}
      BY <1>1, <1>5, <2>2, <2>3 DEF Sums
    <2>4. CASE m # {}
      <3>1. Last(m) \in m
        BY <2>2, <2>4, LastFacts
      <3>2. m \ {Last(m)} \in SUBSET Names
        BY <2>2
      <3>3. m \ {Last(m)} \notin bad
        BY <2>0, <2>1, <3>1
      <3>4. Partial(f)[m \ {Last(m)}] = g[m \ {Last(m)}]
        BY <3>2, <3>3
      <3> QED BY <1>1, <1>5, <2>2, <2>4, <3>4 DEF Sums
    <2> QED BY <2>3, <2>4
  <1>7. Partial(f) = [s \in SUBSET Names |-> Partial(f)[s]]
    BY <1>3
  <1>8. \A s \in SUBSET Names : Partial(f)[s] \in Nat
    BY <1>1, <1>6
  <1>9. Partial(f) \in [SUBSET Names -> Nat]
    BY <1>7, <1>8
  <1> QED BY <1>5, <1>9, TotalIsPartial DEF Sums

\* A sum of no more is no more.
LEMMA TotalMonotone ==
  ASSUME NEW f \in [Names -> Nat], NEW g \in [Names -> Nat],
         \A n \in Names : f[n] <= g[n]
  PROVE  Total(f) <= Total(g)
  <1> DEFINE bad == {s \in SUBSET Names : ~(Partial(f)[s] <= Partial(g)[s])}
  <1>0. /\ Partial(f) \in [SUBSET Names -> Nat]
        /\ Partial(g) \in [SUBSET Names -> Nat]
        /\ Partial(f)[{}] = 0
        /\ \A s \in SUBSET Names : s # {} =>
             Partial(f)[s] = f[Last(s)] + Partial(f)[s \ {Last(s)}]
        /\ Partial(g)[{}] = 0
        /\ \A s \in SUBSET Names : s # {} =>
             Partial(g)[s] = g[Last(s)] + Partial(g)[s \ {Last(s)}]
    BY PartialFacts
  <1>1. ASSUME bad # {} PROVE FALSE
    <2>0. PICK T \in SUBSET SUBSET Names : T = bad
      OBVIOUS
    <2>11. T # {}
      BY <1>1, <2>0
    <2>1. PICK m \in T : \A k \in T : k \subseteq m => k = m
      BY <2>11, MinimalIn
    <2>2. m \in SUBSET Names /\ ~(Partial(f)[m] <= Partial(g)[m])
      BY <2>0, <2>1
    <2>3. m # {}
      <3>1. m = {} => Partial(f)[m] = 0 /\ Partial(g)[m] = 0
        BY <1>0
      <3> QED BY <2>2, <3>1
    <2> DEFINE l == Last(m)
               r == m \ {l}
    <2>4. l \in m /\ l \in Names /\ r \in SUBSET Names
      BY <2>2, <2>3, LastFacts
    <2>5. r \notin bad
      BY <2>0, <2>1, <2>4
    <2>6. Partial(f)[r] <= Partial(g)[r]
      BY <2>4, <2>5
    <2>7. /\ Partial(f)[m] = f[l] + Partial(f)[r]
          /\ Partial(g)[m] = g[l] + Partial(g)[r]
      BY <1>0, <2>2, <2>3
    <2>8. /\ f[l] \in Nat /\ g[l] \in Nat /\ f[l] <= g[l]
          /\ Partial(f)[r] \in Nat /\ Partial(g)[r] \in Nat
      BY <1>0, <2>4
    <2> QED BY <2>2, <2>6, <2>7, <2>8
  <1>2. Partial(f)[Names] <= Partial(g)[Names]
    BY <1>1
  <1> QED BY <1>2, TotalIsPartial

\* Where there was nothing, the sum grows by what is put there.
LEMMA TotalUpdate ==
  ASSUME NEW f \in [Names -> Nat], NEW n \in Names, NEW c \in Nat, f[n] = 0
  PROVE  Total([f EXCEPT ![n] = c]) = Total(f) + c
  <1> DEFINE g == [f EXCEPT ![n] = c]
             more(s) == IF n \in s THEN c ELSE 0
             bad == {s \in SUBSET Names :
                       Partial(g)[s] # Partial(f)[s] + more(s)}
  <1>0. g \in [Names -> Nat] /\ g[n] = c /\ \A m \in Names \ {n} : g[m] = f[m]
    OBVIOUS
  <1> HIDE DEF g
  <1>1. /\ Partial(f) \in [SUBSET Names -> Nat]
        /\ Partial(g) \in [SUBSET Names -> Nat]
        /\ Partial(f)[{}] = 0
        /\ \A s \in SUBSET Names : s # {} =>
             Partial(f)[s] = f[Last(s)] + Partial(f)[s \ {Last(s)}]
        /\ Partial(g)[{}] = 0
        /\ \A s \in SUBSET Names : s # {} =>
             Partial(g)[s] = g[Last(s)] + Partial(g)[s \ {Last(s)}]
    BY <1>0, PartialFacts
  <1>2. ASSUME bad # {} PROVE FALSE
    <2>0. PICK T \in SUBSET SUBSET Names : T = bad
      OBVIOUS
    <2>11. T # {}
      BY <1>2, <2>0
    <2>1. PICK m \in T : \A k \in T : k \subseteq m => k = m
      BY <2>11, MinimalIn
    <2>2. m \in SUBSET Names /\ Partial(g)[m] # Partial(f)[m] + more(m)
      BY <2>0, <2>1
    <2>3. m # {}
      <3>1. m = {} => Partial(f)[m] = 0 /\ Partial(g)[m] = 0
        BY <1>1
      <3> QED BY <2>2, <3>1
    <2> DEFINE l == Last(m)
               r == m \ {l}
    <2>4. l \in m /\ l \in Names /\ r \in SUBSET Names
      BY <2>2, <2>3, LastFacts
    <2>5. r \notin bad
      BY <2>0, <2>1, <2>4
    <2>6. Partial(g)[r] = Partial(f)[r] + more(r)
      BY <2>4, <2>5
    <2>7. /\ Partial(f)[m] = f[l] + Partial(f)[r]
          /\ Partial(g)[m] = g[l] + Partial(g)[r]
      BY <1>1, <2>2, <2>3
    <2>8. f[l] \in Nat /\ Partial(f)[r] \in Nat
      BY <1>1, <2>4
    <2>9. CASE l = n
      <3>1. g[l] = c /\ f[l] = 0 /\ more(r) = 0 /\ more(m) = c
        BY <1>0, <2>4, <2>9
      <3> QED BY <2>2, <2>6, <2>7, <2>8, <3>1
    <2>10. CASE l # n
      <3>1. g[l] = f[l] /\ more(r) = more(m) /\ more(m) \in Nat
        BY <1>0, <2>4, <2>10
      <3> QED BY <2>2, <2>6, <2>7, <2>8, <3>1
    <2> QED BY <2>9, <2>10
  <1>3. Partial(g)[Names] = Partial(f)[Names] + c
    BY <1>2
  <1> QED BY <1>3, TotalIsPartial DEF g

\* Nothing adds up to nothing.
LEMMA TotalOfNothing == Total([n \in Names |-> 0]) = 0
  <1> DEFINE f == [n \in Names |-> 0]
             bad == {s \in SUBSET Names : Partial(f)[s] # 0}
  <1>1. f \in [Names -> Nat] /\ \A n \in Names : f[n] = 0
    OBVIOUS
  <1> HIDE DEF f
  <1>2. /\ Partial(f)[{}] = 0
        /\ \A s \in SUBSET Names : s # {} =>
             Partial(f)[s] = f[Last(s)] + Partial(f)[s \ {Last(s)}]
    BY <1>1, PartialFacts
  <1>3. ASSUME bad # {} PROVE FALSE
    <2>0. PICK T \in SUBSET SUBSET Names : T = bad
      OBVIOUS
    <2>11. T # {}
      BY <1>3, <2>0
    <2>1. PICK m \in T : \A k \in T : k \subseteq m => k = m
      BY <2>11, MinimalIn
    <2>2. m \in SUBSET Names /\ Partial(f)[m] # 0
      BY <2>0, <2>1
    <2>3. m # {}
      BY <1>2, <2>2
    <2>4. Last(m) \in m
      BY <2>2, <2>3, LastFacts
    <2>5. m \ {Last(m)} \in SUBSET Names /\ m \ {Last(m)} \notin bad
      BY <2>0, <2>1, <2>2, <2>4
    <2>6. Partial(f)[m \ {Last(m)}] = 0
      BY <2>5
    <2>7. f[Last(m)] = 0
      BY <1>1, <2>2, <2>4
    <2> QED BY <1>2, <2>2, <2>3, <2>6, <2>7
  <1>4. Partial(f)[Names] = 0
    BY <1>3
  <1> QED BY <1>4, TotalIsPartial DEF f

-----------------------------------------------------------------------------
(* Types *)

\* What a Workspace asks for is counted and charged as numbers.
LEMMA AskTypes ==
  ASSUME NEW ws \in Specs
  PROVE  /\ ws.running \in BOOLEAN /\ ws.storage \in Nat
         /\ ws.ask \in Shapes /\ ws.ask.request \in Nat /\ ws.ask.root \in BOOLEAN
         /\ RequestOf(ws) \in Nat
  <1>1. /\ ws.running \in BOOLEAN /\ ws.storage \in Nat /\ ws.ask \in Shapes
        /\ DefaultRequest \in Nat /\ DefaultRequest # 0
    BY QuantityAssumption DEF Specs
  <1>2. ws.ask.request \in Nat /\ ws.ask.limit \in Nat /\ ws.ask.root \in BOOLEAN
    BY <1>1, QuantityAssumption
  <1>3. /\ ContainerRequest(ws.ask.request, ws.ask.limit) \in Nat
        /\ ContainerRequest(0, 0) \in Nat
    BY <1>1, <1>2 DEF ContainerRequest
  <1> QED BY <1>1, <1>2, <1>3 DEF RequestOf

\* What each Workspace adds is a number.
LEMMA UsageTypes ==
  ASSUME NEW os \in Objects
  PROVE  /\ [n \in Names |-> RunningOf(os[n])] \in [Names -> Nat]
         /\ [n \in Names |-> ComputeOf(os[n])] \in [Names -> Nat]
         /\ [n \in Names |-> StorageOf(os[n])] \in [Names -> Nat]
         /\ Usage(os).workspaces \in Nat
         /\ Usage(os).compute \in Nat
         /\ Usage(os).storage \in Nat
  <1>1. \A n \in Names : /\ RunningOf(os[n]) \in Nat
                         /\ ComputeOf(os[n]) \in Nat
                         /\ StorageOf(os[n]) \in Nat
    BY AskTypes DEF Objects, RunningOf, ComputeOf, StorageOf
  <1>2. /\ [n \in Names |-> RunningOf(os[n])] \in [Names -> Nat]
        /\ [n \in Names |-> ComputeOf(os[n])] \in [Names -> Nat]
        /\ [n \in Names |-> StorageOf(os[n])] \in [Names -> Nat]
    BY <1>1
  <1> QED BY <1>2, PartialFacts DEF Usage

\* An allowance is three numbers.
LEMMA QuotaTypes ==
  ASSUME NEW q \in Quotas
  PROVE  q.workspaces \in Nat /\ q.compute \in Nat /\ q.storage \in Nat
  BY QuantityAssumption DEF Allowances

\* The types hold at first.
LEMMA TypeInit == Init => TypeOK
  <1> SUFFICES ASSUME Init PROVE TypeOK
    OBVIOUS
  <1>1. objs \in Objects /\ cache \in Objects
    BY DEF Init, Objects
  <1>2. reviews \in [Names -> Reviews \union {None}]
    BY DEF Init
  <1>3. pending \in Seq([name : Names, spec : Specs \union {None}])
    BY DEF Init
  <1>4. pods \in [Names -> Nat] /\ claims \in [Names -> Nat] /\ edits \in Nat
    BY DEF Init
  <1> QED BY <1>1, <1>2, <1>3, <1>4 DEF Init, TypeOK

\* The webhook, and what is made of its answer, keep the types.
LEMMA WriteTypes ==
  ASSUME TypeOK, NEW n \in Names,
         (\E new \in Specs : Review(n, new)) \/ Commit(n) \/ DeleteWorkspace(n)
  PROVE  TypeOK'
  <1>1. CASE \E new \in Specs : Review(n, new)
    <2>1. PICK new \in Specs : Review(n, new)
      BY <1>1
    <2> DEFINE r == [old |-> objs[n], new |-> new,
                     others |-> [cache EXCEPT ![n] = None],
                     allowance |-> UserSpaceFor]
    <2>2. r \in Reviews
      BY DEF TypeOK, Reviews, Objects, UserSpaceFor
    <2>3. reviews' = [reviews EXCEPT ![n] = r]
      BY <2>1 DEF Review
    <2>4. reviews' \in [Names -> Reviews \union {None}]
      BY <2>2, <2>3 DEF TypeOK
    <2> QED BY <2>1, <2>4 DEF Review, TypeOK
  <1>2. ASSUME NEW v \in Specs \union {None}, Persist(n, v)
        PROVE  /\ objs' \in Objects
               /\ pending' \in Seq([name : Names, spec : Specs \union {None}])
    BY <1>2 DEF Persist, TypeOK, Objects
  <1>3. CASE Commit(n)
    <2>1. reviews' \in [Names -> Reviews \union {None}]
      BY <1>3 DEF Commit, TypeOK
    <2>2. reviews[n].new \in Specs
      BY <1>3 DEF Commit, TypeOK, Reviews
    <2>3. /\ objs' \in Objects
          /\ pending' \in Seq([name : Names, spec : Specs \union {None}])
      BY <1>2, <1>3, <2>2 DEF Commit, TypeOK
    <2>4. excused' \in BOOLEAN
      BY <1>3 DEF Commit, TypeOK
    <2> QED BY <1>3, <2>1, <2>3, <2>4 DEF Commit, TypeOK
  <1>4. CASE DeleteWorkspace(n)
    <2>1. /\ objs' \in Objects
          /\ pending' \in Seq([name : Names, spec : Specs \union {None}])
      BY <1>2, <1>4 DEF DeleteWorkspace
    <2> QED BY <1>4, <2>1 DEF DeleteWorkspace, TypeOK
  <1> QED BY <1>1, <1>3, <1>4

\* Kubernetes keeps the types.
LEMMA PodTypes ==
  ASSUME TypeOK, NEW n \in Names,
         CreateClaim(n) \/ CreatePod(n) \/ StopPod(n) \/ DeleteClaim(n)
  PROVE  TypeOK'
  <1>0. WantsPod(n) => objs[n] \in Specs
    BY DEF WantsPod, TypeOK, Objects
  <1>1. WantsPod(n) => objs[n].storage \in Nat /\ RequestOf(objs[n]) \in Nat
    BY <1>0, AskTypes
  <1>2. \/ UNCHANGED pods
        \/ \E v \in Nat : pods' = [pods EXCEPT ![n] = v]
    BY <1>1 DEF CreateClaim, CreatePod, StopPod, DeleteClaim
  <1>3. \/ UNCHANGED claims
        \/ \E v \in Nat : claims' = [claims EXCEPT ![n] = v]
    BY <1>1 DEF CreateClaim, CreatePod, StopPod, DeleteClaim
  <1>4. pods' \in [Names -> Nat] /\ claims' \in [Names -> Nat]
    BY <1>2, <1>3 DEF TypeOK
  <1> QED BY <1>4 DEF CreateClaim, CreatePod, StopPod, DeleteClaim, TypeOK

\* Every step keeps the types.
LEMMA TypeStep == TypeOK /\ [Next]_vars => TypeOK'
  <1> SUFFICES ASSUME TypeOK, [Next]_vars PROVE TypeOK'
    OBVIOUS
  <1>1. CASE Deliver
    <2> DEFINE E == [name : Names, spec : Specs \union {None}]
    <2>0. pending \in Seq(E) /\ pending # <<>> /\ pending' = Tail(pending)
      BY <1>1 DEF Deliver, TypeOK
    <2> HIDE DEF E
    <2>1. Head(pending) \in E /\ pending' \in Seq(E)
      BY <2>0
    <2> USE DEF E
    <2>2. cache' \in Objects
      BY <1>1, <2>1 DEF Deliver, TypeOK, Objects
    <2> QED BY <1>1, <2>1, <2>2 DEF Deliver, TypeOK
  <1>2. CASE \E q \in Quotas : SetQuota(q)
    <2>1. excused' \in BOOLEAN /\ edits' \in Nat
      BY <1>2 DEF SetQuota, TypeOK
    <2> QED BY <1>2, <2>1 DEF SetQuota, TypeOK
  <1>3. CASE DeliverUserSpace \/ ReconcileUserSpace
    BY <1>3 DEF DeliverUserSpace, ReconcileUserSpace, TypeOK
  <1>4. CASE UNCHANGED vars
    BY <1>4 DEF vars, TypeOK
  <1> QED BY <1>1, <1>2, <1>3, <1>4, WriteTypes, PodTypes DEF Next

-----------------------------------------------------------------------------
(* The allowance *)

\* Where every Workspace adds no more, the usage stays within.
LEMMA WithinMonotone ==
  ASSUME NEW os \in Objects, NEW ps \in Objects, NEW q \in Quotas,
         Within(Usage(os), q),
         \A n \in Names : /\ RunningOf(ps[n]) <= RunningOf(os[n])
                          /\ ComputeOf(ps[n]) <= ComputeOf(os[n])
                          /\ StorageOf(ps[n]) <= StorageOf(os[n])
  PROVE  Within(Usage(ps), q)
  <1>1. /\ Usage(ps).workspaces <= Usage(os).workspaces
        /\ Usage(ps).compute <= Usage(os).compute
        /\ Usage(ps).storage <= Usage(os).storage
    BY UsageTypes, TotalMonotone DEF Usage
  <1> QED BY <1>1, UsageTypes, QuotaTypes DEF Within

\* What the webhook has let through was within the allowance it read, beside
\* the Workspaces it read.
ReviewsAreMeasured ==
  \A n \in Names :
    LET r == reviews[n] IN
    r # None /\ r.allowance # None =>
      Within(Usage([r.others EXCEPT ![n] = r.new]), r.allowance)

\* What is inductive: the writes that are yet to be persisted are measured too.
QuotaInv == OverQuotaNeedsRace /\ ReviewsAreMeasured

\* An empty namespace is within any allowance.
LEMMA QuotaInvInit == Init => QuotaInv
  <1> SUFFICES ASSUME Init PROVE QuotaInv
    OBVIOUS
  <1>1. /\ [n \in Names |-> RunningOf(objs[n])] = [n \in Names |-> 0]
        /\ [n \in Names |-> ComputeOf(objs[n])] = [n \in Names |-> 0]
        /\ [n \in Names |-> StorageOf(objs[n])] = [n \in Names |-> 0]
    BY DEF Init, RunningOf, ComputeOf, StorageOf
  <1>2. Usage(objs) = [workspaces |-> 0, compute |-> 0, storage |-> 0]
    BY <1>1, TotalOfNothing DEF Usage
  <1>3. quota \in Quotas
    BY DEF Init
  <1>4. Within(Usage(objs), quota)
    BY <1>2, <1>3, QuotaTypes DEF Within
  <1>5. ReviewsAreMeasured
    BY DEF Init, ReviewsAreMeasured
  <1> QED BY <1>4, <1>5 DEF QuotaInv, OverQuotaNeedsRace

\* An answer of the webhook is measured.
LEMMA QuotaReview ==
  ASSUME TypeOK, QuotaInv, NEW n \in Names, NEW new \in Specs, Review(n, new)
  PROVE  QuotaInv'
  <1> DEFINE r == [old |-> objs[n], new |-> new,
                   others |-> [cache EXCEPT ![n] = None],
                   allowance |-> UserSpaceFor]
  <1>1. reviews' = [reviews EXCEPT ![n] = r]
    BY DEF Review
  <1>2. /\ reviews'[n] = r
        /\ \A m \in Names \ {n} : reviews'[m] = reviews[m]
    BY <1>1 DEF TypeOK
  <1>3. [r.others EXCEPT ![n] = r.new] = [cache EXCEPT ![n] = new]
    BY DEF TypeOK, Objects
  <1>4. UserSpaceFor # None =>
          Within(Usage([cache EXCEPT ![n] = new]), UserSpaceFor)
    BY DEF Review, ValidateQuota
  <1>5. r.allowance # None =>
          Within(Usage([r.others EXCEPT ![n] = r.new]), r.allowance)
    BY <1>3, <1>4
  <1> HIDE DEF r
  <1>6. ReviewsAreMeasured'
    BY <1>2, <1>5 DEF QuotaInv, ReviewsAreMeasured
  <1>7. OverQuotaNeedsRace'
    BY DEF Review, QuotaInv, OverQuotaNeedsRace
  <1> QED BY <1>6, <1>7 DEF QuotaInv

\* A write that did not race leaves what was measured.
LEMMA QuotaCommit ==
  ASSUME TypeOK, QuotaInv, NEW n \in Names, Commit(n)
  PROVE  QuotaInv'
  <1>1. ReviewsAreMeasured'
    <2>1. reviews'[n] = None /\ \A m \in Names \ {n} : reviews'[m] = reviews[m]
      BY DEF Commit, TypeOK
    <2> QED BY <2>1 DEF QuotaInv, ReviewsAreMeasured
  <1>2. quota' = quota
    BY DEF Commit
  <1>3. CASE objs' = [objs EXCEPT ![n] = reviews[n].new]
             /\ excused' = (excused \/ ~Exact(n))
    <2> SUFFICES ASSUME ~excused' PROVE Within(Usage(objs'), quota)
      BY <1>1, <1>2 DEF QuotaInv, OverQuotaNeedsRace
    <2>1. ~(excused \/ ~Exact(n))
      BY <1>3
    <2>2. Exact(n)
      BY <2>1
    <2> DEFINE r == reviews[n]
    <2>3. r # None /\ r \in Reviews
      BY DEF Commit, TypeOK
    <2>4. r.allowance = quota /\ quota # None
      BY <2>2, NoneAssumption DEF Exact, TypeOK
    <2>5. [r.others EXCEPT ![n] = r.new] = objs'
      BY <1>3, <2>2, <2>3 DEF Exact, TypeOK, Objects, Reviews
    <2>6. Within(Usage([r.others EXCEPT ![n] = r.new]), r.allowance)
      BY <2>3, <2>4 DEF QuotaInv, ReviewsAreMeasured
    <2> QED BY <2>4, <2>5, <2>6
  <1>4. CASE UNCHANGED <<objs, excused>>
    BY <1>1, <1>2, <1>4 DEF QuotaInv, OverQuotaNeedsRace
  <1> QED BY <1>3, <1>4 DEF Commit, Persist

\* A Workspace that is deleted adds nothing any more.
LEMMA QuotaDelete ==
  ASSUME TypeOK, QuotaInv, NEW n \in Names, DeleteWorkspace(n)
  PROVE  QuotaInv'
  <1>1. /\ UNCHANGED <<reviews, quota, excused>>
        /\ objs' = [objs EXCEPT ![n] = None]
    BY DEF DeleteWorkspace, Persist
  <1>2. ReviewsAreMeasured'
    BY <1>1 DEF QuotaInv, ReviewsAreMeasured
  <1>3. ASSUME ~excused PROVE Within(Usage(objs'), quota)
    <2>1. objs \in Objects /\ objs' \in Objects /\ quota \in Quotas
      BY <1>1 DEF TypeOK, Objects
    <2>2. \A m \in Names : /\ RunningOf(objs[m]) \in Nat
                           /\ ComputeOf(objs[m]) \in Nat
                           /\ StorageOf(objs[m]) \in Nat
      BY <2>1, UsageTypes
    <2>3. \A m \in Names : /\ RunningOf(objs'[m]) <= RunningOf(objs[m])
                           /\ ComputeOf(objs'[m]) <= ComputeOf(objs[m])
                           /\ StorageOf(objs'[m]) <= StorageOf(objs[m])
      <3> SUFFICES ASSUME NEW m \in Names
                   PROVE  /\ RunningOf(objs'[m]) <= RunningOf(objs[m])
                          /\ ComputeOf(objs'[m]) <= ComputeOf(objs[m])
                          /\ StorageOf(objs'[m]) <= StorageOf(objs[m])
        OBVIOUS
      <3>1. CASE m = n
        <4>1. objs'[m] = None
          BY <1>1, <2>1, <3>1 DEF Objects
        <4>2. /\ RunningOf(objs'[m]) = 0
              /\ ComputeOf(objs'[m]) = 0
              /\ StorageOf(objs'[m]) = 0
          BY <4>1 DEF RunningOf, ComputeOf, StorageOf
        <4> QED BY <2>2, <4>2
      <3>2. CASE m # n
        <4>1. objs'[m] = objs[m]
          BY <1>1, <2>1, <3>2 DEF Objects
        <4> QED BY <2>2, <4>1
      <3> QED BY <3>1, <3>2
    <2>4. Within(Usage(objs), quota)
      BY <1>3 DEF QuotaInv, OverQuotaNeedsRace
    <2> QED BY <2>1, <2>3, <2>4, WithinMonotone
  <1> QED BY <1>1, <1>2, <1>3 DEF QuotaInv, OverQuotaNeedsRace

\* Every step keeps the invariant.
LEMMA QuotaInvStep == TypeOK /\ QuotaInv /\ [Next]_vars => QuotaInv'
  <1> SUFFICES ASSUME TypeOK, QuotaInv, [Next]_vars PROVE QuotaInv'
    OBVIOUS
  <1>1. CASE \E q \in Quotas : SetQuota(q)
    <2>1. PICK q \in Quotas : SetQuota(q)
      BY <1>1
    <2>2. /\ UNCHANGED <<objs, reviews>> /\ quota' = q
          /\ excused' = (excused \/ ~Within(Usage(objs), q))
      BY <2>1 DEF SetQuota
    <2>3. ASSUME ~excused' PROVE Within(Usage(objs), q)
      BY <2>2, <2>3
    <2>4. OverQuotaNeedsRace'
      BY <2>2, <2>3 DEF OverQuotaNeedsRace
    <2> QED BY <2>2, <2>4 DEF QuotaInv, ReviewsAreMeasured
  <1>2. ASSUME UNCHANGED <<objs, quota, reviews, excused>> PROVE QuotaInv'
    BY <1>2 DEF QuotaInv, OverQuotaNeedsRace, ReviewsAreMeasured
  <1>3. CASE \/ Deliver \/ DeliverUserSpace \/ ReconcileUserSpace
             \/ UNCHANGED vars
    BY <1>2, <1>3 DEF Deliver, DeliverUserSpace, ReconcileUserSpace, vars
  <1>4. CASE \E n \in Names : \/ CreateClaim(n) \/ CreatePod(n)
                              \/ StopPod(n) \/ DeleteClaim(n)
    BY <1>2, <1>4 DEF CreateClaim, CreatePod, StopPod, DeleteClaim
  <1> QED BY <1>1, <1>3, <1>4, QuotaReview, QuotaCommit, QuotaDelete DEF Next

-----------------------------------------------------------------------------
(* The theorems *)

\* Every variable keeps to its type.
THEOREM TypeCorrect == Spec => []TypeOK
  BY TypeInit, TypeStep, PTL DEF Spec

\* validateQuota, for every number of Workspaces and every lag of the cache:
\* only a write that raced with another, or was measured against a quota since
\* replaced, or a cut of the quota, takes a namespace over its allowance.
THEOREM WithinQuota == Spec => []OverQuotaNeedsRace
  <1>1. QuotaInv => OverQuotaNeedsRace
    BY DEF QuotaInv
  <1> QED BY <1>1, QuotaInvInit, QuotaInvStep, TypeInit, TypeStep, PTL DEF Spec

\* An object that adds no more is admitted in the place of the old one.
LEMMA SmallerIsAdmitted ==
  ASSUME TypeOK, Within(Usage(objs), quota), NEW n \in Names, NEW new \in Specs,
         /\ RunningOf(new) <= RunningOf(objs[n])
         /\ ComputeOf(new) <= ComputeOf(objs[n])
         /\ StorageOf(new) <= StorageOf(objs[n])
  PROVE  ~Refused(n, new)
  <1> DEFINE ps == [objs EXCEPT ![n] = new]
  <1>1. ps \in Objects /\ objs \in Objects /\ quota \in Quotas
    BY DEF TypeOK, Objects
  <1>2. \A m \in Names : /\ RunningOf(objs[m]) \in Nat
                         /\ ComputeOf(objs[m]) \in Nat
                         /\ StorageOf(objs[m]) \in Nat
    BY <1>1, UsageTypes
  <1>3. ps[n] = new /\ \A m \in Names \ {n} : ps[m] = objs[m]
    BY DEF TypeOK, Objects
  <1> HIDE DEF ps
  <1>4. \A m \in Names : /\ RunningOf(ps[m]) <= RunningOf(objs[m])
                         /\ ComputeOf(ps[m]) <= ComputeOf(objs[m])
                         /\ StorageOf(ps[m]) <= StorageOf(objs[m])
    BY <1>2, <1>3
  <1>5. Within(Usage(ps), quota)
    BY <1>1, <1>4, WithinMonotone
  <1> QED BY <1>5 DEF Refused, ValidateQuota, ps

\* validateQuota measures a resize as a change: whoever is within the quota may
\* always stop a Workspace or ask for less, however many Workspaces there are.
THEOREM ShrinkingIsAdmitted == Spec => []ShrinkIsAdmitted
  <1>1. TypeOK => ShrinkIsAdmitted
    <2> SUFFICES ASSUME TypeOK, Within(Usage(objs), quota),
                        NEW n \in Names, objs[n] # None
                 PROVE  /\ ~Refused(n, Stopped(objs[n]))
                        /\ \A ask \in Shapes : ask.request <= objs[n].ask.request =>
                             ~Refused(n, [objs[n] EXCEPT !.ask = ask])
      BY DEF ShrinkIsAdmitted
    <2>1. /\ objs[n] \in Specs /\ objs[n].running \in BOOLEAN
          /\ objs[n].ask.request \in Nat /\ objs[n].storage \in Nat
      BY AskTypes DEF TypeOK, Objects
    <2>2. ~Refused(n, Stopped(objs[n]))
      <3> DEFINE new == Stopped(objs[n])
      <3>1. /\ new \in Specs /\ ~new.running
            /\ new.storage = objs[n].storage
        BY <2>1 DEF Stopped, Specs
      <3> HIDE DEF new
      <3>2. new # None
        BY <3>1, NoneAssumption
      <3>3. /\ RunningOf(new) = 0 /\ ComputeOf(new) = 0
            /\ StorageOf(new) = StorageOf(objs[n])
        BY <3>1, <3>2 DEF RunningOf, ComputeOf, StorageOf
      <3>4. /\ RunningOf(objs[n]) \in Nat /\ ComputeOf(objs[n]) \in Nat
            /\ StorageOf(objs[n]) \in Nat
        BY <2>1 DEF RunningOf, ComputeOf, StorageOf
      <3>5. ~Refused(n, new)
        BY <3>1, <3>3, <3>4, SmallerIsAdmitted
      <3> QED BY <3>5 DEF new
    <2>3. ASSUME NEW ask \in Shapes, ask.request <= objs[n].ask.request
          PROVE  ~Refused(n, [objs[n] EXCEPT !.ask = ask])
      <3> DEFINE new == [objs[n] EXCEPT !.ask = ask]
      <3>1. /\ new \in Specs /\ new.running = objs[n].running
            /\ new.storage = objs[n].storage /\ new.ask = ask
        BY <2>1 DEF Specs
      <3> HIDE DEF new
      <3>2. new # None /\ ask.request \in Nat
        BY <3>1, NoneAssumption, AskTypes
      <3>3. /\ RunningOf(new) = RunningOf(objs[n])
            /\ ComputeOf(new) <= ComputeOf(objs[n])
            /\ StorageOf(new) = StorageOf(objs[n])
        BY <2>1, <2>3, <3>1, <3>2 DEF RunningOf, ComputeOf, StorageOf
      <3>4. RunningOf(objs[n]) \in Nat /\ StorageOf(objs[n]) \in Nat
        BY <2>1 DEF RunningOf, StorageOf
      <3>5. ~Refused(n, new)
        BY <3>1, <3>3, <3>4, SmallerIsAdmitted
      <3> QED BY <3>5 DEF new
    <2> QED BY <2>2, <2>3
  <1> QED BY <1>1, TypeCorrect, PTL

\* A claim that is missing fits beside the others.
LEMMA ClaimsFit ==
  ASSUME TypeOK, Within(Usage(objs), quota), hard = quota, NoClaimLeftBehind,
         NEW n \in Names, WantsPod(n), claims[n] = 0
  PROVE  ClaimFits(n)
  <1> DEFINE all == [m \in Names |-> StorageOf(objs[m])]
             g   == [claims EXCEPT ![n] = objs[n].storage]
  <1>1. objs \in Objects /\ quota \in Quotas /\ claims \in [Names -> Nat]
    BY DEF TypeOK
  <1>2. objs[n] # None /\ objs[n].storage \in Nat
    BY <1>1, QuantityAssumption DEF WantsPod, Objects, Specs
  <1>3. /\ g \in [Names -> Nat] /\ g[n] = objs[n].storage
        /\ \A m \in Names \ {n} : g[m] = claims[m]
    BY <1>1, <1>2
  <1>4. Total(g) = Total(claims) + objs[n].storage
    BY <1>1, <1>2, TotalUpdate
  <1> HIDE DEF g
  <1>5. /\ all \in [Names -> Nat] /\ Total(all) = Usage(objs).storage
        /\ \A m \in Names : all[m] = StorageOf(objs[m])
    BY <1>1, UsageTypes DEF Usage
  <1>6. \A m \in Names : g[m] <= all[m]
    <2> SUFFICES ASSUME NEW m \in Names PROVE g[m] <= all[m]
      OBVIOUS
    <2>1. CASE m = n
      BY <1>2, <1>3, <1>5, <2>1 DEF StorageOf
    <2>2. CASE m # n /\ claims[m] # 0
      BY <1>1, <1>3, <1>5, <2>2 DEF NoClaimLeftBehind, StorageOf
    <2>3. CASE m # n /\ claims[m] = 0
      BY <1>3, <1>5, <2>3
    <2> QED BY <2>1, <2>2, <2>3
  <1> HIDE DEF all
  <1>7. Total(g) <= Total(all)
    BY <1>3, <1>5, <1>6, TotalMonotone
  <1>8. /\ Usage(objs).storage <= hard.storage /\ hard.storage \in Nat
        /\ Total(g) \in Nat /\ Total(all) \in Nat
    BY <1>1, <1>3, <1>5, PartialFacts, QuotaTypes DEF Within
  <1> QED BY <1>4, <1>5, <1>7, <1>8 DEF ClaimFits

\* A Workspace that states what is charged is charged what it states.
LEMMA ChargedAsCounted ==
  ASSUME NEW ws \in Specs, ws.running, StatesWhatIsCharged(ws)
  PROVE  RequestOf(ws) = ComputeOf(ws)
  <1>1. /\ ws.ask.request \in Nat /\ ws.ask.request # 0 /\ ws # None
        /\ DefaultRequest \in Nat /\ ContainerRequest(0, 0) = DefaultRequest
    BY AskTypes, NoneAssumption, QuantityAssumption DEF StatesWhatIsCharged, ContainerRequest
  <1>2. ContainerRequest(ws.ask.request, ws.ask.limit) = ws.ask.request
    BY <1>1 DEF ContainerRequest
  <1> QED BY <1>1, <1>2 DEF RequestOf, ComputeOf, StatesWhatIsCharged

\* A pod that is missing fits beside the others, where every running Workspace
\* states what is charged.
LEMMA PodsFit ==
  ASSUME TypeOK, Within(Usage(objs), quota), hard = quota,
         \A m \in Names : WantsPod(m) => StatesWhatIsCharged(objs[m]),
         \A m \in Names : ~PodIsStale(m),
         NEW n \in Names, WantsPod(n), pods[n] = 0
  PROVE  PodFits(n)
  <1> DEFINE all == [m \in Names |-> ComputeOf(objs[m])]
             g   == [pods EXCEPT ![n] = RequestOf(objs[n])]
  <1>1. objs \in Objects /\ quota \in Quotas /\ pods \in [Names -> Nat]
    BY DEF TypeOK
  <1>2. \A m \in Names : WantsPod(m) =>
          /\ RequestOf(objs[m]) = ComputeOf(objs[m])
          /\ RequestOf(objs[m]) \in Nat
    <2> SUFFICES ASSUME NEW m \in Names, WantsPod(m)
                 PROVE  /\ RequestOf(objs[m]) = ComputeOf(objs[m])
                        /\ RequestOf(objs[m]) \in Nat
      OBVIOUS
    <2>1. objs[m] \in Specs
      BY <1>1 DEF WantsPod, Objects
    <2> QED BY <2>1, AskTypes, ChargedAsCounted DEF WantsPod
  <1>3. /\ g \in [Names -> Nat] /\ g[n] = RequestOf(objs[n])
        /\ \A m \in Names \ {n} : g[m] = pods[m]
    BY <1>1, <1>2
  <1>4. Total(g) = Total(pods) + RequestOf(objs[n])
    BY <1>1, <1>2, TotalUpdate
  <1> HIDE DEF g
  <1>5. /\ all \in [Names -> Nat] /\ Total(all) = Usage(objs).compute
        /\ \A m \in Names : all[m] = ComputeOf(objs[m])
    BY <1>1, UsageTypes DEF Usage
  <1>6. \A m \in Names : g[m] <= all[m]
    <2> SUFFICES ASSUME NEW m \in Names PROVE g[m] <= all[m]
      OBVIOUS
    <2>1. CASE m = n
      BY <1>2, <1>3, <1>5, <2>1
    <2>2. CASE m # n /\ pods[m] # 0
      <3>1. WantsPod(m) /\ pods[m] = RequestOf(objs[m])
        BY <2>2 DEF PodIsStale
      <3> QED BY <1>2, <1>3, <1>5, <2>2, <3>1
    <2>3. CASE m # n /\ pods[m] = 0
      BY <1>3, <1>5, <2>3
    <2> QED BY <2>1, <2>2, <2>3
  <1> HIDE DEF all
  <1>7. Total(g) <= Total(all)
    BY <1>3, <1>5, <1>6, TotalMonotone
  <1>8. /\ Usage(objs).compute <= hard.compute /\ hard.compute \in Nat
        /\ Total(g) \in Nat /\ Total(all) \in Nat
    BY <1>1, <1>3, <1>5, PartialFacts, QuotaTypes DEF Within
  <1> QED BY <1>4, <1>5, <1>7, <1>8 DEF PodFits

\* buildResourceQuota agrees with validateQuota, for every number of Workspaces and
\* whatever they ask for: where no claim outlives its Workspace, no volume that was
\* admitted without a race is refused, and where every running Workspace states what
\* it is charged, no pod is.
THEOREM BackstopHolds == Spec => []BackstopAgrees
  <1>1. TypeOK /\ OverQuotaNeedsRace => BackstopAgrees
    <2> SUFFICES ASSUME TypeOK, OverQuotaNeedsRace,
                        Settled, ~excused, NoClaimLeftBehind
                 PROVE  /\ EveryClaimFits
                        /\ \/ \E n \in Names : WantsPod(n) /\ ~StatesWhatIsCharged(objs[n])
                           \/ EveryPodFits
      BY DEF BackstopAgrees
    <2>1. /\ Within(Usage(objs), quota) /\ hard = quota
          /\ \A m \in Names : ~PodIsStale(m)
      BY DEF OverQuotaNeedsRace, Settled
    <2> QED BY <2>1, ClaimsFit, PodsFit DEF EveryClaimFits, EveryPodFits
  <1> QED BY <1>1, TypeCorrect, WithinQuota, PTL

=============================================================================
