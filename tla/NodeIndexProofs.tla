--------------------------- MODULE NodeIndexProofs ---------------------------
(***************************************************************************)
(* Proofs that the resolution index is type-correct, bounded, never stale, *)
(* retains what it was told for at least MaxEntries stores, and implements *)
(* LossyIndex, for every set of keys and nodes and every MaxEntries.       *)
(***************************************************************************)
EXTENDS NodeIndex, FiniteSetTheorems, TLAPS

\* A generation is only ever filled one store at a time, so it is finite even
\* when the set of keys is not.
FiniteGenerations ==
    /\ IsFiniteSet(DOMAIN cur)
    /\ IsFiniteSet(DOMAIN prev)

\* What each generation holds for a key: the current one the last node
\* remembered, and the retired one too unless the current one hides it.
GenerationsAreLatest ==
    /\ \A k \in DOMAIN cur : cur[k] = last[k]
    /\ \A k \in DOMAIN prev \ DOMAIN cur : prev[k] = last[k]

\* A key missing from the current generation has not been stored since that
\* generation was opened, and every entry in it is a later store.
OutsideIsOlder ==
    \A k \in Keys \ DOMAIN cur : age[k] >= Cardinality(DOMAIN cur)

\* A key missing from both was last stored before the retired generation
\* was full.
ForgottenIsOld ==
    \A k \in Keys : k \notin DOMAIN cur \cup DOMAIN prev => age[k] > MaxEntries

IInv ==
    /\ TypeOK
    /\ FiniteGenerations
    /\ Bounded
    /\ GenerationsAreLatest
    /\ OutsideIsOlder
    /\ ForgottenIsOld

-----------------------------------------------------------------------------
\* Assigning one key of a generation yields a generation over one more key.
LEMMA PutGeneration ==
    ASSUME NEW m \in Generation, NEW k \in Keys, NEW n \in Nodes
    PROVE  /\ Put(m, k, n) \in Generation
           /\ DOMAIN Put(m, k, n) = DOMAIN m \cup {k}
           /\ Put(m, k, n)[k] = n
           /\ \A j \in DOMAIN m \ {k} : Put(m, k, n)[j] = m[j]
<1>1. PICK K \in SUBSET Keys : m \in [K -> Nodes]
  BY DEF Generation
<1>2. Put(m, k, n) \in [K \cup {k} -> Nodes]
  BY <1>1 DEF Put
<1>3. K \cup {k} \in SUBSET Keys
  BY <1>1
<1>4. Put(m, k, n) \in Generation
  BY <1>2, <1>3 DEF Generation
<1> QED
  BY <1>1, <1>4 DEF Put

\* The empty map is a generation.
LEMMA EmptyGeneration == EmptyMap \in Generation /\ DOMAIN EmptyMap = {}
<1>1. EmptyMap \in [{} -> Nodes]
  BY DEF EmptyMap
<1>2. {} \in SUBSET Keys
  OBVIOUS
<1> QED
  BY <1>1, <1>2 DEF Generation, EmptyMap

\* What storeLocked leaves behind: the stored key is in the current
\* generation; either nothing else moved, or the full generation was retired
\* and a new one holds the stored key alone.
LEMMA StoreLocked ==
    ASSUME TypeOK, FiniteGenerations, Bounded,
           NEW k \in Keys, NEW n \in Nodes, storeLocked(k, n)
    PROVE  /\ cur' \in Generation /\ prev' \in Generation
           /\ FiniteGenerations' /\ Bounded'
           /\ k \in DOMAIN cur' /\ cur'[k] = n
           /\ \/ /\ Cardinality(DOMAIN cur) < MaxEntries
                 /\ prev' = prev
                 /\ DOMAIN cur' = DOMAIN cur \cup {k}
                 /\ \A j \in DOMAIN cur \ {k} : cur'[j] = cur[j]
                 /\ Cardinality(DOMAIN cur') <= Cardinality(DOMAIN cur) + 1
              \/ /\ Cardinality(DOMAIN cur) = MaxEntries
                 /\ prev' = cur
                 /\ DOMAIN cur' = {k}
                 /\ Cardinality(DOMAIN cur') = 1
<1>0. Cardinality(DOMAIN cur) \in Nat /\ Cardinality(DOMAIN prev) \in Nat
  BY FS_CardinalityType DEF FiniteGenerations
<1>1. CASE Cardinality(DOMAIN cur) < MaxEntries
  <2>1. prev' = prev /\ cur' = Put(cur, k, n)
    BY <1>0, <1>1, MaxEntriesAssumption DEF storeLocked
  <2>2. /\ cur' \in Generation /\ DOMAIN cur' = DOMAIN cur \cup {k}
        /\ cur'[k] = n /\ \A j \in DOMAIN cur \ {k} : cur'[j] = cur[j]
    <3>1. cur \in Generation
      BY DEF TypeOK
    <3>2. /\ Put(cur, k, n) \in Generation
          /\ DOMAIN Put(cur, k, n) = DOMAIN cur \cup {k}
          /\ Put(cur, k, n)[k] = n
          /\ \A j \in DOMAIN cur \ {k} : Put(cur, k, n)[j] = cur[j]
      BY <3>1, PutGeneration, Zenon
    <3> QED
      BY <2>1, <3>2
  <2>3. /\ IsFiniteSet(DOMAIN cur \cup {k})
        /\ Cardinality(DOMAIN cur \cup {k}) <= Cardinality(DOMAIN cur) + 1
    <3>1. /\ IsFiniteSet(DOMAIN cur \cup {k})
          /\ Cardinality(DOMAIN cur \cup {k}) =
               IF k \in DOMAIN cur THEN Cardinality(DOMAIN cur)
               ELSE Cardinality(DOMAIN cur) + 1
      BY FS_AddElement, Zenon DEF FiniteGenerations
    <3> QED
      BY <1>0, <3>1
  <2>4. Cardinality(DOMAIN cur') \in Nat
    BY <2>2, <2>3, FS_CardinalityType
  <2>5. Bounded'
    BY <1>0, <1>1, <2>1, <2>2, <2>3, <2>4, MaxEntriesAssumption DEF Bounded
  <2> QED
    BY <1>1, <2>1, <2>2, <2>3, <2>5 DEF TypeOK, FiniteGenerations
<1>2. CASE ~(Cardinality(DOMAIN cur) < MaxEntries)
  <2>1. Cardinality(DOMAIN cur) = MaxEntries
    BY <1>0, <1>2, MaxEntriesAssumption DEF Bounded
  <2>2. prev' = cur /\ cur' = Put(EmptyMap, k, n)
    BY <2>1, MaxEntriesAssumption DEF storeLocked
  <2>3. cur' \in Generation /\ DOMAIN cur' = {k} /\ cur'[k] = n
    <3>1. /\ Put(EmptyMap, k, n) \in Generation
          /\ DOMAIN Put(EmptyMap, k, n) = DOMAIN EmptyMap \cup {k}
          /\ Put(EmptyMap, k, n)[k] = n
      BY PutGeneration, EmptyGeneration, Zenon
    <3> QED
      BY <2>2, <3>1, EmptyGeneration
  <2>4. IsFiniteSet(DOMAIN cur') /\ Cardinality(DOMAIN cur') = 1
    BY <2>3, FS_Singleton
  <2> QED
    BY <2>1, <2>2, <2>3, <2>4, MaxEntriesAssumption
    DEF TypeOK, FiniteGenerations, Bounded
<1> QED
  BY <1>1, <1>2

\* Every store keeps the invariant, whether remember or a promoting lookup
\* makes it, as long as the history agrees with what was stored.
LEMMA StorePreserves ==
    ASSUME IInv, NEW k \in Keys, NEW n \in Nodes, storeLocked(k, n),
           age' = Aged(k),
           last' = [last EXCEPT ![k] = n]
    PROVE  IInv'
<1>0. Cardinality(DOMAIN cur) \in Nat
  BY FS_CardinalityType DEF IInv, FiniteGenerations
<1>t. TypeOK /\ FiniteGenerations /\ Bounded
  BY DEF IInv
<1>s. /\ cur' \in Generation /\ prev' \in Generation
      /\ FiniteGenerations' /\ Bounded'
      /\ k \in DOMAIN cur' /\ cur'[k] = n
      /\ \/ /\ Cardinality(DOMAIN cur) < MaxEntries
            /\ prev' = prev
            /\ DOMAIN cur' = DOMAIN cur \cup {k}
            /\ \A j \in DOMAIN cur \ {k} : cur'[j] = cur[j]
            /\ Cardinality(DOMAIN cur') <= Cardinality(DOMAIN cur) + 1
         \/ /\ Cardinality(DOMAIN cur) = MaxEntries
            /\ prev' = cur
            /\ DOMAIN cur' = {k}
            /\ Cardinality(DOMAIN cur') = 1
  BY <1>t, StoreLocked
<1>c. Cardinality(DOMAIN cur') \in Nat
  BY <1>s, FS_CardinalityType DEF FiniteGenerations
<1>d. DOMAIN cur \subseteq Keys /\ DOMAIN prev \subseteq Keys
  BY <1>t DEF TypeOK, Generation
<1>a. /\ age' \in [Keys -> 0..MaxEntries + 1]
      /\ age'[k] = 0
      /\ \A j \in Keys \ {k} : \/ age[j] > MaxEntries /\ age'[j] = age[j]
                               \/ age[j] <= MaxEntries /\ age'[j] = age[j] + 1
  BY <1>t, MaxEntriesAssumption DEF TypeOK, Aged
<1>l. /\ last' \in [Keys -> Nodes \cup {NoNode}]
      /\ last'[k] = n
      /\ \A j \in Keys \ {k} : last'[j] = last[j]
  BY <1>t DEF TypeOK
<1>1. TypeOK'
  BY <1>s, <1>a, <1>l DEF TypeOK
<1>2. GenerationsAreLatest'
  BY <1>s, <1>l, <1>d DEF IInv, GenerationsAreLatest
<1>3. OutsideIsOlder'
  <2> SUFFICES ASSUME NEW j \in Keys \ DOMAIN cur'
               PROVE  age'[j] >= Cardinality(DOMAIN cur')
    BY DEF OutsideIsOlder
  <2>1. j # k
    BY <1>s
  <2>2. age[j] \in 0..MaxEntries + 1
    BY <1>t DEF TypeOK
  <2>3. CASE Cardinality(DOMAIN cur) < MaxEntries
    <3>1. j \notin DOMAIN cur
      BY <1>s, <2>3, <1>0, MaxEntriesAssumption
    <3>2. age[j] >= Cardinality(DOMAIN cur)
      BY <3>1 DEF IInv, OutsideIsOlder
    <3> QED
      BY <3>2, <1>s, <1>a, <2>1, <2>2, <2>3, <1>0, <1>c, MaxEntriesAssumption
  <2>4. CASE Cardinality(DOMAIN cur) = MaxEntries
    BY <1>s, <1>a, <2>1, <2>2, <2>4, <1>0, <1>c, MaxEntriesAssumption
  <2> QED
    BY <2>3, <2>4, <1>s
<1>4. ForgottenIsOld'
  <2> SUFFICES ASSUME NEW j \in Keys, j \notin DOMAIN cur' \cup DOMAIN prev'
               PROVE  age'[j] > MaxEntries
    BY DEF ForgottenIsOld
  <2>1. j # k
    BY <1>s
  <2>2. age[j] \in 0..MaxEntries + 1
    BY <1>t DEF TypeOK
  <2>3. CASE Cardinality(DOMAIN cur) < MaxEntries
    <3>1. j \notin DOMAIN cur \cup DOMAIN prev
      BY <1>s, <2>3, <1>0, MaxEntriesAssumption
    <3>2. age[j] > MaxEntries
      BY <3>1 DEF IInv, ForgottenIsOld
    <3> QED
      BY <3>2, <1>a, <2>1, <2>2, MaxEntriesAssumption
  <2>4. CASE Cardinality(DOMAIN cur) = MaxEntries
    <3>1. j \notin DOMAIN cur
      BY <1>s, <2>4, MaxEntriesAssumption
    <3>2. age[j] >= MaxEntries
      BY <3>1, <2>4 DEF IInv, OutsideIsOlder
    <3> QED
      BY <3>2, <1>a, <2>1, <2>2, MaxEntriesAssumption
  <2> QED
    BY <2>3, <2>4, <1>s
<1> QED
  BY <1>s, <1>1, <1>2, <1>3, <1>4 DEF IInv

-----------------------------------------------------------------------------
LEMMA InitIInv == Init => IInv
<1> SUFFICES ASSUME Init PROVE IInv
  OBVIOUS
<1>1. DOMAIN cur = {} /\ DOMAIN prev = {} /\ cur \in Generation /\ prev \in Generation
  BY EmptyGeneration DEF Init, newNodeIndex
<1>2. IsFiniteSet({}) /\ Cardinality({}) = 0
  BY FS_EmptySet
<1> QED
  BY <1>1, <1>2, MaxEntriesAssumption
  DEF Init, IInv, TypeOK, FiniteGenerations, Bounded, GenerationsAreLatest,
      OutsideIsOlder, ForgottenIsOld

LEMMA NextIInv == IInv /\ [Next]_vars => IInv'
<1> SUFFICES ASSUME IInv, [Next]_vars PROVE IInv'
  OBVIOUS
<1>1. CASE UNCHANGED vars
  BY <1>1 DEF vars, IInv, TypeOK, FiniteGenerations, Bounded,
              GenerationsAreLatest, OutsideIsOlder, ForgottenIsOld
<1>2. ASSUME NEW k \in Keys, lookupCurrentOrMiss(k)
      PROVE  IInv'
  BY <1>1, <1>2 DEF lookupCurrentOrMiss
<1>3. ASSUME NEW k \in Keys, lookupRetired(k)
      PROVE  IInv'
  <2>1. prev[k] = last[k] /\ storeLocked(k, prev[k]) /\ age' = Aged(k)
    BY <1>3 DEF lookupRetired, IInv, GenerationsAreLatest
  <2>2. prev[k] \in Nodes
    BY <1>3 DEF lookupRetired, IInv, TypeOK, Generation
  <2>3. last' = [last EXCEPT ![k] = prev[k]]
    BY <1>3, <2>1 DEF lookupRetired, IInv, TypeOK
  <2> QED
    BY <2>1, <2>2, <2>3, StorePreserves
<1>4. ASSUME NEW k \in Keys, NEW n \in Nodes, remember(k, n)
      PROVE  IInv'
  BY <1>4, StorePreserves DEF remember
<1> QED
  BY <1>1, <1>2, <1>3, <1>4 DEF Next

\* The index's inductive invariant holds in every reachable state.
THEOREM IndexInvariant == Spec => []IInv
  BY InitIInv, NextIInv, PTL DEF Spec

\* Type correctness of the two generations and of the history.
THEOREM IndexTypeOK == Spec => []TypeOK
<1>1. IInv => TypeOK
  BY DEF IInv
<1> QED
  BY <1>1, IndexInvariant, PTL

\* nodeindex.go:43: neither generation ever exceeds MaxEntries, so the index
\* is bounded at twice that.
THEOREM IndexBounded == Spec => []Bounded
<1>1. IInv => Bounded
  BY DEF IInv
<1> QED
  BY <1>1, IndexInvariant, PTL

\* lookup never answers with a node older than the last one remembered.
THEOREM IndexNeverStale == Spec => []LookupIsLatest
<1>1. IInv => LookupIsLatest
  BY DEF IInv, GenerationsAreLatest, LookupIsLatest, Find
<1> QED
  BY <1>1, IndexInvariant, PTL

\* A key survives at least MaxEntries stores of other keys.
THEOREM IndexRetains == Spec => []Retained
<1>1. IInv => Retained
  <2> SUFFICES ASSUME IInv, NEW k \in Keys, age[k] <= MaxEntries
               PROVE  Find(k) # NoNode
    BY DEF Retained
  <2>1. k \in DOMAIN cur \cup DOMAIN prev
    BY MaxEntriesAssumption DEF IInv, ForgottenIsOld, TypeOK
  <2>2. Find(k) \in Nodes
    BY <2>1 DEF Find, IInv, TypeOK, Generation
  <2> QED
    BY <2>2, NoNodeAssumption
<1> QED
  BY <1>1, IndexInvariant, PTL

-----------------------------------------------------------------------------
\* A store changes the answer for its own key to what was stored, and the
\* answer for any other key at most to a miss.
LEMMA StoreRefines ==
    ASSUME IInv, IInv', NEW k \in Keys, NEW n \in Nodes, storeLocked(k, n)
    PROVE  /\ knownNow' \in [Keys -> Nodes \cup {NoNode}]
           /\ knownNow'[k] = n
           /\ \A j \in Keys \ {k} : knownNow'[j] \in {knownNow[j], NoNode}
<1>1. TypeOK /\ FiniteGenerations /\ Bounded /\ TypeOK'
  BY DEF IInv
<1>2. /\ k \in DOMAIN cur' /\ cur'[k] = n
      /\ \/ /\ prev' = prev
            /\ DOMAIN cur' = DOMAIN cur \cup {k}
            /\ \A j \in DOMAIN cur \ {k} : cur'[j] = cur[j]
         \/ /\ prev' = cur
            /\ DOMAIN cur' = {k}
  BY <1>1, StoreLocked
<1>3. Find(k)' = n
  BY <1>2 DEF Find
<1>4. \A j \in Keys \ {k} : Find(j)' \in {Find(j), NoNode}
  BY <1>2 DEF Find
<1>5. knownNow' \in [Keys -> Nodes \cup {NoNode}]
  <2>1. \A j \in Keys : Find(j)' \in Nodes \cup {NoNode}
    BY <1>1 DEF TypeOK, Find, Generation
  <2> QED
    BY <2>1 DEF knownNow
<1> QED
  BY <1>3, <1>4, <1>5 DEF knownNow

\* Every step of the two-generation index is a step of the lossy map or
\* leaves its answers alone.
LEMMA NextRefines == IInv /\ IInv' /\ [Next]_vars => [Abstract!Next]_knownNow
<1> SUFFICES ASSUME IInv, IInv', [Next]_vars
             PROVE  [Abstract!Next]_knownNow
  OBVIOUS
<1>1. CASE UNCHANGED vars
  BY <1>1 DEF vars, knownNow, Find
<1>2. ASSUME NEW k \in Keys, lookupCurrentOrMiss(k)
      PROVE  UNCHANGED knownNow
  BY <1>2 DEF lookupCurrentOrMiss, vars, knownNow, Find
<1>3. ASSUME NEW k \in Keys, lookupRetired(k)
      PROVE  Abstract!Lookup(k)
  <2>1. prev[k] \in Nodes /\ storeLocked(k, prev[k]) /\ knownNow[k] = prev[k]
    BY <1>3 DEF lookupRetired, IInv, TypeOK, Generation, knownNow, Find
  <2> QED
    BY <2>1, StoreRefines DEF Abstract!Lookup, Abstract!ForgetsOnly
<1>4. ASSUME NEW k \in Keys, NEW n \in Nodes, remember(k, n)
      PROVE  Abstract!Remember(k, n)
  <2>1. storeLocked(k, n)
    BY <1>4 DEF remember
  <2> QED
    BY <2>1, StoreRefines DEF Abstract!Remember, Abstract!ForgetsOnly
<1> QED
  BY <1>1, <1>2, <1>3, <1>4 DEF Next, Abstract!Next

\* The two-generation index implements the lossy last-writer map ReadPath
\* takes it for.
THEOREM IndexImplementsLossyIndex == Spec => ImplementsLossyIndex
<1>1. Init => Abstract!Init
  BY EmptyGeneration DEF Init, newNodeIndex, Abstract!Init, knownNow, Find
<1>2. IInv /\ IInv' /\ [Next]_vars => [Abstract!Next]_knownNow
  BY NextRefines
<1> QED
  BY <1>1, <1>2, IndexInvariant, PTL DEF Spec, ImplementsLossyIndex, Abstract!Spec
=============================================================================
