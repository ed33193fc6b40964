---------------------------- MODULE HistoryProofs ----------------------------
(***************************************************************************)
(* Proofs about History, for any modules, table, ring and batch sizes,     *)
(* intervals, retention policies and rows of the old file.                 *)
(***************************************************************************)
EXTENDS History, SequenceTheorems, FiniteSetTheorems,
        WellFoundedInduction, TLAPS

----------------------------------------------------------------------------
(* Sets of numbers. *)

\* A set of naturals that is not empty has a least element.
LEMMA Least ==
    ASSUME NEW S \in SUBSET Nat, S # {}
    PROVE  \E x \in S : \A y \in S : x <= y
<1>1. PICK x \in S : \A y \in S : ~(<<y, x>> \in OpToRel(<, Nat))
  BY NatLessThanWellFounded, WFMin
<1>2. \A y \in S : ~(y < x)
  BY <1>1 DEF OpToRel
<1> QED
  BY <1>2

\* A set of times that is not empty has a greatest element.
LEMMA Greatest ==
    ASSUME NEW S \in SUBSET Times, S # {}
    PROVE  \E x \in S : \A y \in S : y <= x
<1> DEFINE R == {n \in Nat : MaxTime - n \in S}
<1>1. MaxTime \in Nat /\ \A x \in S : x \in 0 .. MaxTime
  BY BoundAssumption DEF Times
<1>2. PICK x \in S : TRUE
  OBVIOUS
<1>3. MaxTime - x \in R
  BY <1>1
<1>4. PICK n \in R : \A y \in R : n <= y
  BY <1>3, Least
<1>5. \A y \in S : y <= MaxTime - n
  <2> TAKE y \in S
  <2>1. MaxTime - y \in R
    BY <1>1
  <2> QED
    BY <1>1, <1>4, <2>1
<1> QED
  BY <1>4, <1>5

\* Sets of times are finite.
LEMMA TimesFinite ==
    ASSUME NEW S \in SUBSET Times
    PROVE  /\ S \in SUBSET Nat
           /\ IsFiniteSet(S) /\ Cardinality(S) \in Nat
<1>1. MaxTime \in Nat
  BY BoundAssumption
<1>2. IsFiniteSet(0 .. MaxTime)
  BY <1>1, FS_Interval
<1>3. IsFiniteSet(S)
  BY <1>2, FS_Subset DEF Times
<1> QED
  BY <1>1, <1>3, FS_CardinalityType DEF Times

\* prune_module deletes at most as many rows as it may.
LEMMA OldestBound ==
    ASSUME NEW S \in SUBSET Times, NEW n \in Nat
    PROVE  /\ Oldest(n, S) \in SUBSET S
           /\ Cardinality(Oldest(n, S)) \in 0 .. n
<1> DEFINE T == Oldest(n, S)
<1>1. T \in SUBSET S /\ T \in SUBSET Times
  BY DEF Oldest
<1>2. Cardinality(T) \in Nat /\ IsFiniteSet(T)
  BY <1>1, TimesFinite
<1>3. Cardinality(T) <= n
  <2> SUFFICES ASSUME Cardinality(T) > n
               PROVE  FALSE
    BY <1>2
  <2>1. T # {}
    BY <1>2, FS_EmptySet
  <2>2. PICK x \in T : \A y \in T : y <= x
    BY <1>1, <2>1, Greatest
  <2> DEFINE B == {y \in S : y < x}
  <2>3. Cardinality(B) < n
    BY DEF Oldest
  <2>4. T \ {x} \in SUBSET B
    BY <1>1, <2>2 DEF Times
  <2>5. Cardinality(T \ {x}) = Cardinality(T) - 1
    BY <1>2, FS_RemoveElement
  <2>6. B \in SUBSET Times
    OBVIOUS
  <2>7. Cardinality(T \ {x}) <= Cardinality(B)
    BY <2>4, <2>6, TimesFinite, FS_Subset
  <2>8. Cardinality(B) \in Nat
    BY <2>6, TimesFinite
  <2> QED
    BY <1>2, <2>3, <2>5, <2>7, <2>8
<1> QED
  BY <1>1, <1>2, <1>3

\* When it deletes fewer, there were no more.
LEMMA OldestAll ==
    ASSUME NEW S \in SUBSET Times, NEW n \in Nat, Cardinality(Oldest(n, S)) < n
    PROVE  Oldest(n, S) = S
<1> DEFINE T == Oldest(n, S)
<1>1. T \in SUBSET S /\ T \in SUBSET Times /\ S \in SUBSET Nat
  BY TimesFinite DEF Oldest
<1> SUFFICES ASSUME S \ T # {}
             PROVE  FALSE
  BY <1>1
<1>2. PICK x \in S \ T : \A y \in S \ T : x <= y
  BY <1>1, Least
<1> DEFINE B == {y \in S : y < x}
<1>3. ~(Cardinality(B) < n)
  BY <1>2 DEF Oldest
<1>4. B \in SUBSET T
  <2> SUFFICES ASSUME NEW y \in B
               PROVE  y \in T
    OBVIOUS
  <2>1. x \in Nat /\ y \in Nat /\ y < x /\ y \in S
    BY <1>1
  <2>2. ~(x <= y)
    BY <2>1
  <2> QED
    BY <1>2, <2>1, <2>2
<1>5. Cardinality(B) <= Cardinality(T) /\ Cardinality(B) \in Nat /\ Cardinality(T) \in Nat
  BY <1>1, <1>4, TimesFinite, FS_Subset
<1> QED
  BY <1>3, <1>5

----------------------------------------------------------------------------
(* The table of open files. *)

\* What TypeOK says of the table.
TableOK(mods) ==
    /\ mods \in [Mods -> Mod \union {Unused}]
    /\ \A m, k \in Mods : mods[m].uuid = mods[k].uuid /\ mods[m] # Unused => m = k

\* A slot is unused exactly when it has no uuid; the others are of type Mod.
LEMMA SlotCases ==
    ASSUME NEW mods, TableOK(mods), NEW m \in Mods
    PROVE  /\ mods[m] = Unused <=> mods[m].uuid = None
           /\ mods[m] # Unused => mods[m] \in Mod /\ mods[m].uuid \in Uuids
           /\ \A u \in Uuids : mods[m].uuid = u => mods[m] \in Mod
<1>1. mods[m] \in Mod \union {Unused}
  BY DEF TableOK
<1>2. \A x \in Mod : x.uuid \in Uuids
  BY DEF Mod
<1>3. Unused.uuid = None
  BY DEF Unused
<1> QED
  BY <1>1, <1>2, <1>3, AbsentAssumption

\* A new value of an open file's slot that keeps its uuid.
LEMMA SlotsChange ==
    ASSUME NEW mods, TableOK(mods), NEW new,
           new \in [Mods -> Mod \union {Unused}],
           \A m \in Mods : new[m] = Unused \/ new[m].uuid = mods[m].uuid
    PROVE  TableOK(new)
<1> SUFFICES ASSUME NEW m \in Mods, NEW k \in Mods,
                    new[m].uuid = new[k].uuid, new[m] # Unused
             PROVE  m = k
  BY DEF TableOK
<1>1. new[m] \in Mod /\ new[m].uuid \in Uuids
  BY DEF Mod
<1>2. new[k] # Unused
  BY <1>1, AbsentAssumption DEF Unused
<1>3. mods[m].uuid = mods[k].uuid /\ mods[m].uuid \in Uuids
  BY <1>1, <1>2
<1>4. mods[m] # Unused
  BY <1>3, SlotCases, AbsentAssumption
<1> QED
  BY <1>3, <1>4 DEF TableOK

\* mf_history_set_retention: the policy of one file changes, and it is due.
LEMMA SetKeepFacts ==
    ASSUME NEW mods, TableOK(mods), NEW u \in Uuids, NEW k \in Keeps
    PROVE  LET new == SetKeep(mods, u, k)
           IN  /\ TableOK(new)
               /\ \A m \in Mods : IF mods[m].uuid = u
                                  THEN /\ new[m].uuid = u /\ new[m] # Unused
                                       /\ new[m].last_ts = mods[m].last_ts
                                       /\ new[m].ins = mods[m].ins
                                       /\ new[m].keep = k /\ new[m].next_prune = 0
                                  ELSE new[m] = mods[m]
<1> DEFINE new == SetKeep(mods, u, k)
<1>1. ASSUME NEW m \in Mods, mods[m].uuid = u
      PROVE  /\ new[m] \in Mod
             /\ new[m].uuid = u
             /\ new[m].last_ts = mods[m].last_ts /\ new[m].ins = mods[m].ins
             /\ new[m].keep = k /\ new[m].next_prune = 0
  <2>1. mods[m] \in Mod
    BY <1>1, SlotCases
  <2>2. new[m] = [mods[m] EXCEPT !.keep = k, !.next_prune = 0, !.missed = FALSE]
    BY <1>1 DEF SetKeep
  <2>3. new[m] = [uuid |-> mods[m].uuid, last_ts |-> mods[m].last_ts, keep |-> k,
                  next_prune |-> 0, ins |-> mods[m].ins, missed |-> FALSE]
    BY <2>1, <2>2, Zenon DEF Mod
  <2> HIDE DEF new
  <2>4. mods[m].uuid \in Uuids /\ mods[m].last_ts \in Times \union {None}
        /\ mods[m].ins \in BOOLEAN
    BY <2>1 DEF Mod
  <2>5. new[m] \in Mod
    BY <2>3, <2>4, KeepAssumption DEF Mod
  <2> QED
    BY <1>1, <2>3, <2>5
<1>2. ASSUME NEW m \in Mods, mods[m].uuid # u
      PROVE  new[m] = mods[m]
  BY <1>2 DEF SetKeep
<1>3. \A m \in Mods : new[m] \in Mod \union {Unused} /\ new[m].uuid = mods[m].uuid
  BY <1>1, <1>2 DEF TableOK
<1>4. new = [m \in Mods |-> new[m]]
  BY DEF SetKeep
<1>5. new \in [Mods -> Mod \union {Unused}]
  BY <1>3, <1>4
<1>6. TableOK(new)
  BY <1>3, <1>5, SlotsChange
<1>7. \A m \in Mods : mods[m].uuid = u => new[m] # Unused
  BY <1>1, AbsentAssumption DEF Unused
<1> HIDE DEF new
<1>8. \A m \in Mods : IF mods[m].uuid = u
                      THEN /\ new[m].uuid = u /\ new[m] # Unused
                           /\ new[m].last_ts = mods[m].last_ts
                           /\ new[m].ins = mods[m].ins
                           /\ new[m].keep = k /\ new[m].next_prune = 0
                      ELSE new[m] = mods[m]
  BY <1>1, <1>2, <1>7
<1> QED
  BY <1>6, <1>8 DEF new

\* close_mod: the slot of one file is given back.
LEMMA CloseFacts ==
    ASSUME NEW mods, TableOK(mods), NEW u \in Uuids
    PROVE  LET new == CloseMod(mods, u)
           IN  /\ TableOK(new)
               /\ \A m \in Mods : IF mods[m].uuid = u THEN new[m] = Unused
                                  ELSE new[m] = mods[m]
<1> DEFINE new == CloseMod(mods, u)
<1>1. \A m \in Mods : IF mods[m].uuid = u THEN new[m] = Unused ELSE new[m] = mods[m]
  BY DEF CloseMod
<1>2. new \in [Mods -> Mod \union {Unused}]
  BY DEF CloseMod, TableOK
<1> HIDE DEF new
<1>3. TableOK(new)
  BY <1>1, <1>2, SlotsChange
<1> QED
  BY <1>1, <1>3 DEF new

\* The table has a first unused slot unless it is full, and only one.
LEMMA FirstUnusedExists ==
    /\ ~TableFull => \E m \in Mods : FirstUnused(m)
    /\ \A m, k \in Mods : FirstUnused(m) /\ FirstUnused(k) => m = k
<1> USE BoundAssumption
<1>1. ASSUME ~TableFull
      PROVE  \E m \in Mods : FirstUnused(m)
  <2> DEFINE S == {m \in Mods : g_mod[m] = Unused}
  <2>1. S # {} /\ S \in SUBSET Nat
    BY <1>1 DEF TableFull, Mods
  <2>2. PICK m \in S : \A k \in S : m <= k
    BY <2>1, Least
  <2>3. ASSUME NEW k \in 1 .. m - 1
        PROVE  g_mod[k] # Unused
    BY <2>2 DEF Mods
  <2> QED
    BY <2>2, <2>3 DEF FirstUnused
<1>2. ASSUME NEW m \in Mods, NEW k \in Mods, FirstUnused(m), FirstUnused(k)
      PROVE  m = k
  <2>1. ~(m < k) /\ ~(k < m)
    BY <1>2 DEF FirstUnused, Mods
  <2> QED
    BY <2>1 DEF Mods
<1> QED
  BY <1>1, <1>2

\* What registering u, with or without a policy, may make of a table: nothing, but
\* for the slot of u, which keeps its last sample, and its pruning unless it is due.
SlotOf(new, m, u) ==
    \/ new[m] = g_mod[m]
    \/ /\ new[m].uuid = u /\ new[m] # Unused
       /\ new[m].last_ts = g_mod[m].last_ts
       /\ \/ g_mod[m].uuid = u
          \/ g_mod[m] = Unused /\ ~find_mod(u) /\ new[m].last_ts = None
       /\ \/ new[m].next_prune = 0
          \/ /\ g_mod[m].uuid = u
             /\ new[m].keep = g_mod[m].keep /\ new[m].missed = g_mod[m].missed
             /\ new[m].next_prune = g_mod[m].next_prune

\* mf_history_register finds or makes the slot of u, and its INSERT or not.
LEMMA PlacedFacts ==
    ASSUME TableOK(g_mod), NEW u \in Uuids, NEW works \in BOOLEAN
    PROVE  LET new == Placed(u, works)
           IN  /\ TableOK(new)
               /\ \A m \in Mods : SlotOf(new, m, u)
               /\ CanRegister(u) => \E m \in Mods : new[m].uuid = u
               /\ \A m \in Mods : new[m].uuid = u => new[m].ins = works
<1> DEFINE new == Placed(u, works)
           fresh == [uuid |-> u, last_ts |-> None, keep |-> KeepDefault, next_prune |-> 0,
                     ins |-> works, missed |-> FALSE]
<1>a. fresh \in Mod /\ fresh.uuid = u /\ fresh.last_ts = None /\ fresh.next_prune = 0
      /\ fresh.ins = works /\ fresh # Unused
  BY AbsentAssumption DEF Mod, Unused
<1>1. CASE find_mod(u)
  <2>1. ASSUME NEW m \in Mods, g_mod[m].uuid = u
        PROVE  /\ new[m] \in Mod /\ new[m].uuid = u /\ new[m].ins = works
               /\ new[m].last_ts = g_mod[m].last_ts
               /\ \/ new[m].next_prune = 0
                  \/ /\ new[m].keep = g_mod[m].keep /\ new[m].missed = g_mod[m].missed
                     /\ new[m].next_prune = g_mod[m].next_prune
    <3>1. g_mod[m] \in Mod
      BY <2>1, SlotCases
    <3> DEFINE next == IF works THEN 0 ELSE g_mod[m].next_prune
               mark == IF works THEN FALSE ELSE g_mod[m].missed
    <3>2. new[m] = [g_mod[m] EXCEPT !.ins = works, !.next_prune = next, !.missed = mark]
      BY <1>1, <2>1 DEF Placed, Holds
    <3>3. g_mod[m].uuid \in Uuids /\ g_mod[m].last_ts \in Times \union {None}
          /\ g_mod[m].keep \in Keeps \union {KeepDefault}
          /\ g_mod[m].next_prune \in Nat /\ g_mod[m].missed \in BOOLEAN
      BY <3>1 DEF Mod
    <3>4. next \in Nat /\ mark \in BOOLEAN
          /\ (next = 0 \/ (next = g_mod[m].next_prune /\ mark = g_mod[m].missed))
      BY <3>3
    <3> HIDE DEF new, next, mark
    <3>5. new[m] = [uuid |-> g_mod[m].uuid, last_ts |-> g_mod[m].last_ts,
                    keep |-> g_mod[m].keep, next_prune |-> next, ins |-> works,
                    missed |-> mark]
      BY <3>1, <3>2, Zenon DEF Mod
    <3>6. new[m] \in Mod
      BY <3>3, <3>4, <3>5 DEF Mod
    <3> QED
      BY <2>1, <3>4, <3>5, <3>6
  <2>2. ASSUME NEW m \in Mods, g_mod[m].uuid # u
        PROVE  new[m] = g_mod[m]
    BY <1>1, <2>2 DEF Placed, Holds
  <2>3. \A m \in Mods : new[m] \in Mod \union {Unused} /\ new[m].uuid = g_mod[m].uuid
    BY <2>1, <2>2 DEF TableOK
  <2>4. new = [m \in Mods |-> new[m]]
    BY <1>1 DEF Placed
  <2>5. new \in [Mods -> Mod \union {Unused}]
    BY <2>3, <2>4
  <2>6. TableOK(new)
    BY <2>3, <2>5, SlotsChange
  <2>7. \E m \in Mods : new[m].uuid = u
    BY <1>1, <2>1 DEF find_mod, Holds
  <2>8. \A m \in Mods : new[m].uuid = u => new[m] # Unused
    BY AbsentAssumption DEF Unused
  <2> HIDE DEF new
  <2>9. \A m \in Mods : SlotOf(new, m, u)
    BY <2>1, <2>2, <2>8 DEF SlotOf
  <2>10. \A m \in Mods : new[m].uuid = u => new[m].ins = works
    BY <2>1, <2>3
  <2> QED
    BY <2>6, <2>7, <2>9, <2>10 DEF new
<1>2. CASE ~find_mod(u)
  <2>1. ASSUME NEW m \in Mods, FirstUnused(m)
        PROVE  new[m] = fresh /\ g_mod[m] = Unused
    BY <1>2, <2>1 DEF Placed, FirstUnused
  <2>2. ASSUME NEW m \in Mods, ~FirstUnused(m)
        PROVE  new[m] = g_mod[m]
    BY <1>2, <2>2 DEF Placed
  <2>3. new = [m \in Mods |-> new[m]]
    BY <1>2 DEF Placed
  <2> HIDE DEF new, fresh
  <2>4. new \in [Mods -> Mod \union {Unused}]
    BY <1>a, <2>1, <2>2, <2>3 DEF TableOK
  <2>5. \A m \in Mods : g_mod[m].uuid # u
    BY <1>2 DEF find_mod, Holds
  <2>6. ASSUME NEW m \in Mods, NEW k \in Mods, new[m].uuid = new[k].uuid, new[m] # Unused
        PROVE  m = k
    <3>1. CASE FirstUnused(m) /\ FirstUnused(k)
      BY <3>1, FirstUnusedExists
    <3>2. CASE FirstUnused(m) /\ ~FirstUnused(k)
      BY <1>a, <2>1, <2>2, <2>5, <2>6, <3>2
    <3>3. CASE ~FirstUnused(m) /\ FirstUnused(k)
      BY <1>a, <2>1, <2>2, <2>5, <2>6, <3>3
    <3>4. CASE ~FirstUnused(m) /\ ~FirstUnused(k)
      BY <2>2, <2>6, <3>4 DEF TableOK
    <3> QED
      BY <3>1, <3>2, <3>3, <3>4
  <2>7. TableOK(new)
    BY <2>4, <2>6 DEF TableOK
  <2>8. CanRegister(u) => \E m \in Mods : new[m].uuid = u
    BY <1>2, <1>a, <2>1, FirstUnusedExists DEF CanRegister
  <2>9. Unused.last_ts = None
    BY DEF Unused
  <2>10. \A m \in Mods : SlotOf(new, m, u)
    BY <1>2, <1>a, <2>1, <2>2, <2>9 DEF SlotOf
  <2>11. \A m \in Mods : new[m].uuid = u => new[m].ins = works
    BY <1>a, <2>1, <2>2, <2>5
  <2> QED
    BY <2>7, <2>8, <2>10, <2>11 DEF new
<1> QED
  BY <1>1, <1>2

\* mf_history_register: when it works, u has a slot with its INSERT.
LEMMA RegisterFacts ==
    ASSUME TableOK(g_mod), retired \in SUBSET Uuids, NEW u \in Uuids,
           NEW r \in mf_history_register(u)
    PROVE  /\ TableOK(r.mods)
           /\ \A m \in Mods : SlotOf(r.mods, m, u)
           /\ r.retired \in SUBSET Uuids
           /\ r.ok => \E m \in Mods : r.mods[m].uuid = u /\ r.mods[m].ins
<1>1. CASE \E marks \in {retired \ {u}, retired} :
             CanRegister(u) /\ r = [mods |-> Placed(u, TRUE), retired |-> marks, ok |-> TRUE]
  <2>1. r.mods = Placed(u, TRUE) /\ r.retired \in SUBSET Uuids /\ CanRegister(u)
    BY <1>1
  <2>2. /\ TableOK(Placed(u, TRUE))
        /\ \A m \in Mods : SlotOf(Placed(u, TRUE), m, u)
        /\ CanRegister(u) => \E m \in Mods : Placed(u, TRUE)[m].uuid = u
        /\ \A m \in Mods : Placed(u, TRUE)[m].uuid = u => Placed(u, TRUE)[m].ins = TRUE
    BY PlacedFacts, Zenon
  <2> QED
    BY <2>1, <2>2
<1>2. CASE \E mods \in {g_mod, Placed(u, FALSE)} :
             r = [mods |-> mods, retired |-> retired, ok |-> FALSE]
  <2>1. PICK mods \in {g_mod, Placed(u, FALSE)} :
          r = [mods |-> mods, retired |-> retired, ok |-> FALSE]
    BY <1>2
  <2>2. r.mods = mods /\ r.retired = retired /\ r.ok = FALSE
    BY <2>1
  <2>3. TableOK(mods) /\ \A m \in Mods : SlotOf(mods, m, u)
    <3>1. CASE mods = g_mod
      BY <3>1 DEF SlotOf
    <3>2. CASE mods = Placed(u, FALSE)
      <4>1. TableOK(Placed(u, FALSE)) /\ \A m \in Mods : SlotOf(Placed(u, FALSE), m, u)
        BY PlacedFacts, Zenon
      <4> QED
        BY <3>2, <4>1
    <3> QED
      BY <3>1, <3>2
  <2> QED
    BY <2>2, <2>3
<1> QED
  BY <1>1, <1>2 DEF mf_history_register

\* mf_history_enqueue takes the time of a sample that is due.
LEMMA StampFacts ==
    ASSUME NEW mods, TableOK(mods), NEW u \in Uuids, now \in Times
    PROVE  LET new == Stamp(mods, u)
           IN  /\ TableOK(new)
               /\ \A m \in Mods : IF m \in DueMods(mods, u)
                                  THEN /\ new[m].uuid = u /\ new[m] # Unused
                                       /\ new[m].last_ts = now
                                       /\ new[m].keep = mods[m].keep
                                       /\ new[m].next_prune = mods[m].next_prune
                                       /\ new[m].ins = mods[m].ins
                                       /\ new[m].missed = mods[m].missed
                                  ELSE new[m] = mods[m]
<1> DEFINE new == Stamp(mods, u)
           Kept(m) == /\ new[m].keep = mods[m].keep
                      /\ new[m].next_prune = mods[m].next_prune
                      /\ new[m].ins = mods[m].ins
                      /\ new[m].missed = mods[m].missed
<1>1. ASSUME NEW m \in Mods, m \in DueMods(mods, u)
      PROVE  /\ new[m] \in Mod
             /\ new[m].uuid = u /\ mods[m].uuid = u /\ new[m].last_ts = now
             /\ Kept(m)
  <2>1. mods[m].uuid = u /\ mods[m] \in Mod
    BY <1>1, SlotCases DEF DueMods
  <2>2. new[m] = [mods[m] EXCEPT !.last_ts = now]
    BY <1>1 DEF Stamp
  <2>3. new[m] = [uuid |-> mods[m].uuid, last_ts |-> now, keep |-> mods[m].keep,
                  next_prune |-> mods[m].next_prune, ins |-> mods[m].ins,
                  missed |-> mods[m].missed]
    BY <2>1, <2>2, Zenon DEF Mod
  <2> HIDE DEF new
  <2>4. mods[m].keep \in Keeps \union {KeepDefault} /\ mods[m].next_prune \in Nat
        /\ mods[m].ins \in BOOLEAN /\ mods[m].missed \in BOOLEAN
    BY <2>1 DEF Mod
  <2>5. new[m] \in Mod
    BY <2>1, <2>3, <2>4 DEF Mod
  <2> QED
    BY <2>1, <2>3, <2>5
<1>2. ASSUME NEW m \in Mods, m \notin DueMods(mods, u)
      PROVE  new[m] = mods[m]
  BY <1>2 DEF Stamp
<1>3. \A m \in Mods : new[m] \in Mod \union {Unused} /\ new[m].uuid = mods[m].uuid
  BY <1>1, <1>2 DEF TableOK
<1>4. new = [m \in Mods |-> new[m]]
  BY DEF Stamp
<1>5. new \in [Mods -> Mod \union {Unused}]
  BY <1>3, <1>4
<1>6. TableOK(new)
  BY <1>3, <1>5, SlotsChange
<1>7. \A m \in Mods : new[m].uuid = u => new[m] # Unused
  BY AbsentAssumption DEF Unused
<1> HIDE DEF new
<1>8. \A m \in Mods : IF m \in DueMods(mods, u)
                      THEN /\ new[m].uuid = u /\ new[m] # Unused
                           /\ new[m].last_ts = now
                           /\ new[m].keep = mods[m].keep
                           /\ new[m].next_prune = mods[m].next_prune
                           /\ new[m].ins = mods[m].ins
                           /\ new[m].missed = mods[m].missed
                      ELSE new[m] = mods[m]
  BY <1>1, <1>2, <1>7
<1> QED
  BY <1>6, <1>8 DEF new

\* The sync_columns of migrate_one: the slot of u has its INSERT.
LEMMA SyncedFacts ==
    ASSUME NEW mods, TableOK(mods), NEW u \in Uuids
    PROVE  LET new == Synced(mods, u)
           IN  /\ TableOK(new)
               /\ \A m \in Mods : IF mods[m].uuid = u
                                  THEN /\ new[m].uuid = u /\ new[m] # Unused /\ new[m].ins
                                       /\ new[m].last_ts = mods[m].last_ts
                                       /\ new[m].keep = mods[m].keep
                                       /\ new[m].next_prune = mods[m].next_prune
                                       /\ new[m].missed = mods[m].missed
                                  ELSE new[m] = mods[m]
<1> DEFINE new == Synced(mods, u)
           Kept(m) == /\ new[m].last_ts = mods[m].last_ts
                      /\ new[m].keep = mods[m].keep
                      /\ new[m].next_prune = mods[m].next_prune
                      /\ new[m].missed = mods[m].missed
<1>1. ASSUME NEW m \in Mods, mods[m].uuid = u
      PROVE  new[m] \in Mod /\ new[m].uuid = u /\ new[m].ins /\ Kept(m)
  <2>1. mods[m] \in Mod
    BY <1>1, SlotCases
  <2>2. new[m] = [mods[m] EXCEPT !.ins = TRUE]
    BY <1>1 DEF Synced
  <2>3. new[m] = [uuid |-> mods[m].uuid, last_ts |-> mods[m].last_ts, keep |-> mods[m].keep,
                  next_prune |-> mods[m].next_prune, ins |-> TRUE,
                  missed |-> mods[m].missed]
    BY <2>1, <2>2, Zenon DEF Mod
  <2> HIDE DEF new
  <2>4. mods[m].keep \in Keeps \union {KeepDefault} /\ mods[m].next_prune \in Nat
        /\ mods[m].last_ts \in Times \union {None} /\ mods[m].missed \in BOOLEAN
    BY <2>1 DEF Mod
  <2>5. new[m] \in Mod
    BY <1>1, <2>3, <2>4 DEF Mod
  <2> QED
    BY <1>1, <2>3, <2>5
<1>2. ASSUME NEW m \in Mods, mods[m].uuid # u
      PROVE  new[m] = mods[m]
  BY <1>2 DEF Synced
<1>3. \A m \in Mods : new[m] \in Mod \union {Unused} /\ new[m].uuid = mods[m].uuid
  BY <1>1, <1>2 DEF TableOK
<1>4. new = [m \in Mods |-> new[m]]
  BY DEF Synced
<1>5. new \in [Mods -> Mod \union {Unused}]
  BY <1>3, <1>4
<1>6. TableOK(new)
  BY <1>3, <1>5, SlotsChange
<1>7. \A m \in Mods : new[m].uuid = u => new[m] # Unused
  BY AbsentAssumption DEF Unused
<1> HIDE DEF new
<1>8. \A m \in Mods : IF mods[m].uuid = u
                      THEN /\ new[m].uuid = u /\ new[m] # Unused /\ new[m].ins
                           /\ new[m].last_ts = mods[m].last_ts
                           /\ new[m].keep = mods[m].keep
                           /\ new[m].next_prune = mods[m].next_prune
                           /\ new[m].missed = mods[m].missed
                      ELSE new[m] = mods[m]
  BY <1>1, <1>2, <1>7
<1> QED
  BY <1>6, <1>8 DEF new

----------------------------------------------------------------------------
(* The ring. *)

\* What TypeOK says of the ring.
RingOK(r) == r \in Seq(Sample) /\ Len(r) <= RingCap

\* The first d samples have left the ring.
Slid(r, d) ==
    /\ d \in 0 .. Len(ring)
    /\ Len(r) = Len(ring) - d
    /\ \A i \in 1 .. Len(r) : r[i] = ring[i + d]

\* The same, and a sample has been added.
Grown(r, d, s) ==
    /\ d \in 0 .. Len(ring)
    /\ Len(r) = Len(ring) - d + 1
    /\ \A i \in 1 .. Len(ring) - d : r[i] = ring[i + d]
    /\ r[Len(r)] = s

\* mf_history_enqueue: the sample is not due, or it is the last of the ring.
LEMMA QueueFacts ==
    ASSUME RingOK(ring), NEW mods, NEW u \in Uuids, now \in Times
    PROVE  LET r == Queue(mods, u)
           IN  /\ RingOK(r)
               /\ \/ DueMods(mods, u) = {} /\ r = ring
                  \/ /\ DueMods(mods, u) # {}
                     /\ \E d \in {0, 1} : Grown(r, d, [uuid |-> u, ts |-> now])
<1> DEFINE s == [uuid |-> u, ts |-> now]
           r == Queue(mods, u)
<1>1. s \in Sample /\ RingCap \in Nat \ {0}
  BY BoundAssumption DEF Sample
<1>2. ring \in Seq(Sample) /\ Len(ring) \in Nat /\ Len(ring) <= RingCap
  BY DEF RingOK
<1> HIDE DEF s
<1>3. CASE DueMods(mods, u) = {}
  BY <1>3 DEF Queue
<1>4. CASE DueMods(mods, u) # {} /\ Len(ring) = RingCap
  <2>1. r = Append(Tail(ring), s)
    BY <1>4 DEF Queue, Push, s
  <2>2. Tail(ring) \in Seq(Sample) /\ Len(Tail(ring)) = Len(ring) - 1
        /\ \A i \in 1 .. Len(ring) - 1 : Tail(ring)[i] = ring[i + 1]
    BY <1>1, <1>2, <1>4, HeadTailProperties
  <2>3. r \in Seq(Sample) /\ Len(r) = Len(ring) /\ r[Len(r)] = s
        /\ \A i \in 1 .. Len(ring) - 1 : r[i] = Tail(ring)[i]
    BY <1>1, <1>2, <2>1, <2>2
  <2> HIDE DEF r
  <2>4. Grown(r, 1, s)
    BY <1>1, <1>2, <1>4, <2>2, <2>3 DEF Grown
  <2>5. RingOK(r)
    BY <1>2, <2>3 DEF RingOK
  <2> QED
    BY <1>4, <2>4, <2>5 DEF r, s
<1>5. CASE DueMods(mods, u) # {} /\ Len(ring) # RingCap
  <2>1. r = Append(ring, s)
    BY <1>5 DEF Queue, Push, s
  <2>2. r \in Seq(Sample) /\ Len(r) = Len(ring) + 1 /\ r[Len(r)] = s
        /\ \A i \in 1 .. Len(ring) : r[i] = ring[i]
    BY <1>1, <1>2, <2>1
  <2> HIDE DEF r
  <2>3. Grown(r, 0, s)
    BY <1>2, <2>2 DEF Grown
  <2>4. RingOK(r)
    BY <1>1, <1>2, <1>5, <2>2 DEF RingOK
  <2> QED
    BY <1>5, <2>3, <2>4 DEF r, s
<1> QED
  BY <1>3, <1>4, <1>5

\* mf_history_flush_slice and mf_history_retire: samples leave the ring,
LEMMA DrainFacts ==
    ASSUME RingOK(ring), NEW n \in Nat
    PROVE  /\ RingOK(RingAfterFlush(n))
           /\ Slid(RingAfterFlush(n), Flushed(n))
           /\ Flushed(n) = IF n < Len(ring) THEN n ELSE Len(ring)
<1> DEFINE r == RingAfterFlush(n)
           d == Flushed(n)
<1>1. ring \in Seq(Sample) /\ Len(ring) \in Nat /\ Len(ring) <= RingCap /\ RingCap \in Nat
  BY BoundAssumption DEF RingOK
<1>2. d = IF n < Len(ring) THEN n ELSE Len(ring)
  BY DEF Flushed, Lesser
<1>3. d \in 0 .. Len(ring)
  BY <1>1, <1>2
<1> HIDE DEF d
<1>4. r = SubSeq(ring, d + 1, Len(ring))
  BY DEF RingAfterFlush, d
<1>5. r \in Seq(Sample) /\ Len(r) = Len(ring) - d
      /\ \A i \in 1 .. Len(ring) - d : r[i] = ring[i + d]
  BY <1>1, <1>3, <1>4
<1> HIDE DEF r
<1>6. RingOK(r)
  BY <1>1, <1>3, <1>5 DEF RingOK
<1>7. Slid(r, d)
  BY <1>3, <1>5 DEF Slid
<1> QED
  BY <1>2, <1>6, <1>7 DEF r, d

\* for the files of their modules, but for those that are lost.
LEMMA FlushFacts ==
    ASSUME RingOK(ring), rows \in [Uuids -> SUBSET Times], NEW n \in Nat, NEW lost
    PROVE  /\ RowsAfterFlush(n, lost) \in [Uuids -> SUBSET Times]
           /\ \A u \in Uuids :
                /\ rows[u] \in SUBSET RowsAfterFlush(n, lost)[u]
                /\ \A t \in RowsAfterFlush(n, lost)[u] :
                     \/ t \in rows[u]
                     \/ \E i \in 1 .. Flushed(n) : ring[i].uuid = u /\ ring[i].ts = t
<1> DEFINE d == Flushed(n)
<1>1. ring \in Seq(Sample) /\ Len(ring) \in Nat /\ d \in 0 .. Len(ring)
  BY DrainFacts DEF RingOK, Slid
<1> HIDE DEF d
<1>2. \A i \in 1 .. d : ring[i] \in Sample /\ ring[i].ts \in Times
  <2> TAKE i \in 1 .. d
  <2>1. i \in 1 .. Len(ring)
    BY <1>1
  <2>2. ring[i] \in Sample
    BY <1>1, <2>1, ElementOfSeq
  <2> QED
    BY <2>2 DEF Sample
<1>3. ASSUME NEW u \in Uuids
      PROVE  /\ RowsAfterFlush(n, lost)[u] \in SUBSET Times
             /\ rows[u] \in SUBSET RowsAfterFlush(n, lost)[u]
             /\ \A t \in RowsAfterFlush(n, lost)[u] :
                  \/ t \in rows[u]
                  \/ \E i \in 1 .. d : ring[i].uuid = u /\ ring[i].ts = t
  <2>1. RowsAfterFlush(n, lost)[u] =
          rows[u] \union {ring[i].ts : i \in {k \in (1 .. d) \ lost :
                                               ring[k].uuid = u /\ CanInsert(u)}}
    BY DEF RowsAfterFlush, d
  <2> QED
    BY <1>2, <2>1
<1>4. RowsAfterFlush(n, lost) = [u \in Uuids |-> RowsAfterFlush(n, lost)[u]]
  BY DEF RowsAfterFlush
<1>5. RowsAfterFlush(n, lost) \in [Uuids -> SUBSET Times]
  BY <1>3, <1>4
<1> QED
  BY <1>3, <1>5 DEF d

----------------------------------------------------------------------------
(* Types. *)

\* The table after mf_history_register and mf_history_set_retention.
LEMMA EnrolFacts ==
    ASSUME TableOK(g_mod), retired \in SUBSET Uuids, NEW u \in Uuids, NEW k \in Keeps,
           NEW r \in mf_history_register(u)
    PROVE  LET new == SetKeep(r.mods, u, k)
           IN  /\ TableOK(new)
               /\ \A m \in Mods : SlotOf(new, m, u)
               /\ r.ok => \E m \in Mods : new[m].uuid = u /\ new[m].ins
<1> DEFINE mid == r.mods
           new == SetKeep(mid, u, k)
<1>1. /\ TableOK(mid)
      /\ \A m \in Mods : SlotOf(mid, m, u)
      /\ r.ok => \E m \in Mods : mid[m].uuid = u /\ mid[m].ins
  BY RegisterFacts
<1> HIDE DEF mid
<1>2. /\ TableOK(new)
      /\ \A m \in Mods : IF mid[m].uuid = u
                         THEN /\ new[m].uuid = u /\ new[m] # Unused
                              /\ new[m].last_ts = mid[m].last_ts
                              /\ new[m].ins = mid[m].ins
                              /\ new[m].keep = k /\ new[m].next_prune = 0
                         ELSE new[m] = mid[m]
  BY <1>1, SetKeepFacts
<1> HIDE DEF new
<1>3. ASSUME NEW m \in Mods
      PROVE  SlotOf(new, m, u)
  <2>1. SlotOf(mid, m, u)
    BY <1>1
  <2>2. CASE mid[m].uuid = u
    BY <1>2, <2>1, <2>2 DEF SlotOf
  <2>3. CASE mid[m].uuid # u
    BY <1>2, <2>1, <2>3 DEF SlotOf
  <2> QED
    BY <2>2, <2>3
<1>4. r.ok => \E m \in Mods : new[m].uuid = u /\ new[m].ins
  BY <1>1, <1>2
<1> QED
  BY <1>2, <1>3, <1>4 DEF new, mid

\* The parts of TypeOK that steps disturb one at a time.
TypeRest ==
    /\ copied \in [Uuids -> 0 .. Often]
    /\ dev \in [Uuids -> {"off", "live", "dying"}]
    /\ retired \in SUBSET Uuids /\ flagged \in SUBSET Uuids
    /\ refused \in SUBSET Uuids /\ unseen \in SUBSET Uuids
    /\ conf \in SUBSET Uuids /\ todo \in SUBSET Uuids
    /\ pc \in Phases
    /\ at \in 1 .. MaxModules + 1 /\ left \in 0 .. PruneRows
    /\ now \in Times
TypeFlags ==
    /\ shared \in BOOLEAN /\ failed \in BOOLEAN
    /\ cur # None => cur.uuid \in Uuids /\ cur.was_registered \in BOOLEAN
                     /\ cur = [uuid |-> cur.uuid, was_registered |-> cur.was_registered]

TypeInv ==
    /\ TableOK(g_mod) /\ RingOK(ring) /\ rows \in [Uuids -> SUBSET Times]
    /\ TypeRest /\ TypeFlags

\* The type invariant in parts, one for each variable or two.
LEMMA TypeParts == TypeOK <=> TypeInv
<1>1. ASSUME TypeOK
      PROVE  TypeFlags
  <2>1. shared \in BOOLEAN /\ failed \in BOOLEAN
    BY <1>1, Zenon DEF TypeOK
  <2>2. ASSUME cur # None
        PROVE  /\ cur.uuid \in Uuids /\ cur.was_registered \in BOOLEAN
               /\ cur = [uuid |-> cur.uuid, was_registered |-> cur.was_registered]
    <3>1. cur \in [uuid : Uuids, was_registered : BOOLEAN]
      BY <1>1, <2>2 DEF TypeOK
    <3> QED
      BY <3>1
  <2> QED
    BY <2>1, <2>2 DEF TypeFlags
<1>2. ASSUME TypeFlags
      PROVE  /\ shared \in BOOLEAN /\ failed \in BOOLEAN
             /\ cur \in [uuid : Uuids, was_registered : BOOLEAN] \union {None}
  <2>1. shared \in BOOLEAN /\ failed \in BOOLEAN
    BY <1>2, Zenon DEF TypeFlags
  <2>2. ASSUME cur # None
        PROVE  cur \in [uuid : Uuids, was_registered : BOOLEAN]
    <3>1. cur.uuid \in Uuids /\ cur.was_registered \in BOOLEAN
          /\ cur = [uuid |-> cur.uuid, was_registered |-> cur.was_registered]
      BY <1>2, <2>2, Zenon DEF TypeFlags
    <3> DEFINE a == cur.uuid
               b == cur.was_registered
    <3>2. a \in Uuids /\ b \in BOOLEAN /\ cur = [uuid |-> a, was_registered |-> b]
      BY <3>1
    <3> HIDE DEF a, b
    <3> QED
      BY <3>2, Zenon
  <2> QED
    BY <2>1, <2>2, Zenon
<1> QED
  BY <1>1, <1>2 DEF TypeOK, TypeInv, TableOK, RingOK, TypeRest

\* Opening a module keeps the types, whether it succeeds or fails.
LEMMA OpenTypes ==
    ASSUME TypeInv, NEW u \in Uuids, NEW k \in Keeps, OpenModule(u, k) \/ OpenFails(u, k)
    PROVE  /\ TableOK(g_mod') /\ RingOK(ring')
           /\ retired' \in SUBSET Uuids /\ refused' \in SUBSET Uuids
           /\ dev' \in [Uuids -> {"off", "live", "dying"}]
           /\ UNCHANGED <<rows, copied, flagged, shared, failed, cur, at, left, now, unseen>>
<1>2. RingOK(ring) /\ now \in Times /\ retired \in SUBSET Uuids /\ refused \in SUBSET Uuids
      /\ dev \in [Uuids -> {"off", "live", "dying"}] /\ TableOK(g_mod)
  BY DEF TypeInv, TypeRest
<1>4. CASE OpenModule(u, k)
  <2>1. PICK r \in mf_history_register(u) :
              /\ history_register(u, r)
              /\ g_mod' = Stamp(SetKeep(r.mods, u, k), u)
              /\ ring' = Queue(SetKeep(r.mods, u, k), u)
    BY <1>4 DEF OpenModule
  <2>2. /\ dev' = [dev EXCEPT ![u] = "live"]
        /\ UNCHANGED <<rows, copied, flagged, shared, failed, cur, at, left, now, unseen>>
    BY <1>4 DEF OpenModule
  <2>3. TableOK(SetKeep(r.mods, u, k)) /\ r.retired \in SUBSET Uuids
    BY <1>2, EnrolFacts, RegisterFacts
  <2>4. TableOK(g_mod') /\ RingOK(ring')
    BY <1>2, <2>1, <2>3, StampFacts, QueueFacts
  <2> QED
    BY <1>2, <2>1, <2>2, <2>3, <2>4 DEF history_register
<1>5. CASE OpenFails(u, k)
  <2>1. PICK r \in mf_history_register(u) :
              history_register(u, r) /\ g_mod' = SetKeep(r.mods, u, k)
    BY <1>5 DEF OpenFails
  <2>2. UNCHANGED <<ring, rows, copied, flagged, shared, dev, failed, cur, at, left, now, unseen>>
    BY <1>5 DEF OpenFails
  <2>3. TableOK(SetKeep(r.mods, u, k)) /\ r.retired \in SUBSET Uuids
    BY <1>2, EnrolFacts, RegisterFacts
  <2> QED
    BY <1>2, <2>1, <2>2, <2>3 DEF history_register
<1> QED
  BY <1>4, <1>5

\* The numbers are naturals.
LEMMA Numbers ==
    ASSUME TypeInv
    PROVE  /\ now \in Nat /\ left \in Nat /\ at \in Nat
           /\ MaxModules \in Nat \ {0} /\ RingCap \in Nat \ {0} /\ PruneEvery \in Nat \ {0}
           /\ PruneRows \in Nat \ {0} /\ FlushRows \in Nat \ {0} /\ Interval \in Nat \ {0}
           /\ \A m \in Mods : g_mod[m] \in Mod =>
                 g_mod[m].keep \in Nat /\ g_mod[m].next_prune \in Nat
<1>1. /\ MaxModules \in Nat \ {0} /\ RingCap \in Nat \ {0} /\ PruneEvery \in Nat \ {0}
      /\ PruneRows \in Nat \ {0} /\ FlushRows \in Nat \ {0} /\ Interval \in Nat \ {0}
      /\ MaxTime \in Nat
  BY BoundAssumption
<1>2. now \in Nat /\ left \in Nat /\ at \in Nat
  BY <1>1 DEF TypeInv, TypeRest, Times
<1>3. \A x \in Mod : x.keep \in Nat /\ x.next_prune \in Nat
  BY KeepAssumption DEF Mod
<1> QED
  BY <1>1, <1>2, <1>3

\* mf_history_retire.
LEMMA RetireTypes ==
    ASSUME TypeInv, NEW u \in Uuids, mf_history_retire(u)
    PROVE  /\ TableOK(g_mod') /\ RingOK(ring')
           /\ retired' \in SUBSET Uuids
           /\ rows' \in [Uuids -> SUBSET Times]
<1>1. TableOK(g_mod) /\ RingOK(ring) /\ retired \in SUBSET Uuids
      /\ rows \in [Uuids -> SUBSET Times] /\ RingCap \in Nat
  BY BoundAssumption DEF TypeInv, TypeRest
<1>2. CASE ~find_mod(u)
  BY <1>1, <1>2 DEF mf_history_retire
<1>3. CASE find_mod(u)
  <2>1. /\ \E lost \in Losses(RingCap) : rows' = RowsAfterFlush(RingCap, lost)
        /\ ring' = RingAfterFlush(RingCap)
        /\ retired' = retired \union {u} \/ retired' = retired
        /\ g_mod' = CloseMod(g_mod, u)
    BY <1>3 DEF mf_history_retire
  <2> QED
    BY <1>1, <2>1, FlushFacts, DrainFacts, CloseFacts
<1> QED
  BY <1>2, <1>3

\* prune_module puts one file off.
LEMMA PostponedFacts ==
    ASSUME TypeInv, NEW m \in Mods, g_mod[m] \in Mod, NEW missed \in BOOLEAN
    PROVE  LET new == Postponed(m, missed)
           IN  /\ TableOK(new)
               /\ new[m] # Unused /\ new[m].uuid = g_mod[m].uuid
               /\ new[m].last_ts = g_mod[m].last_ts
               /\ new[m].keep = g_mod[m].keep /\ new[m].ins = g_mod[m].ins
               /\ new[m].next_prune = now + PruneEvery /\ new[m].missed = missed
               /\ \A j \in Mods : j # m => new[j] = g_mod[j]
<1> DEFINE new == Postponed(m, missed)
           next == now + PruneEvery
<1>1. TableOK(g_mod) /\ next \in Nat
  BY Numbers DEF TypeInv
<1> HIDE DEF next
<1>2. new = [g_mod EXCEPT ![m] = [@ EXCEPT !.next_prune = next, !.missed = missed]]
  BY DEF Postponed, next
<1>3. /\ new[m] = [g_mod[m] EXCEPT !.next_prune = next, !.missed = missed]
      /\ \A j \in Mods : j # m => new[j] = g_mod[j]
      /\ new = [j \in Mods |-> new[j]]
  BY <1>1, <1>2 DEF TableOK
<1> HIDE DEF new
<1>4. new[m] = [uuid |-> g_mod[m].uuid, last_ts |-> g_mod[m].last_ts,
                keep |-> g_mod[m].keep, next_prune |-> next, ins |-> g_mod[m].ins,
                missed |-> missed]
  BY <1>3, Zenon DEF Mod
<1>5. g_mod[m].uuid \in Uuids /\ g_mod[m].last_ts \in Times \union {None}
      /\ g_mod[m].keep \in Keeps \union {KeepDefault} /\ g_mod[m].ins \in BOOLEAN
  BY DEF Mod
<1>6. new[m] \in Mod /\ new[m].uuid = g_mod[m].uuid
  BY <1>1, <1>4, <1>5 DEF Mod
<1>7. \A j \in Mods : new[j] \in Mod \union {Unused} /\ new[j].uuid = g_mod[j].uuid
  BY <1>1, <1>3, <1>6 DEF TableOK
<1>8. TableOK(new)
  BY <1>1, <1>3, <1>7, SlotsChange
<1>9. new[m] # Unused
  BY <1>5, <1>6, AbsentAssumption DEF Unused
<1> QED
  BY <1>3, <1>4, <1>8, <1>9 DEF new, next

\* prune_module: what it deletes and where it leaves the table.
LEMMA PruneFacts ==
    ASSUME TypeInv, NEW m \in Mods, g_mod[m] # Unused, prune_module(m)
    PROVE  LET u == g_mod[m].uuid
           IN  /\ u \in Uuids /\ g_mod[m] \in Mod
               /\ rows' \in [Uuids -> SUBSET Times]
               /\ \A v \in Uuids : /\ rows'[v] \in SUBSET rows[v]
                                   /\ \A t \in rows[v] \ rows'[v] :
                                         v = u /\ t \in Overdue(m) /\ g_mod[m].keep > 0
               /\ left' \in 0 .. left
               /\ TableOK(g_mod')
               /\ \A j \in Mods : \/ g_mod'[j] = g_mod[j]
                                  \/ /\ j = m /\ g_mod'[j] # Unused
                                     /\ g_mod'[j].uuid = u
                                     /\ g_mod'[j].last_ts = g_mod[j].last_ts
                                     /\ g_mod'[j].keep = g_mod[j].keep
                                     /\ g_mod'[j].ins = g_mod[j].ins
                                     /\ g_mod'[j].next_prune = now + PruneEvery
                                     /\ \/ g_mod'[j].missed \/ g_mod[j].keep = 0
                                        \/ rows'[u] \intersect Overdue(m) = {}
<1> DEFINE u == g_mod[m].uuid
           gone == Gone(m)
           n == Cardinality(gone)
<1>1. u \in Uuids /\ g_mod[m] \in Mod /\ TableOK(g_mod)
  BY SlotCases DEF TypeInv
<1>2. rows \in [Uuids -> SUBSET Times] /\ left \in Nat /\ g_mod[m].keep \in Nat
  BY <1>1, Numbers DEF TypeInv
<1>3. Overdue(m) \in SUBSET rows[u] /\ Overdue(m) \in SUBSET Times
  BY <1>1, <1>2 DEF Overdue
<1>4. CASE /\ rows' = [rows EXCEPT ![u] = @ \ gone] /\ left' = left - n
           /\ g_mod' = IF g_mod[m].keep = 0 \/ n < left THEN Postponed(m, FALSE) ELSE g_mod
  <2>1. gone \in SUBSET Overdue(m) /\ n \in 0 .. left
    <3>1. CASE g_mod[m].keep = 0
      BY <1>2, <3>1, FS_EmptySet DEF Gone
    <3>2. CASE g_mod[m].keep # 0
      BY <1>2, <1>3, <3>2, OldestBound DEF Gone
    <3> QED
      BY <3>1, <3>2
  <2>2. gone # {} => g_mod[m].keep > 0
    BY <1>2 DEF Gone
  <2>3. g_mod[m].keep # 0 /\ n < left => gone = Overdue(m)
    BY <1>2, <1>3, OldestAll DEF Gone
  <2> HIDE DEF u, gone, n
  <2>4. /\ rows' \in [Uuids -> SUBSET Times]
        /\ \A v \in Uuids : /\ rows'[v] \in SUBSET rows[v]
                            /\ \A t \in rows[v] \ rows'[v] :
                                  v = u /\ t \in Overdue(m) /\ g_mod[m].keep > 0
        /\ left' \in 0 .. left
        /\ gone = Overdue(m) => rows'[u] \intersect Overdue(m) = {}
    BY <1>1, <1>2, <1>4, <2>1, <2>2
  <2>5. CASE g_mod[m].keep = 0 \/ n < left
    <3>1. g_mod' = Postponed(m, FALSE)
      BY <1>4, <2>5
    <3>2. /\ TableOK(g_mod')
          /\ g_mod'[m] # Unused /\ g_mod'[m].uuid = g_mod[m].uuid
          /\ g_mod'[m].last_ts = g_mod[m].last_ts
          /\ g_mod'[m].keep = g_mod[m].keep /\ g_mod'[m].ins = g_mod[m].ins
          /\ g_mod'[m].next_prune = now + PruneEvery
          /\ \A j \in Mods : j # m => g_mod'[j] = g_mod[j]
      BY <1>1, <3>1, PostponedFacts
    <3>3. g_mod[m].keep = 0 \/ rows'[u] \intersect Overdue(m) = {}
      BY <2>3, <2>4, <2>5
    <3> QED
      BY <1>1, <2>4, <3>2, <3>3 DEF u
  <2>6. CASE ~(g_mod[m].keep = 0 \/ n < left)
    BY <1>1, <1>4, <2>4, <2>6 DEF u
  <2> QED
    BY <2>5, <2>6
<1>5. CASE g_mod' \in {g_mod, Postponed(m, TRUE)} /\ UNCHANGED <<rows, left>>
  <2>1. \A v \in Uuids : rows'[v] = rows[v]
    BY <1>5
  <2>2. CASE g_mod' = g_mod
    BY <1>1, <1>2, <1>5, <2>1, <2>2
  <2>3. CASE g_mod' = Postponed(m, TRUE)
    <3>1. /\ TableOK(g_mod')
          /\ g_mod'[m] # Unused /\ g_mod'[m].uuid = g_mod[m].uuid
          /\ g_mod'[m].last_ts = g_mod[m].last_ts
          /\ g_mod'[m].keep = g_mod[m].keep /\ g_mod'[m].ins = g_mod[m].ins
          /\ g_mod'[m].next_prune = now + PruneEvery /\ g_mod'[m].missed = TRUE
          /\ \A j \in Mods : j # m => g_mod'[j] = g_mod[j]
      BY <1>1, <2>3, PostponedFacts
    <3> QED
      BY <1>1, <1>2, <1>5, <2>1, <3>1
  <2> QED
    BY <1>5, <2>2, <2>3
<1> QED
  BY <1>4, <1>5 DEF prune_module, PutOff

\* What migrate_one finds or makes of the slot of u, and what it goes on with.
LEMMA MigrateOneFacts ==
    ASSUME TypeInv, NEW u \in Uuids, migrate_one(u)
    PROVE  /\ TableOK(g_mod')
           /\ \A m \in Mods : SlotOf(g_mod', m, u)
           /\ find_mod(u) =>
                \A m \in Mods : g_mod[m].uuid = u /\ g_mod[m].ins =>
                                    g_mod'[m].uuid = u /\ g_mod'[m].ins
           /\ retired' \in SUBSET Uuids /\ unseen' \in SUBSET Uuids /\ failed' \in BOOLEAN
           /\ cur' = None \/ cur' = [uuid |-> u, was_registered |-> find_mod(u)]
           /\ u \in todo /\ todo' = todo \ {u} /\ pc = "migrate" /\ cur = None
           /\ UNCHANGED <<ring, rows, copied, flagged, shared, dev, conf, pc, at, left, now,
                          refused>>
<1>1. /\ u \in todo /\ todo' = todo \ {u} /\ pc = "migrate" /\ cur = None
      /\ UNCHANGED <<ring, rows, copied, flagged, shared, dev, conf, pc, at, left, now,
                     refused>>
  BY DEF migrate_one
<1>2. TableOK(g_mod) /\ retired \in SUBSET Uuids /\ unseen \in SUBSET Uuids
      /\ failed \in BOOLEAN
  BY DEF TypeInv, TypeRest, TypeFlags
<1>3. PICK r \in Opened(u) :
         /\ retired' = r.retired
         /\ g_mod' = r.mods \/ g_mod' = Synced(r.mods, u)
         /\ cur' = None \/ cur' = [uuid |-> u, was_registered |-> find_mod(u)]
         /\ unseen' = unseen \/ unseen' = unseen \union {u}
         /\ failed' = TRUE \/ failed' = failed
  BY DEF migrate_one
<1>4. /\ TableOK(r.mods) /\ r.retired \in SUBSET Uuids
      /\ \A m \in Mods : SlotOf(r.mods, m, u)
      /\ find_mod(u) => r.mods = g_mod
  <2>1. CASE find_mod(u)
    <3>1. r = [mods |-> g_mod, retired |-> retired, ok |-> TRUE]
      BY <2>1 DEF Opened
    <3>2. r.mods = g_mod /\ r.retired = retired
      BY <3>1
    <3> QED
      BY <1>2, <3>2 DEF SlotOf
  <2>2. CASE ~find_mod(u)
    BY <1>2, <2>2, RegisterFacts DEF Opened
  <2> QED
    BY <2>1, <2>2
<1> DEFINE new == Synced(r.mods, u)
<1>5. /\ TableOK(new)
      /\ \A m \in Mods : IF r.mods[m].uuid = u
                         THEN /\ new[m].uuid = u /\ new[m] # Unused /\ new[m].ins
                              /\ new[m].last_ts = r.mods[m].last_ts
                              /\ new[m].keep = r.mods[m].keep
                              /\ new[m].next_prune = r.mods[m].next_prune
                              /\ new[m].missed = r.mods[m].missed
                         ELSE new[m] = r.mods[m]
  BY <1>4, SyncedFacts
<1> HIDE DEF new
<1>6. ASSUME NEW m \in Mods
      PROVE  SlotOf(new, m, u)
  <2>1. SlotOf(r.mods, m, u)
    BY <1>4
  <2>2. CASE r.mods[m].uuid = u
    BY <1>5, <2>1, <2>2 DEF SlotOf
  <2>3. CASE r.mods[m].uuid # u
    BY <1>5, <2>1, <2>3 DEF SlotOf
  <2> QED
    BY <2>2, <2>3
<1>7. TableOK(g_mod') /\ \A m \in Mods : SlotOf(g_mod', m, u)
  <2>1. CASE g_mod' = r.mods
    BY <1>4, <2>1 DEF SlotOf
  <2>2. CASE g_mod' = new
    BY <1>5, <1>6, <2>2 DEF SlotOf
  <2> QED
    BY <1>3, <2>1, <2>2 DEF new
<1>8. ASSUME find_mod(u), NEW m \in Mods, g_mod[m].uuid = u, g_mod[m].ins
      PROVE  g_mod'[m].uuid = u /\ g_mod'[m].ins
  <2>1. r.mods[m] = g_mod[m]
    BY <1>4, <1>8
  <2> QED
    BY <1>3, <1>5, <1>8, <2>1 DEF new
<1>9. retired' \in SUBSET Uuids /\ unseen' \in SUBSET Uuids
  BY <1>2, <1>3, <1>4
<1>10. failed' \in BOOLEAN
  BY <1>2, <1>3, Zenon
<1> QED
  BY <1>1, <1>3, <1>7, <1>8, <1>9, <1>10

\* The transaction of mf_history_migrate: rows are added to the file of one module.
LEMMA CommitFacts ==
    ASSUME TypeInv, MigrateCommit
    PROVE  /\ cur.uuid \in Uuids /\ TableOK(g_mod')
           /\ rows' \in [Uuids -> SUBSET Times]
           /\ \A u \in Uuids : rows[u] \in SUBSET rows'[u]
           /\ copied' \in [Uuids -> 0 .. Often]
           /\ flagged' \in SUBSET Uuids /\ retired' \in SUBSET Uuids /\ unseen' \in SUBSET Uuids
           /\ cur # None /\ cur' = None
           /\ \/ UNCHANGED g_mod
              \/ ~cur.was_registered /\ g_mod' = CloseMod(g_mod, cur.uuid)
           /\ UNCHANGED <<ring, shared, dev, conf, pc, todo, failed, at, left, now, refused>>
<1> DEFINE u == cur.uuid
<1>1. /\ cur # None /\ cur' = None
      /\ UNCHANGED <<ring, shared, dev, conf, pc, todo, failed, at, left, now, refused>>
  BY DEF MigrateCommit
<1>2. /\ u \in Uuids /\ TableOK(g_mod) /\ rows \in [Uuids -> SUBSET Times]
      /\ copied \in [Uuids -> 0 .. Often]
      /\ flagged \in SUBSET Uuids /\ retired \in SUBSET Uuids /\ unseen \in SUBSET Uuids
  BY <1>1 DEF TypeInv, TypeRest, TypeFlags
<1>3. OldRows[u] \in SUBSET Times
  BY <1>2, OldAssumption
<1>4. PICK got \in Copies :
         /\ rows' = [rows EXCEPT ![u] = @ \union got]
         /\ copied' = IF got = OldRows[u] THEN [copied EXCEPT ![u] = Lesser(@ + 1, Often)]
                      ELSE copied
         /\ flagged' \in Marked(flagged, u)
         /\ unseen' = IF got = OldRows[u] /\ u \in flagged' THEN unseen ELSE unseen \union {u}
         /\ IF KeepOpen THEN UNCHANGED <<retired, g_mod>>
            ELSE retired' \in Marked(retired, u) /\ g_mod' = CloseMod(g_mod, u)
  BY DEF MigrateCommit
<1> HIDE DEF u
<1>5. got \in SUBSET Times
  <2>1. \A n : Oldest(n, OldRows[u]) \in SUBSET OldRows[u]
    BY DEF Oldest
  <2> QED
    BY <1>3, <2>1 DEF Copies, u
<1>6. /\ rows' \in [Uuids -> SUBSET Times]
      /\ \A v \in Uuids : rows[v] \in SUBSET rows'[v]
  BY <1>2, <1>4, <1>5
<1>7. copied' \in [Uuids -> 0 .. Often]
  <2>1. Lesser(copied[u] + 1, Often) \in 0 .. Often
    BY <1>2 DEF Lesser, Often
  <2> QED
    BY <1>2, <1>4, <2>1
<1>8. flagged' \in SUBSET Uuids /\ unseen' \in SUBSET Uuids
  BY <1>2, <1>4 DEF Marked
<1>9. retired' \in SUBSET Uuids /\ TableOK(g_mod')
      /\ (UNCHANGED g_mod \/ (~cur.was_registered /\ g_mod' = CloseMod(g_mod, u)))
  <2>1. CASE KeepOpen
    BY <1>2, <1>4, <2>1
  <2>2. CASE ~KeepOpen
    BY <1>2, <1>4, <2>2, CloseFacts DEF Marked, KeepOpen
  <2> QED
    BY <2>1, <2>2
<1> QED
  BY <1>1, <1>2, <1>6, <1>7, <1>8, <1>9 DEF u

\* Every step keeps the types.
LEMMA TypeStep == TypeInv /\ [Next]_vars => TypeInv'
<1> SUFFICES ASSUME TypeInv, [Next]_vars
             PROVE  TypeInv'
  OBVIOUS
<1> DEFINE Data == TableOK(g_mod') /\ RingOK(ring') /\ rows' \in [Uuids -> SUBSET Times]
<1>0. /\ TableOK(g_mod) /\ RingOK(ring) /\ rows \in [Uuids -> SUBSET Times]
      /\ TypeRest /\ TypeFlags
  BY DEF TypeInv
<1>a. ASSUME Data, TypeRest', TypeFlags'
      PROVE  TypeInv'
  BY <1>a DEF TypeInv, TableOK, RingOK
<1>b. ASSUME UNCHANGED <<g_mod, ring, rows>>
      PROVE  Data
  BY <1>0, <1>b
<1>c. ASSUME UNCHANGED <<shared, failed, cur>>
      PROVE  TypeFlags'
  <2>1. TypeFlags
    BY <1>0
  <2> QED
    BY <1>c, <2>1, Zenon DEF TypeFlags
<1> HIDE DEF Data
<1>1. ASSUME NEW u \in Uuids, NEW k \in Keeps, mf_devices_add(u, k)
      PROVE  TypeInv'
  <2>1. OpenModule(u, k) \/ OpenFails(u, k)
    BY <1>1 DEF mf_devices_add
  <2>2. conf' \in SUBSET Uuids /\ UNCHANGED <<pc, todo>>
    BY <1>0, <1>1 DEF mf_devices_add, TypeRest
  <2>3. TypeRest'
    BY <1>0, <2>1, <2>2, OpenTypes DEF TypeRest
  <2> QED
    BY <1>0, <1>a, <1>c, <2>1, <2>3, OpenTypes DEF Data
<1>2. ASSUME NEW u \in Uuids, NEW k \in Keeps, PatchModule(u, k)
      PROVE  TypeInv'
  <2>1. PICK r \in mf_history_register(u) :
              history_register(u, r) /\ g_mod' = SetKeep(r.mods, u, k)
    BY <1>2 DEF PatchModule
  <2>2. /\ conf' = conf \union {u}
        /\ UNCHANGED <<ring, rows, copied, flagged, shared, dev, pc, todo, failed, cur,
                       at, left, now, unseen>>
    BY <1>2 DEF PatchModule, loop
  <2>3. retired \in SUBSET Uuids
    BY <1>0 DEF TypeRest
  <2>4. TableOK(g_mod') /\ r.retired \in SUBSET Uuids
    BY <1>0, <2>1, <2>3, EnrolFacts, RegisterFacts
  <2>5. TypeRest'
    BY <1>0, <2>1, <2>2, <2>4 DEF TypeRest, history_register
  <2>6. Data
    BY <1>0, <2>2, <2>4 DEF Data
  <2> QED
    BY <1>a, <1>c, <2>2, <2>5, <2>6
<1>3. ASSUME NEW u \in Uuids, NEW k \in Keeps, BootAdd(u, k)
      PROVE  TypeInv'
  <2>1. OpenModule(u, k) \/ OpenFails(u, k)
    BY <1>3 DEF BootAdd
  <2>2. todo' = todo \ {u} /\ UNCHANGED <<conf, pc>>
    BY <1>3 DEF BootAdd
  <2>3. TypeRest'
    BY <1>0, <2>1, <2>2, OpenTypes DEF TypeRest
  <2> QED
    BY <1>0, <1>a, <1>c, <2>1, <2>3, OpenTypes DEF Data
<1>4. ASSUME NEW u \in Uuids, NEW k \in Keeps, mf_history_set_retention(u, k)
      PROVE  TypeInv'
  <2>1. g_mod' = SetKeep(g_mod, u, k) /\ UNCHANGED <<ring, disk, dev, conf, loop, notes>>
    BY <1>4 DEF mf_history_set_retention
  <2>2. TypeRest'
    BY <1>0, <2>1 DEF TypeRest, disk, loop, notes
  <2>3. Data
    BY <1>0, <2>1, SetKeepFacts DEF Data, disk
  <2> QED
    BY <1>a, <1>c, <2>1, <2>2, <2>3 DEF disk, loop
<1>5. ASSUME NEW u \in Uuids, RemoveModule(u)
      PROVE  TypeInv'
  <2>1. /\ mf_history_retire(u) \/ UNCHANGED <<g_mod, rows, ring, retired>>
        /\ dev' = dev \/ dev' = [dev EXCEPT ![u] = "dying"]
        /\ conf' = conf \ {u}
        /\ UNCHANGED <<copied, flagged, shared, loop, notes>>
    BY <1>5 DEF RemoveModule
  <2>2. Data /\ retired' \in SUBSET Uuids
    BY <1>0, <1>b, <2>1, RetireTypes DEF Data, TypeRest
  <2>3. TypeRest'
    BY <1>0, <2>1, <2>2 DEF TypeRest, loop, notes
  <2> QED
    BY <1>a, <1>c, <2>1, <2>2, <2>3 DEF loop
<1>6. ASSUME NEW u \in Uuids, ReplaceModule(u) \/ ModuleExit(u)
      PROVE  TypeInv'
  <2>1. /\ dev' = [dev EXCEPT ![u] = "dying"] \/ dev' = [dev EXCEPT ![u] = "off"]
        /\ UNCHANGED <<g_mod, ring, disk, conf, loop, notes>>
    BY <1>6 DEF ReplaceModule, ModuleExit
  <2>2. TypeRest'
    BY <1>0, <2>1 DEF TypeRest, disk, loop, notes
  <2> QED
    BY <1>a, <1>b, <1>c, <2>1, <2>2 DEF disk, loop
<1>7. ASSUME NEW u \in Uuids, ModuleStep(u)
      PROVE  TypeInv'
  <2>1. /\ g_mod' = Stamp(g_mod, u) /\ ring' = Queue(g_mod, u)
        /\ UNCHANGED <<disk, dev, conf, loop, notes>>
    BY <1>7 DEF ModuleStep
  <2>2. now \in Times
    BY <1>0 DEF TypeRest
  <2>3. TableOK(g_mod') /\ RingOK(ring')
    BY <1>0, <2>1, <2>2, StampFacts, QueueFacts
  <2>4. TypeRest'
    BY <1>0, <2>1 DEF TypeRest, disk, loop, notes
  <2> QED
    BY <1>0, <1>a, <1>c, <2>1, <2>3, <2>4 DEF Data, disk, loop
<1>8. ASSUME NEW u \in Uuids, migrate_one(u)
      PROVE  TypeInv'
  <2>1. /\ TableOK(g_mod') /\ retired' \in SUBSET Uuids /\ unseen' \in SUBSET Uuids
        /\ failed' \in BOOLEAN
        /\ cur' = None \/ cur' = [uuid |-> u, was_registered |-> find_mod(u)]
        /\ todo' = todo \ {u}
        /\ UNCHANGED <<ring, rows, copied, flagged, shared, dev, conf, pc, at, left, now,
                       refused>>
    BY <1>8, MigrateOneFacts
  <2>2. Data
    BY <1>0, <2>1 DEF Data
  <2>3. TypeRest'
    BY <1>0, <2>1 DEF TypeRest
  <2>4. shared' \in BOOLEAN /\ failed' \in BOOLEAN
    BY <1>0, <2>1, Zenon DEF TypeFlags
  <2>5. ASSUME cur' # None
        PROVE  cur'.uuid \in Uuids /\ cur'.was_registered \in BOOLEAN
               /\ cur' = [uuid |-> cur'.uuid, was_registered |-> cur'.was_registered]
    <3>1. cur' = [uuid |-> u, was_registered |-> find_mod(u)]
      BY <2>1, <2>5
    <3>2. find_mod(u) \in BOOLEAN
      BY Zenon DEF find_mod
    <3>3. cur'.uuid = u /\ cur'.was_registered = find_mod(u)
      BY <3>1
    <3> QED
      BY <3>1, <3>2, <3>3, Zenon
  <2>6. TypeFlags'
    BY <2>4, <2>5, Zenon DEF TypeFlags
  <2> QED
    BY <1>a, <2>2, <2>3, <2>6
<1>9. CASE PassEnds
  <2>1. TypeRest'
    BY <1>0, <1>9 DEF TypeRest, PassEnds, disk, notes, Phases
  <2> QED
    BY <1>a, <1>b, <1>c, <1>9, <2>1 DEF PassEnds, disk
<1>10. CASE mf_history_flush_slice
  <2>1. FlushRows \in Nat /\ PruneRows \in Nat /\ MaxModules \in Nat \ {0}
    BY Numbers
  <2>2. /\ \E lost \in Losses(FlushRows) : rows' = RowsAfterFlush(FlushRows, lost)
        /\ ring' = RingAfterFlush(FlushRows)
        /\ pc' = "prune" /\ at' = 1 /\ left' = PruneRows
        /\ UNCHANGED <<g_mod, retired, copied, flagged, shared, dev, conf, todo, failed,
                       cur, now, notes>>
    BY <1>10 DEF mf_history_flush_slice
  <2>3. Data
    BY <1>0, <2>1, <2>2, FlushFacts, DrainFacts DEF Data
  <2>4. TypeRest'
    BY <1>0, <2>1, <2>2 DEF TypeRest, Phases, notes
  <2> QED
    BY <1>a, <1>c, <2>2, <2>3, <2>4
<1>11. CASE mf_history_prune_slice
  <2>1. /\ at <= MaxModules /\ left > 0 /\ at' = at + 1
        /\ \/ g_mod[at] # Unused /\ prune_module(at)
           \/ UNCHANGED <<rows, left, g_mod>>
        /\ UNCHANGED <<ring, retired, copied, flagged, shared, dev, conf, pc, todo, failed,
                       cur, now, notes>>
    BY <1>11 DEF mf_history_prune_slice
  <2>2. at \in Mods /\ MaxModules \in Nat /\ PruneRows \in Nat /\ left \in 0 .. PruneRows
        /\ at \in 1 .. MaxModules + 1
    BY <1>0, <2>1, Numbers DEF TypeRest, Mods
  <2>3. CASE g_mod[at] # Unused /\ prune_module(at)
    <3>1. TableOK(g_mod') /\ rows' \in [Uuids -> SUBSET Times] /\ left' \in 0 .. left
      BY <2>2, <2>3, PruneFacts
    <3>2. Data
      BY <1>0, <2>1, <3>1 DEF Data
    <3>3. left' \in 0 .. PruneRows /\ at' \in 1 .. MaxModules + 1
      BY <2>1, <2>2, <3>1
    <3>4. TypeRest'
      BY <1>0, <2>1, <3>3 DEF TypeRest, notes
    <3> QED
      BY <1>a, <1>c, <2>1, <3>2, <3>4
  <2>4. CASE UNCHANGED <<rows, left, g_mod>>
    <3>1. at' \in 1 .. MaxModules + 1
      BY <2>1, <2>2
    <3>2. TypeRest'
      BY <1>0, <2>1, <2>4, <3>1 DEF TypeRest, notes
    <3> QED
      BY <1>a, <1>b, <1>c, <2>1, <2>4, <3>2
  <2> QED
    BY <2>1, <2>3, <2>4
<1>12. CASE PruneEnds
  <2>1. TypeRest'
    BY <1>0, <1>12, Numbers DEF TypeRest, PruneEnds, disk, notes, Phases
  <2> QED
    BY <1>a, <1>b, <1>c, <1>12, <2>1 DEF PruneEnds, disk
<1>13. CASE Boot
  <2>1. TypeRest'
    BY <1>0, <1>13 DEF TypeRest, Boot, disk, notes, Phases
  <2> QED
    BY <1>a, <1>b, <1>c, <1>13, <2>1 DEF Boot, disk
<1>14. CASE BootDone
  <2>1. TypeRest'
    BY <1>0, <1>14 DEF TypeRest, BootDone, disk, notes, Phases, OldUuids
  <2> QED
    BY <1>a, <1>b, <1>c, <1>14, <2>1 DEF BootDone, disk
<1>15. CASE MigrateCommit
  <2>1. /\ TableOK(g_mod') /\ rows' \in [Uuids -> SUBSET Times]
        /\ copied' \in [Uuids -> 0 .. Often]
        /\ flagged' \in SUBSET Uuids /\ retired' \in SUBSET Uuids /\ unseen' \in SUBSET Uuids
        /\ cur' = None
        /\ UNCHANGED <<ring, shared, dev, conf, pc, todo, failed, at, left, now, refused>>
    BY <1>15, CommitFacts
  <2>2. Data
    BY <1>0, <2>1 DEF Data
  <2>3. TypeRest'
    BY <1>0, <2>1 DEF TypeRest
  <2>4. TypeFlags'
    BY <1>0, <2>1, Zenon DEF TypeFlags
  <2> QED
    BY <1>a, <2>2, <2>3, <2>4
<1>16. CASE MigrateRollback
  <2>1. TypeRest'
    BY <1>0, <1>16 DEF TypeRest, MigrateRollback, disk, notes
  <2>2. TypeFlags'
    BY <1>0, <1>16, Zenon DEF TypeFlags, MigrateRollback, disk
  <2> QED
    BY <1>a, <1>b, <1>16, <2>1, <2>2 DEF MigrateRollback, disk
<1>17. CASE MigrateEnds
  <2>1. TypeRest'
    BY <1>0, <1>17 DEF TypeRest, MigrateEnds, Phases
  <2>2. TypeFlags'
    <3>1. shared' \in BOOLEAN
      BY <1>17, Zenon DEF MigrateEnds, StillShared
    <3> QED
      BY <1>0, <1>17, <3>1, Zenon DEF TypeFlags, MigrateEnds
  <2> QED
    BY <1>a, <1>b, <1>17, <2>1, <2>2 DEF MigrateEnds
<1>18. CASE Stop
  <2>1. /\ g_mod' = [m \in Mods |-> Unused] /\ ring' = <<>>
        /\ UNCHANGED <<rows, retired, copied, flagged, shared, conf, now, unseen>>
        /\ refused' = {}
        /\ dev' = [u \in Uuids |-> "off"] /\ pc' = "off"
        /\ todo' = {} /\ failed' = FALSE /\ cur' = None /\ at' = 1 /\ left' = 0
    BY <1>18 DEF Stop, disk
  <2>2. TableOK(g_mod')
    BY <2>1 DEF TableOK
  <2>3. RingOK(ring')
    BY <2>1, Numbers DEF RingOK
  <2>4. TypeRest'
    BY <1>0, <2>1, Numbers DEF TypeRest, Phases
  <2>5. TypeFlags'
    BY <1>0, <2>1, Zenon DEF TypeFlags
  <2> QED
    BY <1>0, <1>a, <2>1, <2>2, <2>3, <2>4, <2>5 DEF Data
<1>19. CASE UNCHANGED vars
  <2>1. TypeRest'
    BY <1>0, <1>19 DEF TypeRest, vars, disk, loop, notes
  <2> QED
    BY <1>a, <1>b, <1>c, <1>19, <2>1 DEF vars, disk, loop
<1> QED
  BY <1>1, <1>2, <1>3, <1>4, <1>5, <1>6, <1>7, <1>8, <1>9, <1>10, <1>11, <1>12, <1>13,
     <1>14, <1>15, <1>16, <1>17, <1>18, <1>19 DEF Next

\* The types hold at first.
LEMMA TypeInit == Init => TypeInv
<1> SUFFICES ASSUME Init
             PROVE  TypeInv
  OBVIOUS
<1>1. TableOK(g_mod)
  BY DEF Init, TableOK
<1>2. RingOK(ring) /\ rows \in [Uuids -> SUBSET Times]
  BY BoundAssumption DEF Init, RingOK
<1>3. TypeRest
  BY BoundAssumption DEF Init, TypeRest, Phases, Often
<1>4. TypeFlags
  BY Zenon DEF Init, TypeFlags
<1> QED
  BY <1>1, <1>2, <1>3, <1>4 DEF TypeInv

\* Every variable of the store keeps its type: the ring never outgrows its array,
\* an open file has one slot, and a slice never deletes more rows than it may.
THEOREM TypeCorrect == Spec => []TypeOK
<1>1. TypeInv => TypeOK
  BY TypeParts
<1> QED
  BY <1>1, TypeInit, TypeStep, PTL DEF Spec

\* The types hold in every state.
LEMMA TypeAlways == Spec => []TypeInv
BY TypeInit, TypeStep, PTL DEF Spec

----------------------------------------------------------------------------
(* The migration of the old file. *)

\* MigratedWhole with what it rests on, but for the modules whose migration met a
\* failure that the code passes over.  The flag of a file tells exactly whether
\* the old rows are in it; the module that is being copied has no flag yet; and
\* while mf_history_migrate is at it, every module of the old file is done, or
\* still to be done, or has failed.
MigInv ==
    /\ \A u \in Uuids \ unseen : copied[u] = IF u \in flagged THEN 1 ELSE 0
    /\ ~shared => \A u \in OldUuids \ unseen : u \in flagged
    /\ cur # None => pc = "migrate" /\ (cur.uuid \in flagged => cur.uuid \in unseen)
    /\ pc = "migrate" =>
         \A u \in OldUuids \ unseen :
             \/ u \in flagged \/ u \in todo \/ failed
             \/ cur # None /\ cur.uuid = u

\* The steps that do not take part leave the files' flags alone, and neither
\* begin nor end the migration.
MigAction ==
    BootDone \/ (\E u \in Uuids : migrate_one(u)) \/ MigrateCommit \/ MigrateRollback
    \/ MigrateEnds \/ Stop

\* Steps that do not take part in the migration leave what it keeps alone.
LEMMA OtherSteps ==
    ASSUME [Next]_vars, ~MigAction
    PROVE  /\ UNCHANGED <<copied, flagged, shared, cur, failed, unseen>>
           /\ \/ UNCHANGED <<pc, todo>>
              \/ pc # "migrate" /\ pc' # "migrate"
<1>1. ASSUME NEW u \in Uuids, NEW k \in Keeps,
             mf_devices_add(u, k) \/ BootAdd(u, k)
      PROVE  /\ UNCHANGED <<copied, flagged, shared, cur, failed, unseen>>
             /\ \/ UNCHANGED <<pc, todo>>
                \/ pc # "migrate" /\ pc' # "migrate"
  <2>1. /\ OpenModule(u, k) \/ OpenFails(u, k)
        /\ \/ UNCHANGED <<pc, todo>>
           \/ pc # "migrate" /\ pc' # "migrate"
    BY <1>1 DEF mf_devices_add, BootAdd
  <2> QED
    BY <2>1 DEF OpenModule, OpenFails
<1>2. ASSUME NEW u \in Uuids, NEW k \in Keeps,
             PatchModule(u, k) \/ mf_history_set_retention(u, k)
      PROVE  UNCHANGED <<copied, flagged, shared, cur, failed, unseen, pc, todo>>
  BY <1>2 DEF PatchModule, mf_history_set_retention, disk, loop, notes
<1>3. ASSUME NEW u \in Uuids,
             RemoveModule(u) \/ ReplaceModule(u) \/ ModuleExit(u) \/ ModuleStep(u)
      PROVE  UNCHANGED <<copied, flagged, shared, cur, failed, unseen, pc, todo>>
  BY <1>3 DEF RemoveModule, ReplaceModule, ModuleExit, ModuleStep, disk, loop, notes
<1>4. ASSUME PassEnds \/ mf_history_flush_slice \/ mf_history_prune_slice \/ PruneEnds
             \/ Boot
      PROVE  /\ UNCHANGED <<copied, flagged, shared, cur, failed, unseen>>
             /\ \/ UNCHANGED <<pc, todo>>
                \/ pc # "migrate" /\ pc' # "migrate"
  BY <1>4 DEF PassEnds, mf_history_flush_slice, mf_history_prune_slice, PruneEnds, Boot, disk, notes
<1>5. CASE UNCHANGED vars
  BY <1>5 DEF vars, disk, loop, notes
<1> QED
  BY <1>1, <1>2, <1>3, <1>4, <1>5 DEF Next, MigAction

\* Every step keeps the invariant of the migration.
LEMMA MigStep == TypeInv /\ MigInv /\ [Next]_vars => MigInv'
<1> SUFFICES ASSUME TypeInv, MigInv, [Next]_vars
             PROVE  MigInv'
  OBVIOUS
<1> USE DEF MigInv
<1>0. copied \in [Uuids -> 0 .. Often] /\ (cur # None => cur.uuid \in Uuids)
  BY DEF TypeInv, TypeRest, TypeFlags
<1>1. CASE ~MigAction
  BY <1>1, OtherSteps
<1>2. CASE BootDone
  BY <1>2 DEF BootDone, disk, notes
<1>3. ASSUME NEW u \in Uuids, migrate_one(u)
      PROVE  MigInv'
  <2>1. /\ pc = "migrate" /\ pc' = pc /\ cur = None /\ todo' = todo \ {u}
        /\ UNCHANGED <<copied, flagged, shared>>
    BY <1>3, MigrateOneFacts
  <2>2. \/ cur' = None /\ failed' = TRUE /\ (unseen' = unseen \/ unseen' = unseen \union {u})
        \/ cur' = None /\ u \in flagged /\ UNCHANGED <<failed, unseen>>
        \/ /\ cur' = [uuid |-> u, was_registered |-> find_mod(u)]
           /\ unseen' = IF u \in flagged THEN unseen \union {u} ELSE unseen
           /\ failed' = failed
    BY <1>3 DEF migrate_one, Done
  <2>3. CASE cur' = None /\ failed' = TRUE /\ (unseen' = unseen \/ unseen' = unseen \union {u})
    BY <2>1, <2>3
  <2>4. CASE cur' = None /\ u \in flagged /\ UNCHANGED <<failed, unseen>>
    BY <2>1, <2>4
  <2>5. CASE /\ cur' = [uuid |-> u, was_registered |-> find_mod(u)]
             /\ unseen' = IF u \in flagged THEN unseen \union {u} ELSE unseen
             /\ failed' = failed
    <3>1. cur' = [uuid |-> u, was_registered |-> find_mod(u)]
      BY <2>5
    <3>2. cur'.uuid = u
      BY <3>1
    <3>3. cur' # None
      <4>1. find_mod(u) \in BOOLEAN
        BY Zenon DEF find_mod
      <4>2. cur' \in [uuid : Uuids, was_registered : BOOLEAN]
        BY <3>1, <4>1, Zenon
      <4> QED
        BY <4>2, AbsentAssumption
    <3>4. unseen' = (IF u \in flagged THEN unseen \union {u} ELSE unseen) /\ failed' = failed
      BY <2>5, Zenon
    <3> QED
      BY <2>1, <3>2, <3>3, <3>4
  <2> QED
    BY <2>2, <2>3, <2>4, <2>5
<1>4. CASE MigrateCommit
  <2> DEFINE u == cur.uuid
  <2>1. /\ cur # None /\ cur' = None /\ u \in Uuids
        /\ UNCHANGED <<shared, pc, todo, failed>>
    BY <1>4, CommitFacts
  <2>2. /\ flagged' = flagged \union {u} \/ flagged' = flagged
        /\ \/ /\ copied' = [copied EXCEPT ![u] = Lesser(@ + 1, Often)]
              /\ u \in flagged' /\ unseen' = unseen
           \/ /\ unseen' = unseen \union {u}
              /\ \A v \in Uuids : v # u => copied'[v] = copied[v]
    <3>1. PICK got \in Copies :
             /\ copied' = IF got = OldRows[u] THEN [copied EXCEPT ![u] = Lesser(@ + 1, Often)]
                          ELSE copied
             /\ flagged' \in Marked(flagged, u)
             /\ unseen' = IF got = OldRows[u] /\ u \in flagged' THEN unseen
                          ELSE unseen \union {u}
      BY <1>4 DEF MigrateCommit
    <3>2. \A v \in Uuids : v # u => copied'[v] = copied[v]
      BY <1>0, <3>1
    <3>3. flagged' = flagged \union {u} \/ flagged' = flagged
      BY <3>1 DEF Marked
    <3> HIDE DEF u
    <3>4. \/ /\ copied' = [copied EXCEPT ![u] = Lesser(@ + 1, Often)]
             /\ u \in flagged' /\ unseen' = unseen
          \/ unseen' = unseen \union {u}
      BY <3>1
    <3> QED
      BY <3>2, <3>3, <3>4
  <2> HIDE DEF u
  <2>3. CASE /\ copied' = [copied EXCEPT ![u] = Lesser(@ + 1, Often)]
             /\ u \in flagged' /\ unseen' = unseen
    <3>1. u \notin unseen => copied[u] = 0
      BY <2>1 DEF u
    <3>2. Lesser(0 + 1, Often) = 1
      BY DEF Lesser, Often
    <3>3. u \notin unseen => copied'[u] = 1
      BY <1>0, <2>1, <2>3, <3>1, <3>2
    <3>4. \A v \in Uuids : v # u => copied'[v] = copied[v] /\ (v \in flagged' <=> v \in flagged)
      BY <1>0, <2>2, <2>3
    <3>5. \A v \in Uuids \ unseen' : copied'[v] = IF v \in flagged' THEN 1 ELSE 0
      BY <2>1, <2>3, <3>3, <3>4
    <3> QED
      BY <2>1, <2>2, <2>3, <3>5 DEF u, OldUuids
  <2>4. CASE /\ unseen' = unseen \union {u}
             /\ \A v \in Uuids : v # u => copied'[v] = copied[v]
    BY <2>1, <2>2, <2>4 DEF u, OldUuids
  <2> QED
    BY <2>2, <2>3, <2>4
<1>5. CASE MigrateRollback
  BY <1>5 DEF MigrateRollback, disk, notes
<1>6. CASE MigrateEnds
  <2>1. /\ pc = "migrate" /\ pc' = "run" /\ cur = None /\ cur' = None
        /\ failed => shared' = TRUE
        /\ unseen' = unseen \union todo
        /\ UNCHANGED <<copied, flagged>>
    BY <1>6 DEF MigrateEnds, StillShared
  <2> QED
    BY <2>1
<1>7. CASE Stop
  BY <1>7 DEF Stop, disk
<1> QED
  BY <1>1, <1>2, <1>3, <1>4, <1>5, <1>6, <1>7 DEF MigAction

\* However often the start-up is interrupted by a crash, a failed open or a failed
\* write, mf_history_migrate copies the rows of a module at most once, and renames
\* the old file only when the rows of each of its modules are in the module's file;
\* save for the modules whose migration met a failure that it does not look at.
THEOREM MigratedHolds == Spec => []MigratedWhole
<1>1. Init => MigInv
  BY DEF Init, MigInv
<1>2. TypeInv /\ MigInv => MigratedWhole
  BY DEF MigInv, MigratedWhole, OldUuids
<1> QED
  BY <1>1, <1>2, TypeAlways, MigStep, PTL DEF Spec

----------------------------------------------------------------------------
(* Rows are deleted by their own policy only. *)

LEMMA RowsOnlyPruned ==
    ASSUME TypeInv, [Next]_vars, NEW u \in Uuids, NEW t \in rows[u] \ rows'[u]
    PROVE  \E m \in Mods : /\ Holds(m, u) /\ g_mod[m].keep > 0
                           /\ t + g_mod[m].keep < now
<1>0. rows \in [Uuids -> SUBSET Times] /\ RingOK(ring) /\ RingCap \in Nat /\ FlushRows \in Nat
  BY Numbers DEF TypeInv
<1>1. ASSUME \A v \in Uuids : rows[v] \in SUBSET rows'[v]
      PROVE  FALSE
  BY <1>1
<1>2. ASSUME UNCHANGED rows
      PROVE  FALSE
  BY <1>2
<1>3. ASSUME NEW v \in Uuids, NEW k \in Keeps,
             \/ mf_devices_add(v, k) \/ PatchModule(v, k) \/ BootAdd(v, k)
             \/ mf_history_set_retention(v, k)
      PROVE  FALSE
  BY <1>2, <1>3 DEF mf_devices_add, PatchModule, BootAdd, mf_history_set_retention,
                    OpenModule, OpenFails, disk
<1>4. ASSUME NEW v \in Uuids, RemoveModule(v)
      PROVE  FALSE
  <2>1. UNCHANGED rows \/ \E lost \in Losses(RingCap) : rows' = RowsAfterFlush(RingCap, lost)
    BY <1>4 DEF RemoveModule, mf_history_retire
  <2>2. CASE UNCHANGED rows
    BY <1>2, <2>2
  <2>3. ASSUME NEW lost \in Losses(RingCap), rows' = RowsAfterFlush(RingCap, lost)
        PROVE  FALSE
    BY <1>0, <1>1, <2>3, FlushFacts
  <2> QED
    BY <2>1, <2>2, <2>3
<1>5. ASSUME NEW v \in Uuids,
             \/ ReplaceModule(v) \/ ModuleExit(v) \/ ModuleStep(v) \/ migrate_one(v)
      PROVE  FALSE
  BY <1>2, <1>5 DEF ReplaceModule, ModuleExit, ModuleStep, migrate_one, disk
<1>6. CASE mf_history_flush_slice
  <2>1. PICK lost \in Losses(FlushRows) : rows' = RowsAfterFlush(FlushRows, lost)
    BY <1>6 DEF mf_history_flush_slice
  <2>2. \A v \in Uuids : rows[v] \in SUBSET rows'[v]
    BY <1>0, <2>1, FlushFacts
  <2> QED
    BY <1>1, <2>2
<1>7. CASE MigrateCommit
  <2>1. \A v \in Uuids : rows[v] \in SUBSET rows'[v]
    BY <1>7, CommitFacts
  <2> QED
    BY <1>1, <2>1
<1>8. CASE \/ PassEnds \/ PruneEnds \/ Boot \/ BootDone \/ MigrateRollback
           \/ MigrateEnds \/ Stop \/ UNCHANGED vars
  BY <1>2, <1>8 DEF PassEnds, PruneEnds, Boot, BootDone, MigrateRollback, MigrateEnds,
                    Stop, vars, disk
<1>9. CASE mf_history_prune_slice
  <2>1. at <= MaxModules /\ ((g_mod[at] # Unused /\ prune_module(at)) \/ UNCHANGED rows)
    BY <1>9 DEF mf_history_prune_slice
  <2>2. at \in Mods
    BY <2>1, Numbers DEF Mods, TypeInv, TypeRest
  <2>3. g_mod[at] # Unused /\ prune_module(at)
    BY <1>2, <2>1
  <2>4. g_mod[at].uuid = u /\ t \in Overdue(at) /\ g_mod[at].keep > 0
    BY <2>2, <2>3, PruneFacts
  <2> QED
    BY <2>2, <2>4 DEF Holds, Overdue
<1> QED
  BY <1>3, <1>4, <1>5, <1>6, <1>7, <1>8, <1>9 DEF Next

\* A row leaves a file only when the policy of that file, as it is then, no longer
\* keeps it (prune_module).
THEOREM PruneOnlyOverdueHolds == Spec => PruneOnlyOverdue
<1>1. TypeInv /\ [Next]_vars =>
        [\A u \in Uuids : \A t \in rows[u] \ rows'[u] :
           \E m \in Mods : /\ Holds(m, u) /\ g_mod[m].keep > 0
                           /\ t + g_mod[m].keep < now]_rows
  BY RowsOnlyPruned
<1> QED
  BY <1>1, TypeAlways, PTL DEF Spec, PruneOnlyOverdue

----------------------------------------------------------------------------
(* Queued samples. *)

\* The module of a queued sample has its file open, and its slot knows of a sample
\* at least as late.
RingTable(mods, r) ==
    /\ \A i \in 1 .. Len(r) : \E m \in Mods : mods[m].uuid = r[i].uuid
    /\ \A m \in Mods, i \in 1 .. Len(r) :
           r[i].uuid = mods[m].uuid =>
               mods[m].last_ts \in Times /\ r[i].ts <= mods[m].last_ts

RingTimes(r) ==
    /\ \A i \in 1 .. Len(r) : r[i].ts <= now
    /\ \A i, j \in 1 .. Len(r) :
           i < j /\ r[i].uuid = r[j].uuid => r[j].ts - r[i].ts >= Interval

\* CaptureSpacing with what it rests on.  A module that mf_history_migrate has
\* opened itself has no sample in the ring.
RingInv ==
    /\ RingTable(g_mod, ring)
    /\ RingTimes(ring)
    /\ cur # None => pc = "migrate"
    /\ cur # None /\ ~cur.was_registered =>
           \A i \in 1 .. Len(ring) : ring[i].uuid # cur.uuid

\* A table in which every slot keeps its file, or an unused one opens a file that
\* was not open.
Enrolled(mods) ==
    \A m \in Mods : \/ mods[m].uuid = g_mod[m].uuid /\ mods[m].last_ts = g_mod[m].last_ts
                    \/ g_mod[m] = Unused /\ mods[m].uuid \in Uuids /\ ~find_mod(mods[m].uuid)

\* What is known of a sample in the ring.
LEMMA RingTyped ==
    ASSUME RingOK(ring)
    PROVE  /\ Len(ring) \in Nat /\ ring \in Seq(Sample)
           /\ \A i \in 1 .. Len(ring) :
                 ring[i] \in Sample /\ ring[i].uuid \in Uuids /\ ring[i].ts \in Times
                 /\ ring[i].ts \in Nat
<1>1. ring \in Seq(Sample) /\ Len(ring) \in Nat
  BY DEF RingOK
<1>2. \A i \in 1 .. Len(ring) : ring[i] \in Sample
  BY <1>1, ElementOfSeq
<1>3. \A s \in Sample : s.uuid \in Uuids /\ s.ts \in Times
  BY DEF Sample
<1>4. Times \in SUBSET Nat
  BY BoundAssumption DEF Times
<1> QED
  BY <1>1, <1>2, <1>3, <1>4

\* A table in which a module was enrolled still has the modules of the queued
\* samples.
LEMMA EnrolledKeepsRing ==
    ASSUME RingOK(ring), RingTable(g_mod, ring), NEW mods, Enrolled(mods)
    PROVE  RingTable(mods, ring)
<1>1. \A i \in 1 .. Len(ring) : ring[i].uuid \in Uuids
  BY RingTyped
<1>2. ASSUME NEW i \in 1 .. Len(ring)
      PROVE  \E m \in Mods : mods[m].uuid = ring[i].uuid
  <2>1. PICK m \in Mods : g_mod[m].uuid = ring[i].uuid
    BY <1>2 DEF RingTable
  <2>2. g_mod[m] # Unused
    BY <1>1, <1>2, <2>1, AbsentAssumption DEF Unused
  <2> QED
    BY <2>1, <2>2 DEF Enrolled
<1>3. ASSUME NEW m \in Mods, NEW i \in 1 .. Len(ring), ring[i].uuid = mods[m].uuid
      PROVE  mods[m].last_ts \in Times /\ ring[i].ts <= mods[m].last_ts
  <2>1. find_mod(ring[i].uuid)
    BY <1>3 DEF RingTable, find_mod, Holds
  <2>2. mods[m].uuid = g_mod[m].uuid /\ mods[m].last_ts = g_mod[m].last_ts
    BY <1>3, <2>1 DEF Enrolled
  <2> QED
    BY <1>3, <2>2 DEF RingTable
<1> QED
  BY <1>2, <1>3 DEF RingTable

\* Samples that leave the ring from the front disturb nothing.
LEMMA SlidKeepsRing ==
    ASSUME RingOK(ring), NEW mods, RingTable(mods, ring), RingTimes(ring),
           NEW r, NEW d, Slid(r, d)
    PROVE  RingTable(mods, r) /\ RingTimes(r)
<1>1. /\ Len(ring) \in Nat /\ d \in 0 .. Len(ring) /\ Len(r) = Len(ring) - d
      /\ \A i \in 1 .. Len(r) : r[i] = ring[i + d] /\ i + d \in 1 .. Len(ring)
  BY RingTyped DEF Slid
<1>2. RingTable(mods, r)
  BY <1>1 DEF RingTable
<1>3. ASSUME NEW i \in 1 .. Len(r), NEW j \in 1 .. Len(r), i < j, r[i].uuid = r[j].uuid
      PROVE  r[j].ts - r[i].ts >= Interval
  <2>1. i + d < j + d
    BY <1>1, <1>3
  <2> QED
    BY <1>1, <1>3, <2>1 DEF RingTimes
<1>4. RingTimes(r)
  BY <1>1, <1>3 DEF RingTimes
<1> QED
  BY <1>2, <1>4

\* A sample that is due, queued behind the others of its module.
LEMMA QueueKeepsRing ==
    ASSUME TypeInv, NEW mods, TableOK(mods), RingTable(mods, ring), RingTimes(ring),
           NEW u \in Uuids
    PROVE  RingTable(Stamp(mods, u), Queue(mods, u)) /\ RingTimes(Queue(mods, u))
<1> DEFINE new == Stamp(mods, u)
           r == Queue(mods, u)
           s == [uuid |-> u, ts |-> now]
<1>1. RingOK(ring) /\ now \in Times /\ now \in Nat /\ Interval \in Nat
  BY Numbers DEF TypeInv, TypeRest
<1>2. \A m \in Mods : IF m \in DueMods(mods, u)
                      THEN /\ new[m].uuid = u /\ new[m] # Unused
                           /\ new[m].last_ts = now
                      ELSE new[m] = mods[m]
  BY <1>1, StampFacts
<1>3. \A m \in DueMods(mods, u) : m \in Mods /\ mods[m].uuid = u
  BY DEF DueMods
<1>4. CASE DueMods(mods, u) = {}
  <2>1. r = ring
    BY <1>1, <1>4, QueueFacts
  <2>2. \A m \in Mods : new[m] = mods[m]
    BY <1>2, <1>4
  <2> HIDE DEF new, r
  <2> QED
    BY <2>1, <2>2 DEF RingTable, new, r
<1>5. CASE DueMods(mods, u) # {}
  <2>1. PICK d \in {0, 1} : Grown(r, d, s)
    BY <1>1, <1>5, QueueFacts
  <2>2. /\ Len(ring) \in Nat /\ d \in 0 .. Len(ring) /\ Len(r) = Len(ring) - d + 1
        /\ \A i \in 1 .. Len(r) : i # Len(r) => r[i] = ring[i + d] /\ i + d \in 1 .. Len(ring)
        /\ r[Len(r)] = s
    BY <1>1, <2>1, RingTyped DEF Grown
  <2>3. PICK w \in DueMods(mods, u) : TRUE
    BY <1>5
  <2>4. w \in Mods /\ mods[w].uuid = u /\ Due(mods, w)
    BY <2>3 DEF DueMods
  <2>5. mods[w] # Unused
    BY <2>4, AbsentAssumption DEF Unused
  <2>6. \A m \in Mods : mods[m].uuid = u => m = w
    BY <2>4, <2>5 DEF TableOK
  <2>7. s.uuid = u /\ s.ts = now
    OBVIOUS
  <2>8. \A i \in 1 .. Len(ring) : ring[i].uuid \in Uuids /\ ring[i].ts \in Nat
    BY <1>1, RingTyped
  <2> HIDE DEF new, r, s
  <2>9. \A m \in Mods : new[m].uuid = mods[m].uuid
    BY <1>2, <1>3
  <2>10. RingTable(new, r)
    <3>1. ASSUME NEW i \in 1 .. Len(r)
          PROVE  \E m \in Mods : new[m].uuid = r[i].uuid
      <4>1. CASE i = Len(r)
        BY <2>2, <2>4, <2>7, <2>9, <4>1
      <4>2. CASE i # Len(r)
        BY <2>2, <2>9, <3>1, <4>2 DEF RingTable
      <4> QED
        BY <4>1, <4>2
    <3>2. ASSUME NEW m \in Mods, NEW i \in 1 .. Len(r), r[i].uuid = new[m].uuid
          PROVE  new[m].last_ts \in Times /\ r[i].ts <= new[m].last_ts
      <4>1. CASE m \in DueMods(mods, u)
        <5>1. new[m].last_ts = now
          BY <1>2, <4>1
        <5>2. r[i].ts <= now
          BY <1>1, <2>2, <2>7, <3>2 DEF RingTimes
        <5> QED
          BY <1>1, <5>1, <5>2
      <4>2. CASE m \notin DueMods(mods, u)
        <5>1. new[m] = mods[m] /\ m # w
          BY <1>2, <2>3, <4>2
        <5>2. r[i].uuid # u
          BY <2>6, <2>9, <3>2, <5>1
        <5>3. i # Len(r)
          BY <2>2, <2>7, <5>2
        <5> QED
          BY <2>2, <3>2, <5>1, <5>3 DEF RingTable
      <4> QED
        BY <4>1, <4>2
    <3> QED
      BY <3>1, <3>2 DEF RingTable
  <2>11. RingTimes(r)
    <3>1. \A i \in 1 .. Len(r) : r[i].ts <= now
      BY <1>1, <2>2, <2>7 DEF RingTimes
    <3>2. ASSUME NEW i \in 1 .. Len(r), NEW j \in 1 .. Len(r), i < j, r[i].uuid = r[j].uuid
          PROVE  r[j].ts - r[i].ts >= Interval
      <4>1. i # Len(r) /\ r[i] = ring[i + d] /\ i + d \in 1 .. Len(ring)
        BY <2>2, <3>2
      <4>2. CASE j = Len(r)
        <5>1. ring[i + d].uuid = mods[w].uuid
          BY <2>2, <2>4, <2>7, <3>2, <4>1, <4>2
        <5>2. mods[w].last_ts \in Times /\ ring[i + d].ts <= mods[w].last_ts
          BY <2>4, <4>1, <5>1 DEF RingTable
        <5>3. mods[w].last_ts # None /\ mods[w].last_ts \in Nat
          BY <5>2, AbsentAssumption, BoundAssumption DEF Times
        <5>4. now - mods[w].last_ts >= Interval
          BY <2>4, <5>3 DEF Due
        <5>5. r[j].ts = now /\ r[i].ts = ring[i + d].ts /\ ring[i + d].ts \in Nat
          BY <2>2, <2>7, <2>8, <4>1, <4>2
        <5> QED
          BY <1>1, <5>2, <5>3, <5>4, <5>5
      <4>3. CASE j # Len(r)
        <5>1. r[j] = ring[j + d] /\ j + d \in 1 .. Len(ring) /\ i + d < j + d
          BY <2>2, <3>2, <4>3
        <5> QED
          BY <3>2, <4>1, <5>1 DEF RingTimes
      <4> QED
        BY <4>2, <4>3
    <3> QED
      BY <3>1, <3>2 DEF RingTimes
  <2> QED
    BY <2>10, <2>11 DEF new, r
<1> QED
  BY <1>4, <1>5

\* While mf_history_migrate runs, at start-up, nothing else does.
LEMMA MigrateAlone ==
    ASSUME [Next]_vars, pc = "migrate"
    PROVE  \/ \E u \in Uuids : migrate_one(u)
           \/ MigrateCommit \/ MigrateRollback \/ MigrateEnds \/ Stop
           \/ UNCHANGED vars
BY DEF Next, mf_devices_add, PatchModule, BootAdd, mf_history_set_retention, RemoveModule,
       ReplaceModule, ModuleExit, ModuleStep, PassEnds, mf_history_flush_slice,
       mf_history_prune_slice, PruneEnds, Boot, BootDone, Serving

\* The tables of mf_history_register and mf_history_set_retention.
LEMMA EnrolledTables ==
    ASSUME TypeInv, NEW u \in Uuids
    PROVE  /\ \A new : (\A m \in Mods : SlotOf(new, m, u)) => Enrolled(new)
           /\ \A k \in Keeps : Enrolled(SetKeep(g_mod, u, k))
           /\ \A k \in Keeps, r \in mf_history_register(u) :
                 TableOK(SetKeep(r.mods, u, k)) /\ Enrolled(SetKeep(r.mods, u, k))
<1>1. TableOK(g_mod) /\ retired \in SUBSET Uuids
  BY DEF TypeInv, TypeRest
<1>2. ASSUME NEW new, \A m \in Mods : SlotOf(new, m, u)
      PROVE  Enrolled(new)
  BY <1>2 DEF SlotOf, Enrolled
<1>3. ASSUME NEW k \in Keeps
      PROVE  Enrolled(SetKeep(g_mod, u, k))
  BY <1>1, SetKeepFacts DEF Enrolled
<1>4. ASSUME NEW k \in Keeps, NEW r \in mf_history_register(u)
      PROVE  TableOK(SetKeep(r.mods, u, k)) /\ Enrolled(SetKeep(r.mods, u, k))
  <2>1. TableOK(SetKeep(r.mods, u, k)) /\ \A m \in Mods : SlotOf(SetKeep(r.mods, u, k), m, u)
    BY <1>1, EnrolFacts
  <2> QED
    BY <1>2, <2>1
<1> QED
  BY <1>2, <1>3, <1>4

\* Every step keeps the invariant of the ring.
LEMMA RingStep == TypeInv /\ RingInv /\ [Next]_vars => RingInv'
<1> SUFFICES ASSUME TypeInv, RingInv, [Next]_vars
             PROVE  RingInv'
  OBVIOUS
<1>0. /\ RingTable(g_mod, ring) /\ RingTimes(ring) /\ TableOK(g_mod) /\ RingOK(ring)
      /\ cur # None => pc = "migrate"
      /\ rows \in [Uuids -> SUBSET Times] /\ RingCap \in Nat /\ FlushRows \in Nat
      /\ now \in Nat /\ Len(ring) \in Nat
  BY Numbers, RingTyped DEF RingInv, TypeInv
<1>a. ASSUME RingTable(g_mod', ring'), RingTimes(ring'), now' = now, cur' = None
      PROVE  RingInv'
  BY <1>a DEF RingInv, RingTable, RingTimes
<1>b. ASSUME Enrolled(g_mod'), ring' = ring, now' = now, cur' = None
      PROVE  RingInv'
  BY <1>0, <1>a, <1>b, EnrolledKeepsRing
<1>c. ASSUME ring' = <<>>, now' = now, cur' = None
      PROVE  RingInv'
  <2>1. Len(ring') = 0
    BY <1>c
  <2> QED
    BY <1>a, <1>c, <2>1 DEF RingTable, RingTimes
<1>d. ASSUME pc # "migrate", UNCHANGED cur
      PROVE  cur' = None
  BY <1>0, <1>d
<1>e. ASSUME NEW u \in Uuids, NEW k \in Keeps, pc # "migrate",
             OpenModule(u, k) \/ OpenFails(u, k)
      PROVE  RingInv'
  <2>1. now' = now /\ cur' = None
    BY <1>d, <1>e DEF OpenModule, OpenFails
  <2>2. CASE OpenModule(u, k)
    <3>1. PICK r \in mf_history_register(u) :
                /\ g_mod' = Stamp(SetKeep(r.mods, u, k), u)
                /\ ring' = Queue(SetKeep(r.mods, u, k), u)
      BY <2>2 DEF OpenModule
    <3> DEFINE mods == SetKeep(r.mods, u, k)
    <3>2. TableOK(mods) /\ Enrolled(mods)
      BY EnrolledTables
    <3>3. g_mod' = Stamp(mods, u) /\ ring' = Queue(mods, u)
      BY <3>1
    <3> HIDE DEF mods
    <3>4. RingTable(mods, ring)
      BY <1>0, <3>2, EnrolledKeepsRing
    <3> QED
      BY <1>0, <1>a, <2>1, <3>2, <3>3, <3>4, QueueKeepsRing
  <2>3. CASE OpenFails(u, k)
    <3>1. PICK r \in mf_history_register(u) : g_mod' = SetKeep(r.mods, u, k)
      BY <2>3 DEF OpenFails
    <3>2. Enrolled(g_mod') /\ ring' = ring
      BY <2>3, <3>1, EnrolledTables DEF OpenFails
    <3> QED
      BY <1>b, <2>1, <3>2
  <2> QED
    BY <1>e, <2>2, <2>3
<1>1. ASSUME NEW u \in Uuids, NEW k \in Keeps, mf_devices_add(u, k) \/ BootAdd(u, k)
      PROVE  RingInv'
  BY <1>1, <1>e DEF mf_devices_add, BootAdd, Serving
<1>2. ASSUME NEW u \in Uuids, NEW k \in Keeps,
             PatchModule(u, k) \/ mf_history_set_retention(u, k)
      PROVE  RingInv'
  <2>1. /\ \/ \E r \in mf_history_register(u) : g_mod' = SetKeep(r.mods, u, k)
           \/ g_mod' = SetKeep(g_mod, u, k)
        /\ pc = "run" /\ UNCHANGED <<ring, cur, now>>
    BY <1>2 DEF PatchModule, mf_history_set_retention, Serving, loop
  <2>2. Enrolled(g_mod')
    BY <2>1, EnrolledTables
  <2> QED
    BY <1>b, <1>d, <2>1, <2>2
<1>3. ASSUME NEW u \in Uuids, RemoveModule(u)
      PROVE  RingInv'
  <2>1. pc = "run" /\ UNCHANGED <<cur, now>>
        /\ (mf_history_retire(u) \/ UNCHANGED <<g_mod, ring>>)
    BY <1>3 DEF RemoveModule, Serving, loop
  <2>2. CASE UNCHANGED <<g_mod, ring>>
    BY <1>0, <1>a, <1>d, <2>1, <2>2
  <2>3. CASE ring' = RingAfterFlush(RingCap)
    <3>1. Flushed(RingCap) = Len(ring)
      BY <1>0, DrainFacts DEF RingOK
    <3>2. ring' \in Seq(Sample) /\ Len(ring') = 0
      <4>1. RingOK(ring') /\ Slid(ring', Flushed(RingCap))
        BY <1>0, <2>3, DrainFacts
      <4> QED
        BY <1>0, <3>1, <4>1 DEF Slid, RingOK
    <3>3. ring' = <<>>
      BY <3>2, EmptySeq
    <3> QED
      BY <1>c, <1>d, <2>1, <3>3
  <2> QED
    BY <2>1, <2>2, <2>3 DEF mf_history_retire
<1>4. ASSUME NEW u \in Uuids, ReplaceModule(u) \/ ModuleExit(u)
      PROVE  RingInv'
  BY <1>0, <1>4, <1>a, <1>d DEF ReplaceModule, ModuleExit, Serving, loop
<1>5. ASSUME NEW u \in Uuids, ModuleStep(u)
      PROVE  RingInv'
  <2>1. /\ g_mod' = Stamp(g_mod, u) /\ ring' = Queue(g_mod, u)
        /\ pc = "run" /\ UNCHANGED <<cur, now>>
    BY <1>5 DEF ModuleStep, Serving, loop
  <2> QED
    BY <1>0, <1>a, <1>d, <2>1, QueueKeepsRing
<1>6. CASE PassEnds \/ Boot \/ BootDone
  BY <1>0, <1>6, <1>a, <1>d DEF PassEnds, Boot, BootDone
<1>7. CASE mf_history_flush_slice
  <2>1. /\ ring' = RingAfterFlush(FlushRows) /\ pc = "flush"
        /\ UNCHANGED <<g_mod, cur, now>>
    BY <1>7 DEF mf_history_flush_slice
  <2>2. RingTable(g_mod, ring') /\ RingTimes(ring')
    BY <1>0, <2>1, DrainFacts, SlidKeepsRing
  <2> QED
    BY <1>a, <1>d, <2>1, <2>2
<1>8. CASE mf_history_prune_slice
  <2>1. /\ at <= MaxModules /\ pc = "prune" /\ UNCHANGED <<ring, cur, now>>
        /\ ((g_mod[at] # Unused /\ prune_module(at)) \/ UNCHANGED g_mod)
    BY <1>8 DEF mf_history_prune_slice
  <2>2. CASE UNCHANGED g_mod
    BY <1>0, <1>a, <1>d, <2>1, <2>2
  <2>3. CASE g_mod[at] # Unused /\ prune_module(at)
    <3>1. at \in Mods
      BY <2>1, Numbers DEF Mods, TypeInv, TypeRest
    <3>2. \A j \in Mods : /\ g_mod'[j].uuid = g_mod[j].uuid
                          /\ g_mod'[j].last_ts = g_mod[j].last_ts
      BY <2>3, <3>1, PruneFacts
    <3> QED
      BY <1>b, <1>d, <2>1, <3>2 DEF Enrolled
  <2> QED
    BY <2>1, <2>2, <2>3
<1>9. CASE PruneEnds
  <2>1. /\ pc = "prune" /\ UNCHANGED <<g_mod, ring, cur>>
        /\ now' = now \/ now' = now + 1
    BY <1>9 DEF PruneEnds
  <2>2. \A i \in 1 .. Len(ring) : ring[i].ts \in Nat
    BY <1>0, RingTyped
  <2>3. \A i \in 1 .. Len(ring) : ring[i].ts <= now'
    BY <1>0, <2>1, <2>2 DEF RingTimes
  <2>4. cur' = None
    BY <1>d, <2>1
  <2> QED
    BY <1>0, <2>1, <2>3, <2>4 DEF RingInv, RingTable, RingTimes
<1>10. ASSUME NEW u \in Uuids, migrate_one(u)
       PROVE  RingInv'
  <2>1. /\ UNCHANGED <<ring, now, pc>> /\ pc = "migrate"
        /\ \A m \in Mods : SlotOf(g_mod', m, u)
        /\ cur' = None \/ cur' = [uuid |-> u, was_registered |-> find_mod(u)]
    BY <1>10, MigrateOneFacts
  <2>2. Enrolled(g_mod')
    BY <2>1, EnrolledTables
  <2>3. RingTable(g_mod', ring)
    BY <1>0, <2>2, EnrolledKeepsRing
  <2>4. CASE cur' = None
    BY <1>b, <2>1, <2>2, <2>4
  <2>5. CASE cur' = [uuid |-> u, was_registered |-> find_mod(u)]
    <3>1. cur'.uuid = u /\ cur'.was_registered = find_mod(u)
      BY <2>5
    <3>2. ~find_mod(u) => \A i \in 1 .. Len(ring) : ring[i].uuid # u
      BY <1>0 DEF RingTable, find_mod, Holds
    <3>3. ~cur'.was_registered => \A i \in 1 .. Len(ring) : ring[i].uuid # cur'.uuid
      BY <3>1, <3>2, Zenon
    <3>4. RingTimes(ring)
      BY <1>0
    <3> QED
      BY <2>1, <2>3, <3>3, <3>4 DEF RingInv, RingTable, RingTimes
  <2> QED
    BY <2>1, <2>4, <2>5
<1>11. CASE MigrateCommit
  <2>1. /\ cur # None /\ cur' = None /\ UNCHANGED <<ring, now>>
        /\ \/ UNCHANGED g_mod
           \/ ~cur.was_registered /\ g_mod' = CloseMod(g_mod, cur.uuid)
    BY <1>11, CommitFacts
  <2>2. CASE UNCHANGED g_mod
    BY <1>0, <1>a, <2>1, <2>2
  <2>3. CASE ~cur.was_registered /\ g_mod' = CloseMod(g_mod, cur.uuid)
    <3>1. cur.uuid \in Uuids /\ \A i \in 1 .. Len(ring) : ring[i].uuid # cur.uuid
      BY <2>1, <2>3 DEF RingInv, TypeInv, TypeFlags
    <3>2. \A m \in Mods : IF g_mod[m].uuid = cur.uuid THEN g_mod'[m] = Unused
                          ELSE g_mod'[m] = g_mod[m]
      BY <1>0, <2>3, <3>1, CloseFacts
    <3>3. \A i \in 1 .. Len(ring) : ring[i].uuid \in Uuids
      BY <1>0, RingTyped
    <3>4. RingTable(g_mod', ring)
      BY <1>0, <3>1, <3>2, <3>3, AbsentAssumption DEF RingTable, Unused
    <3> QED
      BY <1>0, <1>a, <2>1, <3>4
  <2> QED
    BY <2>1, <2>2, <2>3
<1>12. CASE MigrateRollback \/ MigrateEnds
  <2>1. UNCHANGED <<g_mod, ring, now>> /\ cur' = None
    BY <1>12 DEF MigrateRollback, MigrateEnds
  <2> QED
    BY <1>0, <1>a, <2>1
<1>13. CASE Stop
  BY <1>13, <1>c DEF Stop
<1>14. CASE UNCHANGED vars
  BY <1>14 DEF vars, loop, RingInv, RingTable, RingTimes
<1> QED
  BY <1>1, <1>2, <1>3, <1>4, <1>5, <1>6, <1>7, <1>8, <1>9, <1>10, <1>11, <1>12, <1>13,
     <1>14 DEF Next

\* The invariant of the ring holds in every state.
LEMMA RingAlways == Spec => []RingInv
<1>1. Init => RingInv
  <2> SUFFICES ASSUME Init
               PROVE  RingInv
    OBVIOUS
  <2>1. Len(ring) = 0 /\ cur = None
    BY DEF Init
  <2> QED
    BY <2>1 DEF RingInv, RingTable, RingTimes
<1> QED
  BY <1>1, TypeAlways, RingStep, PTL DEF Spec

\* Queued samples of one module are an interval apart, whatever happens to the
\* module between them (mf_history_enqueue).
THEOREM SpacingHolds == Spec => []CaptureSpacing
<1>1. TypeInv /\ RingInv => CaptureSpacing
  <2> SUFFICES ASSUME TypeInv, RingInv
               PROVE  CaptureSpacing
    OBVIOUS
  <2>1. RingOK(ring) /\ RingTimes(ring)
    BY DEF TypeInv, RingInv
  <2>2. DOMAIN ring = 1 .. Len(ring)
    BY <2>1, RingTyped, LenProperties
  <2> QED
    BY <2>1, <2>2 DEF CaptureSpacing, RingTimes
<1> QED
  BY <1>1, TypeAlways, RingAlways, PTL

----------------------------------------------------------------------------
(* A file for every module that runs. *)

\* A module that runs, or has a sample in the ring, needs its INSERT.
Needs(state, r, v) ==
    state[v] = "live" \/ \E i \in 1 .. Len(r) : r[i].uuid = v
Inserts(mods, v) == \E m \in Mods : mods[m].uuid = v /\ mods[m].ins

\* It has it, unless its last registration failed; and mf_history_migrate closes no
\* file that one of them needs.
LiveInv ==
    /\ \A v \in Uuids \ refused : Needs(dev, ring, v) => Inserts(g_mod, v)
    /\ cur # None /\ ~cur.was_registered =>
           (dev[cur.uuid] = "live" => cur.uuid \in refused)

\* The table `new` keeps the INSERTs of `mods`, but for the modules in S.
Covers(mods, new, S) ==
    \A m \in Mods : mods[m].uuid \in Uuids \ S =>
        new[m].uuid = mods[m].uuid /\ new[m].ins = mods[m].ins

\* Registering a module leaves the slots of the others alone.
LEMMA SlotOfCovers ==
    ASSUME NEW u \in Uuids, NEW new, \A m \in Mods : SlotOf(new, m, u)
    PROVE  Covers(g_mod, new, {u})
<1> SUFFICES ASSUME NEW m \in Mods, g_mod[m].uuid \in Uuids \ {u}
             PROVE  new[m] = g_mod[m]
  BY DEF Covers
<1>1. g_mod[m] # Unused
  BY AbsentAssumption DEF Unused
<1> QED
  BY <1>1 DEF SlotOf

\* A capture leaves the INSERTs alone, and queues a sample of its module at most.
LEMMA StampCovers ==
    ASSUME TypeInv, NEW mods, TableOK(mods), NEW u \in Uuids
    PROVE  /\ Covers(mods, Stamp(mods, u), {})
           /\ \A state, v : Needs(state, Queue(mods, u), v) =>
                                v = u \/ Needs(state, ring, v)
<1>1. now \in Times /\ RingOK(ring)
  BY DEF TypeInv, TypeRest
<1>2. \A m \in Mods : Stamp(mods, u)[m].uuid = mods[m].uuid
                      /\ Stamp(mods, u)[m].ins = mods[m].ins
  BY <1>1, StampFacts DEF DueMods
<1>3. ASSUME NEW i \in 1 .. Len(Queue(mods, u)), Queue(mods, u)[i].uuid # u
      PROVE  \E j \in 1 .. Len(ring) : ring[j].uuid = Queue(mods, u)[i].uuid
  <2> DEFINE r == Queue(mods, u)
             s == [uuid |-> u, ts |-> now]
  <2>1. r = ring \/ \E d \in {0, 1} : Grown(r, d, s)
    BY <1>1, QueueFacts
  <2>2. s.uuid = u
    OBVIOUS
  <2> HIDE DEF r, s
  <2>3. ASSUME NEW d \in {0, 1}, Grown(r, d, s), NEW k \in 1 .. Len(r), r[k].uuid # u
        PROVE  \E j \in 1 .. Len(ring) : ring[j].uuid = r[k].uuid
    <3>1. Len(ring) \in Nat /\ k # Len(r)
      BY <1>1, <2>2, <2>3, RingTyped DEF Grown
    <3>2. k \in 1 .. Len(ring) - d /\ k + d \in 1 .. Len(ring)
      BY <2>3, <3>1 DEF Grown
    <3> QED
      BY <2>3, <3>2 DEF Grown
  <2>4. i \in 1 .. Len(r) /\ r[i].uuid # u
    BY <1>3 DEF r
  <2>5. CASE r = ring
    BY <2>4, <2>5 DEF r
  <2>6. CASE \E d \in {0, 1} : Grown(r, d, s)
    BY <2>3, <2>4, <2>6 DEF r
  <2> QED
    BY <2>1, <2>5, <2>6
<1> QED
  BY <1>2, <1>3 DEF Covers, Needs

\* Samples that leave the ring are needed no more.
LEMMA DrainNeeds ==
    ASSUME TypeInv, NEW n \in Nat
    PROVE  \A state, v : Needs(state, RingAfterFlush(n), v) => Needs(state, ring, v)
<1> DEFINE r == RingAfterFlush(n)
           d == Flushed(n)
<1>1. Slid(r, d) /\ Len(ring) \in Nat
  BY DrainFacts, RingTyped DEF TypeInv
<1> HIDE DEF r, d
<1>2. \A i \in 1 .. Len(r) : r[i] = ring[i + d] /\ i + d \in 1 .. Len(ring)
  BY <1>1 DEF Slid
<1>3. \A state, v : Needs(state, r, v) => Needs(state, ring, v)
  BY <1>2 DEF Needs
<1> QED
  BY <1>3 DEF r

\* Every step keeps the INSERTs that are needed.
LEMMA LiveStep ==
    ASSUME TypeInv, RingInv, LiveInv, [Next]_vars
    PROVE  LiveInv'
<1>0. /\ TableOK(g_mod) /\ dev \in [Uuids -> {"off", "live", "dying"}]
      /\ RingOK(ring) /\ Len(ring) \in Nat /\ RingCap \in Nat /\ FlushRows \in Nat
      /\ cur # None => pc = "migrate" /\ cur.uuid \in Uuids
      /\ retired \in SUBSET Uuids /\ now \in Times
  BY Numbers, RingTyped DEF TypeInv, TypeRest, TypeFlags, RingInv
<1>a. ASSUME NEW u \in Uuids, Covers(g_mod, g_mod', {u}), cur' = None,
             \A v \in Uuids \ {u} : Needs(dev', ring', v) => Needs(dev, ring, v),
             \A v \in Uuids \ {u} : v \in refused => v \in refused',
             u \notin refused' /\ Needs(dev', ring', u) => Inserts(g_mod', u)
      PROVE  LiveInv'
  <2>1. ASSUME NEW v \in Uuids \ {u}, v \notin refused', Needs(dev', ring', v)
        PROVE  Inserts(g_mod', v)
    <3>1. Inserts(g_mod, v)
      BY <1>a, <2>1 DEF LiveInv
    <3> QED
      BY <1>a, <3>1 DEF Inserts, Covers
  <2>2. \A v \in Uuids \ refused' : Needs(dev', ring', v) => Inserts(g_mod', v)
    BY <1>a, <2>1
  <2> QED
    BY <1>a, <2>2 DEF LiveInv, Needs, Inserts
<1>b. ASSUME Covers(g_mod, g_mod', {}), cur' = None, refused' = refused,
             \A v \in Uuids : Needs(dev', ring', v) => Needs(dev, ring, v)
      PROVE  LiveInv'
  <2>1. ASSUME NEW v \in Uuids \ refused, Needs(dev', ring', v)
        PROVE  Inserts(g_mod', v)
    <3>1. Inserts(g_mod, v)
      BY <1>b, <2>1 DEF LiveInv
    <3> QED
      BY <1>b, <3>1 DEF Inserts, Covers
  <2> QED
    BY <1>b, <2>1 DEF LiveInv, Needs, Inserts
<1>c. Covers(g_mod, g_mod, {})
  BY DEF Covers
<1>d. ASSUME pc # "migrate", UNCHANGED cur
      PROVE  cur' = None
  BY <1>0, <1>d
<1>e. ASSUME NEW u \in Uuids, NEW k \in Keeps, NEW r \in mf_history_register(u)
      PROVE  /\ TableOK(SetKeep(r.mods, u, k))
             /\ Covers(g_mod, SetKeep(r.mods, u, k), {u})
             /\ r.ok => Inserts(SetKeep(r.mods, u, k), u)
  <2>1. /\ TableOK(SetKeep(r.mods, u, k))
        /\ \A m \in Mods : SlotOf(SetKeep(r.mods, u, k), m, u)
        /\ r.ok => \E m \in Mods : SetKeep(r.mods, u, k)[m].uuid = u
                                   /\ SetKeep(r.mods, u, k)[m].ins
    BY <1>0, EnrolFacts
  <2> QED
    BY <2>1, SlotOfCovers DEF Inserts
<1>f. ASSUME NEW u \in Uuids, NEW r, history_register(u, r)
      PROVE  /\ \A v \in Uuids \ {u} : v \in refused => v \in refused'
             /\ u \notin refused' => r.ok
  BY <1>f DEF history_register
<1>g. ASSUME NEW u \in Uuids, NEW k \in Keeps, UNCHANGED <<dev, ring>>, cur' = None,
             NEW r \in mf_history_register(u),
             history_register(u, r), g_mod' = SetKeep(r.mods, u, k)
      PROVE  LiveInv'
  <2>1. Covers(g_mod, g_mod', {u}) /\ (r.ok => Inserts(g_mod', u))
    BY <1>e, <1>g
  <2> QED
    BY <1>a, <1>f, <1>g, <2>1
<1>1. ASSUME NEW u \in Uuids, NEW k \in Keeps, mf_devices_add(u, k) \/ BootAdd(u, k)
      PROVE  LiveInv'
  <2>1. pc # "migrate" /\ (OpenModule(u, k) \/ OpenFails(u, k))
    BY <1>1 DEF mf_devices_add, BootAdd, Serving
  <2>2. cur' = None
    BY <1>d, <2>1 DEF OpenModule, OpenFails
  <2>3. CASE OpenModule(u, k)
    <3>1. dev' = [dev EXCEPT ![u] = "live"]
      BY <2>3 DEF OpenModule
    <3>2. PICK r \in mf_history_register(u) :
                /\ history_register(u, r)
                /\ g_mod' = Stamp(SetKeep(r.mods, u, k), u)
                /\ ring' = Queue(SetKeep(r.mods, u, k), u)
      BY <2>3 DEF OpenModule
    <3> DEFINE mods == SetKeep(r.mods, u, k)
    <3>3. TableOK(mods) /\ Covers(g_mod, mods, {u}) /\ (r.ok => Inserts(mods, u))
      BY <1>e
    <3>4. g_mod' = Stamp(mods, u) /\ ring' = Queue(mods, u)
      BY <3>2
    <3> HIDE DEF mods
    <3>5. /\ Covers(mods, g_mod', {})
          /\ \A state, v : Needs(state, ring', v) => v = u \/ Needs(state, ring, v)
      BY <3>3, <3>4, StampCovers
    <3>6. Covers(g_mod, g_mod', {u}) /\ (r.ok => Inserts(g_mod', u))
      BY <3>3, <3>5 DEF Covers, Inserts
    <3>7. \A v \in Uuids \ {u} : Needs(dev', ring', v) => Needs(dev, ring, v)
      <4> SUFFICES ASSUME NEW v \in Uuids \ {u}, Needs(dev', ring', v)
                   PROVE  Needs(dev, ring, v)
        OBVIOUS
      <4>1. dev'[v] = dev[v]
        BY <1>0, <3>1
      <4>2. Needs(dev', ring, v)
        BY <3>5
      <4> QED
        BY <4>1, <4>2 DEF Needs
    <3> QED
      BY <1>a, <1>f, <2>2, <3>2, <3>6, <3>7
  <2>4. CASE OpenFails(u, k)
    <3>1. PICK r \in mf_history_register(u) :
                history_register(u, r) /\ g_mod' = SetKeep(r.mods, u, k)
      BY <2>4 DEF OpenFails
    <3>2. UNCHANGED <<dev, ring>>
      BY <2>4 DEF OpenFails
    <3> QED
      BY <1>g, <2>2, <3>1, <3>2
  <2> QED
    BY <2>1, <2>3, <2>4
<1>2. ASSUME NEW u \in Uuids, NEW k \in Keeps, PatchModule(u, k)
      PROVE  LiveInv'
  <2>1. PICK r \in mf_history_register(u) :
              history_register(u, r) /\ g_mod' = SetKeep(r.mods, u, k)
    BY <1>2 DEF PatchModule
  <2>2. pc # "migrate" /\ UNCHANGED <<ring, dev, cur>>
    BY <1>2 DEF PatchModule, Serving, loop
  <2> QED
    BY <1>d, <1>g, <2>1, <2>2
<1>3. ASSUME NEW u \in Uuids, NEW k \in Keeps, mf_history_set_retention(u, k)
      PROVE  LiveInv'
  <2>1. /\ g_mod' = SetKeep(g_mod, u, k) /\ pc # "migrate"
        /\ UNCHANGED <<ring, dev, cur, refused>>
    BY <1>3 DEF mf_history_set_retention, Serving, loop, notes
  <2>2. Covers(g_mod, g_mod', {})
    BY <1>0, <2>1, SetKeepFacts DEF Covers
  <2> QED
    BY <1>b, <1>d, <2>1, <2>2
<1>4. ASSUME NEW u \in Uuids, RemoveModule(u)
      PROVE  LiveInv'
  <2>1. /\ pc # "migrate" /\ UNCHANGED <<cur, refused>>
        /\ dev' = IF dev[u] = "off" THEN dev ELSE [dev EXCEPT ![u] = "dying"]
        /\ \/ UNCHANGED <<g_mod, ring>>
           \/ /\ dev[u] = "live" /\ g_mod' = CloseMod(g_mod, u)
              /\ ring' = RingAfterFlush(RingCap)
    BY <1>4 DEF RemoveModule, mf_history_retire, Serving, loop, notes
  <2>2. cur' = None
    BY <1>d, <2>1
  <2>3. \A v \in Uuids : dev'[v] = "live" => dev[v] = "live" /\ v # u
    BY <1>0, <2>1
  <2>4. CASE UNCHANGED <<g_mod, ring>>
    <3>1. \A v \in Uuids : Needs(dev', ring', v) => Needs(dev, ring, v)
      BY <2>3, <2>4 DEF Needs
    <3> QED
      BY <1>b, <1>c, <2>1, <2>2, <2>4, <3>1
  <2>5. CASE /\ g_mod' = CloseMod(g_mod, u)
             /\ ring' = RingAfterFlush(RingCap)
    <3>1. \A m \in Mods : g_mod[m].uuid # u => g_mod'[m] = g_mod[m]
      BY <1>0, <2>5, CloseFacts
    <3>2. Covers(g_mod, g_mod', {u})
      BY <3>1 DEF Covers
    <3>3. Len(ring') = 0
      <4>1. Slid(ring', Flushed(RingCap)) /\ Flushed(RingCap) = Len(ring)
        BY <1>0, <2>5, DrainFacts DEF RingOK
      <4> QED
        BY <1>0, <4>1 DEF Slid
    <3>4. \A v \in Uuids : Needs(dev', ring', v) => Needs(dev, ring, v) /\ v # u
      BY <2>3, <3>3 DEF Needs
    <3> QED
      BY <1>a, <2>1, <2>2, <3>2, <3>4
  <2> QED
    BY <2>1, <2>4, <2>5
<1>5. ASSUME NEW u \in Uuids, ReplaceModule(u) \/ ModuleExit(u)
      PROVE  LiveInv'
  <2>1. /\ dev' = [dev EXCEPT ![u] = "dying"] \/ dev' = [dev EXCEPT ![u] = "off"]
        /\ pc # "migrate" /\ UNCHANGED <<g_mod, ring, cur, refused>>
    BY <1>5 DEF ReplaceModule, ModuleExit, Serving, loop, notes
  <2>2. \A v \in Uuids : dev'[v] = "live" => dev[v] = "live"
    BY <1>0, <2>1
  <2>3. \A v \in Uuids : Needs(dev', ring', v) => Needs(dev, ring, v)
    BY <2>1, <2>2 DEF Needs
  <2> QED
    BY <1>b, <1>c, <1>d, <2>1, <2>3
<1>6. ASSUME NEW u \in Uuids, ModuleStep(u)
      PROVE  LiveInv'
  <2>1. /\ g_mod' = Stamp(g_mod, u) /\ ring' = Queue(g_mod, u) /\ dev[u] = "live"
        /\ pc # "migrate" /\ UNCHANGED <<dev, cur, refused>>
    BY <1>6 DEF ModuleStep, Serving, loop, notes
  <2>2. /\ Covers(g_mod, g_mod', {})
        /\ \A state, v : Needs(state, ring', v) => v = u \/ Needs(state, ring, v)
    BY <1>0, <2>1, StampCovers
  <2>3. Needs(dev, ring, u)
    BY <2>1 DEF Needs
  <2>4. \A v \in Uuids : Needs(dev', ring', v) => Needs(dev, ring, v)
    BY <2>1, <2>2, <2>3
  <2> QED
    BY <1>b, <1>d, <2>1, <2>2, <2>4
<1>7. CASE PassEnds \/ Boot \/ BootDone \/ PruneEnds
  <2>1. pc # "migrate" /\ UNCHANGED <<g_mod, dev, ring, cur, refused>>
    BY <1>7 DEF PassEnds, Boot, BootDone, PruneEnds, notes
  <2> QED
    BY <1>b, <1>c, <1>d, <2>1
<1>8. CASE mf_history_flush_slice
  <2>1. /\ pc # "migrate" /\ UNCHANGED <<g_mod, dev, cur, refused>>
        /\ ring' = RingAfterFlush(FlushRows)
    BY <1>8 DEF mf_history_flush_slice, notes
  <2> QED
    BY <1>0, <1>b, <1>c, <1>d, <2>1, DrainNeeds
<1>9. CASE mf_history_prune_slice
  <2>1. /\ at <= MaxModules /\ pc # "migrate" /\ UNCHANGED <<dev, ring, cur, refused>>
        /\ ((g_mod[at] # Unused /\ prune_module(at)) \/ UNCHANGED g_mod)
    BY <1>9 DEF mf_history_prune_slice, notes
  <2>2. at \in Mods
    BY <2>1, Numbers DEF Mods, TypeInv, TypeRest
  <2>3. \A j \in Mods : g_mod'[j].uuid = g_mod[j].uuid /\ g_mod'[j].ins = g_mod[j].ins
    BY <2>1, <2>2, PruneFacts
  <2>4. Covers(g_mod, g_mod', {})
    BY <2>3 DEF Covers
  <2> QED
    BY <1>b, <1>d, <2>1, <2>4
<1>10. ASSUME NEW u \in Uuids, migrate_one(u)
       PROVE  LiveInv'
  <2>1. /\ UNCHANGED <<dev, ring, refused>>
        /\ \A m \in Mods : SlotOf(g_mod', m, u)
        /\ find_mod(u) => \A m \in Mods : g_mod[m].uuid = u /\ g_mod[m].ins =>
                                              g_mod'[m].uuid = u /\ g_mod'[m].ins
        /\ cur' = None \/ cur' = [uuid |-> u, was_registered |-> find_mod(u)]
    BY <1>10, MigrateOneFacts
  <2>2. Covers(g_mod, g_mod', {u})
    BY <2>1, SlotOfCovers
  <2>3. u \notin refused /\ Needs(dev, ring, u) => find_mod(u) /\ Inserts(g_mod', u)
    BY <2>1 DEF LiveInv, Inserts, find_mod, Holds
  <2>4. CASE cur' = None
    BY <1>a, <2>1, <2>2, <2>3, <2>4
  <2>5. CASE cur' = [uuid |-> u, was_registered |-> find_mod(u)]
    <3>1. cur'.uuid = u /\ cur'.was_registered = find_mod(u)
      BY <2>5
    <3>2. ~cur'.was_registered => (dev'[cur'.uuid] = "live" => cur'.uuid \in refused')
      BY <2>1, <2>3, <3>1 DEF Needs
    <3>3. ASSUME NEW v \in Uuids \ refused, Needs(dev, ring, v)
          PROVE  Inserts(g_mod', v)
      <4>1. CASE v = u
        BY <2>3, <3>3, <4>1
      <4>2. CASE v # u
        <5>1. Inserts(g_mod, v)
          BY <3>3 DEF LiveInv
        <5> QED
          BY <2>2, <4>2, <5>1 DEF Covers, Inserts
      <4> QED
        BY <4>1, <4>2
    <3> QED
      BY <2>1, <3>2, <3>3 DEF LiveInv, Needs, Inserts
  <2> QED
    BY <2>1, <2>4, <2>5
<1>11. CASE MigrateCommit
  <2>1. /\ cur # None /\ cur' = None /\ UNCHANGED <<dev, ring, refused>>
        /\ \/ UNCHANGED g_mod
           \/ ~cur.was_registered /\ g_mod' = CloseMod(g_mod, cur.uuid)
    BY <1>11, CommitFacts
  <2>2. CASE UNCHANGED g_mod
    BY <1>b, <1>c, <2>1, <2>2
  <2>3. CASE ~cur.was_registered /\ g_mod' = CloseMod(g_mod, cur.uuid)
    <3>1. /\ cur.uuid \in Uuids
          /\ dev[cur.uuid] = "live" => cur.uuid \in refused
          /\ \A i \in 1 .. Len(ring) : ring[i].uuid # cur.uuid
      BY <1>0, <2>1, <2>3 DEF LiveInv, RingInv
    <3>2. \A m \in Mods : g_mod[m].uuid # cur.uuid => g_mod'[m] = g_mod[m]
      BY <1>0, <2>3, <3>1, CloseFacts
    <3>3. Covers(g_mod, g_mod', {cur.uuid})
      BY <3>2 DEF Covers
    <3>4. cur.uuid \notin refused => ~Needs(dev, ring, cur.uuid)
      BY <3>1 DEF Needs
    <3> QED
      BY <1>a, <2>1, <3>1, <3>3, <3>4
  <2> QED
    BY <2>1, <2>2, <2>3
<1>12. CASE MigrateRollback \/ MigrateEnds
  <2>1. UNCHANGED <<g_mod, dev, ring, refused>> /\ cur' = None
    BY <1>12 DEF MigrateRollback, MigrateEnds, notes
  <2> QED
    BY <1>b, <1>c, <2>1
<1>13. CASE Stop
  <2>1. cur' = None /\ ring' = <<>> /\ \A v \in Uuids : dev'[v] = "off"
    BY <1>13 DEF Stop
  <2>2. Len(ring') = 0
    BY <2>1
  <2> QED
    BY <2>1, <2>2 DEF LiveInv, Needs
<1>14. CASE UNCHANGED vars
  BY <1>14 DEF vars, loop, notes, LiveInv, Needs, Inserts
<1> QED
  BY <1>1, <1>2, <1>3, <1>4, <1>5, <1>6, <1>7, <1>8, <1>9, <1>10, <1>11, <1>12, <1>13,
     <1>14 DEF Next

\* A module that runs, and one with a sample in the ring, has its file open and its
\* INSERT prepared, unless its last registration failed with a warning: through
\* failed opens, removals, renames, crashes and the migration, and whatever the size
\* of the table.
THEOREM RecordedHolds == Spec => []NothingUnrecorded
<1>1. Init => LiveInv
  <2> SUFFICES ASSUME Init
               PROVE  LiveInv
    OBVIOUS
  <2>1. Len(ring) = 0 /\ cur = None /\ \A v \in Uuids : dev[v] = "off"
    BY DEF Init
  <2> QED
    BY <2>1 DEF LiveInv, Needs
<1>2. TypeInv /\ RingInv /\ LiveInv /\ [Next]_vars => LiveInv'
  BY LiveStep
<1>3. TypeInv /\ RingInv /\ LiveInv => NothingUnrecorded
  <2> SUFFICES ASSUME TypeInv, RingInv, LiveInv
               PROVE  NothingUnrecorded
    OBVIOUS
  <2>1. RingOK(ring) /\ RingTable(g_mod, ring)
    BY DEF TypeInv, RingInv
  <2>2. DOMAIN ring = 1 .. Len(ring) /\ \A i \in 1 .. Len(ring) : ring[i].uuid \in Uuids
    BY <2>1, RingTyped, LenProperties
  <2>3. \A v \in Uuids \ refused : Needs(dev, ring, v) => CanInsert(v)
    BY DEF LiveInv, Inserts, CanInsert, Holds
  <2> QED
    BY <2>1, <2>2, <2>3 DEF NothingUnrecorded, Needs, RingTable, find_mod, Holds
<1> QED
  BY <1>1, <1>2, <1>3, TypeAlways, RingAlways, PTL DEF Spec

----------------------------------------------------------------------------
(* Pruning leaves no backlog behind. *)

\* The ring is written out before the shortest policy is over, one unit of time
\* passing in a pass of the main loop at most.  (The source has 1024 samples, 32
\* of them a pass, and policies counted in days.)
RingDrains ==
    \A k \in Keeps \union {KeepDefault} : k > 0 => RingCap <= FlushRows * (k + 2)

\* No row of a file, and no sample that is on its way there, was overdue when the
\* module put its next pruning off, unless a DELETE that failed did.
Thorough(mods, files, r) ==
    \A m \in Mods :
        mods[m] # Unused /\ mods[m].keep > 0 /\ mods[m].next_prune > 0 /\ ~mods[m].missed =>
            /\ \A t \in files[mods[m].uuid] :
                   t + mods[m].keep + PruneEvery >= mods[m].next_prune
            /\ \A i \in 1 .. Len(r) :
                   r[i].uuid = mods[m].uuid =>
                       r[i].ts + mods[m].keep + PruneEvery >= mods[m].next_prune

\* Nobody is put off by more than the interval.
Soon(mods) == \A m \in Mods : mods[m].next_prune <= now + PruneEvery

\* The older a sample is, the nearer it is to the head of the ring; the flush
\* slice of a pass comes before its prune slice.
Waiting(r, w) ==
    \A i \in 1 .. Len(r) : i + w + FlushRows * (now - r[i].ts) <= RingCap
Waited == IF pc = "prune" THEN FlushRows ELSE 0

\* PruneThorough with what it rests on.
PruneInv ==
    /\ Thorough(g_mod, rows, ring)
    /\ Soon(g_mod)
    /\ Waiting(ring, Waited)
    /\ pc \in {"off", "boot", "migrate"} => \A m \in Mods : g_mod[m].next_prune = 0

\* A table in which a module is put off no further.
Eased(mods) ==
    \A m \in Mods :
        \/ mods[m].next_prune = 0
        \/ /\ mods[m].uuid = g_mod[m].uuid /\ mods[m].keep = g_mod[m].keep
           /\ mods[m].next_prune = g_mod[m].next_prune
           /\ mods[m].missed = g_mod[m].missed
           /\ mods[m] # Unused => g_mod[m] # Unused

\* A table with longer or no retention, or a later prune, is as thorough.
LEMMA EasedKeeps ==
    ASSUME Thorough(g_mod, rows, ring), Soon(g_mod), TypeInv, NEW mods, Eased(mods)
    PROVE  /\ Thorough(mods, rows, ring) /\ Soon(mods)
           /\ (\A m \in Mods : g_mod[m].next_prune = 0) =>
                  \A m \in Mods : mods[m].next_prune = 0
<1>1. Thorough(mods, rows, ring)
  BY DEF Thorough, Eased
<1>2. Soon(mods)
  BY Numbers DEF Soon, Eased
<1> QED
  BY <1>1, <1>2 DEF Eased

\* The tables of mf_history_register, mf_history_set_retention and close_mod.
LEMMA EasedTables ==
    ASSUME TypeInv, NEW u \in Uuids
    PROVE  /\ \A new : (\A m \in Mods : SlotOf(new, m, u)) => Eased(new)
           /\ Eased(CloseMod(g_mod, u))
           /\ \A k \in Keeps : Eased(SetKeep(g_mod, u, k))
           /\ \A k \in Keeps, r \in mf_history_register(u) :
                 TableOK(SetKeep(r.mods, u, k)) /\ Eased(SetKeep(r.mods, u, k))
<1>1. TableOK(g_mod) /\ retired \in SUBSET Uuids /\ Unused.next_prune = 0
  BY DEF TypeInv, TypeRest, Unused
<1>2. ASSUME NEW new, \A m \in Mods : SlotOf(new, m, u)
      PROVE  Eased(new)
  <2>1. \A m \in Mods : g_mod[m].uuid = u => g_mod[m] # Unused
    BY AbsentAssumption DEF Unused
  <2> QED
    BY <1>2, <2>1 DEF SlotOf, Eased
<1>3. Eased(CloseMod(g_mod, u))
  BY <1>1, CloseFacts DEF Eased
<1>4. ASSUME NEW k \in Keeps
      PROVE  Eased(SetKeep(g_mod, u, k))
  BY <1>1, SetKeepFacts DEF Eased
<1>5. ASSUME NEW k \in Keeps, NEW r \in mf_history_register(u)
      PROVE  TableOK(SetKeep(r.mods, u, k)) /\ Eased(SetKeep(r.mods, u, k))
  <2>1. TableOK(SetKeep(r.mods, u, k)) /\ \A m \in Mods : SlotOf(SetKeep(r.mods, u, k), m, u)
    BY <1>1, EnrolFacts
  <2> QED
    BY <1>2, <2>1
<1> QED
  BY <1>2, <1>3, <1>4, <1>5

\* Samples that leave the ring.
LEMMA SlidKeepsWaiting ==
    ASSUME TypeInv, RingTimes(ring), NEW w \in Nat, Waiting(ring, w),
           NEW r, NEW d, Slid(r, d)
    PROVE  /\ Waiting(r, w)
           /\ w = 0 /\ (d = FlushRows \/ Len(r) = 0) => Waiting(r, FlushRows)
<1>1. /\ Len(ring) \in Nat /\ d \in Nat /\ Len(r) \in Nat
      /\ \A i \in 1 .. Len(r) : r[i] = ring[i + d] /\ i + d \in 1 .. Len(ring)
  BY RingTyped DEF TypeInv, Slid
<1>2. RingCap \in Nat /\ FlushRows \in Nat /\ now \in Nat
  BY Numbers
<1>3. ASSUME NEW i \in 1 .. Len(r)
      PROVE  /\ i + w + FlushRows * (now - r[i].ts) <= RingCap
             /\ w = 0 /\ d = FlushRows =>
                    i + FlushRows + FlushRows * (now - r[i].ts) <= RingCap
  <2>1. r[i] = ring[i + d] /\ i + d \in 1 .. Len(ring)
    BY <1>1
  <2>2. ring[i + d].ts \in Nat /\ ring[i + d].ts <= now
    BY <2>1, RingTyped DEF TypeInv, RingTimes
  <2>3. (i + d) + w + FlushRows * (now - ring[i + d].ts) <= RingCap
    BY <2>1 DEF Waiting
  <2> DEFINE a == FlushRows * (now - ring[i + d].ts)
  <2>4. a \in Int
    BY <1>2, <2>2
  <2>5. a = FlushRows * (now - r[i].ts)
    BY <2>1
  <2> HIDE DEF a
  <2>6. (i + d) + w + a <= RingCap
    BY <2>3 DEF a
  <2>7. i + w + a <= RingCap /\ (w = 0 /\ d = FlushRows => i + FlushRows + a <= RingCap)
    BY <1>1, <1>2, <2>4, <2>6
  <2> QED
    BY <2>5, <2>7
<1> QED
  BY <1>3 DEF Waiting

\* A sample that is queued.
LEMMA QueueKeepsPruning ==
    ASSUME TypeInv, RingTimes(ring), NEW mods, TableOK(mods),
           Thorough(mods, rows, ring), Soon(mods), Waiting(ring, 0), NEW u \in Uuids
    PROVE  /\ Thorough(Stamp(mods, u), rows, Queue(mods, u))
           /\ Soon(Stamp(mods, u)) /\ Waiting(Queue(mods, u), 0)
           /\ (\A m \in Mods : mods[m].next_prune = 0) =>
                  \A m \in Mods : Stamp(mods, u)[m].next_prune = 0
<1> DEFINE new == Stamp(mods, u)
           r == Queue(mods, u)
           s == [uuid |-> u, ts |-> now]
<1>1. /\ RingOK(ring) /\ now \in Times /\ now \in Nat /\ RingCap \in Nat /\ FlushRows \in Nat
      /\ PruneEvery \in Nat
  BY Numbers DEF TypeInv, TypeRest
<1>2. \A m \in Mods : /\ new[m].uuid = mods[m].uuid /\ new[m].keep = mods[m].keep
                      /\ new[m].next_prune = mods[m].next_prune
                      /\ new[m].missed = mods[m].missed
                      /\ new[m] # Unused => mods[m] # Unused
  <2> TAKE m \in Mods
  <2>1. IF m \in DueMods(mods, u)
        THEN /\ new[m].uuid = u /\ new[m].keep = mods[m].keep
             /\ new[m].next_prune = mods[m].next_prune
             /\ new[m].missed = mods[m].missed
        ELSE new[m] = mods[m]
    BY <1>1, StampFacts
  <2>2. m \in DueMods(mods, u) => mods[m].uuid = u /\ mods[m] # Unused
    BY AbsentAssumption DEF DueMods, Unused
  <2> HIDE DEF new
  <2> QED
    BY <2>1, <2>2
<1>3. \A m \in Mods : mods[m] # Unused =>
          /\ mods[m].keep \in Nat /\ mods[m].next_prune \in Nat
          /\ mods[m].next_prune <= now + PruneEvery
  <2> TAKE m \in Mods
  <2> HAVE mods[m] # Unused
  <2>1. mods[m] \in Mod
    BY SlotCases
  <2> QED
    BY <2>1, KeepAssumption DEF Mod, Soon
<1>4. Soon(new) /\ ((\A m \in Mods : mods[m].next_prune = 0) =>
                       \A m \in Mods : new[m].next_prune = 0)
  BY <1>2 DEF Soon
<1>5. CASE DueMods(mods, u) = {}
  <2>1. r = ring
    BY <1>1, <1>5, QueueFacts
  <2> HIDE DEF new, r
  <2>2. Thorough(new, rows, r)
    BY <1>2, <2>1 DEF Thorough
  <2> QED
    BY <1>4, <2>1, <2>2 DEF new, r
<1>6. CASE DueMods(mods, u) # {}
  <2>1. PICK d \in {0, 1} : Grown(r, d, s)
    BY <1>1, <1>6, QueueFacts
  <2>2. /\ Len(ring) \in Nat /\ d \in 0 .. Len(ring) /\ Len(r) = Len(ring) - d + 1
        /\ \A i \in 1 .. Len(r) : i # Len(r) => r[i] = ring[i + d] /\ i + d \in 1 .. Len(ring)
        /\ r[Len(r)] = s
    BY <1>1, <2>1, RingTyped DEF Grown
  <2>3. Len(r) <= RingCap
    BY <1>1, QueueFacts DEF RingOK
  <2>4. s.uuid = u /\ s.ts = now
    OBVIOUS
  <2>5. \A i \in 1 .. Len(ring) : ring[i].ts \in Nat /\ ring[i].ts <= now
    BY <1>1, RingTyped DEF RingTimes
  <2> HIDE DEF new, r, s
  <2>6. Thorough(new, rows, r)
    <3> SUFFICES ASSUME NEW m \in Mods, new[m] # Unused, new[m].keep > 0,
                        new[m].next_prune > 0, ~new[m].missed
                 PROVE  /\ \A t \in rows[new[m].uuid] :
                               t + new[m].keep + PruneEvery >= new[m].next_prune
                        /\ \A i \in 1 .. Len(r) :
                               r[i].uuid = new[m].uuid =>
                                   r[i].ts + new[m].keep + PruneEvery >= new[m].next_prune
      BY DEF Thorough
    <3>1. mods[m] # Unused /\ new[m].uuid = mods[m].uuid /\ new[m].keep = mods[m].keep
          /\ new[m].next_prune = mods[m].next_prune /\ new[m].missed = mods[m].missed
      BY <1>2
    <3>2. \A t \in rows[new[m].uuid] : t + new[m].keep + PruneEvery >= new[m].next_prune
      BY <3>1 DEF Thorough
    <3>3. ASSUME NEW i \in 1 .. Len(r), r[i].uuid = new[m].uuid
          PROVE  r[i].ts + new[m].keep + PruneEvery >= new[m].next_prune
      <4>1. CASE i = Len(r)
        <5>1. r[i].ts = now
          BY <2>2, <2>4, <4>1
        <5>2. /\ mods[m].keep \in Nat /\ mods[m].next_prune \in Nat
              /\ mods[m].next_prune <= now + PruneEvery
          BY <1>3, <3>1
        <5>3. /\ new[m].keep \in Nat /\ new[m].next_prune \in Nat
              /\ new[m].next_prune <= now + PruneEvery
          BY <3>1, <5>2
        <5> QED
          BY <1>1, <5>1, <5>3
      <4>2. CASE i # Len(r)
        BY <2>2, <3>1, <3>3, <4>2 DEF Thorough
      <4> QED
        BY <4>1, <4>2
    <3> QED
      BY <3>2, <3>3
  <2>7. Waiting(r, 0)
    <3> SUFFICES ASSUME NEW i \in 1 .. Len(r)
                 PROVE  i + 0 + FlushRows * (now - r[i].ts) <= RingCap
      BY DEF Waiting
    <3>1. CASE i = Len(r)
      <4>1. now - r[i].ts = 0
        BY <1>1, <2>2, <2>4, <3>1
      <4>2. FlushRows * 0 = 0
        BY <1>1
      <4>3. i + 0 + 0 <= RingCap
        BY <1>1, <2>2, <2>3, <3>1
      <4> QED
        BY <4>1, <4>2, <4>3
    <3>2. CASE i # Len(r)
      <4>1. r[i] = ring[i + d] /\ i + d \in 1 .. Len(ring)
        BY <2>2, <3>2
      <4> DEFINE a == FlushRows * (now - ring[i + d].ts)
      <4>2. a \in Int /\ a = FlushRows * (now - r[i].ts)
        BY <1>1, <2>5, <4>1
      <4>3. (i + d) + 0 + a <= RingCap
        BY <4>1 DEF Waiting
      <4> HIDE DEF a
      <4>4. i + 0 + a <= RingCap
        BY <1>1, <2>2, <4>2, <4>3
      <4> QED
        BY <4>2, <4>4
    <3> QED
      BY <3>1, <3>2
  <2> QED
    BY <1>4, <2>6, <2>7 DEF new, r
<1> QED
  BY <1>5, <1>6

\* Samples that are written.
LEMMA FlushKeepsThorough ==
    ASSUME TypeInv, Thorough(g_mod, rows, ring), NEW n \in Nat, NEW lost
    PROVE  Thorough(g_mod, RowsAfterFlush(n, lost), RingAfterFlush(n))
<1> DEFINE files == RowsAfterFlush(n, lost)
           r == RingAfterFlush(n)
           d == Flushed(n)
<1>1. RingOK(ring) /\ rows \in [Uuids -> SUBSET Times] /\ Len(ring) \in Nat
  BY RingTyped DEF TypeInv
<1>2. /\ d \in 0 .. Len(ring) /\ Len(r) = Len(ring) - d
      /\ \A i \in 1 .. Len(r) : r[i] = ring[i + d]
  BY <1>1, DrainFacts DEF Slid
<1>3. \A u \in Uuids : \A t \in files[u] :
          t \in rows[u] \/ \E i \in 1 .. d : ring[i].uuid = u /\ ring[i].ts = t
  BY <1>1, FlushFacts
<1> HIDE DEF files, r, d
<1>4. \A i \in 1 .. d : i \in 1 .. Len(ring)
  BY <1>1, <1>2
<1>5. \A i \in 1 .. Len(r) : i + d \in 1 .. Len(ring)
  BY <1>1, <1>2
<1>6. \A m \in Mods : g_mod[m] # Unused => g_mod[m].uuid \in Uuids
  BY SlotCases DEF TypeInv
<1>7. Thorough(g_mod, files, r)
  <2> SUFFICES ASSUME NEW m \in Mods, g_mod[m] # Unused, g_mod[m].keep > 0,
                      g_mod[m].next_prune > 0, ~g_mod[m].missed
               PROVE  /\ \A t \in files[g_mod[m].uuid] :
                             t + g_mod[m].keep + PruneEvery >= g_mod[m].next_prune
                      /\ \A i \in 1 .. Len(r) :
                             r[i].uuid = g_mod[m].uuid =>
                                 r[i].ts + g_mod[m].keep + PruneEvery >= g_mod[m].next_prune
    BY DEF Thorough
  <2>1. /\ \A t \in rows[g_mod[m].uuid] :
               t + g_mod[m].keep + PruneEvery >= g_mod[m].next_prune
        /\ \A i \in 1 .. Len(ring) :
               ring[i].uuid = g_mod[m].uuid =>
                   ring[i].ts + g_mod[m].keep + PruneEvery >= g_mod[m].next_prune
    BY DEF Thorough
  <2>2. ASSUME NEW t \in files[g_mod[m].uuid]
        PROVE  t + g_mod[m].keep + PruneEvery >= g_mod[m].next_prune
    <3>1. CASE t \in rows[g_mod[m].uuid]
      BY <2>1, <3>1
    <3>2. CASE t \notin rows[g_mod[m].uuid]
      <4>1. PICK i \in 1 .. d : ring[i].uuid = g_mod[m].uuid /\ ring[i].ts = t
        BY <1>3, <1>6, <2>2, <3>2
      <4> QED
        BY <1>4, <2>1, <4>1
    <3> QED
      BY <3>1, <3>2
  <2>3. ASSUME NEW i \in 1 .. Len(r), r[i].uuid = g_mod[m].uuid
        PROVE  r[i].ts + g_mod[m].keep + PruneEvery >= g_mod[m].next_prune
    BY <1>2, <1>5, <2>1, <2>3
  <2> QED
    BY <2>2, <2>3
<1> QED
  BY <1>7 DEF files, r

\* What prune_module deletes, and when it puts the module off.
LEMMA PruneKeepsThorough ==
    ASSUME RingDrains, TypeInv, RingTimes(ring), PruneInv, pc = "prune",
           NEW m \in Mods, g_mod[m] # Unused, prune_module(m)
    PROVE  Thorough(g_mod', rows', ring)
<1> DEFINE u == g_mod[m].uuid
<1>1. /\ u \in Uuids /\ g_mod[m] \in Mod
      /\ \A v \in Uuids : rows'[v] \in SUBSET rows[v]
      /\ \A j \in Mods : \/ g_mod'[j] = g_mod[j]
                         \/ /\ j = m
                            /\ g_mod'[j].uuid = u /\ g_mod'[j].keep = g_mod[j].keep
                            /\ g_mod'[j].next_prune = now + PruneEvery
                            /\ \/ g_mod'[j].missed \/ g_mod[j].keep = 0
                               \/ rows'[u] \intersect Overdue(m) = {}
  BY PruneFacts
<1>2. /\ now \in Nat /\ RingCap \in Nat /\ FlushRows \in Nat \ {0}
      /\ PruneEvery \in Nat /\ g_mod[m].keep \in Nat
      /\ rows \in [Uuids -> SUBSET Times]
      /\ \A i \in 1 .. Len(ring) : ring[i].ts \in Nat
  BY <1>1, Numbers, RingTyped DEF TypeInv
<1> HIDE DEF u
<1> SUFFICES ASSUME NEW j \in Mods, g_mod'[j] # Unused, g_mod'[j].keep > 0,
                    g_mod'[j].next_prune > 0, ~g_mod'[j].missed
             PROVE  /\ \A t \in rows'[g_mod'[j].uuid] :
                           t + g_mod'[j].keep + PruneEvery >= g_mod'[j].next_prune
                    /\ \A i \in 1 .. Len(ring) :
                           ring[i].uuid = g_mod'[j].uuid =>
                               ring[i].ts + g_mod'[j].keep + PruneEvery
                                   >= g_mod'[j].next_prune
  BY DEF Thorough
<1>4. CASE g_mod'[j] = g_mod[j]
  <2>1. g_mod[j].uuid \in Uuids
    BY <1>4, SlotCases DEF TypeInv
  <2> QED
    BY <1>1, <1>4, <2>1 DEF PruneInv, Thorough
<1>5. CASE g_mod'[j] # g_mod[j]
  <2> DEFINE k == g_mod[m].keep
  <2>1. /\ g_mod'[j].uuid = u /\ g_mod'[j].keep = k /\ g_mod'[j].next_prune = now + PruneEvery
        /\ rows'[u] \intersect Overdue(m) = {} /\ k > 0
    BY <1>1, <1>2, <1>5
  <2>3. ASSUME NEW t \in rows'[u]
        PROVE  t + k + PruneEvery >= now + PruneEvery
    <3>1. t \in rows[u] /\ t \notin Overdue(m) /\ t \in Nat
      <4>1. t \in rows[u]
        BY <1>1
      <4>2. rows[u] \in SUBSET Times
        BY <1>1, <1>2
      <4>3. t \in Nat
        BY <4>1, <4>2, TimesFinite
      <4> QED
        BY <2>1, <4>1, <4>3
    <3>2. ~(t + k < now)
      BY <3>1 DEF Overdue, u
    <3> QED
      BY <1>2, <3>1, <3>2
  <2>4. ASSUME NEW i \in 1 .. Len(ring)
        PROVE  ring[i].ts + k + PruneEvery >= now + PruneEvery
    <3> DEFINE wait == now - ring[i].ts
    <3>1. i + FlushRows + FlushRows * wait <= RingCap
      BY DEF PruneInv, Waiting, Waited
    <3>2. wait \in Nat
      BY <1>2, RingTimes(ring) DEF RingTimes
    <3>3. RingCap <= FlushRows * (k + 2)
      <4>1. k \in Keeps \union {KeepDefault}
        BY <1>1 DEF Mod
      <4> QED
        BY <2>1, <4>1 DEF RingDrains
    <3>4. i \in Nat \ {0} /\ k \in Nat
      BY <1>2, RingTyped DEF TypeInv
    <3> HIDE DEF wait, k
    <3>5. FlushRows * (wait + 1) = FlushRows + FlushRows * wait /\ FlushRows * wait \in Nat
      BY <1>2, <3>2
    <3>6. FlushRows * (wait + 1) < FlushRows * (k + 2)
      BY <1>2, <3>1, <3>3, <3>4, <3>5
    <3>7. wait + 1 < k + 2
      <4> DEFINE a == wait + 1
                 b == k + 2
      <4>1. a \in Nat /\ b \in Nat /\ FlushRows * a < FlushRows * b
        BY <3>2, <3>4, <3>6
      <4> HIDE DEF a, b
      <4>2. a < b
        BY <1>2, <4>1
      <4> QED
        BY <4>2 DEF a, b
    <3>8. wait <= k
      BY <3>2, <3>4, <3>7
    <3> QED
      BY <1>2, <3>2, <3>4, <3>8 DEF wait
  <2> QED
    BY <2>1, <2>3, <2>4
<1> QED
  BY <1>4, <1>5

\* Every step keeps the invariant of pruning.
LEMMA PruneStep ==
    ASSUME RingDrains, TypeInv, RingInv, PruneInv, [Next]_vars
    PROVE  PruneInv'
<1>0. /\ Thorough(g_mod, rows, ring) /\ Soon(g_mod) /\ Waiting(ring, Waited)
      /\ pc \in {"off", "boot", "migrate"} => \A m \in Mods : g_mod[m].next_prune = 0
      /\ RingTimes(ring) /\ TableOK(g_mod) /\ RingOK(ring)
      /\ rows \in [Uuids -> SUBSET Times] /\ RingCap \in Nat /\ FlushRows \in Nat
      /\ now \in Nat /\ Len(ring) \in Nat /\ PruneEvery \in Nat
      /\ Unused.next_prune = 0
  BY Numbers, RingTyped DEF PruneInv, RingInv, TypeInv, Unused
<1>a. ASSUME Thorough(g_mod', rows', ring'), Soon(g_mod'),
             Waiting(ring', 0), pc' # "prune", now' = now,
             pc' \in {"off", "boot", "migrate"} => \A m \in Mods : g_mod'[m].next_prune = 0
      PROVE  PruneInv'
  BY <1>a DEF PruneInv, Thorough, Soon, Waiting, Waited
<1>b. ASSUME Eased(g_mod'), UNCHANGED <<rows, ring, now, pc>>
      PROVE  PruneInv'
  <2>1. /\ Thorough(g_mod', rows, ring) /\ Soon(g_mod')
        /\ (\A m \in Mods : g_mod[m].next_prune = 0) =>
               \A m \in Mods : g_mod'[m].next_prune = 0
    BY <1>0, <1>b, EasedKeeps
  <2> QED
    BY <1>0, <1>b, <2>1 DEF PruneInv, Thorough, Soon, Waiting, Waited
<1>c. pc # "prune" => Waiting(ring, 0)
  BY <1>0 DEF Waited
<1>d. ASSUME NEW u \in Uuids, NEW k \in Keeps, pc # "prune", pc' = pc,
             OpenModule(u, k) \/ OpenFails(u, k)
      PROVE  PruneInv'
  <2>1. CASE OpenModule(u, k)
    <3>1. PICK r \in mf_history_register(u) :
                /\ g_mod' = Stamp(SetKeep(r.mods, u, k), u)
                /\ ring' = Queue(SetKeep(r.mods, u, k), u)
      BY <2>1 DEF OpenModule
    <3> DEFINE mods == SetKeep(r.mods, u, k)
    <3>2. TableOK(mods) /\ Eased(mods)
      BY EasedTables
    <3>3. g_mod' = Stamp(mods, u) /\ ring' = Queue(mods, u) /\ UNCHANGED <<rows, now>>
      BY <2>1, <3>1 DEF OpenModule
    <3> HIDE DEF mods
    <3>4. /\ Thorough(mods, rows, ring) /\ Soon(mods)
          /\ (\A m \in Mods : g_mod[m].next_prune = 0) =>
                 \A m \in Mods : mods[m].next_prune = 0
      BY <1>0, <3>2, EasedKeeps
    <3>5. /\ Thorough(g_mod', rows, ring') /\ Soon(g_mod') /\ Waiting(ring', 0)
          /\ (\A m \in Mods : mods[m].next_prune = 0) =>
                 \A m \in Mods : g_mod'[m].next_prune = 0
      BY <1>0, <1>c, <1>d, <3>2, <3>3, <3>4, QueueKeepsPruning
    <3> QED
      BY <1>0, <1>a, <1>d, <3>3, <3>4, <3>5
  <2>2. CASE OpenFails(u, k)
    <3>1. PICK r \in mf_history_register(u) : g_mod' = SetKeep(r.mods, u, k)
      BY <2>2 DEF OpenFails
    <3>2. Eased(g_mod') /\ UNCHANGED <<rows, ring, now>>
      BY <2>2, <3>1, EasedTables DEF OpenFails
    <3> QED
      BY <1>b, <1>d, <3>2
  <2> QED
    BY <1>d, <2>1, <2>2
<1>1. ASSUME NEW u \in Uuids, NEW k \in Keeps, mf_devices_add(u, k) \/ BootAdd(u, k)
      PROVE  PruneInv'
  BY <1>1, <1>d DEF mf_devices_add, BootAdd, Serving
<1>2. ASSUME NEW u \in Uuids, NEW k \in Keeps,
             PatchModule(u, k) \/ mf_history_set_retention(u, k)
      PROVE  PruneInv'
  <2>1. /\ \/ \E r \in mf_history_register(u) : g_mod' = SetKeep(r.mods, u, k)
           \/ g_mod' = SetKeep(g_mod, u, k)
        /\ UNCHANGED <<rows, ring, now, pc>>
    BY <1>2 DEF PatchModule, mf_history_set_retention, loop, disk
  <2>2. Eased(g_mod')
    BY <2>1, EasedTables
  <2> QED
    BY <1>b, <2>1, <2>2
<1>3. ASSUME NEW u \in Uuids, RemoveModule(u)
      PROVE  PruneInv'
  <2>1. /\ pc = "run" /\ UNCHANGED <<pc, now>>
        /\ (mf_history_retire(u) \/ UNCHANGED <<g_mod, ring, rows>>)
    BY <1>3 DEF RemoveModule, Serving, loop
  <2>2. CASE UNCHANGED <<g_mod, ring, rows>>
    BY <1>b, <2>1, <2>2 DEF Eased
  <2>3. CASE /\ \E lost \in Losses(RingCap) : rows' = RowsAfterFlush(RingCap, lost)
             /\ ring' = RingAfterFlush(RingCap)
             /\ g_mod' = CloseMod(g_mod, u)
    <3>1. Thorough(g_mod, rows', ring')
      BY <1>0, <2>3, FlushKeepsThorough
    <3>2. \A m \in Mods : g_mod'[m].next_prune = 0 \/ g_mod'[m] = g_mod[m]
      BY <1>0, <2>3, CloseFacts
    <3>3. Thorough(g_mod', rows', ring')
      BY <3>1, <3>2 DEF Thorough
    <3>4. Soon(g_mod')
      BY <1>0, <3>2 DEF Soon
    <3>5. Waiting(ring', 0)
      BY <1>0, <1>c, <2>1, <2>3, DrainFacts, SlidKeepsWaiting
    <3> QED
      BY <1>a, <2>1, <3>3, <3>4, <3>5
  <2> QED
    BY <2>1, <2>2, <2>3 DEF mf_history_retire
<1>4. ASSUME NEW u \in Uuids, ReplaceModule(u) \/ ModuleExit(u)
      PROVE  PruneInv'
  BY <1>4, <1>b DEF ReplaceModule, ModuleExit, loop, disk, Eased
<1>5. ASSUME NEW u \in Uuids, ModuleStep(u)
      PROVE  PruneInv'
  <2>1. /\ g_mod' = Stamp(g_mod, u) /\ ring' = Queue(g_mod, u)
        /\ pc = "run" /\ UNCHANGED <<rows, pc, now>>
    BY <1>5 DEF ModuleStep, Serving, loop, disk
  <2>2. Thorough(g_mod', rows, ring') /\ Soon(g_mod') /\ Waiting(ring', 0)
    BY <1>0, <1>c, <2>1, QueueKeepsPruning
  <2> QED
    BY <1>a, <2>1, <2>2
<1>6. CASE PassEnds \/ Boot \/ BootDone \/ MigrateEnds
  <2>1. /\ UNCHANGED <<g_mod, rows, ring, now>> /\ pc # "prune" /\ pc' # "prune"
        /\ pc' \in {"off", "boot", "migrate"} => pc \in {"off", "boot", "migrate"}
    BY <1>6 DEF PassEnds, Boot, BootDone, MigrateEnds, disk
  <2> QED
    BY <1>0, <1>a, <1>c, <2>1
<1>7. CASE mf_history_flush_slice
  <2>1. /\ \E lost \in Losses(FlushRows) : rows' = RowsAfterFlush(FlushRows, lost)
        /\ ring' = RingAfterFlush(FlushRows)
        /\ pc = "flush" /\ pc' = "prune" /\ UNCHANGED <<g_mod, now>>
    BY <1>7 DEF mf_history_flush_slice
  <2>2. Thorough(g_mod, rows', ring')
    BY <1>0, <2>1, FlushKeepsThorough
  <2>3. /\ Slid(ring', Flushed(FlushRows))
        /\ Flushed(FlushRows) = FlushRows \/ Len(ring') = 0
    <3>1. FlushRows \in Nat /\ RingOK(ring)
      BY <1>0, BoundAssumption DEF TypeInv, TypeRest
    <3>2. /\ Slid(ring', Flushed(FlushRows))
          /\ Flushed(FlushRows) = IF FlushRows < Len(ring) THEN FlushRows ELSE Len(ring)
      BY <2>1, <3>1, DrainFacts
    <3>3. ring \in Seq(Sample) /\ Len(ring) \in Nat
      BY <3>1 DEF RingOK
    <3> QED
      BY <3>1, <3>2, <3>3 DEF Slid
  <2>4. Waiting(ring', FlushRows)
    BY <1>0, <1>c, <2>1, <2>3, SlidKeepsWaiting
  <2> QED
    BY <1>0, <2>1, <2>2, <2>4 DEF PruneInv, Thorough, Soon, Waiting, Waited
<1>8. CASE mf_history_prune_slice
  <2>1. /\ at <= MaxModules /\ pc = "prune" /\ UNCHANGED <<ring, now, pc>>
        /\ \/ g_mod[at] # Unused /\ prune_module(at)
           \/ UNCHANGED <<g_mod, rows>>
    BY <1>8 DEF mf_history_prune_slice
  <2>2. CASE UNCHANGED <<g_mod, rows>>
    BY <1>b, <2>1, <2>2 DEF Eased
  <2>3. CASE g_mod[at] # Unused /\ prune_module(at)
    <3>1. at \in Mods
      BY <2>1, Numbers DEF Mods, TypeInv, TypeRest
    <3>2. Thorough(g_mod', rows', ring)
      BY <1>0, <2>1, <2>3, <3>1, PruneKeepsThorough
    <3>3. \A j \in Mods : g_mod'[j] = g_mod[j] \/ g_mod'[j].next_prune = now + PruneEvery
      BY <2>3, <3>1, PruneFacts
    <3>4. Soon(g_mod')
      BY <1>0, <3>3 DEF Soon
    <3> QED
      BY <1>0, <2>1, <3>2, <3>4 DEF PruneInv, Thorough, Soon, Waiting, Waited
  <2> QED
    BY <2>1, <2>2, <2>3
<1>9. CASE PruneEnds
  <2>1. /\ pc = "prune" /\ pc' = "run" /\ UNCHANGED <<g_mod, rows, ring>>
        /\ now' = now \/ now' = now + 1
    BY <1>9 DEF PruneEnds, disk
  <2>2. \A m \in Mods : g_mod[m].next_prune \in Nat
    BY <1>0, SlotCases, Numbers
  <2>3. \A m \in Mods : g_mod[m].next_prune <= now' + PruneEvery
    BY <1>0, <2>1, <2>2 DEF Soon
  <2>4. ASSUME NEW i \in 1 .. Len(ring)
        PROVE  i + 0 + FlushRows * (now' - ring[i].ts) <= RingCap
    <3> DEFINE wait == now - ring[i].ts
    <3>1. i + FlushRows + FlushRows * wait <= RingCap
      BY <1>0, <2>1 DEF Waiting, Waited
    <3>2. wait \in Nat /\ (now' - ring[i].ts = wait \/ now' - ring[i].ts = wait + 1)
      BY <1>0, <2>1, RingTyped DEF RingTimes
    <3> HIDE DEF wait
    <3>3. FlushRows * (wait + 1) = FlushRows + FlushRows * wait /\ FlushRows * wait \in Nat
      BY <1>0, <3>2
    <3>4. i \in Nat
      BY <1>0
    <3>5. i + 0 + FlushRows * wait <= RingCap /\ i + 0 + FlushRows * (wait + 1) <= RingCap
      BY <1>0, <3>1, <3>3, <3>4
    <3> QED
      BY <3>2, <3>5
  <2> QED
    BY <1>0, <2>1, <2>3, <2>4 DEF PruneInv, Thorough, Soon, Waiting, Waited
<1>10. ASSUME NEW u \in Uuids, migrate_one(u)
       PROVE  PruneInv'
  <2>1. /\ UNCHANGED <<rows, ring, now, pc>>
        /\ \A m \in Mods : SlotOf(g_mod', m, u)
    BY <1>10, MigrateOneFacts
  <2>2. Eased(g_mod')
    BY <2>1, EasedTables
  <2> QED
    BY <1>b, <2>1, <2>2
<1>11. CASE MigrateCommit
  <2>1. /\ cur # None /\ UNCHANGED <<ring, now, pc>>
        /\ g_mod' = g_mod \/ g_mod' = CloseMod(g_mod, cur.uuid)
    BY <1>11, CommitFacts
  <2>2. cur.uuid \in Uuids /\ pc = "migrate"
    BY <2>1 DEF TypeInv, TypeFlags, RingInv
  <2>3. \A m \in Mods : g_mod'[m].next_prune = 0 \/ g_mod'[m] = g_mod[m]
    BY <1>0, <2>1, <2>2, CloseFacts
  <2>4. \A m \in Mods : g_mod'[m].next_prune = 0
    BY <1>0, <2>2, <2>3
  <2>5. Thorough(g_mod', rows', ring') /\ Soon(g_mod')
    BY <1>0, <2>4 DEF Thorough, Soon
  <2> QED
    BY <1>a, <1>c, <2>1, <2>2, <2>4, <2>5
<1>12. CASE MigrateRollback
  BY <1>12, <1>b DEF MigrateRollback, disk, Eased
<1>13. CASE Stop
  <2>1. /\ \A m \in Mods : g_mod'[m].next_prune = 0
        /\ ring' = <<>> /\ now' = now /\ pc' = "off"
    BY <1>0, <1>13 DEF Stop
  <2>2. Len(ring') = 0
    BY <2>1
  <2>3. Thorough(g_mod', rows', ring') /\ Soon(g_mod') /\ Waiting(ring', 0)
    BY <1>0, <2>1, <2>2 DEF Thorough, Soon, Waiting
  <2> QED
    BY <1>a, <2>1, <2>3
<1>14. CASE UNCHANGED vars
  BY <1>14, <1>b DEF vars, loop, disk, Eased
<1> QED
  BY <1>1, <1>2, <1>3, <1>4, <1>5, <1>6, <1>7, <1>8, <1>9, <1>10, <1>11, <1>12, <1>13,
     <1>14 DEF Next

\* When prune_module puts a module off, its file holds no row that was overdue
\* then, and gets none from the ring before it is due again, unless its DELETE
\* failed; if the ring is written out in less time than the shortest policy.
THEOREM PruneThoroughHolds ==
    ASSUME RingDrains
    PROVE  Spec => []PruneThorough
<1>1. Init => PruneInv
  <2> SUFFICES ASSUME Init
               PROVE  PruneInv
    OBVIOUS
  <2>1. Len(ring) = 0 /\ now \in Nat /\ PruneEvery \in Nat
        /\ \A m \in Mods : g_mod[m] = Unused /\ g_mod[m].next_prune = 0
    BY BoundAssumption DEF Init, Unused, Times
  <2> QED
    BY <2>1 DEF PruneInv, Thorough, Soon, Waiting
<1>2. TypeInv /\ RingInv /\ PruneInv /\ [Next]_vars => PruneInv'
  BY PruneStep
<1>3. PruneInv => PruneThorough
  BY DEF PruneInv, PruneThorough, Thorough
<1> QED
  BY <1>1, <1>2, <1>3, TypeAlways, RingAlways, PTL DEF Spec
=============================================================================
