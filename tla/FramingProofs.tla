---------------------------- MODULE FramingProofs ----------------------------
(***************************************************************************)
(* Proofs about the framers: that the framer of the Magnum bus and the     *)
(* assembler of the JK battery account for every byte once, and that what  *)
(* they pass on does not depend on how the bytes were split between reads. *)
(*                                                                         *)
(* Both are loops over a buffer.  That a loop's recursive function is what *)
(* its definition says, and that what holds where it stops holds wherever  *)
(* it starts, follows from a measure that falls in every turn.  A byte     *)
(* that comes late is then followed through the turns: a turn that makes   *)
(* progress makes the same with more bytes behind the buffer, except one   *)
(* that skips what it cannot use, which skips the rest in the next turn.   *)
(***************************************************************************)
EXTENDS Parts, PartProofs

----------------------------------------------------------------------------
(* Loops: what one is left with when a measure falls in every turn. *)

\* Of states of a loop one has the least measure.
LEMMA LeastMeasure ==
    ASSUME NEW S, NEW m \in [S -> Nat], NEW B \in SUBSET S, B # {}
    PROVE  \E x \in B : \A y \in B : m[x] <= m[y]
<1> DEFINE M == {m[x] : x \in B}
<1>1. M \subseteq Nat /\ M # {}
  OBVIOUS
<1>2. \A y \in B : m[y] \in M
  OBVIOUS
<1>3. \A n \in M : \E x \in B : n = m[x]
  OBVIOUS
<1> HIDE DEF M
<1>4. PICK n \in M : \A k \in M : n <= k
  BY <1>1, Least
<1>5. PICK x \in B : n = m[x]
  BY <1>3
<1>6. QED BY <1>2, <1>4, <1>5

\* The measure m falls in every turn T before the loop stops.
Falls(S, stop, T, m) == \A x \in S \ stop : m[T[x]] < m[x]

\* P holds where the loop stops, and before a turn when it holds behind it.
Inherited(S, stop, T, P) == \A x \in S : x \in stop \/ T[x] \in P => x \in P

\* What holds where the loop stops, and before a turn when it holds behind it,
\* holds everywhere.
LEMMA LoopInduction ==
    ASSUME NEW S, NEW stop, stop \in SUBSET S, NEW T, T \in [S -> S],
           NEW m, m \in [S -> Nat], Falls(S, stop, T, m),
           NEW P, P \in SUBSET S, Inherited(S, stop, T, P)
    PROVE  P = S
<1>0. /\ \A x \in S \ stop : m[T[x]] < m[x]
      /\ \A x \in S : x \in stop \/ T[x] \in P => x \in P
  BY DEF Falls, Inherited
<1> DEFINE B == S \ P
<1> SUFFICES ASSUME B # {} PROVE FALSE
  OBVIOUS
<1>1. PICK x \in B : \A y \in B : m[x] <= m[y]
  BY LeastMeasure
<1>2. x \in S \ stop /\ T[x] \in B
  BY <1>0
<1>3. m[T[x]] < m[x] /\ m[x] <= m[T[x]] /\ m[x] \in Nat /\ m[T[x]] \in Nat
  BY <1>0, <1>1, <1>2
<1>4. QED BY <1>3

\* f is what a loop of turns T ends with that stops with G.
IsLoop(f, S, R, stop, T, G) ==
    /\ f \in [S -> R]
    /\ \A x \in stop : f[x] = G[x]
    /\ \A x \in S \ stop : f[x] = f[T[x]]

\* The recursive function that a loop is exists.
LEMMA LoopExists ==
    ASSUME NEW S, NEW R, NEW stop, stop \in SUBSET S, NEW T, T \in [S -> S],
           NEW G, G \in [S -> R], NEW m, m \in [S -> Nat], Falls(S, stop, T, m)
    PROVE  \E f : IsLoop(f, S, R, stop, T, G)
<1>0. \A x \in S \ stop : m[T[x]] < m[x]
  BY DEF Falls
<1> DEFINE Closed(C) == \A c \in C \ stop : T[c] \in C
           Orbit(x) == {y \in S : \A C \in SUBSET S : x \in C /\ Closed(C) => y \in C}
           Ends(x) == Orbit(x) \cap stop
           end(x) == CHOOSE y : y \in Ends(x)
           L == [x \in S |-> G[end(x)]]
<1>1. ASSUME NEW x \in S PROVE x \in Orbit(x)
  OBVIOUS
<1>2. ASSUME NEW x \in S, NEW c \in Orbit(x) \ stop PROVE T[c] \in Orbit(x)
  OBVIOUS
<1>3. ASSUME NEW x \in S \ stop PROVE Orbit(x) = {x} \union Orbit(T[x])
  <2>1. T[x] \in S /\ T[x] \in Orbit(T[x])
    BY <1>1
  <2>2. ASSUME NEW y \in Orbit(T[x]) PROVE y \in Orbit(x)
    OBVIOUS
  <2> DEFINE D == {x} \union Orbit(T[x])
  <2>3. D \in SUBSET S /\ x \in D
    OBVIOUS
  <2>4. Closed(D)
    BY <1>2, <2>1
  <2>5. ASSUME NEW y \in Orbit(x) PROVE y \in D
    <3> HIDE DEF D, Closed
    <3>1. QED BY <2>3, <2>4
  <2>6. x \in Orbit(x)
    BY <1>1
  <2> HIDE DEF Orbit
  <2>7. QED BY <2>2, <2>5, <2>6
<1>4. ASSUME NEW x \in S \ stop PROVE Ends(x) = Ends(T[x])
  <2> HIDE DEF Orbit
  <2>1. QED BY <1>3
<1>5. ASSUME NEW x \in stop PROVE Ends(x) = {x}
  <2>1. Closed({x}) /\ {x} \in SUBSET S
    OBVIOUS
  <2>2. Orbit(x) \subseteq {x}
    <3> HIDE DEF Closed
    <3>1. QED BY <2>1
  <2>3. x \in Orbit(x)
    BY <1>1
  <2> HIDE DEF Orbit
  <2>4. QED BY <2>2, <2>3
<1> HIDE DEF Orbit, Closed
<1>6. \A x \in S : Ends(x) # {}
  <2> DEFINE P == {x \in S : Ends(x) # {}}
  <2> HIDE DEF Ends
  <2>1. \A x \in S : x \in stop \/ T[x] \in P => x \in P
    BY <1>4, <1>5
  <2>2. P \in SUBSET S
    OBVIOUS
  <2> HIDE DEF P
  <2>3. Inherited(S, stop, T, P)
    BY <2>1 DEF Inherited
  <2>4. P = S
    BY <2>2, <2>3, LoopInduction
  <2>5. QED BY <2>4 DEF P
<1>7. \A x \in S : end(x) \in Ends(x)
  BY <1>6
<1>8. \A x \in S : end(x) \in S
  BY <1>7
<1>9. ASSUME NEW x \in S PROVE L[x] = IF x \in stop THEN G[x] ELSE L[T[x]]
  <2>1. CASE x \in stop
    <3>1. end(x) = x
      BY <1>5, <1>7, <2>1
    <3> HIDE DEF end
    <3>2. QED BY <2>1, <3>1
  <2>2. CASE x \notin stop
    <3>1. T[x] \in S /\ end(x) = end(T[x])
      BY <1>4, <2>2
    <3> HIDE DEF end
    <3>2. QED BY <2>2, <3>1
  <2>3. QED BY <2>1, <2>2
<1>10. L \in [S -> R]
  <2> HIDE DEF end
  <2>1. QED BY <1>8
<1> HIDE DEF L
<1>11. IsLoop(L, S, R, stop, T, G)
  BY <1>9, <1>10 DEF IsLoop
<1>12. QED BY <1>11

----------------------------------------------------------------------------
(* The assembler. *)

\* A header is found where two bytes are one.
LEMMA HeaderAt ==
    ASSUME NEW b, NEW from, NEW i
    PROVE  i \in Headers(b, from) <=> i \in from .. Len(b) - 1 /\ b[i] = 1 /\ b[i + 1] = 2
BY DEF Headers, JK_HEADER_RSP

\* The first of some positions.
LEMMA FirstOf ==
    ASSUME NEW X, X \subseteq Nat, X # {}
    PROVE  Min(X) \in X /\ \A y \in X : Min(X) <= y
<1>1. \E x \in X : \A y \in X : x <= y
  BY Least
<1>2. QED BY <1>1 DEF Min

\* The larger of nothing and a number.
LEMMA MaxWithNothing ==
    ASSUME NEW n \in Int
    PROVE  Max({0, n}) = IF n > 0 THEN n ELSE 0
<1>1. \E x \in {0, n} : \A y \in {0, n} : x >= y
  OBVIOUS
<1>2. QED BY <1>1 DEF Max

\* Bytes are dropped from the front.
LEMMA DroppedBytes ==
    ASSUME NEW a \in Assemblers, NEW n \in 0 .. Len(a.buf)
    PROVE  /\ DropBytes(a, n) \in Assemblers
           /\ DropBytes(a, n).out = a.out /\ DropBytes(a, n).owed = a.owed - n
           /\ Len(DropBytes(a, n).buf) = Len(a.buf) - n
           /\ \A i \in 1 .. Len(a.buf) - n : DropBytes(a, n).buf[i] = a.buf[i + n]
<1> DEFINE b == a.buf
           d == SubSeq(b, n + 1, Len(b))
<1>1. b \in Seq(AsmBytes) /\ a.owed \in Int /\ a.out \in Nat
  BY DEF Assemblers
<1>2. /\ d \in Seq(AsmBytes) /\ Len(d) = Len(b) - n
      /\ \A i \in 1 .. Len(b) - n : d[i] = b[i + n]
  BY <1>1
<1>3. DropBytes(a, n) = [a EXCEPT !.buf = d, !.owed = @ - n]
  BY DEF DropBytes
<1> HIDE DEF d
<1>4. DropBytes(a, n) = [buf |-> d, owed |-> a.owed - n, out |-> a.out]
  BY <1>3 DEF Assemblers
<1>5. QED BY <1>1, <1>2, <1>4 DEF Assemblers

\* d is a without the first n of its l bytes.
Shortened(a, l, n, d) ==
    /\ d \in Assemblers /\ d.out = a.out /\ d.owed = a.owed - n
    /\ Len(d.buf) = l - n /\ \A i \in 1 .. l - n : d.buf[i] = a.buf[i + n]
\* What is left when bytes are dropped.
LEMMA Dropping ==
    ASSUME NEW a \in Assemblers, NEW l, l = Len(a.buf), NEW n, n \in 0 .. l,
           NEW d, d = DropBytes(a, n)
    PROVE  Shortened(a, l, n, d)
BY DroppedBytes DEF Shortened

\* How much is dropped for the next header.
Skipped(a, from) ==
    LET hs == Headers(a.buf, from)
    IN IF hs # {} THEN Min(hs) - 1 ELSE IF Len(a.buf) > 2 THEN Len(a.buf) - 2 ELSE 0

\* Looking for a header drops what is before it.
LEMMA SeekDrops ==
    ASSUME NEW a \in Assemblers, NEW from \in {1, 2}
    PROVE  /\ Seek(a, from) = DropBytes(a, Skipped(a, from))
           /\ Skipped(a, from) \in 0 .. Len(a.buf)
           /\ Headers(a.buf, from) # {} => Min(Headers(a.buf, from)) \in Headers(a.buf, from)
           /\ \A i \in Headers(a.buf, from) : Min(Headers(a.buf, from)) <= i
<1> DEFINE hs == Headers(a.buf, from)
<1>1. Len(a.buf) \in Nat
  BY DEF Assemblers
<1>2. hs \subseteq 1 .. Len(a.buf) - 1 /\ hs \subseteq Nat
  BY <1>1, HeaderAt
<1>3. CASE hs # {}
  <2>1. Min(hs) \in hs /\ \A y \in hs : Min(hs) <= y
    BY <1>2, <1>3, FirstOf
  <2>2. QED BY <1>1, <1>2, <1>3, <2>1 DEF Seek, Skipped
<1>4. CASE hs = {}
  <2>1. Max({0, Len(a.buf) - 2}) = IF Len(a.buf) > 2 THEN Len(a.buf) - 2 ELSE 0
    BY <1>1, MaxWithNothing
  <2>2. QED BY <1>1, <1>4, <2>1 DEF Seek, Skipped
<1>5. QED BY <1>3, <1>4

\* Where DrainOne stops, with what, and how it goes on.
AtRest(a) ==
    LET hs == Headers(a.buf, 1)
    IN hs = {} \/ (1 \in hs /\ (Len(a.buf) < JK_FRAME_SIZE \/ IsGood(a.buf)))

\* What the assembler is left with at rest: a frame less, or nothing to pass on.
Result(a) ==
    IF Headers(a.buf, 1) = {} THEN Seek(a, 1)
    ELSE IF Len(a.buf) < JK_FRAME_SIZE THEN a
    ELSE [DropBytes(a, JK_FRAME_SIZE) EXCEPT !.out = @ + 1]

\* The loop goes on behind what is no header, or behind a header of a bad frame.
Further(a) == IF 1 \in Headers(a.buf, 1) THEN Seek(a, 2) ELSE Seek(a, 1)

\* Every turn of the loop drops bytes and accounts for them.
LEMMA FurtherDrops ==
    ASSUME NEW a \in Assemblers
    PROVE  /\ Further(a) \in Assemblers
           /\ ~AtRest(a) => /\ Len(Further(a).buf) < Len(a.buf)
                          /\ Len(a.buf) \in Nat /\ Len(Further(a).buf) \in Nat
           /\ Further(a).out = a.out /\ Further(a).owed - Len(Further(a).buf) = a.owed - Len(a.buf)
<1> DEFINE from == IF 1 \in Headers(a.buf, 1) THEN 2 ELSE 1
           n == Skipped(a, from)
<1>1. from \in {1, 2} /\ Further(a) = Seek(a, from)
  BY DEF Further
<1> HIDE DEF from
<1>2. Further(a) = DropBytes(a, n) /\ n \in 0 .. Len(a.buf)
  BY <1>1, SeekDrops
<1>3. ~AtRest(a) => n > 0
  <2> SUFFICES ASSUME ~AtRest(a) PROVE n > 0
    OBVIOUS
  <2> DEFINE hs == Headers(a.buf, from)
  <2>1. CASE hs # {}
    <3>1. Min(hs) \in hs
      BY <1>1, <2>1, SeekDrops
    <3>2. Min(hs) # 1 /\ Min(hs) \in from .. Len(a.buf) - 1
      BY <3>1, HeaderAt DEF from
    <3>3. Len(a.buf) \in Nat
      BY DEF Assemblers
    <3>4. QED BY <1>1, <2>1, <3>2, <3>3 DEF Skipped
  <2>2. CASE hs = {}
    <3>1. Len(a.buf) \in Nat /\ Len(a.buf) >= JK_FRAME_SIZE
      BY <2>2 DEF from, AtRest, Assemblers, JK_FRAME_SIZE
    <3>2. QED BY <2>2, <3>1 DEF Skipped, JK_FRAME_SIZE
  <2>3. QED BY <2>1, <2>2
<1> HIDE DEF n
<1>4. Len(a.buf) \in Nat /\ a.owed \in Int
  BY DEF Assemblers
<1> DEFINE d == DropBytes(a, n)
<1>5. /\ d \in Assemblers /\ d.out = a.out /\ d.owed = a.owed - n
      /\ Len(d.buf) = Len(a.buf) - n
  BY <1>2, DroppedBytes
<1>6. Further(a) = d
  BY <1>2
<1> HIDE DEF d
<1>7. QED BY <1>2, <1>3, <1>4, <1>5, <1>6

\* At rest the assembler passes on a frame, or has less than one, and accounts for it.
LEMMA ResultIs ==
    ASSUME NEW a \in Assemblers, AtRest(a)
    PROVE  /\ Result(a) \in Assemblers
           /\ \/ Result(a).out = a.out /\ Len(Result(a).buf) < JK_FRAME_SIZE
              \/ Result(a).out = a.out + 1 /\ Len(Result(a).buf) = Len(a.buf) - JK_FRAME_SIZE
           /\ Len(Result(a).buf) <= Len(a.buf)
           /\ Result(a).owed - Len(Result(a).buf) = a.owed - Len(a.buf)
<1>1. Len(a.buf) \in Nat /\ a.owed \in Int /\ a.out \in Nat
  BY DEF Assemblers
<1>2. CASE Headers(a.buf, 1) = {}
  <2> DEFINE n == IF Len(a.buf) > 2 THEN Len(a.buf) - 2 ELSE 0
             d == DropBytes(a, n)
  <2>1. Result(a) = d
    BY <1>2, SeekDrops DEF Result, Skipped
  <2>2. n \in 0 .. Len(a.buf) /\ Len(a.buf) - n < 4
    <3>1. \A k \in Nat : LET j == IF k > 2 THEN k - 2 ELSE 0 IN j \in 0 .. k /\ k - j < 4
      OBVIOUS
    <3> HIDE DEF d
    <3>2. QED BY ONLY <1>1, <3>1
  <2> HIDE DEF n
  <2>3. /\ d \in Assemblers /\ d.out = a.out /\ d.owed = a.owed - n
        /\ Len(d.buf) = Len(a.buf) - n
    BY <2>2, DroppedBytes
  <2> HIDE DEF d
  <2>4. QED BY <1>1, <2>1, <2>2, <2>3 DEF JK_FRAME_SIZE
<1>3. CASE Headers(a.buf, 1) # {} /\ Len(a.buf) < JK_FRAME_SIZE
  BY <1>1, <1>3 DEF Result
<1>4. CASE Headers(a.buf, 1) # {} /\ Len(a.buf) >= JK_FRAME_SIZE
  <2> DEFINE d == DropBytes(a, JK_FRAME_SIZE)
  <2>1. Result(a) = [d EXCEPT !.out = @ + 1]
    BY <1>1, <1>4 DEF Result, JK_FRAME_SIZE
  <2>2. JK_FRAME_SIZE \in 0 .. Len(a.buf)
    BY <1>1, <1>4 DEF JK_FRAME_SIZE
  <2>3. /\ d \in Assemblers /\ d.out = a.out /\ d.owed = a.owed - JK_FRAME_SIZE
        /\ Len(d.buf) = Len(a.buf) - JK_FRAME_SIZE
    BY <2>2, DroppedBytes
  <2> HIDE DEF d
  <2>4. Result(a) = [buf |-> d.buf, owed |-> d.owed, out |-> d.out + 1]
    BY <2>1, <2>3 DEF Assemblers
  <2>5. QED BY <1>1, <2>3, <2>4 DEF JK_FRAME_SIZE, Assemblers
<1>5. QED BY <1>1, <1>2, <1>3, <1>4 DEF JK_FRAME_SIZE

\* DrainOne is the loop that it is written as.
LEMMA DrainOneLoop ==
    /\ DrainOne \in [Assemblers -> Assemblers]
    /\ \A a \in Assemblers : DrainOne[a] = IF AtRest(a) THEN Result(a) ELSE DrainOne[Further(a)]
<1> DEFINE stop == {a \in Assemblers : AtRest(a)}
           T == [a \in Assemblers |-> Further(a)]
           G == [a \in Assemblers |-> IF AtRest(a) THEN Result(a) ELSE a]
           m == [a \in Assemblers |-> Len(a.buf)]
           Body(f, a) == IF Headers(a.buf, 1) = {} THEN Seek(a, 1)
                         ELSE IF 1 \notin Headers(a.buf, 1) THEN f[Seek(a, 1)]
                         ELSE IF Len(a.buf) < JK_FRAME_SIZE THEN a
                         ELSE IF IsGood(a.buf)
                         THEN [DropBytes(a, JK_FRAME_SIZE) EXCEPT !.out = @ + 1]
                         ELSE f[Seek(a, 2)]
           Eq(f) == f = [a \in Assemblers |-> Body(f, a)]
<1>1. T \in [Assemblers -> Assemblers]
  BY FurtherDrops
<1>2. m \in [Assemblers -> Nat]
  BY DEF Assemblers
<1>3. G \in [Assemblers -> Assemblers]
  BY ResultIs
<1>4. \A a \in Assemblers \ stop : m[T[a]] < m[a]
  <2> TAKE a \in Assemblers \ stop
  <2>1. T[a] = Further(a) /\ Further(a) \in Assemblers /\ ~AtRest(a)
    BY FurtherDrops
  <2>2. m[T[a]] = Len(Further(a).buf) /\ m[a] = Len(a.buf)
    BY <2>1
  <2>3. QED BY <2>1, <2>2, FurtherDrops
<1>5. stop \in SUBSET Assemblers
  OBVIOUS
<1>6. \A f : \A a \in Assemblers :
          Body(f, a) = IF AtRest(a) THEN Result(a) ELSE f[Further(a)]
  BY DEF AtRest, Result, Further
<1>7. \E f : IsLoop(f, Assemblers, Assemblers, stop, T, G)
  <2> HIDE DEF stop, T, G, m
  <2>1. Falls(Assemblers, stop, T, m)
    BY <1>4 DEF Falls
  <2>2. QED BY <1>1, <1>2, <1>3, <1>5, <2>1, LoopExists
<1>8. \A a \in Assemblers : (a \in stop <=> AtRest(a)) /\ T[a] = Further(a)
                            /\ (AtRest(a) => G[a] = Result(a))
  OBVIOUS
<1> HIDE DEF stop, T, G, m, Body
<1>9. PICK f \in [Assemblers -> Assemblers] :
          \A a \in Assemblers : f[a] = IF AtRest(a) THEN Result(a) ELSE f[Further(a)]
  BY <1>7, <1>8 DEF IsLoop
<1>10. Eq(f)
  <2>1. \A a \in Assemblers : f[a] = Body(f, a)
    BY <1>6, <1>9
  <2>2. QED BY <2>1, <1>9
<1>11. DrainOne = CHOOSE g : Eq(g)
  BY DEF DrainOne, Body
<1>12. Eq(DrainOne)
  <2> HIDE DEF Eq
  <2>1. QED BY <1>10, <1>11
<1>13. \A a \in Assemblers : DrainOne[a] = IF AtRest(a) THEN Result(a) ELSE DrainOne[Further(a)]
  <2>1. \A a \in Assemblers : DrainOne[a] = Body(DrainOne, a)
    BY <1>12
  <2>2. QED BY <2>1, <1>6
<1>14. \A a \in Assemblers : DrainOne[a] \in Assemblers
  <2> DEFINE P == {a \in Assemblers : DrainOne[a] \in Assemblers}
  <2>1. P \in SUBSET Assemblers
    OBVIOUS
  <2>2. Falls(Assemblers, stop, T, m)
    BY <1>4 DEF Falls
  <2>3. ASSUME NEW a \in Assemblers, a \in stop \/ T[a] \in P
        PROVE  DrainOne[a] \in Assemblers
    <3>1. CASE AtRest(a)
      BY <1>13, <3>1, ResultIs
    <3>2. CASE ~AtRest(a)
      BY <1>8, <1>13, <2>3, <3>2
    <3>3. QED BY <3>1, <3>2
  <2>4. Inherited(Assemblers, stop, T, P)
    BY <2>3 DEF Inherited
  <2> HIDE DEF P
  <2>5. P = Assemblers
    BY <1>1, <1>2, <1>5, <2>1, <2>2, <2>4, LoopInduction
  <2>6. QED BY <2>5 DEF P
<1>15. DrainOne \in [Assemblers -> Assemblers]
  BY <1>12, <1>14 DEF Eq
<1>16. QED BY <1>13, <1>15

\* What DrainOne leaves: at most one frame is taken, and nothing is left that
\* could be one when none is.
Drained(a, z) ==
    /\ z \in Assemblers /\ Len(z.buf) <= Len(a.buf)
    /\ z.owed - Len(z.buf) = a.owed - Len(a.buf)
    /\ \/ z.out = a.out /\ Len(z.buf) < JK_FRAME_SIZE
       \/ z.out = a.out + 1 /\ Len(z.buf) + JK_FRAME_SIZE <= Len(a.buf)

\* The numbers of an assembler.
LEMMA AsmNumbers ==
    ASSUME NEW a \in Assemblers
    PROVE  Len(a.buf) \in Nat /\ a.owed \in Int /\ a.out \in Nat /\ a.buf \in Seq(AsmBytes)
BY DEF Assemblers

\* DrainOne can be reasoned about turn by turn.
LEMMA DrainInduction ==
    ASSUME NEW P, P \in SUBSET Assemblers,
           \A a \in Assemblers : AtRest(a) \/ Further(a) \in P => a \in P
    PROVE  P = Assemblers
<1> DEFINE stop == {a \in Assemblers : AtRest(a)}
           T == [a \in Assemblers |-> Further(a)]
           m == [a \in Assemblers |-> Len(a.buf)]
<1>1. T \in [Assemblers -> Assemblers] /\ stop \in SUBSET Assemblers
  BY FurtherDrops
<1>2. m \in [Assemblers -> Nat]
  BY AsmNumbers
<1>3. \A a \in Assemblers \ stop : m[T[a]] < m[a]
  <2> TAKE a \in Assemblers \ stop
  <2>1. T[a] = Further(a) /\ Further(a) \in Assemblers /\ ~AtRest(a)
    BY FurtherDrops
  <2>2. m[T[a]] = Len(Further(a).buf) /\ m[a] = Len(a.buf)
    BY <2>1
  <2>3. QED BY <2>1, <2>2, FurtherDrops
<1>4. \A a \in Assemblers : a \in stop \/ T[a] \in P => a \in P
  OBVIOUS
<1> HIDE DEF stop, T, m
<1>5. Falls(Assemblers, stop, T, m)
  BY <1>3 DEF Falls
<1>6. stop \in SUBSET Assemblers /\ T \in [Assemblers -> Assemblers] /\ P \in SUBSET Assemblers
  BY <1>1
<1>7. Inherited(Assemblers, stop, T, P)
  BY <1>4 DEF Inherited
<1>8. QED BY ONLY <1>2, <1>5, <1>6, <1>7, LoopInduction

\* The loop passes on a frame at most, and accounts for every byte.
LEMMA DrainOneIs ==
    ASSUME NEW a \in Assemblers
    PROVE  Drained(a, DrainOne[a])
<1> DEFINE P == {x \in Assemblers : Drained(x, DrainOne[x])}
<1>1. ASSUME NEW x \in Assemblers, AtRest(x) PROVE x \in P
  <2>1. DrainOne[x] = Result(x)
    BY <1>1, DrainOneLoop
  <2>2. QED BY <1>1, <2>1, ResultIs, AsmNumbers DEF Drained, JK_FRAME_SIZE
<1>2. ASSUME NEW x \in Assemblers, ~AtRest(x), Further(x) \in P PROVE x \in P
  <2>1. DrainOne[x] = DrainOne[Further(x)]
    BY <1>2, DrainOneLoop
  <2> DEFINE y == Further(x)
             z == DrainOne[y]
  <2>2. Drained(y, z) /\ y \in Assemblers
    BY <1>2
  <2>3. /\ Len(y.buf) < Len(x.buf) /\ y.out = x.out /\ y.owed - Len(y.buf) = x.owed - Len(x.buf)
        /\ Len(y.buf) \in Nat /\ Len(x.buf) \in Nat
    BY <1>2, FurtherDrops
  <2>4. DrainOne[x] = z
    BY <2>1
  <2> HIDE DEF y, z
  <2>5. Drained(x, z)
    BY <2>2, <2>3, AsmNumbers DEF Drained, JK_FRAME_SIZE
  <2>6. QED BY <2>4, <2>5
<1> HIDE DEF P
<1>3. P \in SUBSET Assemblers
  BY DEF P
<1>4. P = Assemblers
  BY <1>1, <1>2, <1>3, DrainInduction
<1>5. QED BY <1>4 DEF P


\* Bytes are added behind the others.
Add(a, c) == [a EXCEPT !.buf = @ \o c, !.owed = @ + Len(c)]

\* What a byte more changes.
LEMMA Added ==
    ASSUME NEW a \in Assemblers, NEW c \in AsmBytes
    PROVE  /\ Add(a, <<c>>) \in Assemblers
           /\ Add(a, <<c>>).out = a.out /\ Add(a, <<c>>).owed = a.owed + 1
           /\ Len(Add(a, <<c>>).buf) = Len(a.buf) + 1
           /\ \A i \in 1 .. Len(a.buf) : Add(a, <<c>>).buf[i] = a.buf[i]
           /\ Add(a, <<c>>).buf[Len(a.buf) + 1] = c
<1> DEFINE b == a.buf
           d == b \o <<c>>
<1>1. b \in Seq(AsmBytes) /\ a.owed \in Int /\ a.out \in Nat
  BY DEF Assemblers
<1>2. /\ d \in Seq(AsmBytes) /\ Len(d) = Len(b) + 1
      /\ \A i \in 1 .. Len(b) : d[i] = b[i]
      /\ d[Len(b) + 1] = c
  BY <1>1
<1>3. Add(a, <<c>>) = [a EXCEPT !.buf = d, !.owed = @ + 1]
  BY DEF Add
<1> HIDE DEF d
<1>4. Add(a, <<c>>) = [buf |-> d, owed |-> a.owed + 1, out |-> a.out]
  BY <1>3 DEF Assemblers
<1>5. QED BY <1>1, <1>2, <1>4 DEF Assemblers

\* Assemblers with the same bytes, counters and frames are one.
LEMMA SameAssembler ==
    ASSUME NEW a \in Assemblers, NEW d \in Assemblers, a.owed = d.owed, a.out = d.out,
           Len(a.buf) = Len(d.buf), \A i \in 1 .. Len(a.buf) : a.buf[i] = d.buf[i]
    PROVE  a = d
<1>1. a.buf = d.buf
  BY AsmNumbers, SameSeq
<1>2. QED BY <1>1 DEF Assemblers

\* Dropping nothing changes nothing.
LEMMA DropNone ==
    ASSUME NEW a \in Assemblers
    PROVE  DropBytes(a, 0) = a
<1> DEFINE k == 0
           d == DropBytes(a, k)
           n == Len(a.buf)
<1>1. n \in Nat /\ a.owed \in Int /\ k \in 0 .. n /\ k = 0
  BY AsmNumbers
<1> HIDE DEF k, n
<1>2. /\ d \in Assemblers /\ d.out = a.out /\ d.owed = a.owed - k /\ Len(d.buf) = n - k
      /\ \A i \in 1 .. n - k : d.buf[i] = a.buf[i + k]
  BY <1>1, DroppedBytes DEF n
<1> HIDE DEF d
<1>3. d.owed = a.owed /\ Len(d.buf) = n /\ \A i \in 1 .. n : d.buf[i] = a.buf[i]
  BY <1>1, <1>2
<1>4. d = a
  BY <1>2, <1>3, SameAssembler DEF n
<1>5. QED BY <1>4 DEF d, k

\* Dropping twice is dropping both at once.
LEMMA DropTwice ==
    ASSUME NEW a \in Assemblers, NEW n \in Nat, NEW k \in Nat, n + k <= Len(a.buf)
    PROVE  DropBytes(DropBytes(a, n), k) = DropBytes(a, n + k)
<1> DEFINE d == DropBytes(a, n)
           e == DropBytes(d, k)
           g == DropBytes(a, n + k)
<1>1. Len(a.buf) \in Nat /\ a.owed \in Int /\ n \in 0 .. Len(a.buf) /\ n + k \in 0 .. Len(a.buf)
  BY AsmNumbers
<1>2. /\ d \in Assemblers /\ d.out = a.out /\ d.owed = a.owed - n /\ Len(d.buf) = Len(a.buf) - n
      /\ \A i \in 1 .. Len(a.buf) - n : d.buf[i] = a.buf[i + n]
  BY <1>1, DroppedBytes
<1>3. /\ g \in Assemblers /\ g.out = a.out /\ g.owed = a.owed - (n + k)
      /\ Len(g.buf) = Len(a.buf) - (n + k)
      /\ \A i \in 1 .. Len(a.buf) - (n + k) : g.buf[i] = a.buf[i + (n + k)]
  BY <1>1, DroppedBytes
<1> HIDE DEF d, g
<1>4. k \in 0 .. Len(d.buf)
  BY <1>1, <1>2
<1>5. /\ e \in Assemblers /\ e.out = d.out /\ e.owed = d.owed - k /\ Len(e.buf) = Len(d.buf) - k
      /\ \A i \in 1 .. Len(d.buf) - k : e.buf[i] = d.buf[i + k]
  BY <1>2, <1>4, DroppedBytes
<1> HIDE DEF e
<1>6. Len(e.buf) = Len(g.buf) /\ e.owed = g.owed /\ e.out = g.out
  BY <1>1, <1>2, <1>3, <1>5
<1>7. ASSUME NEW i \in 1 .. Len(e.buf) PROVE e.buf[i] = g.buf[i]
  <2>1. e.buf[i] = d.buf[i + k] /\ i + k \in 1 .. Len(a.buf) - n
    BY <1>1, <1>2, <1>5
  <2>2. d.buf[i + k] = a.buf[(i + k) + n] /\ (i + k) + n = i + (n + k)
    BY <1>2, <2>1
  <2>3. g.buf[i] = a.buf[i + (n + k)]
    BY <1>1, <1>2, <1>3, <1>5
  <2>4. QED BY <2>1, <2>2, <2>3
<1>8. e = g
  BY <1>3, <1>5, <1>6, <1>7, SameAssembler
<1>9. QED BY <1>8 DEF d, e, g

\* A byte may come before or after others are dropped.
LEMMA AddDrops ==
    ASSUME NEW a \in Assemblers, NEW n \in 0 .. Len(a.buf), NEW c \in AsmBytes
    PROVE  Add(DropBytes(a, n), <<c>>) = DropBytes(Add(a, <<c>>), n)
<1> DEFINE d == DropBytes(a, n)
           e == Add(d, <<c>>)
           y == Add(a, <<c>>)
           g == DropBytes(y, n)
<1>1. Len(a.buf) \in Nat /\ a.owed \in Int
  BY AsmNumbers
<1>2. /\ d \in Assemblers /\ d.out = a.out /\ d.owed = a.owed - n /\ Len(d.buf) = Len(a.buf) - n
      /\ \A i \in 1 .. Len(a.buf) - n : d.buf[i] = a.buf[i + n]
  BY DroppedBytes
<1>3. /\ y \in Assemblers /\ y.out = a.out /\ y.owed = a.owed + 1
      /\ Len(y.buf) = Len(a.buf) + 1
      /\ \A i \in 1 .. Len(a.buf) : y.buf[i] = a.buf[i]
      /\ y.buf[Len(a.buf) + 1] = c
  BY Added
<1> HIDE DEF d, y
<1>4. n \in 0 .. Len(y.buf)
  BY <1>1, <1>3
<1>5. /\ g \in Assemblers /\ g.out = y.out /\ g.owed = y.owed - n
      /\ Len(g.buf) = Len(y.buf) - n
      /\ \A i \in 1 .. Len(y.buf) - n : g.buf[i] = y.buf[i + n]
  BY <1>3, <1>4, DroppedBytes
<1>6. /\ e \in Assemblers /\ e.out = d.out /\ e.owed = d.owed + 1
      /\ Len(e.buf) = Len(d.buf) + 1
      /\ \A i \in 1 .. Len(d.buf) : e.buf[i] = d.buf[i]
      /\ e.buf[Len(d.buf) + 1] = c
  BY <1>2, Added
<1> HIDE DEF e, g
<1>7. Len(e.buf) = Len(g.buf) /\ e.owed = g.owed /\ e.out = g.out
  BY <1>1, <1>2, <1>3, <1>5, <1>6
<1>8. ASSUME NEW i \in 1 .. Len(e.buf) PROVE e.buf[i] = g.buf[i]
  <2>1. g.buf[i] = y.buf[i + n]
    BY <1>1, <1>2, <1>3, <1>5, <1>6
  <2>2. CASE i \in 1 .. Len(d.buf)
    <3>1. i + n \in 1 .. Len(a.buf)
      BY <1>1, <1>2, <2>2
    <3>2. QED BY <1>2, <1>3, <1>6, <2>1, <2>2, <3>1
  <2>3. CASE i = Len(d.buf) + 1
    <3>1. i + n = Len(a.buf) + 1
      BY <1>1, <1>2, <2>3
    <3>2. QED BY <1>3, <1>6, <2>1, <2>3, <3>1
  <2>4. Len(d.buf) \in Nat /\ Len(e.buf) = Len(d.buf) + 1
    BY <1>2, <1>6, AsmNumbers
  <2>5. i \in 1 .. Len(d.buf) \/ i = Len(d.buf) + 1
    BY <2>4
  <2>6. QED BY <2>2, <2>3, <2>5
<1>9. e = g
  BY <1>5, <1>6, <1>7, <1>8, SameAssembler
<1>10. QED BY <1>9 DEF d, e, g, y

\* The headers behind some bytes more.
LEMMA HeadersAdded ==
    ASSUME NEW a \in Assemblers, NEW c \in AsmBytes, NEW from \in {1, 2},
           NEW y, y = Add(a, <<c>>)
    PROVE  /\ Headers(a.buf, from) \subseteq Headers(y.buf, from)
           /\ \A i \in Headers(y.buf, from) : i \in Headers(a.buf, from) \/ i = Len(a.buf)
<1>1. /\ Len(a.buf) \in Nat /\ Len(y.buf) = Len(a.buf) + 1
      /\ \A i \in 1 .. Len(a.buf) : y.buf[i] = a.buf[i]
  BY Added, AsmNumbers
<1>2. ASSUME NEW i \in Headers(a.buf, from) PROVE i \in Headers(y.buf, from)
  <2>1. i \in from .. Len(a.buf) - 1 /\ a.buf[i] = 1 /\ a.buf[i + 1] = 2
    BY HeaderAt
  <2>2. i \in from .. Len(y.buf) - 1 /\ i \in 1 .. Len(a.buf) /\ i + 1 \in 1 .. Len(a.buf)
    BY <1>1, <2>1
  <2>3. y.buf[i] = 1 /\ y.buf[i + 1] = 2
    BY <1>1, <2>1, <2>2
  <2>4. QED BY <2>2, <2>3, HeaderAt
<1>3. ASSUME NEW i \in Headers(y.buf, from), i # Len(a.buf) PROVE i \in Headers(a.buf, from)
  <2>1. i \in from .. Len(y.buf) - 1 /\ y.buf[i] = 1 /\ y.buf[i + 1] = 2
    BY HeaderAt
  <2>2. i \in from .. Len(a.buf) - 1 /\ i \in 1 .. Len(a.buf) /\ i + 1 \in 1 .. Len(a.buf)
    BY <1>1, <1>3, <2>1
  <2>3. a.buf[i] = 1 /\ a.buf[i + 1] = 2
    BY <1>1, <2>1, <2>2
  <2>4. QED BY <2>2, <2>3, HeaderAt
<1>4. QED BY <1>2, <1>3

\* A header that is there is dropped up to whatever comes behind.
LEMMA SeekAdded ==
    ASSUME NEW a \in Assemblers, NEW c \in AsmBytes, NEW from \in {1, 2},
           Headers(a.buf, from) # {}
    PROVE  Seek(Add(a, <<c>>), from) = Add(Seek(a, from), <<c>>)
<1> DEFINE y == Add(a, <<c>>)
           H == Headers(a.buf, from)
           K == Headers(y.buf, from)
<1>1. y \in Assemblers /\ Len(a.buf) \in Nat
  BY Added, AsmNumbers
<1>2. H \subseteq K /\ \A i \in K : i \in H \/ i = Len(a.buf)
  BY HeadersAdded
<1>3. \A i \in H : i \in Nat /\ i < Len(a.buf) /\ i > 0
  BY <1>1, HeaderAt
<1>4. Min(H) \in H /\ \A i \in H : Min(H) <= i
  BY SeekDrops
<1>5. Min(K) \in K /\ \A i \in K : Min(K) <= i
  BY <1>1, <1>2, SeekDrops
<1>6. Min(K) = Min(H)
  <2> HIDE DEF H, K, y
  <2> DEFINE h == Min(H)
             k == Min(K)
             l == Len(a.buf)
  <2>1. h \in H /\ (\A i \in H : h <= i) /\ k \in K /\ (\A i \in K : k <= i)
    BY <1>4, <1>5
  <2>2. /\ H \subseteq K /\ (\A i \in K : i \in H \/ i = l)
        /\ (\A i \in H : i \in Nat /\ i < l) /\ l \in Nat
    BY <1>1, <1>2, <1>3
  <2> HIDE DEF h, k, l
  <2>3. h = k
    BY ONLY <2>1, <2>2
  <2>4. QED BY <2>3 DEF h, k
<1>7. Skipped(y, from) = Skipped(a, from)
  <2> HIDE DEF y
  <2>1. K # {}
    BY <1>2
  <2>2. QED BY <1>6, <2>1 DEF Skipped
<1>8. /\ Seek(y, from) = DropBytes(y, Skipped(a, from))
      /\ Seek(a, from) = DropBytes(a, Skipped(a, from))
      /\ Skipped(a, from) \in 0 .. Len(a.buf)
  BY <1>1, <1>7, SeekDrops
<1>9. QED BY <1>8, AddDrops

\* Where at most the last two bytes are a header, they are what is left.
LEMMA LastTwo ==
    ASSUME NEW w \in Assemblers, NEW n \in Nat, n = Len(w.buf), n >= 2,
           \A i \in Headers(w.buf, 1) : i = n - 1
    PROVE  DrainOne[w] = DropBytes(w, n - 2)
<1>2. CASE Headers(w.buf, 1) = {}
  <2>1. AtRest(w) /\ Result(w) = Seek(w, 1)
    BY <1>2 DEF AtRest, Result
  <2>2. Skipped(w, 1) = n - 2
    BY <1>2 DEF Skipped
  <2>3. QED BY <2>1, <2>2, DrainOneLoop, SeekDrops
<1>3. ASSUME NEW u \in Assemblers, Len(u.buf) = 2 PROVE DrainOne[u] = u
  <2>1. CASE Headers(u.buf, 1) = {}
    <3>1. AtRest(u) /\ Result(u) = Seek(u, 1) /\ Skipped(u, 1) = 0
      BY <1>3, <2>1 DEF AtRest, Result, Skipped
    <3>2. QED BY <3>1, DrainOneLoop, SeekDrops, DropNone
  <2>2. CASE Headers(u.buf, 1) # {}
    <3>1. PICK i : i \in Headers(u.buf, 1)
      BY <2>2
    <3>2. i \in 1 .. 2 - 1
      BY <1>3, <3>1, HeaderAt
    <3>3. i = 1
      BY <3>2
    <3>4. AtRest(u) /\ Result(u) = u
      BY <1>3, <3>1, <3>3 DEF AtRest, Result, JK_FRAME_SIZE
    <3>5. QED BY <3>4, DrainOneLoop
  <2>3. QED BY <2>1, <2>2
<1>4. CASE Headers(w.buf, 1) # {} /\ n > 2
  <2> DEFINE H == Headers(w.buf, 1)
             u == DropBytes(w, n - 2)
  <2>1. H # {} /\ \A i \in H : i = n - 1
    BY <1>4
  <2>2. Min(H) \in H
    BY <2>1, SeekDrops
  <2>3. Min(H) = n - 1
    BY <2>1, <2>2
  <2>4. 1 # n - 1
    <3>1. n \in Nat /\ n > 2
      BY <1>4
    <3>2. QED BY ONLY <3>1
  <2>5. 1 \notin H
    BY <2>1, <2>4
  <2>6. ~AtRest(w) /\ Further(w) = Seek(w, 1)
    BY <2>1, <2>5 DEF AtRest, Further
  <2>7. Skipped(w, 1) = (n - 1) - 1
    BY <2>1, <2>3 DEF Skipped
  <2>8. Skipped(w, 1) = n - 2
    BY <2>7
  <2>9. DrainOne[w] = DrainOne[u]
    BY <2>6, <2>8, DrainOneLoop, SeekDrops
  <2>10. n - 2 \in 0 .. n
    BY <1>4
  <2>11. u \in Assemblers /\ Len(u.buf) = n - (n - 2)
    BY <2>10, DroppedBytes
  <2>12. Len(u.buf) = 2
    BY <2>11
  <2> HIDE DEF u
  <2>13. DrainOne[u] = u
    BY <1>3, <2>11, <2>12
  <2>14. QED BY <2>9, <2>13 DEF u
<1>5. CASE n = 2
  <2>1. n - 2 = 0
    BY <1>5
  <2>2. QED BY <1>3, <1>5, <2>1, DropNone
<1>6. n = 2 \/ n > 2
  <2>1. n \in Nat /\ n >= 2
    OBVIOUS
  <2>2. QED BY ONLY <2>1
<1>7. QED BY <1>2, <1>4, <1>5, <1>6

\* Two bytes are no frame: one more makes no difference where nothing was found.
LEMMA PlainAdded ==
    ASSUME NEW x \in Assemblers, NEW c \in AsmBytes, NEW n \in Nat, n = Len(x.buf), n > 2,
           Headers(x.buf, 1) = {}
    PROVE  DrainOne[Add(DrainOne[x], <<c>>)] = DrainOne[Add(x, <<c>>)]
<1> DEFINE y == Add(x, <<c>>)
           w == DropBytes(y, n - 2)
<1>1. n - 2 \in 0 .. n /\ n - 2 \in Nat /\ n + 1 \in Nat /\ (n + 1) - 2 = n - 1 /\ n + 1 >= 2
  BY ONLY n \in Nat, n > 2
<1>2. y \in Assemblers /\ Len(y.buf) = n + 1
  BY Added
<1>3. DrainOne[x] = DropBytes(x, n - 2)
  BY LastTwo
<1>4. Add(DropBytes(x, n - 2), <<c>>) = w
  BY <1>1, AddDrops
<1>5. \A i \in Headers(y.buf, 1) : i = n
  BY HeadersAdded
<1> HIDE DEF y
<1>6. DrainOne[y] = DropBytes(y, n - 1)
  <2>1. (n + 1) - 1 = n
    BY ONLY n \in Nat
  <2>2. \A i \in Headers(y.buf, 1) : i = (n + 1) - 1
    BY <1>5, <2>1
  <2>3. DrainOne[y] = DropBytes(y, (n + 1) - 2)
    BY <1>1, <1>2, <2>2, LastTwo
  <2>4. QED BY <1>1, <2>3
<1>7. n - 2 \in 0 .. Len(y.buf) /\ (n + 1) - (n - 2) = 3
  <2>1. n - 2 \in 0 .. n + 1 /\ (n + 1) - (n - 2) = 3
    BY ONLY n \in Nat, n > 2
  <2>2. QED BY <1>2, <2>1
<1>8. /\ w \in Assemblers /\ Len(w.buf) = 3
      /\ \A i \in 1 .. 3 : w.buf[i] = y.buf[i + (n - 2)]
  <2> DEFINE k == n - 2
             l == n + 1
  <2>1. k \in 0 .. l /\ l = Len(y.buf) /\ w = DropBytes(y, k) /\ l - k = 3
    BY <1>2, <1>7
  <2> HIDE DEF k, l, w
  <2>2. Shortened(y, l, k, w)
    BY ONLY <1>2, <2>1, Dropping
  <2>3. QED BY ONLY <2>1, <2>2 DEF k, Shortened
<1>9. \A i \in Headers(w.buf, 1) : i = 3 - 1
  <2> TAKE i \in Headers(w.buf, 1)
  <2>1. i \in 1 .. 3 - 1 /\ w.buf[i] = 1 /\ w.buf[i + 1] = 2
    <3>1. i \in Headers(w.buf, 1)
      OBVIOUS
    <3> HIDE DEF w
    <3>2. i \in 1 .. Len(w.buf) - 1 /\ <<w.buf[i], w.buf[i + 1]>> = <<1, 2>>
      BY ONLY <3>1 DEF Headers, JK_HEADER_RSP
    <3>3. Len(w.buf) = 3
      BY <1>8
    <3>4. QED BY ONLY <3>2, <3>3
  <2> DEFINE j == i + (n - 2)
  <2>2. i \in 1 .. 3 /\ i + 1 \in 1 .. 3
    BY ONLY <2>1
  <2>3. /\ (i + 1) + (n - 2) = j + 1 /\ j \in 1 .. (n + 1) - 1
        /\ j = n => i = 3 - 1
    BY ONLY <2>1, n \in Nat, n > 2
  <2>4. y.buf[j] = 1 /\ y.buf[j + 1] = 2
    <3>1. y.buf[j] = w.buf[i]
      BY <1>8, <2>2
    <3>2. y.buf[(i + 1) + (n - 2)] = w.buf[i + 1]
      BY <1>8, <2>2
    <3>3. QED BY <2>1, <2>3, <3>1, <3>2
  <2> HIDE DEF j
  <2>5. j \in Headers(y.buf, 1)
    BY <1>2, <2>3, <2>4, HeaderAt
  <2>6. QED BY <1>5, <2>3, <2>5
<1> HIDE DEF w
<1>10. DrainOne[w] = DropBytes(w, 3 - 2)
  <2>1. 3 \in Nat /\ 3 >= 2
    OBVIOUS
  <2>2. QED BY <1>8, <1>9, <2>1, LastTwo
<1>11. DropBytes(w, 1) = DropBytes(y, n - 1)
  <2>1. (n - 2) + 1 = n - 1 /\ (n - 2) + 1 <= n + 1 /\ 1 \in Nat
    BY ONLY n \in Nat, n > 2
  <2>2. DropBytes(DropBytes(y, n - 2), 1) = DropBytes(y, (n - 2) + 1)
    BY <1>1, <1>2, <2>1, DropTwice
  <2>3. QED BY <2>1, <2>2 DEF w
<1>12. 3 - 2 = 1
  OBVIOUS
<1>13. QED BY <1>3, <1>4, <1>6, <1>10, <1>11, <1>12 DEF w, y

\* A good frame is taken whatever comes behind.
LEMMA GoodAdded ==
    ASSUME NEW x \in Assemblers, NEW c \in AsmBytes, Len(x.buf) = 4,
           1 \in Headers(x.buf, 1), IsGood(x.buf)
    PROVE  DrainOne[Add(DrainOne[x], <<c>>)] = DrainOne[Add(x, <<c>>)]
<1> DEFINE y == Add(x, <<c>>)
           d == DropBytes(x, 4)
           e == DropBytes(y, 4)
           z == [d EXCEPT !.out = @ + 1]
<1>1. /\ y \in Assemblers /\ Len(y.buf) = 5 /\ y.out = x.out /\ y.owed = x.owed + 1
      /\ \A i \in 1 .. 4 : y.buf[i] = x.buf[i]
  <2>1. /\ y \in Assemblers /\ Len(y.buf) = Len(x.buf) + 1 /\ y.out = x.out
        /\ y.owed = x.owed + 1 /\ \A i \in 1 .. Len(x.buf) : y.buf[i] = x.buf[i]
    BY Added
  <2>2. Len(x.buf) = 4
    OBVIOUS
  <2> HIDE DEF y
  <2>3. QED BY ONLY <2>1, <2>2
<1>2. 1 \in Headers(y.buf, 1)
  BY HeadersAdded
<1> HIDE DEF y
<1>3. IsGood(y.buf)
  <2>1. y.buf[1] = x.buf[1] /\ y.buf[2] = x.buf[2] /\ y.buf[3] = x.buf[3] /\ y.buf[4] = x.buf[4]
    BY <1>1
  <2>2. QED BY <2>1 DEF IsGood, jk_crc8, JK_FRAME_SIZE
<1>4. DrainOne[x] = z
  <2>1. AtRest(x) /\ Result(x) = z
    BY DEF AtRest, Result, JK_FRAME_SIZE
  <2>2. QED BY <2>1, DrainOneLoop
<1>5. DrainOne[y] = [e EXCEPT !.out = @ + 1]
  <2>1. AtRest(y) /\ Result(y) = [e EXCEPT !.out = @ + 1]
    BY <1>1, <1>2, <1>3 DEF AtRest, Result, JK_FRAME_SIZE
  <2>2. QED BY <1>1, <2>1, DrainOneLoop
<1>6. Shortened(x, 4, 4, d)
  <2>1. 4 \in 0 .. 4 /\ 4 = Len(x.buf)
    OBVIOUS
  <2>2. QED BY <2>1, Dropping
<1>7. Add(d, <<c>>) = e
  <2>1. 4 \in 0 .. Len(x.buf)
    OBVIOUS
  <2>2. QED BY <2>1, AddDrops DEF y
<1>8. Add(z, <<c>>) = [e EXCEPT !.out = @ + 1]
  <2>1. d = [buf |-> d.buf, owed |-> d.owed, out |-> d.out]
    BY <1>6 DEF Shortened, Assemblers
  <2> DEFINE b == d.buf \o <<c>>
  <2>2. e = [buf |-> b, owed |-> d.owed + Len(<<c>>), out |-> d.out]
    BY <1>7, <2>1 DEF Add
  <2>3. z = [buf |-> d.buf, owed |-> d.owed, out |-> d.out + 1]
    BY <2>1
  <2>4. Add(z, <<c>>) = [buf |-> b, owed |-> d.owed + Len(<<c>>), out |-> d.out + 1]
    <3>1. Add(z, <<c>>) = [z EXCEPT !.buf = @ \o <<c>>, !.owed = @ + Len(<<c>>)]
      BY DEF Add
    <3>2. z.buf = d.buf /\ z.owed = d.owed
      BY <2>3
    <3> HIDE DEF d, z
    <3>3. QED BY ONLY <2>3, <3>1, <3>2 DEF b
  <2> HIDE DEF b, d, e, z
  <2>5. QED BY <2>2, <2>4
<1> DEFINE v == [e EXCEPT !.out = @ + 1]
<1>9. v \in Assemblers /\ Len(v.buf) = 1
  <2>1. DrainOne[y] \in Assemblers
    BY <1>1, DrainOneLoop
  <2>2. Len(e.buf) = 1
    <3>1. 4 \in 0 .. 5 /\ 5 - 4 = 1
      OBVIOUS
    <3>2. Shortened(y, 5, 4, e)
      BY <1>1, <3>1, Dropping
    <3>3. QED BY <3>1, <3>2 DEF Shortened
  <2>3. v.buf = e.buf
    BY <1>7 DEF Add
  <2>4. QED BY <1>5, <2>1, <2>2, <2>3
<1> HIDE DEF v, e
<1>10. DrainOne[v] = v
  <2>1. Headers(v.buf, 1) = {}
    BY <1>9, HeaderAt
  <2>2. AtRest(v) /\ Result(v) = Seek(v, 1) /\ Skipped(v, 1) = 0
    BY <1>9, <2>1 DEF AtRest, Result, Skipped
  <2>3. QED BY <1>9, <2>2, DrainOneLoop, SeekDrops, DropNone
<1>11. DrainOne[Add(DrainOne[x], <<c>>)] = v
  BY <1>4, <1>8, <1>10 DEF v
<1>12. DrainOne[y] = v
  BY <1>5 DEF v
<1>13. QED BY <1>11, <1>12 DEF y

\* A turn that leaves bytes for the next one leaves the same ones when there is
\* one byte more.
LEMMA FurtherAdded ==
    ASSUME NEW x \in Assemblers, NEW c \in AsmBytes, Len(x.buf) <= 4, ~AtRest(x)
    PROVE  DrainOne[Add(Further(x), <<c>>)] = DrainOne[Add(x, <<c>>)]
<1> DEFINE y == Add(x, <<c>>)
           n == Len(x.buf)
<1>1. /\ y \in Assemblers /\ Len(y.buf) = n + 1 /\ n \in Nat
      /\ \A i \in 1 .. n : y.buf[i] = x.buf[i]
      /\ y.buf[n + 1] = c
  BY Added, AsmNumbers
<1>2. \A from \in {1, 2} : /\ Headers(x.buf, from) \subseteq Headers(y.buf, from)
                           /\ \A i \in Headers(y.buf, from) : i \in Headers(x.buf, from) \/ i = n
  BY HeadersAdded
<1>3. CASE 1 \notin Headers(x.buf, 1)
  <2>1. Headers(x.buf, 1) # {}
    BY DEF AtRest
  <2>2. PICK h : h \in Headers(x.buf, 1)
    BY <2>1
  <2>3. h \in 1 .. n - 1
    BY <2>2, HeaderAt
  <2>4. n # 1
    BY ONLY <1>1, <2>3
  <2>5. Headers(y.buf, 1) # {} /\ 1 \notin Headers(y.buf, 1)
    BY <1>2, <1>3, <2>2, <2>4
  <2>6. ~AtRest(y) /\ Further(y) = Seek(y, 1) /\ Further(x) = Seek(x, 1)
    BY <1>3, <2>5 DEF AtRest, Further
  <2>7. Seek(y, 1) = Add(Seek(x, 1), <<c>>)
    BY <2>1, SeekAdded
  <2> HIDE DEF y
  <2>8. DrainOne[y] = DrainOne[Seek(y, 1)]
    BY <1>1, <2>6, DrainOneLoop
  <2>9. QED BY <2>6, <2>7, <2>8 DEF y
<1>4. CASE 1 \in Headers(x.buf, 1)
  <2>1. n = 4 /\ ~IsGood(x.buf)
    <3>1. ~(n < 4) /\ ~IsGood(x.buf)
      BY <1>4 DEF AtRest, JK_FRAME_SIZE
    <3>2. n \in Nat /\ n <= 4
      BY <1>1
    <3> HIDE DEF n, y
    <3>3. QED BY ONLY <3>1, <3>2
  <2>2. 1 \in Headers(y.buf, 1)
    BY <1>2, <1>4
  <2> HIDE DEF y, n
  <2>3. y.buf[1] = x.buf[1] /\ y.buf[2] = x.buf[2] /\ y.buf[3] = x.buf[3] /\ y.buf[4] = x.buf[4]
    BY <1>1, <2>1
  <2>4. ~IsGood(y.buf)
    BY <2>1, <2>3 DEF IsGood, jk_crc8, JK_FRAME_SIZE
  <2>5. Len(y.buf) = 5
    BY <1>1, <2>1
  <2>6. ~AtRest(y) /\ Further(y) = Seek(y, 2) /\ Further(x) = Seek(x, 2)
    BY <1>4, <2>2, <2>4, <2>5 DEF AtRest, Further, JK_FRAME_SIZE
  <2>7. DrainOne[y] = DrainOne[Seek(y, 2)]
    BY <1>1, <2>6, DrainOneLoop
  <2>8. CASE Headers(x.buf, 2) # {}
    <3>1. Seek(y, 2) = Add(Seek(x, 2), <<c>>)
      BY <2>8, SeekAdded DEF y
    <3>2. QED BY <2>6, <2>7, <3>1 DEF y
  <2>9. CASE Headers(x.buf, 2) = {}
    <3> DEFINE w == DropBytes(y, 2)
               u == DropBytes(y, 3)
    <3>1. Add(Seek(x, 2), <<c>>) = w
      <4>1. Skipped(x, 2) = 2
        BY <2>1, <2>9 DEF Skipped, n
      <4>2. Seek(x, 2) = DropBytes(x, 2) /\ 2 \in 0 .. Len(x.buf)
        BY <2>1, <4>1, SeekDrops DEF n
      <4>3. QED BY <4>2, AddDrops DEF y
    <3>2. Seek(y, 2) = u
      <4>1. Seek(y, 2) = DropBytes(y, Skipped(y, 2))
        BY <1>1, SeekDrops
      <4>2. \A i \in Headers(y.buf, 2) : i = 4
        BY <1>2, <2>1, <2>9
      <4>3. Headers(y.buf, 2) # {} => Min(Headers(y.buf, 2)) = 4
        BY <1>1, <4>2, SeekDrops
      <4>4. Skipped(y, 2) = 3
        BY <2>5, <4>3 DEF Skipped
      <4>5. QED BY <4>1, <4>4
    <3>3. Shortened(y, 5, 2, w) /\ Shortened(y, 5, 3, u)
      <4>1. 2 \in 0 .. 5 /\ 3 \in 0 .. 5
        OBVIOUS
      <4>2. QED BY <1>1, <2>5, <4>1, Dropping
    <3> HIDE DEF w, u
    <3>4. w \in Assemblers /\ Len(w.buf) = 3 /\ \A i \in 1 .. 3 : w.buf[i] = y.buf[i + 2]
      BY <3>3 DEF Shortened
    <3>5. u \in Assemblers /\ Len(u.buf) = 2
      BY <3>3 DEF Shortened
    <3>6. \A i \in Headers(w.buf, 1) : i = 3 - 1
      <4> SUFFICES ASSUME NEW i \in Headers(w.buf, 1), i # 2 PROVE FALSE
        OBVIOUS
      <4>1. i \in 1 .. Len(w.buf) - 1 /\ <<w.buf[i], w.buf[i + 1]>> = <<1, 2>>
        BY DEF Headers, JK_HEADER_RSP
      <4>2. i = 1
        BY <3>4, <4>1
      <4>3. y.buf[3] = 1 /\ y.buf[4] = 2
        BY <3>4, <4>1, <4>2
      <4>4. 3 \in Headers(y.buf, 2)
        <5>1. 3 \in 2 .. 5 - 1 /\ 3 + 1 = 4
          OBVIOUS
        <5>2. QED BY <2>5, <4>3, <5>1 DEF Headers, JK_HEADER_RSP
      <4>5. QED BY <1>2, <2>1, <2>9, <4>4
    <3>7. DrainOne[w] = DropBytes(w, 3 - 2)
      <4>1. 3 \in Nat /\ 3 >= 2
        OBVIOUS
      <4>2. QED BY <3>4, <3>6, <4>1, LastTwo
    <3>8. DropBytes(w, 1) = u
      <4>1. 2 + 1 = 3 /\ 2 + 1 <= 5 /\ 1 \in Nat /\ 2 \in Nat
        OBVIOUS
      <4>2. DropBytes(DropBytes(y, 2), 1) = DropBytes(y, 2 + 1)
        BY <1>1, <2>5, <4>1, DropTwice
      <4>3. QED BY <4>1, <4>2 DEF w, u
    <3>9. DrainOne[u] = u
      <4>1. DrainOne[u] = DropBytes(u, 2 - 2)
        <5>1. \A i \in Headers(u.buf, 1) : i = 2 - 1
          <6> TAKE i \in Headers(u.buf, 1)
          <6>1. i \in 1 .. Len(u.buf) - 1
            BY DEF Headers
          <6>2. QED BY ONLY <3>5, <6>1
        <5>2. 2 \in Nat /\ 2 >= 2
          OBVIOUS
        <5>3. QED BY <3>5, <5>1, <5>2, LastTwo
      <4>2. QED BY <3>5, <4>1, DropNone
    <3>10. DrainOne[y] = u
      BY <2>7, <3>2, <3>9
    <3>11. DrainOne[w] = u
      BY <3>7, <3>8
    <3>12. QED BY <2>6, <3>1, <3>10, <3>11 DEF y
  <2>10. QED BY <2>8, <2>9
<1>5. QED BY <1>3, <1>4

\* Bytes behind those that DrainOne left, or behind those it began with.
LEMMA ByteLater ==
    ASSUME NEW a \in Assemblers, NEW c \in AsmBytes, Len(a.buf) <= 4
    PROVE  DrainOne[Add(DrainOne[a], <<c>>)] = DrainOne[Add(a, <<c>>)]
<1> DEFINE Good(x) == Len(x.buf) <= 4 =>
                        DrainOne[Add(DrainOne[x], <<c>>)] = DrainOne[Add(x, <<c>>)]
           P == {x \in Assemblers : Good(x)}
<1>1. ASSUME NEW x \in Assemblers, AtRest(x) PROVE Good(x)
  <2> SUFFICES ASSUME Len(x.buf) <= 4
               PROVE  DrainOne[Add(DrainOne[x], <<c>>)] = DrainOne[Add(x, <<c>>)]
    OBVIOUS
  <2> DEFINE n == Len(x.buf)
  <2>1. n \in Nat /\ n <= 4 /\ DrainOne[x] = Result(x)
    BY <1>1, DrainOneLoop, AsmNumbers
  <2>2. CASE Headers(x.buf, 1) = {} /\ n > 2
    BY <2>1, <2>2, PlainAdded
  <2>3. CASE Headers(x.buf, 1) = {} /\ ~(n > 2)
    <3>1. Result(x) = Seek(x, 1) /\ Skipped(x, 1) = 0
      BY <2>3 DEF Result, Skipped
    <3>2. Seek(x, 1) = x
      BY <3>1, SeekDrops, DropNone
    <3>3. QED BY <2>1, <3>1, <3>2
  <2>4. CASE Headers(x.buf, 1) # {} /\ n < 4
    <3>1. Result(x) = x
      BY <2>4 DEF Result, JK_FRAME_SIZE
    <3>2. QED BY <2>1, <3>1
  <2>5. CASE Headers(x.buf, 1) # {} /\ ~(n < 4)
    <3>1. 1 \in Headers(x.buf, 1) /\ IsGood(x.buf)
      BY <1>1, <2>5 DEF AtRest, JK_FRAME_SIZE
    <3>2. n = 4
      <4>1. n \in Nat /\ n <= 4 /\ ~(n < 4)
        BY <2>1, <2>5
      <4> HIDE DEF n
      <4>2. QED BY ONLY <4>1
    <3>3. QED BY <3>1, <3>2, GoodAdded
  <2>6. QED BY <2>2, <2>3, <2>4, <2>5
<1>2. ASSUME NEW x \in Assemblers, ~AtRest(x), Good(Further(x)) PROVE Good(x)
  <2> SUFFICES ASSUME Len(x.buf) <= 4
               PROVE  DrainOne[Add(DrainOne[x], <<c>>)] = DrainOne[Add(x, <<c>>)]
    OBVIOUS
  <2> DEFINE y == Further(x)
  <2>1. /\ y \in Assemblers /\ Len(y.buf) < Len(x.buf)
        /\ Len(x.buf) \in Nat /\ Len(y.buf) \in Nat
    BY <1>2, FurtherDrops
  <2>2. DrainOne[x] = DrainOne[y]
    BY <1>2, DrainOneLoop
  <2>3. DrainOne[Add(y, <<c>>)] = DrainOne[Add(x, <<c>>)]
    BY <1>2, FurtherAdded
  <2>4. Good(y)
    BY <1>2
  <2> HIDE DEF y
  <2>5. Len(y.buf) <= 4
    BY <2>1
  <2>6. QED BY <2>2, <2>3, <2>4, <2>5
<1> HIDE DEF Good
<1>3. P \in SUBSET Assemblers
  OBVIOUS
<1>4. \A x \in Assemblers : AtRest(x) \/ Further(x) \in P => x \in P
  BY <1>1, <1>2
<1> HIDE DEF P
<1>5. P = Assemblers
  BY <1>3, <1>4, DrainInduction
<1>6. Good(a)
  BY <1>5 DEF P
<1>7. QED BY <1>6 DEF Good

----------------------------------------------------------------------------
(* What a notification does. *)

\* An assembler with no more than its buffer holds.
Fits(a) == a \in Assemblers /\ Len(a.buf) <= ASM_BUF

\* jk_assembler_feed of nothing: a frame that may be left is taken.
LEMMA FeedNothing ==
    ASSUME NEW a \in Assemblers
    PROVE  /\ Len(a.buf) < JK_FRAME_SIZE => jk_assembler_feed(a, <<>>) = a
           /\ JK_FRAME_SIZE <= Len(a.buf) /\ Len(a.buf) <= ASM_BUF
                  => jk_assembler_feed(a, <<>>) = DrainOne[a]
           /\ Len(a.buf) > ASM_BUF => jk_assembler_feed(a, <<>>).out = a.out
<1>1. Len(a.buf) \in Nat /\ ASM_BUF \in Nat /\ a.owed \in Int /\ a.buf \in Seq(AsmBytes)
  BY AsmAssumption, AsmNumbers
<1>2. Strip(<<>>) = <<>> /\ Len(<<>>) = 0
  BY DEF Strip
<1>3. a.buf \o <<>> = a.buf /\ a.owed + 0 = a.owed
  BY <1>1
<1>4. [a EXCEPT !.buf = @ \o <<>>, !.owed = @ + Len(<<>>)] = a
  BY <1>2, <1>3 DEF Assemblers
<1> DEFINE l == Len(a.buf)
           room == ASM_BUF - l
           r == jk_assembler_feed(a, <<>>)
           cut == [a EXCEPT !.buf = @ \o SubSeq(<<>>, 1, room), !.owed = @ + room]
           Form(c) == IF c = <<>> /\ l < JK_FRAME_SIZE THEN a
                      ELSE IF Len(c) > room
                      THEN [a EXCEPT !.buf = @ \o SubSeq(c, 1, room), !.owed = @ + room]
                      ELSE DrainOne[[a EXCEPT !.buf = @ \o c, !.owed = @ + Len(c)]]
<1>5. r = IF l < JK_FRAME_SIZE THEN a ELSE IF 0 > room THEN cut ELSE DrainOne[a]
  <2>1. r = Form(Strip(<<>>))
    BY DEF jk_assembler_feed
  <2>2. Form(<<>>) = IF l < JK_FRAME_SIZE THEN a ELSE IF Len(<<>>) > room THEN cut
                     ELSE DrainOne[[a EXCEPT !.buf = @ \o <<>>, !.owed = @ + Len(<<>>)]]
    <3> HIDE DEF r, l, room
    <3>1. QED OBVIOUS
  <2> HIDE DEF r, Form, cut, room, l
  <2>3. r = Form(<<>>)
    BY ONLY <1>2, <2>1
  <2>4. QED BY ONLY <1>2, <1>4, <2>2, <2>3
<1>6. cut.out = a.out
  BY DEF Assemblers
<1> HIDE DEF r, cut
<1>7. l \in Nat /\ ASM_BUF \in Nat /\ ASM_BUF > JK_FRAME_SIZE
  BY <1>1, AsmAssumption
<1> HIDE DEF l
<1>8. l < JK_FRAME_SIZE => r = a
  BY ONLY <1>5
<1>9. JK_FRAME_SIZE <= l /\ l <= ASM_BUF => r = DrainOne[a]
  <2>1. JK_FRAME_SIZE <= l /\ l <= ASM_BUF => ~(l < JK_FRAME_SIZE) /\ ~(0 > room)
    BY ONLY <1>7 DEF JK_FRAME_SIZE
  <2>2. QED BY ONLY <1>5, <2>1
<1>10. l > ASM_BUF => r.out = a.out
  <2>1. l > ASM_BUF => ~(l < JK_FRAME_SIZE) /\ 0 > room
    BY ONLY <1>7 DEF JK_FRAME_SIZE
  <2>2. QED BY ONLY <1>5, <1>6, <2>1
<1>11. QED BY <1>8, <1>9, <1>10 DEF r, l

\* Whether no frame is left.
NoneLeft(a) == jk_assembler_feed(a, <<>>).out = a.out

\* A notification of nothing drains the buffer further while a frame may be left.
LEMMA FrameLeft ==
    ASSUME NEW a \in Assemblers, ~NoneLeft(a)
    PROVE  /\ jk_assembler_feed(a, <<>>) = DrainOne[a] /\ DrainOne[a] \in Assemblers
           /\ Len(DrainOne[a].buf) < Len(a.buf) /\ Len(a.buf) <= ASM_BUF
           /\ DrainOne[a].owed - Len(DrainOne[a].buf) = a.owed - Len(a.buf)
<1> DEFINE l == Len(a.buf)
           z == DrainOne[a]
           r == jk_assembler_feed(a, <<>>)
<1>1. /\ l < JK_FRAME_SIZE => r = a
      /\ JK_FRAME_SIZE <= l /\ l <= ASM_BUF => r = z
      /\ l > ASM_BUF => r.out = a.out
  BY FeedNothing
<1>2. l \in Nat /\ ASM_BUF \in Nat /\ JK_FRAME_SIZE \in Nat /\ r.out # a.out
  BY AsmNumbers, AsmAssumption DEF JK_FRAME_SIZE, NoneLeft
<1>3. Drained(a, z)
  BY DrainOneIs
<1>4. z \in Assemblers /\ Len(z.buf) \in Nat
  BY <1>3, AsmNumbers DEF Drained
<1> HIDE DEF l, z, r
<1>5. r = z /\ l <= ASM_BUF
  BY ONLY <1>1, <1>2
<1> USE DEF l
<1>6. z.out # a.out
  BY ONLY <1>2, <1>5
<1>7. Len(z.buf) + 4 <= Len(a.buf) /\ z.owed - Len(z.buf) = a.owed - Len(a.buf)
  BY ONLY <1>3, <1>6 DEF Drained, JK_FRAME_SIZE
<1>8. Len(z.buf) < Len(a.buf)
  BY ONLY <1>2, <1>4, <1>7
<1>9. QED BY <1>4, <1>5, <1>7, <1>8 DEF z, r

\* TakeMore is the loop that it is written as.
LEMMA TakeMoreLoop ==
    \A a \in Assemblers : TakeMore[a] = IF NoneLeft(a) THEN jk_assembler_feed(a, <<>>)
                                        ELSE TakeMore[DrainOne[a]]
<1> DEFINE stop == {a \in Assemblers : NoneLeft(a)}
           T == [a \in Assemblers |-> DrainOne[a]]
           G == [a \in Assemblers |-> jk_assembler_feed(a, <<>>)]
           R == {jk_assembler_feed(a, <<>>) : a \in Assemblers}
           m == [a \in Assemblers |-> Len(a.buf)]
           Body(f, a) == LET b == jk_assembler_feed(a, <<>>)
                         IN IF b.out = a.out THEN b ELSE f[b]
           Eq(f) == f = [a \in Assemblers |-> Body(f, a)]
<1>1. T \in [Assemblers -> Assemblers] /\ G \in [Assemblers -> R] /\ stop \in SUBSET Assemblers
  BY DrainOneLoop
<1>2. m \in [Assemblers -> Nat]
  BY AsmNumbers
<1>3. \A a \in Assemblers \ stop : m[T[a]] < m[a]
  <2> TAKE a \in Assemblers \ stop
  <2>1. T[a] = DrainOne[a] /\ DrainOne[a] \in Assemblers /\ ~NoneLeft(a)
    BY DrainOneLoop
  <2>2. m[T[a]] = Len(DrainOne[a].buf) /\ m[a] = Len(a.buf)
    BY <2>1
  <2>3. QED BY <2>1, <2>2, FrameLeft
<1>4. \A f : \A a \in Assemblers :
          Body(f, a) = IF NoneLeft(a) THEN jk_assembler_feed(a, <<>>) ELSE f[DrainOne[a]]
  <2> TAKE f
  <2> TAKE a \in Assemblers
  <2>1. CASE NoneLeft(a)
    BY <2>1 DEF NoneLeft
  <2>2. CASE ~NoneLeft(a)
    <3>1. jk_assembler_feed(a, <<>>) = DrainOne[a]
      BY <2>2, FrameLeft
    <3>2. QED BY <2>2, <3>1 DEF NoneLeft
  <2>3. QED BY <2>1, <2>2
<1>5. \A a \in Assemblers : /\ a \in stop <=> NoneLeft(a)
                            /\ T[a] = DrainOne[a] /\ G[a] = jk_assembler_feed(a, <<>>)
  OBVIOUS
<1>6. \E f : IsLoop(f, Assemblers, R, stop, T, G)
  <2> HIDE DEF stop, T, G, R, m
  <2>1. Falls(Assemblers, stop, T, m)
    BY <1>3 DEF Falls
  <2>2. QED BY <1>1, <1>2, <2>1, LoopExists
<1> HIDE DEF stop, T, G, R, m, Body
<1>7. PICK f : /\ f \in [Assemblers -> R]
               /\ \A a \in Assemblers : f[a] = IF NoneLeft(a) THEN jk_assembler_feed(a, <<>>)
                                               ELSE f[DrainOne[a]]
  BY <1>5, <1>6 DEF IsLoop
<1>8. Eq(f)
  <2>1. \A a \in Assemblers : f[a] = Body(f, a)
    BY <1>4, <1>7
  <2>2. QED BY <2>1, <1>7
<1>9. TakeMore = CHOOSE g : Eq(g)
  BY DEF TakeMore, Body
<1>10. Eq(TakeMore)
  <2> HIDE DEF Eq
  <2>1. QED BY <1>8, <1>9
<1>11. \A a \in Assemblers : TakeMore[a] = Body(TakeMore, a)
  BY <1>10
<1>12. QED BY <1>4, <1>11

\* What is left in the end is no frame.
Emptied(a, z) ==
    z \in Assemblers /\ Len(z.buf) < JK_FRAME_SIZE /\ z.owed - Len(z.buf) = a.owed - Len(a.buf)

\* Frames are taken until there is none, and accounted for.
LEMMA TakeMoreIs ==
    ASSUME NEW a \in Assemblers, Len(a.buf) <= ASM_BUF
    PROVE  Emptied(a, TakeMore[a])
<1> DEFINE Good(x) == Len(x.buf) <= ASM_BUF => Emptied(x, TakeMore[x])
           stop == {x \in Assemblers : NoneLeft(x)}
           T == [x \in Assemblers |-> DrainOne[x]]
           m == [x \in Assemblers |-> Len(x.buf)]
           P == {x \in Assemblers : Good(x)}
<1>1. ASSUME NEW x \in Assemblers, NoneLeft(x) PROVE Good(x)
  <2> SUFFICES ASSUME Len(x.buf) <= ASM_BUF PROVE Emptied(x, TakeMore[x])
    OBVIOUS
  <2> DEFINE z == jk_assembler_feed(x, <<>>)
  <2>1. TakeMore[x] = z /\ z.out = x.out
    BY <1>1, TakeMoreLoop DEF NoneLeft
  <2>2. Len(x.buf) \in Nat /\ JK_FRAME_SIZE \in Nat /\ x.out \in Nat
    BY AsmNumbers DEF JK_FRAME_SIZE
  <2>3. CASE Len(x.buf) < JK_FRAME_SIZE
    <3>1. z = x
      BY <2>3, FeedNothing
    <3>2. QED BY <2>1, <2>3, <3>1 DEF Emptied
  <2>4. CASE JK_FRAME_SIZE <= Len(x.buf)
    <3>1. z = DrainOne[x]
      BY <2>4, FeedNothing
    <3> HIDE DEF z
    <3>2. Drained(x, z)
      BY <3>1, DrainOneIs
    <3>3. x.out # x.out + 1
      BY <2>2
    <3>4. /\ z \in Assemblers /\ Len(z.buf) < JK_FRAME_SIZE
          /\ z.owed - Len(z.buf) = x.owed - Len(x.buf)
      BY ONLY <2>1, <3>2, <3>3 DEF Drained
    <3>5. QED BY <2>1, <3>4 DEF Emptied
  <2>5. Len(x.buf) < JK_FRAME_SIZE \/ JK_FRAME_SIZE <= Len(x.buf)
    BY ONLY <2>2
  <2>6. QED BY <2>3, <2>4, <2>5
<1>2. ASSUME NEW x \in Assemblers, ~NoneLeft(x), Good(DrainOne[x]) PROVE Good(x)
  <2> SUFFICES ASSUME Len(x.buf) <= ASM_BUF PROVE Emptied(x, TakeMore[x])
    OBVIOUS
  <2> DEFINE y == DrainOne[x]
  <2>1. TakeMore[x] = TakeMore[y]
    BY <1>2, TakeMoreLoop
  <2>2. /\ y \in Assemblers /\ Len(y.buf) < Len(x.buf) /\ y.owed - Len(y.buf) = x.owed - Len(x.buf)
    BY <1>2, FrameLeft
  <2>3. Len(y.buf) \in Nat /\ Len(x.buf) \in Nat /\ ASM_BUF \in Nat
    BY <2>2, AsmNumbers, AsmAssumption
  <2>4. Good(y)
    BY <1>2
  <2> HIDE DEF y
  <2>5. Len(y.buf) <= ASM_BUF
    BY <2>2, <2>3
  <2>6. Emptied(y, TakeMore[y])
    BY <2>4, <2>5
  <2>7. QED BY <2>1, <2>2, <2>6 DEF Emptied
<1> HIDE DEF Good
<1>3. T \in [Assemblers -> Assemblers] /\ stop \in SUBSET Assemblers
  BY DrainOneLoop
<1>4. m \in [Assemblers -> Nat]
  BY AsmNumbers
<1>5. \A x \in Assemblers \ stop : m[T[x]] < m[x]
  <2> TAKE x \in Assemblers \ stop
  <2>1. T[x] = DrainOne[x] /\ DrainOne[x] \in Assemblers /\ ~NoneLeft(x)
    BY DrainOneLoop
  <2>2. m[T[x]] = Len(DrainOne[x].buf) /\ m[x] = Len(x.buf)
    BY <2>1
  <2>3. QED BY <2>1, <2>2, FrameLeft
<1>6. \A x \in Assemblers : x \in stop \/ T[x] \in P => x \in P
  BY <1>1, <1>2
<1>7. P \in SUBSET Assemblers
  OBVIOUS
<1> HIDE DEF P, stop, T, m
<1>8. Falls(Assemblers, stop, T, m) /\ Inherited(Assemblers, stop, T, P)
  BY <1>5, <1>6 DEF Falls, Inherited
<1>9. P = Assemblers
  BY ONLY <1>3, <1>4, <1>7, <1>8, LoopInduction
<1>10. Good(a)
  BY <1>9 DEF P
<1>11. QED BY <1>10 DEF Good

\* Nothing more is taken from less than a frame.
LEMMA TakeNoMore ==
    ASSUME NEW a \in Assemblers, Len(a.buf) < JK_FRAME_SIZE
    PROVE  TakeMore[a] = a
<1>1. jk_assembler_feed(a, <<>>) = a
  BY FeedNothing
<1>2. NoneLeft(a)
  BY <1>1 DEF NoneLeft
<1>3. QED BY <1>1, <1>2, TakeMoreLoop

\* What a notification adds.
LEMMA AddedMany ==
    ASSUME NEW a \in Assemblers, NEW c \in Seq(AsmBytes)
    PROVE  /\ Add(a, c) \in Assemblers /\ Add(a, c).out = a.out
           /\ Len(Add(a, c).buf) = Len(a.buf) + Len(c)
           /\ Add(a, c).owed - Len(Add(a, c).buf) = a.owed - Len(a.buf)
<1> DEFINE d == a.buf \o c
<1>1. a.buf \in Seq(AsmBytes) /\ a.owed \in Int /\ a.out \in Nat
  BY AsmNumbers
<1>2. d \in Seq(AsmBytes) /\ Len(d) = Len(a.buf) + Len(c)
  BY <1>1
<1>3. Add(a, c) = [a EXCEPT !.buf = d, !.owed = @ + Len(c)]
  BY DEF Add
<1> HIDE DEF d
<1>4. Add(a, c) = [buf |-> d, owed |-> a.owed + Len(c), out |-> a.out]
  BY <1>3 DEF Assemblers
<1>5. Len(c) \in Nat /\ Len(a.buf) \in Nat
  BY <1>1
<1>6. QED BY <1>1, <1>2, <1>4, <1>5 DEF Assemblers

\* Without the line it is still a notification.
LEMMA Stripped ==
    ASSUME NEW c \in Seq(AsmBytes)
    PROVE  Strip(c) \in Seq(AsmBytes)
<1> DEFINE d == IF c # <<>> /\ c[1] = AT_JUNK THEN Tail(c) ELSE c
<1>1. d \in Seq(AsmBytes)
  OBVIOUS
<1>2. Strip(c) = IF d # <<>> /\ d[Len(d)] = AT_JUNK THEN SubSeq(d, 1, Len(d) - 1) ELSE d
  BY DEF Strip
<1> HIDE DEF d
<1>3. d # <<>> => SubSeq(d, 1, Len(d) - 1) \in Seq(AsmBytes)
  BY <1>1
<1>4. QED BY <1>1, <1>2, <1>3

\* jk_assembler_feed of something, by what is left of it.
LEMMA FeedIs ==
    ASSUME NEW a, NEW chunk, NEW c, c = Strip(chunk), NEW room, room = ASM_BUF - Len(a.buf)
    PROVE  jk_assembler_feed(a, chunk) =
               IF c = <<>> /\ Len(a.buf) < JK_FRAME_SIZE THEN a
               ELSE IF Len(c) > room
               THEN [a EXCEPT !.buf = @ \o SubSeq(c, 1, room), !.owed = @ + room]
               ELSE DrainOne[Add(a, c)]
BY DEF jk_assembler_feed, Add

\* What a notification leaves: less than a frame, or a full buffer.
Left(a, z) ==
    /\ z \in Assemblers /\ z.owed - Len(z.buf) = a.owed - Len(a.buf)
    /\ Len(z.buf) < JK_FRAME_SIZE \/ Len(z.buf) = ASM_BUF

\* A notification leaves less than a frame, or a buffer that is full.
LEMMA TakeFramesIs ==
    ASSUME NEW a \in Assemblers, NEW chunk \in Seq(AsmBytes),
           Len(a.buf) < JK_FRAME_SIZE \/ Len(a.buf) = ASM_BUF
    PROVE  Left(a, TakeFrames(a, chunk))
<1> DEFINE c == Strip(chunk)
           room == ASM_BUF - Len(a.buf)
           cut == [a EXCEPT !.buf = @ \o SubSeq(c, 1, room), !.owed = @ + room]
           y == Add(a, c)
           b == jk_assembler_feed(a, chunk)
<1>1. /\ c \in Seq(AsmBytes) /\ Len(a.buf) \in Nat /\ ASM_BUF \in Nat /\ JK_FRAME_SIZE \in Nat
      /\ a.owed \in Int /\ a.out \in Nat /\ Len(c) \in Nat /\ a.buf \in Seq(AsmBytes)
      /\ ASM_BUF > JK_FRAME_SIZE
  BY Stripped, AsmNumbers, AsmAssumption DEF JK_FRAME_SIZE
<1> HIDE DEF c
<1>2. room \in Nat /\ Len(a.buf) + room = ASM_BUF
  BY <1>1
<1>3. b = IF c = <<>> /\ Len(a.buf) < JK_FRAME_SIZE THEN a
          ELSE IF Len(c) > room THEN cut ELSE DrainOne[y]
  BY FeedIs DEF c
<1>4. TakeFrames(a, chunk) = IF b.out = a.out THEN b ELSE TakeMore[b]
  BY DEF TakeFrames
<1> HIDE DEF b
<1>5. CASE c = <<>> /\ Len(a.buf) < JK_FRAME_SIZE
  <2>1. TakeFrames(a, chunk) = a
    BY <1>3, <1>4, <1>5
  <2>2. QED BY <1>5, <2>1 DEF Left
<1>6. CASE ~(c = <<>> /\ Len(a.buf) < JK_FRAME_SIZE) /\ Len(c) > room
  <2> DEFINE s == SubSeq(c, 1, room)
  <2> HIDE DEF room
  <2>1. s \in Seq(AsmBytes) /\ Len(s) = room
    BY <1>1, <1>2, <1>6
  <2>2. b = cut
    BY <1>3, <1>6
  <2> HIDE DEF s
  <2>3. b = Add(a, s)
    BY <2>1, <2>2 DEF Add, s
  <2>4. /\ b \in Assemblers /\ b.out = a.out /\ Len(b.buf) = Len(a.buf) + Len(s)
        /\ b.owed - Len(b.buf) = a.owed - Len(a.buf)
    BY <2>1, <2>3, AddedMany
  <2>5. TakeFrames(a, chunk) = b /\ Len(b.buf) = ASM_BUF
    BY <1>2, <1>4, <2>1, <2>4
  <2>6. QED BY <2>4, <2>5 DEF Left
<1>7. CASE ~(c = <<>> /\ Len(a.buf) < JK_FRAME_SIZE) /\ ~(Len(c) > room)
  <2>1. /\ y \in Assemblers /\ y.out = a.out /\ Len(y.buf) = Len(a.buf) + Len(c)
        /\ y.owed - Len(y.buf) = a.owed - Len(a.buf)
    BY <1>1, AddedMany
  <2> HIDE DEF y
  <2>2. Len(y.buf) <= ASM_BUF
    BY <1>1, <1>2, <1>7, <2>1
  <2>3. b = DrainOne[y]
    BY <1>3, <1>7
  <2>4. Drained(y, b)
    BY <2>1, <2>3, DrainOneIs
  <2>5. b \in Assemblers /\ Len(b.buf) <= ASM_BUF /\ b.owed - Len(b.buf) = a.owed - Len(a.buf)
    <3>1. b \in Assemblers
      BY <2>4 DEF Drained
    <3>2. Len(b.buf) \in Nat /\ Len(y.buf) \in Nat
      BY <2>1, <3>1, AsmNumbers
    <3>3. QED BY <1>1, <2>1, <2>2, <2>4, <3>1, <3>2 DEF Drained
  <2>6. CASE b.out = a.out
    <3>1. Len(b.buf) < JK_FRAME_SIZE
      BY <1>1, <2>1, <2>4, <2>6 DEF Drained
    <3>2. QED BY <1>4, <2>5, <2>6, <3>1 DEF Left
  <2>7. CASE b.out # a.out
    <3>1. Emptied(b, TakeMore[b])
      BY <2>5, TakeMoreIs
    <3>2. QED BY <1>4, <2>5, <2>7, <3>1 DEF Left, Emptied
  <2>8. QED BY <2>6, <2>7
<1>8. QED BY <1>5, <1>6, <1>7

\* One or two bytes that are no line of their own are drained with the others.
LEMMA FewTaken ==
    ASSUME NEW a \in Assemblers, Len(a.buf) < JK_FRAME_SIZE,
           NEW c \in Seq(AsmBytes), c # <<>>, Len(c) <= 2, Strip(c) = c,
           Len(a.buf) + Len(c) <= 5
    PROVE  TakeFrames(a, c) = DrainOne[Add(a, c)]
<1> DEFINE y == Add(a, c)
           b == DrainOne[y]
           room == ASM_BUF - Len(a.buf)
           cut == [a EXCEPT !.buf = @ \o SubSeq(c, 1, room), !.owed = @ + room]
<1>1. /\ Len(a.buf) \in Nat /\ ASM_BUF \in Nat /\ ASM_BUF > 4 /\ Len(c) \in Nat /\ a.out \in Nat
      /\ Len(a.buf) + Len(c) <= 5
  BY AsmNumbers, AsmAssumption DEF JK_FRAME_SIZE
<1>2. ~(Len(c) > room)
  BY ONLY <1>1
<1>3. jk_assembler_feed(a, c) = IF c = <<>> /\ Len(a.buf) < JK_FRAME_SIZE THEN a
                                ELSE IF Len(c) > room THEN cut ELSE b
  BY FeedIs
<1>4. jk_assembler_feed(a, c) = b
  BY <1>2, <1>3
<1>5. y \in Assemblers /\ y.out = a.out /\ Len(y.buf) = Len(a.buf) + Len(c)
  BY AddedMany
<1> HIDE DEF y
<1>6. Drained(y, b)
  BY <1>5, DrainOneIs
<1>7. TakeFrames(a, c) = IF b.out = a.out THEN b ELSE TakeMore[b]
  BY <1>4 DEF TakeFrames
<1> HIDE DEF b
<1>8. CASE b.out # a.out
  <2>1. b \in Assemblers /\ Len(b.buf) + 4 <= Len(y.buf)
    BY <1>1, <1>5, <1>6, <1>8 DEF Drained, JK_FRAME_SIZE
  <2>2. Len(b.buf) \in Nat /\ Len(y.buf) <= 5
    BY <1>1, <1>5, <2>1, AsmNumbers
  <2>3. Len(b.buf) < JK_FRAME_SIZE
    BY ONLY <1>1, <1>5, <2>1, <2>2 DEF JK_FRAME_SIZE
  <2>4. QED BY <1>7, <1>8, <2>1, <2>3, TakeNoMore DEF y, b
<1>9. QED BY <1>7, <1>8 DEF y, b

\* Two bytes behind a sequence, one by one or together.
LEMMA TwoBehind ==
    ASSUME NEW V, NEW s \in Seq(V), NEW b \in V, NEW c \in V
    PROVE  (s \o <<b>>) \o <<c>> = s \o <<b, c>>
<1>1. (s \o <<b>>) \o <<c>> \in Seq(V) /\ s \o <<b, c>> \in Seq(V)
  OBVIOUS
<1>2. Len((s \o <<b>>) \o <<c>>) = Len(s \o <<b, c>>)
  OBVIOUS
<1>3. \A i \in 1 .. Len((s \o <<b>>) \o <<c>>) : ((s \o <<b>>) \o <<c>>)[i] = (s \o <<b, c>>)[i]
  OBVIOUS
<1>4. QED BY ONLY <1>1, <1>2, <1>3, SameSeq

\* The assembler with bytes more.
LEMMA AddRecord ==
    ASSUME NEW a \in Assemblers, NEW c
    PROVE  Add(a, c) = [buf |-> a.buf \o c, owed |-> a.owed + Len(c), out |-> a.out]
<1> DEFINE d == a.buf \o c
           k == a.owed + Len(c)
<1>1. Add(a, c) = [a EXCEPT !.buf = d, !.owed = k]
  BY DEF Add
<1>2. a = [buf |-> a.buf, owed |-> a.owed, out |-> a.out]
  BY DEF Assemblers
<1> HIDE DEF d, k
<1>3. Add(a, c) = [buf |-> d, owed |-> k, out |-> a.out]
  BY ONLY <1>1, <1>2
<1>4. QED BY <1>3 DEF d, k

\* Two bytes make the same frames together as one by one.
LEMMA TwoBytes ==
    ASSUME NEW a \in Assemblers, Len(a.buf) < JK_FRAME_SIZE,
           NEW b \in AsmBytes \ {AT_JUNK}, NEW c \in AsmBytes \ {AT_JUNK}
    PROVE  TakeFrames(TakeFrames(a, <<b>>), <<c>>) = TakeFrames(a, <<b, c>>)
<1> DEFINE x == Add(a, <<b>>)
           z == DrainOne[x]
<1>1. Len(a.buf) \in Nat /\ Len(a.buf) < 4 /\ a.buf \in Seq(AsmBytes) /\ a.owed \in Int
  BY AsmNumbers DEF JK_FRAME_SIZE
<1>2. ASSUME NEW e \in AsmBytes \ {AT_JUNK}
      PROVE  <<e>> \in Seq(AsmBytes) /\ <<e>> # <<>> /\ Len(<<e>>) <= 2 /\ Strip(<<e>>) = <<e>>
             /\ Len(<<e>>) = 1
  BY DEF Strip
<1>3. /\ <<b, c>> \in Seq(AsmBytes) /\ <<b, c>> # <<>> /\ Len(<<b, c>>) = 2 /\ Len(<<b, c>>) <= 2
      /\ Strip(<<b, c>>) = <<b, c>>
  BY DEF Strip
<1>4. Len(a.buf) + 1 <= 5 /\ Len(a.buf) + 2 <= 5 /\ Len(a.buf) + 1 <= 4
  BY ONLY <1>1
<1>5. TakeFrames(a, <<b>>) = z
  BY <1>2, <1>4, FewTaken
<1>6. TakeFrames(a, <<b, c>>) = DrainOne[Add(a, <<b, c>>)]
  BY <1>3, <1>4, FewTaken
<1>7. x \in Assemblers /\ Len(x.buf) = Len(a.buf) + 1
  BY Added
<1>8. Add(x, <<c>>) = Add(a, <<b, c>>)
  <2>1. (a.buf \o <<b>>) \o <<c>> = a.buf \o <<b, c>>
    BY <1>1, TwoBehind
  <2>2. (a.owed + Len(<<b>>)) + Len(<<c>>) = a.owed + Len(<<b, c>>)
    <3>1. Len(<<b>>) = 1 /\ Len(<<c>>) = 1 /\ Len(<<b, c>>) = 2
      OBVIOUS
    <3>2. (a.owed + 1) + 1 = a.owed + 2
      BY ONLY <1>1
    <3> HIDE DEF x, z
    <3>3. QED BY ONLY <3>1, <3>2
  <2> DEFINE d == a.buf \o <<b>>
             k == a.owed + Len(<<b>>)
  <2>3. x = [buf |-> d, owed |-> k, out |-> a.out]
    BY AddRecord
  <2>4. Add(x, <<c>>) = [buf |-> x.buf \o <<c>>, owed |-> x.owed + Len(<<c>>), out |-> x.out]
    BY <1>7, AddRecord
  <2>5. Add(a, <<b, c>>) = [buf |-> a.buf \o <<b, c>>, owed |-> a.owed + Len(<<b, c>>),
                            out |-> a.out]
    BY AddRecord
  <2> HIDE DEF x, d, k
  <2>6. x.buf = d /\ x.owed = k /\ x.out = a.out
    BY ONLY <2>3
  <2>7. Add(x, <<c>>) = [buf |-> d \o <<c>>, owed |-> k + Len(<<c>>), out |-> a.out]
    BY ONLY <2>4, <2>6
  <2>8. QED BY ONLY <2>1, <2>2, <2>5, <2>7 DEF d, k
<1> HIDE DEF x
<1>9. Len(x.buf) <= 4
  BY <1>4, <1>7
<1>10. DrainOne[Add(z, <<c>>)] = DrainOne[Add(x, <<c>>)]
  BY <1>7, <1>9, ByteLater
<1>11. Drained(x, z)
  BY <1>7, DrainOneIs
<1> HIDE DEF z
<1>12. z \in Assemblers
  BY <1>11 DEF Drained
<1>13. Len(z.buf) < JK_FRAME_SIZE /\ Len(z.buf) + 1 <= 5
  <2>1. Len(z.buf) \in Nat /\ Len(x.buf) \in Nat
    BY <1>7, <1>12, AsmNumbers
  <2>2. QED BY ONLY <1>9, <1>11, <2>1 DEF Drained, JK_FRAME_SIZE
<1>14. TakeFrames(z, <<c>>) = DrainOne[Add(z, <<c>>)]
  BY <1>2, <1>12, <1>13, FewTaken
<1>15. QED BY <1>5, <1>6, <1>8, <1>10, <1>14

\* Between two calls every byte taken waits or was accounted for, and less than a
\* frame waits unless the buffer is full.
AsmInv ==
    /\ asm \in Assemblers /\ asm.owed = Len(asm.buf)
    /\ Len(asm.buf) < JK_FRAME_SIZE \/ Len(asm.buf) = ASM_BUF
    /\ sent \in 0 .. 3

\* The assembler starts empty.
LEMMA AsmStarts == AsmInit => AsmInv
BY DEF AsmInit, AsmInv, Assemblers, JK_FRAME_SIZE

\* A notification keeps the accounts.
LEMMA TakenKeeps ==
    ASSUME AsmInv, NEW chunk \in Seq(AsmBytes), asm' = Calm(TakeFrames(asm, chunk)),
           sent' \in 0 .. 3
    PROVE  AsmInv'
<1> DEFINE z == TakeFrames(asm, chunk)
<1>1. Left(asm, z)
  BY TakeFramesIs DEF AsmInv
<1>2. asm' = [z EXCEPT !.out = 0]
  BY DEF Calm
<1> HIDE DEF z
<1>3. z \in Assemblers /\ Len(z.buf) \in Nat /\ z.owed \in Int /\ Len(asm.buf) \in Nat
  BY <1>1, AsmNumbers DEF Left, AsmInv
<1>4. asm' \in Assemblers /\ asm'.buf = z.buf /\ asm'.owed = z.owed
  BY <1>2, <1>3 DEF Assemblers
<1>5. asm'.owed = Len(asm'.buf)
  BY <1>1, <1>3, <1>4 DEF Left, AsmInv
<1>6. Len(asm'.buf) < JK_FRAME_SIZE \/ Len(asm'.buf) = ASM_BUF
  BY <1>1, <1>4 DEF Left
<1>7. QED BY <1>4, <1>5, <1>6 DEF AsmInv

\* What the battery sends next.
PartOf(n) == [i \in 1 .. n |-> GoodFrame[((sent + i - 1) % JK_FRAME_SIZE) + 1]]

\* Every call keeps the accounts.
LEMMA AsmKeeps == AsmInv /\ [AsmNext]_asm_vars => AsmInv'
<1> SUFFICES ASSUME AsmInv, [AsmNext]_asm_vars PROVE AsmInv'
  OBVIOUS
<1>1. ASSUME AsmNoise PROVE AsmInv'
  <2>0. PICK n \in 1 .. NOTIFY_MAX :
            \E c \in [1 .. n -> AsmBytes] : asm' = Calm(TakeFrames(asm, c))
    BY <1>1 DEF AsmNoise
  <2>1. PICK c \in [1 .. n -> AsmBytes] : asm' = Calm(TakeFrames(asm, c))
    BY <2>0
  <2>2. c \in Seq(AsmBytes)
    BY AsmAssumption
  <2>3. sent' \in 0 .. 3
    BY <1>1 DEF AsmNoise, AsmInv
  <2>4. QED BY <2>1, <2>2, <2>3, TakenKeeps
<1>2. ASSUME AsmSettle PROVE AsmInv'
  BY <1>2 DEF AsmSettle, AsmInv
<1>3. ASSUME AsmGood PROVE AsmInv'
  <2>1. PICK n \in 1 .. ASM_BUF - JK_FRAME_SIZE + 1, pre \in {<<>>, <<AT_JUNK>>},
             post \in {<<>>, <<AT_JUNK>>} :
          /\ asm' = Calm(TakeFrames(asm, pre \o PartOf(n) \o post))
          /\ sent' = (sent + n) % JK_FRAME_SIZE
    BY <1>3 DEF AsmGood, PartOf
  <2>2. n \in Nat /\ sent \in Nat
    BY AsmAssumption DEF JK_FRAME_SIZE, AsmInv
  <2>3. PartOf(n) \in Seq(AsmBytes)
    <3>1. \A i \in 1 .. n : ((sent + i - 1) % 4) + 1 \in 1 .. 4
      BY <2>2
    <3>2. \A k \in 1 .. 4 : GoodFrame[k] \in AsmBytes
      BY DEF GoodFrame, GoodType, AsmBytes
    <3>3. PartOf(n) \in [1 .. n -> AsmBytes]
      BY <3>1, <3>2 DEF JK_FRAME_SIZE, PartOf
    <3>4. QED BY <2>2, <3>3
  <2>4. sent' \in 0 .. 3
    BY <2>1, <2>2 DEF JK_FRAME_SIZE
  <2>5. pre \in Seq(AsmBytes) /\ post \in Seq(AsmBytes)
    <3>1. AT_JUNK \in AsmBytes
      BY DEF AT_JUNK, AsmBytes
    <3>2. <<>> \in Seq(AsmBytes) /\ <<AT_JUNK>> \in Seq(AsmBytes)
      BY <3>1
    <3>3. QED BY <3>2
  <2>6. pre \o PartOf(n) \o post \in Seq(AsmBytes)
    BY <2>3, <2>5
  <2>7. QED BY <2>1, <2>4, <2>6, TakenKeeps
<1>4. ASSUME UNCHANGED asm_vars PROVE AsmInv'
  BY <1>4 DEF asm_vars, AsmInv
<1>5. QED BY <1>1, <1>2, <1>3, <1>4 DEF AsmNext

\* The accounts, and that two bytes make the same frames together as one by one.
LEMMA AsmExact == AsmInv => AsmAccounted /\ AsmChunksDoNotMatter
<1> SUFFICES ASSUME AsmInv PROVE AsmAccounted /\ AsmChunksDoNotMatter
  OBVIOUS
<1>1. ~Jammed => Len(asm.buf) < JK_FRAME_SIZE
  BY DEF AsmInv, Jammed
<1>2. QED BY <1>1, TwoBytes DEF AsmInv, AsmAccounted, AsmChunksDoNotMatter

----------------------------------------------------------------------------
(* The framer of the Magnum bus: what its turns pass on. *)

\* The bytes of no packets, and of one more.
LEMMA NoneTotal == Total(<<>>) = 0
<1> DEFINE B == {p \in (DOMAIN <<>>) \X (1 .. MAG_INV_LEN) : p[2] <= <<>>[p[1]].len}
<1>1. B = {}
  OBVIOUS
<1> HIDE DEF B
<1>2. Cardinality(B) = 0
  BY <1>1, FS_EmptySet
<1>3. QED BY <1>2 DEF Total, B

\* The bytes of packets that are held.
HeldBytes(s) == {p \in (DOMAIN s) \X (1 .. MAG_INV_LEN) : p[2] <= s[p[1]].len}

\* They can be counted.
LEMMA TotalNat ==
    ASSUME NEW s \in Seq(Packets)
    PROVE  IsFiniteSet(HeldBytes(s)) /\ Total(s) \in Nat /\ Total(s) = Cardinality(HeldBytes(s))
<1> DEFINE D == (DOMAIN s) \X (1 .. MAG_INV_LEN)
<1>1. DOMAIN s = 1 .. Len(s) /\ Len(s) \in Nat
  OBVIOUS
<1>2. IsFiniteSet(DOMAIN s) /\ IsFiniteSet(1 .. MAG_INV_LEN)
  <2>1. Len(s) \in Int /\ 1 \in Int /\ MAG_INV_LEN \in Int
    BY <1>1 DEF MAG_INV_LEN
  <2>2. IsFiniteSet(1 .. Len(s))
    BY <2>1, FS_Interval
  <2>3. IsFiniteSet(1 .. MAG_INV_LEN)
    BY <2>1, FS_Interval
  <2>4. QED BY <1>1, <2>2, <2>3
<1>3. IsFiniteSet(D)
  BY <1>2, FS_Product
<1>4. HeldBytes(s) \subseteq D
  BY DEF HeldBytes
<1>5. IsFiniteSet(HeldBytes(s))
  BY <1>3, <1>4, FS_Subset
<1>6. QED BY <1>5, FS_CardinalityType DEF Total, HeldBytes

\* A packet more has its bytes more.
LEMMA TotalAppend ==
    ASSUME NEW s \in Seq(Packets), NEW pkt \in Packets
    PROVE  Total(Append(s, pkt)) = Total(s) + pkt.len
<1> DEFINE n == Len(s) + 1
           t == Append(s, pkt)
           B0 == HeldBytes(s)
           B1 == B0 \union {<<n, 1>>}
           B2 == B1 \union {<<n, 2>>}
           B3 == B2 \union {<<n, 3>>}
<1>1. /\ t \in Seq(Packets) /\ DOMAIN t = 1 .. n /\ DOMAIN s = 1 .. Len(s) /\ Len(s) \in Nat
      /\ \A i \in 1 .. Len(s) : t[i] = s[i]
      /\ t[n] = pkt
  OBVIOUS
<1>2. pkt.len \in 1 .. 3
  BY DEF Packets, MAG_INV_LEN
<1> HIDE DEF t
<1>3. \A k \in 1 .. 3 : <<n, k>> \notin B0
  BY <1>1 DEF HeldBytes
<1>4. ASSUME NEW p PROVE p \in HeldBytes(t) <=> p \in B0 \/ \E k \in 1 .. pkt.len : p = <<n, k>>
  <2>1. ASSUME p \in HeldBytes(t) PROVE p \in B0 \/ \E k \in 1 .. pkt.len : p = <<n, k>>
    <3>1. p \in (1 .. n) \X (1 .. 3) /\ p[2] <= t[p[1]].len
      BY <1>1, <2>1 DEF HeldBytes, MAG_INV_LEN
    <3>2. CASE p[1] = n
      BY <1>1, <1>2, <3>1, <3>2
    <3>3. CASE p[1] # n
      <4>1. p[1] \in 1 .. Len(s)
        BY <1>1, <3>1, <3>3
      <4>2. QED BY <1>1, <3>1, <4>1 DEF HeldBytes, MAG_INV_LEN
    <3>4. QED BY <3>2, <3>3
  <2>2. ASSUME p \in B0 PROVE p \in HeldBytes(t)
    <3>1. p \in (1 .. Len(s)) \X (1 .. MAG_INV_LEN) /\ p[2] <= s[p[1]].len
      BY <1>1, <2>2 DEF HeldBytes
    <3>2. p[1] \in 1 .. n /\ t[p[1]] = s[p[1]]
      BY <1>1, <3>1
    <3>3. QED BY <1>1, <3>1, <3>2 DEF HeldBytes
  <2>3. ASSUME NEW k \in 1 .. pkt.len PROVE <<n, k>> \in HeldBytes(t)
    <3>1. k \in 1 .. 3 /\ k <= pkt.len /\ n \in 1 .. n
      BY <1>1, <1>2
    <3>2. QED BY <1>1, <3>1 DEF HeldBytes, MAG_INV_LEN
  <2>4. QED BY <2>1, <2>2, <2>3
<1>5. IsFiniteSet(B0) /\ Cardinality(B0) = Total(s) /\ Total(s) \in Nat
  BY TotalNat
<1>6. Total(t) = Cardinality(HeldBytes(t))
  BY <1>1, TotalNat
<1> HIDE DEF B0
<1>7. IsFiniteSet(B1) /\ Cardinality(B1) = Total(s) + 1
  <2>1. <<n, 1>> \notin B0
    BY <1>3
  <2>2. Cardinality(B1) = Cardinality(B0) + 1 /\ IsFiniteSet(B1)
    BY <1>5, <2>1, FS_AddElement
  <2>3. QED BY <1>5, <2>2
<1>8. <<n, 2>> \notin B1
  BY <1>3
<1>9. <<n, 3>> \notin B2
  BY <1>3
<1> HIDE DEF B1
<1>10. IsFiniteSet(B2) /\ Cardinality(B2) = Total(s) + 2
  <2>1. Cardinality(B2) = Cardinality(B1) + 1 /\ IsFiniteSet(B2)
    BY <1>7, <1>8, FS_AddElement
  <2>2. QED BY <1>5, <1>7, <2>1
<1> HIDE DEF B2
<1>11. Cardinality(B3) = Total(s) + 3
  <2>1. Cardinality(B3) = Cardinality(B2) + 1
    BY <1>9, <1>10, FS_AddElement
  <2>2. QED BY <1>5, <1>10, <2>1
<1> HIDE DEF n
<1>12. CASE pkt.len = 1
  <2>1. HeldBytes(t) = B1
    BY <1>4, <1>12 DEF B1
  <2>2. QED BY <1>6, <1>7, <1>12, <2>1 DEF t
<1>13. CASE pkt.len = 2
  <2>1. HeldBytes(t) = B2
    BY <1>4, <1>13 DEF B1, B2
  <2>2. QED BY <1>6, <1>10, <1>13, <2>1 DEF t
<1>14. CASE pkt.len = 3
  <2>1. HeldBytes(t) = B3
    BY <1>4, <1>14 DEF B1, B2
  <2>2. QED BY <1>6, <1>11, <1>14, <2>1 DEF t
<1>15. QED BY <1>2, <1>12, <1>13, <1>14

\* A framer with other bytes and counts.
Move(f, b, o, s) == [f EXCEPT !.buf = b, !.owed = @ + o, !.since_inv = s]

\* What is delivered does not depend on the buffer.
LEMMA DeliverMoved ==
    ASSUME NEW f \in Framers, NEW b, NEW o \in Int, NEW s, NEW pkts, NEW n \in Int
    PROVE  deliver(Move(f, b, o, s), pkts, n) = Move(deliver(f, pkts, n), b, o, s)
<1>1. (f.owed + o) - n = (f.owed - n) + o
  BY DEF Framers
<1>2. QED BY <1>1 DEF deliver, Move, Framers


\* What is known of a framer's fields.
LEMMA FrFields ==
    ASSUME NEW f \in Framers
    PROVE  /\ f.state \in {"hunt", "after_inv", "after_remote"}
           /\ f.buf \in Seq(Bytes) /\ Len(f.buf) \in Nat
           /\ f.have_id \in BOOLEAN /\ f.model \in Models \union {NoModel}
           /\ f.probing \in BOOLEAN /\ f.probe \in Models \union {NoModel}
           /\ f.held \in Seq(Packets) /\ Total(f.held) \in Nat
           /\ f.synced \in BOOLEAN /\ f.since_inv \in Nat
           /\ f.out \in Seq(Packets \union {Unknown}) /\ f.owed \in Int
<1>1. f.held \in Seq(Packets)
  BY DEF Framers
<1>2. Total(f.held) \in Nat
  BY <1>1, TotalNat
<1>3. QED BY <1>2 DEF Framers

\* No more is held than there is room for.
Small(f) == Len(f.held) <= MAG_HELD_MAX

\* An inverter that is known was heard lately.
Recent(f) == f.have_id => f.since_inv <= MAG_RELEARN_BYTES

Fit(f) == Small(f) /\ Recent(f)

\* k bytes were passed on between f and g, which is as ready as f was.
Passed(f, g, k) ==
    /\ g \in Framers /\ g.buf = f.buf /\ g.state = f.state /\ g.since_inv = f.since_inv
    /\ g.have_id = f.have_id /\ g.model = f.model
    /\ g.owed - Total(g.held) = f.owed - Total(f.held) - k
    /\ Small(f) => Small(g)

\* Delivering passes bytes on.
LEMMA DeliverPasses ==
    ASSUME NEW f \in Framers, NEW pkts \in Seq(Packets \union {Unknown}), NEW n \in Int,
           NEW g, g = deliver(f, pkts, n)
    PROVE  Passed(f, g, n) /\ g.held = f.held /\ g.probing = f.probing /\ g.probe = f.probe
           /\ g.synced = f.synced
<1> DEFINE o == f.out \o pkts
           w == f.owed - n
<1>1. o \in Seq(Packets \union {Unknown}) /\ w \in Int
  BY FrFields
<1>2. g = [f EXCEPT !.out = o, !.owed = w]
  BY DEF deliver
<1> HIDE DEF o
<1>3. g \in Framers /\ g.buf = f.buf /\ g.state = f.state /\ g.since_inv = f.since_inv
      /\ g.have_id = f.have_id /\ g.model = f.model /\ g.held = f.held /\ g.probing = f.probing
      /\ g.probe = f.probe /\ g.synced = f.synced /\ g.owed = w
  <2> HIDE DEF w
  <2>1. QED BY <1>1, <1>2 DEF Framers
<1>4. f.owed \in Int /\ Total(f.held) \in Nat
  BY FrFields
<1>5. w - Total(f.held) = f.owed - Total(f.held) - n
  BY ONLY <1>4, n \in Int
<1>6. QED BY <1>3, <1>5 DEF Passed, Small

\* So does counting them as unknown.
LEMMA UnknownPasses ==
    ASSUME NEW f \in Framers, NEW n \in Nat, NEW g, g = unknown(f, n)
    PROVE  Passed(f, g, n) /\ g.held = f.held /\ g.probing = f.probing /\ g.probe = f.probe
           /\ g.synced = f.synced
<1> DEFINE pkts == [i \in 1 .. n |-> Unknown]
<1>1. pkts \in Seq(Packets \union {Unknown})
  OBVIOUS
<1>2. g = deliver(f, pkts, n)
  BY DEF unknown
<1> HIDE DEF pkts
<1>3. QED BY <1>1, <1>2, DeliverPasses

\* Steps that pass bytes on one after the other.
LEMMA PassedTwice ==
    ASSUME NEW f \in Framers, NEW g, NEW h, NEW j \in Int, NEW k \in Int,
           Passed(f, g, j), Passed(g, h, k)
    PROVE  Passed(f, h, j + k)
<1>1. g \in Framers /\ h \in Framers
  BY DEF Passed
<1>2. /\ f.owed \in Int /\ g.owed \in Int /\ h.owed \in Int
      /\ Total(f.held) \in Nat /\ Total(g.held) \in Nat /\ Total(h.held) \in Nat
  BY <1>1, FrFields
<1>3. /\ g.owed - Total(g.held) = f.owed - Total(f.held) - j
      /\ h.owed - Total(h.held) = g.owed - Total(g.held) - k
  BY DEF Passed
<1>4. h.owed - Total(h.held) = f.owed - Total(f.held) - (j + k)
  BY ONLY <1>2, <1>3, j \in Int, k \in Int
<1>5. QED BY <1>1, <1>4 DEF Passed

\* What is held goes out, in whatever form.
LEMMA HeldOut ==
    ASSUME NEW f \in Framers, NEW g, Passed(f, g, Total(f.held)), g.held = f.held,
           NEW h, h \in Framers, h.held = <<>>, h.owed = g.owed, h.buf = g.buf,
           h.state = g.state, h.since_inv = g.since_inv, h.have_id = g.have_id,
           h.model = g.model
    PROVE  Passed(f, h, 0)
<1>1. g \in Framers
  BY DEF Passed
<1>2. f.owed \in Int /\ g.owed \in Int /\ Total(f.held) \in Nat /\ Total(g.held) = Total(f.held)
  BY <1>1, FrFields
<1>3. Total(h.held) = 0
  BY NoneTotal
<1>4. g.owed - Total(g.held) = f.owed - Total(f.held) - Total(f.held)
  BY DEF Passed
<1>5. g.owed - 0 = f.owed - Total(f.held) - 0
  BY ONLY <1>2, <1>4
<1>6. Small(h)
  <2>1. Len(h.held) = 0 /\ 0 <= MAG_HELD_MAX
    BY FrAssumption
  <2>2. QED BY <2>1 DEF Small
<1>7. QED BY <1>3, <1>5, <1>6 DEF Passed

\* No packets are packets.
LEMMA NothingHeld == <<>> \in Seq(Packets)
OBVIOUS

\* What was held is passed on whole.
LEMMA FlushPasses ==
    ASSUME NEW f \in Framers, NEW h, h = held_flush(f)
    PROVE  Passed(f, h, 0) /\ h.probing = f.probing /\ h.probe = f.probe
<1> DEFINE n == Total(f.held)
           g == deliver(f, f.held, n)
<1>1. f.held \in Seq(Packets \union {Unknown}) /\ n \in Int
  BY FrFields
<1>2. Passed(f, g, n) /\ g.held = f.held /\ g.probing = f.probing /\ g.probe = f.probe
  BY <1>1, DeliverPasses
<1>3. h = [g EXCEPT !.held = <<>>]
  BY DEF held_flush
<1> HIDE DEF g
<1>4. g \in Framers
  BY <1>2 DEF Passed
<1>5. /\ h \in Framers /\ h.held = <<>> /\ h.owed = g.owed /\ h.buf = g.buf
      /\ h.state = g.state /\ h.since_inv = g.since_inv /\ h.have_id = g.have_id
      /\ h.model = g.model /\ h.probing = g.probing /\ h.probe = g.probe
  BY <1>3, <1>4, NothingHeld DEF Framers
<1>6. Passed(f, h, 0)
  BY <1>2, <1>5, HeldOut
<1>7. QED BY <1>2, <1>5, <1>6

\* What was held is counted as unknown whole.
LEMMA DropPasses ==
    ASSUME NEW f \in Framers, NEW h, h = held_drop(f)
    PROVE  Passed(f, h, 0) /\ h.probing = FALSE /\ h.probe = NoModel /\ h.held = <<>>
<1> DEFINE n == Total(f.held)
           g == unknown(f, n)
<1>1. n \in Nat
  BY FrFields
<1>2. Passed(f, g, n) /\ g.held = f.held
  BY <1>1, UnknownPasses
<1>3. h = [g EXCEPT !.held = <<>>, !.probing = FALSE, !.probe = NoModel]
  BY DEF held_drop
<1> HIDE DEF g
<1>4. g \in Framers
  BY <1>2 DEF Passed
<1>5. /\ h \in Framers /\ h.held = <<>> /\ h.owed = g.owed /\ h.buf = g.buf
      /\ h.state = g.state /\ h.since_inv = g.since_inv /\ h.have_id = g.have_id
      /\ h.model = g.model /\ h.probing = FALSE /\ h.probe = NoModel
  BY <1>3, <1>4, NothingHeld, ZenonT(40) DEF Framers
<1>6. Passed(f, h, 0)
  BY <1>2, <1>5, HeldOut
<1>7. QED BY <1>5, <1>6

\* A packet is passed on, held, or counted as unknown with those that were held.
LEMMA EmitPasses ==
    ASSUME NEW f \in Framers, NEW pkt \in Packets
    PROVE  Passed(f, emit(f, pkt), pkt.len)
<1>1. pkt.len \in Nat /\ pkt.len \in Int
  BY DEF Packets, MAG_INV_LEN
<1>2. CASE ~f.probing
  <2>1. <<pkt>> \in Seq(Packets \union {Unknown})
    OBVIOUS
  <2>2. emit(f, pkt) = deliver(f, <<pkt>>, pkt.len)
    BY <1>2 DEF emit
  <2> DEFINE g == deliver(f, <<pkt>>, pkt.len)
  <2>3. Passed(f, g, pkt.len)
    BY <1>1, <2>1, DeliverPasses
  <2> HIDE DEF g
  <2>4. QED BY <2>2, <2>3 DEF g
<1>3. CASE f.probing /\ Len(f.held) < MAG_HELD_MAX
  <2> DEFINE h == Append(f.held, pkt)
             g == [f EXCEPT !.held = h]
  <2>1. emit(f, pkt) = g
    BY <1>3 DEF emit
  <2>2. h \in Seq(Packets) /\ Total(h) = Total(f.held) + pkt.len
    BY FrFields, TotalAppend
  <2>3. Len(h) <= MAG_HELD_MAX
    <3>1. Len(h) = Len(f.held) + 1 /\ Len(f.held) \in Nat
      BY FrFields
    <3>2. QED BY <1>3, <3>1, FrAssumption
  <2> HIDE DEF h
  <2>4. /\ g \in Framers /\ g.buf = f.buf /\ g.state = f.state /\ g.since_inv = f.since_inv
        /\ g.have_id = f.have_id /\ g.model = f.model /\ g.held = h /\ g.owed = f.owed
    BY <2>2 DEF Framers
  <2>5. f.owed \in Int /\ Total(f.held) \in Nat
    BY FrFields
  <2>6. f.owed - (Total(f.held) + pkt.len) = f.owed - Total(f.held) - pkt.len
    BY ONLY <1>1, <2>5
  <2> HIDE DEF g
  <2>7. QED BY <2>1, <2>2, <2>4, <2>6, <2>3 DEF Passed, Small
<1>4. CASE f.probing /\ ~(Len(f.held) < MAG_HELD_MAX)
  <2> DEFINE d == held_drop(f)
             u == unknown(d, pkt.len)
  <2>1. emit(f, pkt) = u
    BY <1>4 DEF emit
  <2>2. Passed(f, d, 0)
    BY DropPasses
  <2>3. d \in Framers
    BY <2>2 DEF Passed
  <2> HIDE DEF d
  <2>4. Passed(d, u, pkt.len)
    BY <1>1, <2>3, UnknownPasses
  <2> HIDE DEF u
  <2>5. Passed(f, u, 0 + pkt.len)
    BY <1>1, <2>2, <2>4, PassedTwice
  <2>6. QED BY <1>1, <2>1, <2>5
<1>5. QED BY <1>2, <1>3, <1>4

\* Bytes that are skipped are counted, those held before them too.
LEMMA SkipPasses ==
    ASSUME NEW f \in Framers, NEW n \in Nat
    PROVE  Passed(f, skip(f, n), n)
<1> DEFINE d == IF f.probing THEN held_drop(f) ELSE f
           u == unknown(d, n)
           g == skip(f, n)
<1>1. Passed(f, d, 0)
  <2>1. Passed(f, f, 0)
    BY FrFields DEF Passed
  <2>2. QED BY <2>1, DropPasses
<1>2. d \in Framers
  BY <1>1 DEF Passed
<1>3. g = [u EXCEPT !.synced = FALSE]
  BY DEF skip
<1> HIDE DEF d, g
<1>4. Passed(d, u, n)
  BY <1>2, UnknownPasses
<1> HIDE DEF u
<1>5. Passed(f, u, 0 + n)
  BY <1>1, <1>4, PassedTwice
<1>6. u \in Framers
  BY <1>4 DEF Passed
<1>7. /\ g \in Framers /\ g.buf = u.buf /\ g.state = u.state /\ g.since_inv = u.since_inv
      /\ g.have_id = u.have_id /\ g.model = u.model /\ g.held = u.held /\ g.owed = u.owed
  BY <1>3, <1>6 DEF Framers
<1>8. 0 + n = n
  OBVIOUS
<1>9. Passed(f, g, n)
  BY <1>5, <1>7, <1>8 DEF Passed, Small
<1>10. QED BY <1>9 DEF g

\* What is owed but neither held nor waiting: nothing, between calls.
Balance(f) == f.owed - Total(f.held) - Len(f.buf)

\* The model is that of the inverter that is known.
Known(f) == f.have_id \/ f.model = NoModel

Keeps(f, g) == (Known(f) => Known(g)) /\ (Fit(f) => Fit(g))

\* The measure of the framer's loop.
Work(f) == 2 * Len(f.buf) + (IF f.state = "hunt" THEN 0 ELSE 1)

\* g is what f's bytes, without the first n, are left with.
Advanced(f, g, n) ==
    /\ g \in Framers /\ Len(g.buf) = Len(f.buf) - n /\ g.buf = SubSeq(f.buf, n + 1, Len(f.buf))
    /\ Balance(g) = Balance(f) /\ Keeps(f, g)

\* What was passed on leaves the buffer.
LEMMA ConsumePassed ==
    ASSUME NEW f \in Framers, NEW g \in Framers, NEW n \in 0 .. Len(f.buf), g.buf = f.buf,
           g.owed - Total(g.held) = f.owed - Total(f.held) - n, Keeps(f, g),
           NEW h, h = consume(g, n)
    PROVE  Advanced(f, h, n) /\ h.state = g.state /\ h.since_inv = g.since_inv
<1> DEFINE b == SubSeq(f.buf, n + 1, Len(f.buf))
<1>1. f.buf \in Seq(Bytes) /\ Len(f.buf) \in Nat
  BY FrFields
<1>2. b \in Seq(Bytes) /\ Len(b) = Len(f.buf) - n
  BY <1>1
<1>3. h = [g EXCEPT !.buf = b]
  BY DEF consume
<1> HIDE DEF b
<1>4. /\ h \in Framers /\ h.buf = b /\ h.state = g.state /\ h.since_inv = g.since_inv
      /\ h.have_id = g.have_id /\ h.model = g.model /\ h.held = g.held /\ h.owed = g.owed
  BY <1>2, <1>3 DEF Framers
<1>5. /\ f.owed \in Int /\ g.owed \in Int /\ Total(f.held) \in Nat /\ Total(g.held) \in Nat
  BY FrFields
<1>6. n \in Nat
  BY <1>1
<1>7. g.owed - Total(g.held) - (Len(f.buf) - n) = f.owed - Total(f.held) - Len(f.buf)
  BY ONLY <1>1, <1>5, <1>6, g.owed - Total(g.held) = f.owed - Total(f.held) - n
<1>8. Keeps(f, h)
  BY <1>4 DEF Keeps, Known, Fit, Small, Recent
<1>9. QED BY <1>2, <1>4, <1>7, <1>8 DEF Advanced, Balance, b

\* The framer in another state.
LEMMA Restated ==
    ASSUME NEW g \in Framers, NEW s \in {"hunt", "after_inv", "after_remote"},
           NEW h, h = [g EXCEPT !.state = s]
    PROVE  /\ h \in Framers /\ h.buf = g.buf /\ h.state = s /\ h.since_inv = g.since_inv
           /\ h.have_id = g.have_id /\ h.model = g.model /\ h.held = g.held /\ h.owed = g.owed
BY DEF Framers

\* Learning the inverter passes on what was held, and nothing else.
LEMMA LearnKeeps ==
    ASSUME NEW f \in Framers, f.have_id \/ f.buf[1] \in Models, NEW g, g = Learn(f)
    PROVE  /\ g \in Framers /\ g.buf = f.buf /\ g.since_inv = f.since_inv
           /\ g.owed - Total(g.held) = f.owed - Total(f.held)
           /\ Known(f) => Known(g)
           /\ Small(f) => Small(g)
<1> DEFINE model == f.buf[1]
           e == [f EXCEPT !.probing = FALSE, !.probe = NoModel, !.have_id = TRUE,
                          !.model = model]
           d == held_drop(f)
           p == [d EXCEPT !.probing = TRUE, !.probe = model]
<1>1. CASE f.have_id
  <2>1. g = f
    BY <1>1 DEF Learn
  <2>2. QED BY <2>1
<1>2. CASE ~f.have_id /\ f.probing /\ f.synced /\ model = f.probe
  <2>1. g = held_flush(e)
    BY <1>2 DEF Learn
  <2>2. model \in Models
    BY <1>2
  <2> HIDE DEF model
  <2>3. /\ e \in Framers /\ e.buf = f.buf /\ e.since_inv = f.since_inv /\ e.held = f.held
        /\ e.owed = f.owed /\ e.have_id = TRUE
    BY <2>2 DEF Framers
  <2> HIDE DEF e
  <2>4. Passed(e, g, 0)
    BY <2>1, <2>3, FlushPasses
  <2>5. f.owed \in Int /\ Total(f.held) \in Nat
    BY FrFields
  <2>6. f.owed - Total(f.held) - 0 = f.owed - Total(f.held)
    BY ONLY <2>5
  <2>7. QED BY <2>3, <2>4, <2>6 DEF Passed, Known, Small
<1>3. CASE ~f.have_id /\ ~(f.probing /\ f.synced /\ model = f.probe)
  <2>1. g = p
    BY <1>3 DEF Learn
  <2>2. model \in Models
    BY <1>3
  <2> HIDE DEF model
  <2>3. Passed(f, d, 0)
    BY DropPasses
  <2> HIDE DEF d
  <2>4. d \in Framers
    BY <2>3 DEF Passed
  <2>5. /\ p \in Framers /\ p.buf = d.buf /\ p.since_inv = d.since_inv /\ p.held = d.held
        /\ p.owed = d.owed /\ p.have_id = d.have_id /\ p.model = d.model
    BY <2>2, <2>4 DEF Framers
  <2>6. f.owed \in Int /\ Total(f.held) \in Nat
    BY FrFields
  <2>7. f.owed - Total(f.held) - 0 = f.owed - Total(f.held)
    BY ONLY <2>6
  <2>8. QED BY <2>1, <2>3, <2>5, <2>7 DEF Passed, Known, Small
<1>4. QED BY <1>1, <1>2, <1>3

\* An inverter packet is passed on or held, and leaves the buffer.
LEMMA TakeInverterIs ==
    ASSUME NEW f \in Framers, Len(f.buf) >= MAG_INV_LEN, f.have_id \/ f.buf[1] \in Models
    PROVE  /\ Advanced(f, TakeInverter(f), MAG_INV_LEN)
           /\ TakeInverter(f).state = "after_inv" /\ TakeInverter(f).since_inv = 0
<1> DEFINE g == Learn(f)
           d == [g EXCEPT !.since_inv = 0, !.synced = TRUE]
           pkt == [type |-> "inverter", len |-> MAG_INV_LEN]
           e == emit(d, pkt)
           h == [e EXCEPT !.state = "after_inv"]
           z == consume(h, MAG_INV_LEN)
<1>1. pkt \in Packets /\ pkt.len = 3
  BY DEF Packets, MAG_INV_LEN
<1>2. TakeInverter(f) = z
  BY DEF TakeInverter
<1> HIDE DEF pkt
<1>3. /\ g \in Framers /\ g.buf = f.buf
      /\ g.owed - Total(g.held) = f.owed - Total(f.held)
      /\ Known(f) => Known(g)
      /\ Small(f) => Small(g)
  BY LearnKeeps
<1> HIDE DEF g
<1>4. /\ d \in Framers /\ d.buf = g.buf /\ d.since_inv = 0 /\ d.held = g.held
      /\ d.owed = g.owed /\ d.have_id = g.have_id /\ d.model = g.model
  BY <1>3 DEF Framers
<1> HIDE DEF d
<1>5. Passed(d, e, 3)
  BY <1>1, <1>4, EmitPasses
<1> HIDE DEF e
<1>6. e \in Framers
  BY <1>5 DEF Passed
<1>7. /\ h \in Framers /\ h.buf = e.buf /\ h.state = "after_inv" /\ h.since_inv = e.since_inv
      /\ h.have_id = e.have_id /\ h.model = e.model /\ h.held = e.held /\ h.owed = e.owed
  BY <1>6, Restated
<1> HIDE DEF h
<1>8. h.owed - Total(h.held) = f.owed - Total(f.held) - 3
  BY <1>3, <1>4, <1>5, <1>7 DEF Passed
<1>9. h.buf = f.buf /\ Keeps(f, h) /\ h.since_inv = 0
  <2>1. h.buf = f.buf /\ (Known(f) => Known(h)) /\ h.since_inv = 0
    BY <1>3, <1>4, <1>5, <1>7 DEF Passed, Known
  <2>2. Small(f) => Small(h)
    BY <1>3, <1>4, <1>5, <1>7 DEF Passed, Small
  <2>3. Recent(h)
    BY <2>1, FrAssumption DEF Recent
  <2>4. QED BY <2>1, <2>2, <2>3 DEF Keeps, Fit
<1>10. 3 \in 0 .. Len(f.buf)
  BY FrFields DEF MAG_INV_LEN
<1>11. Advanced(f, z, 3) /\ z.state = h.state /\ z.since_inv = h.since_inv
  BY <1>7, <1>8, <1>9, <1>10, ConsumePassed DEF MAG_INV_LEN
<1> HIDE DEF z
<1>12. QED BY <1>2, <1>7, <1>9, <1>11 DEF MAG_INV_LEN

\* Bytes at the front are skipped.
LEMMA SkippedIs ==
    ASSUME NEW f \in Framers, NEW n \in 0 .. Len(f.buf), NEW z, z = consume(skip(f, n), n)
    PROVE  Advanced(f, z, n) /\ z.state = f.state /\ z.since_inv = f.since_inv
<1> DEFINE g == skip(f, n)
<1>1. n \in Nat
  BY FrFields
<1>2. Passed(f, g, n)
  BY <1>1, SkipPasses
<1> HIDE DEF g
<1>3. g \in Framers /\ Keeps(f, g)
  BY <1>2 DEF Passed, Keeps, Known, Fit, Recent
<1>4. QED BY <1>2, <1>3, ConsumePassed DEF Passed, g

\* A packet that is taken from the front.
LEMMA TakenIs ==
    ASSUME NEW f \in Framers, NEW pkt \in Packets, pkt.len <= Len(f.buf),
           NEW s \in {"hunt", "after_inv", "after_remote"},
           NEW e, e = emit(f, pkt), NEW h, h = [e EXCEPT !.state = s],
           NEW z, z = consume(h, pkt.len)
    PROVE  Advanced(f, z, pkt.len) /\ z.state = s /\ z.since_inv = f.since_inv
<1>1. Passed(f, e, pkt.len)
  BY EmitPasses
<1>2. e \in Framers
  BY <1>1 DEF Passed
<1>3. /\ h \in Framers /\ h.buf = e.buf /\ h.state = s /\ h.since_inv = e.since_inv
      /\ h.have_id = e.have_id /\ h.model = e.model /\ h.held = e.held /\ h.owed = e.owed
  BY <1>2, Restated
<1>4. z = consume(h, pkt.len)
  OBVIOUS
<1>5. pkt.len \in 0 .. Len(f.buf)
  BY FrFields DEF Packets, MAG_INV_LEN
<1>6. Keeps(f, h)
  BY <1>1, <1>3 DEF Passed, Keeps, Known, Fit, Recent, Small
<1>7. h.buf = f.buf /\ h.owed - Total(h.held) = f.owed - Total(f.held) - pkt.len
      /\ h.since_inv = f.since_inv
  BY <1>1, <1>3 DEF Passed
<1>8. Advanced(f, z, pkt.len) /\ z.state = h.state /\ z.since_inv = h.since_inv
  BY ONLY f \in Framers, <1>3, <1>4, <1>5, <1>6, <1>7, ConsumePassed
<1>9. QED BY <1>3, <1>7, <1>8

\* A turn that does something leaves less to do, and the accounts as they were.
Better(f, g) ==
    /\ g \in Framers /\ Balance(g) = Balance(f) /\ Keeps(f, g)
    /\ g.since_inv <= f.since_inv /\ Work(g) < Work(f)

\* The work left is a natural.
LEMMA WorkNat ==
    ASSUME NEW f \in Framers
    PROVE  Work(f) \in Nat
<1> DEFINE k == Len(f.buf)
           a == IF f.state = "hunt" THEN 0 ELSE 1
<1>1. k \in Nat /\ a \in {0, 1} /\ Work(f) = 2 * k + a
  BY FrFields DEF Work
<1> HIDE DEF k, a
<1>2. 2 * k + a \in Nat
  BY ONLY <1>1
<1>3. QED BY <1>1, <1>2

\* Bytes that leave the buffer leave less work.
LEMMA AdvancedIsBetter ==
    ASSUME NEW f \in Framers, NEW n \in 1 .. Len(f.buf), NEW g, Advanced(f, g, n),
           g.since_inv <= f.since_inv
    PROVE  Better(f, g)
<1> DEFINE k == Len(f.buf)
           j == Len(g.buf)
           a == IF f.state = "hunt" THEN 0 ELSE 1
           b == IF g.state = "hunt" THEN 0 ELSE 1
<1>1. j = k - n /\ k \in Nat /\ g \in Framers
  BY FrFields DEF Advanced
<1>2. a \in {0, 1} /\ b \in {0, 1}
  OBVIOUS
<1>3. Work(f) = 2 * k + a /\ Work(g) = 2 * j + b
  BY DEF Work
<1> HIDE DEF k, j, a, b
<1>4. n \in Nat /\ n >= 1
  BY <1>1 DEF k
<1>5. 2 * j + b < 2 * k + a
  BY ONLY <1>1, <1>2, <1>4
<1>6. QED BY <1>3, <1>5 DEF Better, Advanced

\* The hunt begins again.
LEMMA HuntIsBetter ==
    ASSUME NEW f \in Framers, f.state # "hunt", NEW g, g = [f EXCEPT !.state = "hunt"]
    PROVE  Better(f, g)
<1>1. /\ g \in Framers /\ g.buf = f.buf /\ g.state = "hunt" /\ g.since_inv = f.since_inv
      /\ g.have_id = f.have_id /\ g.model = f.model /\ g.held = f.held /\ g.owed = f.owed
  BY Restated
<1>2. Len(f.buf) \in Nat /\ f.since_inv \in Nat
  BY FrFields
<1>3. Work(f) = 2 * Len(f.buf) + 1 /\ Work(g) = 2 * Len(f.buf) + 0
  BY <1>1 DEF Work
<1>4. 2 * Len(f.buf) + 0 < 2 * Len(f.buf) + 1 /\ f.since_inv <= f.since_inv
  BY ONLY <1>2
<1>5. QED BY <1>1, <1>3, <1>4 DEF Better, Balance, Keeps, Known, Fit, Small, Recent

\* Where inverter packets are in the buffer.
At(f) == {i \in 1 .. Len(f.buf) - MAG_INV_LEN + 1 : mag_frame_is_inverter(f, i)}

\* The first place where an inverter packet may start.
FirstAt(f) == CHOOSE x \in At(f) : \A y \in At(f) : x <= y

\* It is in the buffer.
LEMMA FirstAtIs ==
    ASSUME NEW f \in Framers, At(f) # {}
    PROVE  /\ FirstAt(f) \in At(f) /\ \A y \in At(f) : FirstAt(f) <= y
           /\ FirstAt(f) \in 1 .. Len(f.buf) /\ Len(f.buf) >= 3
<1>1. Len(f.buf) \in Nat
  BY FrFields
<1>2. \A i \in At(f) : i \in 1 .. Len(f.buf) - 3 + 1
  BY DEF At, MAG_INV_LEN
<1>3. At(f) \subseteq Nat
  BY <1>1, <1>2
<1>4. \E x \in At(f) : \A y \in At(f) : x <= y
  BY <1>3, Least
<1>5. FirstAt(f) \in At(f) /\ \A y \in At(f) : FirstAt(f) <= y
  BY <1>4 DEF FirstAt
<1>6. QED BY <1>1, <1>2, <1>5

\* hunt, case by case.
LEMMA HuntIs ==
    ASSUME NEW f \in Framers
    PROVE  hunt(f) = IF Len(f.buf) < 3 THEN f
                     ELSE IF At(f) = {} THEN consume(skip(f, Len(f.buf) - 2), Len(f.buf) - 2)
                     ELSE IF FirstAt(f) > 1
                     THEN consume(skip(f, FirstAt(f) - 1), FirstAt(f) - 1)
                     ELSE TakeInverter(f)
<1>1. MAG_INV_LEN = 3 /\ 3 - 1 = 2
  BY DEF MAG_INV_LEN
<1>2. QED BY <1>1 DEF hunt, At, FirstAt

\* The first byte of an inverter packet is its model.
LEMMA InverterAtFront ==
    ASSUME NEW f \in Framers, mag_frame_is_inverter(f, 1)
    PROVE  f.have_id \/ f.buf[1] \in Models
BY DEF mag_frame_is_inverter

\* Hunting waits or makes progress.
LEMMA HuntTurns ==
    ASSUME NEW f \in Framers
    PROVE  (hunt(f) = f /\ Len(f.buf) <= 3) \/ Better(f, hunt(f))
<1>1. Len(f.buf) \in Nat /\ f.since_inv \in Nat
  BY FrFields
<1>2. CASE Len(f.buf) < 3
  BY <1>1, <1>2, HuntIs
<1>3. CASE ~(Len(f.buf) < 3) /\ At(f) = {}
  <2> DEFINE n == Len(f.buf) - 2
             z == consume(skip(f, n), n)
  <2>1. n \in 1 .. Len(f.buf) /\ n \in 0 .. Len(f.buf)
    BY ONLY <1>1, <1>3
  <2>2. hunt(f) = z
    BY <1>3, HuntIs
  <2> HIDE DEF n
  <2>3. Advanced(f, z, n) /\ z.since_inv = f.since_inv
    BY <2>1, SkippedIs
  <2> HIDE DEF z
  <2>4. Better(f, z)
    BY <1>1, <2>1, <2>3, AdvancedIsBetter
  <2>5. QED BY <2>2, <2>4
<1>4. CASE ~(Len(f.buf) < 3) /\ At(f) # {} /\ FirstAt(f) > 1
  <2> DEFINE n == FirstAt(f) - 1
             z == consume(skip(f, n), n)
  <2>1. FirstAt(f) \in 1 .. Len(f.buf)
    BY <1>4, FirstAtIs
  <2>2. n \in 1 .. Len(f.buf) /\ n \in 0 .. Len(f.buf)
    BY ONLY <1>1, <1>4, <2>1
  <2>3. hunt(f) = z
    BY <1>4, HuntIs
  <2> HIDE DEF n
  <2>4. Advanced(f, z, n) /\ z.since_inv = f.since_inv
    BY <2>2, SkippedIs
  <2> HIDE DEF z
  <2>5. Better(f, z)
    BY <1>1, <2>2, <2>4, AdvancedIsBetter
  <2>6. QED BY <2>3, <2>5
<1>5. CASE ~(Len(f.buf) < 3) /\ At(f) # {} /\ ~(FirstAt(f) > 1)
  <2>1. FirstAt(f) \in 1 .. Len(f.buf) /\ FirstAt(f) \in At(f)
    BY <1>5, FirstAtIs
  <2>2. FirstAt(f) = 1
    BY ONLY <1>1, <1>5, <2>1
  <2>3. mag_frame_is_inverter(f, 1)
    BY <2>1, <2>2 DEF At
  <2>4. f.have_id \/ f.buf[1] \in Models
    BY <2>3, InverterAtFront
  <2> DEFINE z == TakeInverter(f)
  <2>5. hunt(f) = z
    BY <1>5, HuntIs
  <2>6. Len(f.buf) >= MAG_INV_LEN /\ 3 \in 1 .. Len(f.buf)
    BY ONLY <1>1, <1>5 DEF MAG_INV_LEN
  <2>7. Advanced(f, z, 3) /\ z.since_inv = 0
    BY <2>4, <2>6, TakeInverterIs DEF MAG_INV_LEN
  <2> HIDE DEF z
  <2>8. Better(f, z)
    BY <1>1, <2>6, <2>7, AdvancedIsBetter
  <2>9. QED BY <2>5, <2>8
<1>6. QED BY <1>2, <1>3, <1>4, <1>5

\* A stray byte is dropped and accounted for.
LEMMA StrayIs ==
    ASSUME NEW f \in Framers, Len(f.buf) >= 1, NEW z, z = consume([f EXCEPT !.owed = @ - 1], 1)
    PROVE  Advanced(f, z, 1) /\ z.since_inv = f.since_inv /\ z.state = f.state
<1> DEFINE w == f.owed - 1
           g == [f EXCEPT !.owed = w]
<1>1. f.owed \in Int /\ Total(f.held) \in Nat /\ Len(f.buf) \in Nat
  BY FrFields
<1>2. w \in Int
  BY <1>1
<1>3. w - Total(f.held) = f.owed - Total(f.held) - 1
  BY ONLY <1>1
<1>4. z = consume(g, 1)
  OBVIOUS
<1> HIDE DEF w
<1>5. /\ g \in Framers /\ g.buf = f.buf /\ g.state = f.state /\ g.since_inv = f.since_inv
      /\ g.have_id = f.have_id /\ g.model = f.model /\ g.held = f.held /\ g.owed = w
  BY <1>2 DEF Framers
<1> HIDE DEF g
<1>6. 1 \in 0 .. Len(f.buf)
  BY <1>1
<1>7. Keeps(f, g)
  BY <1>5 DEF Keeps, Known, Fit, Small, Recent
<1>8. QED BY <1>3, <1>4, <1>5, <1>6, <1>7, ConsumePassed

\* Behind an inverter packet the framer waits or makes progress.
LEMMA AfterInvTurns ==
    ASSUME NEW f \in Framers, f.state = "after_inv"
    PROVE  (after_inv(f) = f /\ Len(f.buf) <= 3) \/ Better(f, after_inv(f))
<1> DEFINE stray == Len(f.buf) > 0 /\ turnaround_byte(f.buf[1])
           need == MAG_REMOTE_LEN + (IF stray THEN 1 ELSE 0)
           z == consume([f EXCEPT !.owed = @ - 1], 1)
           h == [f EXCEPT !.state = "hunt"]
           r == TakeRemote(f)
<1>1. Len(f.buf) \in Nat /\ f.since_inv \in Nat
  BY FrFields
<1>2. need \in {3, 4}
  BY DEF MAG_REMOTE_LEN
<1>3. \/ after_inv(f) = f /\ Len(f.buf) <= 3
      \/ after_inv(f) = h \/ (Len(f.buf) >= 3 /\ after_inv(f) \in {z, r})
  <2>1. (Len(f.buf) < need /\ Len(f.buf) <= 3) \/ (~(Len(f.buf) < need) /\ Len(f.buf) >= 3)
    BY <1>1, <1>2
  <2> HIDE DEF z, h, r
  <2>2. CASE Len(f.buf) < need /\ Len(f.buf) <= 3
    BY <2>2 DEF after_inv, z, h, r
  <2>3. CASE ~(Len(f.buf) < need) /\ Len(f.buf) >= 3
    BY <2>3 DEF after_inv, z, h, r
  <2>4. QED BY <2>1, <2>2, <2>3
<1>4. Better(f, h)
  BY HuntIsBetter
<1>5. ASSUME Len(f.buf) >= 3 PROVE Better(f, z)
  <2>1. Len(f.buf) >= 1 /\ 1 \in 1 .. Len(f.buf)
    BY ONLY <1>1, <1>5
  <2>2. Advanced(f, z, 1) /\ z.since_inv = f.since_inv
    BY <2>1, StrayIs
  <2> HIDE DEF z
  <2>3. QED BY <1>1, <2>1, <2>2, AdvancedIsBetter
<1>6. ASSUME Len(f.buf) >= 3 PROVE Better(f, r)
  <2> DEFINE pkt == [type |-> "remote", len |-> MAG_REMOTE_LEN]
             s == "after_remote"
             e == emit(f, pkt)
             d == [e EXCEPT !.state = s]
  <2>1. pkt \in Packets /\ pkt.len = 3 /\ 3 = MAG_REMOTE_LEN
    BY DEF Packets, MAG_INV_LEN, MAG_REMOTE_LEN
  <2>2. r = consume(d, pkt.len)
    BY <2>1 DEF TakeRemote
  <2>3. 3 \in 1 .. Len(f.buf) /\ pkt.len <= Len(f.buf)
    BY ONLY <1>1, <1>6, <2>1
  <2> HIDE DEF pkt, r
  <2>4. Advanced(f, r, 3) /\ r.since_inv = f.since_inv
    <3>1. s \in {"hunt", "after_inv", "after_remote"}
      OBVIOUS
    <3>4. e = emit(f, pkt) /\ d = [e EXCEPT !.state = s]
      OBVIOUS
    <3> HIDE DEF s, e, d
    <3>2. Advanced(f, r, pkt.len) /\ r.since_inv = f.since_inv
      BY <2>1, <2>2, <2>3, <3>1, <3>4, TakenIs
    <3>3. QED BY <2>1, <3>2
  <2>5. QED BY <1>1, <2>3, <2>4, AdvancedIsBetter
<1> HIDE DEF z, h, r
<1>7. QED BY <1>3, <1>4, <1>5, <1>6

\* So does it behind the remote's packet.
LEMMA AfterRemoteTurns ==
    ASSUME NEW f \in Framers, f.state = "after_remote"
    PROVE  (after_remote(f) = f /\ Len(f.buf) <= 3) \/ Better(f, after_remote(f))
<1> DEFINE n == mag_reply_len(f.buf[1])
           pkt == [type |-> "reply", len |-> n]
           h == [f EXCEPT !.state = "hunt"]
           z == consume(emit(h, pkt), n)
<1>1. Len(f.buf) \in Nat /\ f.since_inv \in Nat
  BY FrFields
<1>2. n \in {0, 2}
  BY DEF mag_reply_len, ReplyLen
<1>3. \/ after_remote(f) = f /\ Len(f.buf) <= 3
      \/ after_remote(f) = h \/ (n = 2 /\ Len(f.buf) >= 2 /\ after_remote(f) = z)
  <2> HIDE DEF z, h, n
  <2>1. CASE Len(f.buf) < 1 \/ (n # 0 /\ Len(f.buf) < n)
    <3>1. after_remote(f) = f
      BY <2>1 DEF after_remote, n
    <3>2. QED BY <1>1, <1>2, <2>1, <3>1
  <2>2. CASE ~(Len(f.buf) < 1 \/ n = 0 \/ Len(f.buf) < n \/ f.buf[2] = "other")
    <3>1. n = 2 /\ Len(f.buf) >= 2
      BY <1>1, <1>2, <2>2
    <3>2. after_remote(f) = z
      BY <2>2 DEF after_remote, z, h, n
    <3>3. QED BY <3>1, <3>2
  <2>3. CASE ~(Len(f.buf) < 1) /\ (n = 0 \/ (~(Len(f.buf) < n) /\ f.buf[2] = "other"))
    BY <2>3 DEF after_remote, z, h, n
  <2>4. QED BY <2>1, <2>2, <2>3
<1>4. Better(f, h)
  BY HuntIsBetter
<1>5. ASSUME n = 2, Len(f.buf) >= 2 PROVE Better(f, z)
  <2>1. pkt \in Packets /\ pkt.len = 2
    BY <1>5 DEF Packets, MAG_INV_LEN
  <2> DEFINE e == emit(h, pkt)
  <2>2. /\ h \in Framers /\ h.buf = f.buf /\ h.state = "hunt" /\ h.since_inv = f.since_inv
        /\ h.have_id = f.have_id /\ h.model = f.model /\ h.held = f.held /\ h.owed = f.owed
    BY Restated
  <2> HIDE DEF h, pkt
  <2>3. Passed(h, e, 2)
    BY <2>1, <2>2, EmitPasses
  <2>4. z = consume(e, 2)
    BY <1>5
  <2> HIDE DEF e, z
  <2>5. e \in Framers /\ e.buf = f.buf /\ e.since_inv = f.since_inv /\ Keeps(f, e)
        /\ e.owed - Total(e.held) = f.owed - Total(f.held) - 2
    BY <2>2, <2>3 DEF Passed, Keeps, Known, Fit, Small, Recent
  <2>6. 2 \in 0 .. Len(f.buf) /\ 2 \in 1 .. Len(f.buf)
    BY ONLY <1>1, <1>5
  <2>7. Advanced(f, z, 2) /\ z.since_inv = f.since_inv
    BY <2>4, <2>5, <2>6, ConsumePassed
  <2>8. QED BY <1>1, <2>6, <2>7, AdvancedIsBetter
<1> HIDE DEF z, h
<1>6. QED BY <1>3, <1>4, <1>5

\* Every turn waits or makes progress.
LEMMA TurnIs ==
    ASSUME NEW f \in Framers
    PROVE  (Turn(f) = f /\ Len(f.buf) <= 3) \/ Better(f, Turn(f))
<1>1. f.state \in {"hunt", "after_inv", "after_remote"}
  BY FrFields
<1>2. CASE f.state = "hunt"
  BY <1>2, HuntTurns DEF Turn
<1>3. CASE f.state = "after_inv"
  BY <1>3, AfterInvTurns DEF Turn
<1>4. CASE f.state = "after_remote"
  BY <1>4, AfterRemoteTurns DEF Turn
<1>5. QED BY <1>1, <1>2, <1>3, <1>4

\* Who waits has no more than three bytes.
LEMMA WaitsShort ==
    ASSUME NEW f \in Framers, Turn(f) = f
    PROVE  Len(f.buf) <= 3
<1>1. Work(f) \in Nat
  BY WorkNat
<1>2. ~Better(f, f)
  BY <1>1 DEF Better
<1>3. QED BY <1>2, TurnIs

\* The framer's loop is the one it is written as.
LEMMA ProcessLoop ==
    /\ process \in [Framers -> Framers]
    /\ \A f \in Framers : process[f] = IF Turn(f) = f THEN f ELSE process[Turn(f)]
<1> DEFINE stop == {f \in Framers : Turn(f) = f}
           T == [f \in Framers |-> Turn(f)]
           G == [f \in Framers |-> f]
           m == [f \in Framers |-> Work(f)]
           Body(p, f) == IF Turn(f) = f THEN f ELSE p[Turn(f)]
           Eq(p) == p = [f \in Framers |-> Body(p, f)]
<1>1. T \in [Framers -> Framers]
  BY TurnIs DEF Better
<1>2. m \in [Framers -> Nat]
  BY WorkNat
<1>3. G \in [Framers -> Framers]
  OBVIOUS
<1>4. \A f \in Framers \ stop : m[T[f]] < m[f]
  <2> TAKE f \in Framers \ stop
  <2>1. T[f] = Turn(f) /\ Turn(f) # f /\ f \in Framers
    OBVIOUS
  <2>2. Better(f, Turn(f))
    BY <2>1, TurnIs
  <2>3. Turn(f) \in Framers /\ Work(Turn(f)) < Work(f)
    BY <2>2 DEF Better
  <2>4. QED BY <2>1, <2>3
<1>5. stop \in SUBSET Framers
  OBVIOUS
<1>6. \E p : IsLoop(p, Framers, Framers, stop, T, G)
  <2> HIDE DEF stop, T, G, m
  <2>1. Falls(Framers, stop, T, m)
    BY <1>4 DEF Falls
  <2>2. QED BY <1>1, <1>2, <1>3, <1>5, <2>1, LoopExists
<1>7. \A f \in Framers : (f \in stop <=> Turn(f) = f) /\ T[f] = Turn(f) /\ G[f] = f
  OBVIOUS
<1> HIDE DEF stop, T, G, m
<1>8. PICK p \in [Framers -> Framers] : \A f \in Framers : p[f] = Body(p, f)
  BY <1>6, <1>7 DEF IsLoop
<1> HIDE DEF Body
<1>9. Eq(p)
  BY <1>8
<1>10. process = CHOOSE q : Eq(q)
  BY DEF process, Body
<1>11. Eq(process)
  <2> HIDE DEF Eq
  <2>1. QED BY <1>9, <1>10
<1>12. \A f \in Framers : process[f] = Body(process, f)
  BY <1>11
<1>13. \A f \in Framers : Body(process, f) = IF Turn(f) = f THEN f ELSE process[Turn(f)]
  BY DEF Body
<1>14. process \in [Framers -> Framers]
  <2> DEFINE stops == {f \in Framers : Turn(f) = f}
             Q == {f \in Framers : process[f] \in Framers}
  <2>1. \A f \in Framers : f \in stop \/ T[f] \in Q => f \in Q
    BY <1>7, <1>12, <1>13
  <2>2. Q \in SUBSET Framers
    OBVIOUS
  <2> HIDE DEF Q
  <2>3. Inherited(Framers, stop, T, Q)
    BY <2>1 DEF Inherited
  <2>4. Falls(Framers, stop, T, m)
    BY <1>4 DEF Falls
  <2>5. Q = Framers
    BY <1>1, <1>2, <1>5, <2>2, <2>3, <2>4, LoopInduction
  <2>6. \A f \in Framers : process[f] \in Framers
    BY <2>5 DEF Q
  <2>7. process = [f \in Framers |-> Body(process, f)]
    BY <1>11
  <2>8. QED BY <1>12, <2>6, <2>7
<1>15. QED BY <1>12, <1>13, <1>14

\* What holds of framers that are done, and before a turn when it holds behind it.
Handed(Q) == \A f \in Framers : Turn(f) = f \/ Turn(f) \in Q => f \in Q

\* That holds of every framer.
LEMMA ProcessInduction ==
    ASSUME NEW Q, Q \in SUBSET Framers, Handed(Q)
    PROVE  Q = Framers
<1> DEFINE stop == {f \in Framers : Turn(f) = f}
           T == [f \in Framers |-> Turn(f)]
           m == [f \in Framers |-> Work(f)]
<1>1. T \in [Framers -> Framers]
  BY TurnIs DEF Better
<1>2. m \in [Framers -> Nat]
  BY WorkNat
<1>3. \A f \in Framers \ stop : m[T[f]] < m[f]
  <2> TAKE f \in Framers \ stop
  <2>1. T[f] = Turn(f) /\ Turn(f) # f /\ f \in Framers
    OBVIOUS
  <2>2. Better(f, Turn(f))
    BY <2>1, TurnIs
  <2>3. Turn(f) \in Framers /\ Work(Turn(f)) < Work(f)
    BY <2>2 DEF Better
  <2>4. QED BY <2>1, <2>3
<1>4. stop \in SUBSET Framers
  OBVIOUS
<1>5. \A f \in Framers : f \in stop \/ T[f] \in Q => f \in Q
  BY DEF Handed
<1> HIDE DEF stop, T, m
<1>6. Falls(Framers, stop, T, m) /\ Inherited(Framers, stop, T, Q)
  BY <1>3, <1>5 DEF Falls, Inherited
<1>7. QED BY <1>1, <1>2, <1>4, <1>6, LoopInduction

\* A call keeps the accounts.
Settles(f, z) ==
    /\ z \in Framers /\ Balance(z) = Balance(f) /\ Keeps(f, z)
    /\ z.since_inv <= f.since_inv /\ Turn(z) = z
\* The loop accounts for every byte.
LEMMA ProcessSettles ==
    ASSUME NEW f \in Framers
    PROVE  Settles(f, process[f])
<1> DEFINE Q == {x \in Framers : Settles(x, process[x])}
<1>1. ASSUME NEW x \in Framers, Turn(x) = x \/ Turn(x) \in Q PROVE x \in Q
  <2>1. process[x] = IF Turn(x) = x THEN x ELSE process[Turn(x)]
    BY ProcessLoop
  <2>2. CASE Turn(x) = x
    <3>1. x.since_inv <= x.since_inv
      BY FrFields
    <3>2. QED BY <2>1, <2>2, <3>1 DEF Settles, Keeps
  <2>3. CASE Turn(x) # x
    <3> DEFINE y == Turn(x)
               z == process[y]
    <3>1. Better(x, y)
      BY <2>3, TurnIs
    <3>2. y \in Framers /\ process[x] = z
      BY <2>1, <2>3, <3>1 DEF Better
    <3>3. Settles(y, z)
      BY <1>1, <2>3
    <3> HIDE DEF y, z
    <3>4. x.since_inv \in Nat /\ y.since_inv \in Nat /\ z.since_inv \in Nat
      BY <3>2, <3>3, FrFields DEF Settles
    <3>5. z.since_inv <= x.since_inv
      BY <3>1, <3>3, <3>4 DEF Better, Settles
    <3>6. QED BY <3>1, <3>2, <3>3, <3>5 DEF Better, Settles, Keeps
  <2>4. QED BY <2>2, <2>3
<1> HIDE DEF Q
<1>2. Q \in SUBSET Framers
  BY DEF Q
<1>3. Handed(Q)
  BY <1>1 DEF Handed
<1>4. Q = Framers
  BY <1>2, <1>3, ProcessInduction
<1>5. QED BY <1>4 DEF Q

\* A framer with other bytes: what the steps read stays as it was.
LEMMA MoveFields ==
    ASSUME NEW f \in Framers, NEW b, NEW o \in Int, NEW s, NEW m, m = Move(f, b, o, s)
    PROVE  /\ m.state = f.state /\ m.buf = b /\ m.have_id = f.have_id /\ m.model = f.model
           /\ m.probing = f.probing /\ m.probe = f.probe /\ m.held = f.held
           /\ m.synced = f.synced /\ m.since_inv = s /\ m.out = f.out /\ m.owed = f.owed + o
           /\ (b \in Seq(Bytes) /\ s \in Nat => m \in Framers)
<1> DEFINE w == f.owed + o
<1>1. w \in Int
  BY FrFields
<1>2. m = [f EXCEPT !.buf = b, !.owed = w, !.since_inv = s]
  BY DEF Move
<1> HIDE DEF w
<1>3. QED BY <1>1, <1>2 DEF Framers, w

\* The buffer does not matter to what is counted as unknown,
LEMMA UnknownMoved ==
    ASSUME NEW f \in Framers, NEW b, NEW o \in Int, NEW s, NEW n \in Nat
    PROVE  unknown(Move(f, b, o, s), n) = Move(unknown(f, n), b, o, s)
BY DeliverMoved DEF unknown

\* what was held and is passed on,
LEMMA FlushMoved ==
    ASSUME NEW f \in Framers, NEW b, NEW o \in Int, NEW s
    PROVE  held_flush(Move(f, b, o, s)) = Move(held_flush(f), b, o, s)
<1> DEFINE m == Move(f, b, o, s)
           n == Total(f.held)
           g == deliver(f, f.held, n)
<1>1. m.held = f.held
  BY MoveFields
<1>2. n \in Int /\ f.held \in Seq(Packets \union {Unknown})
  BY FrFields
<1>3. deliver(m, f.held, n) = Move(g, b, o, s)
  BY <1>2, DeliverMoved
<1>4. g \in Framers
  BY <1>2, DeliverPasses DEF Passed
<1>5. held_flush(m) = [deliver(m, f.held, n) EXCEPT !.held = <<>>]
  BY <1>1 DEF held_flush
<1>6. held_flush(f) = [g EXCEPT !.held = <<>>]
  BY DEF held_flush
<1> HIDE DEF g, m
<1>7. [Move(g, b, o, s) EXCEPT !.held = <<>>] = Move([g EXCEPT !.held = <<>>], b, o, s)
  BY <1>4 DEF Move, Framers
<1>8. QED BY <1>3, <1>5, <1>6, <1>7 DEF m

\* what was held and is dropped,
LEMMA DropMoved ==
    ASSUME NEW f \in Framers, NEW b, NEW o \in Int, NEW s
    PROVE  held_drop(Move(f, b, o, s)) = Move(held_drop(f), b, o, s)
<1> DEFINE m == Move(f, b, o, s)
           n == Total(f.held)
           g == unknown(f, n)
<1>1. m.held = f.held
  BY MoveFields
<1>2. n \in Nat
  BY FrFields
<1>3. unknown(m, n) = Move(g, b, o, s)
  BY <1>2, UnknownMoved
<1>4. g \in Framers
  BY <1>2, UnknownPasses DEF Passed
<1>5. held_drop(m) = [unknown(m, n) EXCEPT !.held = <<>>, !.probing = FALSE, !.probe = NoModel]
  BY <1>1 DEF held_drop
<1>6. held_drop(f) = [g EXCEPT !.held = <<>>, !.probing = FALSE, !.probe = NoModel]
  BY DEF held_drop
<1> HIDE DEF g, m
<1>7. [Move(g, b, o, s) EXCEPT !.held = <<>>, !.probing = FALSE, !.probe = NoModel]
      = Move([g EXCEPT !.held = <<>>, !.probing = FALSE, !.probe = NoModel], b, o, s)
  BY <1>4 DEF Move, Framers
<1>8. QED BY <1>3, <1>5, <1>6, <1>7 DEF m

\* where a packet goes,
LEMMA EmitMoved ==
    ASSUME NEW f \in Framers, NEW b, NEW o \in Int, NEW s, NEW pkt \in Packets
    PROVE  emit(Move(f, b, o, s), pkt) = Move(emit(f, pkt), b, o, s)
<1> DEFINE m == Move(f, b, o, s)
<1>1. m.held = f.held /\ m.probing = f.probing
  BY MoveFields
<1>2. pkt.len \in Nat /\ pkt.len \in Int
  BY DEF Packets, MAG_INV_LEN
<1>3. CASE ~f.probing
  <2>1. emit(m, pkt) = deliver(m, <<pkt>>, pkt.len) /\ emit(f, pkt) = deliver(f, <<pkt>>, pkt.len)
    BY <1>1, <1>3 DEF emit
  <2>2. deliver(m, <<pkt>>, pkt.len) = Move(deliver(f, <<pkt>>, pkt.len), b, o, s)
    BY <1>2, DeliverMoved
  <2>3. QED BY <2>1, <2>2
<1>4. CASE f.probing /\ Len(f.held) < MAG_HELD_MAX
  <2> DEFINE h == Append(f.held, pkt)
  <2>1. emit(m, pkt) = [m EXCEPT !.held = h] /\ emit(f, pkt) = [f EXCEPT !.held = h]
    BY <1>1, <1>4 DEF emit
  <2> HIDE DEF h
  <2>2. [m EXCEPT !.held = h] = Move([f EXCEPT !.held = h], b, o, s)
    BY DEF Move, Framers
  <2>3. QED BY <2>1, <2>2
<1>5. CASE f.probing /\ ~(Len(f.held) < MAG_HELD_MAX)
  <2> DEFINE d == held_drop(f)
  <2>1. emit(m, pkt) = unknown(held_drop(m), pkt.len) /\ emit(f, pkt) = unknown(d, pkt.len)
    BY <1>1, <1>5 DEF emit
  <2>2. held_drop(m) = Move(d, b, o, s)
    BY DropMoved
  <2>3. d \in Framers
    BY DropPasses DEF Passed
  <2> HIDE DEF d, m
  <2>4. unknown(Move(d, b, o, s), pkt.len) = Move(unknown(d, pkt.len), b, o, s)
    BY <1>2, <2>3, UnknownMoved
  <2>5. QED BY <2>1, <2>2, <2>4 DEF m
<1>6. QED BY <1>3, <1>4, <1>5

\* what is skipped,
LEMMA SkipMoved ==
    ASSUME NEW f \in Framers, NEW b, NEW o \in Int, NEW s, NEW n \in Nat
    PROVE  skip(Move(f, b, o, s), n) = Move(skip(f, n), b, o, s)
<1> DEFINE m == Move(f, b, o, s)
           d == IF f.probing THEN held_drop(f) ELSE f
           e == IF m.probing THEN held_drop(m) ELSE m
           u == unknown(d, n)
<1>1. m.probing = f.probing
  BY MoveFields
<1>2. e = Move(d, b, o, s)
  BY <1>1, DropMoved
<1>3. d \in Framers
  BY DropPasses DEF Passed
<1>4. /\ skip(m, n) = [unknown(e, n) EXCEPT !.synced = FALSE]
      /\ skip(f, n) = [u EXCEPT !.synced = FALSE]
  BY DEF skip
<1> HIDE DEF d, e, m
<1>5. unknown(Move(d, b, o, s), n) = Move(u, b, o, s)
  BY <1>3, UnknownMoved
<1>6. u \in Framers
  BY <1>3, UnknownPasses DEF Passed
<1> HIDE DEF u
<1>7. [Move(u, b, o, s) EXCEPT !.synced = FALSE] = Move([u EXCEPT !.synced = FALSE], b, o, s)
  BY <1>6 DEF Move, Framers
<1>8. QED BY <1>2, <1>4, <1>5, <1>7 DEF m

\* and, but for the first byte, what is learned.
LEMMA LearnMoved ==
    ASSUME NEW f \in Framers, NEW b, NEW o \in Int, NEW s, b[1] = f.buf[1],
           f.have_id \/ b[1] \in Models
    PROVE  Learn(Move(f, b, o, s)) = Move(Learn(f), b, o, s)
<1> DEFINE m == Move(f, b, o, s)
           model == f.buf[1]
           E(x) == [x EXCEPT !.probing = FALSE, !.probe = NoModel, !.have_id = TRUE,
                             !.model = model]
           P(x) == [x EXCEPT !.probing = TRUE, !.probe = model]
           Proven(x) == x.probing /\ x.synced /\ model = x.probe
           d == held_drop(f)
<1>1. m.have_id = f.have_id /\ m.probing = f.probing /\ m.synced = f.synced /\ m.probe = f.probe
      /\ m.buf[1] = model
  BY MoveFields
<1>2. ASSUME NEW x, x.buf[1] = model
      PROVE  Learn(x) = IF x.have_id THEN x
                        ELSE IF Proven(x) THEN held_flush(E(x)) ELSE P(held_drop(x))
  <2> HIDE DEF E, P
  <2>1. QED BY <1>2 DEF Learn, E, P
<1>3. CASE f.have_id
  BY <1>1, <1>2, <1>3
<1>4. CASE ~f.have_id /\ Proven(f)
  <2>1. Learn(m) = held_flush(E(m)) /\ Learn(f) = held_flush(E(f))
    BY <1>1, <1>2, <1>4
  <2>2. model \in Models
    BY <1>4
  <2> HIDE DEF model
  <2>3. E(m) = Move(E(f), b, o, s)
    BY DEF Move, Framers
  <2>4. E(f) \in Framers
    BY <2>2 DEF Framers
  <2> HIDE DEF E
  <2>5. held_flush(Move(E(f), b, o, s)) = Move(held_flush(E(f)), b, o, s)
    BY <2>4, FlushMoved
  <2>6. QED BY <2>1, <2>3, <2>5
<1>5. CASE ~f.have_id /\ ~Proven(f)
  <2>1. Learn(m) = P(held_drop(m)) /\ Learn(f) = P(d)
    BY <1>1, <1>2, <1>5
  <2>2. held_drop(m) = Move(d, b, o, s)
    BY DropMoved
  <2>3. d \in Framers
    BY DropPasses DEF Passed
  <2> HIDE DEF d, model
  <2>4. P(Move(d, b, o, s)) = Move(P(d), b, o, s)
    BY <2>3 DEF Move, Framers
  <2> HIDE DEF P
  <2>5. QED BY <2>1, <2>2, <2>4
<1>6. QED BY <1>3, <1>4, <1>5

\* More bytes behind those that wait.
Lengthen(f, t, s) == Move(f, f.buf \o t, Len(t), s)

\* What bytes behind the buffer change.
LEMMA LongerFields ==
    ASSUME NEW f \in Framers, NEW t \in Seq(Bytes), NEW s \in Nat, NEW m, m = Lengthen(f, t, s)
    PROVE  /\ m \in Framers /\ m.state = f.state /\ m.buf = f.buf \o t
           /\ Len(m.buf) = Len(f.buf) + Len(t) /\ m.have_id = f.have_id /\ m.model = f.model
           /\ m.since_inv = s /\ \A i \in 1 .. Len(f.buf) : m.buf[i] = f.buf[i]
<1>1. f.buf \in Seq(Bytes)
  BY FrFields
<1> DEFINE b == f.buf \o t
<1>2. b \in Seq(Bytes) /\ Len(t) \in Int /\ Len(b) = Len(f.buf) + Len(t)
      /\ \A i \in 1 .. Len(f.buf) : b[i] = f.buf[i]
  BY <1>1
<1>3. m = Move(f, b, Len(t), s)
  BY DEF Lengthen
<1> DEFINE o == Len(t)
<1>4. o \in Int /\ m = Move(f, b, o, s)
  BY <1>2, <1>3
<1> HIDE DEF b, o
<1>5. /\ m.state = f.state /\ m.buf = b /\ m.have_id = f.have_id /\ m.model = f.model
      /\ m.since_inv = s /\ m \in Framers
  BY <1>2, <1>4, MoveFields
<1>6. QED BY ONLY <1>2, <1>5 DEF b

\* Taking bytes from the front leaves those behind.
LEMMA FrontTaken ==
    ASSUME NEW b \in Seq(Bytes), NEW t \in Seq(Bytes), NEW n \in 0 .. Len(b)
    PROVE  SubSeq(b \o t, n + 1, Len(b \o t)) = SubSeq(b, n + 1, Len(b)) \o t
<1> DEFINE l == b \o t
           x == SubSeq(l, n + 1, Len(l))
           y == SubSeq(b, n + 1, Len(b)) \o t
<1>1. n \in Nat /\ Len(b) \in Nat /\ Len(t) \in Nat /\ n <= Len(b)
  OBVIOUS
<1>2. l \in Seq(Bytes) /\ Len(l) = Len(b) + Len(t)
  OBVIOUS
<1>3. x \in Seq(Bytes) /\ Len(x) = Len(b) + Len(t) - n
  BY <1>1, <1>2
<1>4. SubSeq(b, n + 1, Len(b)) \in Seq(Bytes) /\ Len(SubSeq(b, n + 1, Len(b))) = Len(b) - n
  BY <1>1
<1>5. y \in Seq(Bytes) /\ Len(y) = Len(b) - n + Len(t)
  BY <1>1, <1>4
<1>6. Len(x) = Len(y)
  BY <1>1, <1>3, <1>5
<1>7. ASSUME NEW i \in 1 .. Len(x) PROVE x[i] = y[i]
  <2>1. i \in Nat /\ i >= 1 /\ i <= Len(b) + Len(t) - n
    BY <1>1, <1>3
  <2>2. x[i] = l[i + n] /\ i + n \in 1 .. Len(b) + Len(t)
    BY <1>1, <1>2, <1>3, <2>1
  <2>3. CASE i <= Len(b) - n
    <3>1. l[i + n] = b[i + n]
      BY <1>1, <2>1, <2>3
    <3>2. y[i] = SubSeq(b, n + 1, Len(b))[i]
      BY <1>1, <1>4, <2>1, <2>3
    <3>3. SubSeq(b, n + 1, Len(b))[i] = b[i + n]
      BY <1>1, <2>1, <2>3
    <3>4. QED BY <2>2, <3>1, <3>2, <3>3
  <2>4. CASE ~(i <= Len(b) - n)
    <3>1. l[i + n] = t[i + n - Len(b)]
      BY <1>1, <2>1, <2>2, <2>4
    <3>2. y[i] = t[i - (Len(b) - n)]
      BY <1>1, <1>4, <2>1, <2>4
    <3>3. i + n - Len(b) = i - (Len(b) - n)
      BY ONLY <1>1, <2>1
    <3>4. QED BY ONLY <2>2, <3>1, <3>2, <3>3
  <2>5. QED BY <2>3, <2>4
<1>8. QED BY ONLY <1>3, <1>5, <1>6, <1>7, SameSeq

\* What is taken from the front of the longer one.
LEMMA ConsumeLonger ==
    ASSUME NEW f \in Framers, NEW h \in Framers, h.buf = f.buf, NEW t \in Seq(Bytes),
           NEW r \in Nat, NEW n \in 0 .. Len(f.buf)
    PROVE  consume(Move(h, f.buf \o t, Len(t), r), n) = Lengthen(consume(h, n), t, r)
<1> DEFINE b == f.buf \o t
           d == SubSeq(b, n + 1, Len(b))
           c == SubSeq(f.buf, n + 1, Len(f.buf))
           o == Len(t)
           z == consume(h, n)
<1>1. f.buf \in Seq(Bytes) /\ o \in Int
  BY FrFields
<1>2. d = c \o t
  BY <1>1, FrontTaken
<1>3. z = [h EXCEPT !.buf = c]
  BY DEF consume
<1> DEFINE m == Move(h, b, o, r)
<1>4. m.buf = b
  <2> HIDE DEF b, o
  <2>1. QED BY <1>1, MoveFields
<1>5. consume(m, n) = [m EXCEPT !.buf = d]
  BY <1>4 DEF consume
<1> HIDE DEF c, z, d, b, o
<1>6. [m EXCEPT !.buf = d] = Move(z, d, o, r)
  BY <1>3 DEF Move, Framers
<1>7. z.buf = c
  BY <1>3 DEF Framers
<1> HIDE DEF m
<1>8. Move(z, d, o, r) = Lengthen(z, t, r)
  BY <1>2, <1>7 DEF Lengthen, o
<1>9. QED BY <1>5, <1>6, <1>8 DEF m, b, o, z

\* They do not change which packets are in front of them.
LEMMA InverterLonger ==
    ASSUME NEW f \in Framers, NEW t \in Seq(Bytes), NEW s \in Nat, NEW i \in Nat, i >= 1,
           i + 2 <= Len(f.buf)
    PROVE  mag_frame_is_inverter(Lengthen(f, t, s), i) <=> mag_frame_is_inverter(f, i)
<1> DEFINE m == Lengthen(f, t, s)
<1>1. m.have_id = f.have_id /\ m.model = f.model /\ \A j \in 1 .. Len(f.buf) : m.buf[j] = f.buf[j]
  BY LongerFields
<1> HIDE DEF m
<1>2. i \in 1 .. Len(f.buf) /\ i + 2 \in 1 .. Len(f.buf)
  BY FrFields
<1>3. m.buf[i] = f.buf[i] /\ m.buf[i + 2] = f.buf[i + 2]
  BY <1>1, <1>2
<1>4. mag_frame_is_inverter(m, i) <=> mag_frame_is_inverter(f, i)
  BY <1>1, <1>3 DEF mag_frame_is_inverter
<1>5. QED BY <1>4 DEF m

\* An inverter packet is taken the same with them,
LEMMA TakeInverterLonger ==
    ASSUME NEW f \in Framers, Len(f.buf) >= 3, f.have_id \/ f.buf[1] \in Models,
           NEW t \in Seq(Bytes), NEW s \in Nat
    PROVE  TakeInverter(Lengthen(f, t, s)) = Lengthen(TakeInverter(f), t, 0)
<1> DEFINE b == f.buf \o t
           o == Len(t)
           m == Move(f, b, o, s)
           g == Learn(f)
           D(x) == [x EXCEPT !.since_inv = 0, !.synced = TRUE]
           S(x) == [x EXCEPT !.state = "after_inv"]
           pkt == [type |-> "inverter", len |-> MAG_INV_LEN]
           d == D(g)
           e == emit(d, pkt)
           h == S(e)
<1>0. ASSUME NEW x PROVE TakeInverter(x) = consume(S(emit(D(Learn(x)), pkt)), 3)
  BY DEF TakeInverter, MAG_INV_LEN
<1>1. f.buf \in Seq(Bytes) /\ Len(f.buf) \in Nat /\ o \in Int
  BY FrFields
<1>2. 1 \in 1 .. Len(f.buf)
  BY <1>1
<1>3. b[1] = f.buf[1]
  BY <1>1, <1>2
<1>4. Learn(m) = Move(g, b, o, s)
  <2>1. f.have_id \/ b[1] \in Models
    BY <1>3
  <2> HIDE DEF b, o
  <2>2. QED BY <1>1, <1>3, <2>1, LearnMoved
<1>5. pkt \in Packets
  BY DEF Packets, MAG_INV_LEN
<1>6. g \in Framers /\ g.buf = f.buf
  BY LearnKeeps
<1> HIDE DEF g, pkt, b, o
<1>7. D(Move(g, b, o, s)) = Move(d, b, o, 0)
  BY <1>1, <1>6 DEF Move, Framers
<1>8. d \in Framers /\ d.buf = g.buf
  BY <1>6 DEF Framers
<1> HIDE DEF d, D
<1>9. emit(Move(d, b, o, 0), pkt) = Move(e, b, o, 0)
  BY <1>1, <1>5, <1>8, EmitMoved
<1>10. e \in Framers /\ e.buf = d.buf
  BY <1>5, <1>8, EmitPasses DEF Passed
<1> HIDE DEF e
<1>11. S(Move(e, b, o, 0)) = Move(h, b, o, 0)
  BY <1>1, <1>10 DEF Move, Framers
<1>12. h \in Framers /\ h.buf = e.buf
  BY <1>10, Restated
<1> HIDE DEF h, S
<1>13. 3 \in 0 .. Len(f.buf)
  BY <1>1
<1>14. consume(Move(h, b, o, 0), 3) = Lengthen(consume(h, 3), t, 0)
  <2>1. h.buf = f.buf /\ 0 \in Nat
    BY <1>6, <1>8, <1>10, <1>12
  <2>2. QED BY <1>12, <1>13, <2>1, ConsumeLonger DEF b, o
<1>15. TakeInverter(f) = consume(h, 3)
  BY <1>0 DEF h, e, d, g
<1>16. TakeInverter(m) = consume(Move(h, b, o, 0), 3)
  <2> HIDE DEF m
  <2>1. TakeInverter(m) = consume(S(emit(D(Learn(m)), pkt)), 3)
    BY <1>0
  <2>2. QED BY <1>4, <1>7, <1>9, <1>11, <2>1
<1>17. m = Lengthen(f, t, s)
  BY DEF Lengthen, b, o
<1> HIDE DEF m
<1>18. QED BY <1>14, <1>15, <1>16, <1>17

\* bytes are skipped the same,
LEMMA SkipLonger ==
    ASSUME NEW f \in Framers, NEW t \in Seq(Bytes), NEW s \in Nat, NEW n \in 0 .. Len(f.buf)
    PROVE  consume(skip(Lengthen(f, t, s), n), n) = Lengthen(consume(skip(f, n), n), t, s)
<1> DEFINE b == f.buf \o t
           o == Len(t)
           g == skip(f, n)
<1>1. n \in Nat /\ o \in Int
  BY FrFields
<1>2. g \in Framers /\ g.buf = f.buf
  BY <1>1, SkipPasses DEF Passed
<1>3. skip(Lengthen(f, t, s), n) = Move(g, b, o, s)
  <2> HIDE DEF b, o
  <2>1. Lengthen(f, t, s) = Move(f, b, o, s)
    BY DEF Lengthen, b, o
  <2>2. QED BY <1>1, <2>1, SkipMoved
<1> HIDE DEF g
<1>4. consume(Move(g, b, o, s), n) = Lengthen(consume(g, n), t, s)
  BY <1>2, ConsumeLonger
<1>5. QED BY <1>3, <1>4 DEF g

\* The framer in another state.
InState(f, q) == [f EXCEPT !.state = q]

\* A packet that is taken from the front of the longer one.
LEMMA TakenLonger ==
    ASSUME NEW f \in Framers, NEW t \in Seq(Bytes), NEW s \in Nat, NEW pkt \in Packets,
           NEW n, n = pkt.len, n <= Len(f.buf), NEW q \in {"hunt", "after_inv", "after_remote"}
    PROVE  consume(InState(emit(Lengthen(f, t, s), pkt), q), n)
           = Lengthen(consume(InState(emit(f, pkt), q), n), t, s)
<1> DEFINE b == f.buf \o t
           o == Len(t)
           e == emit(f, pkt)
           S(x) == InState(x, q)
           h == S(e)
<1>1. n \in 0 .. Len(f.buf) /\ o \in Int
  BY FrFields DEF Packets, MAG_INV_LEN
<1>2. e \in Framers /\ e.buf = f.buf
  BY EmitPasses DEF Passed
<1>3. emit(Lengthen(f, t, s), pkt) = Move(e, b, o, s)
  <2> HIDE DEF b, o
  <2>1. Lengthen(f, t, s) = Move(f, b, o, s)
    BY DEF Lengthen, b, o
  <2>2. QED BY <1>1, <2>1, EmitMoved
<1> HIDE DEF e
<1>4. S(Move(e, b, o, s)) = Move(h, b, o, s)
  <2> HIDE DEF b, o
  <2>1. QED BY <1>1, <1>2 DEF Move, Framers, InState
<1>5. h \in Framers /\ h.buf = e.buf
  BY <1>2, Restated DEF InState
<1> HIDE DEF h
<1>6. consume(Move(h, b, o, s), n) = Lengthen(consume(h, n), t, s)
  BY <1>1, <1>2, <1>5, ConsumeLonger
<1>7. consume(S(emit(Lengthen(f, t, s), pkt)), n) = Lengthen(consume(S(e), n), t, s)
  <2> HIDE DEF S
  <2>1. QED BY <1>3, <1>4, <1>6 DEF h
<1>8. QED BY <1>7 DEF e

\* More bytes do not change what the hunt finds first.
LEMMA HuntLonger ==
    ASSUME NEW f \in Framers, ~(Len(f.buf) < 3), At(f) # {}, NEW t \in Seq(Bytes), NEW s \in Nat
    PROVE  hunt(Lengthen(f, t, s)) = Lengthen(hunt(f), t, IF FirstAt(f) > 1 THEN s ELSE 0)
<1> DEFINE m == Lengthen(f, t, s)
           i == FirstAt(f)
<1>1. m \in Framers /\ Len(m.buf) = Len(f.buf) + Len(t) /\ Len(f.buf) \in Nat /\ Len(t) \in Nat
  <2>1. m \in Framers /\ Len(m.buf) = Len(f.buf) + Len(t)
    BY ONLY f \in Framers, t \in Seq(Bytes), s \in Nat, LongerFields
  <2>2. Len(f.buf) \in Nat /\ Len(t) \in Nat
    BY FrFields
  <2>3. QED BY <2>1, <2>2
<1>2. ASSUME NEW k \in Nat, k >= 1, k + 2 <= Len(f.buf)
      PROVE  mag_frame_is_inverter(m, k) <=> mag_frame_is_inverter(f, k)
  BY <1>2, InverterLonger
<1> HIDE DEF m
<1>3. \A k : k \in At(f) <=> k \in 1 .. Len(f.buf) - 3 + 1 /\ mag_frame_is_inverter(f, k)
  BY DEF At, MAG_INV_LEN
<1>4. \A k : k \in At(m) <=> k \in 1 .. Len(m.buf) - 3 + 1 /\ mag_frame_is_inverter(m, k)
  BY DEF At, MAG_INV_LEN
<1>5. ASSUME NEW k PROVE k \in At(f) <=> k \in At(m) /\ k <= Len(f.buf) - 2
  <2>1. CASE k \in 1 .. Len(f.buf) - 3 + 1
    <3>1. k \in Nat /\ k >= 1 /\ k + 2 <= Len(f.buf) /\ k <= Len(f.buf) - 2
          /\ k \in 1 .. Len(m.buf) - 3 + 1
      BY <1>1, <2>1
    <3>2. mag_frame_is_inverter(m, k) <=> mag_frame_is_inverter(f, k)
      BY <1>2, <3>1
    <3>3. QED BY ONLY <1>3, <1>4, <2>1, <3>1, <3>2
  <2>2. CASE k \notin 1 .. Len(f.buf) - 3 + 1
    <3>1. ASSUME k \in At(m), k <= Len(f.buf) - 2 PROVE FALSE
      <4>1. k \in 1 .. Len(m.buf) - 3 + 1
        BY <1>4, <3>1
      <4>2. k \in 1 .. Len(f.buf) - 3 + 1
        BY ONLY <1>1, <3>1, <4>1
      <4>3. QED BY <2>2, <4>2
    <3>2. QED BY <1>3, <2>2, <3>1
  <2>3. QED BY <2>1, <2>2
<1>6. i \in At(f) /\ (\A y \in At(f) : i <= y) /\ i \in 1 .. Len(f.buf) /\ i \in Nat
  BY FirstAtIs, <1>1
<1>7. FirstAt(m) = i
  <2>1. At(m) # {}
    BY <1>5, <1>6
  <2> DEFINE j == FirstAt(m)
  <2>2. j \in At(m) /\ (\A y \in At(m) : j <= y) /\ j \in 1 .. Len(m.buf)
    BY <1>1, <2>1, FirstAtIs
  <2> HIDE DEF i, j
  <2>3. j \in Nat /\ j <= i
    BY <1>1, <1>5, <1>6, <2>2
  <2>4. i <= Len(f.buf) - 2
    BY <1>5, <1>6
  <2>5. j <= Len(f.buf) - 2
    BY ONLY <1>1, <1>6, <2>3, <2>4
  <2>6. j \in At(f)
    BY <1>5, <2>2, <2>5
  <2>7. i <= j
    BY <1>6, <2>6
  <2>8. i = j
    BY ONLY <1>6, <2>3, <2>7
  <2>9. QED BY <2>8 DEF j
<1>8. ~(Len(m.buf) < 3) /\ At(m) # {}
  BY <1>1, <1>5, <1>6
<1>9. hunt(m) = IF i > 1 THEN consume(skip(m, i - 1), i - 1) ELSE TakeInverter(m)
  BY <1>1, <1>7, <1>8, HuntIs
<1>10. hunt(f) = IF i > 1 THEN consume(skip(f, i - 1), i - 1) ELSE TakeInverter(f)
  BY HuntIs
<1>11. CASE i > 1
  <2> DEFINE n == i - 1
  <2>1. n \in 0 .. Len(f.buf)
    BY ONLY <1>1, <1>6
  <2> HIDE DEF n
  <2>2. consume(skip(m, n), n) = Lengthen(consume(skip(f, n), n), t, s)
    BY <2>1, SkipLonger DEF m
  <2>3. QED BY <1>9, <1>10, <1>11, <2>2 DEF m, n
<1>12. CASE ~(i > 1)
  <2>1. i = 1
    BY ONLY <1>6, <1>12
  <2>2. mag_frame_is_inverter(f, 1)
    BY <1>3, <1>6, <2>1
  <2>3. f.have_id \/ f.buf[1] \in Models
    BY <2>2, InverterAtFront
  <2>4. Len(f.buf) >= 3
    BY <1>1
  <2>5. TakeInverter(m) = Lengthen(TakeInverter(f), t, 0)
    BY <2>3, <2>4, TakeInverterLonger DEF m
  <2> HIDE DEF i
  <2>6. QED BY <1>9, <1>10, <1>12, <2>5 DEF m, i
<1>13. QED BY <1>11, <1>12

\* a stray byte is dropped the same,
LEMMA StrayLonger ==
    ASSUME NEW f \in Framers, Len(f.buf) >= 3, NEW t \in Seq(Bytes), NEW s \in Nat
    PROVE  consume([Lengthen(f, t, s) EXCEPT !.owed = @ - 1], 1)
           = Lengthen(consume([f EXCEPT !.owed = @ - 1], 1), t, s)
<1> DEFINE b == f.buf \o t
           o == Len(t)
           m == Move(f, b, o, s)
           w == f.owed - 1
           h == [f EXCEPT !.owed = w]
<1>1. o \in Int /\ 1 \in 0 .. Len(f.buf) /\ f.owed \in Int /\ w \in Int
  BY FrFields
<1>2. (f.owed + o) - 1 = w + o
  BY ONLY <1>1
<1>3. Lengthen(f, t, s) = m
  BY DEF Lengthen
<1>4. h \in Framers /\ h.buf = f.buf
  BY <1>1 DEF Framers
<1>5. h = [f EXCEPT !.owed = @ - 1]
  OBVIOUS
<1> HIDE DEF b, o, w
<1>6. [m EXCEPT !.owed = @ - 1] = Move(h, b, o, s)
  BY <1>1, <1>2 DEF Move, Framers
<1> HIDE DEF h
<1>7. consume(Move(h, b, o, s), 1) = Lengthen(consume(h, 1), t, s)
  BY <1>1, <1>4, ConsumeLonger DEF b, o
<1> HIDE DEF m
<1>8. QED BY <1>3, <1>5, <1>6, <1>7

\* and the state changes the same.
LEMMA RestatedLonger ==
    ASSUME NEW f \in Framers, NEW t \in Seq(Bytes), NEW s \in Nat, NEW q
    PROVE  InState(Lengthen(f, t, s), q) = Lengthen(InState(f, q), t, s)
<1> DEFINE b == f.buf \o t
           o == Len(t)
           h == InState(f, q)
<1>1. Lengthen(f, t, s) = Move(f, b, o, s)
  BY DEF Lengthen
<1>2. h.buf = f.buf
  BY DEF Framers, InState
<1>3. Lengthen(h, t, s) = Move(h, b, o, s)
  <2> HIDE DEF h
  <2>1. QED BY <1>2 DEF Lengthen
<1> HIDE DEF b, o
<1>4. InState(Move(f, b, o, s), q) = Move(h, b, o, s)
  BY DEF Move, Framers, InState
<1> HIDE DEF h
<1>5. QED BY <1>1, <1>3, <1>4 DEF h

\* A stray byte before the remote's packet, and the remote's packet.
Stray(f) == Len(f.buf) > 0 /\ turnaround_byte(f.buf[1])

\* A stray byte before what looks like a packet.
StrayBefore(f) == Stray(f) /\ (remote_type_ok(f.buf[4]) \/ mag_frame_is_inverter(f, 2))

\* The remote's packet.
Remote(f) == remote_type_ok(f.buf[3]) /\ ~mag_frame_is_inverter(f, 1)

\* after_inv, case by case.
LEMMA AfterInvIs ==
    ASSUME NEW f
    PROVE  after_inv(f) = IF Len(f.buf) < (IF Stray(f) THEN 4 ELSE 3) THEN f
                          ELSE IF StrayBefore(f) THEN consume([f EXCEPT !.owed = @ - 1], 1)
                          ELSE IF Remote(f) THEN TakeRemote(f) ELSE InState(f, "hunt")
<1> DEFINE z == consume([f EXCEPT !.owed = @ - 1], 1)
           h == InState(f, "hunt")
<1>1. MAG_REMOTE_LEN = 3 /\ 3 + 1 = 4 /\ 3 + 0 = 3
  BY DEF MAG_REMOTE_LEN
<1>2. after_inv(f) = IF Len(f.buf) < 3 + (IF Stray(f) THEN 1 ELSE 0) THEN f
                     ELSE IF StrayBefore(f) THEN z ELSE IF Remote(f) THEN TakeRemote(f) ELSE h
  BY <1>1 DEF after_inv, Stray, StrayBefore, Remote, InState
<1> HIDE DEF z, h
<1>3. 3 + (IF Stray(f) THEN 1 ELSE 0) = IF Stray(f) THEN 4 ELSE 3
  BY <1>1
<1>4. QED BY <1>2, <1>3 DEF z, h

\* A turn behind an inverter packet that makes progress makes the same with more bytes,
LEMMA AfterInvLonger ==
    ASSUME NEW f \in Framers, after_inv(f) # f, NEW t \in Seq(Bytes), NEW s \in Nat
    PROVE  after_inv(Lengthen(f, t, s)) = Lengthen(after_inv(f), t, s)
<1> DEFINE m == Lengthen(f, t, s)
           need == IF Stray(f) THEN 4 ELSE 3
           Z(x) == consume([x EXCEPT !.owed = @ - 1], 1)
           H(x) == InState(x, "hunt")
<1>0. \A x : after_inv(x) = IF Len(x.buf) < (IF Stray(x) THEN 4 ELSE 3) THEN x
                            ELSE IF StrayBefore(x) THEN Z(x)
                            ELSE IF Remote(x) THEN TakeRemote(x) ELSE H(x)
  BY AfterInvIs
<1> HIDE DEF Z, H
<1>1. m \in Framers /\ Len(m.buf) = Len(f.buf) + Len(t) /\ Len(f.buf) \in Nat /\ Len(t) \in Nat
      /\ \A i \in 1 .. Len(f.buf) : m.buf[i] = f.buf[i]
  BY LongerFields, FrFields
<1>2. ~(Len(f.buf) < need)
  BY <1>0
<1>3. need \in {3, 4}
  OBVIOUS
<1>4. Len(f.buf) >= 3 /\ Len(m.buf) >= need /\ Len(f.buf) >= need
  BY ONLY <1>1, <1>2, <1>3
<1>5. ASSUME NEW k \in Nat, k >= 1, k + 2 <= Len(f.buf)
      PROVE  mag_frame_is_inverter(m, k) <=> mag_frame_is_inverter(f, k)
  BY <1>5, InverterLonger
<1> HIDE DEF m
<1>6. m.buf[1] = f.buf[1] /\ m.buf[3] = f.buf[3]
  BY <1>1, <1>4
<1>7. Stray(m) <=> Stray(f)
  BY <1>1, <1>4, <1>6 DEF Stray
<1>8. Remote(m) <=> Remote(f)
  BY <1>4, <1>5, <1>6 DEF Remote
<1>9. StrayBefore(m) <=> StrayBefore(f)
  <2>1. CASE Stray(f)
    <3>1. Len(f.buf) >= 4
      BY <1>4, <2>1
    <3>2. m.buf[4] = f.buf[4]
      BY <1>1, <3>1
    <3>3. mag_frame_is_inverter(m, 2) <=> mag_frame_is_inverter(f, 2)
      BY <1>5, <3>1
    <3>4. QED BY <1>7, <3>2, <3>3 DEF StrayBefore
  <2>2. CASE ~Stray(f)
    BY <1>7, <2>2 DEF StrayBefore
  <2>3. QED BY <2>1, <2>2
<1>10. ~(Len(m.buf) < (IF Stray(m) THEN 4 ELSE 3))
  <2>1. Len(m.buf) \in Nat
    BY <1>1
  <2>2. ~(Len(m.buf) < need)
    BY ONLY <1>3, <1>4, <2>1
  <2>3. QED BY <1>7, <2>2
<1>11. after_inv(m) = IF StrayBefore(f) THEN Z(m) ELSE IF Remote(f) THEN TakeRemote(m) ELSE H(m)
  BY <1>0, <1>8, <1>9, <1>10
<1>12. after_inv(f) = IF StrayBefore(f) THEN Z(f) ELSE IF Remote(f) THEN TakeRemote(f) ELSE H(f)
  BY <1>0, <1>2
<1>13. Z(m) = Lengthen(Z(f), t, s)
  BY <1>4, StrayLonger DEF Z, m
<1>14. H(m) = Lengthen(H(f), t, s)
  BY RestatedLonger DEF H, m
<1>15. TakeRemote(m) = Lengthen(TakeRemote(f), t, s)
  <2> DEFINE pkt == [type |-> "remote", len |-> MAG_REMOTE_LEN]
             q == "after_remote"
             S(x) == InState(emit(x, pkt), q)
  <2>1. pkt \in Packets /\ pkt.len = 3 /\ q \in {"hunt", "after_inv", "after_remote"}
    BY DEF Packets, MAG_INV_LEN, MAG_REMOTE_LEN
  <2>2. \A x : TakeRemote(x) = consume(S(x), 3)
    BY DEF TakeRemote, MAG_REMOTE_LEN, InState
  <2> HIDE DEF pkt, q
  <2>3. consume(S(m), 3) = Lengthen(consume(S(f), 3), t, s)
    BY <1>4, <2>1, TakenLonger DEF m
  <2> HIDE DEF S
  <2>4. QED BY <2>2, <2>3
<1>16. QED BY <1>11, <1>12, <1>13, <1>14, <1>15 DEF m

\* and so does one behind the remote's packet,
LEMMA AfterRemoteLonger ==
    ASSUME NEW f \in Framers, after_remote(f) # f, NEW t \in Seq(Bytes), NEW s \in Nat
    PROVE  after_remote(Lengthen(f, t, s)) = Lengthen(after_remote(f), t, s)
<1> DEFINE m == Lengthen(f, t, s)
           n == mag_reply_len(f.buf[1])
           pkt == [type |-> "reply", len |-> n]
           q == "hunt"
           H(x) == InState(x, q)
           R(x) == consume(emit(H(x), pkt), n)
<1>1. m \in Framers /\ Len(m.buf) = Len(f.buf) + Len(t) /\ Len(f.buf) \in Nat /\ Len(t) \in Nat
      /\ \A i \in 1 .. Len(f.buf) : m.buf[i] = f.buf[i]
  BY LongerFields, FrFields
<1>2. \A x : mag_reply_len(x.buf[1]) = n =>
              after_remote(x) = IF Len(x.buf) < 1 THEN x ELSE IF n = 0 THEN H(x)
                                ELSE IF Len(x.buf) < n THEN x
                                ELSE IF x.buf[2] = "other" THEN H(x) ELSE R(x)
  BY DEF after_remote, InState
<1>3. n \in {0, 2}
  BY DEF mag_reply_len, ReplyLen
<1>4. H(m) = Lengthen(H(f), t, s)
  BY RestatedLonger
<1> HIDE DEF m, R, H
<1>5. ~(Len(f.buf) < 1) /\ (n = 0 \/ ~(Len(f.buf) < n))
  BY <1>2
<1>6. m.buf[1] = f.buf[1] /\ Len(m.buf) >= 1
  BY <1>1, <1>5
<1>7. mag_reply_len(m.buf[1]) = n /\ ~(Len(m.buf) < 1)
  BY <1>1, <1>6
<1>8. CASE n = 0
  BY <1>2, <1>4, <1>5, <1>7, <1>8 DEF m
<1>9. CASE n = 2
  <2>1. Len(f.buf) >= 2 /\ ~(Len(f.buf) < n)
    BY <1>1, <1>5, <1>9
  <2>2. m.buf[2] = f.buf[2] /\ ~(Len(m.buf) < n)
    BY <1>1, <1>9, <2>1
  <2>3. n # 0
    BY <1>9
  <2>4. after_remote(f) = IF f.buf[2] = "other" THEN H(f) ELSE R(f)
    BY <1>2, <1>5, <2>1, <2>3
  <2>5. after_remote(m) = IF f.buf[2] = "other" THEN H(m) ELSE R(m)
    BY <1>2, <1>7, <2>2, <2>3
  <2>6. R(m) = Lengthen(R(f), t, s)
    <3> DEFINE h == H(f)
               S(x) == InState(emit(x, pkt), q)
    <3>1. pkt \in Packets /\ pkt.len = n
      BY <1>9 DEF Packets, MAG_INV_LEN
    <3>2. /\ h \in Framers /\ h.buf = f.buf /\ h.state = q
          /\ q \in {"hunt", "after_inv", "after_remote"}
      BY Restated DEF H, InState
    <3> DEFINE k == H(m)
    <3>3. k = Lengthen(h, t, s)
      BY <1>4
    <3> HIDE DEF h, k, pkt, q, n
    <3>4. k \in Framers /\ k.state = q
      BY <3>2, <3>3, LongerFields
    <3>5. ASSUME NEW x \in Framers, x.state = q PROVE S(x) = emit(x, pkt)
      <4> DEFINE e == emit(x, pkt)
      <4>1. e \in Framers /\ e.state = q
        BY <3>1, <3>5, EmitPasses DEF Passed
      <4> HIDE DEF e
      <4>2. InState(e, q) = e
        BY <4>1 DEF Framers, InState
      <4>3. QED BY <4>2 DEF e
    <3>6. S(k) = emit(k, pkt) /\ S(h) = emit(h, pkt)
      BY <3>2, <3>4, <3>5
    <3>7. n <= Len(h.buf)
      BY <1>9, <2>1, <3>2
    <3>8. consume(S(k), n) = Lengthen(consume(S(h), n), t, s)
      BY <3>1, <3>2, <3>3, <3>7, TakenLonger
    <3> HIDE DEF S
    <3>9. R(m) = consume(emit(k, pkt), n) /\ R(f) = consume(emit(h, pkt), n)
      BY DEF R, k, h
    <3>10. QED BY <3>6, <3>8, <3>9
  <2>7. QED BY <1>4, <2>4, <2>5, <2>6 DEF m
<1>10. QED BY <1>3, <1>8, <1>9

\* When a turn does something, but for a hunt that finds nothing, it does the same
\* with more bytes behind.
Starved(f) == f.state = "hunt" /\ At(f) = {}

\* The turn is the same with bytes more behind the buffer.
Repeats(f, t, s) == \E r \in Nat : Turn(Lengthen(f, t, s)) = Lengthen(Turn(f), t, r)
\* and any turn but one that finds no inverter packet.
LEMMA TurnLonger ==
    ASSUME NEW f \in Framers, Turn(f) # f, ~Starved(f), NEW t \in Seq(Bytes), NEW s \in Nat
    PROVE  Repeats(f, t, s)
<1> DEFINE m == Lengthen(f, t, s)
<1>1. f.state \in {"hunt", "after_inv", "after_remote"} /\ m.state = f.state
  <2>1. m.state = f.state
    BY ONLY f \in Framers, t \in Seq(Bytes), s \in Nat, LongerFields
  <2>2. QED BY <2>1, FrFields
<1> HIDE DEF m
<1>2. CASE f.state = "hunt"
  <2>1. Turn(f) = hunt(f) /\ Turn(m) = hunt(m)
    BY <1>1, <1>2 DEF Turn
  <2>2. At(f) # {} /\ hunt(f) # f
    BY <1>2, <2>1 DEF Starved
  <2>3. ~(Len(f.buf) < 3)
    BY <2>2, HuntIs
  <2> DEFINE r == IF FirstAt(f) > 1 THEN s ELSE 0
  <2>4. r \in Nat
    OBVIOUS
  <2>5. hunt(m) = Lengthen(hunt(f), t, r)
    BY <2>2, <2>3, HuntLonger DEF m
  <2> HIDE DEF r
  <2>6. QED BY <2>1, <2>4, <2>5 DEF Repeats, m
<1>3. CASE f.state = "after_inv"
  <2>1. Turn(f) = after_inv(f) /\ Turn(m) = after_inv(m)
    BY <1>1, <1>3 DEF Turn
  <2>2. after_inv(m) = Lengthen(after_inv(f), t, s)
    BY <2>1, AfterInvLonger DEF m
  <2>3. QED BY <2>1, <2>2 DEF Repeats, m
<1>4. CASE f.state = "after_remote"
  <2>1. Turn(f) = after_remote(f) /\ Turn(m) = after_remote(m)
    BY <1>1, <1>4 DEF Turn
  <2>2. after_remote(m) = Lengthen(after_remote(f), t, s)
    BY <2>1, AfterRemoteLonger DEF m
  <2>3. QED BY <2>1, <2>2 DEF Repeats, m
<1>5. QED BY <1>1, <1>2, <1>3, <1>4

\* Up to the last two bytes, more bytes make no inverter packet.
LEMMA AtLonger ==
    ASSUME NEW f \in Framers, NEW t \in Seq(Bytes), NEW s \in Nat, NEW m, m = Lengthen(f, t, s),
           At(f) = {}, NEW k \in Nat, k + 2 <= Len(f.buf)
    PROVE  k \notin At(m)
<1>1. Len(f.buf) \in Nat
  BY FrFields
<1> SUFFICES ASSUME k \in At(m) PROVE FALSE
  OBVIOUS
<1>2. k >= 1 /\ mag_frame_is_inverter(m, k)
  BY DEF At
<1>3. mag_frame_is_inverter(f, k)
  BY <1>2, InverterLonger
<1>4. k \in 1 .. Len(f.buf) - 3 + 1
  BY ONLY k \in Nat, k + 2 <= Len(f.buf), <1>1, <1>2
<1>5. k \in At(f)
  BY <1>3, <1>4 DEF At, MAG_INV_LEN
<1>6. QED BY <1>5

\* The bytes since the last inverter packet do not matter to a turn.
LEMMA TurnSince ==
    ASSUME NEW f \in Framers, Turn(f) # f, NEW s \in Nat
    PROVE  Repeats(f, <<>>, s)
<1> DEFINE t == <<>>
           m == Lengthen(f, t, s)
<1>0. t \in Seq(Bytes)
  OBVIOUS
<1>1. t \in Seq(Bytes) /\ Len(t) = 0
  OBVIOUS
<1>2. CASE ~Starved(f)
  BY <1>1, <1>2, TurnLonger
<1>3. CASE Starved(f)
  <2> HIDE DEF t
  <2>0. m \in Framers /\ m.state = f.state /\ Len(m.buf) = Len(f.buf) + Len(t)
    BY ONLY f \in Framers, <1>0, s \in Nat, LongerFields
  <2>1. /\ m \in Framers /\ m.state = f.state /\ Len(m.buf) = Len(f.buf) + Len(t)
        /\ Len(f.buf) \in Nat
    BY <2>0, FrFields
  <2>2. Len(m.buf) = Len(f.buf)
    BY ONLY <1>1, <2>1
  <2>3. At(f) = {} /\ f.state = "hunt"
    BY <1>3 DEF Starved
  <2> HIDE DEF m
  <2>4. At(m) = {}
    <3> SUFFICES ASSUME NEW k \in At(m) PROVE FALSE
      OBVIOUS
    <3>1. k \in 1 .. Len(m.buf) - 3 + 1
      BY DEF At, MAG_INV_LEN
    <3>2. k \in Nat /\ k + 2 <= Len(f.buf)
      BY ONLY <2>1, <2>2, <3>1
    <3>3. QED BY <1>1, <2>3, <3>2, AtLonger DEF m
  <2>5. Turn(f) = hunt(f) /\ Turn(m) = hunt(m)
    BY <2>1, <2>3 DEF Turn
  <2>6. ~(Len(f.buf) < 3)
    BY <2>5, HuntIs
  <2> DEFINE n == Len(f.buf) - 2
  <2>7. n \in 0 .. Len(f.buf)
    BY ONLY <2>1, <2>6
  <2>8. hunt(f) = consume(skip(f, n), n) /\ hunt(m) = consume(skip(m, n), n)
    BY <2>1, <2>2, <2>3, <2>4, <2>6, HuntIs
  <2> HIDE DEF n
  <2>9. hunt(m) = Lengthen(hunt(f), t, s)
    BY <1>1, <2>7, <2>8, SkipLonger DEF m
  <2>10. QED BY <2>5, <2>9 DEF Repeats, m, t
<1>4. QED BY <1>2, <1>3

\* Framers that differ in the bytes since the last inverter packet.
LEMMA SeenSame ==
    ASSUME NEW x \in Framers, NEW y \in Framers, Seen(x) = Seen(y)
    PROVE  y = Lengthen(x, <<>>, y.since_inv)
<1>1. x.buf \o <<>> = x.buf /\ x.owed + Len(<<>>) = x.owed
  BY FrFields
<1> DEFINE z == [x EXCEPT !.since_inv = y.since_inv]
<1>2. Lengthen(x, <<>>, y.since_inv) = z
  BY <1>1 DEF Lengthen, Move, Framers
<1>3. \A q \in {"state", "buf", "have_id", "model", "probing", "probe", "held", "synced",
                "out", "owed"} : Seen(x)[q] = x[q] /\ Seen(y)[q] = y[q]
  BY DEF Seen, Framers
<1>4. z = y
  BY <1>3 DEF Framers
<1>5. QED BY <1>2, <1>4

\* The count of bytes since the last inverter packet is not seen.
LEMMA LongerSeen ==
    ASSUME NEW x \in Framers, NEW t \in Seq(Bytes), NEW s \in Nat, NEW r \in Nat
    PROVE  Seen(Lengthen(x, t, s)) = Seen(Lengthen(x, t, r))
<1> DEFINE b == x.buf \o t
           o == Len(t)
<1> HIDE DEF b, o
<1>1. Lengthen(x, t, s) = Move(x, b, o, s) /\ Lengthen(x, t, r) = Move(x, b, o, r)
  BY DEF Lengthen, b, o
<1>2. Seen(Move(x, b, o, s)) = Seen(Move(x, b, o, r))
  BY DEF Seen, Move, Framers
<1>3. QED BY <1>1, <1>2

\* No bytes behind the buffer change nothing that is seen.
LEMMA NotLonger ==
    ASSUME NEW x \in Framers, NEW s \in Nat
    PROVE  Seen(Lengthen(x, <<>>, s)) = Seen(x)
<1>1. x.buf \o <<>> = x.buf /\ x.owed + Len(<<>>) = x.owed
  BY FrFields
<1>2. QED BY <1>1 DEF Seen, Lengthen, Move, Framers

\* The work left does not depend on that count.
LEMMA SeenWork ==
    ASSUME NEW x \in Framers, NEW y \in Framers, Seen(x) = Seen(y)
    PROVE  Work(x) = Work(y)
<1>1. \A q \in {"state", "buf"} : Seen(x)[q] = x[q] /\ Seen(y)[q] = y[q]
  BY DEF Seen, Framers
<1>2. x.state = y.state /\ x.buf = y.buf
  BY <1>1
<1>3. QED BY <1>2 DEF Work

\* They do the same.
LEMMA SeenTurns ==
    ASSUME NEW x \in Framers, NEW y \in Framers, Seen(x) = Seen(y), Turn(x) # x
    PROVE  Turn(y) # y /\ Seen(Turn(x)) = Seen(Turn(y))
<1> DEFINE s == y.since_inv
           u == Turn(x)
           v == Turn(y)
<1>1. s \in Nat
  BY FrFields
<1>2. y = Lengthen(x, <<>>, s)
  BY SeenSame
<1>3. \E r \in Nat : Turn(Lengthen(x, <<>>, s)) = Lengthen(u, <<>>, r)
  BY <1>1, TurnSince DEF Repeats
<1>4. PICK r \in Nat : v = Lengthen(u, <<>>, r)
  BY <1>2, <1>3
<1>5. Better(x, u)
  BY TurnIs
<1>6. u \in Framers /\ Work(u) < Work(x)
  BY <1>5 DEF Better
<1>7. v = y \/ Better(y, v)
  BY TurnIs
<1> HIDE DEF u, v
<1>8. v \in Framers
  BY <1>7 DEF Better
<1>9. Seen(v) = Seen(u)
  BY <1>4, <1>6, NotLonger
<1>10. Work(v) = Work(u) /\ Work(x) = Work(y)
  BY <1>6, <1>8, <1>9, SeenWork
<1>11. Work(u) \in Nat /\ Work(x) \in Nat
  BY <1>6, WorkNat
<1>12. v # y
  BY <1>6, <1>10, <1>11
<1>13. QED BY <1>9, <1>12 DEF u, v

\* The loop does not depend on that count.
LEMMA SeenProcessed ==
    ASSUME NEW x \in Framers, NEW y \in Framers, Seen(x) = Seen(y)
    PROVE  Seen(process[x]) = Seen(process[y])
<1> DEFINE Q == {f \in Framers : \A g \in Framers :
                     Seen(f) = Seen(g) => Seen(process[f]) = Seen(process[g])}
<1>1. ASSUME NEW f \in Framers, Turn(f) = f \/ Turn(f) \in Q PROVE f \in Q
  <2> SUFFICES ASSUME NEW g \in Framers, Seen(f) = Seen(g)
               PROVE  Seen(process[f]) = Seen(process[g])
    OBVIOUS
  <2>1. /\ process[f] = IF Turn(f) = f THEN f ELSE process[Turn(f)]
        /\ process[g] = IF Turn(g) = g THEN g ELSE process[Turn(g)]
    BY ProcessLoop
  <2>2. CASE Turn(f) = f
    <3>1. Turn(g) = g
      BY <2>2, SeenTurns
    <3>2. QED BY <2>1, <2>2, <3>1
  <2>3. CASE Turn(f) # f
    <3>1. Turn(g) # g /\ Seen(Turn(f)) = Seen(Turn(g))
      BY <2>3, SeenTurns
    <3>2. Turn(g) \in Framers
      BY <3>1, TurnIs DEF Better
    <3>3. Turn(f) \in Q
      BY <1>1, <2>3
    <3>4. Seen(process[Turn(f)]) = Seen(process[Turn(g)])
      BY <3>1, <3>2, <3>3
    <3>5. QED BY <2>1, <2>3, <3>1, <3>4
  <2>4. QED BY <2>2, <2>3
<1> HIDE DEF Q
<1>2. Q \in SUBSET Framers
  BY DEF Q
<1>3. Handed(Q)
  BY <1>1 DEF Handed
<1>4. Q = Framers
  BY <1>2, <1>3, ProcessInduction
<1>5. QED BY <1>4 DEF Q

\* A turn more or less makes no difference.
LEMMA ProcessTurn ==
    ASSUME NEW f \in Framers
    PROVE  Turn(f) \in Framers /\ process[Turn(f)] = process[f]
<1>1. Turn(f) = f \/ Better(f, Turn(f))
  BY TurnIs
<1>2. Turn(f) \in Framers
  BY <1>1 DEF Better
<1>3. process[f] = IF Turn(f) = f THEN f ELSE process[Turn(f)]
  BY ProcessLoop
<1>4. QED BY <1>2, <1>3

\* One of the same more.
LEMMA OneMore ==
    ASSUME NEW v, NEW n \in Nat
    PROVE  [i \in 1 .. n |-> v] \o [i \in 1 .. 1 |-> v] = [i \in 1 .. n + 1 |-> v]
<1> DEFINE S == {v}
           x == [i \in 1 .. n |-> v]
           y == [i \in 1 .. 1 |-> v]
           z == [i \in 1 .. n + 1 |-> v]
<1>1. x \in Seq(S) /\ Len(x) = n /\ y \in Seq(S) /\ Len(y) = 1
      /\ z \in Seq(S) /\ Len(z) = n + 1
  OBVIOUS
<1> HIDE DEF S, x, y, z
<1>2. x \o y \in Seq(S) /\ Len(x \o y) = n + 1
  <2>1. x \in Seq(S) /\ y \in Seq(S)
    BY <1>1
  <2>2. x \o y \in Seq(S) /\ Len(x \o y) = Len(x) + Len(y)
    BY ONLY <2>1, ConcatProperties
  <2>3. QED BY <1>1, <2>2
<1>3. \A q \in Seq(S) : \A i \in 1 .. Len(q) : q[i] = v
  BY DEF S
<1>4. \A i \in 1 .. Len(x \o y) : (x \o y)[i] = z[i]
  BY <1>1, <1>2, <1>3
<1> DEFINE w == x \o y
<1> HIDE DEF w
<1>5. w \in Seq(S) /\ Len(w) = Len(z) /\ \A i \in 1 .. Len(w) : w[i] = z[i]
  BY <1>1, <1>2, <1>4 DEF w
<1>6. w = z
  BY ONLY <1>1, <1>5, SameSeq
<1>7. QED BY <1>6 DEF w, x, y, z

\* One unknown byte more.
LEMMA UnknownTwice ==
    ASSUME NEW d \in Framers, NEW n \in Nat, NEW g, g = [unknown(d, n) EXCEPT !.synced = FALSE]
    PROVE  [unknown(g, 1) EXCEPT !.synced = FALSE] = [unknown(d, n + 1) EXCEPT !.synced = FALSE]
<1> DEFINE U(k) == [i \in 1 .. k |-> Unknown]
           V == Packets \union {Unknown}
           o1 == d.out \o U(n)
           o2 == o1 \o U(1)
           o3 == d.out \o U(n + 1)
           w1 == d.owed - n
           w2 == w1 - 1
           w3 == d.owed - (n + 1)
<1>1. d.out \in Seq(V) /\ d.owed \in Int
  BY FrFields
<1>2. \A k \in Nat : U(k) \in Seq(V) /\ Len(U(k)) = k /\ \A i \in 1 .. k : U(k)[i] = Unknown
  OBVIOUS
<1>3. U(n) \in Seq(V) /\ Len(U(n)) = n /\ U(1) \in Seq(V) /\ Len(U(1)) = 1
      /\ U(n + 1) \in Seq(V) /\ Len(U(n + 1)) = n + 1
  BY <1>2
<1>4. o2 = o3
  <2>1. o2 = d.out \o (U(n) \o U(1))
    <3> DEFINE p == d.out
               q == U(n)
               r == U(1)
    <3>1. p \in Seq(V) /\ q \in Seq(V) /\ r \in Seq(V)
      BY <1>1, <1>3
    <3>2. o2 = (p \o q) \o r
      OBVIOUS
    <3> HIDE DEF p, q, r, V, o2
    <3>3. (p \o q) \o r = p \o (q \o r)
      BY ONLY <3>1, ConcatAssociative
    <3>4. QED BY <3>2, <3>3 DEF p, q, r
  <2>2. U(n) \o U(1) = U(n + 1)
    BY OneMore
  <2> HIDE DEF U
  <2>3. QED BY <2>1, <2>2
<1>5. w2 = w3
  BY ONLY <1>1, n \in Nat
<1>6. unknown(d, n) = [d EXCEPT !.out = o1, !.owed = w1]
  BY DEF unknown, deliver
<1>7. unknown(d, n + 1) = [d EXCEPT !.out = o3, !.owed = w3]
  BY DEF unknown, deliver
<1>8. unknown(g, 1) = [g EXCEPT !.out = @ \o U(1), !.owed = @ - 1]
  BY DEF unknown, deliver
<1> HIDE DEF U
<1>9. g.out = o1 /\ g.owed = w1
  BY <1>6 DEF Framers
<1>10. unknown(g, 1) = [g EXCEPT !.out = o2, !.owed = w2]
  <2> HIDE DEF o1, w1
  <2>1. QED BY ONLY <1>8, <1>9 DEF o2, w2
<1> HIDE DEF o1, o2, o3, w1, w2, w3
<1>11. g = [d EXCEPT !.out = o1, !.owed = w1, !.synced = FALSE]
  BY <1>6 DEF Framers
<1>12. [unknown(g, 1) EXCEPT !.synced = FALSE]
       = [d EXCEPT !.out = o2, !.owed = w2, !.synced = FALSE]
  BY ONLY <1>10, <1>11, d \in Framers DEF Framers
<1>13. [unknown(d, n + 1) EXCEPT !.synced = FALSE]
       = [d EXCEPT !.out = o3, !.owed = w3, !.synced = FALSE]
  BY ONLY <1>7, d \in Framers DEF Framers
<1>14. QED BY ONLY <1>4, <1>5, <1>12, <1>13

\* Bytes that are skipped one after the other.
LEMMA SkipTwice ==
    ASSUME NEW f \in Framers, NEW n \in Nat, n + 1 <= Len(f.buf)
    PROVE  LET y == consume(skip(f, n), n)
           IN consume(skip(y, 1), 1) = consume(skip(f, n + 1), n + 1)
<1> DEFINE d == IF f.probing THEN held_drop(f) ELSE f
           g == skip(f, n)
           h == skip(f, n + 1)
           l == Len(f.buf)
           b == SubSeq(f.buf, n + 1, l)
           s == f.since_inv
           y == consume(g, n)
<1>1. l \in Nat /\ f.buf \in Seq(Bytes) /\ s \in Nat
  BY FrFields
<1>2. d \in Framers /\ d.probing = FALSE
  BY DropPasses DEF Passed, Framers
<1>3. g = [unknown(d, n) EXCEPT !.synced = FALSE]
  BY DEF skip
<1>4. h = [unknown(d, n + 1) EXCEPT !.synced = FALSE]
  BY DEF skip
<1>5. g \in Framers /\ g.buf = f.buf /\ g.since_inv = s
  BY SkipPasses DEF Passed
<1>6. n + 1 \in Nat
  OBVIOUS
<1>7. h \in Framers /\ h.buf = f.buf /\ h.since_inv = s
  BY <1>6, SkipPasses DEF Passed
<1>8. g.probing = FALSE
  <2> DEFINE u == unknown(d, n)
  <2>1. u \in Framers /\ u.probing = FALSE
    <3> HIDE DEF d
    <3>1. Passed(d, u, n) /\ u.probing = d.probing
      BY <1>2, UnknownPasses
    <3>2. QED BY <1>2, <3>1 DEF Passed
  <2>2. g = [u EXCEPT !.synced = FALSE]
    BY <1>3
  <2> HIDE DEF u, g
  <2>3. QED BY <2>1, <2>2 DEF Framers
<1> HIDE DEF d, g, h
<1>9. skip(g, 1) = h
  <2>0. (IF g.probing THEN held_drop(g) ELSE g) = g
    BY <1>8
  <2>1. skip(g, 1) = [unknown(g, 1) EXCEPT !.synced = FALSE]
    BY ONLY <2>0 DEF skip
  <2>2. [unknown(g, 1) EXCEPT !.synced = FALSE] = [unknown(d, n + 1) EXCEPT !.synced = FALSE]
    BY <1>2, <1>3, UnknownTwice
  <2>3. QED BY <1>4, <2>1, <2>2
<1>10. y = [g EXCEPT !.buf = b]
  BY <1>5 DEF consume
<1>11. y = Move(g, b, 0, s)
  <2> HIDE DEF b, s, y
  <2>1. g.owed + 0 = g.owed
    BY <1>5, FrFields
  <2>2. QED BY <1>5, <1>10, <2>1 DEF Move, Framers
<1>12. skip(Move(g, b, 0, s), 1) = Move(h, b, 0, s)
  <2> HIDE DEF b, s, y
  <2>1. QED BY <1>5, <1>9, SkipMoved
<1>13. Move(h, b, 0, s) = [h EXCEPT !.buf = b]
  <2> HIDE DEF b, s, y
  <2>1. h.owed + 0 = h.owed
    BY <1>7, FrFields
  <2>2. QED BY <1>7, <2>1 DEF Move, Framers
<1>14. skip(y, 1) = [h EXCEPT !.buf = b]
  BY <1>11, <1>12, <1>13
<1> DEFINE k == [h EXCEPT !.buf = b]
<1>15. k.buf = b
  BY <1>7 DEF Framers
<1>16. consume(k, 1) = [k EXCEPT !.buf = SubSeq(b, 2, Len(b))]
  <2>1. 1 + 1 = 2
    OBVIOUS
  <2>2. consume(k, 1) = [k EXCEPT !.buf = SubSeq(k.buf, 1 + 1, Len(k.buf))]
    BY DEF consume
  <2> HIDE DEF b, k
  <2>3. QED BY ONLY <1>15, <2>1, <2>2
<1>17. consume(h, n + 1) = [h EXCEPT !.buf = SubSeq(f.buf, n + 2, l)]
  <2>1. (n + 1) + 1 = n + 2
    OBVIOUS
  <2>2. consume(h, n + 1) = [h EXCEPT !.buf = SubSeq(h.buf, (n + 1) + 1, Len(h.buf))]
    BY DEF consume
  <2>3. QED BY ONLY <1>7, <2>1, <2>2
<1>18. SubSeq(b, 2, Len(b)) = SubSeq(f.buf, n + 2, l)
  <2> DEFINE p == SubSeq(b, 2, Len(b))
             q == SubSeq(f.buf, n + 2, l)
  <2>1. b \in Seq(Bytes) /\ Len(b) = l - n /\ \A i \in 1 .. l - n : b[i] = f.buf[i + n]
    BY <1>1
  <2>2. q \in Seq(Bytes) /\ Len(q) = l - n - 1 /\ \A i \in 1 .. l - n - 1 : q[i] = f.buf[i + n + 1]
    BY <1>1
  <2> HIDE DEF b, q, l
  <2>3. p \in Seq(Bytes) /\ Len(p) = l - n - 1 /\ \A i \in 1 .. l - n - 1 : p[i] = b[i + 1]
    <3> DEFINE j == Len(b)
    <3>1. j \in Nat /\ j >= 1 /\ j - 1 = l - n - 1
      BY <1>1, <2>1 DEF l
    <3>2. p \in Seq(Bytes) /\ Len(p) = j - 1 /\ \A i \in 1 .. j - 1 : p[i] = b[i + 1]
      BY <2>1, <3>1
    <3> HIDE DEF j, p
    <3>3. QED BY <3>1, <3>2
  <2> HIDE DEF p
  <2>4. Len(p) = Len(q)
    BY <2>2, <2>3
  <2>5. ASSUME NEW i \in 1 .. Len(p) PROVE p[i] = q[i]
    <3>1. i \in 1 .. l - n - 1 /\ i + 1 \in 1 .. l - n /\ (i + 1) + n = i + n + 1
      BY ONLY <1>1, <2>3, <2>5, n \in Nat
    <3>2. p[i] = b[i + 1] /\ b[i + 1] = f.buf[(i + 1) + n] /\ q[i] = f.buf[i + n + 1]
      BY <2>1, <2>2, <2>3, <3>1
    <3>3. QED BY ONLY <3>1, <3>2
  <2>6. p = q
    BY ONLY <2>2, <2>3, <2>4, <2>5, SameSeq
  <2>7. QED BY <2>6 DEF p, q
<1> DEFINE c == SubSeq(f.buf, n + 2, l)
<1>19. consume(k, 1) = [k EXCEPT !.buf = c] /\ consume(h, n + 1) = [h EXCEPT !.buf = c]
  BY <1>16, <1>17, <1>18
<1> HIDE DEF b, c
<1>20. [k EXCEPT !.buf = c] = [h EXCEPT !.buf = c]
  BY <1>7 DEF Framers
<1> HIDE DEF k
<1>21. consume(skip(y, 1), 1) = consume(h, n + 1)
  BY <1>14, <1>19, <1>20 DEF k
<1>22. QED BY <1>21 DEF g, h, y

\* A byte more behind a hunt that finds nothing is as good before its turn as
\* behind it.
LEMMA StarvedByte ==
    ASSUME NEW f \in Framers, Turn(f) # f, Starved(f), NEW c \in Bytes, NEW s \in Nat,
           NEW m, m = Lengthen(f, <<c>>, s), NEW y, y = Lengthen(Turn(f), <<c>>, s)
    PROVE  Turn(m) = y \/ Turn(m) = Turn(y)
<1> DEFINE t == <<c>>
           l == Len(f.buf)
           n == l - 2
           z == consume(skip(f, n), n)
<1>0. t \in Seq(Bytes)
  OBVIOUS
<1>1. t \in Seq(Bytes) /\ Len(t) = 1
  OBVIOUS
<1>2. l \in Nat /\ f.state = "hunt" /\ At(f) = {}
  BY FrFields DEF Starved
<1>3. Turn(f) = hunt(f) /\ ~(l < 3)
  <2>1. Turn(f) = hunt(f)
    BY <1>2 DEF Turn
  <2>2. QED BY <2>1, HuntIs
<1>4. n \in 0 .. l /\ n \in Nat /\ n + 2 = l /\ n >= 1
  BY ONLY <1>2, <1>3
<1>5. Turn(f) = z
  BY <1>2, <1>3, HuntIs
<1> HIDE DEF z, n
<1>6. Advanced(f, z, n) /\ z.state = "hunt"
  BY <1>2, <1>4, SkippedIs DEF z
<1>7. z \in Framers /\ Len(z.buf) = 2
  <2>1. z \in Framers /\ Len(z.buf) = l - n
    BY <1>6 DEF Advanced
  <2>2. QED BY ONLY <1>2, <1>4, <2>1
<1> HIDE DEF t
<1>8. m = Lengthen(f, t, s) /\ y = Lengthen(z, t, s)
  BY <1>5 DEF t
<1>9. /\ m \in Framers /\ m.state = "hunt" /\ Len(m.buf) = l + Len(t)
      /\ m.have_id = f.have_id /\ m.model = f.model
  <2>1. /\ m \in Framers /\ m.state = f.state /\ Len(m.buf) = Len(f.buf) + Len(t)
        /\ m.have_id = f.have_id /\ m.model = f.model
    BY ONLY <1>0, <1>8, f \in Framers, s \in Nat, LongerFields
  <2>2. QED BY <1>2, <2>1
<1>10. y \in Framers /\ y.state = "hunt" /\ Len(y.buf) = 2 + Len(t)
  <2>1. z \in Framers
    BY <1>7
  <2>2. y \in Framers /\ y.state = z.state /\ Len(y.buf) = Len(z.buf) + Len(t)
    BY ONLY <1>0, <1>8, <2>1, s \in Nat, LongerFields
  <2>3. QED BY <1>6, <1>7, <2>2
<1>11. Len(m.buf) = l + 1 /\ Len(y.buf) = 3
  BY ONLY <1>1, <1>2, <1>9, <1>10
<1>12. y = consume(skip(m, n), n)
  BY <1>1, <1>4, <1>8, SkipLonger DEF z
<1>13. Turn(m) = hunt(m) /\ Turn(y) = hunt(y)
  BY <1>9, <1>10 DEF Turn
<1>14. \A k : k \in At(m) <=> k \in 1 .. l + 1 - 3 + 1 /\ mag_frame_is_inverter(m, k)
  BY <1>11 DEF At, MAG_INV_LEN
<1>15. ASSUME NEW k \in At(m) PROVE k = n + 1
  <2>1. k \in 1 .. l + 1 - 3 + 1
    BY <1>14
  <2>2. k \in Nat /\ k <= n + 1
    BY ONLY <1>2, <1>4, <2>1
  <2>3. CASE k + 2 <= l
    <3>1. k \notin At(m)
      BY <1>1, <1>2, <1>8, <2>2, <2>3, AtLonger
    <3>2. QED BY <1>15, <3>1
  <2>4. CASE ~(k + 2 <= l)
    BY ONLY <1>2, <1>4, <2>2, <2>4
  <2>5. QED BY <2>3, <2>4
<1>16. ~(Len(m.buf) < 3)
  BY ONLY <1>2, <1>3, <1>11
<1>17. CASE At(m) # {}
  <2>1. FirstAt(m) \in At(m)
    BY <1>9, <1>17, FirstAtIs
  <2>2. FirstAt(m) = n + 1
    BY <1>15, <2>1
  <2>3. FirstAt(m) > 1 /\ FirstAt(m) - 1 = n
    BY ONLY <1>4, <2>2
  <2>4. hunt(m) = consume(skip(m, n), n)
    BY <1>9, <1>16, <1>17, <2>3, HuntIs
  <2>5. QED BY <1>12, <1>13, <2>4
<1>18. CASE At(m) = {}
  <2>1. Len(m.buf) - 2 = n + 1
    BY ONLY <1>2, <1>4, <1>11
  <2>2. hunt(m) = consume(skip(m, n + 1), n + 1)
    BY <1>9, <1>16, <1>18, <2>1, HuntIs
  <2>3. At(y) = {}
    <3> SUFFICES ASSUME NEW k \in At(y) PROVE FALSE
      OBVIOUS
    <3>1. k \in 1 .. 3 - 3 + 1 /\ mag_frame_is_inverter(y, k)
      BY <1>11 DEF At, MAG_INV_LEN
    <3>2. k = 1
      BY ONLY <3>1
    <3> DEFINE g == skip(m, n)
               b == SubSeq(m.buf, n + 1, Len(m.buf))
    <3>3. g \in Framers /\ g.buf = m.buf /\ g.have_id = m.have_id /\ g.model = m.model
      BY <1>4, <1>9, SkipPasses DEF Passed
    <3> HIDE DEF g
    <3>4. y = [g EXCEPT !.buf = b]
      BY <1>12, <3>3 DEF consume, g
    <3>5. m.buf \in Seq(Bytes)
      BY <1>9, FrFields
    <3>6. b[1] = m.buf[n + 1] /\ b[3] = m.buf[n + 3]
      BY <1>2, <1>4, <1>11, <3>5
    <3> HIDE DEF b
    <3>7. y.buf = b /\ y.have_id = m.have_id /\ y.model = m.model
      BY <3>3, <3>4 DEF Framers
    <3>8. (n + 1) + 2 = n + 3 /\ 1 + 2 = 3
      BY ONLY <1>4
    <3>9. mag_frame_is_inverter(m, n + 1)
      BY <3>1, <3>2, <3>6, <3>7, <3>8 DEF mag_frame_is_inverter
    <3>10. n + 1 \in 1 .. l + 1 - 3 + 1
      BY ONLY <1>2, <1>4
    <3>11. QED BY <1>14, <1>18, <3>9, <3>10
  <2>4. hunt(y) = consume(skip(y, 1), 1)
    <3>1. ~(Len(y.buf) < 3) /\ Len(y.buf) - 2 = 1
      BY ONLY <1>11
    <3>2. QED BY <1>10, <2>3, <3>1, HuntIs
  <2>5. consume(skip(y, 1), 1) = consume(skip(m, n + 1), n + 1)
    <3>1. n + 1 <= Len(m.buf)
      BY ONLY <1>2, <1>4, <1>11
    <3>2. QED BY <1>4, <1>9, <1>12, <3>1, SkipTwice
  <2>6. QED BY <1>13, <2>2, <2>4, <2>5
<1>19. QED BY <1>17, <1>18

\* A byte that comes behind what a call left makes what it makes when it is there
\* from the start.
Late(f) ==
    \A c \in Bytes : \A s, r \in Nat :
        Seen(process[Lengthen(process[f], <<c>>, s)]) = Seen(process[Lengthen(f, <<c>>, r)])

\* A byte is a sequence of bytes.
LEMMA OneByte ==
    ASSUME NEW c \in Bytes
    PROVE  <<c>> \in Seq(Bytes)
OBVIOUS

\* With a byte more it does not either.
LEMMA LongerProcessed ==
    ASSUME NEW f \in Framers, NEW c \in Bytes, NEW s \in Nat, NEW r \in Nat
    PROVE  /\ Lengthen(f, <<c>>, s) \in Framers
           /\ Seen(process[Lengthen(f, <<c>>, s)]) = Seen(process[Lengthen(f, <<c>>, r)])
<1> DEFINE t == <<c>>
           x == Lengthen(f, t, s)
           y == Lengthen(f, t, r)
<1>1. t \in Seq(Bytes)
  BY OneByte
<1> HIDE DEF t
<1>2. x \in Framers
  BY ONLY <1>1, f \in Framers, s \in Nat, LongerFields
<1>3. y \in Framers
  BY ONLY <1>1, f \in Framers, r \in Nat, LongerFields
<1>4. Seen(x) = Seen(y)
  BY <1>1, LongerSeen
<1> HIDE DEF x, y
<1>5. Seen(process[x]) = Seen(process[y])
  BY <1>2, <1>3, <1>4, SeenProcessed
<1>6. QED BY <1>2, <1>5 DEF x, y, t

\* Whatever the framer is in the middle of, a byte may come late.
LEMMA LateByte ==
    ASSUME NEW f \in Framers
    PROVE  Late(f)
<1> DEFINE Q == {x \in Framers : Late(x)}
<1>1. ASSUME NEW x \in Framers, Turn(x) = x \/ Turn(x) \in Q PROVE x \in Q
  <2> DEFINE z == process[x]
             u == Turn(x)
  <2>0. z \in Framers /\ z = (IF u = x THEN x ELSE process[u])
    BY ProcessLoop
  <2> SUFFICES ASSUME NEW c \in Bytes, NEW s \in Nat, NEW r \in Nat
               PROVE  Seen(process[Lengthen(z, <<c>>, s)]) = Seen(process[Lengthen(x, <<c>>, r)])
    BY DEF Late
  <2> DEFINE m == Lengthen(x, <<c>>, r)
  <2>1. CASE u = x
    <3>1. z = x
      BY <2>0, <2>1
    <3> HIDE DEF z
    <3>2. Seen(process[Lengthen(x, <<c>>, s)]) = Seen(process[Lengthen(x, <<c>>, r)])
      BY LongerProcessed
    <3>3. QED BY <3>1, <3>2
  <2>2. CASE u # x
    <3>1. u \in Framers /\ process[u] = z
      BY <2>0, <2>2, ProcessTurn
    <3>2. Late(u)
      BY <1>1, <2>2
    <3>3. m \in Framers
      BY LongerProcessed
    <3>4. process[Turn(m)] = process[m]
      BY <3>3, ProcessTurn
    <3> HIDE DEF z, u, m
    <3>5. ASSUME NEW q \in Nat
          PROVE  Seen(process[Lengthen(z, <<c>>, s)]) = Seen(process[Lengthen(u, <<c>>, q)])
      BY <3>1, <3>2 DEF Late
    <3>6. CASE Starved(x)
      <4> DEFINE y == Lengthen(u, <<c>>, r)
      <4>1. Turn(m) = y \/ Turn(m) = Turn(y)
        BY <2>2, <3>6, StarvedByte DEF m, u
      <4>2. y \in Framers
        BY <3>1, LongerProcessed
      <4>3. process[Turn(y)] = process[y]
        BY <4>2, ProcessTurn
      <4> HIDE DEF y
      <4>4. process[m] = process[y]
        BY <3>4, <4>1, <4>3
      <4>5. Seen(process[Lengthen(z, <<c>>, s)]) = Seen(process[y])
        BY <3>5 DEF y
      <4>6. QED BY <4>4, <4>5 DEF m
    <3>7. CASE ~Starved(x)
      <4> DEFINE t == <<c>>
      <4>1. t \in Seq(Bytes)
        BY OneByte
      <4> HIDE DEF t
      <4>2. Turn(x) # x
        BY <2>2 DEF u
      <4>3. Repeats(x, t, r)
        BY <3>7, <4>1, <4>2, TurnLonger
      <4>4. PICK q \in Nat : Turn(Lengthen(x, t, r)) = Lengthen(Turn(x), t, q)
        BY <4>3 DEF Repeats
      <4>5. process[m] = process[Lengthen(u, <<c>>, q)]
        BY <3>4, <4>4 DEF m, u, t
      <4>6. Seen(process[Lengthen(z, <<c>>, s)]) = Seen(process[Lengthen(u, <<c>>, q)])
        BY <3>5
      <4>7. QED BY <4>5, <4>6 DEF m
    <3>8. QED BY <3>6, <3>7 DEF z, m
  <2>3. QED BY <2>1, <2>2
<1> HIDE DEF Q
<1>2. Q \in SUBSET Framers
  BY DEF Q
<1>3. Handed(Q)
  BY <1>1 DEF Handed
<1>4. Q = Framers
  BY <1>2, <1>3, ProcessInduction
<1>5. QED BY <1>4 DEF Q

\* A call that does not make the framer forget its inverter.
LEMMA CallIs ==
    ASSUME NEW f \in Framers, Known(f), NEW t \in Seq(Bytes),
           f.since_inv + Len(t) <= MAG_RELEARN_BYTES
    PROVE  Feed(f, t) = process[Lengthen(f, t, f.since_inv + Len(t))]
<1> DEFINE heard == f.since_inv + Len(t)
           b == f.buf \o t
           o == Len(t)
           w == f.owed + o
           g == [f EXCEPT !.since_inv = heard, !.owed = w,
                          !.have_id = f.have_id /\ heard <= MAG_RELEARN_BYTES]
           h == [g EXCEPT !.buf = b, !.model = IF g.have_id THEN f.model ELSE NoModel]
<1>1. f.have_id \in BOOLEAN
  BY FrFields
<1>2. (f.have_id /\ heard <= MAG_RELEARN_BYTES) = f.have_id
  BY <1>1
<1>3. g = [f EXCEPT !.since_inv = heard, !.owed = w, !.have_id = f.have_id]
  BY <1>2
<1>4. /\ g.have_id = f.have_id /\ g.model = f.model /\ g.buf = f.buf
  <2> HIDE DEF g, heard, w
  <2>1. QED BY <1>3 DEF Framers
<1>5. Feed(f, t) = process[h]
  <2> DEFINE G == [f EXCEPT !.since_inv = heard, !.owed = @ + Len(t),
                            !.have_id = @ /\ heard <= MAG_RELEARN_BYTES]
             H == [G EXCEPT !.buf = @ \o t, !.model = IF G.have_id THEN @ ELSE NoModel]
  <2>1. Feed(f, t) = process[H]
    BY DEF Feed
  <2>2. G = g
    OBVIOUS
  <2> HIDE DEF g, G
  <2>3. H = h
    BY <1>4, <2>2
  <2> HIDE DEF H, h
  <2>4. QED BY <2>1, <2>3
<1>6. (IF g.have_id THEN f.model ELSE NoModel) = f.model
  BY <1>4 DEF Known
<1>7. h = [g EXCEPT !.buf = b, !.model = f.model]
  BY <1>6
<1> HIDE DEF g, heard, b, o, w, h
<1>8. h = [f EXCEPT !.buf = b, !.owed = w, !.since_inv = heard]
  BY <1>3, <1>7 DEF Framers
<1>9. Lengthen(f, t, heard) = [f EXCEPT !.buf = b, !.owed = w, !.since_inv = heard]
  BY DEF Lengthen, Move, b, o, w
<1>10. QED BY <1>5, <1>8, <1>9 DEF heard

\* Two bytes come together or one by one.
LEMMA LongerTwice ==
    ASSUME NEW f \in Framers, NEW b \in Bytes, NEW c \in Bytes, NEW s \in Nat, NEW r \in Nat
    PROVE  Lengthen(Lengthen(f, <<b>>, s), <<c>>, r) = Lengthen(f, <<b, c>>, r)
<1> DEFINE x == f.buf \o <<b>>
           y == x \o <<c>>
           z == f.buf \o <<b, c>>
           v == f.owed + 1
           w == v + 1
           u == f.owed + 2
           m == [f EXCEPT !.buf = x, !.owed = v, !.since_inv = s]
<1>1. f.buf \in Seq(Bytes) /\ f.owed \in Int
  BY FrFields
<1>2. y = z
  BY <1>1, TwoBehind
<1>3. w = u
  BY ONLY <1>1
<1>4. Len(<<b>>) = 1 /\ Len(<<c>>) = 1 /\ Len(<<b, c>>) = 2
  OBVIOUS
<1>5. Lengthen(f, <<b>>, s) = m
  BY <1>4 DEF Lengthen, Move
<1>6. Lengthen(f, <<b, c>>, r) = [f EXCEPT !.buf = z, !.owed = u, !.since_inv = r]
  BY <1>4 DEF Lengthen, Move
<1> HIDE DEF x, v, m
<1>7. m.buf = x /\ m.owed = v
  BY DEF m, Framers
<1>8. Lengthen(m, <<c>>, r)
      = [m EXCEPT !.buf = m.buf \o <<c>>, !.owed = m.owed + 1, !.since_inv = r]
  BY <1>4 DEF Lengthen, Move
<1>9. Lengthen(m, <<c>>, r) = [m EXCEPT !.buf = y, !.owed = w, !.since_inv = r]
  BY <1>7, <1>8
<1> HIDE DEF y, z, w, u
<1>10. [m EXCEPT !.buf = y, !.owed = w, !.since_inv = r]
       = [f EXCEPT !.buf = y, !.owed = w, !.since_inv = r]
  BY DEF m, Framers
<1>11. QED BY ONLY <1>2, <1>3, <1>5, <1>6, <1>9, <1>10

\* At most a packet waits, what is held has room, and the inverter was heard lately.
Bounded(f) ==
    Small(f) /\ f.since_inv <= MAG_RELEARN_BYTES /\ Len(f.buf) <= 3

\* Between two calls nothing is under way, every byte was accounted for once or waits, and
\* an inverter that is known is one of the models.
FrInv == fr \in Framers /\ fr.out = <<>> /\ Balance(fr) = 0 /\ Known(fr) /\ Bounded(fr)

\* A framer without bytes and packets.
LEMMA NothingOwed ==
    ASSUME NEW f, f.owed = 0, f.held = <<>>, f.buf = <<>>
    PROVE  Balance(f) = 0
<1>1. Total(f.held) = 0
  BY NoneTotal
<1>2. Len(f.buf) = 0
  OBVIOUS
<1>3. QED BY <1>1, <1>2 DEF Balance

\* The framer starts so.
LEMMA FrStarts == FrInit => FrInv
<1> SUFFICES ASSUME FrInit PROVE FrInv
  OBVIOUS
<1>0. <<>> \in Seq(Bytes) /\ <<>> \in Seq(Packets) /\ <<>> \in Seq(Packets \union {Unknown})
  OBVIOUS
<1>1. fr = Framer
  BY DEF FrInit
<1>2. fr \in Framers
  BY <1>0, <1>1 DEF Framer, Framers
<1>3. fr.out = <<>> /\ fr.owed = 0 /\ fr.held = <<>> /\ fr.buf = <<>> /\ fr.model = NoModel
  BY <1>1 DEF Framer
<1>4. Len(fr.held) = 0 /\ Len(fr.buf) = 0 /\ fr.since_inv = 0
  BY <1>1, <1>3 DEF Framer
<1>5. Bounded(fr)
  BY <1>4, FrAssumption DEF Bounded, Small
<1>6. QED BY <1>2, <1>3, <1>5, NothingOwed DEF FrInv, Known

\* Between two calls.
LEMMA DoneKeeps ==
    ASSUME NEW f \in Framers, Balance(f) = 0, Known(f), NEW g, g = Done(f)
    PROVE  /\ g \in Framers /\ g.out = <<>> /\ Balance(g) = 0 /\ Known(g)
           /\ Fit(f) /\ Len(f.buf) <= 3 => Bounded(g)
<1> DEFINE s == IF f.have_id THEN f.since_inv ELSE 0
<1>0. <<>> \in Seq(Packets \union {Unknown}) /\ s \in Nat
  BY FrFields
<1>1. g = [f EXCEPT !.out = <<>>, !.since_inv = s]
  BY DEF Done
<1> HIDE DEF s
<1>2. /\ g \in Framers /\ g.out = <<>> /\ g.owed = f.owed /\ g.held = f.held /\ g.buf = f.buf
      /\ g.have_id = f.have_id /\ g.model = f.model /\ g.since_inv = s
  BY <1>0, <1>1 DEF Framers
<1>3. Recent(f) => s <= MAG_RELEARN_BYTES
  BY FrAssumption DEF Recent, s
<1>4. QED BY <1>2, <1>3 DEF Balance, Known, Bounded, Fit, Small

\* mag_frame_feed keeps the accounts,
LEMMA FeedKeeps ==
    ASSUME NEW f \in Framers, Balance(f) = 0, Known(f), NEW t \in Seq(Bytes)
    PROVE  /\ Feed(f, t) \in Framers /\ Balance(Feed(f, t)) = 0 /\ Known(Feed(f, t))
           /\ Small(f) => Fit(Feed(f, t)) /\ Len(Feed(f, t).buf) <= 3
<1> DEFINE heard == f.since_inv + Len(t)
           b == f.buf \o t
           o == Len(t)
           w == f.owed + o
           k == f.have_id /\ heard <= MAG_RELEARN_BYTES
           a == IF k THEN f.model ELSE NoModel
           g == [f EXCEPT !.since_inv = heard, !.owed = w, !.have_id = k]
           h == [g EXCEPT !.buf = b, !.model = a]
           z == process[h]
<1>1. /\ f.have_id \in BOOLEAN /\ f.owed \in Int /\ f.buf \in Seq(Bytes) /\ Len(f.buf) \in Nat
      /\ Total(f.held) \in Nat /\ f.since_inv \in Nat /\ f.model \in Models \union {NoModel}
      /\ o \in Nat
  BY FrFields
<1>2. k \in BOOLEAN
  BY <1>1
<1>3. b \in Seq(Bytes) /\ Len(b) = Len(f.buf) + o
  BY <1>1
<1>4. w \in Int /\ heard \in Nat
  BY <1>1
<1>5. a \in Models \union {NoModel}
  BY <1>1
<1>6. w - Total(f.held) - (Len(f.buf) + o) = f.owed - Total(f.held) - Len(f.buf)
  BY ONLY <1>1
<1>7. Feed(f, t) = z
  <2> DEFINE G == [f EXCEPT !.since_inv = heard, !.owed = @ + Len(t),
                            !.have_id = @ /\ heard <= MAG_RELEARN_BYTES]
             H == [G EXCEPT !.buf = @ \o t, !.model = IF G.have_id THEN @ ELSE NoModel]
  <2>1. Feed(f, t) = process[H]
    BY DEF Feed
  <2>2. G = g
    OBVIOUS
  <2>3. g.have_id = k /\ g.model = f.model /\ g.buf = f.buf
    <3> HIDE DEF heard, w, k
    <3>1. QED BY DEF Framers
  <2>4. H = [g EXCEPT !.buf = g.buf \o t, !.model = IF g.have_id THEN g.model ELSE NoModel]
    <3> HIDE DEF g, G
    <3>1. QED BY <2>2
  <2>5. H = h
    <3> HIDE DEF g, G, H
    <3>1. QED BY <2>3, <2>4
  <2> HIDE DEF H, h
  <2>6. QED BY <2>1, <2>5
<1>8. k = TRUE \/ a = NoModel
  BY <1>2
<1> HIDE DEF heard, b, o, w, k, a
<1>9. /\ h \in Framers /\ h.buf = b /\ h.owed = w /\ h.held = f.held /\ h.have_id = k /\ h.model = a
      /\ h.since_inv = heard
  BY <1>2, <1>3, <1>4, <1>5 DEF Framers
<1> HIDE DEF g, h
<1>10. Small(f) => Fit(h)
  BY <1>9 DEF Fit, Small, Recent, k
<1>11. Balance(h) = 0 /\ Known(h)
  <2>1. Balance(h) = f.owed - Total(f.held) - Len(f.buf)
    BY <1>3, <1>6, <1>9 DEF Balance
  <2>2. QED BY <1>8, <1>9, <2>1 DEF Balance, Known
<1>12. Settles(h, z)
  BY <1>9, ProcessSettles
<1>13. Len(z.buf) <= 3
  BY <1>12, WaitsShort DEF Settles
<1>14. QED BY <1>7, <1>11, <1>12, <1>13, <1>10 DEF Settles, Keeps

\* so does mag_frame_idle,
LEMMA QuietKeeps ==
    ASSUME NEW f \in Framers, Balance(f) = 0, Known(f), NEW probe \in BOOLEAN,
           NEW z, z = Quiet(f, probe)
    PROVE  /\ z \in Framers /\ Balance(z) = 0 /\ Known(z)
           /\ Fit(f) /\ Len(f.buf) <= 3 => Fit(z) /\ Len(z.buf) <= 3
<1> DEFINE g == IF probe /\ f.probing THEN held_drop(f) ELSE f
           n == Len(g.buf)
           u == unknown(g, n)
           s == "hunt"
           v == [u EXCEPT !.buf = <<>>, !.state = s]
<1>1. Passed(f, g, 0)
  <2>1. Passed(f, f, 0)
    BY FrFields DEF Passed
  <2>2. QED BY <2>1, DropPasses
<1>2. z = IF g.buf = <<>> THEN g ELSE v
  BY DEF Quiet
<1> HIDE DEF g
<1>3. g \in Framers /\ Known(g) /\ g.buf = f.buf
  BY <1>1 DEF Passed, Known
<1>4. Fit(f) => Fit(g)
  BY <1>1 DEF Passed, Fit, Recent
<1>5. Balance(g) = 0
  <2>1. /\ f.owed \in Int /\ g.owed \in Int /\ Total(f.held) \in Nat /\ Total(g.held) \in Nat
        /\ Len(f.buf) \in Nat
    BY <1>3, FrFields
  <2>2. g.owed - Total(g.held) = f.owed - Total(f.held) - 0 /\ g.buf = f.buf
    BY <1>1 DEF Passed
  <2>3. f.owed - Total(f.held) - Len(f.buf) = 0
    BY DEF Balance
  <2>4. g.owed - Total(g.held) - Len(f.buf) = 0
    BY ONLY <2>1, <2>2, <2>3
  <2>5. QED BY <2>2, <2>4 DEF Balance
<1>6. CASE g.buf = <<>>
  BY <1>2, <1>3, <1>5, <1>6, <1>4
<1>7. CASE g.buf # <<>>
  <2>1. n \in Nat
    BY <1>3, FrFields
  <2>2. Passed(g, u, n)
    BY <1>3, <2>1, UnknownPasses
  <2> HIDE DEF u
  <2>3. u \in Framers
    BY <2>2 DEF Passed
  <2>4. <<>> \in Seq(Bytes) /\ Len(<<>>) = 0 /\ s \in {"hunt", "after_inv", "after_remote"}
    OBVIOUS
  <2>5. /\ v \in Framers /\ v.buf = <<>> /\ v.owed = u.owed /\ v.held = u.held
        /\ v.have_id = u.have_id /\ v.model = u.model /\ v.since_inv = u.since_inv
    BY <2>3, <2>4 DEF Framers
  <2> HIDE DEF v
  <2>6. /\ u.owed \in Int /\ g.owed \in Int /\ Total(u.held) \in Nat /\ Total(g.held) \in Nat
    BY <1>3, <2>3, FrFields
  <2>7. u.owed - Total(u.held) = g.owed - Total(g.held) - n
    BY <2>2 DEF Passed
  <2>8. g.owed - Total(g.held) - n = 0
    BY <1>5 DEF Balance
  <2>9. u.owed - Total(u.held) - 0 = 0
    BY ONLY <2>6, <2>7, <2>8
  <2>10. Balance(v) = 0
    BY <2>4, <2>5, <2>9 DEF Balance
  <2>11. Known(v)
    BY <1>3, <2>2, <2>5 DEF Passed, Known
  <2>12. Fit(g) => Fit(v)
    BY <2>2, <2>5 DEF Passed, Fit, Small, Recent
  <2>13. Len(v.buf) <= 3
    BY <2>4, <2>5
  <2>14. QED BY <1>2, <1>7, <1>4, <2>5, <2>10, <2>11, <2>12, <2>13
<1>8. QED BY <1>6, <1>7

\* and opening the port anew starts them again.
LEMMA ResetIs ==
    ASSUME NEW f \in Framers,
           NEW g, g = [f EXCEPT !.buf = <<>>, !.state = "hunt", !.synced = FALSE,
                                !.since_inv = 0, !.probing = FALSE, !.probe = NoModel,
                                !.held = <<>>, !.owed = 0]
    PROVE  /\ g \in Framers /\ g.out = f.out /\ g.owed = 0 /\ g.held = <<>> /\ g.buf = <<>>
           /\ g.have_id = f.have_id /\ g.model = f.model /\ g.since_inv = 0
<1> DEFINE b == <<>>
           h == <<>>
           e == [f EXCEPT !.buf = b, !.state = "hunt", !.synced = FALSE, !.since_inv = 0]
           k == 0
<1>1. b \in Seq(Bytes) /\ h \in Seq(Packets) /\ k \in Int
  OBVIOUS
<1>2. g = [e EXCEPT !.probing = FALSE, !.probe = NoModel, !.held = h, !.owed = k]
  OBVIOUS
<1> HIDE DEF b, h, k
<1>3. /\ e \in Framers /\ e.buf = b /\ e.out = f.out /\ e.have_id = f.have_id
      /\ e.model = f.model /\ e.since_inv = 0
  BY ONLY <1>1, f \in Framers DEF Framers
<1> HIDE DEF e
<1>4. /\ g \in Framers /\ g.out = e.out /\ g.owed = k /\ g.held = h /\ g.buf = e.buf
      /\ g.have_id = e.have_id /\ g.model = e.model /\ g.since_inv = e.since_inv
  BY ONLY <1>1, <1>2, <1>3 DEF Framers
<1>5. QED BY <1>3, <1>4 DEF b, h, k

\* Every call keeps them.
LEMMA FrKeeps == FrInv /\ [FrNext]_fr_vars => FrInv'
<1> SUFFICES ASSUME FrInv, [FrNext]_fr_vars PROVE FrInv'
  OBVIOUS
<1>1. fr \in Framers /\ Balance(fr) = 0 /\ Known(fr) /\ fr.out = <<>> /\ Bounded(fr)
  BY DEF FrInv
<1>2. Fit(fr) /\ Len(fr.buf) <= 3
  BY <1>1 DEF Bounded, Fit, Recent
<1>3. ASSUME mag_frame_feed PROVE FrInv'
  <2>1. PICK b \in Bytes : fr' = Done(Feed(fr, <<b>>))
    BY <1>3 DEF mag_frame_feed
  <2> DEFINE z == Feed(fr, <<b>>)
  <2>2. z \in Framers /\ Balance(z) = 0 /\ Known(z) /\ Fit(z) /\ Len(z.buf) <= 3
    BY <1>1, <1>2, OneByte, FeedKeeps DEF Fit
  <2> HIDE DEF z
  <2>3. fr' = Done(z)
    BY <2>1 DEF z
  <2>4. /\ fr' \in Framers /\ fr'.out = <<>> /\ Balance(fr') = 0 /\ Known(fr')
        /\ Bounded(fr')
    BY <2>2, <2>3, DoneKeeps
  <2>5. QED BY <2>4 DEF FrInv, Balance, Known, Bounded, Small
<1>4. ASSUME mag_frame_idle PROVE FrInv'
  <2>1. PICK probe \in BOOLEAN : fr' = Done(Quiet(fr, probe))
    BY <1>4 DEF mag_frame_idle
  <2> DEFINE z == Quiet(fr, probe)
  <2>2. z \in Framers /\ Balance(z) = 0 /\ Known(z) /\ Fit(z) /\ Len(z.buf) <= 3
    BY <1>1, <1>2, QuietKeeps
  <2> HIDE DEF z
  <2>3. fr' = Done(z)
    BY <2>1 DEF z
  <2>4. /\ fr' \in Framers /\ fr'.out = <<>> /\ Balance(fr') = 0 /\ Known(fr')
        /\ Bounded(fr')
    BY <2>2, <2>3, DoneKeeps
  <2>5. QED BY <2>4 DEF FrInv, Balance, Known, Bounded, Small
<1>5. ASSUME mag_frame_reset_stream PROVE FrInv'
  <2>1. fr' = [fr EXCEPT !.buf = <<>>, !.state = "hunt", !.synced = FALSE, !.since_inv = 0,
                         !.probing = FALSE, !.probe = NoModel, !.held = <<>>, !.owed = 0]
    BY <1>5 DEF mag_frame_reset_stream
  <2>3. /\ fr' \in Framers /\ fr'.out = <<>> /\ fr'.owed = 0 /\ fr'.held = <<>> /\ fr'.buf = <<>>
        /\ fr'.have_id = fr.have_id /\ fr'.model = fr.model /\ fr'.since_inv = 0
    BY <1>1, <2>1, ResetIs
  <2>4. Balance(fr') = 0
    BY <2>3, NothingOwed
  <2>5. Known(fr')
    BY <1>1, <2>3 DEF Known
  <2>6. Len(fr'.held) = 0 /\ Len(fr'.buf) = 0
    BY <2>3
  <2>7. Bounded(fr')
    BY <2>3, <2>6, FrAssumption DEF Bounded, Small
  <2>8. QED BY <2>3, <2>4, <2>5, <2>7 DEF FrInv, Balance, Known, Bounded, Small
<1>6. ASSUME UNCHANGED fr_vars PROVE FrInv'
  BY <1>6 DEF fr_vars, FrInv, Balance, Known, Bounded, Small
<1>7. QED BY <1>3, <1>4, <1>5, <1>6 DEF FrNext

\* The types.
LEMMA FrTyped == FrInv => FrTypeOK
BY FrFields DEF FrInv, FrTypeOK, Bounded, Small, MAG_REMOTE_LEN, Framers

\* The accounts, and that two bytes are passed on the same together as one by one.
LEMMA FrExact == FrInv => Accounted /\ ChunksDoNotMatter
<1> SUFFICES ASSUME FrInv PROVE Accounted /\ ChunksDoNotMatter
  OBVIOUS
<1>1. fr \in Framers /\ Balance(fr) = 0 /\ Known(fr)
  BY DEF FrInv
<1>2. fr.owed \in Int /\ Total(fr.held) \in Nat /\ Len(fr.buf) \in Nat /\ fr.since_inv \in Nat
  BY <1>1, FrFields
<1>3. Accounted
  <2>1. fr.owed - Total(fr.held) - Len(fr.buf) = 0
    BY <1>1 DEF Balance
  <2>2. fr.owed = Len(fr.buf) + Total(fr.held)
    BY ONLY <1>2, <2>1
  <2>3. QED BY <2>2 DEF Accounted
<1>4. ASSUME fr.since_inv + 2 <= MAG_RELEARN_BYTES, NEW b \in Bytes, NEW c \in Bytes
      PROVE  Seen(Feed(Feed(fr, <<b>>), <<c>>)) = Seen(Feed(fr, <<b, c>>))
  <2> DEFINE s == fr.since_inv
             x == Lengthen(fr, <<b>>, s + 1)
             p == process[x]
             y == Lengthen(x, <<c>>, s + 2)
  <2>1. Len(<<b>>) = 1 /\ Len(<<c>>) = 1 /\ Len(<<b, c>>) = 2 /\ <<b, c>> \in Seq(Bytes)
    OBVIOUS
  <2>2. s + 1 \in Nat /\ s + 2 \in Nat /\ s + 1 <= MAG_RELEARN_BYTES /\ s + 2 <= MAG_RELEARN_BYTES
    BY <1>2, <1>4, FrAssumption
  <2>3. Feed(fr, <<b>>) = p
    <3> DEFINE t == <<b>>
    <3>1. t \in Seq(Bytes) /\ Len(t) = 1
      BY <2>1, OneByte
    <3> HIDE DEF t
    <3>2. fr.since_inv + Len(t) = s + 1
      BY <3>1
    <3>3. fr.since_inv + Len(t) <= MAG_RELEARN_BYTES
      BY <2>2, <3>2
    <3>4. Feed(fr, t) = process[Lengthen(fr, t, fr.since_inv + Len(t))]
      BY <1>1, <3>1, <3>3, CallIs
    <3>5. QED BY <3>2, <3>4 DEF t
  <2>4. Feed(fr, <<b, c>>) = process[Lengthen(fr, <<b, c>>, s + 2)]
    <3> DEFINE t == <<b, c>>
    <3>1. t \in Seq(Bytes) /\ Len(t) = 2
      BY <2>1
    <3> HIDE DEF t
    <3>2. fr.since_inv + Len(t) = s + 2
      BY <3>1
    <3>3. fr.since_inv + Len(t) <= MAG_RELEARN_BYTES
      BY <2>2, <3>2
    <3>4. Feed(fr, t) = process[Lengthen(fr, t, fr.since_inv + Len(t))]
      BY <1>1, <3>1, <3>3, CallIs
    <3>5. QED BY <3>2, <3>4 DEF t
  <2>5. y = Lengthen(fr, <<b, c>>, s + 2)
    BY <1>1, <2>2, LongerTwice
  <2>6. x \in Framers /\ x.since_inv = s + 1 /\ Known(x)
    <3> DEFINE t == <<b>>
               r == s + 1
    <3>1. t \in Seq(Bytes) /\ r \in Nat
      BY <2>2, OneByte
    <3>2. x = Lengthen(fr, t, r)
      OBVIOUS
    <3> HIDE DEF t, r, x
    <3>3. x \in Framers /\ x.have_id = fr.have_id /\ x.model = fr.model /\ x.since_inv = r
      BY ONLY <1>1, <3>1, <3>2, LongerFields
    <3>4. QED BY <1>1, <3>3 DEF Known, r
  <2> HIDE DEF x
  <2>7. Settles(x, p)
    BY <2>6, ProcessSettles
  <2> HIDE DEF p
  <2>8. p \in Framers /\ Known(p) /\ p.since_inv <= s + 1
    BY <2>6, <2>7 DEF Settles, Keeps
  <2> DEFINE q == p.since_inv + 1
  <2>9. q \in Nat /\ q <= MAG_RELEARN_BYTES
    <3>1. p.since_inv \in Nat
      BY <2>8, FrFields
    <3> DEFINE R == MAG_RELEARN_BYTES
    <3>2. R \in Nat /\ s \in Nat /\ s + 2 <= R
      BY <1>2, <2>2, FrAssumption
    <3> HIDE DEF R, s
    <3>3. p.since_inv + 1 <= R
      BY ONLY <2>8, <3>1, <3>2
    <3>4. QED BY <3>1, <3>3 DEF R
  <2>10. Feed(p, <<c>>) = process[Lengthen(p, <<c>>, q)]
    <3> DEFINE t == <<c>>
    <3>1. t \in Seq(Bytes) /\ Len(t) = 1
      BY <2>1, OneByte
    <3> HIDE DEF t
    <3>2. p.since_inv + Len(t) = q
      BY <3>1
    <3>3. p.since_inv + Len(t) <= MAG_RELEARN_BYTES
      BY <2>9, <3>2
    <3>4. Feed(p, t) = process[Lengthen(p, t, p.since_inv + Len(t))]
      BY <2>8, <3>1, <3>3, CallIs
    <3>5. QED BY <3>2, <3>4 DEF t
  <2>11. Late(x)
    BY <2>6, LateByte
  <2> DEFINE r == s + 2
  <2>12. r \in Nat
    BY <2>2
  <2> HIDE DEF q, r
  <2>13. Seen(process[Lengthen(p, <<c>>, q)]) = Seen(process[Lengthen(x, <<c>>, r)])
    BY <2>9, <2>11, <2>12 DEF Late, p
  <2>14. QED BY <2>3, <2>4, <2>5, <2>10, <2>13 DEF r
<1>5. QED BY <1>3, <1>4 DEF ChunksDoNotMatter

----------------------------------------------------------------------------
(* The parts together. *)

\* What a framer and an assembler pass on and keep does not depend on how the
\* bytes were split between reads, and no byte is lost or passed on twice
\* (mag_frame_feed, mag_frame_idle, jk_assembler_feed).
THEOREM FramingExactHolds == Spec => []FramingExact
<1>1. Init => FrInv /\ AsmInv
  BY FrStarts, AsmStarts DEF Init
<1>2. FrInv /\ AsmInv /\ [Next]_vars => (FrInv /\ AsmInv)'
  <2> SUFFICES ASSUME FrInv, AsmInv, [Next]_vars
               PROVE  FrInv' /\ AsmInv'
    OBVIOUS
  <2>1. [FrNext]_fr_vars /\ [AsmNext]_asm_vars
    <3>1. CASE Only("frame") /\ FrNext
      BY <3>1 DEF Only
    <3>2. CASE Only("assembler") /\ AsmNext
      BY <3>2 DEF Only, fr_vars
    <3>3. CASE UNCHANGED vars
      BY <3>3 DEF vars, fr_vars, asm_vars
    <3>4. CASE /\ \E p \in {"textbelt", "weather", "discover", "classic", "xd", "magnum", "tui",
                            "jk", "phantom", "threads", "marks"} : Only(p)
      BY <3>4 DEF Only, fr_vars
    <3> QED
      BY <3>1, <3>2, <3>3, <3>4 DEF Next
  <2> QED
    BY <2>1, FrKeeps, AsmKeeps
<1>3. FrInv /\ AsmInv => FramingExact
  BY FrExact, AsmExact DEF FramingExact
<1> QED
  BY <1>1, <1>2, <1>3, PTL DEF Spec
=============================================================================
