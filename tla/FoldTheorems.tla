----------------------------- MODULE FoldTheorems -----------------------------
(***************************************************************************)
(* Facts about folds, for the proofs about stock, periods, counts and      *)
(* sales: sums over finite sets (FiniteSetsExt!MapThenSumSet), and the     *)
(* values a fold over a sequence (SequencesExt!FoldLeft) goes through.     *)
(* What is summed, and what a fold does at each place, is given as a       *)
(* function, so that each fact is about values alone.                      *)
(***************************************************************************)
EXTENDS Integers, FiniteSetsExt, FiniteSetTheorems, WellFoundedInduction, TLAPS

\* The sum of f[x] over the x in S.
Total(f, S) == MapThenSumSet(LAMBDA x : f[x], S)

\* A family of subsets of a finite set has a member that contains no other one:
\* what must hold for a finite set if it holds for its proper subsets, holds.
LEMMA MinimalSet ==
  ASSUME NEW S, IsFiniteSet(S), NEW F, F \subseteq SUBSET S, F # {}
  PROVE  \E T \in F : \A U \in F : U \subseteq T => U = T
<1>1. IsWellFoundedOn(StrictSubsetOrdering(S), FiniteSubsetsOf(S))
  BY FS_StrictSubsetOrderingWellFounded
<1>2. F \subseteq FiniteSubsetsOf(S)
  BY FS_FiniteSubsetsOfFinite
<1>3. PICK T \in F : \A U \in F : <<U, T>> \notin StrictSubsetOrdering(S)
  BY <1>1, <1>2, WFMin
<1>. QED  BY <1>3 DEF StrictSubsetOrdering

LEMMA LeastNatural ==
  ASSUME NEW S \in SUBSET Nat, S # {}
  PROVE  \E m \in S : \A k \in S : m <= k
<1>1. PICK m \in S : \A k \in S : <<k, m>> \notin OpToRel(<, Nat)
  BY NatLessThanWellFounded, WFMin
<1>2. \A k \in S : k \in Nat /\ m \in Nat /\ ~(k < m)
  BY <1>1 DEF OpToRel
<1>. QED  BY <1>2

\* What holds of 0, and of each number if it holds of the one before, holds up to N.
LEMMA UpTo ==
  ASSUME NEW N \in Nat, NEW S, 0 \in S, \A i \in 1..N : i - 1 \in S => i \in S
  PROVE  \A i \in 0..N : i \in S
<1> DEFINE F == (0..N) \ S
<1> SUFFICES ASSUME F # {} PROVE FALSE
  OBVIOUS
<1>0. F \in SUBSET Nat
  OBVIOUS
<1>1. PICK n \in F : \A k \in F : n <= k
  <2> HIDE DEF F
  <2>. QED  BY <1>0, LeastNatural
<1>2. n \in 1..N /\ n - 1 \in 0..N
  OBVIOUS
<1>3. n - 1 \in S
  <2>1. n - 1 \in F => n <= n - 1
    BY <1>1
  <2>. QED  BY <1>2, <2>1
<1>. QED  BY <1>2, <1>3

----------------------------------------------------------------------------
(* The equation of a sum *)

Pick(s) == CHOOSE x \in s : TRUE

\* g holds the sums over the subsets of S.
Sums(f, S, g) ==
  g = [s \in SUBSET S |-> IF s = {} THEN 0 ELSE f[Pick(s)] + g[s \ {Pick(s)}]]

LEMMA PickIn ==
  ASSUME NEW S, S # {}
  PROVE  Pick(S) \in S
BY DEF Pick

LEMMA TotalSums ==
  ASSUME NEW f, NEW S
  PROVE  Total(f, S) = (CHOOSE g : Sums(f, S, g))[S]
BY DEF Total, MapThenSumSet, MapThenFoldSet, Sums, Pick

LEMMA SumsAt ==
  ASSUME NEW f, NEW S, NEW g, Sums(f, S, g), NEW s \in SUBSET S
  PROVE  g[s] = IF s = {} THEN 0 ELSE f[Pick(s)] + g[s \ {Pick(s)}]
<1> DEFINE body(h) == [r \in SUBSET S |-> IF r = {} THEN 0 ELSE f[Pick(r)] + h[r \ {Pick(r)}]]
<1>1. g = body(g)
  BY DEF Sums
<1>2. body(g)[s] = IF s = {} THEN 0 ELSE f[Pick(s)] + g[s \ {Pick(s)}]
  OBVIOUS
<1>. QED  BY <1>1, <1>2

\* Two such functions agree where both are defined.
LEMMA SumsAgree ==
  ASSUME NEW f, NEW S, NEW R, NEW g, NEW h, Sums(f, S, g), Sums(f, R, h),
         NEW s \in (SUBSET S) \cap (SUBSET R), IsFiniteSet(s)
  PROVE  g[s] = h[s]
<1> DEFINE F == {r \in SUBSET s : g[r] # h[r]}
<1> SUFFICES ASSUME F # {} PROVE FALSE
  OBVIOUS
<1>0. F \subseteq SUBSET s
  OBVIOUS
<1>1. PICK T \in F : \A U \in F : U \subseteq T => U = T
  <2> HIDE DEF F
  <2>. QED  BY <1>0, MinimalSet
<1>2. T \subseteq S /\ T \subseteq R /\ g[T] # h[T]
  OBVIOUS
<1>3. T # {} => T \ {Pick(T)} \notin F
  BY <1>1, PickIn
<1>4. T # {} => g[T \ {Pick(T)}] = h[T \ {Pick(T)}]
  BY <1>3
<1>5. /\ g[T] = IF T = {} THEN 0 ELSE f[Pick(T)] + g[T \ {Pick(T)}]
      /\ h[T] = IF T = {} THEN 0 ELSE f[Pick(T)] + h[T \ {Pick(T)}]
  BY <1>2, SumsAt
<1>. QED  BY <1>2, <1>4, <1>5

LEMMA SumsExist ==
  ASSUME NEW f, NEW S, IsFiniteSet(S)
  PROVE  \E g : Sums(f, S, g)
<1> DEFINE F == {s \in SUBSET S : ~\E g : Sums(f, s, g)}
<1> SUFFICES ASSUME F # {} PROVE FALSE
  OBVIOUS
<1>0. F \subseteq SUBSET S
  OBVIOUS
<1>1. PICK T \in F : \A U \in F : U \subseteq T => U = T
  <2> HIDE DEF F
  <2>. QED  BY <1>0, MinimalSet
<1> DEFINE Of(s) == CHOOSE g : Sums(f, s, g)
<1>2. ASSUME NEW s \in SUBSET T, s # T
      PROVE  Sums(f, s, Of(s)) /\ IsFiniteSet(s)
  <2>1. s \notin F /\ s \in SUBSET S
    BY <1>1, <1>2
  <2>. QED  BY <2>1, FS_Subset
<1> DEFINE rest(s) == s \ {Pick(s)}
           g == [s \in SUBSET T |-> IF s = {} THEN 0 ELSE f[Pick(s)] + Of(rest(s))[rest(s)]]
<1>3. ASSUME NEW s \in SUBSET T, s # {}
      PROVE  g[rest(s)] = Of(rest(s))[rest(s)]
  <2> DEFINE u == rest(s)
  <2>1. u \in SUBSET T /\ u # T
    BY <1>3, PickIn
  <2>2. Sums(f, u, Of(u))
    BY <1>2, <2>1
  <2>3. Of(u)[u] = IF u = {} THEN 0 ELSE f[Pick(u)] + Of(u)[rest(u)]
    <3> HIDE DEF u, Of
    <3>. QED  BY <2>2, SumsAt
  <2>4. u # {} => Of(u)[rest(u)] = Of(rest(u))[rest(u)]
    <3> SUFFICES ASSUME u # {} PROVE Of(u)[rest(u)] = Of(rest(u))[rest(u)]
      OBVIOUS
    <3>1. rest(u) \in SUBSET T /\ rest(u) # T /\ rest(u) \in SUBSET u
      BY <2>1
    <3>2. Sums(f, rest(u), Of(rest(u))) /\ IsFiniteSet(rest(u))
      BY <1>2, <3>1
    <3> HIDE DEF u, Of, rest
    <3>. QED  BY <2>2, <3>1, <3>2, SumsAgree
  <2>5. g[u] = IF u = {} THEN 0 ELSE f[Pick(u)] + Of(rest(u))[rest(u)]
    BY <2>1
  <2>. QED  BY <2>3, <2>4, <2>5
<1>4. Sums(f, T, g)
  <2> HIDE DEF Of
  <2>1. \A s \in SUBSET T : s # {} => g[s \ {Pick(s)}] = Of(rest(s))[rest(s)]
    BY <1>3
  <2>. QED  BY <2>1 DEF Sums
<1>. QED  BY <1>1, <1>4

LEMMA TotalStep ==
  ASSUME NEW f, NEW S, IsFiniteSet(S), S # {}
  PROVE  Total(f, S) = f[Pick(S)] + Total(f, S \ {Pick(S)})
<1> DEFINE Of(s) == CHOOSE g : Sums(f, s, g)
           rest == S \ {Pick(S)}
<1>1. IsFiniteSet(rest)
  BY FS_Subset
<1>2. Sums(f, S, Of(S)) /\ Sums(f, rest, Of(rest))
  BY <1>1, SumsExist
<1>3. Total(f, S) = Of(S)[S] /\ Total(f, rest) = Of(rest)[rest]
  BY TotalSums
<1> HIDE DEF Of
<1>4. Of(S)[rest] = Of(rest)[rest]
  BY <1>1, <1>2, SumsAgree
<1>5. Of(S)[S] = f[Pick(S)] + Of(S)[rest]
  BY <1>2, SumsAt
<1>. QED  BY <1>3, <1>4, <1>5

----------------------------------------------------------------------------
(* What sums are *)

LEMMA TotalEmpty ==
  ASSUME NEW f
  PROVE  Total(f, {}) = 0
<1>1. PICK g : Sums(f, {}, g)
  BY SumsExist, FS_EmptySet
<1>2. Sums(f, {}, CHOOSE h : Sums(f, {}, h))
  BY <1>1
<1>. QED  BY <1>2, SumsAt, TotalSums

LEMMA TotalType ==
  ASSUME NEW S, IsFiniteSet(S), NEW f, \A x \in S : f[x] \in Int
  PROVE  Total(f, S) \in Int
<1> DEFINE F == {s \in SUBSET S : Total(f, s) \notin Int}
<1> SUFFICES ASSUME F # {} PROVE FALSE
  OBVIOUS
<1>0. F \subseteq SUBSET S
  OBVIOUS
<1>1. PICK T \in F : \A U \in F : U \subseteq T => U = T
  <2> HIDE DEF F
  <2>. QED  BY <1>0, MinimalSet
<1>2. T \subseteq S /\ IsFiniteSet(T) /\ T # {}
  <2>1. Total(f, {}) \in Int
    BY TotalEmpty
  <2>. QED  BY <2>1, FS_Subset
<1>3. Pick(T) \in T /\ T \ {Pick(T)} \notin F
  BY <1>1, <1>2, PickIn
<1>4. f[Pick(T)] \in Int /\ Total(f, T \ {Pick(T)}) \in Int
  BY <1>2, <1>3
<1>5. Total(f, T) = f[Pick(T)] + Total(f, T \ {Pick(T)})
  BY <1>2, TotalStep
<1>. QED  BY <1>4, <1>5

\* Summands that are not negative do not make a sum negative.
LEMMA TotalNat ==
  ASSUME NEW S, IsFiniteSet(S), NEW f, \A x \in S : f[x] \in Nat
  PROVE  Total(f, S) \in Nat
<1> DEFINE F == {s \in SUBSET S : Total(f, s) \notin Nat}
<1> SUFFICES ASSUME F # {} PROVE FALSE
  OBVIOUS
<1>0. F \subseteq SUBSET S
  OBVIOUS
<1>1. PICK T \in F : \A U \in F : U \subseteq T => U = T
  <2> HIDE DEF F
  <2>. QED  BY <1>0, MinimalSet
<1>2. T \subseteq S /\ IsFiniteSet(T) /\ T # {}
  <2>1. Total(f, {}) \in Nat
    BY TotalEmpty
  <2>. QED  BY <2>1, FS_Subset
<1>3. Pick(T) \in T /\ T \ {Pick(T)} \notin F
  BY <1>1, <1>2, PickIn
<1>4. f[Pick(T)] \in Nat /\ Total(f, T \ {Pick(T)}) \in Nat
  BY <1>2, <1>3
<1>5. Total(f, T) = f[Pick(T)] + Total(f, T \ {Pick(T)})
  BY <1>2, TotalStep
<1>. QED  BY <1>4, <1>5

\* Any element may be taken off: the order in which a sum is taken does not matter.
LEMMA TotalOff ==
  ASSUME NEW S, IsFiniteSet(S), NEW f, \A x \in S : f[x] \in Int, NEW e \in S
  PROVE  Total(f, S) = f[e] + Total(f, S \ {e})
<1> DEFINE F == {s \in SUBSET S : \E x \in s : Total(f, s) # f[x] + Total(f, s \ {x})}
<1> SUFFICES ASSUME F # {} PROVE FALSE
  OBVIOUS
<1>0. F \subseteq SUBSET S
  OBVIOUS
<1>1. PICK T \in F : \A U \in F : U \subseteq T => U = T
  <2> HIDE DEF F
  <2>. QED  BY <1>0, MinimalSet
<1>2. PICK x \in T : Total(f, T) # f[x] + Total(f, T \ {x})
  OBVIOUS
<1> DEFINE y == Pick(T)
<1>3. T \subseteq S /\ IsFiniteSet(T) /\ y \in T
  BY <1>2, FS_Subset, PickIn
<1>4. Total(f, T) = f[y] + Total(f, T \ {y})
  BY <1>3, TotalStep
<1> HIDE DEF y
<1>5. x # y
  BY <1>2, <1>4
<1>6. T \ {y} \notin F /\ T \ {x} \notin F
  BY <1>1, <1>2, <1>3
<1>7. /\ Total(f, T \ {y}) = f[x] + Total(f, (T \ {y}) \ {x})
      /\ Total(f, T \ {x}) = f[y] + Total(f, (T \ {x}) \ {y})
  BY <1>2, <1>3, <1>5, <1>6
<1> DEFINE R == (T \ {x}) \ {y}
<1>8. (T \ {y}) \ {x} = R /\ IsFiniteSet(R)
  BY <1>3, FS_Subset
<1>9. f[x] \in Int /\ f[y] \in Int /\ Total(f, R) \in Int
  BY <1>3, <1>8, TotalType
<1>10. /\ Total(f, T \ {y}) = f[x] + Total(f, R)
       /\ Total(f, T \ {x}) = f[y] + Total(f, R)
  BY <1>7, <1>8
<1> HIDE DEF R, F
<1>. QED  BY <1>2, <1>4, <1>9, <1>10

\* A sum depends on what is summed alone.
LEMMA TotalSame ==
  ASSUME NEW S, IsFiniteSet(S), NEW f, NEW g, \A x \in S : f[x] = g[x]
  PROVE  Total(f, S) = Total(g, S)
<1> DEFINE F == {s \in SUBSET S : Total(f, s) # Total(g, s)}
<1> SUFFICES ASSUME F # {} PROVE FALSE
  OBVIOUS
<1>0. F \subseteq SUBSET S
  OBVIOUS
<1>1. PICK T \in F : \A U \in F : U \subseteq T => U = T
  <2> HIDE DEF F
  <2>. QED  BY <1>0, MinimalSet
<1>2. T \subseteq S /\ IsFiniteSet(T) /\ T # {}
  BY FS_Subset, TotalEmpty
<1>3. Pick(T) \in T /\ T \ {Pick(T)} \notin F
  BY <1>1, <1>2, PickIn
<1>4. f[Pick(T)] = g[Pick(T)] /\ Total(f, T \ {Pick(T)}) = Total(g, T \ {Pick(T)})
  BY <1>2, <1>3
<1>5. /\ Total(f, T) = f[Pick(T)] + Total(f, T \ {Pick(T)})
      /\ Total(g, T) = g[Pick(T)] + Total(g, T \ {Pick(T)})
  BY <1>2, TotalStep
<1>. QED  BY <1>4, <1>5

\* The sum of sums.
LEMMA TotalPlus ==
  ASSUME NEW S, IsFiniteSet(S), NEW f, NEW g, NEW h,
         \A x \in S : f[x] \in Int /\ g[x] \in Int /\ h[x] = f[x] + g[x]
  PROVE  Total(h, S) = Total(f, S) + Total(g, S)
<1> DEFINE F == {s \in SUBSET S : Total(h, s) # Total(f, s) + Total(g, s)}
<1> SUFFICES ASSUME F # {} PROVE FALSE
  OBVIOUS
<1>0. F \subseteq SUBSET S
  OBVIOUS
<1>1. PICK T \in F : \A U \in F : U \subseteq T => U = T
  <2> HIDE DEF F
  <2>. QED  BY <1>0, MinimalSet
<1>2. T \subseteq S /\ IsFiniteSet(T) /\ T # {}
  <2>1. Total(h, {}) = Total(f, {}) + Total(g, {})
    BY TotalEmpty
  <2>. QED  BY <2>1, FS_Subset
<1> DEFINE y == Pick(T)
           R == T \ {y}
<1>3. y \in T /\ R \notin F /\ R \in SUBSET S /\ IsFiniteSet(R)
  BY <1>1, <1>2, PickIn, FS_Subset
<1>4. h[y] = f[y] + g[y] /\ Total(h, R) = Total(f, R) + Total(g, R)
  BY <1>2, <1>3
<1>5. /\ Total(f, T) = f[y] + Total(f, R)
      /\ Total(g, T) = g[y] + Total(g, R)
      /\ Total(h, T) = h[y] + Total(h, R)
  BY <1>2, TotalStep
<1>6. f[y] \in Int /\ g[y] \in Int /\ Total(f, R) \in Int /\ Total(g, R) \in Int
  BY <1>2, <1>3, TotalType
<1> HIDE DEF y, R
<1>. QED  BY <1>4, <1>5, <1>6

\* Zeros add nothing.
LEMMA TotalZeros ==
  ASSUME NEW S, IsFiniteSet(S), NEW R \in SUBSET S, NEW f,
         \A x \in S : f[x] \in Int, \A x \in S \ R : f[x] = 0
  PROVE  Total(f, S) = Total(f, R)
<1> DEFINE F == {s \in SUBSET S : R \subseteq s /\ Total(f, s) # Total(f, R)}
<1> SUFFICES ASSUME F # {} PROVE FALSE
  OBVIOUS
<1>0. F \subseteq SUBSET S
  OBVIOUS
<1>1. PICK T \in F : \A U \in F : U \subseteq T => U = T
  <2> HIDE DEF F
  <2>. QED  BY <1>0, MinimalSet
<1>2. T \subseteq S /\ IsFiniteSet(T) /\ R \subseteq T /\ Total(f, T) # Total(f, R)
  BY FS_Subset
<1>3. PICK y : y \in T \ R
  BY <1>2
<1>4. Total(f, T) = f[y] + Total(f, T \ {y})
  BY <1>2, <1>3, TotalOff
<1>5. f[y] = 0 /\ Total(f, T \ {y}) = Total(f, R)
  BY <1>1, <1>2, <1>3
<1>6. Total(f, R) \in Int
  BY <1>2, FS_Subset, TotalType
<1>. QED  BY <1>2, <1>4, <1>5, <1>6

LEMMA TotalSingle ==
  ASSUME NEW f, NEW e, f[e] \in Int
  PROVE  Total(f, {e}) = f[e]
<1>1. IsFiniteSet({e}) /\ Pick({e}) = e /\ {e} \ {e} = {}
  BY FS_Singleton, PickIn
<1>. QED  BY <1>1, TotalStep, TotalEmpty

----------------------------------------------------------------------------
(* Folds over sequences *)

LEMMA MaxIn ==
  ASSUME NEW n \in Nat, NEW r \in SUBSET (1..n), r # {}
  PROVE  Max(r) \in r /\ \A x \in r : x <= Max(r)
<1> DEFINE below == {n - x : x \in r}
<1>1. below \in SUBSET Nat /\ below # {}
  <2>1. \A x \in r : n - x \in Nat
    OBVIOUS
  <2>. QED  BY <2>1
<1>2. PICK m \in below : \A k \in below : m <= k
  <2> HIDE DEF below
  <2>. QED  BY <1>1, LeastNatural
<1>3. PICK x \in r : m = n - x
  OBVIOUS
<1>4. ASSUME NEW y \in r PROVE x >= y
  <2>1. m <= n - y
    BY <1>2
  <2>2. r \subseteq Int
    OBVIOUS
  <2>3. x \in Int /\ y \in Int
    BY <2>2
  <2>. QED  BY <1>3, <2>1, <2>3
<1>5. Max(r) \in r /\ \A y \in r : Max(r) >= y
  BY <1>4 DEF Max
<1>. QED  BY <1>5

\* The places up to i, as a fold takes them apart.
LEMMA PlacesUpTo ==
  ASSUME NEW N \in Nat, NEW i \in 1..N
  PROVE  /\ 1..i \in SUBSET (1..N) /\ 1..i # {}
         /\ Max(1..i) = i
         /\ (1..i) \ {i} = 1..(i-1)
<1> DEFINE r == 1..i
<1>1. i \in Nat /\ i \in r /\ r \in SUBSET (1..i) /\ r # {}
  OBVIOUS
<1>2. Max(r) \in r /\ i <= Max(r)
  <2> HIDE DEF r
  <2>. QED  BY <1>1, MaxIn
<1>. QED  BY <1>1, <1>2

\* g holds the values a fold with these steps gives at each set of places.
Runs(base, step, D, g) ==
  g = [r \in SUBSET D |-> IF r = {} THEN base ELSE step[<<g[r \ {Max(r)}], Max(r)>>]]

\* A fold whose steps stay in U has a value in U everywhere.
LEMMA RunsExist ==
  ASSUME NEW U, NEW base \in U, NEW N \in Nat, NEW step \in [U \X (1..N) -> U]
  PROVE  \E g \in [SUBSET (1..N) -> U] : Runs(base, step, 1..N, g)
<1> DEFINE Has(n) == \E g \in [SUBSET (1..n) -> U] : Runs(base, step, 1..n, g)
           F == {n \in 0..N : ~Has(n)}
<1> SUFFICES ASSUME F # {} PROVE FALSE
  <2>1. N \in 0..N
    OBVIOUS
  <2> HIDE DEF Has
  <2>2. F = {} => Has(N)
    BY <2>1
  <2>. QED  BY <2>2 DEF Has
<1>0. F \in SUBSET Nat
  OBVIOUS
<1>1. PICK n \in F : \A k \in F : n <= k
  <2> HIDE DEF F
  <2>. QED  BY <1>0, LeastNatural
<1>2. CASE n = 0
  <2> DEFINE g == [r \in SUBSET (1..0) |-> base]
  <2>1. SUBSET (1..0) = {{}}
    OBVIOUS
  <2>2. g \in [SUBSET (1..0) -> U] /\ Runs(base, step, 1..0, g)
    BY <2>1 DEF Runs
  <2>. QED  BY <1>2, <2>2
<1>3. CASE n # 0
  <2>1. n \in 1..N /\ n - 1 \in 0..N /\ n - 1 \notin F
    <3>1. n \in 0..N
      BY <1>1
    <3> HIDE DEF F
    <3>2. n - 1 \in F => n <= n - 1
      BY <1>1
    <3>. QED  BY <1>3, <3>1, <3>2
  <2>2. PICK h \in [SUBSET (1..(n-1)) -> U] : Runs(base, step, 1..(n-1), h)
    BY <2>1
  <2> DEFINE below(r) == r \ {n}
             g == [r \in SUBSET (1..n) |-> IF n \in r THEN step[<<h[below(r)], n>>] ELSE h[r]]
  <2>3. ASSUME NEW r \in SUBSET (1..n)
        PROVE  /\ below(r) \in SUBSET (1..(n-1))
               /\ n \in r => Max(r) = n
               /\ n \notin r => r \in SUBSET (1..(n-1))
    <3>1. n \in r => Max(r) \in 1..n /\ n <= Max(r)
      <4>1. n \in Nat /\ (n \in r => r # {})
        BY <2>1
      <4>. QED  BY <4>1, MaxIn
    <3>2. \A x \in 1..n : x # n => x \in 1..(n-1)
      BY <2>1
    <3>. QED  BY <2>1, <3>1, <3>2
  <2>4. g \in [SUBSET (1..n) -> U]
    <3>1. ASSUME NEW r \in SUBSET (1..n) PROVE g[r] \in U
      BY <2>1, <2>2, <2>3
    <3>. QED  BY <3>1
  <2>5. ASSUME NEW r \in SUBSET (1..n)
        PROVE  g[r] = IF r = {} THEN base ELSE step[<<g[r \ {Max(r)}], Max(r)>>]
    <3>1. CASE n \in r
      <4>1. Max(r) = n /\ below(r) \in SUBSET (1..n)
        BY <2>3, <3>1
      <4>2. g[below(r)] = h[below(r)]
        BY <4>1
      <4>. QED  BY <3>1, <4>1, <4>2
    <3>2. CASE n \notin r
      <4>1. r \in SUBSET (1..(n-1)) /\ g[r] = h[r]
        BY <2>3, <3>2
      <4>2. h[r] = IF r = {} THEN base ELSE step[<<h[r \ {Max(r)}], Max(r)>>]
        <5> DEFINE body(f) == [s \in SUBSET (1..(n-1)) |->
                      IF s = {} THEN base ELSE step[<<f[s \ {Max(s)}], Max(s)>>]]
        <5>1. h = body(h)
          BY <2>2 DEF Runs
        <5>2. body(h)[r] = IF r = {} THEN base ELSE step[<<h[r \ {Max(r)}], Max(r)>>]
          BY <4>1
        <5>. QED  BY <5>1, <5>2
      <4>3. r \ {Max(r)} \in SUBSET (1..n) /\ n \notin r \ {Max(r)}
        BY <3>2
      <4>4. g[r \ {Max(r)}] = h[r \ {Max(r)}]
        BY <4>3
      <4>. QED  BY <4>1, <4>2, <4>4
    <3>. QED  BY <3>1, <3>2
  <2>6. Runs(base, step, 1..n, g)
    <3> HIDE DEF g
    <3>1. g = [r \in SUBSET (1..n) |-> g[r]]
      BY <2>4
    <3>. QED  BY <2>5, <3>1 DEF Runs
  <2> HIDE DEF g
  <2>7. Has(n)
    BY <2>4, <2>6
  <2>. QED  BY <2>7
<1>. QED  BY <1>2, <1>3

=============================================================================
