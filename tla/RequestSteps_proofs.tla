------------------------- MODULE RequestSteps_proofs -------------------------
(***************************************************************************)
(* Facts about the operators visits, movements and requests are built      *)
(* from: what they return, what the ledger adds up to, and what posting    *)
(* movements one after the other does to the stock and the ledger.         *)
(***************************************************************************)
EXTENDS RequestSteps, FoldTheorems, SequenceTheorems

----------------------------------------------------------------------------
(* What the operators return *)

LEMMA ApplyType ==
  ASSUME NEW s \in Stocks, NEW m \in Movement
  PROVE  Apply(s, m) \in Stocks
<1>1. \A loc \in Locations : SignedDelta(m, loc) \in Int
  BY MaxQtyAssumption DEF Movement, SignedDelta
<1>. QED  BY <1>1 DEF Apply, Stocks

LEMMA MergedType ==
  ASSUME NEW s \in Stocks, NEW d \in Stocks
  PROVE  Merged(s, d) \in Stocks
BY DEF Merged, Stocks

LEMMA ZeroStockType == ZeroStock \in Stocks
BY DEF ZeroStock, Stocks

LEMMA KeyTypes ==
  ASSUME NEW v \in VisitKeys, NEW l \in LineIds
  PROVE  LineKey(v, l) \in MovementKeys /\ ResolveKey(v, l) \in MovementKeys
BY DEF LineKey, ResolveKey, MovementKeys

LEMMA RequestTypes == InventoryRequests \subseteq Movement
<1>1. InventoryMovements \subseteq Movement
  BY DEF InventoryMovements, AssignInventory, ReturnInventory, AdjustInventory, RecordLoss,
         InventoryMovement, Movement, MovementTypes, Locations
<1>. QED  BY <1>1, InventoryRequestsAssumption

LEMMA LineMovementType ==
  ASSUME NEW visit \in Visit, NEW line \in Line, Resolved(line)
  PROVE  LineMovement(visit, line) \in Movement
<1>1. /\ IsLoad(line) => line.quantity \in 1..MaxQty
      /\ ~IsLoad(line) => -line.quantity \in 1..MaxQty
  BY MaxQtyAssumption DEF Line, Quantities, IsLoad
<1>2. line.product \in Products /\ line.slot \in Locations /\ visit.operator \in Locations
  BY DEF Resolved, Line, Visit, Locations
<1>. QED
  BY <1>1, <1>2 DEF LineMovement, InventoryMovement, Movement, MovementTypes

LEMMA LineOfVisit ==
  ASSUME NEW visit \in Visit, NEW l \in LinesOf(visit)
  PROVE  l \in LineIds /\ visit.lines[l] \in Line
BY DEF LinesOf, Visit

LEMMA CompletionPostingsType ==
  ASSUME NEW v \in VisitKeys, NEW visit \in Visit
  PROVE  CompletionPostings(v, visit) \in SUBSET Posting
<1>1. ASSUME NEW l \in ResolvedLines(visit)
      PROVE  At(LineKey(v, l), LineMovement(visit, visit.lines[l])) \in Posting
  <2>1. l \in LinesOf(visit) /\ Resolved(visit.lines[l])
    BY DEF ResolvedLines
  <2>2. l \in LineIds /\ visit.lines[l] \in Line
    BY <2>1, LineOfVisit
  <2>. QED
    BY <2>1, <2>2, KeyTypes, LineMovementType DEF At, Posting
<1>. QED  BY <1>1 DEF CompletionPostings

LEMMA WithTypes ==
  ASSUME NEW visit \in Visit, NEW l \in LineIds
  PROVE  /\ \A line \in Line : WithLine(visit, l, line) \in Visit
         /\ \A p \in Products : visit.lines[l] # None => WithProduct(visit, l, p) \in Visit
         /\ \A s \in Statuses : WithStatus(visit, s) \in Visit
<1>1. ASSUME NEW line \in Line PROVE WithLine(visit, l, line) \in Visit
  BY DEF WithLine, Visit
<1>2. ASSUME NEW p \in Products, visit.lines[l] # None
      PROVE  WithProduct(visit, l, p) \in Visit
  <2>1. visit.lines[l] \in Line  BY <1>2 DEF Visit
  <2>2. [visit.lines[l] EXCEPT !.product = p] \in Line  BY <2>1 DEF Line
  <2>. QED  BY <2>2 DEF WithProduct, Visit
<1>3. ASSUME NEW s \in Statuses PROVE WithStatus(visit, s) \in Visit
  BY DEF WithStatus, Visit
<1>. QED  BY <1>1, <1>2, <1>3

LEMMA ResolutionPostingType ==
  ASSUME NEW v \in VisitKeys, NEW visit \in Visit, NEW l \in PendingLines(visit),
         NEW p \in Products
  PROVE  ResolutionPosting(v, WithProduct(visit, l, p), l) \in Posting
<1> DEFINE resolved == WithProduct(visit, l, p)
<1>1. l \in LineIds /\ visit.lines[l] \in Line /\ visit.lines[l] # None
  BY LineOfVisit DEF PendingLines, LinesOf
<1>2. resolved \in Visit  BY <1>1, WithTypes
<1>3. resolved.lines[l] = [visit.lines[l] EXCEPT !.product = p]
  BY <1>1 DEF WithProduct, Visit
<1>4. resolved.lines[l] \in Line /\ resolved.lines[l].product = p
  BY <1>1, <1>3 DEF Line
<1>5. p # None  BY NoneAssumption
<1>6. LineMovement(resolved, resolved.lines[l]) \in Movement
  BY <1>2, <1>4, <1>5, LineMovementType DEF Resolved
<1>. QED  BY <1>1, <1>6, KeyTypes DEF ResolutionPosting, At, Posting

LEMMA StartedType ==
  ASSUME NEW operator \in Replenishers
  PROVE  Started(operator) \in Visit
BY DEF Started, Visit, Statuses, NoLines

\* No key is there twice.
OneKeyEach(postings) == \A s, t \in postings : s.key = t.key => s = t

LEMMA CompletionKeys ==
  ASSUME NEW v, NEW visit
  PROVE  OneKeyEach(CompletionPostings(v, visit))
BY DEF OneKeyEach, CompletionPostings, At, LineKey

----------------------------------------------------------------------------
(* Book stock: what the ledger adds up to *)

\* What each row of the query for a location and a product counts for.
Counted(rows, loc, p) ==
  [k \in MovementKeys |->
    IF rows[k] # None /\ rows[k].product = p THEN SignedDelta(rows[k], loc) ELSE 0]

LEMMA CountedType ==
  ASSUME NEW rows \in Ledgers, NEW loc, NEW p
  PROVE  Counted(rows, loc, p) \in [MovementKeys -> Int]
BY MaxQtyAssumption DEF Counted, Ledgers, Movement, SignedDelta

LEMMA ExpectedTotal ==
  ASSUME NEW rows \in Ledgers, NEW loc, NEW p
  PROVE  ExpectedQuantity(rows, loc, p) = Total(Counted(rows, loc, p), MovementKeys)
<1> DEFINE kept == {k \in DOMAIN rows : rows[k] # None /\ rows[k].product = p}
           f    == Counted(rows, loc, p)
           P(g) == g = [s \in SUBSET kept |->
                          IF s = {} THEN 0
                          ELSE SignedDelta(rows[Pick(s)], loc) + g[s \ {Pick(s)}]]
           Q(g) == Sums(f, kept, g)
<1>1. ExpectedQuantity(rows, loc, p) = (CHOOSE g : P(g))[kept]
  BY DEF ExpectedQuantity, MapThenSumSet, MapThenFoldSet, Pick
<1>2. \A s \in SUBSET kept : s # {} => SignedDelta(rows[Pick(s)], loc) = f[Pick(s)]
  BY PickIn DEF Ledgers, Counted
<1>3. ASSUME NEW g PROVE P(g) <=> Q(g)
  <2> HIDE DEF f, kept
  <2>. QED  BY <1>2 DEF Sums
<1>4. (CHOOSE g : P(g)) = (CHOOSE g : Q(g))
  <2> HIDE DEF P, Q
  <2>. QED  BY <1>3
<1>5. ExpectedQuantity(rows, loc, p) = Total(f, kept)
  BY <1>1, <1>4, TotalSums
<1>6. kept \in SUBSET MovementKeys /\ \A k \in MovementKeys \ kept : f[k] = 0
  BY DEF Ledgers, Counted
<1>7. \A k \in MovementKeys : f[k] \in Int
  BY CountedType
<1> HIDE DEF kept, f
<1>. QED  BY <1>5, <1>6, <1>7, TotalZeros, FiniteKeysAssumption DEF f

\* The rows of two ledgers without a key in common, put together.
LEMMA ExpectedTogether ==
  ASSUME NEW a \in Ledgers, NEW b \in Ledgers, NEW c \in Ledgers,
         \A k \in MovementKeys : \/ a[k] = None /\ c[k] = b[k]
                                 \/ b[k] = None /\ c[k] = a[k],
         NEW loc, NEW p
  PROVE  ExpectedQuantity(c, loc, p) = ExpectedQuantity(a, loc, p) + ExpectedQuantity(b, loc, p)
<1> DEFINE f == Counted(a, loc, p)
           g == Counted(b, loc, p)
           h == Counted(c, loc, p)
<1>1. /\ f \in [MovementKeys -> Int] /\ g \in [MovementKeys -> Int]
      /\ h \in [MovementKeys -> Int]
  BY CountedType
<1>2. ASSUME NEW k \in MovementKeys PROVE h[k] = f[k] + g[k]
  <2>1. f[k] \in Int /\ g[k] \in Int
    BY <1>1
  <2>2. CASE a[k] = None /\ c[k] = b[k]
    BY <2>1, <2>2 DEF Counted
  <2>3. CASE b[k] = None /\ c[k] = a[k]
    BY <2>1, <2>3 DEF Counted
  <2>. QED  BY <2>2, <2>3
<1>3. /\ ExpectedQuantity(a, loc, p) = Total(f, MovementKeys)
      /\ ExpectedQuantity(b, loc, p) = Total(g, MovementKeys)
      /\ ExpectedQuantity(c, loc, p) = Total(h, MovementKeys)
  BY ExpectedTotal
<1> HIDE DEF f, g, h
<1>. QED  BY <1>1, <1>2, <1>3, TotalPlus, FiniteKeysAssumption

Single(key, m) == [k \in MovementKeys |-> IF k = key THEN m ELSE None]

LEMMA ExpectedSingle ==
  ASSUME NEW key \in MovementKeys, NEW m \in Movement, NEW loc, NEW p
  PROVE  /\ Single(key, m) \in Ledgers
         /\ ExpectedQuantity(Single(key, m), loc, p) =
              IF p = m.product THEN SignedDelta(m, loc) ELSE 0
<1> DEFINE f == Counted(Single(key, m), loc, p)
<1>1. Single(key, m) \in Ledgers
  BY DEF Single, Ledgers
<1>2. /\ f[key] = IF p = m.product THEN SignedDelta(m, loc) ELSE 0
      /\ \A k \in MovementKeys \ {key} : f[k] = 0
  BY NoneMovementAssumption DEF Counted, Single
<1>3. f \in [MovementKeys -> Int]
  BY <1>1, CountedType
<1>4. ExpectedQuantity(Single(key, m), loc, p) = Total(f, MovementKeys)
  BY <1>1, ExpectedTotal
<1> HIDE DEF f
<1>5. Total(f, MovementKeys) = Total(f, {key})
  BY <1>2, <1>3, TotalZeros, FiniteKeysAssumption
<1>. QED  BY <1>1, <1>2, <1>3, <1>4, <1>5, TotalSingle

LEMMA ExpectedEmpty ==
  ASSUME NEW loc, NEW p
  PROVE  EmptyLedger \in Ledgers /\ ExpectedQuantity(EmptyLedger, loc, p) = 0
<1> DEFINE f == Counted(EmptyLedger, loc, p)
<1>1. EmptyLedger \in Ledgers
  BY DEF EmptyLedger, Ledgers
<1>2. \A k \in MovementKeys : f[k] = 0
  BY DEF Counted, EmptyLedger
<1>3. ExpectedQuantity(EmptyLedger, loc, p) = Total(f, MovementKeys)
  BY <1>1, ExpectedTotal
<1> HIDE DEF f
<1>4. Total(f, MovementKeys) = Total(f, {})
  BY <1>2, TotalZeros, FiniteKeysAssumption
<1>. QED  BY <1>1, <1>3, <1>4, TotalEmpty

----------------------------------------------------------------------------
(* What a sequence of postings makes of the stock *)

Balance(s, order) == FoldLeft(LAMBDA b, t : Apply(b, t.movement), s, order)

\* a[i] is the stock after the first i of the N postings.
Balances(a, s, N, order) ==
  /\ a[0] = s
  /\ \A i \in 1..N : a[i] = Apply(a[i-1], order[i].movement)
  /\ \A i \in 0..N : a[i] \in Stocks
  /\ Balance(s, order) = a[N]

LEMMA BalanceRuns ==
  ASSUME NEW s \in Stocks, NEW N \in Nat, NEW order \in [1..N -> Posting]
  PROVE  \E a : Balances(a, s, N, order)
<1> DEFINE D == 1..N
           next(b, i) == Apply(b, order[i].movement)
           P(g) == g = [r \in SUBSET D |-> IF r = {} THEN s
                          ELSE next(g[r \ {Max(r)}], Max(r))]
           balance == CHOOSE g : P(g)
<1>1. Balance(s, order) = balance[D]
  <2>1. DOMAIN order = D
    OBVIOUS
  <2>. QED  BY <2>1 DEF Balance, FoldLeft, MapThenFoldSet
<1>2. ASSUME NEW b \in Stocks, NEW i \in D
      PROVE  next(b, i) \in Stocks
  <2>1. order[i].movement \in Movement
    BY DEF Posting
  <2>. QED  BY <2>1, ApplyType
<1> HIDE DEF next
<1>3. P(balance)
  <2> DEFINE step == [x \in Stocks \X D |-> next(x[1], x[2])]
  <2>1. step \in [Stocks \X D -> Stocks]
    BY <1>2
  <2>2. PICK g \in [SUBSET D -> Stocks] : Runs(s, step, D, g)
    <3> HIDE DEF step
    <3>. QED  BY <2>1, RunsExist
  <2>3. ASSUME NEW r \in SUBSET D, r # {}
        PROVE  step[<<g[r \ {Max(r)}], Max(r)>>] = next(g[r \ {Max(r)}], Max(r))
    <3>1. Max(r) \in D /\ g[r \ {Max(r)}] \in Stocks
      BY <2>2, <2>3, MaxIn
    <3>. QED  BY <3>1
  <2>4. P(g)
    <3> HIDE DEF step
    <3>. QED  BY <2>2, <2>3 DEF Runs
  <2>. QED  BY <2>4
<1> HIDE DEF balance
<1>4. ASSUME NEW r \in SUBSET D
      PROVE  /\ r = {} => balance[r] = s
             /\ r # {} => balance[r] = next(balance[r \ {Max(r)}], Max(r))
  <2> DEFINE body(f) == [u \in SUBSET D |-> IF u = {} THEN s ELSE next(f[u \ {Max(u)}], Max(u))]
  <2>1. balance = body(balance)
    BY <1>3
  <2>2. body(balance)[r] = IF r = {} THEN s ELSE next(balance[r \ {Max(r)}], Max(r))
    OBVIOUS
  <2>. QED  BY <2>1, <2>2
<1> DEFINE a == [i \in 0..N |-> balance[1..i]]
<1>5. a[0] = s
  <2>1. 1..0 = {} /\ {} \in SUBSET D /\ a[0] = balance[1..0]
    OBVIOUS
  <2>2. balance[{}] = s
    BY <1>4, <2>1
  <2>. QED  BY <2>1, <2>2
<1>6. ASSUME NEW i \in 1..N
      PROVE  a[i] = next(a[i-1], i)
  <2>1. 1..i \in SUBSET D /\ 1..i # {} /\ Max(1..i) = i /\ (1..i) \ {i} = 1..(i-1)
    BY PlacesUpTo
  <2>2. balance[1..i] = next(balance[1..(i-1)], i)
    BY <1>4, <2>1
  <2>. QED  BY <2>2
<1>7. Balance(s, order) = a[N]
  BY <1>1
<1> HIDE DEF a
<1>8. \A i \in 0..N : a[i] \in Stocks
  <2> DEFINE S == {i \in 0..N : a[i] \in Stocks}
  <2>1. 0 \in S /\ \A i \in 1..N : i - 1 \in S => i \in S
    BY <1>2, <1>5, <1>6
  <2> HIDE DEF S
  <2>2. \A i \in 0..N : i \in S
    BY <2>1, UpTo
  <2>. QED  BY <2>2 DEF S
<1>9. Balances(a, s, N, order)
  BY <1>5, <1>6, <1>7, <1>8 DEF next, Balances
<1>. QED  BY <1>9

LEMMA SubSeqIs ==
  ASSUME NEW N \in Nat, NEW order \in [1..N -> Posting], NEW i \in 0..N
  PROVE  /\ DOMAIN SubSeq(order, 1, i) = 1..i
         /\ \A j \in 1..i : SubSeq(order, 1, i)[j] = order[j]
<1>1. order \in Seq(Posting) /\ Len(order) = N
  OBVIOUS
<1>. QED  BY <1>1

LEMMA BalanceAfter ==
  ASSUME NEW s \in Stocks, NEW N \in Nat, NEW order \in [1..N -> Posting]
  PROVE  /\ Balance(s, SubSeq(order, 1, 0)) = s
         /\ \A i \in 1..N : Balance(s, SubSeq(order, 1, i)) =
              Apply(Balance(s, SubSeq(order, 1, i - 1)), order[i].movement)
         /\ \A i \in 0..N : Balance(s, SubSeq(order, 1, i)) \in Stocks
<1>1. PICK a : Balances(a, s, N, order)
  BY BalanceRuns
<1>2. ASSUME NEW n \in 0..N
      PROVE  Balance(s, SubSeq(order, 1, n)) = a[n]
  <2> DEFINE first == SubSeq(order, 1, n)
  <2>1. n \in Nat /\ DOMAIN first = 1..n /\ \A j \in 1..n : first[j] = order[j]
    BY SubSeqIs
  <2>2. first \in [1..n -> Posting]
    <3>1. first \in Seq(Posting)
      OBVIOUS
    <3> HIDE DEF first
    <3>. QED  BY <2>1, <3>1
  <2> HIDE DEF first
  <2>3. PICK b : Balances(b, s, n, first)
    BY <2>1, <2>2, BalanceRuns
  <2> DEFINE S == {i \in 0..n : b[i] = a[i]}
  <2>4. 0 \in S
    BY <1>1, <2>1, <2>3 DEF Balances
  <2>5. ASSUME NEW i \in 1..n, i - 1 \in S
        PROVE  i \in S
    <3>1. i \in 1..N /\ i \in 0..n
      OBVIOUS
    <3>. QED  BY <1>1, <2>1, <2>3, <2>5, <3>1 DEF Balances
  <2> HIDE DEF S
  <2>6. n \in S
    <3>1. \A i \in 0..n : i \in S
      BY <2>1, <2>4, <2>5, UpTo
    <3>. QED  BY <2>1, <3>1
  <2>. QED  BY <2>3, <2>6 DEF S, Balances, first
<1>. QED  BY <1>1, <1>2 DEF Balances

----------------------------------------------------------------------------
(* Posting *)

LEMMA FinitePostings ==
  ASSUME NEW postings \in SUBSET Posting, OneKeyEach(postings)
  PROVE  IsFiniteSet(postings) /\ Cardinality(postings) \in Nat
<1> DEFINE keys == [t \in postings |-> t.key]
<1>1. keys \in Injection(postings, MovementKeys)
  BY DEF Posting, OneKeyEach, Injection, IsInjective
<1>2. IsFiniteSet(postings)
  BY <1>1, FS_Injection, FiniteKeysAssumption
<1>. QED  BY <1>2, FS_CardinalityType

\* An order of postings has each of them at one place.
LEMMA OrderOf ==
  ASSUME NEW postings \in SUBSET Posting, OneKeyEach(postings), NEW order \in SetToSeqs(postings)
  PROVE  LET n == Cardinality(postings) IN
         /\ n \in Nat /\ Len(order) = n
         /\ order \in [1..n -> postings] /\ order \in [1..n -> Posting]
         /\ \A t \in postings : \E i \in 1..n : order[i] = t
<1> DEFINE n == Cardinality(postings)
<1>1. n \in Nat /\ IsFiniteSet(postings)
  BY FinitePostings
<1>2. order \in [1..n -> postings] /\ order \in [1..n -> Posting] /\ Len(order) = n
  BY <1>1 DEF SetToSeqs
<1>3. order \in Injection(1..n, postings)
  BY <1>1 DEF SetToSeqs, Injection, IsInjective
<1>4. IsFiniteSet(1..n) /\ Cardinality(1..n) = n
  BY <1>1, FS_Interval
<1>5. order \in Surjection(1..n, postings)
  BY <1>1, <1>3, <1>4, FS_Injection
<1>. QED  BY <1>1, <1>2, <1>5 DEF Surjection

\* Posting stores each posting whose key is free, one after the other, and
\* leaves every other key alone.
LEMMA PostIs ==
  ASSUME StoreTypeOK, NEW postings \in SUBSET Posting, OneKeyEach(postings), Post(postings)
  PROVE  /\ ledger' \in Ledgers /\ stock' \in Stocks
         /\ \A k \in MovementKeys : ledger[k] # None => ledger'[k] = ledger[k]
         /\ \A t \in postings : ledger[t.key] = None => ledger'[t.key] = t.movement
         /\ \A k \in MovementKeys : (\A t \in postings : t.key # k) => ledger'[k] = ledger[k]
<1> DEFINE fresh == {t \in postings : ledger[t.key] = None}
           N == Cardinality(fresh)
<1>1. N \in Nat
  BY FinitePostings DEF OneKeyEach
<1>2. PICK order \in SetToSeqs(fresh) :
        /\ stock' = After(order, Len(order))
        /\ ledger' = [k \in MovementKeys |->
             IF \E i \in DOMAIN order : order[i].key = k
             THEN MovementAt(postings, k)
             ELSE ledger[k]]
  BY DEF Post
<1>3. /\ order \in [1..N -> fresh] /\ order \in [1..N -> Posting] /\ Len(order) = N
      /\ \A t \in fresh : \E i \in 1..N : order[i] = t
  <2>1. fresh \in SUBSET Posting /\ OneKeyEach(fresh)
    BY DEF OneKeyEach
  <2> HIDE DEF fresh
  <2>. QED  BY <1>2, <2>1, OrderOf
<1>4. stock' \in Stocks
  <2>1. After(order, N) = Balance(stock, SubSeq(order, 1, N))
    BY DEF After, Balance
  <2>2. stock \in Stocks /\ N \in 0..N
    BY <1>1 DEF StoreTypeOK
  <2> HIDE DEF N
  <2>3. Balance(stock, SubSeq(order, 1, N)) \in Stocks
    BY <1>1, <1>3, <2>2, BalanceAfter
  <2>. QED  BY <1>2, <1>3, <2>1, <2>3
<1>5. ASSUME NEW t \in postings
      PROVE  MovementAt(postings, t.key) = t.movement /\ t.key \in MovementKeys
  <2>1. (CHOOSE u \in postings : u.key = t.key) = t
    BY DEF OneKeyEach
  <2>. QED  BY <2>1 DEF MovementAt, Posting
<1>6. \A t \in fresh : \E i \in DOMAIN order : order[i] = t
  BY <1>3
<1> HIDE DEF N
<1>7. ASSUME NEW k \in MovementKeys
      PROVE  /\ (\E t \in fresh : t.key = k) => ledger'[k] = MovementAt(postings, k)
             /\ ~(\E t \in fresh : t.key = k) => ledger'[k] = ledger[k]
  BY <1>2, <1>3, <1>6
<1>8. ASSUME NEW k \in MovementKeys
      PROVE  ledger'[k] \in Movement \cup {None}
  <2>1. CASE \E t \in fresh : t.key = k
    BY <1>5, <1>7, <2>1 DEF Posting
  <2>2. CASE ~\E t \in fresh : t.key = k
    BY <1>7, <2>2 DEF StoreTypeOK, Ledgers
  <2>. QED  BY <2>1, <2>2
<1>9. ledger' \in Ledgers
  <2>1. DOMAIN ledger' = MovementKeys /\ ledger' = [k \in MovementKeys |-> ledger'[k]]
    BY <1>2
  <2>. QED  BY <1>8, <2>1 DEF Ledgers
<1>10. \A k \in MovementKeys : ledger[k] # None => ledger'[k] = ledger[k]
  BY <1>7
<1>11. \A t \in postings : ledger[t.key] = None => ledger'[t.key] = t.movement
  BY <1>5, <1>7
<1>12. \A k \in MovementKeys : (\A t \in postings : t.key # k) => ledger'[k] = ledger[k]
  BY <1>7
<1>. QED  BY <1>4, <1>9, <1>10, <1>11, <1>12

----------------------------------------------------------------------------
(* Posting one by one *)

\* In some order, each posting passes its check after the ones before it, and
\* together they take the stock from s to b.
PostsTo(s, postings, b) ==
  \E order \in SetToSeqs(postings) :
    /\ b = Balance(s, SubSeq(order, 1, Len(order)))
    /\ \A i \in DOMAIN order :
         EnsureCanApply(Balance(s, SubSeq(order, 1, i - 1)), order[i].movement)

LEMMA NoneToPost ==
  ASSUME NEW s \in Stocks, NEW b
  PROVE  PostsTo(s, {}, b) <=> b = s
<1>1. Cardinality({}) = 0
  BY FS_EmptySet
<1>2. << >> \in SetToSeqs({}) /\ \A order \in SetToSeqs({}) : order = << >>
  BY <1>1 DEF SetToSeqs
<1>3. 0 \in Nat /\ << >> \in [1..0 -> Posting] /\ Len(<< >>) = 0
  OBVIOUS
<1>4. Balance(s, SubSeq(<< >>, 1, Len(<< >>))) = s
  <2>1. Balance(s, SubSeq(<< >>, 1, 0)) = s
    BY <1>3, BalanceAfter
  <2>. QED  BY <1>3, <2>1
<1>5. \A i \in DOMAIN << >> :
        EnsureCanApply(Balance(s, SubSeq(<< >>, 1, i - 1)), << >>[i].movement)
  OBVIOUS
<1>6. ASSUME b = s PROVE PostsTo(s, {}, b)
  BY <1>2, <1>4, <1>5, <1>6 DEF PostsTo
<1>7. ASSUME PostsTo(s, {}, b) PROVE b = s
  <2>1. PICK order \in SetToSeqs({}) : b = Balance(s, SubSeq(order, 1, Len(order)))
    BY <1>7 DEF PostsTo
  <2>2. order = << >>
    BY <1>2
  <2>. QED  BY <1>4, <2>1, <2>2
<1>. QED  BY <1>6, <1>7

LEMMA OneMoreToPost ==
  ASSUME NEW s \in Stocks, NEW postings \in SUBSET Posting, NEW t \in Posting \ postings,
         OneKeyEach(postings), NEW b, PostsTo(s, postings, b), EnsureCanApply(b, t.movement)
  PROVE  PostsTo(s, postings \cup {t}, Apply(b, t.movement))
<1> DEFINE n == Cardinality(postings)
           all == postings \cup {t}
<1>1. PICK order \in SetToSeqs(postings) :
        /\ b = Balance(s, SubSeq(order, 1, Len(order)))
        /\ \A i \in DOMAIN order :
             EnsureCanApply(Balance(s, SubSeq(order, 1, i - 1)), order[i].movement)
  BY DEF PostsTo
<1>2. n \in Nat /\ Len(order) = n /\ order \in [1..n -> postings]
  BY OrderOf
<1> DEFINE longer == [i \in 1..(n + 1) |-> IF i <= n THEN order[i] ELSE t]
<1>3. Cardinality(all) = n + 1
  BY FinitePostings, FS_AddElement
<1>4. \A i, j \in 1..n : i # j => order[i] # order[j]
  BY <1>1 DEF SetToSeqs
<1> HIDE DEF n, all
<1>5. /\ longer \in [1..(n + 1) -> all] /\ Len(longer) = n + 1
      /\ longer \in [1..(n + 1) -> Posting] /\ longer[n + 1] = t
      /\ \A i \in 1..n : longer[i] = order[i]
  BY <1>2 DEF all
<1>6. longer \in SetToSeqs(all)
  <2>1. \A i, j \in 1..(n + 1) : i # j => longer[i] # longer[j]
    BY <1>2, <1>4
  <2>. QED  BY <1>3, <1>5, <2>1 DEF SetToSeqs
<1> HIDE DEF longer
<1>7. ASSUME NEW i \in 0..n
      PROVE  SubSeq(longer, 1, i) = SubSeq(order, 1, i)
  <2>1. order \in [1..n -> Posting] /\ i \in 0..(n + 1)
    BY <1>2
  <2>2. /\ SubSeq(longer, 1, i) \in Seq(Posting) /\ SubSeq(order, 1, i) \in Seq(Posting)
        /\ Len(SubSeq(longer, 1, i)) = i /\ Len(SubSeq(order, 1, i)) = i
        /\ \A j \in 1..i : SubSeq(longer, 1, i)[j] = longer[j]
        /\ \A j \in 1..i : SubSeq(order, 1, i)[j] = order[j]
    BY <1>2, <1>5, <2>1
  <2>3. \A j \in 1..i : SubSeq(longer, 1, i)[j] = SubSeq(order, 1, i)[j]
    BY <1>2, <1>5, <2>2
  <2>. QED  BY <2>2, <2>3, SeqEqual
<1>8. Balance(s, SubSeq(longer, 1, n + 1)) = Apply(b, t.movement)
  <2>1. \A i \in 1..(n + 1) : Balance(s, SubSeq(longer, 1, i)) =
          Apply(Balance(s, SubSeq(longer, 1, i - 1)), longer[i].movement)
    BY <1>2, <1>5, BalanceAfter
  <2>2. /\ n + 1 \in 1..(n + 1) /\ (n + 1) - 1 = n /\ n \in 0..n
    BY <1>2
  <2>3. Balance(s, SubSeq(longer, 1, n)) = b
    BY <1>1, <1>2, <1>7, <2>2
  <2>. QED  BY <1>5, <2>1, <2>2, <2>3
<1>9. ASSUME NEW i \in 1..(n + 1)
      PROVE  EnsureCanApply(Balance(s, SubSeq(longer, 1, i - 1)), longer[i].movement)
  <2>1. i - 1 \in 0..n
    BY <1>2
  <2>2. SubSeq(longer, 1, i - 1) = SubSeq(order, 1, i - 1)
    BY <1>7, <2>1
  <2>3. CASE i = n + 1
    <3>1. i - 1 = n
      BY <1>2, <2>3
    <3>. QED  BY <1>1, <1>2, <1>5, <2>2, <2>3, <3>1
  <2>4. CASE i \in 1..n
    BY <1>1, <1>2, <1>5, <2>2, <2>4
  <2>. QED  BY <1>2, <2>3, <2>4
<1>. QED  BY <1>2, <1>5, <1>6, <1>8, <1>9 DEF PostsTo, all

\* Postings under free keys that were checked one by one are posted at once.
LEMMA PostedAtOnce ==
  ASSUME StoreTypeOK, NEW postings \in SUBSET Posting, OneKeyEach(postings),
         \A t \in postings : ledger[t.key] = None,
         PostsTo(stock, postings, stock'),
         ledger' = [k \in MovementKeys |->
           IF \E t \in postings : t.key = k THEN MovementAt(postings, k) ELSE ledger[k]]
  PROVE  Post(postings)
<1>1. PICK b : b = stock'
  OBVIOUS
<1>2. PICK order \in SetToSeqs(postings) :
        /\ b = Balance(stock, SubSeq(order, 1, Len(order)))
        /\ \A i \in DOMAIN order :
             EnsureCanApply(Balance(stock, SubSeq(order, 1, i - 1)), order[i].movement)
  BY <1>1 DEF PostsTo
<1>3. {t \in postings : ledger[t.key] = None} = postings
  OBVIOUS
<1>4. \A i : After(order, i) = Balance(stock, SubSeq(order, 1, i))
  BY DEF After, Balance
<1>5. ASSUME NEW k
      PROVE  (\E t \in postings : t.key = k) <=> \E i \in DOMAIN order : order[i].key = k
  <2> DEFINE n == Cardinality(postings)
  <2>1. n \in Nat /\ order \in [1..n -> postings]
    BY <1>2, OrderOf
  <2>2. \A t \in postings : \E i \in 1..n : order[i] = t
    BY <1>2, OrderOf
  <2> HIDE DEF n
  <2>. QED  BY <2>1, <2>2
<1>6. /\ stock' = After(order, Len(order))
      /\ \A i \in DOMAIN order : EnsureCanApply(After(order, i - 1), order[i].movement)
  BY <1>1, <1>2, <1>4
<1>7. ledger' = [k \in MovementKeys |->
        IF \E i \in DOMAIN order : order[i].key = k THEN MovementAt(postings, k) ELSE ledger[k]]
  BY <1>5
<1>. QED  BY <1>3, <1>6, <1>7 DEF Post

=============================================================================
