-------------------------- MODULE Stocktaking_proofs --------------------------
(***************************************************************************)
(* Theorems about MachineInventory, InventoryCounts and Sales, for any     *)
(* periods, counts, sales, recipes and quantities.                         *)
(***************************************************************************)
EXTENDS MachineInventory, InventoryCounts, Sales, FoldTheorems, SequenceTheorems

\* A closed period has been counted: without it the count that opens the next
\* period would not be one.
Counted == \A q \in DOMAIN periods : periods[q].closed => periods[q].physical # None

PeriodInv == PeriodsTypeOK /\ Counted /\ PeriodsFollowOn

\* What opening a period does to the periods and to where they come from.
LEMMA Opened ==
  ASSUME PeriodsTypeOK, NEW q, NEW position \in Positions, NEW opening \in Nat,
         NEW from \in PeriodIds \cup {None}, OpenPeriod(q, position, opening, from)
  PROVE  /\ q \in PeriodIds /\ q \notin DOMAIN periods
         /\ DOMAIN periods' = DOMAIN periods \cup {q}
         /\ DOMAIN precedes' = DOMAIN periods \cup {q}
         /\ \A r \in DOMAIN periods : periods'[r] = periods[r] /\ precedes'[r] = precedes[r]
         /\ periods'[q] \in Period /\ ~periods'[q].closed
         /\ periods'[q].position = position /\ periods'[q].opening = opening
         /\ precedes'[q] = from
         /\ periods' \in [DOMAIN periods' -> Period]
         /\ precedes' \in [DOMAIN periods' -> PeriodIds \cup {None}]
<1> DEFINE new == [position |-> position, opening |-> opening, physical |-> None,
                   closed |-> FALSE, net |-> 0, consumption |-> 0]
<1>1. new \in Period /\ ~new.closed /\ new.position = position /\ new.opening = opening
  BY DEF Period
<1>2. /\ periods' = [r \in DOMAIN periods \cup {q} |-> IF r = q THEN new ELSE periods[r]]
      /\ precedes' = [r \in DOMAIN periods \cup {q} |-> IF r = q THEN from ELSE precedes[r]]
      /\ q \in PeriodIds /\ q \notin DOMAIN periods
  BY DEF OpenPeriod, PeriodsTypeOK, With
<1> HIDE DEF new
<1>. QED  BY <1>1, <1>2 DEF PeriodsTypeOK

LEMMA OpenKeeps ==
  ASSUME PeriodInv, NEW q, NEW position \in Positions, NEW opening \in Nat,
         NEW from \in PeriodIds \cup {None}, OpenPeriod(q, position, opening, from),
         from # None => /\ from \in DOMAIN periods /\ periods[from].closed
                        /\ periods[from].position = position
                        /\ periods[from].physical = opening
  PROVE  PeriodInv'
<1>0. /\ q \in PeriodIds /\ q \notin DOMAIN periods
      /\ DOMAIN periods' = DOMAIN periods \cup {q}
      /\ DOMAIN precedes' = DOMAIN periods \cup {q}
      /\ \A r \in DOMAIN periods : periods'[r] = periods[r] /\ precedes'[r] = precedes[r]
      /\ periods'[q] \in Period /\ ~periods'[q].closed
      /\ periods'[q].position = position /\ periods'[q].opening = opening
      /\ precedes'[q] = from
      /\ periods' \in [DOMAIN periods' -> Period]
      /\ precedes' \in [DOMAIN periods' -> PeriodIds \cup {None}]
  BY Opened DEF PeriodInv
<1>1. PeriodsTypeOK'
  BY <1>0 DEF PeriodInv, PeriodsTypeOK
<1>2. Counted'
  BY <1>0 DEF PeriodInv, Counted
<1>3. PeriodsFollowOn'
  <2> SUFFICES ASSUME NEW r \in DOMAIN periods', precedes'[r] # None
               PROVE  LET p == precedes'[r]
                      IN  /\ p \in DOMAIN periods'
                          /\ periods'[p].closed
                          /\ periods'[p].position = periods'[r].position
                          /\ periods'[p].physical = periods'[r].opening
    BY DEF PeriodsFollowOn
  <2>1. CASE r = q
    BY <1>0, <2>1
  <2>2. CASE r \in DOMAIN periods
    BY <1>0, <2>2 DEF PeriodInv, PeriodsFollowOn
  <2>. QED  BY <1>0, <2>1, <2>2
<1>. QED  BY <1>1, <1>2, <1>3 DEF PeriodInv

\* An open period may change in anything but where it is and what it opened with.
LEMMA ChangeKeeps ==
  ASSUME PeriodInv, NEW q, EnsureOpen(q), NEW period \in Period, Change(q, period),
         period.position = periods[q].position, period.opening = periods[q].opening,
         period.closed => period.physical # None
  PROVE  PeriodInv'
<1>1. /\ q \in DOMAIN periods /\ ~periods[q].closed
      /\ periods' = [periods EXCEPT ![q] = period] /\ precedes' = precedes
      /\ DOMAIN periods' = DOMAIN periods
      /\ periods'[q] = period
      /\ \A r \in DOMAIN periods : r # q => periods'[r] = periods[r]
  BY DEF EnsureOpen, Change, PeriodInv, PeriodsTypeOK
<1>2. PeriodsTypeOK'
  BY <1>1 DEF PeriodInv, PeriodsTypeOK
<1>3. Counted'
  BY <1>1 DEF PeriodInv, Counted
<1>4. PeriodsFollowOn'
  BY <1>1 DEF PeriodInv, PeriodsFollowOn
<1>. QED  BY <1>2, <1>3, <1>4 DEF PeriodInv

LEMMA PeriodStep == PeriodInv /\ [PeriodsNext]_periodVars => PeriodInv'
<1> SUFFICES ASSUME PeriodInv, [PeriodsNext]_periodVars PROVE PeriodInv'  OBVIOUS
<1>0. \A q \in DOMAIN periods : periods[q] \in Period /\ q \in PeriodIds
  BY DEF PeriodInv, PeriodsTypeOK
<1>1. CASE UNCHANGED periodVars
  BY <1>1 DEF periodVars, PeriodInv, PeriodsTypeOK, Counted, PeriodsFollowOn
<1>2. ASSUME NEW q \in PeriodIds, NEW position \in Positions, OpenInitial(q, position)
      PROVE  PeriodInv'
  BY <1>2, OpenKeeps DEF OpenInitial
<1>3. ASSUME NEW q \in PeriodIds, NEW n \in Int, ApplyReplenishment(q, n)
      PROVE  PeriodInv'
  <2> DEFINE moved == [periods[q] EXCEPT !.net = @ + n]
  <2>1. /\ EnsureOpen(q) /\ Change(q, moved) /\ moved \in Period
        /\ moved.position = periods[q].position /\ moved.opening = periods[q].opening
        /\ moved.closed = periods[q].closed /\ moved.physical = periods[q].physical
    BY <1>0, <1>3, UnitsAssumption DEF ApplyReplenishment, EnsureOpen, Period
  <2>. QED  BY <2>1, ChangeKeeps DEF EnsureOpen
<1>4. ASSUME NEW q \in PeriodIds, NEW n \in Nat, ApplyConsumption(q, n)
      PROVE  PeriodInv'
  <2> DEFINE moved == [periods[q] EXCEPT !.consumption = @ + n]
  <2>1. /\ EnsureOpen(q) /\ Change(q, moved) /\ moved \in Period
        /\ moved.position = periods[q].position /\ moved.opening = periods[q].opening
        /\ moved.closed = periods[q].closed /\ moved.physical = periods[q].physical
    BY <1>0, <1>4 DEF ApplyConsumption, EnsureOpen, Period
  <2>. QED  BY <2>1, ChangeKeeps DEF EnsureOpen
<1>5. ASSUME NEW q \in PeriodIds, NEW n \in Nat, RecordPhysicalCount(q, n)
      PROVE  PeriodInv'
  <2> DEFINE counted == [periods[q] EXCEPT !.physical = n]
  <2>1. /\ EnsureOpen(q) /\ Change(q, counted) /\ counted \in Period
        /\ counted.position = periods[q].position /\ counted.opening = periods[q].opening
        /\ counted.closed = periods[q].closed
    BY <1>0, <1>5 DEF RecordPhysicalCount, EnsureOpen, Period
  <2>. QED  BY <2>1, ChangeKeeps DEF EnsureOpen
<1>6. ASSUME NEW q \in PeriodIds, Close(q)
      PROVE  PeriodInv'
  <2> DEFINE closed == [periods[q] EXCEPT !.closed = TRUE]
  <2>1. /\ EnsureOpen(q) /\ Change(q, closed) /\ closed \in Period
        /\ closed.position = periods[q].position /\ closed.opening = periods[q].opening
        /\ closed.physical = periods[q].physical /\ periods[q].physical # None
    BY <1>0, <1>6 DEF Close, EnsureOpen, Period
  <2>. QED  BY <2>1, ChangeKeeps
<1>7. ASSUME NEW p \in PeriodIds, NEW q \in PeriodIds, OpenNext(p, q)
      PROVE  PeriodInv'
  <2>1. p \in DOMAIN periods /\ periods[p].closed /\ periods[p].physical # None
    BY <1>7 DEF OpenNext, EnsureOpen, PeriodInv, Counted
  <2>2. periods[p].position \in Positions /\ periods[p].physical \in Nat
    BY <1>0, <2>1 DEF Period
  <2>3. OpenPeriod(q, periods[p].position, periods[p].physical, p)
    BY <1>7 DEF OpenNext
  <2>. QED  BY <2>1, <2>2, <2>3, OpenKeeps
<1>8. (-MaxUnits)..MaxUnits \subseteq Int /\ 0..MaxUnits \subseteq Nat
  BY UnitsAssumption
<1>. QED
  BY <1>1, <1>2, <1>3, <1>4, <1>5, <1>6, <1>7, <1>8 DEF PeriodsNext

LEMMA PeriodInvariance == PeriodsSpec => []PeriodInv
<1>1. PeriodsInit => PeriodInv
  <2> SUFFICES ASSUME PeriodsInit PROVE PeriodInv  OBVIOUS
  <2>1. DOMAIN periods = {} /\ periods = precedes /\ periods = [q \in {} |-> None]
    BY DEF PeriodsInit
  <2>. QED  BY <2>1 DEF PeriodInv, PeriodsTypeOK, Counted, PeriodsFollowOn
<1>. QED  BY <1>1, PeriodStep, PTL DEF PeriodsSpec

\* Every period opened is a period, with a count where it is closed.
THEOREM PeriodTypeCorrectness == PeriodsSpec => []PeriodsTypeOK
BY PeriodInvariance, PTL DEF PeriodInv

\* A period goes on from the count of the one it was opened from, and that count
\* never changes again, along any line of periods and with any quantities.
THEOREM PeriodsFollowEachOther == PeriodsSpec => []PeriodsFollowOn
BY PeriodInvariance, PTL DEF PeriodInv

\* What a period was closed with never changes again: every change is refused
\* for a closed period, and opening another leaves it alone (_ensure_open,
\* open_next).
THEOREM ClosedPeriodsStay == PeriodsSpec => ClosedPeriodsAreFinal
<1> DEFINE Final == \A q \in DOMAIN periods : periods[q].closed =>
                      q \in DOMAIN periods' /\ periods'[q] = periods[q]
<1>1. ASSUME PeriodInv, [PeriodsNext]_periodVars PROVE [Final]_periodVars
  <2>1. ASSUME NEW q, NEW position \in Positions, NEW opening \in Nat,
               NEW from \in PeriodIds \cup {None}, OpenPeriod(q, position, opening, from)
        PROVE  Final
    BY <1>1, <2>1, Opened DEF PeriodInv
  <2>2. ASSUME NEW q, NEW period, EnsureOpen(q), Change(q, period)
        PROVE  Final
    BY <2>2 DEF EnsureOpen, Change
  <2>3. ASSUME NEW q \in PeriodIds, NEW position \in Positions, OpenInitial(q, position)
        PROVE  Final
    BY <2>1, <2>3 DEF OpenInitial
  <2>4. ASSUME NEW p \in PeriodIds, NEW q \in PeriodIds, OpenNext(p, q)
        PROVE  Final
    <3>1. /\ p \in PeriodIds /\ periods[p].position \in Positions
          /\ periods[p].physical \in Nat
      BY <1>1, <2>4 DEF OpenNext, PeriodInv, PeriodsTypeOK, Counted, Period
    <3>. QED  BY <2>1, <2>4, <3>1 DEF OpenNext
  <2>5. ASSUME NEW q, NEW n,
               \/ ApplyReplenishment(q, n) \/ ApplyConsumption(q, n)
               \/ RecordPhysicalCount(q, n) \/ Close(q)
        PROVE  Final
    BY <2>2, <2>5 DEF ApplyReplenishment, ApplyConsumption, RecordPhysicalCount, Close
  <2>. QED  BY <1>1, <2>3, <2>4, <2>5 DEF PeriodsNext
<1>. QED  BY <1>1, PeriodInvariance, PTL DEF PeriodsSpec, ClosedPeriodsAreFinal

----------------------------------------------------------------------------
(* Units of a position                                                     *)

\* An initial period starts with nothing, and going back from period to period
\* always comes to an initial one.
OriginInv ==
  /\ \A q \in DOMAIN periods : precedes[q] = None => periods[q].opening = 0
  /\ \A line \in SUBSET DOMAIN periods :
       line # {} => \E q \in line : precedes[q] \notin line

LEMMA OriginOpened ==
  ASSUME PeriodInv, OriginInv, NEW q, NEW position \in Positions, NEW opening \in Nat,
         NEW from \in DOMAIN periods \cup {None}, OpenPeriod(q, position, opening, from),
         from = None => opening = 0
  PROVE  OriginInv'
<1>0. from \in PeriodIds \cup {None}
  BY DEF PeriodInv, PeriodsTypeOK
<1>1. /\ q \in PeriodIds /\ q \notin DOMAIN periods
      /\ DOMAIN periods' = DOMAIN periods \cup {q}
      /\ \A r \in DOMAIN periods : periods'[r] = periods[r] /\ precedes'[r] = precedes[r]
      /\ periods'[q].opening = opening /\ precedes'[q] = from
  BY <1>0, Opened DEF PeriodInv
<1>2. \A r \in DOMAIN periods' : precedes'[r] = None => periods'[r].opening = 0
  BY <1>1 DEF OriginInv
<1>3. ASSUME NEW line \in SUBSET DOMAIN periods', line # {}
      PROVE  \E r \in line : precedes'[r] \notin line
  <2>1. CASE line = {q}
    <3>1. from # q
      BY <1>1, NothingAssumption
    <3>. QED  BY <1>1, <2>1, <3>1
  <2>2. CASE line # {q}
    <3> DEFINE older == line \ {q}
    <3>1. older \in SUBSET DOMAIN periods /\ older # {}
      BY <1>1, <1>3, <2>2
    <3>2. PICK r \in older : precedes[r] \notin older
      BY <3>1 DEF OriginInv
    <3>3. r \in DOMAIN periods /\ precedes'[r] = precedes[r]
      BY <1>1, <3>1
    <3>4. precedes[r] # q
      BY <1>1, <3>3, NothingAssumption DEF PeriodInv, PeriodsFollowOn
    <3>. QED  BY <3>2, <3>3, <3>4
  <2>. QED  BY <2>1, <2>2
<1>. QED  BY <1>2, <1>3 DEF OriginInv

LEMMA OriginStep == PeriodInv /\ OriginInv /\ [PeriodsNext]_periodVars => OriginInv'
<1> SUFFICES ASSUME PeriodInv, OriginInv, [PeriodsNext]_periodVars PROVE OriginInv'
  OBVIOUS
<1>1. ASSUME NEW q, NEW period, Change(q, period), EnsureOpen(q),
             period.opening = periods[q].opening
      PROVE  OriginInv'
  BY <1>1 DEF Change, EnsureOpen, OriginInv, PeriodInv, PeriodsTypeOK
<1>2. CASE UNCHANGED periodVars
  BY <1>2 DEF periodVars, OriginInv
<1>3. ASSUME NEW q \in PeriodIds, NEW position \in Positions, OpenInitial(q, position)
      PROVE  OriginInv'
  BY <1>3, OriginOpened DEF OpenInitial
<1>4. ASSUME NEW p \in PeriodIds, NEW q \in PeriodIds, OpenNext(p, q)
      PROVE  OriginInv'
  <2>1. p \in DOMAIN periods /\ periods[p].physical # None /\ periods[p] \in Period
    BY <1>4 DEF OpenNext, PeriodInv, Counted, PeriodsTypeOK
  <2>2. periods[p].position \in Positions /\ periods[p].physical \in Nat /\ p # None
    BY <2>1, NothingAssumption DEF Period
  <2>3. OpenPeriod(q, periods[p].position, periods[p].physical, p)
    BY <1>4 DEF OpenNext
  <2>. QED  BY <2>1, <2>2, <2>3, OriginOpened
<1>5. ASSUME NEW q \in PeriodIds, NEW n,
             \/ ApplyReplenishment(q, n) \/ ApplyConsumption(q, n)
             \/ RecordPhysicalCount(q, n) \/ Close(q)
      PROVE  OriginInv'
  <2>1. ASSUME EnsureOpen(q)
        PROVE  periods[q] \in Period
    BY <2>1 DEF EnsureOpen, PeriodInv, PeriodsTypeOK
  <2>2. CASE ApplyReplenishment(q, n)
    <3>1. /\ EnsureOpen(q) /\ Change(q, [periods[q] EXCEPT !.net = @ + n])
          /\ [periods[q] EXCEPT !.net = @ + n].opening = periods[q].opening
      BY <2>1, <2>2 DEF ApplyReplenishment, Period
    <3>. QED  BY <1>1, <3>1
  <2>3. CASE ApplyConsumption(q, n)
    <3>1. /\ EnsureOpen(q) /\ Change(q, [periods[q] EXCEPT !.consumption = @ + n])
          /\ [periods[q] EXCEPT !.consumption = @ + n].opening = periods[q].opening
      BY <2>1, <2>3 DEF ApplyConsumption, Period
    <3>. QED  BY <1>1, <3>1
  <2>4. CASE RecordPhysicalCount(q, n)
    <3>1. /\ EnsureOpen(q) /\ Change(q, [periods[q] EXCEPT !.physical = n])
          /\ [periods[q] EXCEPT !.physical = n].opening = periods[q].opening
      BY <2>1, <2>4 DEF RecordPhysicalCount, Period
    <3>. QED  BY <1>1, <3>1
  <2>5. CASE Close(q)
    <3>1. /\ EnsureOpen(q) /\ Change(q, [periods[q] EXCEPT !.closed = TRUE])
          /\ [periods[q] EXCEPT !.closed = TRUE].opening = periods[q].opening
      BY <2>1, <2>5 DEF Close, Period
    <3>. QED  BY <1>1, <3>1
  <2>. QED  BY <1>5, <2>2, <2>3, <2>4, <2>5
<1>. QED
  BY <1>2, <1>3, <1>4, <1>5 DEF PeriodsNext

\* Along such a line what Accounted adds up is what the periods say.
LEMMA Balanced == PeriodInv /\ OriginInv => SlotsBalance
<1> SUFFICES ASSUME PeriodInv, OriginInv PROVE SlotsBalance
  OBVIOUS
<1> DEFINE D == DOMAIN periods
           moved(q) == periods[q].net - periods[q].consumption
           body(f) == [q \in D |->
             moved(q) + (IF precedes[q] = None THEN 0
                         ELSE f[precedes[q]] + Variance(periods[precedes[q]]))]
           said == [q \in D |-> Theoretical(periods[q])]
<1>1. ASSUME NEW q \in D
      PROVE  /\ periods[q] \in Period /\ moved(q) \in Int /\ said[q] \in Int
             /\ said[q] = moved(q) + periods[q].opening
             /\ precedes[q] = None => periods[q].opening = 0
             /\ precedes[q] # None =>
                  /\ precedes[q] \in D
                  /\ periods[q].opening = said[precedes[q]] + Variance(periods[precedes[q]])
  <2>1. \A r \in D : periods[r] \in Period /\ said[r] = Theoretical(periods[r])
    BY DEF PeriodInv, PeriodsTypeOK
  <2>2. \A r \in D : said[r] \in Int /\ said[r] = moved(r) + periods[r].opening /\ moved(r) \in Int
    BY <2>1 DEF Theoretical, Period
  <2>3. precedes[q] = None => periods[q].opening = 0
    BY DEF OriginInv
  <2>4. ASSUME precedes[q] # None
        PROVE  /\ precedes[q] \in D
               /\ periods[q].opening = said[precedes[q]] + Variance(periods[precedes[q]])
    <3>1. precedes[q] \in D /\ periods[precedes[q]].physical = periods[q].opening
      BY <2>4 DEF PeriodInv, PeriodsFollowOn
    <3>2. periods[q].opening \in Nat
      BY <2>1 DEF Period
    <3>. QED  BY <2>1, <2>2, <3>1, <3>2 DEF Variance
  <2>. QED  BY <2>1, <2>2, <2>3, <2>4
<1>2. said = body(said)
  <2>1. \A q \in D : body(said)[q] = said[q]
    BY <1>1
  <2>. QED  BY <2>1
<1>3. Accounted = CHOOSE f : f = body(f)
  BY DEF Accounted
<1>4. Accounted = body(Accounted)
  <2> HIDE DEF body, said
  <2>. QED  BY <1>2, <1>3
<1>5. ASSUME NEW q \in D
      PROVE  /\ precedes[q] = None => Accounted[q] = moved(q)
             /\ precedes[q] # None => Accounted[q] =
                  moved(q) + (Accounted[precedes[q]] + Variance(periods[precedes[q]]))
  <2>1. Accounted[q] = body(Accounted)[q] /\ moved(q) \in Int
    BY <1>1, <1>4
  <2> HIDE DEF moved
  <2>2. body(Accounted)[q] =
          moved(q) + (IF precedes[q] = None THEN 0
                      ELSE Accounted[precedes[q]] + Variance(periods[precedes[q]]))
    OBVIOUS
  <2> HIDE DEF body
  <2>3. CASE precedes[q] = None
    BY <2>1, <2>2, <2>3
  <2>4. CASE precedes[q] # None
    BY <2>1, <2>2, <2>4
  <2>. QED  BY <2>3, <2>4
<1> DEFINE off == {q \in D : Accounted[q] # said[q]}
<1> HIDE DEF moved, said, body
<1>6. off = {}
  <2> SUFFICES ASSUME off # {} PROVE FALSE
    OBVIOUS
  <2>1. PICK q \in off : precedes[q] \notin off
    <3>1. off \in SUBSET DOMAIN periods
      OBVIOUS
    <3>. QED  BY <3>1 DEF OriginInv
  <2>2. precedes[q] # None => Accounted[precedes[q]] = said[precedes[q]]
    BY <1>1, <2>1
  <2>3. Accounted[q] = said[q]
    BY <1>1, <1>5, <2>2
  <2>. QED  BY <2>3
<1>7. \A q \in D : Accounted[q] = Theoretical(periods[q])
  BY <1>6 DEF said
<1>. QED  BY <1>7 DEF SlotsBalance

\* Over any number of periods, counts and late movements, what a position was
\* left with is everything loaded less everything unloaded and consumed,
\* corrected by the variances (periods.py: theoretical_final_quantity, variance).
THEOREM UnitsAddUp == PeriodsSpec => []SlotsBalance
<1>1. PeriodsInit => OriginInv
  BY DEF PeriodsInit, OriginInv
<1>. QED  BY <1>1, Balanced, OriginStep, PeriodInvariance, PTL DEF PeriodsSpec

----------------------------------------------------------------------------
(* Counts: the lines a count has for the figures recorded in it *)

OneLineEach(lines) ==
  \A a, b \in DOMAIN lines : lines[a].product = lines[b].product => a = b

\* What is kept of the first i lines.
KeptOf(kept, lines, p, i) ==
  /\ kept \in Seq(CountLine)
  /\ Range(kept) = {lines[j] : j \in {k \in 1..i : lines[k].product # p}}
  /\ OneLineEach(kept)

LEMMA KeepNext ==
  ASSUME NEW N \in Nat, NEW lines \in [1..N -> CountLine], OneLineEach(lines), NEW p,
         NEW i \in 1..N, NEW kept, KeptOf(kept, lines, p, i - 1)
  PROVE  KeptOf(IF lines[i].product = p THEN kept ELSE Append(kept, lines[i]), lines, p, i)
<1> DEFINE next == lines[i]
           places(n) == {k \in 1..n : lines[k].product # p}
<1>1. next \in CountLine /\ \A k \in 1..i : k \in 1..(i-1) \/ k = i
  OBVIOUS
<1>2. CASE next.product = p
  <2>1. places(i) = places(i - 1)
    BY <1>1, <1>2
  <2> HIDE DEF places
  <2>2. Range(kept) = {lines[j] : j \in places(i)}
    BY <2>1 DEF KeptOf, places
  <2>. QED  BY <1>2, <2>2 DEF KeptOf, places
<1>3. CASE next.product # p
  <2> DEFINE more == Append(kept, next)
             n == Len(kept)
  <2>1. /\ more \in Seq(CountLine) /\ DOMAIN more = 1..(n + 1) /\ n \in Nat
        /\ DOMAIN kept = 1..n
        /\ more[n + 1] = next /\ \A k \in 1..n : more[k] = kept[k]
    BY <1>1 DEF KeptOf
  <2> HIDE DEF more, n
  <2>2. Range(more) = Range(kept) \cup {next}
    <3>1. \A k \in DOMAIN more : k \in DOMAIN kept \/ k = n + 1
      BY <2>1
    <3>2. \A k \in DOMAIN kept : k \in DOMAIN more /\ more[k] = kept[k]
      BY <2>1
    <3>3. n + 1 \in DOMAIN more
      BY <2>1
    <3>. QED  BY <2>1, <3>1, <3>2, <3>3 DEF Range
  <2>3. places(i) = places(i - 1) \cup {i}
    BY <1>1, <1>3
  <2>4. Range(kept) = {lines[j] : j \in places(i - 1)}
    BY DEF KeptOf
  <2>5. Range(more) = {lines[j] : j \in places(i)}
    <3> HIDE DEF places
    <3>. QED  BY <2>2, <2>3, <2>4
  <2>6. \A k \in DOMAIN kept : kept[k].product # next.product
    <3> SUFFICES ASSUME NEW k \in DOMAIN kept PROVE kept[k].product # next.product
      OBVIOUS
    <3>1. PICK j \in 1..(i-1) : kept[k] = lines[j]
      BY <2>4 DEF Range
    <3>2. j \in DOMAIN lines /\ i \in DOMAIN lines /\ j # i
      OBVIOUS
    <3>. QED  BY <3>1, <3>2 DEF OneLineEach
  <2>7. OneLineEach(more)
    <3>1. \A k \in DOMAIN more : k \in DOMAIN kept \/ k = n + 1
      BY <2>1
    <3>2. \A k \in DOMAIN kept : more[k] = kept[k]
      BY <2>1
    <3>3. OneLineEach(kept)
      BY DEF KeptOf
    <3>. QED  BY <2>1, <2>6, <3>1, <3>2, <3>3 DEF OneLineEach
  <2>8. KeptOf(more, lines, p, i)
    BY <2>1, <2>5, <2>7 DEF KeptOf
  <2>. QED  BY <1>3, <2>8 DEF more
<1>. QED  BY <1>2, <1>3

\* Of lines with one product each, those of the other products stay, each once.
LEMMA OthersAre ==
  ASSUME NEW lines \in Seq(CountLine), OneLineEach(lines), NEW p
  PROVE  /\ OtherLines(lines, p) \in Seq(CountLine)
         /\ Range(OtherLines(lines, p)) = {x \in Range(lines) : x.product # p}
         /\ OneLineEach(OtherLines(lines, p))
<1> DEFINE N == Len(lines)
           D == 1..N
           U == Seq(CountLine)
           next(kept, i) == IF lines[i].product = p THEN kept ELSE Append(kept, lines[i])
           P(g) == g = [r \in SUBSET D |-> IF r = {} THEN <<>>
                          ELSE next(g[r \ {Max(r)}], Max(r))]
           others == CHOOSE g : P(g)
<1>0. N \in Nat /\ DOMAIN lines = D /\ lines \in [1..N -> CountLine]
  OBVIOUS
<1>1. OtherLines(lines, p) = others[D]
  BY <1>0 DEF OtherLines, FoldLeft, MapThenFoldSet
<1>2. ASSUME NEW kept \in U, NEW i \in D
      PROVE  next(kept, i) \in U
  BY <1>0
<1>3. <<>> \in U
  OBVIOUS
<1> HIDE DEF N, next, U
<1>4. P(others)
  <2> DEFINE step == [x \in U \X D |-> next(x[1], x[2])]
  <2>1. step \in [U \X D -> U]
    BY <1>2
  <2>2. PICK g \in [SUBSET D -> U] : Runs(<<>>, step, D, g)
    <3> HIDE DEF step
    <3>. QED  BY <1>0, <1>3, <2>1, RunsExist
  <2>3. ASSUME NEW r \in SUBSET D, r # {}
        PROVE  step[<<g[r \ {Max(r)}], Max(r)>>] = next(g[r \ {Max(r)}], Max(r))
    <3>1. Max(r) \in D /\ g[r \ {Max(r)}] \in U
      BY <1>0, <2>2, <2>3, MaxIn
    <3>. QED  BY <3>1
  <2>4. P(g)
    <3> HIDE DEF step
    <3>. QED  BY <2>2, <2>3 DEF Runs
  <2>. QED  BY <2>4
<1> HIDE DEF others
<1>5. ASSUME NEW r \in SUBSET D
      PROVE  /\ r = {} => others[r] = <<>>
             /\ r # {} => others[r] = next(others[r \ {Max(r)}], Max(r))
  <2> DEFINE body(f) == [u \in SUBSET D |-> IF u = {} THEN <<>>
                           ELSE next(f[u \ {Max(u)}], Max(u))]
  <2>1. others = body(others)
    BY <1>4
  <2>2. body(others)[r] = IF r = {} THEN <<>> ELSE next(others[r \ {Max(r)}], Max(r))
    OBVIOUS
  <2>. QED  BY <2>1, <2>2
<1> DEFINE S == {i \in 0..N : KeptOf(others[1..i], lines, p, i)}
<1>6. 0 \in S
  <2>1. 1..0 = {} /\ {} \in SUBSET D
    OBVIOUS
  <2>2. others[{}] = <<>>
    BY <1>5, <2>1
  <2>3. KeptOf(<<>>, lines, p, 0)
    <3>1. <<>> \in Seq(CountLine) /\ DOMAIN <<>> = {}
      OBVIOUS
    <3>2. Range(<<>>) = {} /\ OneLineEach(<<>>)
      BY <3>1 DEF Range, OneLineEach
    <3>. QED  BY <2>1, <3>1, <3>2 DEF KeptOf
  <2>. QED  BY <1>0, <2>1, <2>2, <2>3
<1>7. ASSUME NEW i \in 1..N, i - 1 \in S
      PROVE  i \in S
  <2>1. 1..i \in SUBSET D /\ 1..i # {} /\ Max(1..i) = i /\ (1..i) \ {i} = 1..(i-1)
    BY <1>0, PlacesUpTo
  <2>2. others[1..i] = next(others[1..(i-1)], i)
    BY <1>5, <2>1
  <2>3. KeptOf(others[1..(i-1)], lines, p, i - 1)
    BY <1>7
  <2>4. KeptOf(next(others[1..(i-1)], i), lines, p, i)
    BY <1>0, <2>3, KeepNext DEF next
  <2>5. i \in 0..N
    BY <1>0
  <2>. QED  BY <2>2, <2>4, <2>5
<1> HIDE DEF S
<1>8. N \in S
  <2>1. \A i \in 0..N : i \in S
    BY <1>0, <1>6, <1>7, UpTo
  <2>. QED  BY <1>0, <2>1
<1>9. KeptOf(OtherLines(lines, p), lines, p, N)
  BY <1>1, <1>8 DEF S
<1>10. {lines[j] : j \in {k \in 1..N : lines[k].product # p}} = {x \in Range(lines) : x.product # p}
  BY <1>0 DEF Range
<1>. QED  BY <1>9, <1>10 DEF KeptOf

\* The lines hold the last figures, each product once.
HoldsLast(lines, figures) ==
  /\ OneLineEach(lines)
  /\ Range(lines) = {figures[i] : i \in LastFigures(figures)}

\* A figure replaces what was last found of its product.
LEMMA FigureReplaces ==
  ASSUME NEW lines \in Seq(CountLine), NEW figures \in Seq(CountLine),
         HoldsLast(lines, figures), NEW line \in CountLine
  PROVE  /\ WithFigures(lines, line) \in Seq(CountLine)
         /\ HoldsLast(WithFigures(lines, line), Append(figures, line))
<1> DEFINE others == OtherLines(lines, line.product)
           more   == Append(others, line)
           n      == Len(others)
           found  == Append(figures, line)
           new    == Len(figures) + 1
<1>1. /\ others \in Seq(CountLine) /\ OneLineEach(others)
      /\ Range(others) = {x \in Range(lines) : x.product # line.product}
  BY OthersAre DEF HoldsLast
<1> HIDE DEF others
<1>2. /\ more \in Seq(CountLine) /\ DOMAIN others = 1..n /\ n \in Nat
      /\ DOMAIN more = 1..(n + 1)
      /\ more[n + 1] = line /\ \A k \in 1..n : more[k] = others[k]
  BY <1>1
<1>3. /\ DOMAIN found = DOMAIN figures \cup {new} /\ new \notin DOMAIN figures
      /\ found[new] = line /\ \A i \in DOMAIN figures : found[i] = figures[i] /\ new > i /\ ~(i > new)
      /\ ~(new > new)
  OBVIOUS
<1> HIDE DEF more, n, found, new
<1>4. Range(more) = Range(others) \cup {line}
  <2>1. \A k \in DOMAIN more : k \in DOMAIN others \/ k = n + 1
    BY <1>2
  <2>2. (\A k \in DOMAIN others : k \in DOMAIN more /\ more[k] = others[k]) /\ n + 1 \in DOMAIN more
    BY <1>2
  <2>. QED  BY <1>2, <2>1, <2>2 DEF Range
<1>5. OneLineEach(more)
  <2>1. \A k \in DOMAIN others : others[k].product # line.product
    BY <1>1 DEF Range
  <2>2. \A k \in DOMAIN more : k \in DOMAIN others \/ k = n + 1
    BY <1>2
  <2>3. \A k \in DOMAIN others : more[k] = others[k]
    BY <1>2
  <2>. QED  BY <1>1, <1>2, <2>1, <2>2, <2>3 DEF OneLineEach
<1>6. LastFigures(found) =
        {i \in LastFigures(figures) : figures[i].product # line.product} \cup {new}
  BY <1>3 DEF LastFigures
<1>7. {found[i] : i \in LastFigures(found)} =
        {x \in {figures[i] : i \in LastFigures(figures)} : x.product # line.product} \cup {line}
  <2> DEFINE kept == {i \in LastFigures(figures) : figures[i].product # line.product}
  <2>1. \A i \in kept : found[i] = figures[i]
    BY <1>3 DEF LastFigures
  <2>2. {found[i] : i \in kept \cup {new}} = {figures[i] : i \in kept} \cup {line}
    <3> HIDE DEF kept
    <3>. QED  BY <1>3, <2>1
  <2>3. {figures[i] : i \in kept} =
          {x \in {figures[i] : i \in LastFigures(figures)} : x.product # line.product}
    OBVIOUS
  <2>4. LastFigures(found) = kept \cup {new}
    BY <1>6
  <2> HIDE DEF kept
  <2>. QED  BY <2>2, <2>3, <2>4
<1>8. Range(more) = {found[i] : i \in LastFigures(found)}
  BY <1>1, <1>4, <1>7 DEF HoldsLast
<1>. QED  BY <1>2, <1>5, <1>8 DEF HoldsLast, WithFigures, more, others, found

\* So there are as many lines as products counted.
LEMMA AsManyLines ==
  ASSUME NEW lines \in Seq(CountLine), NEW figures \in Seq(CountLine), HoldsLast(lines, figures)
  PROVE  Len(lines) = Cardinality(LastFigures(figures))
<1> DEFINE n    == Len(lines)
           last == LastFigures(figures)
           at   == [k \in 1..n |-> CHOOSE i \in last : figures[i] = lines[k]]
<1>1. n \in Nat /\ DOMAIN lines = 1..n
  OBVIOUS
<1> HIDE DEF n
<1>2. ASSUME NEW k \in 1..n
      PROVE  at[k] \in last /\ figures[at[k]] = lines[k]
  <2>1. lines[k] \in {figures[i] : i \in last}
    BY <1>1 DEF HoldsLast, Range
  <2>2. \E i \in last : figures[i] = lines[k]
    BY <2>1
  <2>. QED  BY <2>2
<1>3. ASSUME NEW i \in last, NEW j \in last, figures[i].product = figures[j].product
      PROVE  i = j
  <2>1. i \in Int /\ j \in Int
    BY DEF LastFigures
  <2>2. ~(i > j) /\ ~(j > i)
    BY <1>3 DEF LastFigures
  <2>. QED  BY <2>1, <2>2
<1> HIDE DEF last
<1>4. at \in [1..n -> last]
  BY <1>2
<1> HIDE DEF at
<1>5. ASSUME NEW a \in 1..n, NEW b \in 1..n, at[a] = at[b]
      PROVE  a = b
  <2>1. lines[a] = lines[b]
    BY <1>2, <1>5
  <2>. QED  BY <1>1, <2>1 DEF HoldsLast, OneLineEach
<1>6. ASSUME NEW i \in last
      PROVE  \E k \in 1..n : at[k] = i
  <2>1. figures[i] \in Range(lines)
    BY DEF HoldsLast, last
  <2>2. PICK k \in 1..n : figures[i] = lines[k]
    BY <1>1, <2>1 DEF Range
  <2>3. at[k] = i
    BY <1>2, <1>3, <2>2
  <2>. QED  BY <2>3
<1>7. at \in Bijection(1..n, last)
  BY <1>4, <1>5, <1>6 DEF Bijection, Injection, Surjection, IsInjective
<1>8. Cardinality(last) = n
  BY <1>1, <1>7, FS_CountingElements DEF ExistsBijection
<1>. QED  BY <1>8 DEF last, n

CountInv ==
  /\ CountsTypeOK
  /\ \A c \in DOMAIN counts : HoldsLast(counts[c].lines, recorded[c])

LEMMA CountStep == CountInv /\ [CountsNext]_countVars => CountInv'
<1> SUFFICES ASSUME CountInv, [CountsNext]_countVars PROVE CountInv'
  OBVIOUS
<1>0. ASSUME NEW c \in DOMAIN counts
      PROVE  /\ c \in CountIds /\ counts[c] \in Count /\ counts[c].lines \in Seq(CountLine)
             /\ recorded[c] \in Seq(CountLine)
             /\ HoldsLast(counts[c].lines, recorded[c])
  BY DEF CountInv, CountsTypeOK, Count
<1>1. CASE UNCHANGED countVars
  BY <1>1 DEF countVars, CountInv, CountsTypeOK
<1>2. ASSUME NEW c \in CountIds, CreateInventoryCount(c)
      PROVE  CountInv'
  <2> DEFINE new == [status |-> "IN_PROGRESS", lines |-> <<>>]
  <2>1. new \in Count /\ new.lines = <<>> /\ <<>> \in Seq(CountLine)
    BY DEF Count, CountStatuses
  <2>2. HoldsLast(<<>>, <<>>)
    <3>1. DOMAIN <<>> = {}
      OBVIOUS
    <3>. QED  BY <3>1 DEF HoldsLast, OneLineEach, LastFigures, Range
  <2>3. DOMAIN recorded = DOMAIN counts
    BY DEF CountInv, CountsTypeOK
  <2>4. /\ c \notin DOMAIN counts
        /\ counts' = [d \in DOMAIN counts \cup {c} |-> IF d = c THEN new ELSE counts[d]]
        /\ recorded' = [d \in DOMAIN counts \cup {c} |-> IF d = c THEN <<>> ELSE recorded[d]]
    BY <1>2, <2>3 DEF CreateInventoryCount, With
  <2> HIDE DEF new
  <2>5. CountsTypeOK'
    BY <1>0, <2>1, <2>4 DEF CountsTypeOK
  <2>6. ASSUME NEW d \in DOMAIN counts'
        PROVE  HoldsLast(counts'[d].lines, recorded'[d])
    <3>1. CASE d = c
      BY <2>1, <2>2, <2>4, <3>1
    <3>2. CASE d # c
      <4>1. d \in DOMAIN counts /\ counts'[d] = counts[d] /\ recorded'[d] = recorded[d]
        BY <2>4, <3>2
      <4>. QED  BY <1>0, <4>1
    <3>. QED  BY <3>1, <3>2
  <2>. QED  BY <2>5, <2>6 DEF CountInv
<1>3. ASSUME NEW c \in CountIds, NEW line \in CountLine, RecordInventoryCountLine(c, line)
      PROVE  CountInv'
  <2> DEFINE lines == WithFigures(counts[c].lines, line)
             figures == Append(recorded[c], line)
  <2>1. c \in DOMAIN counts /\ DOMAIN recorded = DOMAIN counts
    BY <1>3 DEF RecordInventoryCountLine, EnsureInProgress, CountInv, CountsTypeOK
  <2>2. lines \in Seq(CountLine) /\ HoldsLast(lines, figures) /\ figures \in Seq(CountLine)
    BY <1>0, <2>1, FigureReplaces
  <2>3. /\ counts' = [counts EXCEPT ![c] = [counts[c] EXCEPT !.lines = lines]]
        /\ recorded' = [recorded EXCEPT ![c] = figures]
    BY <1>3 DEF RecordInventoryCountLine
  <2> HIDE DEF lines, figures
  <2>4. [counts[c] EXCEPT !.lines = lines] \in Count /\ [counts[c] EXCEPT !.lines = lines].lines = lines
    BY <1>0, <2>1, <2>2 DEF Count
  <2>5. CountsTypeOK'
    BY <1>0, <2>1, <2>2, <2>3, <2>4 DEF CountInv, CountsTypeOK
  <2>6. ASSUME NEW d \in DOMAIN counts'
        PROVE  HoldsLast(counts'[d].lines, recorded'[d])
    <3>1. d \in DOMAIN counts /\ d \in DOMAIN recorded
      BY <2>1, <2>3
    <3>2. CASE d = c
      BY <2>1, <2>2, <2>3, <2>4, <3>2
    <3>3. CASE d # c
      <4>1. counts'[d] = counts[d] /\ recorded'[d] = recorded[d]
        BY <2>3, <3>1, <3>3
      <4>. QED  BY <1>0, <3>1, <4>1
    <3>. QED  BY <3>2, <3>3
  <2>. QED  BY <2>5, <2>6 DEF CountInv
<1>4. ASSUME NEW c \in CountIds, NEW status \in {"COMPLETED", "CANCELLED"}, EndCount(c, status)
      PROVE  CountInv'
  <2> DEFINE ended == [counts[c] EXCEPT !.status = status]
  <2>1. c \in DOMAIN counts
    BY <1>4 DEF EndCount, EnsureInProgress
  <2>2. counts' = [counts EXCEPT ![c] = ended] /\ recorded' = recorded
    BY <1>4 DEF EndCount
  <2>3. ended \in Count /\ ended.lines = counts[c].lines
    BY <1>0, <2>1 DEF Count, CountStatuses
  <2> HIDE DEF ended
  <2>4. CountsTypeOK'
    BY <1>0, <2>1, <2>2, <2>3 DEF CountInv, CountsTypeOK
  <2>5. ASSUME NEW d \in DOMAIN counts'
        PROVE  HoldsLast(counts'[d].lines, recorded'[d])
    <3>1. d \in DOMAIN counts /\ counts'[d].lines = counts[d].lines
      BY <2>1, <2>2, <2>3
    <3>. QED  BY <1>0, <2>2, <3>1
  <2>. QED  BY <2>4, <2>5 DEF CountInv
<1>. QED
  BY <1>1, <1>2, <1>3, <1>4 DEF CountsNext, CompleteInventoryCount, CancelInventoryCount

LEMMA CountInvariance == CountsSpec => []CountInv
<1>1. CountsInit => CountInv
  BY DEF CountsInit, CountInv, CountsTypeOK
<1>. QED  BY <1>1, CountStep, PTL DEF CountsSpec

\* Counts stay well typed over every order of recording, completing and cancelling
\* (domain/inventory/entities.py, InventoryCount).
THEOREM CountsWellTyped == CountsSpec => []CountsTypeOK
<1>1. CountInv => CountsTypeOK
  BY DEF CountInv
<1>. QED  BY <1>1, CountInvariance, PTL

\* A count has one line for each product, with the figures found last, however
\* often and in whatever order products are counted again (InventoryCount.record_line).
THEOREM LastFiguresAreKept == CountsSpec => []LastFiguresCount
<1>1. CountInv => LastFiguresCount
  <2> SUFFICES ASSUME CountInv, NEW c \in DOMAIN counts
               PROVE  /\ Len(counts[c].lines) = Cardinality(LastFigures(recorded[c]))
                      /\ Range(counts[c].lines) =
                           {recorded[c][i] : i \in LastFigures(recorded[c])}
    BY DEF LastFiguresCount
  <2>1. /\ counts[c].lines \in Seq(CountLine) /\ recorded[c] \in Seq(CountLine)
        /\ HoldsLast(counts[c].lines, recorded[c])
    BY DEF CountInv, CountsTypeOK, Count
  <2>. QED  BY <2>1, AsManyLines DEF HoldsLast
<1>. QED  BY <1>1, CountInvariance, PTL

----------------------------------------------------------------------------
(* Snack sales: what has been sold per slot, and in all *)

\* What the sale at place i counts for the slot.
SoldAt(sales, slot, i) == IF sales[i].slot = slot THEN sales[i].quantity ELSE 0

\* a[i] is what the first i of the N sales count for the slot.
Counts(a, N, sales, slot) ==
  /\ a[0] = 0
  /\ \A i \in 1..N : a[i] = a[i-1] + SoldAt(sales, slot, i)
  /\ \A i \in 0..N : a[i] \in Int
  /\ TotalSnackConsumption(sales, slot) = a[N]

\* The total goes through the sales one by one.
LEMMA ConsumptionRuns ==
  ASSUME NEW slot, NEW N \in Nat, NEW sales \in [1..N -> SnackSale]
  PROVE  \E a : Counts(a, N, sales, slot)
<1> DEFINE D == 1..N
           sold(i) == IF sales[i].slot = slot THEN sales[i].quantity ELSE 0
           P(g) == g = [r \in SUBSET D |->
                          IF r = {} THEN 0 ELSE g[r \ {Max(r)}] + sold(Max(r))]
           total == CHOOSE g : P(g)
<1>1. TotalSnackConsumption(sales, slot) = total[D]
  <2>1. DOMAIN sales = D
    OBVIOUS
  <2>. QED  BY <2>1 DEF TotalSnackConsumption, FoldLeft, MapThenFoldSet
<1>2. \A i \in D : sold(i) \in Int
  BY SalesAssumption DEF SnackSale, Amounts
<1>3. P(total)
  <2> DEFINE step == [x \in Int \X D |-> x[1] + sold(x[2])]
  <2>1. step \in [Int \X D -> Int]
    BY <1>2
  <2>2. PICK g \in [SUBSET D -> Int] : Runs(0, step, D, g)
    <3> DEFINE U == Int
    <3>1. 0 \in U /\ step \in [U \X (1..N) -> U]
      BY <2>1
    <3> HIDE DEF step, sold, U
    <3>2. \E g \in [SUBSET (1..N) -> U] : Runs(0, step, 1..N, g)
      BY <3>1, RunsExist
    <3>. QED  BY <3>2 DEF U
  <2>3. ASSUME NEW r \in SUBSET D, r # {}
        PROVE  step[<<g[r \ {Max(r)}], Max(r)>>] = g[r \ {Max(r)}] + sold(Max(r))
    <3>1. Max(r) \in D
      BY <2>3, MaxIn
    <3>2. g[r \ {Max(r)}] \in Int
      BY <2>2
    <3> HIDE DEF sold
    <3>. QED  BY <3>1, <3>2
  <2>4. P(g)
    <3> HIDE DEF step, sold
    <3>. QED  BY <2>2, <2>3 DEF Runs
  <2>. QED  BY <2>4
<1> HIDE DEF total, sold
<1>4. ASSUME NEW r \in SUBSET D
      PROVE  total[r] = IF r = {} THEN 0 ELSE total[r \ {Max(r)}] + sold(Max(r))
  <2> DEFINE body(f) == [u \in SUBSET D |-> IF u = {} THEN 0 ELSE f[u \ {Max(u)}] + sold(Max(u))]
  <2>1. total = body(total)
    BY <1>3
  <2>2. body(total)[r] = IF r = {} THEN 0 ELSE total[r \ {Max(r)}] + sold(Max(r))
    OBVIOUS
  <2>. QED  BY <2>1, <2>2
<1> DEFINE a == [i \in 0..N |-> total[1..i]]
<1>5. a[0] = 0
  <2>1. 1..0 = {} /\ {} \in SUBSET D /\ a[0] = total[1..0]
    OBVIOUS
  <2>2. total[{}] = 0
    BY <1>4, <2>1
  <2>. QED  BY <2>1, <2>2
<1>6. ASSUME NEW i \in 1..N
      PROVE  a[i] = a[i-1] + sold(i)
  <2>1. 1..i \in SUBSET D /\ 1..i # {} /\ Max(1..i) = i /\ (1..i) \ {i} = 1..(i-1)
    BY PlacesUpTo
  <2>2. total[1..i] = total[1..(i-1)] + sold(i)
    BY <1>4, <2>1
  <2>. QED  BY <2>2
<1>7. TotalSnackConsumption(sales, slot) = a[N]
  BY <1>1
<1> HIDE DEF a
<1>8. \A i \in 0..N : a[i] \in Int
  <2> DEFINE S == {i \in 0..N : a[i] \in Int}
  <2>1. 0 \in S /\ \A i \in 1..N : i - 1 \in S => i \in S
    BY <1>2, <1>5, <1>6
  <2> HIDE DEF S
  <2>2. \A i \in 0..N : i \in S
    BY <2>1, UpTo
  <2>. QED  BY <2>2 DEF S
<1>9. Counts(a, N, sales, slot)
  BY <1>5, <1>6, <1>7, <1>8 DEF sold, SoldAt, Counts
<1>. QED  BY <1>9

\* A sale that is registered adds its units to the total of its slot.
LEMMA ConsumptionAppend ==
  ASSUME NEW slot, NEW sales \in Seq(SnackSale), NEW sale \in SnackSale
  PROVE  /\ TotalSnackConsumption(sales, slot) \in Int
         /\ TotalSnackConsumption(Append(sales, sale), slot) =
              TotalSnackConsumption(sales, slot) + (IF sale.slot = slot THEN sale.quantity ELSE 0)
<1> DEFINE N == Len(sales)
           more == Append(sales, sale)
<1>1. /\ N \in Nat /\ sales \in [1..N -> SnackSale] /\ more \in [1..(N + 1) -> SnackSale]
      /\ more[N + 1] = sale /\ \A i \in 1..N : more[i] = sales[i]
  <2>1. N \in Nat /\ sales \in [1..N -> SnackSale]
    OBVIOUS
  <2>2. more \in Seq(SnackSale) /\ Len(more) = N + 1
    OBVIOUS
  <2>3. more \in [1..(N + 1) -> SnackSale]
    <3> HIDE DEF more, N
    <3>. QED  BY <2>2
  <2>4. more[N + 1] = sale /\ \A i \in 1..N : more[i] = sales[i]
    OBVIOUS
  <2>. QED  BY <2>1, <2>3, <2>4
<1> DEFINE n == N + 1
<1> HIDE DEF N, more
<1>2. PICK a : Counts(a, N, sales, slot)
  BY <1>1, ConsumptionRuns
<1>3. PICK b : Counts(b, n, more, slot)
  <2>1. n \in Nat /\ more \in [1..n -> SnackSale]
    BY <1>1
  <2> HIDE DEF n
  <2>. QED  BY <2>1, ConsumptionRuns
<1>4. \A i \in 0..N : a[i] = b[i]
  <2> DEFINE S == {i \in 0..N : a[i] = b[i]}
  <2>1. 0 \in S
    BY <1>1, <1>2, <1>3 DEF Counts
  <2>2. ASSUME NEW i \in 1..N, i - 1 \in S
        PROVE  i \in S
    <3>1. SoldAt(more, slot, i) = SoldAt(sales, slot, i)
      BY <1>1 DEF SoldAt
    <3>2. i \in 1..(N+1) /\ a[i-1] = b[i-1] /\ i \in 0..N
      BY <1>1, <2>2
    <3>. QED  BY <1>2, <1>3, <3>1, <3>2 DEF Counts
  <2> HIDE DEF S
  <2>3. \A i \in 0..N : i \in S
    BY <1>1, <2>1, <2>2, UpTo
  <2>. QED  BY <2>3 DEF S
<1>5. /\ N \in 0..N /\ N + 1 \in 1..(N+1) /\ (N + 1) - 1 = N
      /\ SoldAt(more, slot, N + 1) = IF sale.slot = slot THEN sale.quantity ELSE 0
  BY <1>1 DEF SoldAt
<1>. QED  BY <1>2, <1>3, <1>4, <1>5 DEF more, Counts

\* Both sums as totals of functions.
PerSlot(sales) == [slot \in SaleSlots |-> TotalSnackConsumption(sales, slot)]
PerSale(sales) == [i \in DOMAIN sales |-> sales[i].quantity]

LEMMA SumsOfSales ==
  ASSUME NEW sales
  PROVE  /\ SoldPerSlot(sales) = Total(PerSlot(sales), SaleSlots)
         /\ UnitsSold(sales) = Total(PerSale(sales), DOMAIN sales)
<1>1. SoldPerSlot(sales) = Total(PerSlot(sales), SaleSlots)
  <2> DEFINE S == SaleSlots
             f == PerSlot(sales)
             P(g) == g = [s \in SUBSET S |-> IF s = {} THEN 0
                            ELSE TotalSnackConsumption(sales, Pick(s)) + g[s \ {Pick(s)}]]
  <2>1. SoldPerSlot(sales) = (CHOOSE g : P(g))[S]
    BY DEF SoldPerSlot, MapThenSumSet, MapThenFoldSet, Pick
  <2>2. \A s \in SUBSET S : s # {} => TotalSnackConsumption(sales, Pick(s)) = f[Pick(s)]
    BY PickIn DEF PerSlot
  <2>3. ASSUME NEW g PROVE P(g) <=> Sums(f, S, g)
    <3> HIDE DEF f, S
    <3>. QED  BY <2>2 DEF Sums
  <2> HIDE DEF P, f, S
  <2>4. (CHOOSE g : P(g)) = (CHOOSE g : Sums(f, S, g))
    BY <2>3
  <2>. QED  BY <2>1, <2>4, TotalSums DEF S, f
<1>2. UnitsSold(sales) = Total(PerSale(sales), DOMAIN sales)
  <2> DEFINE S == DOMAIN sales
             f == PerSale(sales)
             P(g) == g = [s \in SUBSET S |-> IF s = {} THEN 0
                            ELSE sales[Pick(s)].quantity + g[s \ {Pick(s)}]]
  <2>1. UnitsSold(sales) = (CHOOSE g : P(g))[S]
    BY DEF UnitsSold, MapThenSumSet, MapThenFoldSet, Pick
  <2>2. \A s \in SUBSET S : s # {} => sales[Pick(s)].quantity = f[Pick(s)]
    BY PickIn DEF PerSale
  <2>3. ASSUME NEW g PROVE P(g) <=> Sums(f, S, g)
    <3> HIDE DEF f, S
    <3>. QED  BY <2>2 DEF Sums
  <2> HIDE DEF P, f, S
  <2>4. (CHOOSE g : P(g)) = (CHOOSE g : Sums(f, S, g))
    BY <2>3
  <2>. QED  BY <2>1, <2>4, TotalSums DEF S, f
<1>. QED  BY <1>1, <1>2

\* A sale adds the same to both.
LEMMA SaleAddsUp ==
  ASSUME NEW sales \in Seq(SnackSale), NEW sale \in SnackSale,
         SoldPerSlot(sales) = UnitsSold(sales)
  PROVE  SoldPerSlot(Append(sales, sale)) = UnitsSold(Append(sales, sale))
<1> DEFINE more  == Append(sales, sale)
           D     == DOMAIN sales
           new   == Len(sales) + 1
           units == sale.quantity
           part  == [slot \in SaleSlots |-> IF sale.slot = slot THEN units ELSE 0]
<1>1. units \in Int /\ sale.slot \in SaleSlots
  BY SalesAssumption DEF SnackSale, Amounts
<1>2. Total(PerSlot(more), SaleSlots) = Total(PerSlot(sales), SaleSlots) + units
  <2>1. \A slot \in SaleSlots :
          /\ PerSlot(sales)[slot] \in Int /\ part[slot] \in Int
          /\ PerSlot(more)[slot] = PerSlot(sales)[slot] + part[slot]
    BY <1>1, ConsumptionAppend DEF PerSlot
  <2>2. Total(part, SaleSlots) = units
    <3>1. /\ \A slot \in SaleSlots : part[slot] \in Int
          /\ \A slot \in SaleSlots \ {sale.slot} : part[slot] = 0
          /\ part[sale.slot] = units /\ {sale.slot} \in SUBSET SaleSlots
      BY <1>1
    <3> HIDE DEF part, units
    <3>2. Total(part, SaleSlots) = Total(part, {sale.slot})
      BY <3>1, FiniteSlotsAssumption, TotalZeros
    <3>3. Total(part, {sale.slot}) = part[sale.slot]
      BY <1>1, <3>1, TotalSingle
    <3>. QED  BY <3>1, <3>2, <3>3
  <2> HIDE DEF part, more, units
  <2>3. Total(PerSlot(more), SaleSlots) = Total(PerSlot(sales), SaleSlots) + Total(part, SaleSlots)
    BY <2>1, FiniteSlotsAssumption, TotalPlus
  <2>. QED  BY <2>2, <2>3
<1>3. Total(PerSale(more), DOMAIN more) = Total(PerSale(sales), D) + units
  <2>1. /\ DOMAIN more = D \cup {new} /\ new \notin D /\ D = 1..Len(sales)
        /\ more[new] = sale /\ \A i \in D : more[i] = sales[i] /\ sales[i] \in SnackSale
    OBVIOUS
  <2>2. IsFiniteSet(D) /\ IsFiniteSet(D \cup {new}) /\ (D \cup {new}) \ {new} = D
    <3>1. IsFiniteSet(D)
      BY <2>1, FS_Interval
    <3> HIDE DEF D, new
    <3>. QED  BY <2>1, <3>1, FS_AddElement
  <2>3. /\ \A i \in D \cup {new} : PerSale(more)[i] \in Int
        /\ \A i \in D : PerSale(more)[i] = PerSale(sales)[i]
        /\ PerSale(more)[new] = units
    <3>1. \A x \in SnackSale : x.quantity \in Int
      BY SalesAssumption DEF SnackSale, Amounts
    <3> HIDE DEF more, new
    <3>. QED  BY <2>1, <3>1 DEF PerSale
  <2> HIDE DEF D, new, more, units
  <2>4. Total(PerSale(more), D \cup {new}) = PerSale(more)[new] + Total(PerSale(more), D)
    BY <2>2, <2>3, TotalOff
  <2>5. Total(PerSale(more), D) = Total(PerSale(sales), D)
    BY <2>2, <2>3, TotalSame
  <2>6. Total(PerSale(more), D) \in Int
    BY <2>2, <2>3, TotalType
  <2>. QED  BY <1>1, <2>1, <2>3, <2>4, <2>5, <2>6
<1> HIDE DEF more, units
<1>. QED  BY <1>2, <1>3, SumsOfSales DEF more

----------------------------------------------------------------------------
(* Coffee sales: what a recipe consumes *)

Used(recipe, i) == {recipe[j].product : j \in 1..i}

\* The consumption of the first i entries: of each product they name, the amount
\* of its last entry.
LastEntriesCount(planned, recipe, sold, i) ==
  /\ planned \in [Used(recipe, i) -> Nat]
  /\ \A p \in Used(recipe, i) : \E j \in 1..i :
       /\ recipe[j].product = p
       /\ planned[p] = recipe[j].amount * sold
       /\ \A k \in 1..i : k > j => recipe[k].product # p

LEMMA NextEntry ==
  ASSUME NEW N \in Nat, NEW recipe \in [1..N -> Ingredient], NEW sold \in Amounts,
         NEW i \in 1..N, NEW planned, LastEntriesCount(planned, recipe, sold, i - 1)
  PROVE  LastEntriesCount(With(planned, recipe[i].product, recipe[i].amount * sold), recipe, sold, i)
<1> DEFINE x == recipe[i].product
           v == recipe[i].amount * sold
           more == With(planned, x, v)
<1>1. v \in Nat
  BY SalesAssumption DEF Ingredient, Amounts
<1>2. Used(recipe, i) = Used(recipe, i - 1) \cup {x}
  <2>1. 1..i = 1..(i-1) \cup {i}
    OBVIOUS
  <2>. QED  BY <2>1 DEF Used
<1>3. DOMAIN planned = Used(recipe, i - 1)
  BY DEF LastEntriesCount
<1>4. /\ more \in [Used(recipe, i) -> Nat] /\ more[x] = v
      /\ \A p \in Used(recipe, i - 1) : p # x => more[p] = planned[p]
  <2> HIDE DEF x, v
  <2>. QED  BY <1>1, <1>2, <1>3 DEF LastEntriesCount, With
<1> HIDE DEF more
<1>5. ASSUME NEW p \in Used(recipe, i)
      PROVE  \E j \in 1..i : /\ recipe[j].product = p
                            /\ more[p] = recipe[j].amount * sold
                            /\ \A k \in 1..i : k > j => recipe[k].product # p
  <2>1. CASE p = x
    BY <1>4, <2>1
  <2>2. CASE p # x
    <3>1. p \in Used(recipe, i - 1) /\ more[p] = planned[p]
      BY <1>2, <1>4, <2>2
    <3>2. PICK j \in 1..(i-1) : /\ recipe[j].product = p
                               /\ planned[p] = recipe[j].amount * sold
                               /\ \A k \in 1..(i-1) : k > j => recipe[k].product # p
      BY <3>1 DEF LastEntriesCount
    <3>3. j \in 1..i /\ \A k \in 1..i : k \in 1..(i-1) \/ k = i
      OBVIOUS
    <3>. QED  BY <2>2, <3>1, <3>2, <3>3
  <2>. QED  BY <2>1, <2>2
<1>. QED  BY <1>4, <1>5 DEF LastEntriesCount, more

LEMMA ConsumptionIs ==
  ASSUME NEW N \in Nat, NEW recipe \in [1..N -> Ingredient], NEW sold \in Amounts
  PROVE  LastEntriesCount(ConsumptionFor(recipe, sold), recipe, sold, N)
<1> DEFINE D == 1..N
           product(i) == recipe[i].product
           units(i) == recipe[i].amount * sold
           U == UNION {[known -> Nat] : known \in SUBSET Ingredients}
           P(g) == g = [r \in SUBSET D |-> IF r = {} THEN <<>>
                          ELSE With(g[r \ {Max(r)}], product(Max(r)), units(Max(r)))]
           planned == CHOOSE g : P(g)
<1>1. ConsumptionFor(recipe, sold) = planned[D]
  <2>1. DOMAIN recipe = D
    OBVIOUS
  <2>. QED  BY <2>1 DEF ConsumptionFor, FoldLeft, MapThenFoldSet
<1>2. \A i \in D : product(i) \in Ingredients /\ units(i) \in Nat
  BY SalesAssumption DEF Ingredient, Amounts
<1> HIDE DEF product, units
<1>3. <<>> \in U
  <2>1. <<>> \in [{} -> Nat]
    OBVIOUS
  <2>. QED  BY <2>1
<1>4. ASSUME NEW f \in U, NEW x \in Ingredients, NEW v \in Nat
      PROVE  With(f, x, v) \in U
  <2>1. PICK known \in SUBSET Ingredients : f \in [known -> Nat]
    OBVIOUS
  <2>2. With(f, x, v) \in [known \cup {x} -> Nat]
    BY <2>1 DEF With
  <2>. QED  BY <2>2
<1>5. P(planned)
  <2> DEFINE step == [x \in U \X D |-> With(x[1], product(x[2]), units(x[2]))]
  <2> HIDE DEF U
  <2>1. step \in [U \X D -> U]
    BY <1>2, <1>4
  <2>2. PICK g \in [SUBSET D -> U] : Runs(<<>>, step, D, g)
    <3> HIDE DEF step
    <3>. QED  BY <1>3, <2>1, RunsExist
  <2>3. ASSUME NEW r \in SUBSET D, r # {}
        PROVE  step[<<g[r \ {Max(r)}], Max(r)>>] =
                 With(g[r \ {Max(r)}], product(Max(r)), units(Max(r)))
    <3>1. Max(r) \in D /\ g[r \ {Max(r)}] \in U
      BY <2>2, <2>3, MaxIn
    <3>. QED  BY <3>1
  <2>4. P(g)
    <3> HIDE DEF step
    <3>. QED  BY <2>2, <2>3 DEF Runs
  <2>. QED  BY <2>4
<1> HIDE DEF planned, U
<1>6. ASSUME NEW r \in SUBSET D
      PROVE  /\ r = {} => planned[r] = <<>>
             /\ r # {} => planned[r] = With(planned[r \ {Max(r)}], product(Max(r)), units(Max(r)))
  <2> DEFINE body(f) == [u \in SUBSET D |-> IF u = {} THEN <<>>
                           ELSE With(f[u \ {Max(u)}], product(Max(u)), units(Max(u)))]
  <2>1. planned = body(planned)
    BY <1>5
  <2>2. body(planned)[r] = IF r = {} THEN <<>>
                           ELSE With(planned[r \ {Max(r)}], product(Max(r)), units(Max(r)))
    OBVIOUS
  <2>. QED  BY <2>1, <2>2
<1> DEFINE S == {i \in 0..N : LastEntriesCount(planned[1..i], recipe, sold, i)}
<1>7. 0 \in S
  <2>1. 1..0 = {} /\ {} \in SUBSET D /\ Used(recipe, 0) = {}
    BY DEF Used
  <2>2. planned[{}] = <<>>
    BY <1>6, <2>1
  <2>3. LastEntriesCount(<<>>, recipe, sold, 0)
    BY <2>1 DEF LastEntriesCount
  <2>. QED  BY <2>1, <2>2, <2>3
<1>8. ASSUME NEW i \in 1..N, i - 1 \in S
      PROVE  i \in S
  <2>1. 1..i \in SUBSET D /\ 1..i # {} /\ Max(1..i) = i /\ (1..i) \ {i} = 1..(i-1)
    BY PlacesUpTo
  <2>2. planned[1..i] = With(planned[1..(i-1)], product(i), units(i))
    BY <1>6, <2>1
  <2>3. LastEntriesCount(planned[1..(i-1)], recipe, sold, i - 1)
    BY <1>8
  <2>4. LastEntriesCount(With(planned[1..(i-1)], product(i), units(i)), recipe, sold, i)
    BY <2>3, NextEntry DEF product, units
  <2>. QED  BY <2>2, <2>4
<1> HIDE DEF S
<1>9. N \in S
  <2>1. \A i \in 0..N : i \in S
    BY <1>7, <1>8, UpTo
  <2>. QED  BY <2>1
<1>. QED  BY <1>1, <1>9 DEF S

\* What a recipe names of a product, as the total of a function.
LEMMA AmountIsTotal ==
  ASSUME NEW recipe, NEW p
  PROVE  AmountNamed(recipe, p) =
           Total([n \in DOMAIN recipe |-> recipe[n].amount], Entries(recipe, p))
<1> DEFINE S == Entries(recipe, p)
           f == [n \in DOMAIN recipe |-> recipe[n].amount]
           P(g) == g = [s \in SUBSET S |-> IF s = {} THEN 0
                          ELSE recipe[Pick(s)].amount + g[s \ {Pick(s)}]]
<1>1. AmountNamed(recipe, p) = (CHOOSE g : P(g))[S]
  BY DEF AmountNamed, MapThenSumSet, MapThenFoldSet, Pick
<1>2. \A s \in SUBSET S : s # {} => recipe[Pick(s)].amount = f[Pick(s)]
  <2>1. S \subseteq DOMAIN recipe
    BY DEF Entries
  <2>. QED  BY <2>1, PickIn
<1>3. ASSUME NEW g PROVE P(g) <=> Sums(f, S, g)
  <2> HIDE DEF f, S
  <2>. QED  BY <1>2 DEF Sums
<1> HIDE DEF P, f, S
<1>4. (CHOOSE g : P(g)) = (CHOOSE g : Sums(f, S, g))
  BY <1>3
<1>. QED  BY <1>1, <1>4, TotalSums DEF S, f

\* A coffee sale as it is registered.
CoffeeSale ==
  {sale \in [recipe : Recipe, quantity : Amounts, stock : KnownStock,
             consumptions : UNION {[used -> Nat] : used \in SUBSET Ingredients}] :
     /\ sale.consumptions = ConsumptionFor(sale.recipe, sale.quantity)
     /\ Suffices(sale.stock, sale.consumptions)}

LEMMA PartOfWhole ==
  ASSUME NEW sold \in Nat, NEW one \in Nat, NEW others \in Nat
  PROVE  one * sold <= sold * (one + others)
<1>1. sold * (one + others) = one * sold + sold * others
  OBVIOUS
<1>2. sold * others \in Nat /\ one * sold \in Nat
  OBVIOUS
<1>. QED  BY <1>1, <1>2

LEMMA SaleFollows ==
  ASSUME NEW sale \in CoffeeSale
  PROVE  /\ DOMAIN sale.consumptions \subseteq Ingredients
         /\ \A p \in DOMAIN sale.consumptions : sale.consumptions[p] > 0
         /\ \A p \in Ingredients : FollowsRecipe(sale, p)
<1> DEFINE recipe  == sale.recipe
           sold    == sale.quantity
           planned == sale.consumptions
           f       == [n \in DOMAIN recipe |-> recipe[n].amount]
<1>1. PICK N \in 1..MaxEntries : recipe \in [1..N -> Ingredient]
  BY DEF CoffeeSale, Recipe
<1>2. sold \in Amounts /\ N \in Nat /\ sold \in Nat \ {0}
  BY SalesAssumption DEF CoffeeSale, Amounts
<1>3. LastEntriesCount(planned, recipe, sold, N)
  BY <1>1, <1>2, ConsumptionIs DEF CoffeeSale
<1>4. Suffices(sale.stock, planned)
  BY DEF CoffeeSale
<1>5. ASSUME NEW n \in 1..N
      PROVE  /\ recipe[n].product \in Ingredients /\ recipe[n].amount \in Nat \ {0}
             /\ f[n] = recipe[n].amount
  BY <1>1, SalesAssumption DEF Ingredient, Amounts
<1>6. DOMAIN recipe = 1..N /\ DOMAIN planned = Used(recipe, N)
  BY <1>1, <1>3 DEF LastEntriesCount
<1>7. ASSUME NEW p \in DOMAIN planned
      PROVE  \E j \in 1..N : recipe[j].product = p /\ planned[p] = recipe[j].amount * sold
  BY <1>3, <1>6 DEF LastEntriesCount
<1>a. sale.recipe = recipe /\ sale.quantity = sold /\ sale.consumptions = planned
  OBVIOUS
<1> HIDE DEF recipe, sold, planned, f
<1>8. DOMAIN planned \subseteq Ingredients
  BY <1>5, <1>6 DEF Used
<1>9. \A p \in DOMAIN planned : planned[p] \in Nat /\ planned[p] > 0
  <2>1. \A a \in Nat \ {0} : a * sold \in Nat /\ a * sold > 0
    BY <1>2
  <2>. QED  BY <1>5, <1>7, <2>1
<1>10. ASSUME NEW p \in Ingredients
       PROVE  FollowsRecipe(sale, p)
  <2> DEFINE named == Entries(recipe, p)
             total == AmountNamed(recipe, p)
  <2>1. named = {n \in 1..N : recipe[n].product = p} /\ IsFiniteSet(named)
    <3>1. named = {n \in 1..N : recipe[n].product = p}
      BY <1>6 DEF Entries
    <3>2. named \subseteq 1..N /\ IsFiniteSet(1..N)
      BY <1>2, <3>1, FS_Interval
    <3>. QED  BY <3>1, <3>2, FS_Subset
  <2>2. p \in DOMAIN planned <=> named # {}
    BY <1>6, <2>1 DEF Used
  <2>3. total = Total(f, named)
    BY AmountIsTotal DEF f
  <2> HIDE DEF named, total
  <2>4. ASSUME NEW j \in named
        PROVE  /\ total = f[j] + Total(f, named \ {j})
               /\ IsFiniteSet(named \ {j})
               /\ Cardinality(named \ {j}) = Cardinality(named) - 1
               /\ Total(f, named \ {j}) \in Nat
    <3>1. \A n \in named : f[n] \in Nat /\ f[n] \in Int
      BY <1>5, <2>1
    <3>2. IsFiniteSet(named \ {j}) /\ Cardinality(named \ {j}) = Cardinality(named) - 1
      BY <2>1, FS_RemoveElement
    <3>3. total = f[j] + Total(f, named \ {j})
      BY <2>1, <2>3, <3>1, TotalOff
    <3>4. Total(f, named \ {j}) \in Nat
      BY <3>1, <3>2, TotalNat
    <3>. QED  BY <3>2, <3>3, <3>4
  <2>5. ASSUME Cardinality(named) = 1
        PROVE  planned[p] = sold * total
    <3>1. named # {}
      BY <2>5, FS_EmptySet
    <3>2. PICK j \in 1..N : recipe[j].product = p /\ planned[p] = recipe[j].amount * sold
      BY <1>7, <2>2, <3>1
    <3>3. j \in named /\ f[j] = recipe[j].amount /\ f[j] \in Nat
      BY <1>5, <2>1, <3>2
    <3> DEFINE others == named \ {j}
    <3>4. /\ total = f[j] + Total(f, others) /\ IsFiniteSet(others)
          /\ Cardinality(others) = Cardinality(named) - 1
      BY <2>4, <3>3
    <3> HIDE DEF others
    <3>5. others = {}
      <4>1. Cardinality(others) = 0
        BY <2>5, <3>4
      <4>. QED  BY <3>4, <4>1, FS_EmptySet
    <3>6. total = f[j]
      BY <3>3, <3>4, <3>5, TotalEmpty
    <3>. QED  BY <1>2, <3>2, <3>3, <3>6
  <2>6. ASSUME p \in DOMAIN planned
        PROVE  planned[p] <= sold * total
    <3>1. PICK j \in 1..N : recipe[j].product = p /\ planned[p] = recipe[j].amount * sold
      BY <1>7, <2>6
    <3>2. j \in named /\ f[j] = recipe[j].amount /\ f[j] \in Nat
      BY <1>5, <2>1, <3>1
    <3> DEFINE others == Total(f, named \ {j})
    <3>3. total = f[j] + others /\ others \in Nat
      BY <2>4, <3>2
    <3> HIDE DEF others
    <3>. QED  BY <1>2, <3>1, <3>2, <3>3, PartOfWhole
  <2>7. ASSUME p \in DOMAIN planned \cap DOMAIN sale.stock
        PROVE  planned[p] <= sale.stock[p]
    <3>1. sale.stock[p] >= planned[p]
      BY <1>4, <2>7 DEF Suffices
    <3>2. sale.stock[p] \in Int /\ planned[p] \in Int
      BY <1>9, <2>7, SalesAssumption DEF CoffeeSale, KnownStock
    <3>. QED  BY <3>1, <3>2
  <2>. QED  BY <1>a, <2>2, <2>5, <2>6, <2>7 DEF FollowsRecipe, named, total
<1>. QED  BY <1>8, <1>9, <1>10, <1>a

----------------------------------------------------------------------------
(* The sales registered *)

SalesInv ==
  /\ snackSales \in Seq(SnackSale)
  /\ coffeeSales \in Seq(CoffeeSale)
  /\ SnackSalesAddUp

LEMMA CoffeeSaleRegistered ==
  ASSUME NEW recipe \in Recipe, NEW quantity \in Amounts, NEW stock \in KnownStock,
         Suffices(stock, ConsumptionFor(recipe, quantity))
  PROVE  [recipe |-> recipe, quantity |-> quantity, stock |-> stock,
          consumptions |-> ConsumptionFor(recipe, quantity)] \in CoffeeSale
<1>1. PICK N \in 1..MaxEntries : recipe \in [1..N -> Ingredient]
  BY DEF Recipe
<1>2. N \in Nat
  BY SalesAssumption
<1>3. ConsumptionFor(recipe, quantity) \in [Used(recipe, N) -> Nat]
  BY <1>1, <1>2, ConsumptionIs DEF LastEntriesCount
<1>4. Used(recipe, N) \in SUBSET Ingredients
  BY <1>1 DEF Used, Ingredient
<1>. QED  BY <1>3, <1>4 DEF CoffeeSale

LEMMA SalesStep == SalesInv /\ [SalesNext]_saleVars => SalesInv'
<1> SUFFICES ASSUME SalesInv, [SalesNext]_saleVars PROVE SalesInv'
  OBVIOUS
<1>1. CASE UNCHANGED saleVars
  BY <1>1 DEF SalesInv, saleVars, SnackSalesAddUp
<1>2. ASSUME NEW recipe \in Recipe, NEW quantity \in Amounts, NEW stock \in KnownStock,
             RegisterCoffeeSale(recipe, quantity, stock)
      PROVE  SalesInv'
  <2> DEFINE sale == [recipe |-> recipe, quantity |-> quantity, stock |-> stock,
                      consumptions |-> ConsumptionFor(recipe, quantity)]
  <2>1. sale \in CoffeeSale /\ coffeeSales' = Append(coffeeSales, sale) /\ snackSales' = snackSales
    BY <1>2, CoffeeSaleRegistered DEF RegisterCoffeeSale
  <2> HIDE DEF sale
  <2>2. coffeeSales' \in Seq(CoffeeSale)
    BY <2>1 DEF SalesInv
  <2>. QED  BY <2>1, <2>2 DEF SalesInv, SnackSalesAddUp
<1>3. ASSUME NEW slot \in SaleSlots, NEW quantity \in Amounts, RegisterSnackSale(slot, quantity)
      PROVE  SalesInv'
  <2> DEFINE sale == [slot |-> slot, quantity |-> quantity]
  <2>1. sale \in SnackSale /\ snackSales' = Append(snackSales, sale) /\ coffeeSales' = coffeeSales
    BY <1>3 DEF RegisterSnackSale, SnackSale
  <2> HIDE DEF sale
  <2>2. snackSales' \in Seq(SnackSale)
    BY <2>1 DEF SalesInv
  <2>3. SnackSalesAddUp'
    <3>1. SoldPerSlot(Append(snackSales, sale)) = UnitsSold(Append(snackSales, sale))
      BY <2>1, SaleAddsUp DEF SalesInv, SnackSalesAddUp
    <3>. QED  BY <2>1, <3>1 DEF SnackSalesAddUp
  <2>. QED  BY <2>1, <2>2, <2>3 DEF SalesInv
<1>. QED  BY <1>1, <1>2, <1>3 DEF SalesNext

LEMMA SalesStart == SalesInit => SalesInv
<1> SUFFICES ASSUME SalesInit PROVE SalesInv
  OBVIOUS
<1>1. snackSales = <<>> /\ coffeeSales = <<>>
  BY DEF SalesInit
<1>2. Total(PerSlot(<<>>), SaleSlots) = 0
  <2> DEFINE f == PerSlot(<<>>)
  <2>1. \A slot \in SaleSlots : TotalSnackConsumption(<<>>, slot) = 0
    <3> SUFFICES ASSUME NEW slot PROVE TotalSnackConsumption(<<>>, slot) = 0
      OBVIOUS
    <3>1. 0 \in Nat /\ <<>> \in [1..0 -> SnackSale]
      OBVIOUS
    <3>2. PICK a : Counts(a, 0, <<>>, slot)
      BY <3>1, ConsumptionRuns
    <3>. QED  BY <3>2 DEF Counts
  <2>2. \A slot \in SaleSlots : f[slot] = 0 /\ f[slot] \in Int
    BY <2>1 DEF PerSlot
  <2> HIDE DEF f
  <2>3. Total(f, SaleSlots) = Total(f, {})
    BY <2>2, FiniteSlotsAssumption, TotalZeros
  <2>. QED  BY <2>3, TotalEmpty DEF f
<1>3. Total(PerSale(<<>>), DOMAIN <<>>) = 0
  <2>1. DOMAIN <<>> = {}
    OBVIOUS
  <2>. QED  BY <2>1, TotalEmpty
<1>4. SoldPerSlot(<<>>) = UnitsSold(<<>>)
  BY <1>2, <1>3, SumsOfSales
<1>. QED  BY <1>1, <1>4 DEF SalesInv, SnackSalesAddUp

LEMMA SalesInvariance == SalesSpec => []SalesInv
BY SalesStart, SalesStep, PTL DEF SalesSpec

\* Sales stay well typed: nothing outside the recipe is consumed, and of what
\* is, something (domain/sales/entities.py, Recipe.consumption_for).
THEOREM SalesWellTyped == SalesSpec => []SalesTypeOK
<1>1. SalesInv => SalesTypeOK
  <2> SUFFICES ASSUME SalesInv PROVE SalesTypeOK
    OBVIOUS
  <2>1. ASSUME NEW i \in DOMAIN coffeeSales
        PROVE  coffeeSales[i] \in CoffeeSale
    BY DEF SalesInv
  <2>2. ASSUME NEW i \in DOMAIN coffeeSales
        PROVE  /\ coffeeSales[i].recipe \in Recipe
               /\ coffeeSales[i].quantity \in Amounts
    BY <2>1 DEF CoffeeSale
  <2>. QED  BY <2>1, <2>2, SaleFollows DEF SalesTypeOK, SalesInv
<1>. QED  BY <1>1, SalesInvariance, PTL

\* A coffee sale consumes only what its recipe names, of nothing more than that
\* times the units sold, of what is named once exactly that, and within the stock
\* that is known, for recipes of any length (domain/sales/entities.py,
\* register_coffee_sale).
THEOREM ConsumptionFollowsRecipes == SalesSpec => []SalesFollowRecipes
<1>1. SalesInv => SalesFollowRecipes
  <2> SUFFICES ASSUME SalesInv PROVE SalesFollowRecipes
    OBVIOUS
  <2>1. \A i \in DOMAIN coffeeSales : coffeeSales[i] \in CoffeeSale
    BY DEF SalesInv
  <2>. QED  BY <2>1, SaleFollows DEF SalesFollowRecipes
<1>. QED  BY <1>1, SalesInvariance, PTL

\* The totals of the slots are the units sold, over any number of sales and slots
\* (domain/sales/entities.py, total_snack_consumption).
THEOREM SnackTotalsAddUp == SalesSpec => []SnackSalesAddUp
<1>1. SalesInv => SnackSalesAddUp
  BY DEF SalesInv
<1>. QED  BY <1>1, SalesInvariance, PTL

=============================================================================
