---------------------- MODULE ReplenishmentVisits_proofs ----------------------
(***************************************************************************)
(* Theorems about the visits of ReplenishmentTransactions and the          *)
(* movements posted for their lines, served by one session.                *)
(***************************************************************************)
EXTENDS ReplenishmentTransactions_proofs

----------------------------------------------------------------------------
(* What a transaction has in hand, while no other one changes the rows *)

\* Movements the request records, whether or not it has inserted them yet.
Postings(w) == tx[w].todo \cup tx[w].writes
Recording(w) == pc[w] \in {"read", "insert"}

Starting(w) ==
  LET v == tx[w].visit IN
  /\ tx[w].op = "start"
  /\ ~Exists(v)
  /\ \E operator \in Replenishers : tx[w].local = Started(operator)
  /\ Postings(w) = {}

AddingLine(w) ==
  LET v == tx[w].visit IN
  /\ tx[w].op = "add_line"
  /\ InProgress(visits[v])
  /\ \E l \in LineIds \ LinesOf(visits[v]), line \in Line :
       tx[w].local = WithLine(visits[v], l, line)
  /\ Postings(w) = {}

Cancelling(w) ==
  LET v == tx[w].visit IN
  /\ tx[w].op = "cancel"
  /\ InProgress(visits[v])
  /\ tx[w].local = WithStatus(visits[v], "CANCELLED")
  /\ Postings(w) = {}

Completing(w) ==
  LET v == tx[w].visit IN
  /\ tx[w].op = "complete"
  /\ visits[v].status # "COMPLETED"
  /\ Postings(w) = CompletionPostings(v, visits[v])
  /\ IF Recording(w)
     THEN tx[w].local = visits[v]
     ELSE /\ InProgress(visits[v])
          /\ tx[w].local = WithStatus(visits[v], "COMPLETED")

Resolving(w) ==
  LET v == tx[w].visit IN
  /\ tx[w].op = "resolve"
  /\ visits[v].status # "CANCELLED"
  /\ \E l \in PendingLines(visits[v]), p \in Products :
       /\ tx[w].local = WithProduct(visits[v], l, p)
       /\ Postings(w) = IF visits[v].status = "COMPLETED"
                        THEN {ResolutionPosting(v, tx[w].local, l)} ELSE {}

Registering(w) ==
  /\ tx[w].op = "register"
  /\ \A t \in Postings(w) : t.key \in InventoryKeys

OpenInv ==
  \A w \in Workers : pc[w] # "idle" =>
    /\ \/ Starting(w) \/ AddingLine(w) \/ Cancelling(w)
       \/ Completing(w) \/ Resolving(w) \/ Registering(w)
    /\ ~Recording(w) => tx[w].todo = {}
    /\ OnVisit(w) /\ pc[w] \in {"flush", "commit"} => tx[w].base = visits[tx[w].visit]

VisitsInv == OpenInv /\ VisitsMatchLedger

LEMMA InitVisits == Init => VisitsInv
<1> SUFFICES ASSUME Init PROVE VisitsInv
  OBVIOUS
<1>1. \A v \in VisitKeys, l \in LineIds : PostedKeys(v, l) = {} /\ ~Settled(v, l)
  BY KeyTypes DEF Init, EmptyStore, EmptyLedger, PostedKeys, Settled, Exists
<1>. QED  BY <1>1 DEF Init, VisitsInv, OpenInv, VisitsMatchLedger

----------------------------------------------------------------------------
(* Steps before the commit *)

\* Nothing but one session's transaction changes, and its new state fits.
LEMMA OpenStep ==
  ASSUME OneSession, VisitsInv, NEW w \in Workers, UNCHANGED store,
         (pc[w] # "idle")' =>
            /\ (Starting(w) \/ AddingLine(w) \/ Cancelling(w)
                  \/ Completing(w) \/ Resolving(w) \/ Registering(w))'
            /\ (~Recording(w) => tx[w].todo = {})'
            /\ (OnVisit(w) /\ pc[w] \in {"flush", "commit"} => tx[w].base = visits[tx[w].visit])'
  PROVE  VisitsInv'
<1>1. \A u \in Workers : u = w
  BY DEF OneSession
<1>2. OpenInv'
  BY <1>1, Zenon DEF OpenInv
<1>3. VisitsMatchLedger'
  BY DEF VisitsInv, VisitsMatchLedger, Settled, Exists, PostedKeys, store
<1>. QED  BY <1>2, <1>3 DEF VisitsInv

LEMMA RollbackVisits ==
  ASSUME OneSession, TypeInv, VisitsInv, NEW w \in Workers, Rollback(w)
  PROVE  VisitsInv'
<1>1. UNCHANGED store /\ pc'[w] = "idle"
  BY DEF Rollback, Goto, TypeInv, TypeOK
<1>. QED  BY <1>1, OpenStep

LEMMA BeginVisits ==
  ASSUME OneSession, TypeInv, VisitsInv, NEW w \in Workers, BeginRequest(w)
  PROVE  VisitsInv'
<1>. USE DEF TypeInv, TypeOK, StoreTypeOK
<1>1. ASSUME NEW op, NEW v, NEW local, NEW todo, NEW place, Begin(w, op, v, local, todo, place)
      PROVE  /\ UNCHANGED store /\ pc'[w] = place
             /\ tx'[w].op = op /\ tx'[w].visit = v /\ tx'[w].local = local
             /\ tx'[w].todo = todo /\ tx'[w].writes = {}
  BY <1>1 DEF Begin, Goto, NoTransaction
<1>2. ASSUME NEW v \in VisitKeys, NEW operator \in Replenishers, BeginStart(w, v, operator)
      PROVE  VisitsInv'
  <2>1. Begin(w, "start", v, Started(operator), {}, "flush") /\ ~Exists(v)
    BY <1>2 DEF BeginStart
  <2>2. Starting(w)' /\ tx'[w].todo = {} /\ ~OnVisit(w)' /\ UNCHANGED store
    BY <1>1, <2>1 DEF Starting, Postings, OnVisit, store, Exists
  <2>. QED  BY <2>2, OpenStep
<1>3. ASSUME NEW v \in VisitKeys, NEW l \in LineIds, NEW line \in LineRequests,
             BeginAddLine(w, v, l, line)
      PROVE  VisitsInv'
  <2>1. /\ Begin(w, "add_line", v, WithLine(visits[v], l, line), {}, "check")
        /\ l \notin LinesOf(visits[v]) /\ InProgress(visits[v]) /\ line \in Line
    BY <1>3, LineRequestsAssumption DEF BeginAddLine, FreshLine
  <2>2. AddingLine(w)' /\ tx'[w].todo = {} /\ pc'[w] = "check" /\ UNCHANGED store
    BY <1>1, <2>1 DEF AddingLine, Postings, store
  <2>. QED  BY <2>2, OpenStep
<1>4. ASSUME NEW v \in VisitKeys, BeginComplete(w, v)
      PROVE  VisitsInv'
  <2>1. /\ Begin(w, "complete", v, visits[v], CompletionPostings(v, visits[v]), "read")
        /\ visits[v].status # "COMPLETED"
    BY <1>4 DEF BeginComplete
  <2>2. Completing(w)' /\ pc'[w] = "read" /\ Recording(w)' /\ UNCHANGED store
    BY <1>1, <2>1 DEF Completing, Postings, Recording, store
  <2>. QED  BY <2>2, OpenStep
<1>5. ASSUME NEW v \in VisitKeys, BeginCancel(w, v)
      PROVE  VisitsInv'
  <2>1. /\ Begin(w, "cancel", v, WithStatus(visits[v], "CANCELLED"), {}, "check")
        /\ InProgress(visits[v])
    BY <1>5 DEF BeginCancel
  <2>2. Cancelling(w)' /\ tx'[w].todo = {} /\ pc'[w] = "check" /\ UNCHANGED store
    BY <1>1, <2>1 DEF Cancelling, Postings, store
  <2>. QED  BY <2>2, OpenStep
<1>6. ASSUME NEW v \in VisitKeys, NEW l \in LineIds, NEW p \in Products,
             BeginResolve(w, v, l, p)
      PROVE  VisitsInv'
  <2> DEFINE resolved == WithProduct(visits[v], l, p)
             todo == IF visits[v].status = "COMPLETED"
                     THEN {ResolutionPosting(v, resolved, l)} ELSE {}
  <2>1. Exists(v) /\ l \in PendingLines(visits[v]) /\ visits[v].status # "CANCELLED"
    BY <1>6 DEF BeginResolve, Loadable
  <2>2. PostedKeys(v, l) = {}
    BY <2>1 DEF VisitsInv, VisitsMatchLedger, Settled, PendingLines, LinesOf
  <2>3. Begin(w, "resolve", v, resolved, todo, "read")
    BY <1>6, <2>2 DEF BeginResolve
  <2> HIDE DEF todo
  <2>4. /\ UNCHANGED store /\ pc'[w] = "read" /\ tx'[w].op = "resolve" /\ tx'[w].visit = v
        /\ tx'[w].local = resolved /\ tx'[w].todo = todo /\ tx'[w].writes = {}
    BY <1>1, <2>3
  <2> HIDE DEF resolved
  <2>5. Resolving(w)'
    BY <2>1, <2>4 DEF Resolving, Postings, store, todo, resolved
  <2>. QED  BY <2>4, <2>5, OpenStep DEF Recording
<1>7. ASSUME NEW k \in InventoryKeys, NEW movement \in InventoryRequests,
             BeginRegister(w, k, movement)
      PROVE  VisitsInv'
  <2>1. Begin(w, "register", None, None, {At(k, movement)}, "read")
    BY <1>7 DEF BeginRegister
  <2>2. Registering(w)' /\ pc'[w] = "read" /\ UNCHANGED store
    BY <1>1, <2>1 DEF Registering, Postings, At
  <2>. QED  BY <2>2, OpenStep DEF Recording
<1>8. CASE Replay(w)
  BY <1>8 DEF Replay, vars, VisitsInv, OpenInv, VisitsMatchLedger, Settled, PostedKeys, Exists,
     Starting, AddingLine, Cancelling, Completing, Resolving, Registering, Postings, Recording,
     OnVisit
<1>. QED
  BY <1>2, <1>3, <1>4, <1>5, <1>6, <1>7, <1>8 DEF BeginRequest

\* What a request is doing depends on its copy of the visit, the rows and the
\* movements it has to record, inserted or not.
LEMMA SameWork ==
  ASSUME OneSession, VisitsInv, NEW w \in Workers, UNCHANGED store,
         pc[w] # "idle",
         tx'[w].op = tx[w].op, tx'[w].visit = tx[w].visit, tx'[w].local = tx[w].local,
         Postings(w)' = Postings(w), Recording(w)' = Recording(w),
         (~Recording(w) => tx[w].todo = {})',
         (OnVisit(w) /\ pc[w] \in {"flush", "commit"} => tx[w].base = visits[tx[w].visit])'
  PROVE  VisitsInv'
<1>1. visits' = visits
  BY DEF store
<1>2. /\ Starting(w) => Starting(w)'
      /\ AddingLine(w) => AddingLine(w)'
      /\ Cancelling(w) => Cancelling(w)'
  BY <1>1 DEF Starting, AddingLine, Cancelling, Exists
<1>3. /\ Completing(w) => Completing(w)'
      /\ Resolving(w) => Resolving(w)'
      /\ Registering(w) => Registering(w)'
  BY <1>1 DEF Completing, Resolving, Registering
<1>. QED  BY <1>2, <1>3, OpenStep DEF VisitsInv, OpenInv

\* The movements of a visit's lines are not in the ledger when they are to be
\* recorded: only one transaction posts them, and it has not ended.
LEMMA NothingPosted ==
  ASSUME TypeInv, VisitsInv, NEW w \in Workers, pc[w] # "idle", NEW t \in Postings(w),
         ledger[t.key] # None
  PROVE  Registering(w)
<1>. USE DEF TypeInv, TypeOK, StoreTypeOK
<1> DEFINE v   == tx[w].visit
           row == visits[v]
<1>1. OnVisit(w) => v \in VisitKeys
  BY DEF WellFormed, Transaction
<1>2. ~Completing(w)
  <2> SUFFICES ASSUME Completing(w) PROVE FALSE
    OBVIOUS
  <2>1. v \in VisitKeys /\ row.status # "COMPLETED" /\ t \in CompletionPostings(v, row)
    BY <1>1 DEF Completing, OnVisit
  <2>2. PICK l \in ResolvedLines(row) : t.key = LineKey(v, l)
    BY <2>1 DEF CompletionPostings, At
  <2>3. l \in LineIds /\ LineKey(v, l) \in PostedKeys(v, l)
    BY <2>1, <2>2 DEF PostedKeys, ResolvedLines, LinesOf
  <2>. QED  BY <2>1, <2>3 DEF VisitsInv, VisitsMatchLedger, Settled
<1>3. ~Resolving(w)
  <2> SUFFICES ASSUME Resolving(w) PROVE FALSE
    OBVIOUS
  <2>1. PICK l \in PendingLines(row) : t.key = ResolveKey(v, l)
    BY DEF Resolving, ResolutionPosting, At
  <2>2. v \in VisitKeys /\ l \in LineIds /\ ResolveKey(v, l) \in PostedKeys(v, l)
    BY <1>1, <2>1 DEF Resolving, OnVisit, PostedKeys, PendingLines, LinesOf
  <2>3. ~Settled(v, l)
    BY <2>1 DEF Settled, PendingLines
  <2>. QED  BY <2>2, <2>3 DEF VisitsInv, VisitsMatchLedger
<1>. QED  BY <1>2, <1>3 DEF VisitsInv, OpenInv, Starting, AddingLine, Cancelling

LEMMA RecordingVisits ==
  ASSUME OneSession, TypeInv, VisitsInv, NEW w \in Workers,
         SkipRecorded(w) \/ CheckStock(w) \/ InsertMovement(w)
  PROVE  VisitsInv'
<1>. tx[w] \in Transaction /\ pc \in [Workers -> Places] /\ tx \in [Workers -> Transaction]
  BY DEF TypeInv, TypeOK
<1>1. CASE SkipRecorded(w)
  <2>1. PICK t \in tx[w].todo : /\ ledger[t.key] # None
                                /\ tx' = [tx EXCEPT ![w].todo = @ \ {t}]
    BY <1>1 DEF SkipRecorded
  <2>2. /\ pc[w] = "read" /\ pc' = pc /\ UNCHANGED store
        /\ tx'[w].op = tx[w].op /\ tx'[w].visit = tx[w].visit
        /\ Postings(w)' \subseteq Postings(w)
    BY <1>1, <2>1 DEF SkipRecorded, store, Transaction, Postings
  <2>3. Registering(w)
    BY <2>1, <2>2, NothingPosted DEF Postings
  <2>4. Registering(w)'
    BY <2>2, <2>3 DEF Registering
  <2>. QED  BY <2>2, <2>4, OpenStep DEF Recording
<1>2. CASE CheckStock(w)
  <2>1. PICK t \in tx[w].todo : tx' = [tx EXCEPT ![w].next = t]
    BY <1>2 DEF CheckStock
  <2>2. /\ pc[w] = "read" /\ pc'[w] = "insert" /\ UNCHANGED store
        /\ tx'[w].op = tx[w].op /\ tx'[w].visit = tx[w].visit /\ tx'[w].local = tx[w].local
        /\ Postings(w)' = Postings(w)
    BY <1>2, <2>1 DEF CheckStock, Goto, Transaction, Postings
  <2>. QED  BY <2>2, SameWork DEF Recording
<1>3. CASE InsertMovement(w)
  <2>1. pc[w] = "insert" /\ pc'[w] = "read" /\ UNCHANGED store /\ tx[w].next \in tx[w].todo
    BY <1>3 DEF InsertMovement, Goto, TypeInv, WellFormed
  <2>2. /\ tx'[w].op = tx[w].op /\ tx'[w].visit = tx[w].visit /\ tx'[w].local = tx[w].local
        /\ tx'[w].todo = tx[w].todo \ {tx[w].next}
        /\ tx'[w].writes = tx[w].writes \cup {tx[w].next}
    BY <1>3 DEF InsertMovement, Transaction
  <2>3. Postings(w)' = Postings(w)
    BY <2>1, <2>2 DEF Postings
  <2>. QED  BY <2>1, <2>2, <2>3, SameWork DEF Recording
<1>. QED  BY <1>1, <1>2, <1>3

LEMMA FinishVisits ==
  ASSUME OneSession, TypeInv, VisitsInv, NEW w \in Workers,
         FinishRegister(w) \/ FinishResolve(w) \/ FinishComplete(w)
  PROVE  VisitsInv'
<1>. tx[w] \in Transaction /\ pc \in [Workers -> Places] /\ tx \in [Workers -> Transaction]
  BY DEF TypeInv, TypeOK
<1>1. CASE FinishRegister(w) \/ FinishResolve(w)
  <2>1. /\ pc[w] = "read" /\ pc'[w] \in {"check", "commit"} /\ UNCHANGED store /\ tx' = tx
        /\ tx[w].op \in {"register", "resolve"} /\ tx[w].todo = {}
        /\ pc'[w] = "commit" => tx[w].op = "register"
    BY <1>1 DEF FinishRegister, FinishResolve, Goto, store
  <2>2. Registering(w) \/ Resolving(w)
    BY <2>1 DEF VisitsInv, OpenInv, Starting, AddingLine, Cancelling, Completing
  <2>3. Postings(w)' = Postings(w) /\ visits' = visits
    BY <2>1 DEF Postings, store
  <2>4. Registering(w)' \/ Resolving(w)'
    BY <2>1, <2>2, <2>3 DEF Registering, Resolving
  <2>5. ~(OnVisit(w) /\ pc[w] \in {"flush", "commit"})'
    BY <2>1 DEF OnVisit
  <2>6. tx'[w].todo = {}
    BY <2>1
  <2>. QED  BY <2>1, <2>4, <2>5, <2>6, OpenStep
<1>2. CASE FinishComplete(w)
  <2>1. /\ pc[w] = "read" /\ pc'[w] = "check" /\ UNCHANGED store
        /\ tx[w].op = "complete" /\ tx[w].todo = {} /\ InProgress(tx[w].local)
        /\ tx'[w].op = tx[w].op /\ tx'[w].visit = tx[w].visit
        /\ tx'[w].local = WithStatus(tx[w].local, "COMPLETED")
        /\ tx'[w].todo = {} /\ tx'[w].writes = tx[w].writes
    BY <1>2 DEF FinishComplete, Goto, Transaction
  <2>2. Completing(w) /\ Recording(w)
    BY <2>1
    DEF VisitsInv, OpenInv, Starting, AddingLine, Cancelling, Resolving, Registering, Recording
  <2>3. Postings(w)' = Postings(w) /\ visits' = visits /\ ~Recording(w)'
    BY <2>1 DEF Postings, store, Recording
  <2>4. Completing(w)'
    BY <2>1, <2>2, <2>3 DEF Completing
  <2>5. ~(OnVisit(w) /\ pc[w] \in {"flush", "commit"})'
    BY <2>1
  <2>. QED  BY <2>1, <2>4, <2>5, OpenStep
<1>. QED  BY <1>1, <1>2

LEMMA SavingVisits ==
  ASSUME OneSession, TypeInv, VisitsInv, NEW w \in Workers,
         CheckVersion(w) \/ Merge(w) \/ Flush(w)
  PROVE  VisitsInv'
<1>. tx[w] \in Transaction /\ pc \in [Workers -> Places] /\ tx \in [Workers -> Transaction]
  BY DEF TypeInv, TypeOK
<1>1. /\ pc[w] \in {"check", "merge", "flush"} /\ pc'[w] \in {"merge", "flush", "commit"}
      /\ UNCHANGED store
      /\ tx'[w].op = tx[w].op /\ tx'[w].visit = tx[w].visit /\ tx'[w].local = tx[w].local
      /\ tx'[w].todo = tx[w].todo /\ tx'[w].writes = tx[w].writes
  BY DEF CheckVersion, Merge, Flush, Goto, store, Transaction
<1>2. pc'[w] \in {"flush", "commit"} /\ OnVisit(w) => tx'[w].base = visits[tx[w].visit]
  <2>1. CASE CheckVersion(w)
    BY <2>1 DEF CheckVersion, Goto
  <2>2. CASE Merge(w)
    BY <2>2 DEF Merge, Transaction
  <2>3. CASE Flush(w)
    BY <2>3 DEF Flush, Goto, VisitsInv, OpenInv
  <2>. QED  BY <2>1, <2>2, <2>3
<1>3. OnVisit(w)' = OnVisit(w) /\ visits' = visits
  BY <1>1 DEF OnVisit, store
<1>4. Postings(w)' = Postings(w) /\ ~Recording(w) /\ Recording(w)' = Recording(w)
  BY <1>1 DEF Postings, Recording
<1>5. (~Recording(w) => tx[w].todo = {})'
  BY <1>1, <1>4 DEF VisitsInv, OpenInv
<1>6. (OnVisit(w) /\ pc[w] \in {"flush", "commit"} => tx[w].base = visits[tx[w].visit])'
  BY <1>1, <1>2, <1>3
<1>. QED  BY <1>1, <1>4, <1>5, <1>6, SameWork

----------------------------------------------------------------------------
(* The commit: the aggregate in memory becomes the row *)

\* With the row read back as it still is, every column gets what is in memory.
LEMMA WrittenIsSaved ==
  ASSUME NEW local \in Visit, NEW row \in Visit, local.operator = row.operator
  PROVE  WrittenVisit(local, row, row) = Saved(local)
<1>1. /\ Column(local.status, row.status, row.status) = local.status
      /\ Column(local.version + 1, row.version, row.version) = local.version + 1
  BY DEF Column
<1>2. [l \in LineIds |-> Column(local.lines[l], row.lines[l], row.lines[l])] = local.lines
  BY DEF Column, Visit
<1>3. WrittenVisit(local, row, row) =
        [row EXCEPT !.status = local.status, !.version = local.version + 1, !.lines = local.lines]
  BY <1>1, <1>2 DEF WrittenVisit
<1>. QED  BY <1>3 DEF Saved, Visit

\* What has become of visit row in visit after: no line is lost.
KeepsLines(row, after) ==
  /\ after.operator = row.operator
  /\ \A l \in LinesOf(row) :
       /\ after.lines[l] # None
       /\ after.lines[l].slot = row.lines[l].slot
       /\ after.lines[l].quantity = row.lines[l].quantity
       /\ Resolved(row.lines[l]) => after.lines[l] = row.lines[l]

LEMMA CopyOfRow ==
  ASSUME TypeInv, VisitsInv, NEW w \in Workers, pc[w] # "idle", OnVisit(w)
  PROVE  LET v == tx[w].visit IN
         /\ v \in VisitKeys /\ Exists(v) /\ visits[v] \in Visit
         /\ tx[w].local \in Visit
         /\ tx[w].local.version = visits[v].version
         /\ KeepsLines(visits[v], tx[w].local)
<1> DEFINE v     == tx[w].visit
           row   == visits[v]
           local == tx[w].local
<1>1. v \in VisitKeys /\ Exists(v) /\ row \in Visit /\ local \in Visit
  BY DEF TypeInv, TypeOK, StoreTypeOK, WellFormed, Transaction, Exists
<1>2. CASE local = row
  BY <1>1, <1>2 DEF KeepsLines, LinesOf
<1>3. ASSUME NEW s, local = WithStatus(row, s)
      PROVE  local.version = row.version /\ KeepsLines(row, local)
  BY <1>1, <1>3 DEF KeepsLines, LinesOf, WithStatus, Visit
<1>4. CASE AddingLine(w)
  <2>1. PICK l \in LineIds \ LinesOf(row), line \in Line : local = WithLine(row, l, line)
    BY <1>4 DEF AddingLine
  <2>2. local.version = row.version /\ local.operator = row.operator
    BY <1>1, <2>1 DEF WithLine, Visit
  <2>3. \A m \in LinesOf(row) : local.lines[m] = row.lines[m]
    BY <1>1, <2>1 DEF WithLine, Visit, LinesOf
  <2>. QED  BY <1>1, <2>2, <2>3 DEF KeepsLines, LinesOf
<1>5. CASE Resolving(w)
  <2>1. PICK l \in PendingLines(row), p \in Products : local = WithProduct(row, l, p)
    BY <1>5 DEF Resolving
  <2>2. local.version = row.version /\ local.operator = row.operator
    BY <1>1, <2>1 DEF WithProduct, Visit
  <2>3. \A m \in LinesOf(row) \ {l} : local.lines[m] = row.lines[m]
    BY <1>1, <2>1 DEF WithProduct, Visit, LinesOf
  <2>4. l \in LinesOf(row) /\ row.lines[l] \in Line /\ ~Resolved(row.lines[l])
    BY <1>1, <2>1, LineOfVisit DEF PendingLines, ResolvedLines
  <2>5. local.lines[l] = [row.lines[l] EXCEPT !.product = p]
    BY <1>1, <2>1, <2>4 DEF WithProduct, Visit, LinesOf
  <2>6. local.lines[l] \in Line
    BY <2>4, <2>5 DEF Line
  <2>7. /\ local.lines[l] # None
        /\ local.lines[l].slot = row.lines[l].slot
        /\ local.lines[l].quantity = row.lines[l].quantity
    BY <2>4, <2>5, <2>6, NoneVisitAssumption DEF Line
  <2>. QED  BY <1>1, <2>2, <2>3, <2>4, <2>7 DEF KeepsLines, LinesOf
<1>. QED
  BY <1>1, <1>2, <1>3, <1>4, <1>5
  DEF VisitsInv, OpenInv, OnVisit, Starting, Cancelling, Completing, Registering

\* The rows after a commit.
LEMMA CommittedRows ==
  ASSUME TypeInv, VisitsInv, NEW w \in Workers, Commit(w)
  PROVE  LET v == tx[w].visit IN
         /\ pc[w] = "commit" /\ tx[w].todo = {}
         /\ tx[w].op = "register" => visits' = visits
         /\ tx[w].op = "start" => v \in VisitKeys /\ visits' = [visits EXCEPT ![v] = tx[w].local]
         /\ OnVisit(w) => visits' = [visits EXCEPT ![v] = Saved(tx[w].local)]
<1> DEFINE v == tx[w].visit
<1>1. pc[w] = "commit" /\ visits' = CommittedVisits(w)
  BY DEF Commit
<1>2. tx[w].todo = {}
  BY <1>1 DEF VisitsInv, OpenInv, Recording
<1>3. tx[w].op = "start" => v \in VisitKeys
  BY DEF TypeInv, TypeOK, WellFormed, Transaction
<1>4. ASSUME OnVisit(w)
      PROVE  visits' = [visits EXCEPT ![v] = Saved(tx[w].local)]
  <2>1. tx[w].base = visits[v]
    BY <1>1, <1>4 DEF VisitsInv, OpenInv
  <2>2. visits' = [visits EXCEPT ![v] = WrittenVisit(tx[w].local, tx[w].base, visits[v])]
    BY <1>1, <1>4 DEF CommittedVisits, OnVisit
  <2>3. WrittenVisit(tx[w].local, visits[v], visits[v]) = Saved(tx[w].local)
    BY <1>1, <1>4, CopyOfRow, WrittenIsSaved DEF KeepsLines
  <2>. QED  BY <2>1, <2>2, <2>3
<1>. QED  BY <1>1, <1>2, <1>3, <1>4 DEF CommittedVisits

LEMMA CommittedMovements ==
  ASSUME TypeInv, NEW w \in Workers, Commit(w)
  PROVE  /\ \A k \in MovementKeys :
              (\A t \in tx[w].writes : t.key # k) => ledger'[k] = ledger[k]
         /\ \A t \in tx[w].writes :
              (\A s \in tx[w].writes : s.key = t.key => s = t) => ledger'[t.key] = t.movement
<1>1. ledger' = CommittedLedger(w)
  BY DEF Commit
<1>2. \A t \in tx[w].writes : t.key \in MovementKeys
  BY DEF TypeInv, TypeOK, Transaction, Posting
<1>3. ASSUME NEW k \in MovementKeys, \A t \in tx[w].writes : t.key # k
      PROVE  ledger'[k] = ledger[k]
  BY <1>1, <1>3 DEF CommittedLedger
<1>4. ASSUME NEW t \in tx[w].writes, \A s \in tx[w].writes : s.key = t.key => s = t
      PROVE  ledger'[t.key] = t.movement
  <2>1. (CHOOSE s \in tx[w].writes : s.key = t.key) = t
    BY <1>4
  <2>. QED  BY <1>1, <1>2, <2>1 DEF CommittedLedger
<1>. QED  BY <1>3, <1>4

----------------------------------------------------------------------------
(* Visits and ledger agree after a commit *)

Match(v, l) ==
  IF Settled(v, l)
  THEN \E k \in MovementKeys :
         /\ PostedKeys(v, l) = {k}
         /\ ledger[k] = LineMovement(visits[v], visits[v].lines[l])
  ELSE PostedKeys(v, l) = {}

\* A line counts and is posted as before when the step leaves it, the rest of
\* what its movement says and the line's keys alone.
LEMMA MatchStays ==
  ASSUME NEW v \in VisitKeys, NEW l \in LineIds, Match(v, l),
         ledger'[LineKey(v, l)] = ledger[LineKey(v, l)],
         ledger'[ResolveKey(v, l)] = ledger[ResolveKey(v, l)],
         \/ visits'[v] = visits[v]
         \/ ~Settled(v, l) /\ ~Settled(v, l)'
         \/ /\ Exists(v) /\ Exists(v)'
            /\ visits'[v].status = visits[v].status
            /\ visits'[v].operator = visits[v].operator
            /\ visits'[v].lines[l] = visits[v].lines[l]
  PROVE  Match(v, l)'
<1>1. PostedKeys(v, l)' = PostedKeys(v, l)
  BY DEF PostedKeys
<1>2. CASE ~Settled(v, l) /\ ~Settled(v, l)'
  BY <1>1, <1>2 DEF Match
<1>3. CASE /\ Exists(v)' = Exists(v)
           /\ Exists(v) => /\ visits'[v].status = visits[v].status
                           /\ visits'[v].operator = visits[v].operator
                           /\ visits'[v].lines[l] = visits[v].lines[l]
  <2>1. Settled(v, l)' = Settled(v, l)
    BY <1>3 DEF Settled, ResolvedLines, LinesOf
  <2>2. CASE ~Settled(v, l)
    BY <1>1, <2>1, <2>2 DEF Match
  <2>3. CASE Settled(v, l)
    <3>1. LineMovement(visits[v], visits[v].lines[l])' = LineMovement(visits[v], visits[v].lines[l])
      BY <1>3, <2>3 DEF LineMovement, Settled
    <3>2. PICK k \in MovementKeys :
            /\ PostedKeys(v, l) = {k}
            /\ ledger[k] = LineMovement(visits[v], visits[v].lines[l])
      BY <2>3 DEF Match
    <3>3. k \in {LineKey(v, l), ResolveKey(v, l)}
      BY <3>2 DEF PostedKeys
    <3>4. ledger'[k] = ledger[k]
      BY <3>3
    <3>. QED  BY <1>1, <2>1, <2>3, <3>1, <3>2, <3>4 DEF Match
  <2>. QED  BY <2>2, <2>3
<1>4. CASE visits'[v] = visits[v]
  BY <1>3, <1>4 DEF Exists
<1>. QED  BY <1>2, <1>3, <1>4 DEF Exists

\* A line whose movement the step stores, and under one key, matches.
LEMMA MatchPosted ==
  ASSUME NEW v \in VisitKeys, NEW l \in LineIds,
         NEW k \in {LineKey(v, l), ResolveKey(v, l)},
         PostedKeys(v, l) = {},
         \A j \in {LineKey(v, l), ResolveKey(v, l)} \ {k} : ledger'[j] = ledger[j],
         Settled(v, l)',
         ledger'[k] = LineMovement(visits'[v], visits'[v].lines[l]),
         ledger'[k] \in Movement
  PROVE  Match(v, l)'
<1>1. ledger'[k] # None
  BY NoneMovementAssumption
<1>2. PostedKeys(v, l)' = {k}
  BY <1>1 DEF PostedKeys
<1>3. k \in MovementKeys
  BY KeyTypes
<1>. QED  BY <1>2, <1>3 DEF Match

\* The keys of different lines, and those of inventory requests, differ.
LEMMA KeysDiffer ==
  ASSUME NEW u, NEW v, NEW l, NEW m
  PROVE  /\ LineKey(u, l) = LineKey(v, m) => u = v /\ l = m
         /\ ResolveKey(u, l) = ResolveKey(v, m) => u = v /\ l = m
         /\ LineKey(u, l) # ResolveKey(v, m)
BY DEF LineKey, ResolveKey

LEMMA VisitsStay ==
  ASSUME TypeInv, NEW w \in Workers, Commit(w), NEW v \in VisitKeys, Exists(v)
  PROVE  Exists(v)'
<1>1. pc[w] = "commit" /\ visits' = CommittedVisits(w)
  BY DEF Commit
<1>2. CommittedVisits(w)[v] # None
  BY <1>1, CommittedTypes
<1>. QED  BY <1>1, <1>2 DEF Exists

LEMMA CompletedMatch ==
  ASSUME TypeInv, VisitsInv, NEW w \in Workers, Commit(w), Completing(w),
         NEW v, v = tx[w].visit
  PROVE  \A l \in LineIds : Match(v, l)'
<1> DEFINE row == visits[v]
<1>1. /\ pc[w] = "commit" /\ OnVisit(w)
      /\ visits' = [visits EXCEPT ![v] = Saved(tx[w].local)]
      /\ tx[w].writes = CompletionPostings(v, row)
      /\ tx[w].local = WithStatus(row, "COMPLETED")
  BY CommittedRows DEF Completing, OnVisit, Postings, Recording
<1>2. v \in VisitKeys /\ Exists(v) /\ row \in Visit /\ row.status # "COMPLETED"
  BY <1>1, CopyOfRow DEF Completing
<1>3. /\ visits'[v].status = "COMPLETED" /\ visits'[v].lines = row.lines
      /\ visits'[v].operator = row.operator
  BY <1>1, <1>2 DEF TypeInv, TypeOK, StoreTypeOK, Saved, WithStatus, Visit
<1>4. Exists(v)'
  BY <1>2, VisitsStay
<1> SUFFICES ASSUME NEW l \in LineIds PROVE Match(v, l)'
  OBVIOUS
<1>5. PostedKeys(v, l) = {} /\ Match(v, l) /\ ~Settled(v, l)
  BY <1>2 DEF VisitsInv, VisitsMatchLedger, Settled, Match
<1>6. \A t \in tx[w].writes : t.key # ResolveKey(v, l)
  BY <1>1, KeysDiffer DEF CompletionPostings, At
<1>7. ledger'[ResolveKey(v, l)] = ledger[ResolveKey(v, l)]
  BY <1>2, <1>6, CommittedMovements, KeyTypes
<1>8. CASE l \in ResolvedLines(row)
  <2> DEFINE t == At(LineKey(v, l), LineMovement(row, row.lines[l]))
  <2>1. t \in tx[w].writes
    BY <1>1, <1>8 DEF CompletionPostings
  <2>2. \A s \in tx[w].writes : s.key = t.key => s = t
    BY <1>1, KeysDiffer DEF CompletionPostings, At
  <2>3. ledger'[LineKey(v, l)] = LineMovement(row, row.lines[l])
    BY <2>1, <2>2, CommittedMovements DEF At
  <2>4. LineMovement(row, row.lines[l]) \in Movement
    BY <1>2, <1>8, LineOfVisit, LineMovementType DEF ResolvedLines
  <2>5. LineMovement(row, row.lines[l]) = LineMovement(visits'[v], visits'[v].lines[l])
    BY <1>3 DEF LineMovement
  <2>6. Settled(v, l)'
    BY <1>3, <1>4, <1>8 DEF Settled, ResolvedLines, LinesOf
  <2>. QED  BY <1>2, <1>5, <1>7, <2>3, <2>4, <2>5, <2>6, MatchPosted
<1>9. CASE l \notin ResolvedLines(row)
  <2>1. \A t \in tx[w].writes : t.key # LineKey(v, l)
    BY <1>1, <1>9, KeysDiffer DEF CompletionPostings, At
  <2>2. ledger'[LineKey(v, l)] = ledger[LineKey(v, l)]
    BY <1>2, <2>1, CommittedMovements, KeyTypes
  <2>3. ~Settled(v, l)'
    BY <1>3, <1>9 DEF Settled, ResolvedLines, LinesOf
  <2>. QED  BY <1>2, <1>5, <1>7, <2>2, <2>3, MatchStays
<1>. QED  BY <1>8, <1>9

LEMMA OtherLinesStay ==
  ASSUME NEW row \in Visit, NEW r \in LineIds, NEW p
  PROVE  /\ \A l \in LineIds \ {r} : WithProduct(row, r, p).lines[l] = row.lines[l]
         /\ WithProduct(row, r, p).lines[r] = [row.lines[r] EXCEPT !.product = p]
<1>1. row.lines \in [LineIds -> Line \cup {None}] /\ "lines" \in DOMAIN row
  BY DEF Visit
<1>2. WithProduct(row, r, p).lines = [row.lines EXCEPT ![r].product = p]
  BY <1>1 DEF WithProduct
<1>. QED  BY <1>1, <1>2

LEMMA ResolvedMatch ==
  ASSUME TypeInv, VisitsInv, NEW w \in Workers, Commit(w), Resolving(w),
         NEW v, v = tx[w].visit
  PROVE  \A l \in LineIds : Match(v, l)'
<1> DEFINE row   == visits[v]
           local == tx[w].local
<1>1. /\ pc[w] = "commit" /\ OnVisit(w)
      /\ visits' = [visits EXCEPT ![v] = Saved(local)]
      /\ Postings(w) = tx[w].writes
  BY CommittedRows DEF Resolving, OnVisit, Postings
<1>2. v \in VisitKeys /\ Exists(v) /\ row \in Visit /\ local \in Visit
  BY <1>1, CopyOfRow
<1>3. PICK r \in PendingLines(row), p \in Products :
        /\ local = WithProduct(row, r, p)
        /\ tx[w].writes = IF row.status = "COMPLETED" THEN {ResolutionPosting(v, local, r)} ELSE {}
  BY <1>1 DEF Resolving
<1>4. r \in LineIds /\ row.lines[r] \in Line
  BY <1>2, <1>3, LineOfVisit DEF PendingLines
<1>5. /\ visits'[v].status = row.status /\ visits'[v].operator = row.operator
      /\ visits'[v].lines = local.lines
      /\ \A l \in LineIds \ {r} : local.lines[l] = row.lines[l]
      /\ local.lines[r] = [row.lines[r] EXCEPT !.product = p]
      /\ local.operator = row.operator
  <2>1. visits'[v] = Saved(local)
    BY <1>1, <1>2 DEF TypeInv, TypeOK, StoreTypeOK
  <2>2. visits'[v].status = local.status /\ visits'[v].operator = local.operator
        /\ visits'[v].lines = local.lines
    BY <1>2, <2>1 DEF Saved, Visit
  <2>3. local.status = row.status /\ local.operator = row.operator
    BY <1>2, <1>3 DEF WithProduct, Visit
  <2>4. /\ \A l \in LineIds \ {r} : local.lines[l] = row.lines[l]
        /\ local.lines[r] = [row.lines[r] EXCEPT !.product = p]
    <3>1. /\ \A l \in LineIds \ {r} : WithProduct(row, r, p).lines[l] = row.lines[l]
          /\ WithProduct(row, r, p).lines[r] = [row.lines[r] EXCEPT !.product = p]
      BY <1>2, <1>4, OtherLinesStay
    <3>. QED  BY <1>3, <3>1
  <2>5. visits'[v].status = row.status /\ visits'[v].operator = row.operator
    BY <2>2, <2>3
  <2> HIDE DEF local, row
  <2>. QED  BY <2>2, <2>3, <2>4, <2>5
<1>6. Exists(v)'
  BY <1>2, VisitsStay
<1>7. \A l \in LineIds : Match(v, l)
  BY <1>2 DEF VisitsInv, VisitsMatchLedger, Match
<1>8. ASSUME NEW l \in LineIds, row.status = "COMPLETED" => l # r
      PROVE  /\ ledger'[LineKey(v, l)] = ledger[LineKey(v, l)]
             /\ ledger'[ResolveKey(v, l)] = ledger[ResolveKey(v, l)]
  <2>1. \A t \in tx[w].writes : t.key # LineKey(v, l) /\ t.key # ResolveKey(v, l)
    BY <1>3, <1>8, KeysDiffer DEF ResolutionPosting, At
  <2>. QED  BY <1>2, <2>1, CommittedMovements, KeyTypes
<1> SUFFICES ASSUME NEW l \in LineIds PROVE Match(v, l)'
  OBVIOUS
<1>9. CASE row.status # "COMPLETED"
  <2>1. ~Settled(v, l) /\ ~Settled(v, l)'
    BY <1>5, <1>9 DEF Settled
  <2>. QED  BY <1>2, <1>7, <1>8, <1>9, <2>1, MatchStays
<1>10. CASE l # r
  <2>1. /\ ledger'[LineKey(v, l)] = ledger[LineKey(v, l)]
        /\ ledger'[ResolveKey(v, l)] = ledger[ResolveKey(v, l)]
    BY <1>8, <1>10
  <2>2. visits'[v].lines[l] = row.lines[l]
    BY <1>5, <1>10
  <2>3. visits'[v].status = row.status /\ visits'[v].operator = row.operator
    BY <1>5
  <2>. QED  BY <1>2, <1>6, <1>7, <2>1, <2>2, <2>3, MatchStays
<1>11. CASE row.status = "COMPLETED" /\ l = r
  <2> DEFINE t == ResolutionPosting(v, local, r)
  <2>1. tx[w].writes = {t} /\ t.key = ResolveKey(v, r)
        /\ t.movement = LineMovement(local, local.lines[r])
    BY <1>3, <1>11 DEF ResolutionPosting, At
  <2>2. ledger'[ResolveKey(v, r)] = LineMovement(local, local.lines[r])
    BY <2>1, CommittedMovements
  <2>3. \A s \in tx[w].writes : s.key # LineKey(v, r)
    BY <2>1, KeysDiffer
  <2>4. ledger'[LineKey(v, r)] = ledger[LineKey(v, r)]
    BY <1>2, <1>4, <2>3, CommittedMovements, KeyTypes
  <2>5. LineMovement(visits'[v], visits'[v].lines[r]) = LineMovement(local, local.lines[r])
    BY <1>5 DEF LineMovement
  <2>6. LineMovement(local, local.lines[r]) \in Movement
    <3>1. t \in Posting
      BY <2>1 DEF TypeInv, TypeOK, Transaction
    <3>. QED  BY <2>1, <3>1 DEF Posting
  <2>7. PostedKeys(v, r) = {}
    BY <1>3, <1>4, <1>7 DEF Match, Settled, PendingLines
  <2>8. Settled(v, r)'
    <3>1. local.lines[r] \in Line /\ local.lines[r].product = p
      BY <1>4, <1>5 DEF Line
    <3>2. local.lines[r] # None /\ Resolved(local.lines[r])
      BY <3>1, NoneAssumption, NoneVisitAssumption DEF Resolved
    <3>. QED  BY <1>4, <1>5, <1>6, <1>11, <3>2 DEF Settled, ResolvedLines, LinesOf
  <2>. QED  BY <1>2, <1>4, <1>11, <2>2, <2>4, <2>5, <2>6, <2>7, <2>8, MatchPosted
<1>. QED  BY <1>9, <1>10, <1>11

\* The other requests on a visit write no movement and leave it open or close
\* it without its lines counting.
LEMMA UnpostedMatch ==
  ASSUME TypeInv, VisitsInv, NEW w \in Workers, Commit(w),
         Starting(w) \/ AddingLine(w) \/ Cancelling(w),
         NEW v, v = tx[w].visit
  PROVE  \A l \in LineIds : Match(v, l)'
<1>1. tx[w].writes = {} /\ v \in VisitKeys
  BY DEF Starting, AddingLine, Cancelling, Postings, TypeInv, TypeOK, WellFormed, OnVisit, Transaction
<1>2. visits'[v].status \in {"IN_PROGRESS", "CANCELLED"}
  <2>1. CASE Starting(w)
    BY <2>1, <1>1, CommittedRows DEF Starting, Started, TypeInv, TypeOK, StoreTypeOK
  <2>2. CASE AddingLine(w) \/ Cancelling(w)
    <3>1. OnVisit(w) /\ visits' = [visits EXCEPT ![v] = Saved(tx[w].local)]
      BY <2>2, CommittedRows DEF AddingLine, Cancelling, OnVisit
    <3>2. visits[v] \in Visit /\ tx[w].local \in Visit
      BY <3>1, CommittedRows, CopyOfRow
    <3>3. tx[w].local.status \in {"IN_PROGRESS", "CANCELLED"}
      BY <2>2, <3>2 DEF AddingLine, Cancelling, InProgress, WithLine, WithStatus, Visit
    <3>. QED  BY <1>1, <3>1, <3>2, <3>3 DEF Saved, TypeInv, TypeOK, StoreTypeOK, Visit
  <2>. QED  BY <2>1, <2>2
<1> SUFFICES ASSUME NEW l \in LineIds PROVE Match(v, l)'
  OBVIOUS
<1>3. ~Settled(v, l) /\ ~Settled(v, l)'
  BY <1>2 DEF Starting, AddingLine, Cancelling, InProgress, Settled
<1>4. /\ ledger'[LineKey(v, l)] = ledger[LineKey(v, l)]
      /\ ledger'[ResolveKey(v, l)] = ledger[ResolveKey(v, l)]
  BY <1>1, CommittedMovements, KeyTypes
<1>5. Match(v, l)
  BY <1>1 DEF VisitsInv, VisitsMatchLedger, Match
<1>. QED  BY <1>1, <1>3, <1>4, <1>5, MatchStays

\* Another visit's lines are left alone, and all are by an inventory request.
LEMMA OtherMatch ==
  ASSUME TypeInv, VisitsInv, NEW w \in Workers, Commit(w),
         NEW u \in VisitKeys, u # tx[w].visit \/ Registering(w)
  PROVE  \A l \in LineIds : Match(u, l)'
<1> SUFFICES ASSUME NEW l \in LineIds PROVE Match(u, l)'
  OBVIOUS
<1>1. Match(u, l)
  BY DEF VisitsInv, VisitsMatchLedger, Match
<1>2. Postings(w) = tx[w].writes /\ pc[w] # "idle"
  BY CommittedRows DEF Postings
<1>3. visits'[u] = visits[u]
  BY <1>2, CommittedRows
  DEF VisitsInv, OpenInv, Starting, AddingLine, Cancelling, Completing, Resolving, Registering,
      OnVisit, TypeInv, TypeOK, StoreTypeOK
<1>4. \A t \in tx[w].writes : t.key # LineKey(u, l) /\ t.key # ResolveKey(u, l)
  <2>1. CASE Registering(w)
    BY <1>2, <2>1, InventoryKeysAssumption DEF Registering
  <2>2. CASE Completing(w) /\ u # tx[w].visit
    BY <1>2, <2>2, KeysDiffer DEF Completing, CompletionPostings, At
  <2>3. CASE Resolving(w) /\ u # tx[w].visit
    BY <1>2, <2>3, KeysDiffer DEF Resolving, ResolutionPosting, At
  <2>4. CASE Starting(w) \/ AddingLine(w) \/ Cancelling(w)
    BY <1>2, <2>4 DEF Starting, AddingLine, Cancelling
  <2>. QED  BY <1>2, <2>1, <2>2, <2>3, <2>4 DEF VisitsInv, OpenInv
<1>5. /\ ledger'[LineKey(u, l)] = ledger[LineKey(u, l)]
      /\ ledger'[ResolveKey(u, l)] = ledger[ResolveKey(u, l)]
  BY <1>4, CommittedMovements, KeyTypes
<1>. QED  BY <1>1, <1>3, <1>5, MatchStays

LEMMA CommitVisits ==
  ASSUME OneSession, TypeInv, VisitsInv, NEW w \in Workers, Commit(w)
  PROVE  VisitsInv'
<1>1. OpenInv'
  BY DEF OpenInv, OneSession, Commit, Goto, TypeInv, TypeOK
<1>2. \A v \in VisitKeys, l \in LineIds : Match(v, l)'
  <2> SUFFICES ASSUME NEW v \in VisitKeys PROVE \A l \in LineIds : Match(v, l)'
    OBVIOUS
  <2>1. CASE v # tx[w].visit \/ Registering(w)
    BY <2>1, OtherMatch
  <2>2. CASE v = tx[w].visit /\ ~Registering(w)
    <3>1. Starting(w) \/ AddingLine(w) \/ Cancelling(w) \/ Completing(w) \/ Resolving(w)
      BY <2>2, CommittedRows DEF VisitsInv, OpenInv
    <3>. QED  BY <2>2, <3>1, UnpostedMatch, CompletedMatch, ResolvedMatch
  <2>. QED  BY <2>1, <2>2
<1>3. VisitsMatchLedger'
  BY <1>2 DEF VisitsMatchLedger, Match
<1>. QED  BY <1>1, <1>3 DEF VisitsInv

LEMMA NextVisits ==
  ASSUME OneSession, TypeInv, VisitsInv, [Next]_vars
  PROVE  VisitsInv'
<1>1. CASE UNCHANGED vars
  BY <1>1 DEF vars, VisitsInv, OpenInv, VisitsMatchLedger, Settled, PostedKeys, Exists,
     Starting, AddingLine, Cancelling, Completing, Resolving, Registering, Postings, Recording,
     OnVisit
<1>2. ASSUME NEW w \in Workers, LockStep(w) PROVE VisitsInv'
  BY <1>2, RecordingVisits, SavingVisits, RollbackVisits
  DEF LockStep, DuplicateMovement, DuplicateVisit
<1>3. ASSUME NEW w \in Workers, Step(w) PROVE VisitsInv'
  BY <1>3, RecordingVisits, FinishVisits, SavingVisits, CommitVisits, RollbackVisits
  DEF Step, RejectStock, RejectComplete, StaleVersion, DeadlockVictim
<1>4. ASSUME NEW w \in Workers, Crash(w) PROVE VisitsInv'
  BY <1>4, RollbackVisits DEF Crash
<1>. QED  BY <1>1, <1>2, <1>3, <1>4, BeginVisits DEF Next

LEMMA VisitsInvariance ==
  ASSUME OneSession
  PROVE  Spec => []VisitsInv
<1>1. TypeInv /\ VisitsInv /\ [Next]_vars => VisitsInv'
  BY NextVisits
<1>. QED  BY <1>1, TypeInvariance, InitVisits, PTL DEF Spec

\* Served by one process, each resolved line of a completed visit moves the
\* stock exactly once, by what the line says, and no other line does (complete.py,
\* resolve_line_product.py): whichever of the two requests posts it, and wherever
\* a crash or a rejection ends one of them.
THEOREM VisitsAgreeWithLedger ==
  ASSUME OneSession
  PROVE  Spec => []VisitsMatchLedger
<1>1. VisitsInv => VisitsMatchLedger
  BY DEF VisitsInv
<1>. QED  BY <1>1, VisitsInvariance, PTL

----------------------------------------------------------------------------
(* What a step may do to a stored visit *)

LEMMA OnlyCommitsChangeRows ==
  ASSUME [Next]_vars
  PROVE  UNCHANGED store \/ \E w \in Workers : Commit(w)
<1>1. ASSUME NEW w \in Workers, BeginRequest(w) PROVE UNCHANGED store
  BY <1>1 DEF BeginRequest, BeginStart, BeginAddLine, BeginComplete, BeginCancel, BeginResolve,
              BeginRegister, Replay, Begin, vars, store
<1>2. ASSUME NEW w \in Workers, LockStep(w) PROVE UNCHANGED store
  BY <1>2 DEF LockStep, InsertMovement, DuplicateMovement, Merge, Flush, DuplicateVisit,
              Rollback, store
<1>3. ASSUME NEW w \in Workers, Step(w) \/ Crash(w), ~Commit(w) PROVE UNCHANGED store
  BY <1>3 DEF Step, SkipRecorded, CheckStock, RejectStock, FinishRegister, FinishResolve,
              FinishComplete, RejectComplete, CheckVersion, StaleVersion, DeadlockVictim, Crash,
              Rollback, store
<1>. QED  BY <1>1, <1>2, <1>3 DEF Next, vars, store

\* A commit that changes a stored visit saves the copy its transaction made.
LEMMA SavedVisit ==
  ASSUME TypeInv, VisitsInv, NEW w \in Workers, Commit(w),
         NEW v \in VisitKeys, Exists(v), visits'[v] # visits[v]
  PROVE  /\ pc[w] = "commit" /\ OnVisit(w) /\ v = tx[w].visit
         /\ visits[v] \in Visit
         /\ visits'[v].version = visits[v].version + 1
         /\ visits'[v].status = tx[w].local.status
         /\ visits'[v].lines = tx[w].local.lines
         /\ KeepsLines(visits[v], tx[w].local)
<1>1. pc[w] = "commit"
  BY CommittedRows
<1>2. tx[w].op = "start" => ~Exists(tx[w].visit)
  BY <1>1 DEF VisitsInv, OpenInv, Starting, AddingLine, Cancelling, Completing, Resolving, Registering
<1>3. tx[w].op \in {"register", "start"} \/ OnVisit(w)
  BY <1>1
  DEF VisitsInv, OpenInv, Starting, AddingLine, Cancelling, Completing, Resolving, Registering, OnVisit
<1>4. v = tx[w].visit /\ OnVisit(w) /\ visits'[v] = Saved(tx[w].local)
  BY <1>2, <1>3, CommittedRows DEF TypeInv, TypeOK, StoreTypeOK
<1>5. /\ visits[v] \in Visit /\ tx[w].local \in Visit
      /\ tx[w].local.version = visits[v].version /\ KeepsLines(visits[v], tx[w].local)
  BY <1>1, <1>4, CopyOfRow
<1>6. /\ visits'[v].version = visits[v].version + 1
      /\ visits'[v].status = tx[w].local.status
      /\ visits'[v].lines = tx[w].local.lines
  BY <1>4, <1>5 DEF Saved, Visit
<1>. QED  BY <1>1, <1>4, <1>5, <1>6

\* Served by one process, two saves of a visit never have the same version
\* (repositories.py: save; Replenishment.version).
THEOREM VersionsAdvance ==
  ASSUME OneSession
  PROVE  Spec => SavesAdvanceVersion
<1>1. TypeInv /\ VisitsInv /\ [Next]_vars =>
        [\A v \in VisitKeys : Exists(v) /\ visits'[v] # visits[v] =>
           visits'[v].version = visits[v].version + 1]_store
  <2> SUFFICES ASSUME TypeInv, VisitsInv, NEW w \in Workers, Commit(w),
                      NEW v \in VisitKeys, Exists(v), visits'[v] # visits[v]
               PROVE  visits'[v].version = visits[v].version + 1
    BY OnlyCommitsChangeRows
  <2>. QED  BY SavedVisit
<1>. QED  BY <1>1, TypeInvariance, VisitsInvariance, PTL DEF Spec, SavesAdvanceVersion

\* Served by one process, no save drops a line, or moves one to another slot,
\* quantity or product (replenishment/entities.py: add_line, resolve_line).
THEOREM LinesStay ==
  ASSUME OneSession
  PROVE  Spec => LinesAreKept
<1>1. TypeInv /\ VisitsInv /\ [Next]_vars =>
        [\A v \in VisitKeys, l \in LineIds : Exists(v) /\ l \in LinesOf(visits[v]) =>
           /\ visits'[v] # None
           /\ l \in LinesOf(visits'[v])
           /\ visits'[v].lines[l].slot = visits[v].lines[l].slot
           /\ visits'[v].lines[l].quantity = visits[v].lines[l].quantity
           /\ Resolved(visits[v].lines[l]) =>
                visits'[v].lines[l].product = visits[v].lines[l].product]_store
  <2> SUFFICES ASSUME TypeInv, VisitsInv, NEW w \in Workers, Commit(w),
                      NEW v \in VisitKeys, NEW l \in LineIds, Exists(v), l \in LinesOf(visits[v]),
                      visits'[v] # visits[v]
               PROVE  /\ visits'[v] # None
                      /\ l \in LinesOf(visits'[v])
                      /\ visits'[v].lines[l].slot = visits[v].lines[l].slot
                      /\ visits'[v].lines[l].quantity = visits[v].lines[l].quantity
                      /\ Resolved(visits[v].lines[l]) =>
                           visits'[v].lines[l].product = visits[v].lines[l].product
    BY OnlyCommitsChangeRows DEF Exists
  <2>1. visits'[v] # None
    BY VisitsStay DEF Exists
  <2>2. visits'[v].lines = tx[w].local.lines /\ KeepsLines(visits[v], tx[w].local)
    BY SavedVisit
  <2>. QED  BY <2>1, <2>2 DEF KeepsLines, LinesOf
<1>. QED  BY <1>1, TypeInvariance, VisitsInvariance, PTL DEF Spec, LinesAreKept

\* Served by one process, a closed visit stays closed and only gets products for
\* the lines that were still pending (replenishment/entities.py).
THEOREM ClosedForGood ==
  ASSUME OneSession
  PROVE  Spec => ClosedVisitsAreFinal
<1> DEFINE Pending(v, l) == \E p \in Products :
                              visits'[v].lines[l] = [visits[v].lines[l] EXCEPT !.product = p]
<1>1. TypeInv /\ VisitsInv /\ [Next]_vars =>
        [\A v \in VisitKeys : Exists(v) /\ Closed(visits[v]) =>
           /\ visits'[v] # None
           /\ visits'[v].status = visits[v].status
           /\ \A l \in LineIds :
                \/ visits'[v].lines[l] = visits[v].lines[l]
                \/ /\ visits[v].status = "COMPLETED"
                   /\ l \in PendingLines(visits[v])
                   /\ Pending(v, l)]_store
  <2> SUFFICES ASSUME TypeInv, VisitsInv, NEW w \in Workers, Commit(w),
                      NEW v \in VisitKeys, Exists(v), Closed(visits[v]), visits'[v] # visits[v]
               PROVE  /\ visits'[v] # None
                      /\ visits'[v].status = visits[v].status
                      /\ \A l \in LineIds :
                           \/ visits'[v].lines[l] = visits[v].lines[l]
                           \/ /\ visits[v].status = "COMPLETED"
                              /\ l \in PendingLines(visits[v])
                              /\ Pending(v, l)
    BY OnlyCommitsChangeRows DEF Exists
  <2> DEFINE row   == visits[v]
             local == tx[w].local
  <2>1. visits'[v] # None
    BY VisitsStay DEF Exists
  <2>2. /\ pc[w] = "commit" /\ OnVisit(w) /\ v = tx[w].visit
        /\ row \in Visit
        /\ visits'[v].lines = local.lines /\ visits'[v].status = local.status
    BY SavedVisit
  <2>3. Resolving(w)
    BY <2>2
    DEF VisitsInv, OpenInv, Starting, AddingLine, Cancelling, Completing, Registering, OnVisit,
        Recording, InProgress, Closed
  <2>4. PICK r \in PendingLines(row), p \in Products : local = WithProduct(row, r, p)
    BY <2>2, <2>3 DEF Resolving
  <2>5. r \in LineIds
    BY <2>4 DEF PendingLines, LinesOf
  <2>6. local.status = row.status
    BY <2>2, <2>4 DEF WithProduct, Visit
  <2>7. /\ \A l \in LineIds \ {r} : local.lines[l] = row.lines[l]
        /\ local.lines[r] = [row.lines[r] EXCEPT !.product = p]
    <3>1. row \in Visit /\ r \in LineIds
      BY <2>2, <2>5
    <3> HIDE DEF row
    <3>2. /\ \A l \in LineIds \ {r} : WithProduct(row, r, p).lines[l] = row.lines[l]
          /\ WithProduct(row, r, p).lines[r] = [row.lines[r] EXCEPT !.product = p]
      BY <3>1, OtherLinesStay
    <3>. QED  BY <2>4, <3>2
  <2>8. row.status = "COMPLETED"
    BY <2>2, <2>3 DEF Resolving, Closed
  <2>9. Pending(v, r)
    BY <2>2, <2>7
  <2>10. \A l \in LineIds \ {r} : visits'[v].lines[l] = row.lines[l]
    BY <2>2, <2>7
  <2>11. visits'[v].status = row.status
    BY <2>2, <2>6
  <2> HIDE DEF Pending, local
  <2>. QED  BY <2>1, <2>4, <2>8, <2>9, <2>10, <2>11
<1>. QED  BY <1>1, TypeInvariance, VisitsInvariance, PTL DEF Spec, ClosedVisitsAreFinal

\* Served by one process, a movement of a line appears in the step that leaves
\* the visit completed with that line, never before it (transactional_uow).
THEOREM PostingsAreAtomic ==
  ASSUME OneSession
  PROVE  Spec => PostingIsAtomic
<1>1. VisitsInv' => [\A v \in VisitKeys, l \in LineIds :
                       \A k \in {LineKey(v, l), ResolveKey(v, l)} :
                         ledger[k] = None /\ ledger'[k] # None =>
                           /\ visits'[v].status = "COMPLETED"
                           /\ l \in ResolvedLines(visits'[v])
                           /\ ledger'[k] = LineMovement(visits'[v], visits'[v].lines[l])]_store
  <2> SUFFICES ASSUME VisitsInv', NEW v \in VisitKeys, NEW l \in LineIds,
                      NEW k \in {LineKey(v, l), ResolveKey(v, l)}, ledger'[k] # None
               PROVE  /\ visits'[v].status = "COMPLETED"
                      /\ l \in ResolvedLines(visits'[v])
                      /\ ledger'[k] = LineMovement(visits'[v], visits'[v].lines[l])
    OBVIOUS
  <2>1. k \in PostedKeys(v, l)'
    BY DEF PostedKeys
  <2>2. Settled(v, l)' /\ ledger'[k] = LineMovement(visits'[v], visits'[v].lines[l])
    BY <2>1 DEF VisitsInv, VisitsMatchLedger
  <2>. QED  BY <2>2 DEF Settled
<1>. QED  BY <1>1, VisitsInvariance, PTL DEF Spec, PostingIsAtomic

----------------------------------------------------------------------------
(* The service the transactions implement *)

\* What the request was accepted for still holds.
Accepted(w) ==
  LET v == tx[w].visit IN
  /\ OnVisit(w) => Loadable(v)
  /\ tx[w].op = "add_line" =>
       \E l \in LineIds \ LinesOf(visits[v]), line \in LineRequests :
         /\ tx[w].local = WithLine(visits[v], l, line)
         /\ WithinCapacity(line)
         /\ Resolved(line) => Covered(stock, visits[v], line, line.product)
  /\ tx[w].op = "register" =>
       \E k \in InventoryKeys, movement \in InventoryRequests :
         ledger[k] = None /\ Postings(w) = {At(k, movement)}

\* What it has inserted, it could post at once.
ServiceInv ==
  \A w \in Workers :
    /\ PostsTo(stock, tx[w].writes, VisibleStock(w))
    /\ pc[w] # "idle" => Accepted(w)

LEMMA InitService == Init => ServiceInv
<1> SUFFICES ASSUME Init, NEW w \in Workers
             PROVE  PostsTo(stock, tx[w].writes, VisibleStock(w)) /\ pc[w] = "idle"
  BY DEF ServiceInv
<1>1. VisibleStock(w) = stock /\ tx[w].writes = {}
  BY MergedZero, ZeroStockType DEF Init, EmptyStore, NoTransaction, VisibleStock
<1>2. stock \in Stocks
  BY ZeroStockType DEF Init, EmptyStore
<1>. QED  BY <1>1, <1>2, NoneToPost DEF Init

\* A step that commits nothing extends what can be posted by what it inserts.
LEMMA InsertedInOrder ==
  ASSUME TypeInv, StockInv, SumInv, ServiceInv, [Next]_vars, NEW w \in Workers, UNCHANGED stock,
         \A u \in Workers : ~Commit(u)
  PROVE  PostsTo(stock, tx'[w].writes, Merged(stock, tx'[w].delta))
<1>. stock \in Stocks /\ tx \in [Workers -> Transaction]
  BY DEF TypeInv, TypeOK, StoreTypeOK
<1>1. PostsTo(stock, tx[w].writes, Merged(stock, tx[w].delta))
  BY DEF ServiceInv, VisibleStock
<1>2. CASE tx'[w].writes = tx[w].writes /\ tx'[w].delta = tx[w].delta
  BY <1>1, <1>2
<1>3. CASE tx'[w].writes = {} /\ tx'[w].delta = ZeroStock
  BY <1>3, MergedZero, NoneToPost
<1>4. ASSUME NEW u \in Workers, CheckStock(u)
      PROVE  tx'[w].writes = tx[w].writes /\ tx'[w].delta = tx[w].delta
  BY <1>4 DEF CheckStock, Transaction
<1>5. ASSUME NEW u \in Workers, u # w, InsertMovement(u)
      PROVE  tx'[w].writes = tx[w].writes /\ tx'[w].delta = tx[w].delta
  BY <1>5 DEF InsertMovement
<1>6. CASE InsertMovement(w)
  <2> DEFINE t == tx[w].next
             b == Merged(stock, tx[w].delta)
  <2>1. /\ t \in tx[w].todo /\ t \in Posting /\ tx[w].writes \in SUBSET Posting
        /\ tx[w].delta \in Stocks /\ t.movement \in Movement
    BY <1>6 DEF InsertMovement, TypeInv, WellFormed, Transaction, Posting
  <2>2. tx'[w].writes = tx[w].writes \cup {t} /\ tx'[w].delta = Apply(tx[w].delta, t.movement)
    BY <1>6 DEF InsertMovement, Transaction
  <2>3. t \notin tx[w].writes /\ OneKeyEach(tx[w].writes)
    BY <2>1 DEF SumInv, OneKeyEach
  <2>4. EnsureCanApply(b, t.movement)
    BY <1>6 DEF InsertMovement, StockInv, VisibleStock
  <2>5. Merged(stock, tx'[w].delta) = Apply(b, t.movement)
    BY <2>1, <2>2, MergedApply
  <2> HIDE DEF b, t
  <2>6. PostsTo(stock, tx[w].writes \cup {t}, Apply(b, t.movement))
    BY <1>1, <2>1, <2>3, <2>4, OneMoreToPost DEF b
  <2>. QED  BY <2>2, <2>5, <2>6
<1>. QED  BY <1>2, <1>3, <1>4, <1>5, <1>6, KindsOfSteps DEF Quiet

LEMMA AcceptedStays ==
  ASSUME NEW w \in Workers, Accepted(w), UNCHANGED store,
         tx'[w].op = tx[w].op, tx'[w].visit = tx[w].visit,
         tx[w].op = "add_line" => tx'[w].local = tx[w].local,
         tx[w].op = "register" => Postings(w)' = Postings(w)
  PROVE  Accepted(w)'
BY DEF Accepted, store, OnVisit, Loadable, Exists

LEMMA BegunAccepted ==
  ASSUME TypeInv, ServiceInv, NEW w \in Workers, BeginRequest(w), pc'[w] # "idle"
  PROVE  Accepted(w)' /\ UNCHANGED store
<1>. tx \in [Workers -> Transaction] /\ pc \in [Workers -> Places]
  BY DEF TypeInv, TypeOK
<1>1. ASSUME NEW op, NEW v, NEW local, NEW todo, NEW place, Begin(w, op, v, local, todo, place)
      PROVE  /\ UNCHANGED store
             /\ tx'[w].op = op /\ tx'[w].visit = v /\ tx'[w].local = local
             /\ tx'[w].todo = todo /\ tx'[w].writes = {}
  BY <1>1 DEF Begin, NoTransaction
<1>2. ASSUME NEW v \in VisitKeys, NEW operator \in Replenishers, BeginStart(w, v, operator)
      PROVE  Accepted(w)' /\ UNCHANGED store
  BY <1>1, <1>2 DEF BeginStart, Accepted, OnVisit
<1>3. ASSUME NEW v \in VisitKeys, NEW l \in LineIds, NEW line \in LineRequests,
             BeginAddLine(w, v, l, line)
      PROVE  Accepted(w)' /\ UNCHANGED store
  <2>1. /\ Begin(w, "add_line", v, WithLine(visits[v], l, line), {}, "check")
        /\ Loadable(v) /\ l \in LineIds \ LinesOf(visits[v]) /\ WithinCapacity(line)
        /\ Resolved(line) => Covered(stock, visits[v], line, line.product)
    BY <1>3 DEF BeginAddLine, FreshLine
  <2>2. /\ UNCHANGED store /\ tx'[w].op = "add_line" /\ tx'[w].visit = v
        /\ tx'[w].local = WithLine(visits[v], l, line)
    BY <1>1, <2>1
  <2>3. visits' = visits /\ stock' = stock /\ Loadable(v)'
    BY <2>1, <2>2 DEF store, Loadable, Exists
  <2>. QED  BY <2>1, <2>2, <2>3 DEF Accepted
<1>4. ASSUME NEW v \in VisitKeys, BeginComplete(w, v) \/ BeginCancel(w, v)
      PROVE  Accepted(w)' /\ UNCHANGED store
  <2>1. PICK op \in {"complete", "cancel"} :
          UNCHANGED store /\ tx'[w].op = op /\ tx'[w].visit = v /\ Loadable(v)
    BY <1>1, <1>4 DEF BeginComplete, BeginCancel
  <2>2. Loadable(v)'
    BY <2>1 DEF store, Loadable, Exists
  <2>. QED  BY <2>1, <2>2 DEF Accepted
<1>5. ASSUME NEW v \in VisitKeys, NEW l \in LineIds, NEW p \in Products,
             BeginResolve(w, v, l, p)
      PROVE  Accepted(w)' /\ UNCHANGED store
  <2>1. UNCHANGED store /\ tx'[w].op = "resolve" /\ tx'[w].visit = v /\ Loadable(v)
    BY <1>1, <1>5 DEF BeginResolve
  <2>2. Loadable(v)'
    BY <2>1 DEF store, Loadable, Exists
  <2>. QED  BY <2>1, <2>2 DEF Accepted
<1>6. ASSUME NEW k \in InventoryKeys, NEW movement \in InventoryRequests,
             BeginRegister(w, k, movement)
      PROVE  Accepted(w)' /\ UNCHANGED store
  <2>1. Begin(w, "register", None, None, {At(k, movement)}, "read") /\ ledger[k] = None
    BY <1>6 DEF BeginRegister
  <2>2. /\ UNCHANGED store /\ tx'[w].op = "register"
        /\ tx'[w].todo = {At(k, movement)} /\ tx'[w].writes = {}
    BY <1>1, <2>1
  <2>3. Postings(w)' = {At(k, movement)} /\ ledger' = ledger
    BY <2>2 DEF Postings, store
  <2>. QED  BY <2>1, <2>2, <2>3 DEF Accepted, OnVisit
<1>7. CASE Replay(w)
  <2>1. UNCHANGED vars /\ pc[w] # "idle"
    BY <1>7 DEF Replay, vars
  <2>. QED  BY <2>1, AcceptedStays DEF vars, store, ServiceInv, Postings
<1>. QED  BY <1>2, <1>3, <1>4, <1>5, <1>6, <1>7 DEF BeginRequest

LEMMA WorkAccepted ==
  ASSUME TypeInv, ServiceInv, NEW w \in Workers,
         \/ SkipRecorded(w) \/ CheckStock(w) \/ InsertMovement(w)
         \/ FinishRegister(w) \/ FinishResolve(w) \/ FinishComplete(w)
         \/ CheckVersion(w) \/ Merge(w) \/ Flush(w)
  PROVE  Accepted(w)' /\ UNCHANGED store
<1>. tx \in [Workers -> Transaction] /\ tx[w] \in Transaction
  BY DEF TypeInv, TypeOK
<1>1. Accepted(w)
  BY DEF ServiceInv, SkipRecorded, CheckStock, InsertMovement, FinishRegister, FinishResolve,
     FinishComplete, CheckVersion, Merge, Flush
<1>2. CASE SkipRecorded(w)
  <2>1. PICK t \in tx[w].todo : ledger[t.key] # None /\ tx' = [tx EXCEPT ![w].todo = @ \ {t}]
    BY <1>2 DEF SkipRecorded
  <2>2. tx[w].op # "register"
    BY <1>1, <2>1 DEF Accepted, Postings, At
  <2>3. /\ UNCHANGED store /\ tx'[w].op = tx[w].op /\ tx'[w].visit = tx[w].visit
        /\ tx'[w].local = tx[w].local
    BY <1>2, <2>1 DEF SkipRecorded, store, Transaction
  <2>. QED  BY <1>1, <2>2, <2>3, AcceptedStays
<1>3. CASE InsertMovement(w)
  <2>1. tx[w].next \in tx[w].todo
    BY <1>3 DEF InsertMovement, TypeInv, WellFormed
  <2>2. /\ tx'[w].op = tx[w].op /\ tx'[w].visit = tx[w].visit /\ tx'[w].local = tx[w].local
        /\ tx'[w].todo = tx[w].todo \ {tx[w].next}
        /\ tx'[w].writes = tx[w].writes \cup {tx[w].next}
        /\ UNCHANGED store
    BY <1>3 DEF InsertMovement, Transaction
  <2>3. Postings(w)' = Postings(w)
    BY <2>1, <2>2 DEF Postings
  <2>. QED  BY <1>1, <2>2, <2>3, AcceptedStays
<1>4. CASE FinishComplete(w)
  <2>1. /\ tx'[w].op = tx[w].op /\ tx'[w].visit = tx[w].visit /\ tx[w].op = "complete"
        /\ UNCHANGED store
    BY <1>4 DEF FinishComplete, Transaction
  <2>. QED  BY <1>1, <2>1, AcceptedStays
<1>5. CASE CheckStock(w) \/ Merge(w)
  <2>1. /\ tx'[w].op = tx[w].op /\ tx'[w].visit = tx[w].visit /\ tx'[w].local = tx[w].local
        /\ tx'[w].todo = tx[w].todo /\ tx'[w].writes = tx[w].writes
        /\ UNCHANGED store
    BY <1>5 DEF CheckStock, Merge, Transaction
  <2>. QED  BY <1>1, <2>1, AcceptedStays DEF Postings
<1>6. CASE FinishRegister(w) \/ FinishResolve(w) \/ CheckVersion(w) \/ Flush(w)
  <2>1. tx' = tx /\ UNCHANGED store
    BY <1>6 DEF FinishRegister, FinishResolve, CheckVersion, Flush, store
  <2>. QED  BY <1>1, <2>1, AcceptedStays DEF Postings
<1>. QED  BY <1>2, <1>3, <1>4, <1>5, <1>6

LEMMA NextService ==
  ASSUME OneSession, TypeInv, StockInv, SumInv, ServiceInv, [Next]_vars
  PROVE  ServiceInv'
<1>. stock \in Stocks /\ pc \in [Workers -> Places] /\ tx \in [Workers -> Transaction]
  BY DEF TypeInv, TypeOK, StoreTypeOK
<1>1. ASSUME NEW w \in Workers, Commit(w) PROVE ServiceInv'
  <2>1. /\ stock' = Merged(stock, tx[w].delta) /\ tx'[w].writes = {}
        /\ tx'[w].delta = ZeroStock /\ pc'[w] = "idle"
    BY <1>1 DEF Commit, Goto, NoTransaction, VisibleStock
  <2>2. Merged(stock', tx'[w].delta) = stock'
    BY <2>1, MergedType, MergedZero DEF Transaction
  <2>3. stock' \in Stocks
    BY <2>1, MergedType DEF Transaction
  <2>4. PostsTo(stock', tx'[w].writes, Merged(stock', tx'[w].delta))
    BY <2>1, <2>2, <2>3, NoneToPost
  <2>. QED  BY <2>1, <2>4 DEF OneSession, ServiceInv, VisibleStock
<1>2. ASSUME \A w \in Workers : ~Commit(w) PROVE ServiceInv'
  <2> SUFFICES ASSUME NEW w \in Workers
               PROVE  /\ PostsTo(stock', tx'[w].writes, Merged(stock', tx'[w].delta))
                      /\ pc'[w] # "idle" => Accepted(w)'
    BY DEF ServiceInv, VisibleStock
  <2>1. UNCHANGED store
    BY <1>2, OnlyCommitsChangeRows
  <2>2. PostsTo(stock', tx'[w].writes, Merged(stock', tx'[w].delta))
    <3>1. UNCHANGED stock
      BY <2>1 DEF store
    <3>. QED  BY <1>2, <3>1, InsertedInOrder, Zenon
  <2>3. CASE UNCHANGED vars
    <3>1. pc' = pc /\ tx' = tx
      BY <2>3 DEF vars
    <3>2. Postings(w)' = Postings(w)
      BY <3>1 DEF Postings
    <3>3. pc[w] # "idle" => Accepted(w)
      BY DEF ServiceInv
    <3>. QED  BY <2>1, <2>2, <3>1, <3>2, <3>3, AcceptedStays
  <2>4. CASE Rollback(w)
    BY <2>2, <2>4 DEF Rollback, Goto
  <2>5. CASE Next
    <3>1. BeginRequest(w) \/ LockStep(w) \/ Step(w) \/ Crash(w)
      BY <2>5 DEF Next, OneSession
    <3>2. CASE BeginRequest(w)
      BY <2>2, <3>2, BegunAccepted
    <3>3. CASE LockStep(w)
      BY <2>2, <2>4, <3>3, WorkAccepted DEF LockStep, DuplicateMovement, DuplicateVisit
    <3>4. CASE Step(w)
      BY <1>2, <2>2, <2>4, <3>4, WorkAccepted
      DEF Step, RejectStock, RejectComplete, StaleVersion, DeadlockVictim
    <3>. QED  BY <2>2, <2>4, <3>1, <3>2, <3>3, <3>4 DEF Crash
  <2>. QED  BY <2>2, <2>3, <2>5
<1>. QED  BY <1>1, <1>2

LEMMA ServiceInvariance ==
  ASSUME OneSession
  PROVE  Spec => []ServiceInv
<1>1. TypeInv /\ StockInv /\ [Next]_vars => StockInv'
  BY NextStock
<1>2. TypeInv /\ StockInv /\ SumInv /\ ServiceInv /\ [Next]_vars => ServiceInv'
  BY NextService
<1>. QED
  BY <1>1, <1>2, TypeInvariance, SumInvariance, InitStock, InitService, PTL DEF Spec

\* A commit posts what the transaction has inserted.
LEMMA CommitPosts ==
  ASSUME TypeInv, KeysAreExclusive, SumInv, ServiceInv, NEW w \in Workers, Commit(w)
  PROVE  /\ Post(tx[w].writes)
         /\ tx[w].writes = {} => UNCHANGED <<ledger, stock>>
<1> DEFINE W == tx[w].writes
<1>1. /\ stock' = VisibleStock(w)
      /\ ledger' = CommittedLedger(w)
  BY DEF Commit
<1>2. W \in SUBSET Posting /\ OneKeyEach(W) /\ \A t \in W : ledger[t.key] = None
  BY DEF TypeInv, TypeOK, Transaction, SumInv, OneKeyEach, KeysAreExclusive
<1>3. PostsTo(stock, W, stock')
  BY <1>1 DEF ServiceInv
<1>4. ledger' = [k \in MovementKeys |->
        IF \E t \in W : t.key = k THEN MovementAt(W, k) ELSE ledger[k]]
  BY <1>1 DEF CommittedLedger, MovementAt
<1>5. StoreTypeOK
  BY DEF TypeInv, TypeOK
<1>6. W = {} => stock' = stock
  BY <1>3, <1>5, NoneToPost DEF StoreTypeOK
<1>7. W = {} => ledger' = ledger
  BY <1>4, <1>5 DEF StoreTypeOK, Ledgers
<1> HIDE DEF W
<1>8. Post(W)
  BY <1>2, <1>3, <1>4, <1>5, PostedAtOnce
<1>. QED  BY <1>6, <1>7, <1>8 DEF W

\* The requests of RequestSteps, as ReplenishmentService has them.
Requested ==
  \/ \E v \in VisitKeys, operator \in Replenishers : Start(v, operator)
  \/ \E v \in VisitKeys, l \in LineIds, line \in LineRequests : AddLine(v, l, line)
  \/ \E v \in VisitKeys : Complete(v)
  \/ \E v \in VisitKeys : Cancel(v)
  \/ \E v \in VisitKeys, l \in LineIds, p \in Products : ResolveLine(v, l, p)
  \/ \E k \in InventoryKeys, movement \in InventoryRequests : RegisterMovement(k, movement)

LEMMA CommitIsRequest ==
  ASSUME TypeInv, VisitsInv, KeysAreExclusive, SumInv, ServiceInv,
         NEW w \in Workers, Commit(w)
  PROVE  Requested
<1> DEFINE v == tx[w].visit
           row == visits[v]
           local == tx[w].local
<1>1. pc[w] = "commit" /\ tx[w].todo = {} /\ ~Recording(w) /\ Postings(w) = tx[w].writes
  BY CommittedRows DEF Recording, Postings
<1>2. /\ Post(tx[w].writes)
      /\ tx[w].writes = {} => UNCHANGED <<ledger, stock>>
  BY CommitPosts
<1>3. Accepted(w)
  BY <1>1 DEF ServiceInv
<1>4. OnVisit(w) => v \in VisitKeys /\ Loadable(v) /\ visits' = [visits EXCEPT ![v] = Saved(local)]
  BY <1>1, <1>3, CommittedRows, CopyOfRow DEF Accepted
<1>5. CASE Starting(w)
  <2>1. PICK operator \in Replenishers : local = Started(operator)
    BY <1>5 DEF Starting
  <2>2. v \in VisitKeys /\ visits' = [visits EXCEPT ![v] = local] /\ ~Exists(v)
    BY <1>5, CommittedRows DEF Starting
  <2>3. UNCHANGED <<ledger, stock>>
    BY <1>1, <1>2, <1>5 DEF Starting
  <2>4. Start(v, operator)
    BY <2>1, <2>2, <2>3 DEF Start
  <2>. QED  BY <2>2, <2>4 DEF Requested
<1>6. CASE AddingLine(w)
  <2>1. OnVisit(w) /\ tx[w].op = "add_line" /\ InProgress(row) /\ tx[w].writes = {}
    BY <1>1, <1>6 DEF AddingLine, OnVisit
  <2>2. PICK l \in LineIds \ LinesOf(row), line \in LineRequests :
          /\ local = WithLine(row, l, line)
          /\ WithinCapacity(line)
          /\ Resolved(line) => Covered(stock, row, line, line.product)
    BY <1>3, <2>1 DEF Accepted
  <2>3. AddLine(v, l, line)
    BY <1>2, <1>4, <2>1, <2>2 DEF AddLine, Save
  <2>. QED  BY <1>4, <2>1, <2>3 DEF Requested
<1>7. CASE Cancelling(w)
  <2>1. OnVisit(w) /\ InProgress(row) /\ tx[w].writes = {} /\ local = WithStatus(row, "CANCELLED")
    BY <1>1, <1>7 DEF Cancelling, OnVisit
  <2>2. Cancel(v)
    BY <1>2, <1>4, <2>1 DEF Cancel, Save
  <2>. QED  BY <1>4, <2>1, <2>2 DEF Requested
<1>8. CASE Completing(w)
  <2>1. /\ OnVisit(w) /\ InProgress(row) /\ tx[w].writes = CompletionPostings(v, row)
        /\ local = WithStatus(row, "COMPLETED")
    BY <1>1, <1>8 DEF Completing, OnVisit
  <2>2. Complete(v)
    BY <1>2, <1>4, <2>1 DEF Complete, Save
  <2>. QED  BY <1>4, <2>1, <2>2 DEF Requested
<1>9. CASE Resolving(w)
  <2>1. OnVisit(w) /\ row.status # "CANCELLED"
    BY <1>9 DEF Resolving, OnVisit
  <2>2. PICK l \in PendingLines(row), p \in Products :
          /\ local = WithProduct(row, l, p)
          /\ Postings(w) = IF row.status = "COMPLETED"
                           THEN {ResolutionPosting(v, local, l)} ELSE {}
    BY <1>9 DEF Resolving
  <2>3. ResolveLine(v, l, p)
    BY <1>1, <1>2, <1>4, <2>1, <2>2 DEF ResolveLine, Save
  <2>4. l \in LineIds
    BY <2>2 DEF PendingLines, LinesOf
  <2>. QED  BY <1>4, <2>1, <2>3, <2>4 DEF Requested
<1>10. CASE Registering(w)
  <2>1. PICK k \in InventoryKeys, movement \in InventoryRequests :
          ledger[k] = None /\ tx[w].writes = {At(k, movement)}
    BY <1>1, <1>3, <1>10 DEF Accepted, Registering
  <2>2. visits' = visits
    BY <1>10, CommittedRows DEF Registering
  <2>3. RegisterMovement(k, movement)
    BY <1>2, <2>1, <2>2 DEF RegisterMovement
  <2>. QED  BY <2>3 DEF Requested
<1>. QED
  BY <1>1, <1>5, <1>6, <1>7, <1>8, <1>9, <1>10 DEF VisitsInv, OpenInv

\* ReplenishmentService acts on the same rows with the same operators.
LEMMA SameOrders ==
  ASSUME NEW S
  PROVE  Service!SetToSeqs(S) = SetToSeqs(S)
<1>1. Service!Cardinality(S) = Cardinality(S)
  BY DEF Service!Cardinality, Cardinality, Service!IsFiniteSet, IsFiniteSet
<1>. QED  BY <1>1 DEF Service!SetToSeqs, SetToSeqs

LEMMA SameAfter ==
  ASSUME NEW order, NEW n
  PROVE  Service!After(order, n) = After(order, n)
BY DEF Service!After, After, Service!FoldLeft, FoldLeft, Service!MapThenFoldSet, MapThenFoldSet,
   Service!Max, Max, Service!Apply, Apply, Service!SignedDelta, SignedDelta,
   Service!Locations, Locations

LEMMA SamePost ==
  ASSUME NEW postings, Post(postings)
  PROVE  Service!Post(postings)
<1>1. \A s, m : Service!EnsureCanApply(s, m) = EnsureCanApply(s, m)
  BY DEF Service!EnsureCanApply, EnsureCanApply
<1>2. /\ \A k : Service!MovementAt(postings, k) = MovementAt(postings, k)
      /\ Service!MovementKeys = MovementKeys
  BY DEF Service!MovementAt, MovementAt, Service!MovementKeys, MovementKeys
<1> DEFINE fresh == {t \in postings : ledger[t.key] = None}
<1>3. PICK order \in SetToSeqs(fresh) :
        /\ \A i \in DOMAIN order : EnsureCanApply(After(order, i - 1), order[i].movement)
        /\ stock' = After(order, Len(order))
        /\ ledger' = [k \in MovementKeys |->
             IF \E i \in DOMAIN order : order[i].key = k
             THEN MovementAt(postings, k) ELSE ledger[k]]
  BY DEF Post
<1>4. order \in Service!SetToSeqs(fresh)
  BY SameOrders
<1>5. /\ \A i \in DOMAIN order :
           Service!EnsureCanApply(Service!After(order, i - 1), order[i].movement)
      /\ stock' = Service!After(order, Len(order))
  BY <1>1, <1>3, SameAfter
<1>6. ledger' = [k \in Service!MovementKeys |->
        IF \E i \in DOMAIN order : order[i].key = k
        THEN Service!MovementAt(postings, k) ELSE ledger[k]]
  BY <1>2, <1>3
<1>. QED  BY <1>4, <1>5, <1>6 DEF Service!Post

LEMMA SameOperators ==
  /\ \A v : Service!Loadable(v) = Loadable(v) /\ Service!Exists(v) = Exists(v)
  /\ \A visit : /\ Service!InProgress(visit) = InProgress(visit)
                /\ Service!LinesOf(visit) = LinesOf(visit)
                /\ Service!PendingLines(visit) = PendingLines(visit)
  /\ \A visit, l, line : Service!WithLine(visit, l, line) = WithLine(visit, l, line)
  /\ \A visit, l, p : Service!WithProduct(visit, l, p) = WithProduct(visit, l, p)
  /\ \A visit, status : Service!WithStatus(visit, status) = WithStatus(visit, status)
BY DEF Service!Loadable, Loadable, Service!Exists, Exists, Service!InProgress, InProgress,
   Service!LinesOf, LinesOf, Service!PendingLines, PendingLines, Service!ResolvedLines,
   ResolvedLines, Service!Resolved, Resolved, Service!WithLine, WithLine, Service!WithProduct,
   WithProduct, Service!WithStatus, WithStatus

LEMMA SameMovements ==
  ASSUME NEW v, NEW visit, NEW l
  PROVE  /\ Service!CompletionPostings(v, visit) = CompletionPostings(v, visit)
         /\ Service!ResolutionPosting(v, visit, l) = ResolutionPosting(v, visit, l)
BY DEF Service!CompletionPostings, CompletionPostings, Service!ResolutionPosting,
   ResolutionPosting, Service!At, At, Service!LineKey, LineKey, Service!ResolveKey, ResolveKey,
   Service!LineMovement, LineMovement, Service!IsLoad, IsLoad, Service!InventoryMovement,
   InventoryMovement, Service!ResolvedLines, ResolvedLines, Service!LinesOf, LinesOf,
   Service!Resolved, Resolved

LEMMA RequestIsServed ==
  ASSUME Requested
  PROVE  Service!Next
<1>1. ASSUME NEW v \in VisitKeys, NEW operator \in Replenishers, Start(v, operator)
      PROVE  Service!Start(v, operator)
  BY <1>1, SameOperators
  DEF Start, Service!Start, Started, Service!Started, NoLines, Service!NoLines
<1>2. ASSUME NEW v \in VisitKeys, NEW visit, Save(v, visit)
      PROVE  Service!Save(v, visit)
  BY <1>2 DEF Save, Service!Save, Saved, Service!Saved
<1>3. ASSUME NEW v \in VisitKeys, NEW l \in LineIds, NEW line \in LineRequests,
             AddLine(v, l, line)
      PROVE  Service!AddLine(v, l, line)
  <2>1. Service!WithinCapacity(line) = WithinCapacity(line)
    BY DEF Service!WithinCapacity, WithinCapacity, Service!Absolute, Absolute,
       Service!IsLoad, IsLoad
  <2>2. Service!Resolved(line) = Resolved(line)
    BY DEF Service!Resolved, Resolved
  <2>3. Service!Covered(stock, visits[v], line, line.product) =
          Covered(stock, visits[v], line, line.product)
    BY DEF Service!Covered, Covered, Service!Absolute, Absolute, Service!IsLoad, IsLoad
  <2>. QED  BY <1>2, <1>3, <2>1, <2>2, <2>3, SameOperators DEF AddLine, Service!AddLine
<1>4. ASSUME NEW v \in VisitKeys, Complete(v)
      PROVE  Service!Complete(v)
  BY <1>2, <1>4, SameOperators, SameMovements, SamePost DEF Complete, Service!Complete
<1>5. ASSUME NEW v \in VisitKeys, Cancel(v)
      PROVE  Service!Cancel(v)
  BY <1>2, <1>5, SameOperators DEF Cancel, Service!Cancel
<1>6. ASSUME NEW v \in VisitKeys, NEW l \in LineIds, NEW p \in Products, ResolveLine(v, l, p)
      PROVE  Service!ResolveLine(v, l, p)
  BY <1>2, <1>6, SameOperators, SameMovements, SamePost DEF ResolveLine, Service!ResolveLine
<1>7. ASSUME NEW k \in InventoryKeys, NEW movement \in InventoryRequests,
             RegisterMovement(k, movement)
      PROVE  Service!RegisterMovement(k, movement)
  BY <1>7, SamePost DEF RegisterMovement, Service!RegisterMovement, At, Service!At
<1>. QED  BY <1>1, <1>3, <1>4, <1>5, <1>6, <1>7 DEF Requested, Service!Next

LEMMA InitServed == Init => Service!Init
BY DEF Init, Service!Init, EmptyStore, Service!EmptyStore, EmptyLedger, Service!EmptyLedger,
   ZeroStock, Service!ZeroStock, MovementKeys, Service!MovementKeys, Locations, Service!Locations

\* Served by one process, what the statements of all requests do to the rows is
\* what whole requests do, one after the other: none takes effect in part, and
\* none has an effect that its checks against the rows at the commit, and
\* against each other, would refuse (transactional_uow and the use cases in it).
THEOREM RequestsAreAtomic ==
  ASSUME OneSession
  PROVE  Spec => ImplementsService
<1>1. TypeInv /\ VisitsInv /\ KeysAreExclusive /\ SumInv /\ ServiceInv /\ [Next]_vars =>
        [Service!Next]_Service!store
  BY OnlyCommitsChangeRows, CommitIsRequest, RequestIsServed DEF Service!store, store
<1>. QED
  BY <1>1, InitServed, TypeInvariance, VisitsInvariance, KeysInvariance, SumInvariance,
     ServiceInvariance, PTL
  DEF Spec, ImplementsService, Service!Spec

=============================================================================
