------------------ MODULE ReplenishmentTransactions_proofs ------------------
(***************************************************************************)
(* Theorems about ReplenishmentTransactions, for every value of its        *)
(* constants and any number of sessions unless a theorem says otherwise.   *)
(***************************************************************************)
EXTENDS ReplenishmentTransactions, RequestSteps_proofs

----------------------------------------------------------------------------
(* What the operators of the model return *)

LEMMA WrittenVisitType ==
  ASSUME NEW local \in Visit, NEW base \in Visit, NEW stored \in Visit
  PROVE  WrittenVisit(local, base, stored) \in Visit
<1>1. Column(local.status, base.status, stored.status) \in Statuses
  BY DEF Column, Visit
<1>2. Column(local.version + 1, base.version, stored.version) \in Nat \ {0}
  BY DEF Column, Visit
<1>3. \A l \in LineIds : Column(local.lines[l], base.lines[l], stored.lines[l]) \in Line \cup {None}
  BY DEF Column, Visit
<1>. QED  BY <1>1, <1>2, <1>3 DEF WrittenVisit, Visit

LEMMA NoTransactionType == NoTransaction \in Transaction
BY ZeroStockType DEF NoTransaction, Transaction, Operations

----------------------------------------------------------------------------
(* The state is well typed, and transactions hold what their place needs *)

TypeInv == TypeOK /\ WellFormed

LEMMA InitType == Init => TypeInv
<1> SUFFICES ASSUME Init PROVE TypeInv
  OBVIOUS
<1>1. StoreTypeOK
  BY ZeroStockType DEF Init, EmptyStore, StoreTypeOK, EmptyLedger, Ledgers
<1>2. pc \in [Workers -> Places] /\ tx \in [Workers -> Transaction]
  BY NoTransactionType DEF Init, Places
<1>3. WellFormed
  BY DEF Init, WellFormed, OnVisit, NoTransaction
<1>. QED  BY <1>1, <1>2, <1>3 DEF TypeInv, TypeOK

\* Rolling back leaves the rows alone and clears the session.
LEMMA RollbackType ==
  ASSUME TypeInv, NEW w \in Workers, Rollback(w)
  PROVE  TypeInv'
<1>1. TypeOK'
  BY NoTransactionType DEF TypeInv, TypeOK, StoreTypeOK, Rollback, Goto, store, Places
<1>2. WellFormed'
  BY DEF TypeInv, TypeOK, WellFormed, OnVisit, NoTransaction, Rollback, Goto, store, Exists
<1>. QED  BY <1>1, <1>2 DEF TypeInv

\* The request's first step: what it loads and decides is well typed.
LEMMA BeginType ==
  ASSUME TypeInv, NEW w \in Workers, NEW op, NEW v, NEW local, NEW todo, NEW place,
         Begin(w, op, v, local, todo, place),
         todo \in SUBSET Posting,
         \/ /\ op = "register" /\ v = None /\ local = None /\ place = "read"
         \/ /\ op = "start" /\ v \in VisitKeys /\ local \in Visit
            /\ place = "flush"
         \/ /\ op \in {"add_line", "complete", "cancel", "resolve"}
            /\ v \in VisitKeys /\ Exists(v) /\ local \in Visit
            /\ place \in {"read", "check"}
  PROVE  TypeInv'
<1> DEFINE t == [NoTransaction EXCEPT !.op = op, !.visit = v, !.local = local, !.todo = todo]
<1>1. /\ t \in Transaction
      /\ t.op = op /\ t.visit = v /\ t.local = local /\ t.todo = todo
      /\ t.next = None /\ t.base = None
  BY NoTransactionType DEF NoTransaction, Transaction, Operations
<1>2. /\ pc' = [pc EXCEPT ![w] = place] /\ tx' = [tx EXCEPT ![w] = t]
      /\ visits' = visits /\ ledger' = ledger /\ stock' = stock
  BY DEF Begin, Goto, store
<1> HIDE DEF t
<1>3. TypeOK'
  BY <1>1, <1>2 DEF TypeInv, TypeOK, StoreTypeOK, Places
<1>4. WellFormed'
  <2> SUFFICES ASSUME NEW u \in Workers
      PROVE /\ pc'[u] = "idle" => tx'[u] = NoTransaction
            /\ pc'[u] # "idle" => tx'[u].op # "none"
            /\ pc'[u] \in {"check", "merge"} => OnVisit(u)'
            /\ pc'[u] = "flush" => OnVisit(u)' \/ tx'[u].op = "start"
            /\ pc'[u] = "insert" => tx'[u].next # None /\ tx'[u].next \in tx'[u].todo
            /\ OnVisit(u)' \/ tx'[u].op = "start" => tx'[u].visit # None /\ tx'[u].local # None
            /\ OnVisit(u)' => Exists(tx[u].visit)'
            /\ OnVisit(u)' /\ pc'[u] \in {"flush", "commit"} => tx'[u].base # None
    BY DEF WellFormed
  <2>1. CASE u = w
    BY <1>1, <1>2, <2>1, NoneAssumption, NoneVisitAssumption DEF TypeInv, TypeOK, OnVisit, Exists
  <2>2. CASE u # w
    BY <1>2, <2>2 DEF TypeInv, TypeOK, WellFormed, OnVisit, Exists
  <2>. QED  BY <2>1, <2>2
<1>. QED  BY <1>3, <1>4 DEF TypeInv

LEMMA BeginRequestType ==
  ASSUME TypeInv, NEW w \in Workers, BeginRequest(w)
  PROVE  TypeInv'
<1>. USE DEF TypeInv, TypeOK, StoreTypeOK
<1>1. ASSUME NEW v \in VisitKeys, Exists(v)
      PROVE  visits[v] \in Visit
  BY <1>1 DEF Exists
<1>2. ASSUME NEW v \in VisitKeys, NEW operator \in Replenishers, BeginStart(w, v, operator)
      PROVE  TypeInv'
  BY <1>2, StartedType, BeginType DEF BeginStart
<1>3. ASSUME NEW v \in VisitKeys, NEW l \in LineIds, NEW line \in LineRequests,
             BeginAddLine(w, v, l, line)
      PROVE  TypeInv'
  <2>1. Exists(v) /\ visits[v] \in Visit  BY <1>1, <1>3 DEF BeginAddLine, Loadable
  <2>2. WithLine(visits[v], l, line) \in Visit
    BY <2>1, WithTypes, LineRequestsAssumption
  <2>. QED  BY <1>3, <2>1, <2>2, BeginType DEF BeginAddLine
<1>4. ASSUME NEW v \in VisitKeys, BeginComplete(w, v)
      PROVE  TypeInv'
  <2>1. Exists(v) /\ visits[v] \in Visit  BY <1>1, <1>4 DEF BeginComplete, Loadable
  <2>2. CompletionPostings(v, visits[v]) \in SUBSET Posting
    BY <2>1, CompletionPostingsType
  <2>. QED  BY <1>4, <2>1, <2>2, BeginType DEF BeginComplete
<1>5. ASSUME NEW v \in VisitKeys, BeginCancel(w, v)
      PROVE  TypeInv'
  <2>1. Exists(v) /\ visits[v] \in Visit  BY <1>1, <1>5 DEF BeginCancel, Loadable
  <2>2. WithStatus(visits[v], "CANCELLED") \in Visit
    <3>1. "CANCELLED" \in Statuses  BY DEF Statuses
    <3>. QED  BY <2>1, <3>1 DEF WithStatus, Visit
  <2>. QED  BY <1>5, <2>1, <2>2, BeginType DEF BeginCancel
<1>6. ASSUME NEW v \in VisitKeys, NEW l \in LineIds, NEW p \in Products,
             BeginResolve(w, v, l, p)
      PROVE  TypeInv'
  <2> DEFINE resolved == WithProduct(visits[v], l, p)
             todo == IF visits[v].status = "COMPLETED" /\ PostedKeys(v, l) = {}
                     THEN {ResolutionPosting(v, resolved, l)} ELSE {}
  <2>1. Exists(v) /\ visits[v] \in Visit /\ l \in PendingLines(visits[v])
    BY <1>1, <1>6 DEF BeginResolve, Loadable
  <2>2. resolved \in Visit
    BY <2>1, WithTypes DEF PendingLines, LinesOf
  <2>3. todo \in SUBSET Posting
    BY <2>1, ResolutionPostingType
  <2>4. Begin(w, "resolve", v, resolved, todo, "read")
    BY <1>6 DEF BeginResolve
  <2> HIDE DEF resolved, todo
  <2>. QED  BY <2>1, <2>2, <2>3, <2>4, BeginType
<1>7. ASSUME NEW k \in InventoryKeys, NEW movement \in InventoryRequests,
             BeginRegister(w, k, movement)
      PROVE  TypeInv'
  <2>1. {At(k, movement)} \in SUBSET Posting
    BY RequestTypes DEF At, Posting, MovementKeys
  <2>. QED  BY <1>7, <2>1, BeginType DEF BeginRegister
<1>8. CASE Replay(w)
  BY <1>8 DEF Replay, vars, WellFormed, OnVisit, Exists
<1>. QED
  BY <1>2, <1>3, <1>4, <1>5, <1>6, <1>7, <1>8 DEF BeginRequest

\* A step that leaves the rows alone and moves one session on keeps the types
\* when what that session holds now fits the place it is at.
LEMMA SessionType ==
  ASSUME TypeInv, NEW w \in Workers, NEW place \in Places, NEW t \in Transaction,
         pc' = [pc EXCEPT ![w] = place], tx' = [tx EXCEPT ![w] = t],
         UNCHANGED store,
         pc[w] # "idle", place # "idle",
         t.op = tx[w].op, t.visit = tx[w].visit, t.local # None \/ tx[w].local = None,
         place \in {"check", "merge"} => OnVisit(w),
         place = "flush" => OnVisit(w) \/ t.op = "start",
         place = "insert" => t.next # None /\ t.next \in t.todo,
         OnVisit(w) /\ place \in {"flush", "commit"} => t.base # None
  PROVE  TypeInv'
<1>1. TypeOK'
  BY DEF TypeInv, TypeOK, StoreTypeOK, store
<1>2. WellFormed'
  <2> SUFFICES ASSUME NEW u \in Workers
      PROVE /\ pc'[u] = "idle" => tx'[u] = NoTransaction
            /\ pc'[u] # "idle" => tx'[u].op # "none"
            /\ pc'[u] \in {"check", "merge"} => OnVisit(u)'
            /\ pc'[u] = "flush" => OnVisit(u)' \/ tx'[u].op = "start"
            /\ pc'[u] = "insert" => tx'[u].next # None /\ tx'[u].next \in tx'[u].todo
            /\ OnVisit(u)' \/ tx'[u].op = "start" => tx'[u].visit # None /\ tx'[u].local # None
            /\ OnVisit(u)' => Exists(tx[u].visit)'
            /\ OnVisit(u)' /\ pc'[u] \in {"flush", "commit"} => tx'[u].base # None
    BY DEF WellFormed
  <2>1. CASE u = w
    BY <2>1 DEF TypeInv, TypeOK, WellFormed, OnVisit, Exists, store
  <2>2. CASE u # w
    BY <2>2 DEF TypeInv, TypeOK, WellFormed, OnVisit, Exists, store
  <2>. QED  BY <2>1, <2>2
<1>. QED  BY <1>1, <1>2 DEF TypeInv

LEMMA RecordingType ==
  ASSUME TypeInv, NEW w \in Workers,
         SkipRecorded(w) \/ CheckStock(w) \/ InsertMovement(w)
  PROVE  TypeInv'
<1> DEFINE open == tx[w]
<1>. open \in Transaction /\ pc \in [Workers -> Places] /\ tx \in [Workers -> Transaction]
  BY DEF TypeInv, TypeOK
<1>0. /\ pc[w] \in Places
      /\ OnVisit(w) => open.local # None
  BY DEF TypeInv, WellFormed
<1>1. CASE SkipRecorded(w)
  <2>1. PICK t \in open.todo : tx' = [tx EXCEPT ![w] = [open EXCEPT !.todo = @ \ {t}]]
    BY <1>1 DEF SkipRecorded
  <2>2. pc[w] = "read" /\ pc' = [pc EXCEPT ![w] = "read"] /\ UNCHANGED store
    BY <1>1 DEF SkipRecorded, store
  <2>3. [open EXCEPT !.todo = @ \ {t}] \in Transaction
    BY DEF Transaction
  <2>. QED  BY <1>0, <2>1, <2>2, <2>3, SessionType DEF Places, Transaction
<1>2. CASE CheckStock(w)
  <2>1. PICK t \in open.todo : tx' = [tx EXCEPT ![w] = [open EXCEPT !.next = t]]
    BY <1>2 DEF CheckStock
  <2>2. pc[w] = "read" /\ pc' = [pc EXCEPT ![w] = "insert"] /\ UNCHANGED store
    BY <1>2 DEF CheckStock, Goto
  <2>3. t \in Posting /\ t # None
    BY NonePostingAssumption DEF Transaction
  <2>4. [open EXCEPT !.next = t] \in Transaction
    BY <2>3 DEF Transaction
  <2>. QED  BY <1>0, <2>1, <2>2, <2>3, <2>4, SessionType DEF Places, Transaction
<1>3. CASE InsertMovement(w)
  <2> DEFINE t == open.next
             after == [open EXCEPT !.todo = @ \ {t}, !.next = None, !.writes = @ \cup {t},
                                   !.delta = Apply(@, t.movement)]
  <2>1. /\ pc[w] = "insert" /\ pc' = [pc EXCEPT ![w] = "read"] /\ UNCHANGED store
        /\ tx' = [tx EXCEPT ![w] = after]
    BY <1>3 DEF InsertMovement, Goto
  <2>2. t \in Posting
    BY <2>1 DEF TypeInv, WellFormed, Transaction
  <2>3. Apply(open.delta, t.movement) \in Stocks
    BY <2>2, ApplyType DEF Posting, Transaction
  <2>4. after \in Transaction
    BY <2>2, <2>3 DEF Transaction
  <2>5. after.op = open.op /\ after.visit = open.visit /\ after.local = open.local
    BY DEF Transaction
  <2>. HIDE DEF after
  <2>. QED  BY <1>0, <2>1, <2>4, <2>5, SessionType DEF Places
<1>. QED  BY <1>1, <1>2, <1>3

LEMMA FinishType ==
  ASSUME TypeInv, NEW w \in Workers,
         FinishRegister(w) \/ FinishResolve(w) \/ FinishComplete(w)
  PROVE  TypeInv'
<1> DEFINE open == tx[w]
<1>. open \in Transaction /\ pc \in [Workers -> Places] /\ tx \in [Workers -> Transaction]
  BY DEF TypeInv, TypeOK
<1>0. tx = [tx EXCEPT ![w] = open]
  OBVIOUS
<1>1. CASE FinishRegister(w)
  <2>1. /\ pc[w] = "read" /\ pc' = [pc EXCEPT ![w] = "commit"] /\ UNCHANGED store
        /\ tx' = [tx EXCEPT ![w] = open] /\ ~OnVisit(w)
    BY <1>0, <1>1 DEF FinishRegister, Goto, store, OnVisit
  <2>. QED  BY <2>1, SessionType DEF Places
<1>2. CASE FinishResolve(w)
  <2>1. /\ pc[w] = "read" /\ pc' = [pc EXCEPT ![w] = "check"] /\ UNCHANGED store
        /\ tx' = [tx EXCEPT ![w] = open] /\ OnVisit(w)
    BY <1>0, <1>2 DEF FinishResolve, Goto, store, OnVisit
  <2>. QED  BY <2>1, SessionType DEF Places
<1>3. CASE FinishComplete(w)
  <2> DEFINE after == [open EXCEPT !.local = WithStatus(@, "COMPLETED")]
  <2>1. /\ pc[w] = "read" /\ pc' = [pc EXCEPT ![w] = "check"] /\ UNCHANGED store
        /\ tx' = [tx EXCEPT ![w] = after] /\ OnVisit(w)
    BY <1>3 DEF FinishComplete, Goto, OnVisit
  <2>2. open.local \in Visit
    BY <2>1 DEF TypeInv, WellFormed, Transaction
  <2>3. WithStatus(open.local, "COMPLETED") \in Visit
    <3>1. "COMPLETED" \in Statuses  BY DEF Statuses
    <3>. QED  BY <2>2, <3>1 DEF WithStatus, Visit
  <2>4. after \in Transaction /\ after.local # None
    BY <2>3, NoneVisitAssumption DEF Transaction
  <2>5. after.op = open.op /\ after.visit = open.visit
    BY DEF Transaction
  <2>. HIDE DEF after
  <2>. QED  BY <2>1, <2>4, <2>5, SessionType DEF Places
<1>. QED  BY <1>1, <1>2, <1>3

LEMMA SavingType ==
  ASSUME TypeInv, NEW w \in Workers, CheckVersion(w) \/ Merge(w) \/ Flush(w)
  PROVE  TypeInv'
<1> DEFINE open == tx[w]
<1>. open \in Transaction /\ pc \in [Workers -> Places] /\ tx \in [Workers -> Transaction]
  BY DEF TypeInv, TypeOK
<1>0. tx = [tx EXCEPT ![w] = open]
  OBVIOUS
<1>1. CASE CheckVersion(w)
  <2>1. /\ pc[w] = "check" /\ pc' = [pc EXCEPT ![w] = "merge"] /\ UNCHANGED store
        /\ tx' = [tx EXCEPT ![w] = open] /\ OnVisit(w)
    BY <1>0, <1>1 DEF CheckVersion, Goto, store, TypeInv, WellFormed
  <2>. QED  BY <2>1, SessionType DEF Places
<1>2. CASE Merge(w)
  <2> DEFINE after == [open EXCEPT !.base = visits[open.visit]]
  <2>1. /\ pc[w] = "merge" /\ pc' = [pc EXCEPT ![w] = "flush"] /\ UNCHANGED store
        /\ tx' = [tx EXCEPT ![w] = after] /\ OnVisit(w)
    BY <1>2 DEF Merge, Goto, TypeInv, WellFormed
  <2>2. visits[open.visit] \in Visit
    <3>1. open.visit \in VisitKeys /\ Exists(open.visit)
      BY <2>1 DEF TypeInv, WellFormed, Transaction
    <3>. QED  BY <3>1 DEF TypeInv, TypeOK, StoreTypeOK, Exists
  <2>3. after \in Transaction /\ after.base # None
    BY <2>2, NoneVisitAssumption DEF Transaction
  <2>4. after.op = open.op /\ after.visit = open.visit /\ after.local = open.local
    BY DEF Transaction
  <2>. HIDE DEF after
  <2>5. open.local # None
    BY <2>1 DEF TypeInv, WellFormed
  <2>. QED  BY <2>1, <2>3, <2>4, <2>5, SessionType DEF Places
<1>3. CASE Flush(w)
  <2>1. /\ pc[w] = "flush" /\ pc' = [pc EXCEPT ![w] = "commit"] /\ UNCHANGED store
        /\ tx' = [tx EXCEPT ![w] = open]
    BY <1>0, <1>3 DEF Flush, Goto, store
  <2>2. OnVisit(w) => open.base # None
    BY <2>1 DEF TypeInv, WellFormed
  <2>. QED  BY <2>1, <2>2, SessionType DEF Places
<1>. QED  BY <1>1, <1>2, <1>3

LEMMA CommittedTypes ==
  ASSUME TypeInv, NEW w \in Workers, pc[w] = "commit"
  PROVE  /\ CommittedVisits(w) \in [VisitKeys -> Visit \cup {None}]
         /\ \A v \in VisitKeys : Exists(v) => CommittedVisits(w)[v] # None
         /\ CommittedLedger(w) \in Ledgers
         /\ VisibleStock(w) \in Stocks
<1> DEFINE open == tx[w]
           v    == open.visit
<1>. open \in Transaction
  BY DEF TypeInv, TypeOK
<1>. visits \in [VisitKeys -> Visit \cup {None}] /\ ledger \in Ledgers /\ stock \in Stocks
  BY DEF TypeInv, TypeOK, StoreTypeOK
<1>1. open.op # "none"
  BY DEF TypeInv, WellFormed
<1>2. /\ CommittedVisits(w) \in [VisitKeys -> Visit \cup {None}]
      /\ \A u \in VisitKeys : Exists(u) => CommittedVisits(w)[u] # None
  <2>1. CASE open.op = "register"
    BY <2>1 DEF CommittedVisits, Exists
  <2>2. CASE open.op = "start"
    <3>1. v \in VisitKeys /\ open.local \in Visit
      BY <2>2 DEF TypeInv, WellFormed, Transaction
    <3>2. CommittedVisits(w) = [visits EXCEPT ![v] = open.local]
      BY <2>2 DEF CommittedVisits
    <3>. QED  BY <3>1, <3>2, NoneVisitAssumption DEF Exists
  <2>3. CASE OnVisit(w)
    <3>1. v \in VisitKeys /\ open.local \in Visit /\ open.base \in Visit /\ visits[v] \in Visit
      BY <2>3 DEF TypeInv, WellFormed, Transaction, Exists
    <3>2. CommittedVisits(w) = [visits EXCEPT ![v] = WrittenVisit(open.local, open.base, @)]
      BY <2>3 DEF CommittedVisits, OnVisit
    <3>3. WrittenVisit(open.local, open.base, visits[v]) \in Visit
      BY <3>1, WrittenVisitType
    <3>. QED  BY <3>1, <3>2, <3>3, NoneVisitAssumption DEF Exists
  <2>. QED  BY <1>1, <2>1, <2>2, <2>3 DEF Transaction, Operations, OnVisit
<1>3. CommittedLedger(w) \in Ledgers
  <2> SUFFICES ASSUME NEW k \in MovementKeys
               PROVE  CommittedLedger(w)[k] \in Movement \cup {None}
    BY DEF CommittedLedger, Ledgers
  <2>1. CASE \E t \in open.writes : t.key = k
    <3>1. (CHOOSE t \in open.writes : t.key = k) \in Posting
      BY <2>1 DEF Transaction
    <3>. QED  BY <2>1, <3>1 DEF CommittedLedger, Posting
  <2>2. CASE ~\E t \in open.writes : t.key = k
    BY <2>2 DEF CommittedLedger, Ledgers
  <2>. QED  BY <2>1, <2>2
<1>4. VisibleStock(w) \in Stocks
  BY MergedType DEF VisibleStock, Transaction
<1>. QED  BY <1>2, <1>3, <1>4

LEMMA CommitType ==
  ASSUME TypeInv, NEW w \in Workers, Commit(w)
  PROVE  TypeInv'
<1>1. /\ pc[w] = "commit" /\ pc' = [pc EXCEPT ![w] = "idle"]
      /\ tx' = [tx EXCEPT ![w] = NoTransaction]
      /\ visits' = CommittedVisits(w) /\ ledger' = CommittedLedger(w) /\ stock' = VisibleStock(w)
  BY DEF Commit, Goto
<1>2. TypeOK'
  BY <1>1, CommittedTypes, NoTransactionType DEF TypeInv, TypeOK, StoreTypeOK, Places
<1>3. \A v \in VisitKeys : Exists(v) => Exists(v)'
  BY <1>1, CommittedTypes DEF Exists
<1>4. WellFormed'
  <2> SUFFICES ASSUME NEW u \in Workers
      PROVE /\ pc'[u] = "idle" => tx'[u] = NoTransaction
            /\ pc'[u] # "idle" => tx'[u].op # "none"
            /\ pc'[u] \in {"check", "merge"} => OnVisit(u)'
            /\ pc'[u] = "flush" => OnVisit(u)' \/ tx'[u].op = "start"
            /\ pc'[u] = "insert" => tx'[u].next # None /\ tx'[u].next \in tx'[u].todo
            /\ OnVisit(u)' \/ tx'[u].op = "start" => tx'[u].visit # None /\ tx'[u].local # None
            /\ OnVisit(u)' => Exists(tx[u].visit)'
            /\ OnVisit(u)' /\ pc'[u] \in {"flush", "commit"} => tx'[u].base # None
    BY DEF WellFormed
  <2>1. CASE u = w
    BY <1>1, <2>1 DEF TypeInv, TypeOK, OnVisit, NoTransaction
  <2>2. CASE u # w
    <3>1. tx'[u] = tx[u] /\ pc'[u] = pc[u] /\ OnVisit(u)' = OnVisit(u)
      BY <1>1, <2>2 DEF TypeInv, TypeOK, OnVisit
    <3>2. OnVisit(u) => tx[u].visit \in VisitKeys
      BY DEF TypeInv, TypeOK, WellFormed, Transaction
    <3>3. OnVisit(u) => Exists(tx[u].visit)
      BY DEF TypeInv, WellFormed
    <3>4. Exists(tx[u].visit)' = (visits'[tx[u].visit] # None)
      BY <3>1 DEF Exists
    <3>5. OnVisit(u)' => Exists(tx[u].visit)'
      BY <1>3, <3>1, <3>2, <3>3, <3>4 DEF Exists
    <3>. QED  BY <3>1, <3>5 DEF TypeInv, WellFormed
  <2>. QED  BY <2>1, <2>2
<1>. QED  BY <1>2, <1>4 DEF TypeInv

LEMMA NextType ==
  ASSUME TypeInv, [Next]_vars
  PROVE  TypeInv'
<1>1. CASE UNCHANGED vars
  BY <1>1 DEF vars, TypeInv, TypeOK, StoreTypeOK, WellFormed, OnVisit, Exists
<1>2. ASSUME NEW w \in Workers, LockStep(w) PROVE TypeInv'
  BY <1>2, RecordingType, SavingType, RollbackType DEF LockStep, DuplicateMovement, DuplicateVisit
<1>3. ASSUME NEW w \in Workers, Step(w) PROVE TypeInv'
  BY <1>3, RecordingType, FinishType, SavingType, CommitType, RollbackType
  DEF Step, RejectStock, RejectComplete, StaleVersion, DeadlockVictim
<1>4. ASSUME NEW w \in Workers, Crash(w) PROVE TypeInv'
  BY <1>4, RollbackType DEF Crash
<1>. QED  BY <1>1, <1>2, <1>3, <1>4, BeginRequestType DEF Next

LEMMA TypeInvariance == Spec => []TypeInv
<1>1. TypeInv /\ [Next]_vars => TypeInv'
  BY NextType
<1>. QED  BY <1>1, InitType, PTL DEF Spec

\* Whatever sessions do, rows and transactions stay well typed; in particular a
\* save always finds the row it loaded (repositories.py: save), as nothing
\* deletes a visit.
THEOREM TypeCorrectness == Spec => []TypeOK
<1>1. TypeInv => TypeOK
  BY DEF TypeInv
<1>. QED  BY <1>1, TypeInvariance, PTL

----------------------------------------------------------------------------
(* Keys: what a transaction is about to store is stored by no other        *)

KeysAreExclusive ==
  \A w \in Workers : \A t \in tx[w].writes :
    /\ ledger[t.key] = None
    /\ \A u \in Workers \ {w} : \A s \in tx[u].writes : s.key # t.key

LEMMA InitKeys == Init => KeysAreExclusive
BY DEF Init, NoTransaction, KeysAreExclusive

\* A step that stores nothing and neither checks nor inserts a movement: a
\* transaction keeps what it has inserted, or has ended or begun.
Quiet ==
  /\ UNCHANGED <<ledger, stock>>
  /\ \A u \in Workers :
       /\ \/ /\ tx'[u].writes = tx[u].writes /\ tx'[u].delta = tx[u].delta
             /\ tx'[u].todo \subseteq tx[u].todo
          \/ /\ tx'[u].writes = {} /\ tx'[u].delta = ZeroStock
             /\ OneKeyEach(tx'[u].todo)
       /\ pc'[u] = "insert" =>
            pc[u] = "insert" /\ tx'[u].next = tx[u].next /\ tx'[u].delta = tx[u].delta

LEMMA QuietKeys ==
  ASSUME KeysAreExclusive, Quiet
  PROVE  KeysAreExclusive'
BY DEF KeysAreExclusive, Quiet

LEMMA InsertKeys ==
  ASSUME TypeInv, KeysAreExclusive, NEW w \in Workers, InsertMovement(w)
  PROVE  KeysAreExclusive'
<1> DEFINE t == tx[w].next
<1>1. /\ UNCHANGED ledger
      /\ tx'[w].writes = tx[w].writes \cup {t}
      /\ \A u \in Workers \ {w} : tx'[u] = tx[u]
  BY DEF TypeInv, TypeOK, Transaction, InsertMovement, store
<1>2. /\ ledger[t.key] = None
      /\ \A u \in Workers \ {w} : \A s \in tx[u].writes : s.key # t.key
  BY DEF InsertMovement, KeyFree, KeyHeldBy
<1>. QED  BY <1>1, <1>2 DEF KeysAreExclusive

LEMMA CommitKeys ==
  ASSUME TypeInv, KeysAreExclusive, NEW w \in Workers, Commit(w)
  PROVE  /\ KeysAreExclusive'
         /\ \A k \in MovementKeys : ledger[k] # None => ledger'[k] = ledger[k]
<1>1. /\ ledger' = CommittedLedger(w)
      /\ tx'[w].writes = {}
      /\ \A u \in Workers \ {w} : tx'[u] = tx[u]
  BY DEF TypeInv, TypeOK, Commit, NoTransaction
<1>2. \A k \in MovementKeys :
        (\A t \in tx[w].writes : t.key # k) => ledger'[k] = ledger[k]
  BY <1>1 DEF CommittedLedger
<1>3. \A u \in Workers : \A s \in tx[u].writes : s.key \in MovementKeys
  BY DEF TypeInv, TypeOK, Transaction, Posting
<1>4. KeysAreExclusive'
  BY <1>1, <1>2, <1>3 DEF KeysAreExclusive
<1>5. \A k \in MovementKeys : ledger[k] # None => ledger'[k] = ledger[k]
  BY <1>2 DEF KeysAreExclusive
<1>. QED  BY <1>4, <1>5

LEMMA KindsOfSteps ==
  ASSUME TypeInv, [Next]_vars
  PROVE  Quiet \/ \E w \in Workers : CheckStock(w) \/ InsertMovement(w) \/ Commit(w)
<1>. tx \in [Workers -> Transaction] /\ pc \in [Workers -> Places]
  BY DEF TypeInv, TypeOK
<1>. USE DEF Quiet, Goto
<1>1. CASE UNCHANGED vars
  BY <1>1 DEF vars
<1>2. ASSUME NEW w \in Workers, Rollback(w) PROVE Quiet
  BY <1>2 DEF Rollback, store, NoTransaction, OneKeyEach
<1>3. ASSUME NEW w \in Workers, NEW op, NEW v, NEW local, NEW todo, NEW place,
             Begin(w, op, v, local, todo, place), place # "insert", OneKeyEach(todo)
      PROVE  Quiet
  BY <1>3 DEF Begin, store, NoTransaction
<1>4. ASSUME NEW w \in Workers, BeginRequest(w) PROVE Quiet
  <2>1. ASSUME NEW v \in VisitKeys, NEW operator \in Replenishers, BeginStart(w, v, operator)
        PROVE  Quiet
    BY <2>1, <1>3 DEF BeginStart, OneKeyEach
  <2>2. ASSUME NEW v \in VisitKeys, NEW l \in LineIds, NEW line \in LineRequests,
               BeginAddLine(w, v, l, line)
        PROVE  Quiet
    BY <2>2, <1>3 DEF BeginAddLine, OneKeyEach
  <2>3. ASSUME NEW v \in VisitKeys, BeginComplete(w, v) \/ BeginCancel(w, v)
        PROVE  Quiet
    BY <2>3, <1>3, CompletionKeys DEF BeginComplete, BeginCancel, OneKeyEach
  <2>4. ASSUME NEW v \in VisitKeys, NEW l \in LineIds, NEW p \in Products,
               BeginResolve(w, v, l, p)
        PROVE  Quiet
    BY <2>4, <1>3 DEF BeginResolve, OneKeyEach
  <2>5. ASSUME NEW k \in InventoryKeys, NEW movement \in InventoryRequests,
               BeginRegister(w, k, movement)
        PROVE  Quiet
    BY <2>5, <1>3 DEF BeginRegister, OneKeyEach
  <2>6. CASE Replay(w)
    BY <2>6 DEF Replay, vars
  <2>. QED  BY <1>4, <2>1, <2>2, <2>3, <2>4, <2>5, <2>6 DEF BeginRequest
<1>5. ASSUME NEW w \in Workers, LockStep(w), ~InsertMovement(w) PROVE Quiet
  <2>1. CASE Merge(w)
    BY <2>1 DEF Merge, store, Transaction
  <2>2. CASE Flush(w)
    BY <2>2 DEF Flush
  <2>. QED
    BY <1>2, <1>5, <2>1, <2>2 DEF LockStep, DuplicateMovement, DuplicateVisit
<1>6. ASSUME NEW w \in Workers, Step(w), ~CheckStock(w), ~Commit(w) PROVE Quiet
  <2>1. CASE SkipRecorded(w)
    BY <2>1 DEF SkipRecorded, Transaction
  <2>2. CASE FinishComplete(w)
    BY <2>2 DEF FinishComplete, store, Transaction
  <2>3. CASE FinishRegister(w) \/ FinishResolve(w) \/ CheckVersion(w)
    BY <2>3 DEF FinishRegister, FinishResolve, CheckVersion
  <2>. QED
    BY <1>2, <1>6, <2>1, <2>2, <2>3
    DEF Step, RejectStock, RejectComplete, StaleVersion, DeadlockVictim
<1>. QED
  BY <1>1, <1>2, <1>4, <1>5, <1>6 DEF Next, Crash

LEMMA KeysInvariance == Spec => []KeysAreExclusive
<1>1. TypeInv /\ KeysAreExclusive /\ [Next]_vars => KeysAreExclusive'
  <2>1. ASSUME TypeInv, KeysAreExclusive, NEW w \in Workers, CheckStock(w)
        PROVE  KeysAreExclusive'
    BY <2>1 DEF TypeInv, TypeOK, Transaction, CheckStock, store, KeysAreExclusive
  <2>. QED  BY <2>1, KindsOfSteps, QuietKeys, InsertKeys, CommitKeys
<1>. QED  BY <1>1, TypeInvariance, InitKeys, PTL DEF Spec

\* However many sessions insert and commit, a movement once stored is never
\* replaced (record_movement and the unique index of inventory_movements): the
\* only writer of a key that is stored would be a transaction that inserted it
\* before, and no second one can.
THEOREM LedgerOnlyGrows == Spec => LedgerIsAppendOnly
<1>1. TypeInv /\ KeysAreExclusive /\ [Next]_vars
        => [\A k \in MovementKeys : ledger[k] # None => ledger'[k] = ledger[k]]_store
  <2> SUFFICES ASSUME TypeInv, KeysAreExclusive, [Next]_vars, NEW k \in MovementKeys,
                      ledger[k] # None
               PROVE  ledger'[k] = ledger[k]
    OBVIOUS
  <2>1. ASSUME NEW w \in Workers, CheckStock(w) \/ InsertMovement(w) PROVE UNCHANGED ledger
    BY <2>1 DEF CheckStock, InsertMovement, store
  <2>. QED  BY <2>1, KindsOfSteps, CommitKeys DEF Quiet
<1>. QED  BY <1>1, TypeInvariance, KeysInvariance, PTL DEF Spec, LedgerIsAppendOnly

----------------------------------------------------------------------------
(* Stock: with one session, what was checked is still true when it counts  *)

\* One process serves every request (Dockerfile CMD).
OneSession == \A u, w \in Workers : u = w

NonNegative(s) == \A loc \in Locations, p \in Products : s[loc][p] >= 0

LEMMA ApplyNonNegative ==
  ASSUME NEW s \in Stocks, NEW m \in Movement, NonNegative(s), EnsureCanApply(s, m)
  PROVE  NonNegative(Apply(s, m))
<1> SUFFICES ASSUME NEW loc \in Locations, NEW p \in Products
             PROVE  Apply(s, m)[loc][p] >= 0
  BY DEF NonNegative
<1>1. /\ Apply(s, m)[loc][p] = s[loc][p] + (IF p = m.product THEN SignedDelta(m, loc) ELSE 0)
      /\ s[loc][p] \in Int /\ s[loc][p] >= 0
  BY DEF Apply, Stocks, NonNegative
<1>2. m.quantity \in Nat
  BY MaxQtyAssumption DEF Movement
<1>3. CASE p # m.product
  BY <1>1, <1>3
<1>4. CASE p = m.product /\ m.source # loc
  BY <1>1, <1>2, <1>4 DEF SignedDelta
<1>5. CASE p = m.product /\ m.source = loc
  <2>1. s[loc][p] - m.quantity >= 0
    BY <1>5, NoneAssumption DEF EnsureCanApply
  <2>. QED  BY <1>1, <1>2, <1>5, <2>1 DEF SignedDelta
<1>. QED  BY <1>3, <1>4, <1>5

LEMMA MergedApply ==
  ASSUME NEW s \in Stocks, NEW d \in Stocks, NEW m \in Movement
  PROVE  Merged(s, Apply(d, m)) = Apply(Merged(s, d), m)
<1>1. \A loc \in Locations : SignedDelta(m, loc) \in Int
  BY MaxQtyAssumption DEF Movement, SignedDelta
<1>2. \A loc \in Locations, p \in Products :
        Merged(s, Apply(d, m))[loc][p] = Apply(Merged(s, d), m)[loc][p]
  BY <1>1 DEF Merged, Apply, Stocks
<1>. QED  BY <1>2 DEF Merged, Apply

LEMMA MergedZero ==
  ASSUME NEW s \in Stocks
  PROVE  Merged(s, ZeroStock) = s
BY DEF Merged, ZeroStock, Stocks

\* The committed stock, and the stock each transaction sees, are never negative,
\* and a movement about to be inserted still passes its check.
StockInv ==
  /\ NonNegative(stock)
  /\ \A w \in Workers :
       /\ NonNegative(VisibleStock(w))
       /\ pc[w] = "insert" => EnsureCanApply(VisibleStock(w), tx[w].next.movement)

LEMMA InitStock == Init => StockInv
<1> SUFFICES ASSUME Init PROVE StockInv
  OBVIOUS
<1>1. NonNegative(ZeroStock)
  BY DEF NonNegative, ZeroStock
<1>2. \A w \in Workers : VisibleStock(w) = ZeroStock
  BY MergedZero, ZeroStockType DEF Init, EmptyStore, NoTransaction, VisibleStock
<1>. QED  BY <1>1, <1>2 DEF Init, EmptyStore, StockInv

LEMMA NextStock ==
  ASSUME OneSession, TypeInv, StockInv, [Next]_vars
  PROVE  StockInv'
<1>. stock \in Stocks /\ pc \in [Workers -> Places] /\ tx \in [Workers -> Transaction]
  BY DEF TypeInv, TypeOK, StoreTypeOK
<1>1. CASE Quiet
  <2> SUFFICES ASSUME NEW w \in Workers
      PROVE  /\ NonNegative(Merged(stock, tx'[w].delta))
             /\ pc'[w] = "insert" =>
                  EnsureCanApply(Merged(stock, tx'[w].delta), tx'[w].next.movement)
    BY <1>1 DEF Quiet, StockInv, NonNegative, VisibleStock
  <2>1. CASE tx'[w].delta = tx[w].delta
    BY <1>1, <2>1 DEF Quiet, StockInv, VisibleStock
  <2>2. CASE tx'[w].delta = ZeroStock
    BY <1>1, <2>2, MergedZero DEF Quiet, StockInv, VisibleStock
  <2>. QED  BY <1>1, <2>1, <2>2 DEF Quiet
<1>2. ASSUME NEW w \in Workers, CheckStock(w) PROVE StockInv'
  <2>1. PICK t \in tx[w].todo :
          /\ EnsureCanApply(VisibleStock(w), t.movement)
          /\ tx' = [tx EXCEPT ![w].next = t]
    BY <1>2 DEF CheckStock
  <2>2. \A u \in Workers : u = w
    BY DEF OneSession
  <2>3. /\ tx'[w].delta = tx[w].delta /\ tx'[w].next = t
        /\ UNCHANGED stock
    BY <1>2, <2>1 DEF CheckStock, store, Transaction
  <2>4. VisibleStock(w)' = VisibleStock(w)
    BY <2>3 DEF VisibleStock
  <2>. QED  BY <2>1, <2>2, <2>3, <2>4 DEF StockInv, NonNegative
<1>3. ASSUME NEW w \in Workers, InsertMovement(w) PROVE StockInv'
  <2> DEFINE m == tx[w].next.movement
  <2>1. /\ pc[w] = "insert" /\ pc'[w] = "read" /\ UNCHANGED stock
        /\ tx'[w].delta = Apply(tx[w].delta, m)
    BY <1>3 DEF InsertMovement, Goto, store, Transaction
  <2>2. m \in Movement /\ tx[w].delta \in Stocks
    BY <2>1 DEF TypeInv, WellFormed, Transaction, Posting
  <2>3. VisibleStock(w)' = Apply(VisibleStock(w), m)
    BY <2>1, <2>2, MergedApply DEF VisibleStock
  <2>4. NonNegative(Apply(VisibleStock(w), m))
    BY <2>1, <2>2, MergedType, ApplyNonNegative DEF StockInv, VisibleStock
  <2>5. \A u \in Workers : u = w
    BY DEF OneSession
  <2>6. NonNegative(stock) /\ NonNegative(stock') /\ NonNegative(VisibleStock(w)')
    BY <2>1, <2>3, <2>4 DEF StockInv
  <2>7. NonNegative(stock)' /\ NonNegative(VisibleStock(w))'
    BY <2>1, <2>6 DEF NonNegative
  <2>. QED  BY <2>1, <2>5, <2>7 DEF StockInv
<1>4. ASSUME NEW w \in Workers, Commit(w) PROVE StockInv'
  <2>1. /\ pc'[w] = "idle" /\ stock' = VisibleStock(w) /\ tx'[w].delta = ZeroStock
    BY <1>4 DEF Commit, Goto, NoTransaction
  <2>2. VisibleStock(w) \in Stocks
    BY MergedType DEF VisibleStock, Transaction
  <2>3. VisibleStock(w)' = stock'
    BY <2>1, <2>2, MergedZero DEF VisibleStock
  <2>4. NonNegative(stock') /\ \A u \in Workers : u = w
    BY <2>1 DEF StockInv, OneSession
  <2>5. NonNegative(stock)' /\ NonNegative(VisibleStock(w))'
    BY <2>3, <2>4 DEF NonNegative
  <2>. QED  BY <2>1, <2>4, <2>5 DEF StockInv
<1>. QED  BY <1>1, <1>2, <1>3, <1>4, KindsOfSteps

\* Served by one process, no location ever goes below zero: the balance that
\* record_movement checks (InventoryLedger.ensure_can_apply) is the balance the
\* insert changes, also over the several movements of one completion.
THEOREM StockNeverNegative ==
  ASSUME OneSession
  PROVE  Spec => []NonNegativeStock
<1>1. TypeInv /\ StockInv /\ [Next]_vars => StockInv'
  BY NextStock
<1>2. StockInv => NonNegativeStock
  BY DEF StockInv, NonNegative, NonNegativeStock
<1>. QED  BY <1>1, <1>2, TypeInvariance, InitStock, PTL DEF Spec

----------------------------------------------------------------------------
(* Book stock: what the ledger adds up to *)

\* What a transaction has inserted, as rows.
Inserted(w) ==
  [k \in MovementKeys |->
    IF \E t \in tx[w].writes : t.key = k
    THEN (CHOOSE t \in tx[w].writes : t.key = k).movement
    ELSE None]

\* The stock is the sum of the ledger, and what a transaction adds to the stock
\* it sees is the sum of what it has inserted; it inserts no key twice.
SumInv ==
  /\ StockIsLedgerSum
  /\ \A w \in Workers :
       /\ OneKeyEach(tx[w].todo \cup tx[w].writes) /\ tx[w].todo \cap tx[w].writes = {}
       /\ \A loc \in Locations, p \in Products :
            tx[w].delta[loc][p] = ExpectedQuantity(Inserted(w), loc, p)

LEMMA InsertedRows ==
  ASSUME TypeInv, NEW w \in Workers
  PROVE  /\ Inserted(w) \in Ledgers
         /\ tx[w].writes = {} => Inserted(w) = EmptyLedger
         /\ OneKeyEach(tx[w].writes) => \A t \in tx[w].writes : Inserted(w)[t.key] = t.movement
<1>1. tx[w].writes \subseteq Posting
  BY DEF TypeInv, TypeOK, Transaction
<1>2. Inserted(w) \in Ledgers
  <2> SUFFICES ASSUME NEW k \in MovementKeys
               PROVE  Inserted(w)[k] \in Movement \cup {None}
    BY DEF Inserted, Ledgers
  <2>1. CASE \E t \in tx[w].writes : t.key = k
    <3>1. (CHOOSE t \in tx[w].writes : t.key = k) \in Posting
      BY <1>1, <2>1
    <3>. QED  BY <2>1, <3>1 DEF Inserted, Posting
  <2>. QED  BY <2>1 DEF Inserted
<1>3. tx[w].writes = {} => Inserted(w) = EmptyLedger
  BY DEF Inserted, EmptyLedger
<1>4. ASSUME OneKeyEach(tx[w].writes), NEW t \in tx[w].writes
      PROVE  Inserted(w)[t.key] = t.movement
  <2>1. t.key \in MovementKeys
    BY <1>1 DEF Posting
  <2>2. (CHOOSE s \in tx[w].writes : s.key = t.key) = t
    BY <1>4 DEF OneKeyEach
  <2>. QED  BY <2>1, <2>2 DEF Inserted
<1>. QED  BY <1>2, <1>3, <1>4

LEMMA InitSum == Init => SumInv
<1> SUFFICES ASSUME Init PROVE SumInv
  OBVIOUS
<1>1. StockIsLedgerSum
  BY ExpectedEmpty DEF Init, EmptyStore, StockIsLedgerSum, ZeroStock
<1>2. ASSUME NEW w \in Workers PROVE Inserted(w) = EmptyLedger
  BY DEF Init, NoTransaction, Inserted, EmptyLedger
<1>. QED  BY <1>1, <1>2, ExpectedEmpty DEF Init, NoTransaction, SumInv, OneKeyEach, ZeroStock

LEMMA QuietSum ==
  ASSUME TypeInv, TypeInv', SumInv, Quiet
  PROVE  SumInv'
<1>1. StockIsLedgerSum'
  BY DEF SumInv, StockIsLedgerSum, Quiet
<1>2. ASSUME NEW w \in Workers
      PROVE  /\ OneKeyEach(tx'[w].todo \cup tx'[w].writes)
             /\ tx'[w].todo \cap tx'[w].writes = {}
             /\ \A loc \in Locations, p \in Products :
                  tx'[w].delta[loc][p] = ExpectedQuantity(Inserted(w)', loc, p)
  <2>1. CASE /\ tx'[w].writes = tx[w].writes /\ tx'[w].delta = tx[w].delta
             /\ tx'[w].todo \subseteq tx[w].todo
    <3>1. Inserted(w)' = Inserted(w)
      BY <2>1 DEF Inserted
    <3>. QED  BY <2>1, <3>1 DEF SumInv, OneKeyEach
  <2>2. CASE /\ tx'[w].writes = {} /\ tx'[w].delta = ZeroStock
             /\ OneKeyEach(tx'[w].todo)
    <3>1. Inserted(w)' = EmptyLedger
      BY <2>2 DEF Inserted, EmptyLedger
    <3>. QED  BY <2>2, <3>1, ExpectedEmpty DEF ZeroStock
  <2>. QED  BY <2>1, <2>2 DEF Quiet
<1>. QED  BY <1>1, <1>2 DEF SumInv, OneKeyEach

LEMMA InsertSum ==
  ASSUME TypeInv, SumInv, NEW w \in Workers, InsertMovement(w)
  PROVE  SumInv'
<1> DEFINE t == tx[w].next
           m == t.movement
<1>1. /\ UNCHANGED <<ledger, stock>>
      /\ tx'[w].writes = tx[w].writes \cup {t} /\ tx'[w].todo = tx[w].todo \ {t}
      /\ tx'[w].delta = Apply(tx[w].delta, m)
      /\ \A u \in Workers \ {w} : tx'[u] = tx[u]
  BY DEF TypeInv, TypeOK, Transaction, InsertMovement, store
<1>2. t \in tx[w].todo /\ t \in Posting /\ tx[w].delta \in Stocks
  BY DEF InsertMovement, TypeInv, TypeOK, WellFormed, Transaction
<1>3. t.key \in MovementKeys /\ m \in Movement
  BY <1>2 DEF Posting
<1>4. \A s \in tx[w].writes : s.key # t.key
  BY <1>2 DEF SumInv, OneKeyEach
<1>5. Inserted(w) \in Ledgers /\ Inserted(w)[t.key] = None
  BY <1>3, <1>4, InsertedRows DEF Inserted
<1>6. Inserted(w)' = [Inserted(w) EXCEPT ![t.key] = m]
  <2> SUFFICES ASSUME NEW k \in MovementKeys
               PROVE  Inserted(w)'[k] = IF k = t.key THEN m ELSE Inserted(w)[k]
    BY <1>3 DEF Inserted
  <2>1. CASE k = t.key
    <3>1. (CHOOSE s \in tx'[w].writes : s.key = k) = t
      BY <1>1, <1>4, <2>1
    <3>. QED  BY <1>1, <2>1, <3>1 DEF Inserted
  <2>2. CASE k # t.key
    <3>1. \A s : s \in tx'[w].writes /\ s.key = k <=> s \in tx[w].writes /\ s.key = k
      BY <1>1, <2>2
    <3>2. (CHOOSE s \in tx'[w].writes : s.key = k) = (CHOOSE s \in tx[w].writes : s.key = k)
      BY <3>1
    <3>. QED  BY <2>2, <3>1, <3>2 DEF Inserted
  <2>. QED  BY <2>1, <2>2
<1> HIDE DEF t, m
<1>7. ASSUME NEW loc \in Locations, NEW p \in Products
      PROVE  tx'[w].delta[loc][p] = ExpectedQuantity(Inserted(w)', loc, p)
  <2> DEFINE one == Single(t.key, m)
             all == Inserted(w)'
  <2>1. /\ one \in Ledgers
        /\ ExpectedQuantity(one, loc, p) = IF p = m.product THEN SignedDelta(m, loc) ELSE 0
    BY <1>3, ExpectedSingle
  <2>2. all \in Ledgers
    BY <1>3, <1>5, <1>6 DEF Ledgers
  <2>3. \A k \in MovementKeys : \/ Inserted(w)[k] = None /\ all[k] = one[k]
                                \/ one[k] = None /\ all[k] = Inserted(w)[k]
    BY <1>3, <1>5, <1>6 DEF Single, Ledgers
  <2> HIDE DEF one, all
  <2>4. ExpectedQuantity(all, loc, p) =
          ExpectedQuantity(Inserted(w), loc, p) + ExpectedQuantity(one, loc, p)
    BY <1>5, <2>1, <2>2, <2>3, ExpectedTogether
  <2>5. tx[w].delta[loc][p] = ExpectedQuantity(Inserted(w), loc, p)
    BY DEF SumInv
  <2>6. tx'[w].delta[loc][p] =
          tx[w].delta[loc][p] + (IF p = m.product THEN SignedDelta(m, loc) ELSE 0)
    BY <1>1 DEF Apply
  <2>. QED  BY <2>1, <2>4, <2>5, <2>6 DEF all
<1>8. /\ OneKeyEach(tx'[w].todo \cup tx'[w].writes)
      /\ tx'[w].todo \cap tx'[w].writes = {}
  BY <1>1, <1>2 DEF SumInv, OneKeyEach
<1>9. \A u \in Workers \ {w} : Inserted(u)' = Inserted(u)
  BY <1>1 DEF Inserted
<1>10. StockIsLedgerSum'
  BY <1>1 DEF SumInv, StockIsLedgerSum
<1>11. ASSUME NEW u \in Workers
       PROVE  /\ OneKeyEach(tx[u].todo \cup tx[u].writes)'
              /\ (tx[u].todo \cap tx[u].writes = {})'
              /\ \A loc \in Locations, p \in Products :
                   (tx[u].delta[loc][p] = ExpectedQuantity(Inserted(u), loc, p))'
  <2>1. CASE u = w
    BY <1>7, <1>8, <2>1 DEF OneKeyEach
  <2>2. CASE u # w
    BY <1>1, <1>9, <2>2 DEF SumInv, OneKeyEach
  <2>. QED  BY <2>1, <2>2
<1>. QED  BY <1>10, <1>11 DEF SumInv

LEMMA CommitSum ==
  ASSUME TypeInv, TypeInv', KeysAreExclusive, SumInv, NEW w \in Workers, Commit(w)
  PROVE  SumInv'
<1>1. /\ ledger' = CommittedLedger(w) /\ stock' = VisibleStock(w)
      /\ tx'[w] = NoTransaction
      /\ \A u \in Workers \ {w} : tx'[u] = tx[u]
  BY DEF TypeInv, TypeOK, Commit
<1>2. \A k \in MovementKeys : \/ ledger[k] = None /\ ledger'[k] = Inserted(w)[k]
                              \/ Inserted(w)[k] = None /\ ledger'[k] = ledger[k]
  BY <1>1 DEF CommittedLedger, Inserted, KeysAreExclusive
<1>3. ASSUME NEW loc \in Locations, NEW p \in Products
      PROVE  stock'[loc][p] = ExpectedQuantity(ledger', loc, p)
  <2>1. ledger \in Ledgers /\ ledger' \in Ledgers /\ Inserted(w) \in Ledgers
    BY InsertedRows DEF TypeInv, TypeOK, StoreTypeOK
  <2>2. ExpectedQuantity(ledger', loc, p) =
          ExpectedQuantity(ledger, loc, p) + ExpectedQuantity(Inserted(w), loc, p)
    BY <1>2, <2>1, ExpectedTogether
  <2>3. stock'[loc][p] = stock[loc][p] + tx[w].delta[loc][p]
    BY <1>1 DEF VisibleStock, Merged
  <2>. QED  BY <2>2, <2>3 DEF SumInv, StockIsLedgerSum
<1>4. ASSUME NEW u \in Workers
      PROVE  /\ OneKeyEach(tx[u].todo \cup tx[u].writes)'
             /\ (tx[u].todo \cap tx[u].writes = {})'
             /\ \A loc \in Locations, p \in Products :
                  (tx[u].delta[loc][p] = ExpectedQuantity(Inserted(u), loc, p))'
  <2>1. CASE u = w
    <3>1. Inserted(w)' = EmptyLedger
      BY <1>1 DEF Inserted, EmptyLedger, NoTransaction
    <3>. QED  BY <1>1, <2>1, <3>1, ExpectedEmpty DEF NoTransaction, OneKeyEach, ZeroStock
  <2>2. CASE u # w
    <3>1. Inserted(u)' = Inserted(u)
      BY <1>1, <2>2 DEF Inserted
    <3>. QED  BY <1>1, <2>2, <3>1 DEF SumInv, OneKeyEach
  <2>. QED  BY <2>1, <2>2
<1>. QED  BY <1>3, <1>4 DEF SumInv, StockIsLedgerSum

LEMMA CheckSum ==
  ASSUME TypeInv, SumInv, NEW w \in Workers, CheckStock(w)
  PROVE  SumInv'
<1>1. UNCHANGED <<ledger, stock>>
  BY DEF CheckStock, store
<1>2. \A u \in Workers : /\ tx'[u].writes = tx[u].writes /\ tx'[u].todo = tx[u].todo
                         /\ tx'[u].delta = tx[u].delta
  BY DEF CheckStock, TypeInv, TypeOK, Transaction
<1>3. \A u \in Workers : Inserted(u)' = Inserted(u)
  BY <1>2 DEF Inserted
<1>. QED  BY <1>1, <1>2, <1>3 DEF SumInv, StockIsLedgerSum, OneKeyEach

LEMMA SumInvariance == Spec => []SumInv
<1>1. TypeInv /\ KeysAreExclusive /\ SumInv /\ [Next]_vars => SumInv'
  BY NextType, KindsOfSteps, QuietSum, InsertSum, CommitSum, CheckSum
<1>. QED  BY <1>1, TypeInvariance, KeysInvariance, InitSum, PTL DEF Spec

\* Whatever any number of sessions insert, commit, skip, retry or roll back, the
\* book stock is the sum of the movements in the ledger (repository sum of
\* signed deltas; complete.py, register_movement.py): none counts twice and none
\* is left out.
THEOREM StockAddsUp == Spec => []StockIsLedgerSum
<1>1. SumInv => StockIsLedgerSum
  BY DEF SumInv
<1>. QED  BY <1>1, SumInvariance, PTL

=============================================================================
