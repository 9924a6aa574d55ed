-------------------------- MODULE SharedStoreProofs ---------------------------
(***************************************************************************)
(* Proofs about SharedStore: what holds of rows, locks, jobs and history   *)
(* for every number of replicas, workers, tasks, requests and crashes.     *)
(***************************************************************************)
EXTENDS SharedStore, TLAPS, FiniteSetTheorems

------------------------------------------------------------------------------
\* Types.

Row == [st : {"pending", "done", "failed"}, by : Workers \cup {None}, until : Nat,
        retries : 0..Retries]

\* A row that a scan or a read may have found.
OpenRow == {x \in Row : x.st = "pending" /\ x.retries > 0}

\* Some of the tasks' rows.
RowMap == UNION {[S -> OpenRow] : S \in SUBSET Tasks}

\* The requests that hold their replica's lock: before and after the row's write.
WritingRow == {"completeRow", "failRow", "errorRow"}
RowWritten == {"emit", "store"}
Locking == WritingRow \cup RowWritten
Answering == {"complete", "fail", "error"} \cup Locking

TokenState == {"wait", "gone", "incident"}

ReqType == [op : {"none", "fetch"} \cup Answering, rep : Replicas \cup {None}, now : Nat,
            todo : RowMap, task : Tasks \cup {0}, row : Row, inst : [Tasks -> TokenState]]

TypeInv ==
    /\ clock \in 1..MaxTime
    /\ row \in [Tasks -> Row]
    /\ \A t \in Tasks : row[t].st = "pending" => row[t].retries > 0
    /\ inst \in [Tasks -> TokenState]
    /\ events \in Nat
    /\ DOMAIN hist \subseteq 1..events
    /\ cache \in [Replicas -> Int]
    /\ \A r \in Replicas : cache[r] \in -1..events
    /\ req \in [Workers -> ReqType]
    /\ \A w \in Workers :
          /\ req[w].op # "none" => req[w].rep \in Replicas
          /\ req[w].now <= clock
          /\ req[w].op \in Answering => req[w].task \in Tasks /\ req[w].row \in OpenRow
    /\ lock \in [Replicas -> Workers \cup {None}]
    /\ held \in [Workers -> [Tasks -> Nat]]
    /\ applied \in [Tasks -> Nat]

\* What the first request of a worker and every later one has to be.
LEMMA FreeTyped == Free \in ReqType /\ Free.op = "none" /\ Free.now = 0
<1>1. NoRows \in RowMap
  <2>1. NoRows \in [{} -> OpenRow]
    BY DEF NoRows
  <2> QED BY <2>1 DEF RowMap
<1> QED BY <1>1, SharedStoreAssumption DEF Free, ReqType, Row, TokenState

\* The rows a scan keeps, and the ones left after the first is dealt with.
LEMMA RowMapTyped ==
    /\ \A S \in SUBSET Tasks : \A f \in [Tasks -> Row] :
          (\A t \in S : f[t] \in OpenRow) => [t \in S |-> f[t]] \in RowMap
    /\ \A f \in RowMap : /\ DOMAIN f \subseteq Tasks
                         /\ \A t \in DOMAIN f : f[t] \in OpenRow
                         /\ \A S \in SUBSET DOMAIN f : Restrict(f, S) \in RowMap
<1>1. ASSUME NEW S \in SUBSET Tasks, NEW f \in [Tasks -> Row], \A t \in S : f[t] \in OpenRow
      PROVE  [t \in S |-> f[t]] \in RowMap
  <2>1. [t \in S |-> f[t]] \in [S -> OpenRow]
    BY <1>1
  <2> QED BY <2>1 DEF RowMap
<1>2. ASSUME NEW f \in RowMap
      PROVE  /\ DOMAIN f \subseteq Tasks
             /\ \A t \in DOMAIN f : f[t] \in OpenRow
             /\ \A S \in SUBSET DOMAIN f : Restrict(f, S) \in RowMap
  <2>1. PICK T \in SUBSET Tasks : f \in [T -> OpenRow]
    BY DEF RowMap
  <2>2. ASSUME NEW S \in SUBSET DOMAIN f PROVE Restrict(f, S) \in [S -> OpenRow]
    BY <2>1 DEF Restrict
  <2>3. ASSUME NEW S \in SUBSET DOMAIN f PROVE Restrict(f, S) \in RowMap
    BY <2>1, <2>2 DEF RowMap
  <2> QED BY <2>1, <2>3
<1> QED BY <1>1, <1>2

\* A nonempty set of sequence numbers has a highest one.
LEMMA MaxExists ==
    ASSUME NEW N \in Nat, NEW S \in SUBSET (1..N), S # {}
    PROVE  Max(S) \in S /\ \A j \in S : j <= Max(S)
<1> DEFINE T == {m \in Nat : N - m \in S}
           R == OpToRel(<, Nat)
<1>1. T # {} /\ T \subseteq Nat
  <2>1. PICK i \in S : TRUE
    OBVIOUS
  <2>2. N - i \in Nat /\ N - (N - i) = i
    BY <2>1
  <2> QED BY <2>2
<1>2. PICK x \in T : \A y \in T : ~ (<<y, x>> \in R)
  <2> HIDE DEF T, R
  <2> QED BY <1>1, NatLessThanWellFounded, WFMin DEF R
<1>3. \A y \in T : ~(y < x)
  BY <1>1, <1>2 DEF OpToRel
<1>4. ASSUME NEW j \in S PROVE j <= N - x
  <2>1. N - j \in Nat /\ N - (N - j) = j /\ N - j \in T
    OBVIOUS
  <2>2. ~(N - j < x)
    BY <1>3, <2>1
  <2> QED BY <2>1, <2>2, <1>1
<1>5. N - x \in S /\ \A j \in S : N - x >= j
  BY <1>1, <1>4
<1>6. Max(S) \in S /\ \A j \in S : Max(S) >= j
  <2> HIDE DEF T
  <2> QED BY <1>5 DEF Max
<1> QED BY <1>6

\* SELECT MAX(seq) finds a number that was given out.
LEMMA LastSeqTyped == TypeInv => LastSeq \in 0..events
<1> SUFFICES ASSUME TypeInv PROVE LastSeq \in 0..events
  OBVIOUS
<1>1. events \in Nat /\ DOMAIN hist \subseteq 1..events
  BY DEF TypeInv
<1>2. CASE DOMAIN hist = {}
  BY <1>1, <1>2 DEF LastSeq
<1>3. CASE DOMAIN hist # {}
  <2>1. DOMAIN hist \in SUBSET (1..events)
    BY <1>1
  <2>2. Max(DOMAIN hist) \in DOMAIN hist
    BY <1>1, <1>3, <2>1, MaxExists
  <2> QED BY <1>1, <1>3, <2>2 DEF LastSeq
<1> QED BY <1>2, <1>3

\* What an answer makes of the row it read: it stays pending, without its lock,
\* exactly when the token goes on waiting.
LEMMA AnsweredEffect ==
    ASSUME NEW q, q.op \in WritingRow, q.row \in OpenRow
    PROVE  /\ Answered(q)[1] \in Row
           /\ Answered(q)[2] \in TokenState
           /\ Answered(q)[1].st = "pending" <=> Answered(q)[2] = "wait"
           /\ Answered(q)[1].st = "pending" => Answered(q)[1].retries > 0 /\ Answered(q)[1].by = None
<1> USE SharedStoreAssumption
<1> DEFINE n == q.row.retries - 1
<1>1. q.row \in Row /\ q.row.st = "pending" /\ q.row.retries \in 1..Retries
  BY DEF OpenRow, Row
<1>2. n \in 0..Retries /\ (q.row.retries > 1 => n > 0)
  BY <1>1
<1>3. CASE q.op \in {"completeRow", "errorRow"}
  BY <1>1, <1>3 DEF Answered, Row, TokenState
<1>4. CASE q.op = "failRow" /\ q.row.retries > 1
  <2> DEFINE new == [q.row EXCEPT !.retries = n, !.by = None, !.until = 0]
  <2>1. Answered(q) = <<new, "wait">>
    BY <1>4 DEF Answered
  <2>2. new \in Row /\ new.retries > 0 /\ new.by = None /\ new.st = "pending"
    <3> HIDE DEF n
    <3> QED BY <1>1, <1>2, <1>4 DEF Row
  <2> HIDE DEF new
  <2> QED BY <2>1, <2>2 DEF TokenState
<1>5. CASE q.op = "failRow" /\ ~(q.row.retries > 1)
  <2> DEFINE new == [q.row EXCEPT !.retries = n, !.st = "failed"]
  <2>1. Answered(q) = <<new, "incident">>
    BY <1>5 DEF Answered
  <2>2. new \in Row /\ new.st = "failed"
    <3> HIDE DEF n
    <3> QED BY <1>1, <1>2 DEF Row
  <2> HIDE DEF new
  <2> QED BY <2>1, <2>2 DEF TokenState
<1> QED BY <1>3, <1>4, <1>5 DEF WritingRow

\* The initial rows, requests and caches are well typed.
LEMMA TypeInit == Init => TypeInv
<1> SUFFICES ASSUME Init PROVE TypeInv
  OBVIOUS
<1> USE SharedStoreAssumption, FreeTyped DEF Init
<1>1. row \in [Tasks -> Row] /\ \A t \in Tasks : row[t].retries > 0
  BY DEF Row
<1>2. req \in [Workers -> ReqType] /\ \A w \in Workers : req[w].op = "none" /\ req[w].now = 0
  OBVIOUS
<1>3. DOMAIN hist = {}
  OBVIOUS
<1> QED BY <1>1, <1>2, <1>3 DEF TypeInv, TokenState, Answering, Locking, WritingRow, RowWritten

\* Every step keeps the types, one case per action.
LEMMA TypeStep == TypeInv /\ [Next]_vars => TypeInv'
<1> SUFFICES ASSUME TypeInv, [Next]_vars PROVE TypeInv'
  OBVIOUS
<1> USE SharedStoreAssumption
<1> USE DEF schedulerVars, applyVars, workerVars
<1>1. ASSUME NEW w \in Workers, NEW r \in Replicas, FetchScans(w, r)
      PROVE  TypeInv'
  <2> DEFINE found == [t \in Scanned(clock) |-> row[t]]
             q == [Free EXCEPT !.op = "fetch", !.rep = r, !.now = clock, !.todo = found]
  <2>1. Scanned(clock) \subseteq Tasks /\ \A t \in Scanned(clock) : row[t] \in OpenRow
    BY DEF Scanned, Available, TypeInv, OpenRow
  <2>2. found \in RowMap /\ clock \in Nat
    <3>1. found \in [Scanned(clock) -> OpenRow]
      BY <2>1
    <3>2. found \in RowMap
      BY <2>1, <3>1 DEF RowMap
    <3>3. clock \in Nat
      BY DEF TypeInv
    <3> QED BY <3>2, <3>3
  <2>3. q \in ReqType /\ q.op = "fetch" /\ q.rep = r /\ q.now = clock
    <3> HIDE DEF found
    <3> QED BY <2>2, FreeTyped DEF ReqType
  <2>4. req' = [req EXCEPT ![w] = q]
    BY <1>1 DEF FetchScans, Request
  <2>5. UNCHANGED <<clock, row, inst, hist, cache, lock, held, applied, events>>
    BY <1>1 DEF FetchScans
  <2> HIDE DEF q
  <2> QED BY <2>3, <2>4, <2>5 DEF TypeInv, Answering, Locking, WritingRow, RowWritten
<1>2. ASSUME NEW w \in Workers, NEW r \in Replicas, NEW t \in Tasks, NEW op \in DOMAIN RowOp,
             AnswerReads(w, r, t, op)
      PROVE  TypeInv'
  <2> DEFINE q == [Free EXCEPT !.op = op, !.rep = r, !.task = t, !.row = row[t]]
  <2>1. row[t] \in OpenRow /\ op \in {"complete", "fail", "error"}
    BY <1>2 DEF AnswerReads, TypeInv, OpenRow, RowOp
  <2>2. q.op = op /\ q.rep = r /\ q.now = 0 /\ q.row = row[t] /\ q.task = t
    BY FreeTyped DEF ReqType
  <2>3. q \in ReqType
    BY <2>1, FreeTyped DEF ReqType, OpenRow, Answering
  <2>4. req' = [req EXCEPT ![w] = q]
    BY <1>2 DEF AnswerReads, Request
  <2>5. UNCHANGED <<clock, row, inst, hist, cache, lock, held, applied, events>>
    BY <1>2 DEF AnswerReads
  <2> HIDE DEF q
  <2> QED BY <2>1, <2>2, <2>3, <2>4, <2>5 DEF TypeInv
<1>3. ASSUME NEW w \in Workers, FetchLocks(w)
      PROVE  TypeInv'
  <2> DEFINE todo == req[w].todo
             until == req[w].now + LockFor
  <2>1. PICK t \in DOMAIN todo :
           /\ IF MayLock(t, req[w].now)
                THEN /\ row' = [row EXCEPT ![t] = [todo[t] EXCEPT !.by = w, !.until = until]]
                     /\ held' = [held EXCEPT ![w][t] = until]
                ELSE UNCHANGED <<row, held>>
           /\ req' = [req EXCEPT ![w].todo = Restrict(todo, DOMAIN todo \ {t})]
    BY <1>3 DEF FetchLocks
  <2>2. todo \in RowMap /\ until \in Nat
    BY DEF TypeInv, ReqType
  <2>3. t \in Tasks /\ todo[t] \in OpenRow /\ Restrict(todo, DOMAIN todo \ {t}) \in RowMap
    BY <2>1, <2>2, RowMapTyped
  <2>4. [todo[t] EXCEPT !.by = w, !.until = until] \in OpenRow
    BY <2>2, <2>3 DEF OpenRow, Row
  <2>5. /\ row' \in [Tasks -> Row] /\ \A u \in Tasks : row'[u].st = "pending" => row'[u].retries > 0
        /\ held' \in [Workers -> [Tasks -> Nat]]
    <3> DEFINE new == [todo[t] EXCEPT !.by = w, !.until = until]
    <3>1. new \in Row /\ new.retries > 0
      BY <2>4 DEF OpenRow
    <3>2. \/ row' = [row EXCEPT ![t] = new] /\ held' = [held EXCEPT ![w][t] = until]
          \/ UNCHANGED <<row, held>>
      BY <2>1
    <3>3. /\ row \in [Tasks -> Row] /\ \A u \in Tasks : row[u].st = "pending" => row[u].retries > 0
          /\ held \in [Workers -> [Tasks -> Nat]]
      BY DEF TypeInv
    <3> HIDE DEF new, until, todo
    <3>4. CASE row' = [row EXCEPT ![t] = new] /\ held' = [held EXCEPT ![w][t] = until]
      <4>1. row' \in [Tasks -> Row] /\ \A u \in Tasks : row'[u].st = "pending" => row'[u].retries > 0
        BY <2>3, <3>1, <3>3, <3>4
      <4>2. held' \in [Workers -> [Tasks -> Nat]]
        BY <2>2, <2>3, <3>3, <3>4
      <4> QED BY <4>1, <4>2
    <3>5. CASE UNCHANGED <<row, held>>
      BY <3>3, <3>5
    <3> QED BY <3>2, <3>4, <3>5
  <2>6. /\ req' \in [Workers -> ReqType]
        /\ \A v \in Workers : /\ req'[v].op = req[v].op /\ req'[v].rep = req[v].rep
                              /\ req'[v].now = req[v].now /\ req'[v].task = req[v].task
                              /\ req'[v].row = req[v].row
    <3> DEFINE new == Restrict(todo, DOMAIN todo \ {t})
    <3>1. req' = [req EXCEPT ![w].todo = new] /\ new \in RowMap /\ req \in [Workers -> ReqType]
      BY <2>1, <2>3 DEF TypeInv
    <3> HIDE DEF new
    <3> QED BY <3>1 DEF ReqType
  <2>7. UNCHANGED <<clock, inst, hist, cache, lock, applied, events>>
    BY <1>3 DEF FetchLocks
  <2> QED BY <2>5, <2>6, <2>7 DEF TypeInv
<1>4. ASSUME NEW w \in Workers, FetchReturns(w)
      PROVE  TypeInv'
  BY <1>4, FreeTyped DEF FetchReturns, TypeInv, Answering, Locking, WritingRow, RowWritten
<1>5. ASSUME NEW w \in Workers, AnswerLoads(w)
      PROVE  TypeInv'
  <2>1. UNCHANGED <<clock, row, held, inst, hist, cache, applied, events>>
    BY <1>5 DEF AnswerLoads
  <2>2. CASE Waiting(inst, req[w].task)
    <3>1. /\ req[w].op \in {"complete", "fail", "error"}
          /\ lock' = [lock EXCEPT ![req[w].rep] = w]
          /\ req' = [req EXCEPT ![w].op = RowOp[req[w].op], ![w].inst = inst]
      BY <1>5, <2>2 DEF AnswerLoads, RowOp
    <3> DEFINE new == [req[w] EXCEPT !.op = RowOp[req[w].op], !.inst = inst]
    <3>2. /\ new \in ReqType /\ new.rep = req[w].rep /\ new.now = req[w].now
          /\ new.task = req[w].task /\ new.row = req[w].row
      <4>1. RowOp[req[w].op] \in {"none", "fetch"} \cup Answering
        BY <3>1 DEF RowOp, Answering, Locking, WritingRow
      <4>2. req[w] \in ReqType /\ inst \in [Tasks -> TokenState]
        BY DEF TypeInv
      <4> DEFINE o == RowOp[req[w].op]
      <4> HIDE DEF o
      <4>3. o \in {"none", "fetch"} \cup Answering
        BY <4>1 DEF o
      <4>4. LET n == [req[w] EXCEPT !.op = o, !.inst = inst]
            IN  /\ n \in ReqType /\ n.rep = req[w].rep /\ n.now = req[w].now
                /\ n.task = req[w].task /\ n.row = req[w].row
        BY <4>2, <4>3 DEF ReqType
      <4> QED BY <4>4 DEF o
    <3>5. req' = [req EXCEPT ![w] = new]
      BY <3>1 DEF TypeInv
    <3> HIDE DEF new
    <3>3. /\ req' \in [Workers -> ReqType]
          /\ \A v \in Workers : /\ req'[v].rep = req[v].rep /\ req'[v].now = req[v].now
                                /\ req'[v].task = req[v].task /\ req'[v].row = req[v].row
                                /\ v # w => req'[v] = req[v]
      BY <3>2, <3>5 DEF TypeInv
    <3>4. req[w].op \in Answering /\ req[w].op # "none"
      BY <3>1 DEF Answering
    <3> QED BY <2>1, <3>1, <3>3, <3>4 DEF TypeInv
  <2>3. CASE ~Waiting(inst, req[w].task)
    <3>1. req' = [req EXCEPT ![w] = Free] /\ UNCHANGED lock
      BY <1>5, <2>3 DEF AnswerLoads
    <3> QED BY <2>1, <3>1, FreeTyped DEF TypeInv, Answering, Locking, WritingRow, RowWritten
  <2> QED BY <2>2, <2>3
<1>6. ASSUME NEW w \in Workers, AnswerPutsRow(w)
      PROVE  TypeInv'
  <2> DEFINE q == req[w]
             a == Answered(q)
  <2>1. /\ q.op \in WritingRow /\ q.op \in Answering /\ q \in ReqType
        /\ q.task \in Tasks /\ q.row \in OpenRow
    BY <1>6 DEF AnswerPutsRow, TypeInv, Answering, Locking, WritingRow
  <2>2. /\ a[1] \in Row /\ (a[1].st = "pending" => a[1].retries > 0)
        /\ a[2] \in TokenState
    BY <2>1, AnsweredEffect
  <2>3. /\ row' = [row EXCEPT ![q.task] = a[1]]
        /\ req' = [req EXCEPT ![w].op = IF a[2] = "wait" THEN "store" ELSE "emit",
                              ![w].inst = [@ EXCEPT ![q.task] = a[2]]]
        /\ held' = [held EXCEPT ![w][q.task] = 0]
        /\ UNCHANGED <<clock, inst, hist, cache, lock, applied, events>>
    BY <1>6 DEF AnswerPutsRow
  <2> HIDE DEF a
  <2>4. /\ req' \in [Workers -> ReqType]
        /\ \A v \in Workers : /\ req'[v].rep = req[v].rep /\ req'[v].now = req[v].now
                              /\ req'[v].task = req[v].task /\ req'[v].row = req[v].row
                              /\ v # w => req'[v] = req[v]
    <3> DEFINE new == [q EXCEPT !.op = IF a[2] = "wait" THEN "store" ELSE "emit",
                               !.inst = [q.inst EXCEPT ![q.task] = a[2]]]
    <3>1. /\ new \in ReqType /\ new.rep = q.rep /\ new.now = q.now
          /\ new.task = q.task /\ new.row = q.row
      <4>1. [q.inst EXCEPT ![q.task] = a[2]] \in [Tasks -> TokenState]
        BY <2>1, <2>2 DEF ReqType
      <4>2. (IF a[2] = "wait" THEN "store" ELSE "emit") \in Answering
        BY DEF Answering, Locking, RowWritten
      <4> QED BY <2>1, <4>1, <4>2 DEF ReqType
    <3>2. req' = [req EXCEPT ![w] = new]
      BY <2>3 DEF TypeInv
    <3> HIDE DEF new
    <3> QED BY <3>1, <3>2 DEF TypeInv
  <2>5. /\ row' \in [Tasks -> Row] /\ \A u \in Tasks : row'[u].st = "pending" => row'[u].retries > 0
        /\ held' \in [Workers -> [Tasks -> Nat]]
    BY <2>1, <2>2, <2>3 DEF TypeInv
  <2>6. q.op # "none"
    BY <2>1 DEF WritingRow
  <2> QED BY <2>1, <2>3, <2>4, <2>5, <2>6 DEF TypeInv
<1>7. ASSUME NEW w \in Workers, AppendHistory(w)
      PROVE  TypeInv'
  <2> DEFINE r == req[w].rep
             seq == Cached(r) + 1
  <2>1. r \in Replicas
    BY <1>7 DEF AppendHistory, TypeInv
  <2>2. seq \in 1..events + 1 /\ events \in Nat
    BY <2>1, LastSeqTyped DEF TypeInv, Cached
  <2>3. /\ DOMAIN hist' = DOMAIN hist \cup {seq}
        /\ cache' = [cache EXCEPT ![r] = seq]
        /\ events' = events + 1
        /\ req' = [req EXCEPT ![w].op = "store"]
        /\ UNCHANGED <<clock, row, inst, lock, held, applied>>
    BY <1>7 DEF AppendHistory
  <2> HIDE DEF seq
  <2>4. DOMAIN hist' \subseteq 1..events' /\ events' \in Nat
    BY <2>2, <2>3 DEF TypeInv
  <2>5. cache' \in [Replicas -> Int] /\ \A s \in Replicas : cache'[s] \in -1..events'
    BY <2>1, <2>2, <2>3 DEF TypeInv
  <2>6. /\ req' \in [Workers -> ReqType]
        /\ \A v \in Workers : /\ req'[v].rep = req[v].rep /\ req'[v].now = req[v].now
                              /\ req'[v].task = req[v].task /\ req'[v].row = req[v].row
                              /\ v # w => req'[v] = req[v]
    <3> DEFINE new == [req[w] EXCEPT !.op = "store"]
    <3>1. /\ new \in ReqType /\ new.rep = req[w].rep /\ new.now = req[w].now
          /\ new.task = req[w].task /\ new.row = req[w].row
      <4>1. req[w] \in ReqType
        BY DEF TypeInv
      <4>2. "store" \in {"none", "fetch"} \cup Answering
        BY DEF Answering, Locking, RowWritten
      <4> QED BY <4>1, <4>2 DEF ReqType
    <3>2. req' = [req EXCEPT ![w] = new]
      BY <2>3 DEF TypeInv
    <3> HIDE DEF new
    <3> QED BY <3>1, <3>2 DEF TypeInv
  <2>7. req[w].op \in Answering /\ req[w].op # "none"
    BY <1>7 DEF AppendHistory, Answering, Locking, RowWritten
  <2> QED BY <2>1, <2>3, <2>4, <2>5, <2>6, <2>7 DEF TypeInv
<1>8. ASSUME NEW w \in Workers, AnswerStores(w)
      PROVE  TypeInv'
  <2>1. req[w].inst \in [Tasks -> TokenState] /\ req[w].task \in Tasks /\ req[w].rep \in Replicas
    BY <1>8 DEF AnswerStores, TypeInv, ReqType, Answering, Locking, RowWritten
  <2>2. /\ inst' = req[w].inst
        /\ applied' = [applied EXCEPT ![req[w].task] =
                           IF req[w].inst[req[w].task] = "wait" THEN @ ELSE @ + 1]
        /\ lock' = [lock EXCEPT ![req[w].rep] = None]
        /\ req' = [req EXCEPT ![w] = Free]
        /\ UNCHANGED <<clock, row, hist, cache, held, events>>
    BY <1>8 DEF AnswerStores
  <2>3. applied' \in [Tasks -> Nat]
    <3> DEFINE t == req[w].task
               n == IF req[w].inst[t] = "wait" THEN applied[t] ELSE applied[t] + 1
    <3>1. applied \in [Tasks -> Nat] /\ t \in Tasks
      BY <2>1 DEF TypeInv
    <3>2. n \in Nat
      <4>1. applied[t] \in Nat /\ applied[t] + 1 \in Nat
        <5> HIDE DEF t
        <5> QED BY <3>1
      <4>2. n = applied[t] \/ n = applied[t] + 1
        BY Zenon
      <4> QED BY <4>1, <4>2
    <3>3. applied' = [applied EXCEPT ![t] = n]
      BY <2>2
    <3> HIDE DEF n, t
    <3> QED BY <3>1, <3>2, <3>3
  <2>4. lock' \in [Replicas -> Workers \cup {None}]
    BY <2>1, <2>2 DEF TypeInv
  <2>5. /\ req' \in [Workers -> ReqType]
        /\ \A v \in Workers : req'[v] = Free \/ req'[v] = req[v]
    BY <2>2, FreeTyped DEF TypeInv
  <2> QED BY <2>1, <2>2, <2>3, <2>4, <2>5, FreeTyped
          DEF TypeInv, Answering, Locking, WritingRow, RowWritten
<1>9. ASSUME NEW r \in Replicas, DueScans(r) \/ DueClaims(r) \/ DueRuns(r)
      PROVE  TypeInv'
  <2>1. UNCHANGED <<clock, row, req, held, inst, hist, cache, lock, applied, events>>
    BY <1>9 DEF DueScans, DueClaims, DueRuns, workerVars, applyVars
  <2> QED BY <2>1 DEF TypeInv
<1>10. ASSUME NEW r \in Replicas, Crash(r)
      PROVE  TypeInv'
  <2>1. /\ req' = [w \in Workers |-> IF req[w].rep = r THEN Free ELSE req[w]]
        /\ lock' = [lock EXCEPT ![r] = None]
        /\ cache' = [cache EXCEPT ![r] = -1]
        /\ UNCHANGED <<clock, row, inst, hist, held, applied, events>>
    BY <1>10 DEF Crash
  <2>2. req' \in [Workers -> ReqType] /\ \A w \in Workers : req'[w] = Free \/ req'[w] = req[w]
    BY <2>1, FreeTyped DEF TypeInv
  <2> QED BY <2>1, <2>2, FreeTyped DEF TypeInv, Answering, Locking, WritingRow, RowWritten
<1>11. CASE Tick
  BY <1>11 DEF Tick, TypeInv, ReqType
<1>12. CASE UNCHANGED vars
  BY <1>12 DEF vars, TypeInv
<1> QED BY <1>1, <1>2, <1>3, <1>4, <1>5, <1>6, <1>7, <1>8, <1>9, <1>10, <1>11, <1>12 DEF Next

\* The specification's type invariant, for every instance.
THEOREM SharedStoreTypes == Spec => []TypeOK
<1>1. TypeInv => TypeOK
  BY DEF TypeInv, TypeOK, Row, TokenState
<1> QED BY <1>1, TypeInit, TypeStep, PTL DEF Spec

------------------------------------------------------------------------------
\* Jobs: a row that is still there has not run, and a claimed one is nobody
\* else's.

JobInv ==
    /\ job \subseteq Jobs
    /\ ran \in [Jobs -> 0..1]
    /\ due \in [Replicas -> [scanned : SUBSET Jobs, claimed : SUBSET Jobs]]
    /\ \A j \in job : ran[j] = 0
    /\ \A r \in Replicas : \A j \in due[r].claimed : j \notin job /\ ran[j] = 0
    /\ \A r, s \in Replicas : \A j \in due[r].claimed \cap due[s].claimed : r = s

\* All jobs are in the table and none has run.
LEMMA JobInit == Init => JobInv
BY DEF Init, JobInv

\* A job leaves the table for the one replica whose DELETE affected its row.
LEMMA JobStep == JobInv /\ [Next]_vars => JobInv'
<1> SUFFICES ASSUME JobInv, [Next]_vars PROVE JobInv'
  OBVIOUS
<1>1. CASE UNCHANGED <<job, due, ran>>
  BY <1>1 DEF JobInv
<1>2. ASSUME NEW r \in Replicas, DueScans(r)
      PROVE  JobInv'
  <2>1. /\ due' = [due EXCEPT ![r].scanned = job]
        /\ UNCHANGED <<job, ran>>
    BY <1>2 DEF DueScans
  <2>2. /\ due' \in [Replicas -> [scanned : SUBSET Jobs, claimed : SUBSET Jobs]]
        /\ \A s \in Replicas : due'[s].claimed = due[s].claimed
    BY <2>1 DEF JobInv
  <2> QED BY <2>1, <2>2 DEF JobInv
<1>3. ASSUME NEW r \in Replicas, DueClaims(r)
      PROVE  JobInv'
  <2>1. PICK j \in due[r].scanned :
           /\ due' = [due EXCEPT ![r].scanned = @ \ {j},
                                 ![r].claimed = IF Deleted(j) THEN @ \cup {j} ELSE @]
           /\ job' = job \ {j}
           /\ UNCHANGED ran
    BY <1>3 DEF DueClaims
  <2>2. /\ due' \in [Replicas -> [scanned : SUBSET Jobs, claimed : SUBSET Jobs]]
        /\ \A s \in Replicas \ {r} : due'[s].claimed = due[s].claimed
        /\ due'[r].claimed = IF j \in job THEN due[r].claimed \cup {j} ELSE due[r].claimed
    <3> DEFINE all == IF j \in job THEN due[r].claimed \cup {j} ELSE due[r].claimed
               new == [due[r] EXCEPT !.scanned = @ \ {j}, !.claimed = all]
    <3>1. /\ due \in [Replicas -> [scanned : SUBSET Jobs, claimed : SUBSET Jobs]]
          /\ due[r] \in [scanned : SUBSET Jobs, claimed : SUBSET Jobs]
      BY DEF JobInv
    <3>2. due' = [due EXCEPT ![r].scanned = @ \ {j}, ![r].claimed = all]
      BY <2>1, Zenon DEF Deleted
    <3>3. all \in SUBSET Jobs /\ due[r].scanned \ {j} \in SUBSET Jobs
      BY <3>1
    <3> HIDE DEF all
    <3>4. due' = [due EXCEPT ![r] = new]
      BY <3>1, <3>2
    <3>5. new \in [scanned : SUBSET Jobs, claimed : SUBSET Jobs] /\ new.claimed = all
      BY <3>1, <3>3
    <3> HIDE DEF new
    <3> QED BY <3>1, <3>4, <3>5 DEF all
  <2>3. \A s, u \in Replicas : \A i \in due'[s].claimed \cap due'[u].claimed : s = u
    BY <2>2 DEF JobInv
  <2> QED BY <2>1, <2>2, <2>3 DEF JobInv
<1>4. ASSUME NEW r \in Replicas, DueRuns(r)
      PROVE  JobInv'
  <2>1. /\ ran' = [j \in Jobs |-> IF j \in due[r].claimed THEN ran[j] + 1 ELSE ran[j]]
        /\ due' = [due EXCEPT ![r].claimed = {}]
        /\ UNCHANGED job
    BY <1>4 DEF DueRuns, workerVars
  <2>2. /\ due' \in [Replicas -> [scanned : SUBSET Jobs, claimed : SUBSET Jobs]]
        /\ \A s \in Replicas \ {r} : due'[s].claimed = due[s].claimed
        /\ due'[r].claimed = {}
    BY <2>1 DEF JobInv
  <2>3. /\ ran' \in [Jobs -> 0..1]
        /\ \A j \in Jobs : j \notin due[r].claimed => ran'[j] = ran[j]
    BY <2>1 DEF JobInv
  <2> QED BY <2>1, <2>2, <2>3 DEF JobInv
<1>5. ASSUME NEW r \in Replicas, Crash(r)
      PROVE  JobInv'
  <2>1. due' = [due EXCEPT ![r] = [scanned |-> {}, claimed |-> {}]] /\ UNCHANGED <<job, ran>>
    BY <1>5 DEF Crash
  <2>2. /\ due' \in [Replicas -> [scanned : SUBSET Jobs, claimed : SUBSET Jobs]]
        /\ \A s \in Replicas \ {r} : due'[s].claimed = due[s].claimed
        /\ due'[r].claimed = {}
    BY <2>1 DEF JobInv
  <2> QED BY <2>1, <2>2 DEF JobInv
<1>6. ASSUME NEW w \in Workers,
             \/ \E r \in Replicas : \/ FetchScans(w, r)
                                    \/ \E t \in Tasks : \E op \in DOMAIN RowOp :
                                           AnswerReads(w, r, t, op)
             \/ FetchLocks(w) \/ FetchReturns(w)
             \/ AnswerLoads(w) \/ AnswerPutsRow(w) \/ AppendHistory(w) \/ AnswerStores(w)
      PROVE  UNCHANGED <<job, due, ran>>
  BY <1>6 DEF FetchScans, AnswerReads, FetchLocks, FetchReturns, AnswerLoads, AnswerPutsRow,
              AppendHistory, AnswerStores, schedulerVars
<1>7. CASE Tick \/ UNCHANGED vars
  BY <1>1, <1>7 DEF Tick, schedulerVars, vars
<1> QED BY <1>1, <1>2, <1>3, <1>4, <1>5, <1>6, <1>7 DEF Next

\* However many replicas scan for due jobs at the same time, and whichever of
\* them die, DueJobs' DELETE gives a job to one of them, and it runs once.
THEOREM JobsRunOnce == Spec => []JobOnce
<1>1. JobInv => JobOnce
  <2> SUFFICES ASSUME JobInv, NEW j \in Jobs
               PROVE  ran[j] + Cardinality({r \in Replicas : j \in due[r].claimed}) <= 1
    BY DEF JobOnce
  <2> DEFINE S == {r \in Replicas : j \in due[r].claimed}
  <2>1. CASE S = {}
    <3>1. Cardinality(S) = 0
      BY <2>1, FS_EmptySet
    <3>2. ran[j] \in 0..1
      BY DEF JobInv
    <3> QED BY <3>1, <3>2
  <2>2. CASE S # {}
    <3>1. PICK r \in S : TRUE
      BY <2>2
    <3>2. S = {r}
      BY <3>1 DEF JobInv
    <3>3. Cardinality(S) = 1
      BY <3>2, FS_Singleton
    <3>4. ran[j] = 0
      BY <3>1 DEF JobInv
    <3> QED BY <3>3, <3>4
  <2> QED BY <2>1, <2>2
<1> QED BY <1>1, JobInit, JobStep, PTL DEF Spec

------------------------------------------------------------------------------
\* History: one replica that appends knows the last sequence number, or finds it
\* in the table.

HistoryInv ==
    /\ writers \subseteq Replicas /\ IsFiniteSet(writers)
    /\ writers = {} => events = 0
    /\ \A r \in Replicas \ writers : cache[r] = -1
    /\ \A r \in Replicas : writers = {r} => DOMAIN hist = 1..events /\ cache[r] \in {-1, events}

\* The history is empty and no replica has a cached sequence number.
LEMMA HistoryInit == Init => HistoryInv
<1> SUFFICES ASSUME Init PROVE HistoryInv
  OBVIOUS
<1>1. writers = {} /\ IsFiniteSet(writers)
  BY FS_EmptySet DEF Init
<1> QED BY <1>1 DEF Init, HistoryInv

\* The next number of the only writer, cached or read from the table, is always free.
LEMMA HistoryStep == TypeInv /\ HistoryInv /\ [Next]_vars => HistoryInv'
<1> SUFFICES ASSUME TypeInv, HistoryInv, [Next]_vars PROVE HistoryInv'
  OBVIOUS
<1>1. CASE UNCHANGED <<hist, cache, writers, events>>
  BY <1>1 DEF HistoryInv
<1>2. ASSUME NEW w \in Workers, AppendHistory(w)
      PROVE  HistoryInv'
  <2> DEFINE r == req[w].rep
             seq == Cached(r) + 1
  <2>1. r \in Replicas
    BY <1>2 DEF AppendHistory, TypeInv
  <2>2. /\ DOMAIN hist' = DOMAIN hist \cup {seq}
        /\ cache' = [cache EXCEPT ![r] = seq]
        /\ events' = events + 1
        /\ writers' = writers \cup {r}
    BY <1>2 DEF AppendHistory
  <2>3. writers' \subseteq Replicas /\ IsFiniteSet(writers')
    BY <2>1, <2>2, FS_AddElement DEF HistoryInv
  <2>4. ASSUME writers \subseteq {r} PROVE DOMAIN hist = 1..events /\ Cached(r) = events
    <3>1. CASE writers = {}
      <4>1. events = 0 /\ DOMAIN hist = {} /\ cache[r] = -1
        <5>1. events = 0 /\ cache[r] = -1
          BY <2>1, <3>1 DEF HistoryInv
        <5>2. DOMAIN hist \subseteq 1..0
          BY <5>1 DEF TypeInv
        <5>3. DOMAIN hist = {} /\ 1..0 = {}
          <6>1. 1..0 = {}
            OBVIOUS
          <6> QED BY <5>2, <6>1, Zenon
        <5> QED BY <5>1, <5>3
      <4>2. 1..0 = {}
        OBVIOUS
      <4> QED BY <4>1, <4>2 DEF Cached, LastSeq
    <3>2. CASE writers = {r}
      <4>1. DOMAIN hist = 1..events /\ cache[r] \in {-1, events} /\ events \in Nat
        BY <2>1, <3>2 DEF HistoryInv, TypeInv
      <4>2. LastSeq = events
        <5>1. CASE events = 0
          BY <4>1, <5>1 DEF LastSeq
        <5>2. CASE events # 0
          <6>1. events \in DOMAIN hist /\ DOMAIN hist \in SUBSET (1..events) /\ DOMAIN hist # {}
            <7>1. events \in 1..events
              BY <4>1, <5>2
            <7> QED BY <4>1, <7>1
          <6>2. Max(DOMAIN hist) \in 1..events /\ events <= Max(DOMAIN hist)
            BY <4>1, <6>1, MaxExists
          <6> QED BY <4>1, <6>1, <6>2 DEF LastSeq
        <5> QED BY <5>1, <5>2
      <4> QED BY <4>1, <4>2 DEF Cached
    <3> QED BY <2>4, <3>1, <3>2
  <2>5. cache \in [Replicas -> Int] /\ events \in Nat
    BY DEF TypeInv
  <2> HIDE DEF seq, r
  <2>6. ASSUME NEW s \in Replicas, writers' = {s}
        PROVE  DOMAIN hist' = 1..events' /\ cache'[s] \in {-1, events'}
    <3>1. s = r /\ writers \subseteq {r}
      BY <2>2, <2>6
    <3>2. DOMAIN hist = 1..events /\ seq = events + 1
      BY <2>4, <3>1 DEF seq
    <3> QED BY <2>1, <2>2, <2>5, <3>1, <3>2
  <2>7. \A s \in Replicas \ writers' : cache'[s] = -1
    BY <2>1, <2>2, <2>5 DEF HistoryInv
  <2> QED BY <2>2, <2>3, <2>6, <2>7 DEF HistoryInv
<1>3. ASSUME NEW r \in Replicas, Crash(r)
      PROVE  HistoryInv'
  <2>1. cache' = [cache EXCEPT ![r] = -1] /\ UNCHANGED <<hist, writers, events>>
    BY <1>3 DEF Crash
  <2> QED BY <2>1 DEF HistoryInv, TypeInv
<1>4. ASSUME NEW w \in Workers,
             \/ \E r \in Replicas : \/ FetchScans(w, r)
                                    \/ \E t \in Tasks : \E op \in DOMAIN RowOp :
                                           AnswerReads(w, r, t, op)
             \/ FetchLocks(w) \/ FetchReturns(w)
             \/ AnswerLoads(w) \/ AnswerPutsRow(w) \/ AnswerStores(w)
      PROVE  UNCHANGED <<hist, cache, writers, events>>
  BY <1>4 DEF FetchScans, AnswerReads, FetchLocks, FetchReturns, AnswerLoads, AnswerPutsRow,
              AnswerStores, applyVars
<1>5. CASE Tick \/ UNCHANGED vars
  BY <1>1, <1>5 DEF Tick, applyVars, vars
<1>6. ASSUME NEW r \in Replicas, DueScans(r) \/ DueClaims(r) \/ DueRuns(r)
      PROVE  UNCHANGED <<hist, cache, writers, events>>
  BY <1>6 DEF DueScans, DueClaims, DueRuns, workerVars, applyVars
<1> QED BY <1>1, <1>2, <1>3, <1>4, <1>5, <1>6 DEF Next

\* As long as one replica appends an instance's history, every event keeps its
\* sequence number: AppendHistory's cache, lost and read again after each
\* restart, never gives out a number twice.
THEOREM HistoryIsComplete == Spec => []HistoryComplete
<1>1. TypeInv /\ HistoryInv => HistoryComplete
  <2> SUFFICES ASSUME TypeInv, HistoryInv, Cardinality(writers) <= 1
               PROVE  DOMAIN hist = 1..events
    BY DEF HistoryComplete
  <2>1. Cardinality(writers) = 0 \/ Cardinality(writers) = 1
    BY FS_CardinalityType DEF HistoryInv
  <2>2. CASE writers = {}
    <3>1. events = 0
      BY <2>2 DEF HistoryInv
    <3>2. DOMAIN hist \subseteq 1..0
      BY <3>1 DEF TypeInv
    <3>3. DOMAIN hist = {} /\ 1..0 = {}
      <4>1. 1..0 = {}
        OBVIOUS
      <4> QED BY <3>2, <4>1
    <3> QED BY <3>1, <3>3
  <2>3. CASE \E r : writers = {r}
    BY <2>3 DEF HistoryInv
  <2> QED BY <2>1, <2>2, <2>3, FS_EmptySet, FS_Singleton DEF HistoryInv
<1> QED BY <1>1, TypeInit, TypeStep, HistoryInit, HistoryStep, PTL DEF Spec

------------------------------------------------------------------------------
\* What each step does to the requests that hold a lock.

\* The requests under a lock are left alone.
LockingKept ==
    \A v \in Workers : req[v].op \in Locking \/ req'[v].op \in Locking => req'[v] = req[v]

\* A step outside the lock: fetching, reading for an answer, the scheduler, time.
Outside ==
    \/ \E w \in Workers :
          \/ \E r \in Replicas : \/ FetchScans(w, r)
                                 \/ \E t \in Tasks : \E op \in DOMAIN RowOp :
                                        AnswerReads(w, r, t, op)
          \/ FetchLocks(w) \/ FetchReturns(w)
    \/ \E r \in Replicas : DueScans(r) \/ DueClaims(r) \/ DueRuns(r)
    \/ Tick
    \/ UNCHANGED vars

\* Fetching, the scheduler and the clock change neither instances nor locks nor the
\* state of a task.
LEMMA OutsideEffect ==
    ASSUME TypeInv, Outside
    PROVE  /\ LockingKept
           /\ UNCHANGED <<inst, lock, applied, excused>>
           /\ \A t \in Tasks : row'[t].st = row[t].st
<1> USE DEF schedulerVars, applyVars, workerVars
<1>1. UNCHANGED <<inst, lock, applied, excused>>
  BY DEF Outside, FetchScans, AnswerReads, FetchLocks, FetchReturns, DueScans, DueClaims, DueRuns,
         Tick, vars
<1>2. ASSUME UNCHANGED <<req, row>>
      PROVE  LockingKept /\ \A t \in Tasks : row'[t].st = row[t].st
  BY <1>2 DEF LockingKept
<1>4. {"none", "fetch", "complete", "fail", "error"} \cap Locking = {}
  BY DEF Locking, WritingRow, RowWritten
<1>5. ASSUME NEW w \in Workers, NEW r \in Replicas, FetchScans(w, r)
      PROVE  LockingKept /\ \A t \in Tasks : row'[t].st = row[t].st
  <2> DEFINE q == [Free EXCEPT !.op = "fetch", !.rep = r, !.now = clock,
                               !.todo = [t \in Scanned(clock) |-> row[t]]]
  <2>1. req' = [req EXCEPT ![w] = q] /\ UNCHANGED row /\ req[w].op = "none"
    BY <1>5 DEF FetchScans, Request
  <2>2. q.op = "fetch"
    BY FreeTyped DEF ReqType
  <2> HIDE DEF q
  <2>3. LockingKept
    BY <1>4, <2>1, <2>2 DEF LockingKept, TypeInv
  <2> QED BY <2>1, <2>3
<1>6. ASSUME NEW w \in Workers, NEW r \in Replicas, NEW t \in Tasks, NEW op \in DOMAIN RowOp,
             AnswerReads(w, r, t, op)
      PROVE  LockingKept /\ \A u \in Tasks : row'[u].st = row[u].st
  <2> DEFINE q == [Free EXCEPT !.op = op, !.rep = r, !.task = t, !.row = row[t]]
  <2>1. req' = [req EXCEPT ![w] = q] /\ UNCHANGED row /\ req[w].op = "none"
    BY <1>6 DEF AnswerReads, Request
  <2>2. q.op = op /\ op \in {"complete", "fail", "error"}
    BY FreeTyped DEF ReqType, RowOp
  <2> HIDE DEF q
  <2>3. LockingKept
    BY <1>4, <2>1, <2>2 DEF LockingKept, TypeInv
  <2> QED BY <2>1, <2>3
<1>7. ASSUME NEW w \in Workers, FetchLocks(w)
      PROVE  LockingKept /\ \A t \in Tasks : row'[t].st = row[t].st
  <2>1. PICK t \in DOMAIN req[w].todo :
           /\ req[w].op = "fetch"
           /\ \/ /\ row[t].st = "pending"
                 /\ row' = [row EXCEPT ![t] = [req[w].todo[t] EXCEPT
                                                  !.by = w, !.until = req[w].now + LockFor]]
              \/ UNCHANGED row
           /\ req' = [req EXCEPT ![w].todo = Restrict(req[w].todo, DOMAIN req[w].todo \ {t})]
    BY <1>7 DEF FetchLocks, MayLock
  <2>2. req[w].todo \in RowMap /\ row \in [Tasks -> Row] /\ req \in [Workers -> ReqType]
    BY DEF TypeInv, ReqType
  <2>3. t \in Tasks /\ req[w].todo[t] \in OpenRow
    BY <2>1, <2>2, RowMapTyped
  <2>4. \A u \in Tasks : row'[u].st = row[u].st
    <3> DEFINE new == [req[w].todo[t] EXCEPT !.by = w, !.until = req[w].now + LockFor]
    <3>1. new.st = "pending"
      BY <2>3 DEF OpenRow, Row
    <3>2. UNCHANGED row \/ (row[t].st = "pending" /\ row' = [row EXCEPT ![t] = new])
      BY <2>1
    <3> HIDE DEF new
    <3> QED BY <2>2, <2>3, <3>1, <3>2
  <2>5. LockingKept
    <3> DEFINE f == Restrict(req[w].todo, DOMAIN req[w].todo \ {t})
    <3>1. req' = [req EXCEPT ![w].todo = f]
      BY <2>1
    <3>2. req[w].op = "fetch"
      BY <2>1
    <3> HIDE DEF f
    <3>3. \A v \in Workers : v # w => req'[v] = req[v]
      BY <3>1, <2>2
    <3>4. req'[w].op = "fetch"
      BY <3>1, <3>2, <2>2 DEF ReqType
    <3> QED BY <1>4, <3>2, <3>3, <3>4 DEF LockingKept
  <2> QED BY <2>4, <2>5
<1>8. ASSUME NEW w \in Workers, FetchReturns(w)
      PROVE  LockingKept /\ \A t \in Tasks : row'[t].st = row[t].st
  <2>1. req' = [req EXCEPT ![w] = Free] /\ UNCHANGED row /\ req[w].op = "fetch"
    BY <1>8 DEF FetchReturns
  <2> QED BY <1>4, <2>1, FreeTyped DEF LockingKept, TypeInv
<1>9. ASSUME NEW r \in Replicas, DueScans(r) \/ DueClaims(r) \/ DueRuns(r)
      PROVE  UNCHANGED <<req, row>>
  BY <1>9 DEF DueScans, DueClaims, DueRuns
<1>10. CASE Tick \/ UNCHANGED vars
  BY <1>2, <1>10 DEF Tick, vars
<1> QED BY <1>1, <1>2, <1>5, <1>6, <1>7, <1>8, <1>9, <1>10 DEF Outside

\* resume takes the lock for a token that waits, or gives up.
LEMMA LoadsEffect ==
    ASSUME TypeInv, NEW w \in Workers, AnswerLoads(w)
    PROVE  /\ UNCHANGED <<row, inst, applied, held, clock>>
           /\ req[w].op \notin Locking /\ req[w].rep \in Replicas /\ req[w].task \in Tasks
           /\ \A v \in Workers \ {w} : req'[v] = req[v]
           /\ \/ /\ req'[w].op \in WritingRow /\ req'[w].rep = req[w].rep
                 /\ req'[w].task = req[w].task /\ req'[w].inst = inst
                 /\ inst[req[w].task] = "wait"
                 /\ lock[req[w].rep] = None
                 /\ lock' = [lock EXCEPT ![req[w].rep] = w]
                 /\ excused' = IF Overlap(req[w].rep) THEN excused \cup {"overlap"} ELSE excused
              \/ req'[w].op \notin Locking /\ UNCHANGED <<lock, excused>>
<1>1. /\ UNCHANGED <<row, inst, applied, held, clock>>
      /\ req[w].op \in {"complete", "fail", "error"} /\ lock[req[w].rep] = None
  BY DEF AnswerLoads, RowOp
<1>2. req[w].op \notin Locking /\ req[w].rep \in Replicas /\ req[w].task \in Tasks
  BY <1>1 DEF Locking, WritingRow, RowWritten, TypeInv, Answering
<1>3. req \in [Workers -> ReqType]
  BY DEF TypeInv
<1>4. CASE Waiting(inst, req[w].task)
  <2>1. /\ lock' = [lock EXCEPT ![req[w].rep] = w]
        /\ req' = [req EXCEPT ![w].op = RowOp[req[w].op], ![w].inst = inst]
        /\ excused' = IF Overlap(req[w].rep) THEN excused \cup {"overlap"} ELSE excused
    BY <1>4 DEF AnswerLoads
  <2>2. RowOp[req[w].op] \in WritingRow
    BY <1>1 DEF RowOp, WritingRow
  <2> DEFINE op == RowOp[req[w].op]
  <2>3. req' = [req EXCEPT ![w].op = op, ![w].inst = inst]
    BY <2>1
  <2> HIDE DEF op
  <2>4. \A v \in Workers \ {w} : req'[v] = req[v]
    BY <1>3, <2>3
  <2>5. /\ req'[w].op = op /\ req'[w].rep = req[w].rep
        /\ req'[w].task = req[w].task /\ req'[w].inst = inst
    BY <1>3, <2>3 DEF ReqType
  <2> QED BY <1>1, <1>2, <1>4, <2>1, <2>2, <2>4, <2>5 DEF Waiting, op
<1>5. CASE ~Waiting(inst, req[w].task)
  <2>1. req' = [req EXCEPT ![w] = Free] /\ UNCHANGED <<lock, excused>>
    BY <1>5 DEF AnswerLoads
  <2>2. Free.op \notin Locking
    BY FreeTyped DEF Locking, WritingRow, RowWritten
  <2> QED BY <1>1, <1>2, <1>3, <2>1, <2>2
<1> QED BY <1>4, <1>5

\* PutExternalTask writes the answered row, and the token's next state waits in
\* the request for PutInstance.
LEMMA PutsEffect ==
    ASSUME TypeInv, NEW w \in Workers, AnswerPutsRow(w)
    PROVE  /\ UNCHANGED <<inst, applied, lock, clock>>
           /\ req[w].op \in WritingRow /\ req[w].rep \in Replicas /\ req[w].task \in Tasks
           /\ \A v \in Workers \ {w} : req'[v] = req[v]
           /\ req'[w].op \in RowWritten /\ req'[w].rep = req[w].rep /\ req'[w].task = req[w].task
           /\ \A t \in Tasks : t # req[w].task => /\ req'[w].inst[t] = req[w].inst[t]
                                                  /\ row'[t] = row[t]
           /\ row'[req[w].task].st = "pending" <=> req'[w].inst[req[w].task] = "wait"
           /\ \A v \in Workers, t \in Tasks : held'[v][t] \in {0, held[v][t]}
           /\ held'[w][req[w].task] = 0
           /\ excused' = IF row[req[w].task].by # w THEN excused \cup {"late"} ELSE excused
<1> DEFINE q == req[w]
           a == Answered(q)
           op == IF a[2] = "wait" THEN "store" ELSE "emit"
<1>1. /\ q.op \in WritingRow
      /\ row' = [row EXCEPT ![q.task] = a[1]]
      /\ req' = [req EXCEPT ![w].op = op, ![w].inst = [@ EXCEPT ![q.task] = a[2]]]
      /\ held' = [held EXCEPT ![w][q.task] = 0]
      /\ excused' = IF row[req[w].task].by # w THEN excused \cup {"late"} ELSE excused
      /\ UNCHANGED <<inst, applied, lock, clock>>
  BY DEF AnswerPutsRow, WritingRow, applyVars
<1>2. /\ req \in [Workers -> ReqType] /\ q.task \in Tasks /\ q.rep \in Replicas
      /\ q.row \in OpenRow /\ q.inst \in [Tasks -> TokenState]
  BY <1>1 DEF TypeInv, ReqType, Answering, Locking, WritingRow
<1>3. /\ a[2] \in TokenState
      /\ a[1].st = "pending" <=> a[2] = "wait"
  BY <1>1, <1>2, AnsweredEffect
<1>4. op \in RowWritten
  BY DEF RowWritten
<1>5. row \in [Tasks -> Row] /\ held \in [Workers -> [Tasks -> Nat]]
  BY DEF TypeInv
<1> HIDE DEF a, op
<1>6. \A v \in Workers \ {w} : req'[v] = req[v]
  BY <1>1, <1>2
<1>7. /\ req'[w].op = op /\ req'[w].rep = q.rep /\ req'[w].task = q.task
      /\ req'[w].inst = [q.inst EXCEPT ![q.task] = a[2]]
  BY <1>1, <1>2 DEF ReqType
<1>8. /\ \A t \in Tasks : t # q.task => req'[w].inst[t] = q.inst[t]
      /\ req'[w].inst[q.task] = a[2]
  BY <1>2, <1>7
<1>9. /\ \A t \in Tasks : t # q.task => row'[t] = row[t]
      /\ row'[q.task] = a[1]
  BY <1>1, <1>2, <1>5
<1>10. /\ \A v \in Workers, t \in Tasks : held'[v][t] \in {0, held[v][t]}
       /\ held'[w][q.task] = 0
  BY <1>1, <1>2, <1>5
<1> QED BY <1>1, <1>2, <1>3, <1>4, <1>6, <1>7, <1>8, <1>9, <1>10

\* AppendHistory changes no row but the history's.
LEMMA AppendsEffect ==
    ASSUME TypeInv, NEW w \in Workers, AppendHistory(w)
    PROVE  /\ UNCHANGED <<row, inst, lock, applied, held, clock, excused>>
           /\ \A v \in Workers \ {w} : req'[v] = req[v]
           /\ req[w].op \in RowWritten /\ req'[w].op \in RowWritten
           /\ req'[w].rep = req[w].rep /\ req'[w].task = req[w].task /\ req'[w].inst = req[w].inst
<1>1. /\ UNCHANGED <<row, inst, lock, applied, held, clock, excused>>
      /\ req[w].op \in RowWritten
      /\ req' = [req EXCEPT ![w].op = "store"]
  BY DEF AppendHistory, RowWritten
<1>2. req \in [Workers -> ReqType]
  BY DEF TypeInv
<1>3. \A v \in Workers \ {w} : req'[v] = req[v]
  BY <1>1, <1>2
<1>4. /\ req'[w].op = "store"
      /\ req'[w].rep = req[w].rep /\ req'[w].task = req[w].task /\ req'[w].inst = req[w].inst
  BY <1>1, <1>2 DEF ReqType
<1> QED BY <1>1, <1>3, <1>4 DEF RowWritten

\* PutInstance ends the request and gives the lock back.
LEMMA StoresEffect ==
    ASSUME TypeInv, NEW w \in Workers, AnswerStores(w)
    PROVE  /\ UNCHANGED <<row, held, clock, excused>>
           /\ req[w].op \in RowWritten /\ req[w].rep \in Replicas /\ req[w].task \in Tasks
           /\ \A v \in Workers \ {w} : req'[v] = req[v]
           /\ req'[w].op \notin Locking
           /\ inst' = req[w].inst /\ inst' \in [Tasks -> TokenState]
           /\ lock' = [lock EXCEPT ![req[w].rep] = None]
           /\ \A t \in Tasks : t # req[w].task => applied'[t] = applied[t]
           /\ applied'[req[w].task] = IF inst'[req[w].task] = "wait" THEN applied[req[w].task]
                                      ELSE applied[req[w].task] + 1
<1>1. /\ UNCHANGED <<row, held, clock, excused>>
      /\ req[w].op = "store" /\ inst' = req[w].inst
      /\ applied' = [applied EXCEPT ![req[w].task] =
                         IF req[w].inst[req[w].task] = "wait" THEN @ ELSE @ + 1]
      /\ lock' = [lock EXCEPT ![req[w].rep] = None]
      /\ req' = [req EXCEPT ![w] = Free]
  BY DEF AnswerStores
<1>2. /\ req \in [Workers -> ReqType] /\ req[w].rep \in Replicas /\ req[w].task \in Tasks
      /\ req[w].inst \in [Tasks -> TokenState] /\ applied \in [Tasks -> Nat]
  BY <1>1 DEF TypeInv, ReqType, Answering, Locking, RowWritten
<1>3. Free.op \notin Locking
  BY FreeTyped DEF Locking, WritingRow, RowWritten
<1>4. \A v \in Workers \ {w} : req'[v] = req[v]
  BY <1>1, <1>2
<1>5. req'[w] = Free
  BY <1>1, <1>2
<1> DEFINE n == IF req[w].inst[req[w].task] = "wait" THEN applied[req[w].task]
                ELSE applied[req[w].task] + 1
<1>6. applied' = [applied EXCEPT ![req[w].task] = n]
  BY <1>1
<1>7. /\ \A t \in Tasks : t # req[w].task => applied'[t] = applied[t]
      /\ applied'[req[w].task] = n
  <2> HIDE DEF n
  <2> QED BY <1>2, <1>6
<1>8. req[w].op \in RowWritten
  BY <1>1 DEF RowWritten
<1> QED BY <1>1, <1>2, <1>3, <1>4, <1>5, <1>7, <1>8

\* A replica's death ends the requests it works on.
LEMMA CrashEffect ==
    ASSUME TypeInv, NEW r \in Replicas, Crash(r)
    PROVE  /\ UNCHANGED <<row, inst, held, applied, clock>>
           /\ \A v \in Workers : IF req[v].rep = r THEN req'[v].op \notin Locking
                                 ELSE req'[v] = req[v]
           /\ excused' = IF lock[r] # None THEN excused \cup {"crash"} ELSE excused
           /\ lock' = [lock EXCEPT ![r] = None]
BY FreeTyped DEF Crash, Locking, WritingRow, RowWritten

\* Every step is one of those, a step of an answer, or a replica's death.
LEMMA StepKinds ==
    ASSUME [Next]_vars
    PROVE  \/ Outside
           \/ \E w \in Workers : AnswerLoads(w) \/ AnswerPutsRow(w) \/ AppendHistory(w) \/ AnswerStores(w)
           \/ \E r \in Replicas : Crash(r)
BY DEF Next, Outside

------------------------------------------------------------------------------
\* Locks: a replica's lock is held by the one request that writes through it.

LockInv ==
    /\ \A r \in Replicas : lock[r] # None => req[lock[r]].op \in Locking /\ req[lock[r]].rep = r
    /\ \A w \in Workers : req[w].op \in Locking => lock[req[w].rep] = w
    /\ "overlap" \notin excused =>
          \A r, s \in Replicas : lock[r] # None /\ lock[s] # None => r = s

\* Tokens: an answer under the lock changes the token that still waits for it.
TokenInv ==
    "overlap" \notin excused =>
        /\ \A t \in Tasks : applied[t] = IF inst[t] = "wait" THEN 0 ELSE 1
        /\ \A w \in Workers : req[w].op \in Locking =>
              /\ inst[req[w].task] = "wait"
              /\ \A t \in Tasks : t # req[w].task => req[w].inst[t] = inst[t]

\* Rows: the row that an answer has written says what the instance will say.
RowInv ==
    excused \cap {"overlap", "crash"} = {} =>
        /\ RowMatchesToken
        /\ \A w \in Workers : req[w].op \in RowWritten =>
              (row[req[w].task].st = "pending" <=> req[w].inst[req[w].task] = "wait")

\* Workers: a lock that runs is the one in the row, with its end.
HeldInv ==
    excused = {} =>
        \A w \in Workers, t \in Tasks :
            held[w][t] > clock /\ row[t].st = "pending" =>
                row[t].by = w /\ row[t].until = held[w][t]

\* Nobody answers and all tasks are pending at first.
LEMMA AnswerInit == Init => LockInv /\ TokenInv /\ RowInv /\ HeldInv
<1> SUFFICES ASSUME Init PROVE LockInv /\ TokenInv /\ RowInv /\ HeldInv
  OBVIOUS
<1>1. \A w \in Workers : req[w].op \notin Locking
  BY FreeTyped DEF Init, Locking, WritingRow, RowWritten
<1>2. \A t \in Tasks : row[t].st = "pending" /\ inst[t] = "wait" /\ applied[t] = 0
  BY DEF Init
<1>3. LockInv
  BY <1>1 DEF Init, LockInv
<1>4. TokenInv
  BY <1>1, <1>2 DEF TokenInv
<1>5. RowInv
  BY <1>1, <1>2 DEF RowInv, RowMatchesToken, Locking
<1>6. HeldInv
  BY DEF Init, HeldInv
<1> QED BY <1>3, <1>4, <1>5, <1>6

\* A replica's lock passes from one request to another only when it is free.
LEMMA LockStep == TypeInv /\ LockInv /\ [Next]_vars => LockInv'
<1> SUFFICES ASSUME TypeInv, LockInv, [Next]_vars PROVE LockInv'
  OBVIOUS
<1> USE SharedStoreAssumption
<1> USE DEF Locking
<1>1. CASE Outside
  BY <1>1, OutsideEffect DEF LockInv, LockingKept, TypeInv
<1>2. ASSUME NEW w \in Workers, AnswerLoads(w) PROVE LockInv'
  <2>1. /\ req[w].op \notin Locking /\ req[w].rep \in Replicas
        /\ \A v \in Workers \ {w} : req'[v] = req[v]
    BY <1>2, LoadsEffect
  <2>2. CASE req'[w].op \notin Locking /\ UNCHANGED <<lock, excused>>
    BY <2>1, <2>2 DEF LockInv, TypeInv
  <2>3. CASE /\ req'[w].op \in WritingRow /\ req'[w].rep = req[w].rep
             /\ lock[req[w].rep] = None
             /\ lock' = [lock EXCEPT ![req[w].rep] = w]
             /\ excused' = IF Overlap(req[w].rep) THEN excused \cup {"overlap"} ELSE excused
    <3>1. \A r \in Replicas : lock'[r] = IF r = req[w].rep THEN w ELSE lock[r]
      BY <2>1, <2>3 DEF TypeInv
    <3>2. \A r \in Replicas : lock'[r] # None => req'[lock'[r]].op \in Locking /\ req'[lock'[r]].rep = r
      BY <2>1, <2>3, <3>1 DEF LockInv, TypeInv
    <3>3. \A v \in Workers : req'[v].op \in Locking => lock'[req'[v].rep] = v
      <4> SUFFICES ASSUME NEW v \in Workers, req'[v].op \in Locking PROVE lock'[req'[v].rep] = v
        OBVIOUS
      <4>1. CASE v = w
        BY <2>1, <2>3, <3>1, <4>1
      <4>2. CASE v # w
        <5>1. req'[v] = req[v] /\ lock[req[v].rep] = v /\ req[v].rep \in Replicas
          BY <2>1, <4>2 DEF LockInv, TypeInv, WritingRow, RowWritten
        <5> QED BY <2>3, <3>1, <5>1
      <4> QED BY <4>1, <4>2
    <3>4. "overlap" \notin excused' =>
              \A r, s \in Replicas : lock'[r] # None /\ lock'[s] # None => r = s
      BY <2>1, <2>3, <3>1 DEF LockInv, Overlap
    <3> QED BY <3>2, <3>3, <3>4 DEF LockInv
  <2> QED BY <1>2, <2>2, <2>3, LoadsEffect
<1>3. ASSUME NEW w \in Workers, AnswerPutsRow(w) PROVE LockInv'
  <2>1. /\ \A v \in Workers : req'[v].rep = req[v].rep /\ (req'[v].op \in Locking <=> req[v].op \in Locking)
        /\ UNCHANGED lock /\ ("overlap" \in excused' <=> "overlap" \in excused)
    BY <1>3, PutsEffect
  <2> QED BY <2>1 DEF LockInv, TypeInv
<1>4. ASSUME NEW w \in Workers, AppendHistory(w) PROVE LockInv'
  <2>1. /\ \A v \in Workers : req'[v].rep = req[v].rep /\ (req'[v].op \in Locking <=> req[v].op \in Locking)
        /\ UNCHANGED lock /\ ("overlap" \in excused' <=> "overlap" \in excused)
    BY <1>4, AppendsEffect
  <2> QED BY <2>1 DEF LockInv, TypeInv
<1>5. ASSUME NEW w \in Workers, AnswerStores(w) PROVE LockInv'
  <2>1. /\ \A v \in Workers : IF v = w THEN req'[v].op \notin Locking ELSE req'[v] = req[v]
        /\ \A r \in Replicas : lock'[r] = IF r = req[w].rep THEN None ELSE lock[r]
        /\ UNCHANGED excused
        /\ lock[req[w].rep] = w
    BY <1>5, StoresEffect DEF TypeInv, LockInv
  <2>2. \A r \in Replicas : lock'[r] # None => req'[lock'[r]].op \in Locking /\ req'[lock'[r]].rep = r
    BY <2>1 DEF LockInv, TypeInv
  <2>3. \A v \in Workers : req'[v].op \in Locking => lock'[req'[v].rep] = v
    BY <2>1 DEF LockInv, TypeInv, WritingRow, RowWritten
  <2> QED BY <2>1, <2>2, <2>3 DEF LockInv
<1>6. ASSUME NEW r \in Replicas, Crash(r) PROVE LockInv'
  <2>1. /\ \A v \in Workers : IF req[v].rep = r THEN req'[v].op \notin Locking ELSE req'[v] = req[v]
        /\ \A s \in Replicas : lock'[s] = IF s = r THEN None ELSE lock[s]
        /\ "overlap" \in excused' <=> "overlap" \in excused
    BY <1>6, CrashEffect DEF TypeInv
  <2>2. \A s \in Replicas : lock'[s] # None => req'[lock'[s]].op \in Locking /\ req'[lock'[s]].rep = s
    BY <2>1 DEF LockInv, TypeInv
  <2>3. \A v \in Workers : req'[v].op \in Locking => lock'[req'[v].rep] = v
    BY <2>1 DEF LockInv, TypeInv, WritingRow, RowWritten
  <2> QED BY <2>1, <2>2, <2>3 DEF LockInv
<1> QED BY <1>1, <1>2, <1>3, <1>4, <1>5, <1>6, StepKinds

\* At most one request is under a lock unless replicas overlap.
LEMMA OneLocking ==
    ASSUME TypeInv, LockInv, "overlap" \notin excused,
           NEW v \in Workers, NEW w \in Workers, req[v].op \in Locking, req[w].op \in Locking
    PROVE  v = w
<1>1. /\ lock[req[v].rep] = v /\ lock[req[w].rep] = w
      /\ req[v].rep \in Replicas /\ req[w].rep \in Replicas
  BY DEF LockInv, TypeInv, Locking, WritingRow, RowWritten
<1> QED BY <1>1, SharedStoreAssumption DEF LockInv

\* A token that moved on has its answer counted, and only once.
LEMMA TokenStep == TypeInv /\ LockInv /\ TokenInv /\ [Next]_vars => TokenInv'
<1> SUFFICES ASSUME TypeInv, LockInv, TokenInv, [Next]_vars, "overlap" \notin excused'
             PROVE  TokenInv'
  BY DEF TokenInv
<1> USE SharedStoreAssumption
<1> USE DEF Locking
<1>1. CASE Outside
  BY <1>1, OutsideEffect DEF TokenInv, LockingKept
<1>2. ASSUME NEW w \in Workers, AnswerLoads(w) PROVE TokenInv'
  BY <1>2, LoadsEffect DEF TokenInv
<1>3. ASSUME NEW w \in Workers, AnswerPutsRow(w) PROVE TokenInv'
  BY <1>3, PutsEffect DEF TokenInv
<1>4. ASSUME NEW w \in Workers, AppendHistory(w) PROVE TokenInv'
  BY <1>4, AppendsEffect DEF TokenInv
<1>5. ASSUME NEW w \in Workers, AnswerStores(w) PROVE TokenInv'
  <2>1. \A v \in Workers : req'[v].op \notin Locking
    BY <1>5, StoresEffect, OneLocking
  <2> QED BY <1>5, <2>1, StoresEffect DEF TokenInv
<1>6. ASSUME NEW r \in Replicas, Crash(r) PROVE TokenInv'
  BY <1>6, CrashEffect DEF TokenInv
<1> QED BY <1>1, <1>2, <1>3, <1>4, <1>5, <1>6, StepKinds

\* A row and its token differ only while an answer stands between the two writes.
LEMMA RowStep == TypeInv /\ LockInv /\ TokenInv /\ RowInv /\ [Next]_vars => RowInv'
<1> SUFFICES ASSUME TypeInv, LockInv, TokenInv, RowInv, [Next]_vars,
                    "overlap" \notin excused', "crash" \notin excused'
             PROVE  RowInv'
  BY DEF RowInv
<1> USE DEF RowInv, RowMatchesToken, Locking
\* What RowInv says of a state, without its condition.
<1> DEFINE Agree(t) == \/ row[t].st = "pending" <=> inst[t] = "wait"
                       \/ \E w \in Workers : req[w].op \in RowWritten /\ req[w].task = t
           Will(w) == req[w].op \in RowWritten =>
                          (row[req[w].task].st = "pending" <=> req[w].inst[req[w].task] = "wait")
<1>0. ASSUME "overlap" \notin excused, "crash" \notin excused
      PROVE  (\A t \in Tasks : Agree(t)) /\ (\A w \in Workers : Will(w))
  BY <1>0 DEF RowWritten
<1>q. ASSUME \A t \in Tasks : Agree(t)', \A w \in Workers : Will(w)' PROVE RowInv'
  BY <1>q DEF RowWritten
<1> HIDE DEF RowInv, RowMatchesToken
<1>1. CASE Outside
  <2>1. (\A t \in Tasks : Agree(t)) /\ (\A w \in Workers : Will(w))
    BY <1>0, <1>1, OutsideEffect
  <2>2. \A w \in Workers : req[w].op \in RowWritten => req[w].task \in Tasks
    BY DEF TypeInv, Answering
  <2> QED BY <1>1, <1>q, <2>1, <2>2, OutsideEffect DEF LockingKept
<1>2. ASSUME NEW w \in Workers, AnswerLoads(w) PROVE RowInv'
  <2>1. (\A t \in Tasks : Agree(t)) /\ (\A v \in Workers : Will(v))
    BY <1>0, <1>2, LoadsEffect
  <2>2. \A v \in Workers : req[v].op \in RowWritten \/ req'[v].op \in RowWritten => req'[v] = req[v]
    BY <1>2, LoadsEffect DEF WritingRow, RowWritten
  <2> QED BY <1>2, <1>q, <2>1, <2>2, LoadsEffect
<1>3. ASSUME NEW w \in Workers, AnswerPutsRow(w) PROVE RowInv'
  <2>1. (\A t \in Tasks : Agree(t)) /\ (\A v \in Workers : Will(v)) /\ "overlap" \notin excused
    BY <1>0, <1>3, PutsEffect
  <2>2. \A v \in Workers \ {w} : req[v].op \notin Locking /\ req'[v] = req[v]
    BY <1>3, <2>1, PutsEffect, OneLocking
  <2>3. ASSUME NEW t \in Tasks PROVE Agree(t)'
    BY <1>3, <2>1, <2>2, PutsEffect DEF WritingRow, RowWritten
  <2>4. ASSUME NEW v \in Workers PROVE Will(v)'
    BY <1>3, <2>2, PutsEffect
  <2> QED BY <1>q, <2>3, <2>4
<1>4. ASSUME NEW w \in Workers, AppendHistory(w) PROVE RowInv'
  <2>1. (\A t \in Tasks : Agree(t)) /\ (\A v \in Workers : Will(v))
    BY <1>0, <1>4, AppendsEffect
  <2> QED BY <1>4, <1>q, <2>1, AppendsEffect
<1>5. ASSUME NEW w \in Workers, AnswerStores(w) PROVE RowInv'
  <2>1. (\A t \in Tasks : Agree(t)) /\ (\A v \in Workers : Will(v)) /\ "overlap" \notin excused
    BY <1>0, <1>5, StoresEffect
  <2>2. \A v \in Workers : req'[v].op \notin Locking /\ (v # w => req[v].op \notin Locking)
    BY <1>5, <2>1, StoresEffect, OneLocking
  <2>3. ASSUME NEW t \in Tasks PROVE Agree(t)'
    BY <1>5, <2>1, <2>2, StoresEffect DEF TokenInv
  <2> QED BY <1>q, <2>2, <2>3
<1>6. ASSUME NEW r \in Replicas, Crash(r) PROVE RowInv'
  <2>1. (\A t \in Tasks : Agree(t)) /\ (\A v \in Workers : Will(v)) /\ lock[r] = None
    BY <1>0, <1>6, CrashEffect
  <2>2. \A v \in Workers : req[v].op \in RowWritten \/ req'[v].op \in RowWritten => req'[v] = req[v]
    BY <1>6, <2>1, CrashEffect, SharedStoreAssumption DEF LockInv, TypeInv
  <2> QED BY <1>6, <1>q, <2>1, <2>2, CrashEffect
<1> QED BY <1>1, <1>2, <1>3, <1>4, <1>5, <1>6, StepKinds

\* A running lock is not overwritten: claimPending's guard, an answer and a tick are
\* the only changes to a row.
LEMMA HeldStep == TypeInv /\ LockInv /\ TokenInv /\ RowInv /\ HeldInv /\ [Next]_vars => HeldInv'
<1> SUFFICES ASSUME TypeInv, LockInv, TokenInv, RowInv, HeldInv, [Next]_vars, excused' = {},
                    NEW w \in Workers, NEW t \in Tasks, held'[w][t] > clock',
                    row'[t].st = "pending"
             PROVE  row'[t].by = w /\ row'[t].until = held'[w][t]
  BY DEF HeldInv
<1> USE SharedStoreAssumption
<1>0. ASSUME excused = {}, held[w][t] > clock, row[t].st = "pending"
      PROVE  row[t].by = w /\ row[t].until = held[w][t]
  BY <1>0 DEF HeldInv
<1>t. /\ clock \in Nat /\ held \in [Workers -> [Tasks -> Nat]] /\ row \in [Tasks -> Row]
      /\ req \in [Workers -> ReqType]
  BY DEF TypeInv
<1>1. CASE UNCHANGED <<row, held>> /\ excused = {} /\ clock' \in {clock, clock + 1}
  BY <1>0, <1>1, <1>t
<1>2. ASSUME NEW v \in Workers, FetchLocks(v)
      PROVE  row'[t].by = w /\ row'[t].until = held'[w][t]
  <2> DEFINE until == req[v].now + LockFor
  <2>1. PICK u \in DOMAIN req[v].todo :
           \/ /\ MayLock(u, req[v].now)
              /\ row' = [row EXCEPT ![u] = [req[v].todo[u] EXCEPT !.by = v, !.until = until]]
              /\ held' = [held EXCEPT ![v][u] = until]
           \/ UNCHANGED <<row, held>>
    BY <1>2 DEF FetchLocks
  <2>2. UNCHANGED <<clock, excused>>
    BY <1>2 DEF FetchLocks
  <2>3. req[v].todo \in RowMap /\ req[v].now \in Nat /\ req[v].now <= clock
    BY DEF TypeInv, ReqType
  <2>4. u \in Tasks /\ req[v].todo[u] \in OpenRow
    BY <2>1, <2>3, RowMapTyped
  <2>5. CASE UNCHANGED <<row, held>>
    BY <1>1, <2>2, <2>5
  <2>6. CASE /\ MayLock(u, req[v].now)
             /\ row' = [row EXCEPT ![u] = [req[v].todo[u] EXCEPT !.by = v, !.until = until]]
             /\ held' = [held EXCEPT ![v][u] = until]
    <3> DEFINE new == [req[v].todo[u] EXCEPT !.by = v, !.until = until]
    <3>1. new.by = v /\ new.until = until /\ row' = [row EXCEPT ![u] = new]
      BY <2>4, <2>6 DEF OpenRow, Row
    <3> HIDE DEF new, until
    <3>2. CASE t # u
      <4>1. row'[t] = row[t] /\ held'[w][t] = held[w][t]
        BY <1>t, <2>6, <3>1, <3>2
      <4> QED BY <1>0, <2>2, <4>1
    <3>3. CASE t = u
      <4>1. row'[t] = new
        BY <1>t, <2>4, <3>1, <3>3
      <4>2. CASE w = v
        <5>1. held'[w][t] = until
          BY <1>t, <2>4, <2>6, <3>3, <4>2
        <5> QED BY <3>1, <4>1, <4>2, <5>1
      <4>3. CASE w # v
        <5>1. held'[w][t] = held[w][t]
          BY <1>t, <2>4, <2>6, <3>3, <4>3
        <5>2. row[t].st = "pending" /\ row[t].until <= req[v].now /\ row[t].until \in Nat
          BY <1>t, <2>6, <3>3 DEF MayLock, Row
        <5>3. row[t].until = held[w][t] /\ held[w][t] > clock
          BY <1>0, <2>2, <5>1, <5>2
        <5> QED BY <1>t, <2>3, <5>2, <5>3
      <4> QED BY <4>2, <4>3
    <3> QED BY <3>2, <3>3
  <2> QED BY <2>1, <2>5, <2>6
<1>3. ASSUME NEW v \in Workers, AnswerPutsRow(v)
      PROVE  row'[t].by = w /\ row'[t].until = held'[w][t]
  <2> DEFINE u == req[v].task
  <2>1. /\ excused = {} /\ row[u].by = v /\ u \in Tasks /\ req[v].op \in WritingRow
        /\ UNCHANGED clock
        /\ t # u => row'[t] = row[t]
        /\ held'[w][t] = held[w][t] /\ (w = v => t # u)
    <3>1. excused = {} /\ row[u].by = v
      BY <1>3, PutsEffect
    <3>2. /\ u \in Tasks /\ req[v].op \in WritingRow /\ UNCHANGED clock
          /\ t # u => row'[t] = row[t]
          /\ held'[w][t] \in {0, held[w][t]} /\ held'[v][u] = 0
      BY <1>3, PutsEffect
    <3>3. held'[w][t] # 0
      BY <1>t, <3>2
    <3> QED BY <3>1, <3>2, <3>3
  <2>2. CASE t # u
    BY <1>0, <2>1, <2>2
  <2>3. CASE t = u
    <3>1. inst[u] = "wait"
      BY <2>1 DEF TokenInv, Locking
    <3>2. \A x \in Workers : req[x].op \in RowWritten => x = v
      BY <2>1, OneLocking DEF Locking
    <3>3. req[v].op \notin RowWritten
      BY <2>1 DEF WritingRow, RowWritten
    <3>4. row[u].st = "pending"
      BY <2>1, <3>1, <3>2, <3>3 DEF RowInv, RowMatchesToken, RowWritten
    <3>5. row[t].by = w
      BY <1>0, <2>1, <2>3, <3>4
    <3> QED BY <2>1, <2>3, <3>5
  <2> QED BY <2>2, <2>3
<1>4. CASE \E v \in Workers : AnswerLoads(v) \/ AppendHistory(v) \/ AnswerStores(v)
  <2>1. PICK v \in Workers : AnswerLoads(v) \/ AppendHistory(v) \/ AnswerStores(v)
    BY <1>4
  <2>2. UNCHANGED <<row, held, clock>> /\ excused \subseteq excused'
    BY <2>1, LoadsEffect, AppendsEffect, StoresEffect
  <2> QED BY <1>1, <2>2
<1>5. ASSUME NEW r \in Replicas, Crash(r)
      PROVE  row'[t].by = w /\ row'[t].until = held'[w][t]
  <2>1. UNCHANGED <<row, held, clock>> /\ excused \subseteq excused'
    BY <1>5, CrashEffect
  <2> QED BY <1>1, <2>1
<1>6. CASE \/ \E v \in Workers : \/ \E r \in Replicas : \/ FetchScans(v, r)
                                                        \/ \E x \in Tasks : \E op \in DOMAIN RowOp :
                                                               AnswerReads(v, r, x, op)
                                 \/ FetchReturns(v)
           \/ \E r \in Replicas : DueScans(r) \/ DueClaims(r) \/ DueRuns(r)
           \/ Tick
           \/ UNCHANGED vars
  <2>1. UNCHANGED <<row, held, excused>> /\ clock' \in {clock, clock + 1}
    BY <1>6 DEF FetchScans, AnswerReads, FetchReturns, DueScans, DueClaims, DueRuns, Tick, vars,
                workerVars
  <2> QED BY <1>1, <2>1
<1> QED BY <1>2, <1>3, <1>4, <1>5, <1>6, StepKinds DEF Outside

\* The inductive invariant of the answers.
AnswerInv == TypeInv /\ LockInv /\ TokenInv /\ RowInv /\ HeldInv

\* Locks, tokens, rows and the workers' beliefs stay consistent, whatever answers
\* race and whichever replicas die: the strengthening of the three theorems below.
THEOREM AnswersAreSafe == Spec => []AnswerInv
<1>1. Init => AnswerInv
  BY TypeInit, AnswerInit DEF AnswerInv
<1>2. AnswerInv /\ [Next]_vars => AnswerInv'
  BY TypeStep, LockStep, TokenStep, RowStep, HeldStep DEF AnswerInv
<1> QED BY <1>1, <1>2, PTL DEF Spec

\* However many workers answer for a task, early or late and at whichever
\* replicas, its token moves on once, unless two replicas had the instance
\* loaded at the same time.
THEOREM TokensMoveOnce == Spec => []AppliedOnce
<1>1. AnswerInv => AppliedOnce
  BY DEF AnswerInv, TokenInv, AppliedOnce
<1> QED BY <1>1, AnswersAreSafe, PTL

\* Between an answer's write of the row and its write of the instance, and
\* only there, a task's row and its token may differ.
THEOREM RowsMatchTokens == Spec => []RowMatchesToken
<1>1. AnswerInv => RowMatchesToken
  BY DEF AnswerInv, RowInv, RowMatchesToken
<1> QED BY <1>1, AnswersAreSafe, PTL

\* claimPending's guard keeps a running lock, whatever scans were made before:
\* the row names the worker that believes to hold it.
THEOREM LocksAreHonoured == Spec => []LockHonoured
<1>1. AnswerInv => LockHonoured
  BY DEF AnswerInv, HeldInv, LockHonoured
<1> QED BY <1>1, AnswersAreSafe, PTL
=============================================================================
