----------------------------- MODULE SharedStore ------------------------------
(***************************************************************************)
(* store/sqlstore.go: engine replicas on one database, and the workers     *)
(* that fetch external tasks and agent jobs from them and report back      *)
(* (engine/engine.go).                                                     *)
(*                                                                         *)
(* A statement is atomic, a store operation is several.  Fetching scans    *)
(* the pending rows and then locks them one by one; claiming due jobs      *)
(* scans them and then deletes them one by one.  An answer is checked      *)
(* against the row that was read, waits for the replica's own instance     *)
(* lock, loads the instance, writes the row that was read back, appends    *)
(* history under a cached sequence number, and stores the instance.        *)
(* Replicas share rows and nothing else.                                   *)
(***************************************************************************)
EXTENDS Integers, FiniteSets, FiniteSetsExt, Functions

CONSTANTS
    Replicas,       \* engines on the database
    Workers,        \* external workers, one request each at a time
    Tasks,          \* external tasks (or agent jobs) of one instance
    Jobs,           \* due jobs
    None,           \* no worker
    LockFor,        \* how long a fetched task is locked
    Limit,          \* how many tasks one fetch may lock
    Retries,        \* attempts before an incident
    MaxTime,        \* bound: the clock
    MaxRequests,    \* bound: requests of workers
    MaxCrashes      \* bound: deaths of a replica

ASSUME SharedStoreAssumption ==
    /\ Tasks \subseteq Nat /\ Limit \in Nat \ {0}
    /\ LockFor \in Nat \ {0} /\ Retries \in Nat \ {0}
    /\ MaxTime \in Nat \ {0} /\ MaxRequests \in Nat /\ MaxCrashes \in Nat
    /\ None \notin Workers

VARIABLES
    clock,      \* time
    row,        \* the tasks' rows
    inst,       \* the instance's row: what each task's token does
    hist,       \* the history rows, by sequence number
    cache,      \* per replica, histSeq; -1 when it is not cached
    job,        \* the jobs' rows
    due,        \* per replica, the jobs scanned, and those claimed
    req,        \* per worker, its request
    lock,       \* per replica, who holds the instance lock
    requests,   \* requests so far
    crashes,    \* deaths so far
    held,       \* what the workers believe: task and end of their lock
    ran,        \* ghost: how often each job was claimed
    applied,    \* ghost: how often each task's token was moved on
    writers,    \* ghost: the replicas that appended history
    events,     \* ghost: events appended
    excused     \* ghost: what went wrong outside the protocol (see below)

vars == <<clock, row, inst, hist, cache, job, due, req, lock, requests, crashes,
          held, ran, applied, writers, events, excused>>

NoRows == [t \in {} |-> 0]

Free == [op |-> "none", rep |-> None, now |-> 0, todo |-> NoRows, task |-> 0,
         row |-> [st |-> "pending", by |-> None, until |-> 0, retries |-> 0],
         inst |-> [t \in Tasks |-> "wait"]]

Init ==
    /\ clock = 1
    /\ row = [t \in Tasks |-> [st |-> "pending", by |-> None, until |-> 0, retries |-> Retries]]
    /\ inst = [t \in Tasks |-> "wait"]
    /\ hist = [s \in {} |-> 0]
    /\ cache = [r \in Replicas |-> -1]
    /\ job = Jobs
    /\ due = [r \in Replicas |-> [scanned |-> {}, claimed |-> {}]]
    /\ req = [w \in Workers |-> Free]
    /\ lock = [r \in Replicas |-> None]
    /\ requests = 0
    /\ crashes = 0
    /\ held = [w \in Workers |-> [t \in Tasks |-> 0]]
    /\ ran = [j \in Jobs |-> 0]
    /\ applied = [t \in Tasks |-> 0]
    /\ writers = {}
    /\ events = 0
    /\ excused = {}

schedulerVars == <<job, due, ran>>
applyVars == <<inst, hist, cache, lock, applied, writers, events>>

------------------------------------------------------------------------------
\* FetchAndLockExternalTasks, FetchAndLockAgentJobs.

Request(w, q) ==
    /\ req[w].op = "none" /\ requests < MaxRequests
    /\ requests' = requests + 1
    /\ req' = [req EXCEPT ![w] = q]

\* The rows a scan finds: pending and not under a lock that still runs.
Available(now) ==
    {t \in Tasks : row[t].st = "pending" /\ ~(row[t].by # None /\ row[t].until > now)}

\* Of these the first ones, in the order of their ids.
Scanned(now) ==
    {t \in Available(now) : Cardinality({u \in Available(now) : u < t}) < Limit}

FetchScans(w, r) ==
    /\ Request(w, [Free EXCEPT !.op = "fetch", !.rep = r, !.now = clock,
                               !.todo = [t \in Scanned(clock) |-> row[t]]])
    /\ UNCHANGED <<clock, row, held, excused, crashes, applyVars, schedulerVars>>

\* Mutant of MayLock: the guard without the lock's end.
MayLockPending(t, now) == row[t].st = "pending"

\* claimPending's guard
MayLock(t, now) == row[t].st = "pending" /\ row[t].until <= now

\* claimPending, in the order of the ids: the scanned row with the new lock, if
\* the guard still holds.
FetchLocks(w) ==
    LET todo == req[w].todo
        until == req[w].now + LockFor
    IN
    \E t \in DOMAIN todo :
        /\ req[w].op = "fetch" /\ \A u \in DOMAIN todo : t <= u
        /\ IF MayLock(t, req[w].now)
             THEN /\ row' = [row EXCEPT ![t] = [todo[t] EXCEPT !.by = w, !.until = until]]
                  /\ held' = [held EXCEPT ![w][t] = until]
             ELSE UNCHANGED <<row, held>>
        /\ req' = [req EXCEPT ![w].todo = Restrict(todo, DOMAIN todo \ {t})]
        /\ UNCHANGED <<clock, requests, crashes, excused, applyVars, schedulerVars>>

FetchReturns(w) ==
    /\ req[w].op = "fetch" /\ DOMAIN req[w].todo = {}
    /\ req' = [req EXCEPT ![w] = Free]
    /\ UNCHANGED <<clock, row, held, requests, crashes, excused, applyVars, schedulerVars>>

------------------------------------------------------------------------------
\* CompleteExternalTask, FailExternalTask, CompleteAgentJob, FailAgentJob.

\* GetExternalTask, with the checks made on the row that was read.  A worker
\* answers for a task it was given, in time or late.
AnswerReads(w, r, t, op) ==
    /\ held[w][t] # 0
    /\ row[t].st = "pending" /\ row[t].by = w
    /\ Request(w, [Free EXCEPT !.op = op, !.rep = r, !.task = t, !.row = row[t]])
    /\ UNCHANGED <<clock, row, held, crashes, excused, applyVars, schedulerVars>>

\* Mutant of Waiting: no look at the token.
WaitingAlways(i, t) == TRUE

\* The token still waits for this task.
Waiting(i, t) == i[t] = "wait"

\* Two replicas have the instance loaded at the same time.
Overlap(r) == \E s \in Replicas \ {r} : lock[s] # None

\* An answer that has the lock, and has its row still to write.
RowOp == [complete |-> "completeRow", fail |-> "failRow", error |-> "errorRow"]

\* resume: the replica's lock, the instance, the check under the lock.
AnswerLoads(w) ==
    LET q == req[w] IN
    /\ q.op \in DOMAIN RowOp
    /\ lock[q.rep] = None
    /\ IF Waiting(inst, q.task)
         THEN /\ lock' = [lock EXCEPT ![q.rep] = w]
              /\ req' = [req EXCEPT ![w].op = RowOp[q.op], ![w].inst = inst]
              /\ excused' = IF Overlap(q.rep) THEN excused \cup {"overlap"} ELSE excused
         ELSE /\ req' = [req EXCEPT ![w] = Free]
              /\ UNCHANGED <<lock, excused>>
    /\ UNCHANGED <<clock, row, held, requests, crashes, inst, hist, cache, applied, writers,
                   events, schedulerVars>>

\* Mutants of Answered: an exhausted task, or one that ended in an error, stays
\* pending.
AnsweredForever(q) ==
    CASE q.op = "completeRow" -> <<[q.row EXCEPT !.st = "done"], "gone">>
      [] q.op = "errorRow" -> <<[q.row EXCEPT !.st = "failed"], "gone">>
      [] OTHER -> <<[q.row EXCEPT !.retries = @ - 1, !.by = None, !.until = 0], "wait">>

AnsweredErrorPending(q) ==
    CASE q.op = "completeRow" -> <<[q.row EXCEPT !.st = "done"], "gone">>
      [] q.op = "errorRow" -> <<q.row, "gone">>
      [] q.op = "failRow" /\ q.row.retries > 1 ->
            <<[q.row EXCEPT !.retries = @ - 1, !.by = None, !.until = 0], "wait">>
      [] OTHER -> <<[q.row EXCEPT !.retries = @ - 1, !.st = "failed"], "incident">>

\* The row as the answer leaves it, and what becomes of the token.
Answered(q) ==
    CASE q.op = "completeRow" -> <<[q.row EXCEPT !.st = "done"], "gone">>
      [] q.op = "errorRow" -> <<[q.row EXCEPT !.st = "failed"], "gone">>
      [] q.op = "failRow" /\ q.row.retries > 1 ->
            <<[q.row EXCEPT !.retries = @ - 1, !.by = None, !.until = 0], "wait">>
      [] OTHER -> <<[q.row EXCEPT !.retries = @ - 1, !.st = "failed"], "incident">>

\* PutExternalTask writes the row that was read before the lock.  When the
\* lock has gone to another worker in the meantime, that one loses it.  A
\* redelivery is no event of the history.
AnswerPutsRow(w) ==
    LET q == req[w]
        a == Answered(q)
    IN
    /\ q.op \in {"completeRow", "failRow", "errorRow"}
    /\ row' = [row EXCEPT ![q.task] = a[1]]
    /\ req' = [req EXCEPT ![w].op = IF a[2] = "wait" THEN "store" ELSE "emit",
                          ![w].inst = [@ EXCEPT ![q.task] = a[2]]]
    /\ held' = [held EXCEPT ![w][q.task] = 0]
    /\ excused' = IF row[q.task].by # w THEN excused \cup {"late"} ELSE excused
    /\ UNCHANGED <<clock, requests, crashes, applyVars, schedulerVars>>

\* SELECT MAX(seq)
LastSeq == IF DOMAIN hist = {} THEN 0 ELSE Max(DOMAIN hist)

\* Mutant of Cached: the cache starts at zero.
CachedFromZero(r) == IF cache[r] = -1 THEN 0 ELSE cache[r]

\* AppendHistory's cached sequence number, read from the table at first.
Cached(r) == IF cache[r] = -1 THEN LastSeq ELSE cache[r]

\* AppendHistory: an upsert under the replica's next sequence number.
AppendHistory(w) ==
    LET q == req[w]
        seq == Cached(q.rep) + 1
    IN
    /\ q.op = "emit"
    /\ hist' = [s \in DOMAIN hist \cup {seq} |-> IF s = seq THEN events + 1 ELSE hist[s]]
    /\ cache' = [cache EXCEPT ![q.rep] = seq]
    /\ events' = events + 1
    /\ writers' = writers \cup {q.rep}
    /\ req' = [req EXCEPT ![w].op = "store"]
    /\ UNCHANGED <<clock, row, inst, lock, requests, crashes, held, applied, excused,
                   schedulerVars>>

\* PutInstance, the whole record
AnswerStores(w) ==
    LET q == req[w] IN
    /\ q.op = "store"
    /\ inst' = q.inst
    /\ applied' = [applied EXCEPT ![q.task] = IF q.inst[q.task] = "wait" THEN @ ELSE @ + 1]
    /\ lock' = [lock EXCEPT ![q.rep] = None]
    /\ req' = [req EXCEPT ![w] = Free]
    /\ UNCHANGED <<clock, row, hist, cache, requests, crashes, held, writers, events, excused,
                   schedulerVars>>

------------------------------------------------------------------------------
\* DueJobs: a scan, then one DELETE per job.

workerVars == <<row, req, requests, held, applyVars>>

DueScans(r) ==
    /\ due[r].scanned = {} /\ job # {}
    /\ due' = [due EXCEPT ![r].scanned = job]
    /\ UNCHANGED <<clock, job, ran, crashes, excused, workerVars>>

\* Mutant of Deleted: RowsAffected is not looked at.
DeletedAnyway(j) == TRUE

\* The DELETE found a row.
Deleted(j) == j \in job

DueClaims(r) ==
    \E j \in due[r].scanned :
        /\ due' = [due EXCEPT ![r].scanned = @ \ {j},
                              ![r].claimed = IF Deleted(j) THEN @ \cup {j} ELSE @]
        /\ job' = job \ {j}
        /\ UNCHANGED <<clock, ran, crashes, excused, workerVars>>

\* RunDueJobs executes what was claimed.
DueRuns(r) ==
    /\ due[r].scanned = {} /\ due[r].claimed # {}
    /\ ran' = [j \in Jobs |-> IF j \in due[r].claimed THEN ran[j] + 1 ELSE ran[j]]
    /\ due' = [due EXCEPT ![r].claimed = {}]
    /\ UNCHANGED <<clock, job, crashes, excused, workerVars>>

------------------------------------------------------------------------------
Tick ==
    /\ clock < MaxTime
    /\ clock' = clock + 1
    /\ UNCHANGED <<row, req, requests, held, applyVars, schedulerVars, crashes, excused>>

\* A replica dies with its requests, its lock and its cache, and is restarted.
Crash(r) ==
    /\ crashes < MaxCrashes
    /\ crashes' = crashes + 1
    /\ req' = [w \in Workers |-> IF req[w].rep = r THEN Free ELSE req[w]]
    /\ excused' = IF lock[r] # None THEN excused \cup {"crash"} ELSE excused
    /\ lock' = [lock EXCEPT ![r] = None]
    /\ cache' = [cache EXCEPT ![r] = -1]
    /\ due' = [due EXCEPT ![r] = [scanned |-> {}, claimed |-> {}]]
    /\ UNCHANGED <<clock, row, inst, hist, job, requests, held, ran, applied, writers, events>>

Next ==
    \/ \E w \in Workers :
          \/ \E r \in Replicas : \/ FetchScans(w, r)
                                 \/ \E t \in Tasks : \E op \in DOMAIN RowOp :
                                        AnswerReads(w, r, t, op)
          \/ FetchLocks(w) \/ FetchReturns(w)
          \/ AnswerLoads(w) \/ AnswerPutsRow(w) \/ AppendHistory(w) \/ AnswerStores(w)
    \/ \E r \in Replicas : DueScans(r) \/ DueClaims(r) \/ DueRuns(r) \/ Crash(r)
    \/ Tick

Spec == Init /\ [][Next]_vars

------------------------------------------------------------------------------
\* Every row and request has its type; retries are never exhausted unnoticed.
TypeOK ==
    /\ clock \in 1..MaxTime
    /\ \A t \in Tasks :
          /\ row[t].st \in {"pending", "done", "failed"}
          /\ row[t].by \in Workers \cup {None}
          /\ row[t].retries \in 0..Retries
          /\ row[t].st = "pending" => row[t].retries > 0
          /\ inst[t] \in {"wait", "gone", "incident"}
    /\ DOMAIN hist \subseteq 1..events
    /\ \A r \in Replicas : lock[r] \in Workers \cup {None} /\ cache[r] \in -1..events

\* DueJobs' DELETE gives a job to one replica, however their scans overlap.
JobOnce == \A j \in Jobs : ran[j] + Cardinality({r \in Replicas : j \in due[r].claimed}) <= 1

\* A worker whose lock still runs is the one the row names, so that nobody
\* else is given the task and its answer is accepted, whatever scans and locks
\* interleave.  Left out are what the code has no defence against: a worker that
\* answered late and had read the row before (FailExternalTask then clears the
\* other's lock), an instance loaded at two replicas at once, and a replica that
\* died between the writes of an answer (see excused).
LockHonoured ==
    excused = {} =>
        \A w \in Workers, t \in Tasks :
            held[w][t] > clock /\ row[t].st = "pending" => row[t].by = w

\* However many workers answer for a task, in time, late or at two replicas, its
\* token moves on once; only two replicas that have the instance loaded at the
\* same time can move it twice, for the instance lock is the replica's own.
AppliedOnce == "overlap" \notin excused => \A t \in Tasks : applied[t] <= 1

\* A task's row is pending exactly as long as its token waits: no answer is
\* recorded that the flow does not follow, and no task is offered to workers
\* that the flow has left.  In between is a replica that has not stored the
\* instance yet, or died before it did.
RowMatchesToken ==
    excused \cap {"overlap", "crash"} = {} =>
        \A t \in Tasks :
            \/ row[t].st = "pending" <=> inst[t] = "wait"
            \/ \E w \in Workers : req[w].op \in {"emit", "store"} /\ req[w].task = t

\* As long as one replica appends an instance's history, no event overwrites
\* another, the first ones after its restart included (AppendHistory).
HistoryComplete == Cardinality(writers) <= 1 => DOMAIN hist = 1..events
=============================================================================
