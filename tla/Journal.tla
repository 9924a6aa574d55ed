------------------------------- MODULE Journal -------------------------------
(***************************************************************************)
(* store/journal.go: the write-ahead journal behind every durable store.   *)
(*                                                                         *)
(* A store operation first mutates the in-memory maps (under mem.mu) and   *)
(* then, as a second step, appends one JSON line per record to journal.    *)
(* jsonl (under j.mu).  When enough lines have been appended the holder of *)
(* j.mu writes a snapshot, renames it into place and truncates the         *)
(* journal.  OpenJournal loads the snapshot and replays the journal up to  *)
(* the first line that does not parse.                                     *)
(*                                                                         *)
(* Records are abstract values under abstract keys.  The history stream of *)
(* one instance is kept as the multiplicity of each sequence number.       *)
(***************************************************************************)
EXTENDS Naturals, FiniteSets, Sequences

CONSTANTS
    Procs,          \* goroutines that call the store
    Keys,           \* record ids, all collections together
    InstKeys,       \* the records PurgeInstance removes
    Serialised,     \* the keys whose writers the engine's instance lock orders
    Values,         \* record contents
    None,           \* no record under the key
    NoProc,         \* nobody holds j.mu for a compaction
    Corrupt,        \* a line json.Unmarshal rejects
    CompactEvery,   \* JournalOptions.CompactEvery
    TornWrites,     \* whether a crash may cut a line short
    MaxSeq,         \* bound: history events of the instance
    MaxCrashes      \* bound: crashes and failed writes

Seqs == 1..MaxSeq

ASSUME JournalAssumption ==
    /\ InstKeys \subseteq Keys
    /\ Serialised \subseteq Keys
    /\ Keys \cap Seqs = {}
    /\ None \notin Values
    /\ NoProc \notin Procs
    /\ CompactEvery \in Nat \ {0}
    /\ MaxSeq \in Nat
    /\ MaxCrashes \in Nat
    /\ TornWrites \in BOOLEAN

\* A journal line.  "set" stands for every keyed put (a value) and delete
\* (None) op, "purge" for the purge op, "hist" for one history event.
Entry == [op : {"set", "purge", "hist"},
          keys : SUBSET (Keys \cup Seqs),
          val : Values \cup {None}]

ASSUME CorruptAssumption == Corrupt \notin Entry

VARIABLES
    up,         \* the process runs (the store is open)
    mem,        \* j.mem: the keyed maps
    hist,       \* j.mem.history: how often each event is in the stream
    pending,    \* per goroutine, the lines its current operation still owes
    compactor,  \* the goroutine in compactLocked, which holds j.mu, or NoProc
    stage,      \* where compactLocked is
    tmp,        \* snapshot.json.tmp, blank when compactLocked has no use for it
    snap,       \* snapshot.json
    log,        \* journal.jsonl, line by line
    open,       \* the last line of the file lacks its newline
    glued,      \* auxiliary: a write continued an unterminated line
    n,          \* j.n
    writer,     \* j.w and j.f: "ok", "failed" (a sticky write error) or "closed"
    unsaved,    \* items whose operation returned an error: in memory only
    faults      \* crashes and failed writes so far

vars == <<up, mem, hist, pending, compactor, stage, tmp, snap, log, open,
          glued, n, writer, unsaved, faults>>

------------------------------------------------------------------------------
\* Recovery: load as the loop the code runs, and what the loop amounts to.

\* apply, for the line's op: puts, deletes and purges tell what the records
\* become, a purge empties the stream, and an event is appended to it whatever
\* it already holds.
Apply(img, e) ==
    [mem |-> [k \in Keys |-> IF k \in e.keys THEN e.val ELSE img.mem[k]],
     hist |-> [s \in Seqs |-> IF e.op = "purge" THEN 0
                              ELSE IF e.op = "hist" /\ s \in e.keys THEN img.hist[s] + 1
                              ELSE img.hist[s]]]

\* Mutant: a line that does not parse is skipped.
SkipCorruptLine(acc, line) ==
    IF line = Corrupt THEN acc
    ELSE [acc EXCEPT !.img = Apply(@, line), !.n = @ + 1]

\* One turn of load's scanner loop: the first line that does not parse ends it.
LoadLine(acc, line) ==
    IF acc.stopped \/ line = Corrupt THEN [acc EXCEPT !.stopped = TRUE]
    ELSE [acc EXCEPT !.img = Apply(@, line), !.n = @ + 1]

\* load: the snapshot, then the journal line by line.
Load ==
    LET after[i \in 0..Len(log)] ==
            IF i = 0 THEN [img |-> snap, n |-> 0, stopped |-> FALSE]
                     ELSE LoadLine(after[i - 1], log[i])
    IN  after[Len(log)]

\* The lines load applies: those before the first corrupt one.
ValidLines == {i \in DOMAIN log : \A j \in 1..i : log[j] # Corrupt}

\* The applied lines that touch an item.
Touching(x) == {i \in ValidLines : x \in log[i].keys}

\* v is what load leaves under key k: the value of the last applied line that
\* touches k, or the snapshot's.
Recovers(k, v) ==
    \/ Touching(k) = {} /\ v = snap.mem[k]
    \/ \E i \in Touching(k) :
          (\A j \in Touching(k) : j <= i) /\ v = log[i].val

Recovered(k) == CHOOSE v \in Values \cup {None} : Recovers(k, v)

\* How often load leaves event s in the stream: the snapshot's and those
\* appended after the last purge.
RecoveredHist(s) ==
    LET purges == {i \in ValidLines : log[i].op = "purge"}
    IN  (IF purges = {} THEN snap.hist[s] ELSE 0)
        + Cardinality({i \in Touching(s) : log[i].op = "hist"
                                           /\ \A j \in purges : j < i})

------------------------------------------------------------------------------
Blank == [mem |-> [k \in Keys |-> None], hist |-> [s \in Seqs |-> 0]]

Init ==
    /\ up = TRUE
    /\ mem = Blank.mem
    /\ hist = Blank.hist
    /\ pending = [p \in Procs |-> {}]
    /\ compactor = NoProc
    /\ stage = "idle"
    /\ tmp = Blank
    /\ snap = Blank
    /\ log = <<>>
    /\ open = FALSE
    /\ glued = FALSE
    /\ n = 0
    /\ writer = "ok"
    /\ unsaved = {}
    /\ faults = 0

\* Items some operation has changed in memory and not yet journaled.
InFlight == UNION {e.keys : e \in UNION {pending[p] : p \in Procs}}

\* A goroutine may start an operation on items K: it runs no other, and no
\* other goroutine is inside an operation on a serialised one of them.
MayStart(p, K) ==
    /\ up
    /\ pending[p] = {}
    /\ compactor # p
    /\ K \cap InFlight \cap (Serialised \cup Seqs) = {}

\* The first step of an operation: change the maps, owe the lines.
Mutate(p, entries) ==
    /\ pending' = [pending EXCEPT ![p] = entries]
    /\ UNCHANGED <<up, compactor, stage, tmp, snap, log, open, glued, n,
                   writer, unsaved, faults>>

SetTo(k, v) == [op |-> "set", keys |-> {k}, val |-> v]

\* PutDefinition ... PutBlob
Put(p, k, v) ==
    /\ MayStart(p, {k})
    /\ mem' = [mem EXCEPT ![k] = v]
    /\ hist' = hist
    /\ Mutate(p, {SetTo(k, v)})

\* DeleteJob, DeleteSubscription, DeleteBlob
Delete(p, k) ==
    /\ MayStart(p, {k})
    /\ mem' = [mem EXCEPT ![k] = None]
    /\ hist' = hist
    /\ Mutate(p, {SetTo(k, None)})

\* DueJobs (v = None: claimed jobs are deleted) and FetchAndLock... (v: the
\* locked record): several records change at once, then one line is written
\* for each.
Claim(p, K, v) ==
    /\ K # {}
    /\ \A k \in K : mem[k] # None
    /\ MayStart(p, K)
    /\ mem' = [k \in Keys |-> IF k \in K THEN v ELSE mem[k]]
    /\ hist' = hist
    /\ Mutate(p, {SetTo(k, v) : k \in K})

\* PurgeInstance
Purge(p) ==
    /\ MayStart(p, InstKeys \cup Seqs)
    /\ mem' = [k \in Keys |-> IF k \in InstKeys THEN None ELSE mem[k]]
    /\ hist' = [s \in Seqs |-> 0]
    /\ Mutate(p, {[op |-> "purge", keys |-> InstKeys \cup Seqs, val |-> None]})

\* AppendHistory: the event takes the next sequence number.
AppendHistory(p, s) ==
    /\ MayStart(p, {s})
    /\ \A t \in Seqs : hist[t] > 0 => t < s
    /\ s > 1 => hist[s - 1] > 0
    /\ mem' = mem
    /\ hist' = [hist EXCEPT ![s] = 1]
    /\ Mutate(p, {[op |-> "hist", keys |-> {s}, val |-> None]})

------------------------------------------------------------------------------
\* append, and the compaction it may run before it releases j.mu.

\* The file after one more line, which ends in a newline or (cut) does not.  A
\* line left without its newline swallows the new one: the two together do not
\* parse.
Write(e, cut) ==
    /\ log' = IF open THEN [log EXCEPT ![Len(log)] = Corrupt]
                      ELSE Append(log, e)
    /\ open' = cut
    /\ glued' = (glued \/ open)

\* An error ends p's operation: the lines it still owed are never written.
GiveUp(p, owed) ==
    /\ pending' = [pending EXCEPT ![p] = {}]
    /\ unsaved' = unsaved \cup UNION {e.keys : e \in owed}

\* Mutant: a claim returns after the first of its lines.
WriteFirstLineOnly(p, e) ==
    /\ up /\ writer = "ok"
    /\ compactor = NoProc
    /\ e \in pending[p]
    /\ Write(e, FALSE)
    /\ pending' = [pending EXCEPT ![p] = {}]
    /\ n' = n + 1
    /\ IF n + 1 >= CompactEvery
         THEN compactor' = p /\ stage' = "snapshot"
         ELSE UNCHANGED <<compactor, stage>>
    /\ UNCHANGED <<up, mem, hist, tmp, snap, writer, unsaved, faults>>

\* Mutant: the compaction starts one line late.
CompactOneLate(p, e) ==
    /\ up /\ writer = "ok"
    /\ compactor = NoProc
    /\ e \in pending[p]
    /\ Write(e, FALSE)
    /\ pending' = [pending EXCEPT ![p] = @ \ {e}]
    /\ n' = n + 1
    /\ IF n >= CompactEvery
         THEN compactor' = p /\ stage' = "snapshot"
         ELSE UNCHANGED <<compactor, stage>>
    /\ UNCHANGED <<up, mem, hist, tmp, snap, writer, unsaved, faults>>

WriteLine(p, e) ==
    /\ up /\ writer = "ok"
    /\ compactor = NoProc
    /\ e \in pending[p]
    /\ Write(e, FALSE)
    /\ pending' = [pending EXCEPT ![p] = @ \ {e}]
    /\ n' = n + 1
    /\ IF n + 1 >= CompactEvery
         THEN compactor' = p /\ stage' = "snapshot"
         ELSE UNCHANGED <<compactor, stage>>
    /\ UNCHANGED <<up, mem, hist, tmp, snap, writer, unsaved, faults>>

\* Write, Flush: the write fails, perhaps after part of the line has reached
\* the file, and bufio.Writer keeps the error.
WriteFails(p, e, cut) ==
    /\ up /\ writer = "ok"
    /\ compactor = NoProc
    /\ faults < MaxCrashes
    /\ e \in pending[p]
    /\ IF cut THEN Write(Corrupt, TRUE) ELSE UNCHANGED <<log, open, glued>>
    /\ GiveUp(p, pending[p])
    /\ writer' = "failed"
    /\ faults' = faults + 1
    /\ UNCHANGED <<up, mem, hist, compactor, stage, tmp, snap, n>>

\* Every later append returns the kept error.
WriteRefused(p) ==
    /\ up /\ writer # "ok"
    /\ compactor = NoProc
    /\ pending[p] # {}
    /\ GiveUp(p, pending[p])
    /\ UNCHANGED <<up, mem, hist, compactor, stage, tmp, snap, log, open,
                   glued, n, writer, faults>>

\* f.Sync fails after the line was written.
SyncFails(p, e) ==
    /\ up /\ writer = "ok"
    /\ compactor = NoProc
    /\ faults < MaxCrashes
    /\ e \in pending[p]
    /\ Write(e, FALSE)
    /\ GiveUp(p, pending[p])
    /\ faults' = faults + 1
    /\ UNCHANGED <<up, mem, hist, compactor, stage, tmp, snap, n, writer>>

\* Compact: a compaction on demand.
Compact(p) ==
    /\ up
    /\ compactor = NoProc
    /\ pending[p] = {}
    /\ compactor' = p
    /\ stage' = "snapshot"
    /\ UNCHANGED <<up, mem, hist, pending, tmp, snap, log, open, glued, n,
                   writer, unsaved, faults>>

\* Mutant: the snapshot leaves the history out.
SnapshotWithoutHistory ==
    /\ up
    /\ stage = "snapshot"
    /\ tmp' = [mem |-> mem, hist |-> Blank.hist]
    /\ stage' = "rename"
    /\ UNCHANGED <<up, mem, hist, pending, compactor, snap, log, open, glued, n,
                   writer, unsaved, faults>>

\* Mutant: the journal is truncated before the snapshot is in place.
TruncateThenRename ==
    /\ up
    /\ stage = "rename"
    /\ tmp' = tmp
    /\ log' = <<>>
    /\ open' = FALSE
    /\ stage' = "truncate"
    /\ UNCHANGED <<up, mem, hist, pending, compactor, snap, glued, n,
                   writer, unsaved, faults>>

\* snapshotData, os.WriteFile(tmp)
WriteSnapshot ==
    /\ up
    /\ stage = "snapshot"
    /\ tmp' = [mem |-> mem, hist |-> hist]
    /\ stage' = "rename"
    /\ UNCHANGED <<up, mem, hist, pending, compactor, snap, log, open, glued, n,
                   writer, unsaved, faults>>

\* os.Rename
RenameSnapshot ==
    /\ up
    /\ stage = "rename"
    /\ snap' = tmp
    /\ tmp' = Blank
    /\ stage' = "truncate"
    /\ UNCHANGED <<up, mem, hist, pending, compactor, log, open, glued, n,
                   writer, unsaved, faults>>

\* f.Close, OpenFile(O_TRUNC): the snapshot holds everything, and a new writer
\* forgets the old one's error.
TruncateJournal ==
    /\ up
    /\ stage = "truncate"
    /\ writer # "closed"
    /\ log' = <<>>
    /\ open' = FALSE
    /\ glued' = FALSE
    /\ n' = 0
    /\ writer' = "ok"
    /\ compactor' = NoProc
    /\ stage' = "idle"
    /\ unsaved' = {}
    /\ UNCHANGED <<up, mem, hist, pending, tmp, snap, faults>>

\* compactLocked returns an error and the operation with it: one of its steps
\* fails, or j.f was closed by an earlier compaction that could not reopen it.
\* Once j.f has been closed every further write fails.
CompactFails ==
    /\ up
    /\ stage # "idle"
    /\ \/ stage = "truncate" /\ writer = "closed" /\ faults' = faults
       \/ faults < MaxCrashes /\ faults' = faults + 1
    /\ GiveUp(compactor, pending[compactor])
    /\ compactor' = NoProc
    /\ stage' = "idle"
    /\ writer' = IF stage = "truncate" THEN "closed" ELSE writer
    /\ tmp' = Blank
    /\ UNCHANGED <<up, mem, hist, snap, log, open, glued, n>>

------------------------------------------------------------------------------
\* The process dies: what it held in memory is gone, and a snapshot.json.tmp
\* it leaves behind is never read.
Die ==
    /\ up
    /\ faults < MaxCrashes
    /\ up' = FALSE
    /\ mem' = Blank.mem
    /\ hist' = Blank.hist
    /\ tmp' = Blank
    /\ n' = 0
    /\ pending' = [p \in Procs |-> {}]
    /\ compactor' = NoProc
    /\ stage' = "idle"
    /\ writer' = "ok"
    /\ unsaved' = {}
    /\ faults' = faults + 1
    /\ UNCHANGED snap

Crash == Die /\ UNCHANGED <<log, open, glued>>

\* The process dies inside append: the line reaches the file without its
\* newline, cut short or (whole) otherwise complete.
TornCrash(p, e, whole) ==
    /\ TornWrites
    /\ writer = "ok"
    /\ compactor = NoProc
    /\ e \in pending[p]
    /\ Write(IF whole THEN e ELSE Corrupt, TRUE)
    /\ Die

\* OpenJournal: load, then reopen the file for appending as it is.
Open ==
    /\ ~up
    /\ up' = TRUE
    /\ mem' = Load.img.mem
    /\ hist' = Load.img.hist
    /\ n' = Load.n
    /\ UNCHANGED <<pending, compactor, stage, tmp, snap, log, open, glued,
                   writer, unsaved, faults>>

Operation(p) ==
    \/ \E k \in Keys, v \in Values : Put(p, k, v)
    \/ \E k \in Keys : Delete(p, k)
    \/ \E K \in SUBSET Keys, v \in Values \cup {None} : Claim(p, K, v)
    \/ Purge(p)
    \/ \E s \in Seqs : AppendHistory(p, s)

AppendStep(p) ==
    \/ \E e \in pending[p] :
          \/ WriteLine(p, e)
          \/ \E cut \in BOOLEAN : WriteFails(p, e, cut)
          \/ SyncFails(p, e)
          \/ \E whole \in BOOLEAN : TornCrash(p, e, whole)
    \/ WriteRefused(p)

Compaction ==
    \/ \E p \in Procs : Compact(p)
    \/ WriteSnapshot
    \/ RenameSnapshot
    \/ TruncateJournal
    \/ CompactFails

Next ==
    \/ \E p \in Procs : Operation(p) \/ AppendStep(p)
    \/ Compaction
    \/ Crash
    \/ Open

Spec == Init /\ [][Next]_vars

------------------------------------------------------------------------------
Image == [mem : [Keys -> Values \cup {None}], hist : [Seqs -> Nat]]

LinesCounted ==
    faults = 0 => up /\ ~open /\ n = Len(log) /\ (stage = "idle" => n < CompactEvery)

\* Memory, files, owed lines and the compaction have their types; whatever lines
\* the journal holds, load yields a value for every key (Journal.load).  Until
\* something fails, j.n is the number of lines in the file, and append compacts
\* before the file holds CompactEvery of them.
TypeOK ==
    /\ up \in BOOLEAN
    /\ mem \in [Keys -> Values \cup {None}]
    /\ hist \in [Seqs -> Nat]
    /\ pending \in [Procs -> SUBSET Entry]
    /\ compactor \in Procs \cup {NoProc}
    /\ stage \in {"idle", "snapshot", "rename", "truncate"}
    /\ tmp \in Image
    /\ snap \in Image
    /\ log \in Seq(Entry \cup {Corrupt})
    /\ open \in BOOLEAN
    /\ glued \in BOOLEAN
    /\ n \in Nat
    /\ writer \in {"ok", "failed", "closed"}
    /\ unsaved \subseteq Keys \cup Seqs
    /\ faults \in 0..MaxCrashes
    /\ LinesCounted

\* The items whose operations have all returned successfully.
Settled == (Serialised \cup Seqs) \ (InFlight \cup unsaved)

\* Whatever a crash interrupts (an append, a compaction between any two of its
\* steps), recovery yields the in-memory value of every record whose
\* operations have been acknowledged, as long as no write continued an
\* unterminated line.
Durable ==
    up /\ ~glued => \A k \in Settled \cap Keys : Recovers(k, mem[k])

\* An acknowledged history event is in the recovered stream, and an event that
\* was purged is not.
HistoryKept ==
    up /\ ~glued => \A s \in Settled \cap Seqs :
                        hist[s] > 0 <=> RecoveredHist(s) > 0

\* For every snapshot and every journal the disk can hold, damaged ones and
\* those of an interrupted compaction included, the replay loop of load ends
\* with the value of the last line of each record, the events since the last
\* purge, and the number of lines before the first damaged one.
ReplayIsLastLine ==
    LET end == Load
    IN  /\ \A k \in Keys : end.img.mem[k] = Recovered(k)
        /\ \A s \in Seqs : end.img.hist[s] = RecoveredHist(s)
        /\ end.n = Cardinality(ValidLines)

\* The journal implements the store its callers rely on, for the records whose
\* writers the engine orders.
Store == INSTANCE DurableStore WITH
    Records <- Serialised,
    Contents <- Values \cup {None},
    live <- up,
    state <- [k \in Serialised |-> mem[k]],
    durable <- [k \in Serialised |-> Recovered(k)],
    busy <- Serialised \cap InFlight,
    doubtful <- Serialised \cap unsaved,
    damaged <- glued

Refinement == Store!DSpec

\* The same promise without the proviso: the one README.md and
\* docs/architecture.md make about a torn final line.
DurableAfterTornWrite ==
    up => \A k \in Settled \cap Keys : Recovers(k, mem[k])
==============================================================================
