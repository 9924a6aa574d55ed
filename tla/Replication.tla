----------------------------- MODULE Replication -----------------------------
(***************************************************************************)
(* replicate/replicate.go, store/replicate.go: a leader's journal lines    *)
(* streamed to a warm standby.                                             *)
(*                                                                         *)
(* The leader changes its memory first and journals the line afterwards;   *)
(* the journal hands each line to the sender's channel, or drops it when   *)
(* the channel is full and signals an overrun.  The sender posts batches   *)
(* of lines, or, after an error or an overrun, a snapshot of the memory.   *)
(* The follower's handlers run in a process of their own.                  *)
(*                                                                         *)
(* Writes of one record follow each other (its instance lock), writes of   *)
(* different records are journaled in any order.                           *)
(***************************************************************************)
EXTENDS Naturals, SequencesExt

CONSTANTS
    Keys,           \* the leader's records
    Hist,           \* the key of history lines
    Buffer,         \* SenderOptions.Buffer
    BatchSize,      \* SenderOptions.BatchSize
    CompactEvery,   \* JournalOptions.CompactEvery of the follower
    MaxWrites,      \* bound: changes of the leader's state
    MaxFaults       \* bound: failed posts, timeouts, crashes of the follower

ASSUME ReplicationAssumption ==
    /\ Hist \notin Keys
    /\ Buffer \in Nat \ {0} /\ BatchSize \in Nat \ {0}
    /\ CompactEvery \in Nat \ {0}
    /\ MaxWrites \in Nat /\ MaxFaults \in Nat

VARIABLES
    mem,        \* the leader's memory
    owed,       \* lines of changes that are not journaled yet
    ch,         \* Sender.ch
    overrun,    \* Sender.overrun
    needSync,   \* loop's variables
    batch,
    mode,       \* "running", "closing" (the last flush), "closed"
    posts,      \* requests being served: the current one and one given up
    fmem,       \* the follower's memory
    disk,       \* the follower's snapshot file and journal, j.n its length
    writer,     \* its j.w and j.f: "ok", "failed" (a sticky error) or "closed"
    writes, faults,
    clean       \* history variable: nothing dropped or given up so far

sender == <<ch, overrun, needSync, batch, mode>>
follower == <<fmem, disk, writer>>
vars == <<mem, owed, sender, posts, follower, writes, faults, clean>>

\* A journal line: a record's new version, 0 when deleted, or the sequence
\* number of a history event.
Line == [key : Keys \cup {Hist}, ver : Nat]

Empty == [kv |-> [k \in Keys |-> 0], hist |-> <<>>]

\* apply
Apply(s, l) ==
    IF l.key = Hist THEN [s EXCEPT !.hist = Append(@, l.ver)]
    ELSE [s EXCEPT !.kv[l.key] = l.ver]

\* The states load passes through on its way over some lines.
Replay(s, lines) ==
    LET after[i \in 0..Len(lines)] ==
            IF i = 0 THEN s ELSE Apply(after[i - 1], lines[i])
    IN  after

ApplyAll(s, lines) == Replay(s, lines)[Len(lines)]

\* Mutant: a history event is never taken for a repeat.
NeverSeen(s, l) == FALSE

\* A history event at or below the high-water mark is skipped.
Seen(s, l) == l.key = Hist /\ \E i \in DOMAIN s.hist : l.ver <= s.hist[i]

NoPost == [kind |-> "none", state |-> Empty, lines |-> <<>>, step |-> 0]
SnapshotPost(s) == [NoPost EXCEPT !.kind = "snapshot", !.state = s]
AppendPost(lines) == [NoPost EXCEPT !.kind = "append", !.lines = lines]

\* The handler has nothing left to do.
Done(p) == \/ p.kind = "snapshot" /\ p.step = 3
           \/ p.kind = "append" /\ p.lines = <<>> /\ p.step = 0

\* NewSender registers the tap and starts the loop on a leader that runs.
Init ==
    /\ mem = Empty
    /\ owed = {}
    /\ ch = <<>> /\ overrun = FALSE
    /\ needSync = TRUE /\ batch = <<>>
    /\ mode = "running"
    /\ posts = [now |-> NoPost, late |-> NoPost]
    /\ fmem = Empty
    /\ disk = [snap |-> Empty, log |-> <<>>]
    /\ writer = "ok"
    /\ writes = 0 /\ faults = 0
    /\ clean = TRUE

------------------------------------------------------------------------------
\* The leader.

\* A write changes the memory and owes its line.
Write(l) ==
    /\ writes < MaxWrites
    /\ \A o \in owed : o.key # l.key
    /\ mem' = Apply(mem, l)
    /\ owed' = owed \cup {l}
    /\ writes' = writes + 1
    /\ UNCHANGED <<sender, posts, follower, faults, clean>>

\* Mutant: the channel has no limit.
TapUnbounded(l) ==
    /\ l \in owed
    /\ owed' = owed \ {l}
    /\ ch' = Append(ch, l)
    /\ UNCHANGED <<mem, overrun, needSync, batch, mode, posts, follower, writes, faults, clean>>

\* append's callback: never blocks the engine.
Tap(l) ==
    LET full == Len(ch) >= Buffer
    IN  /\ l \in owed
        /\ owed' = owed \ {l}
        /\ ch' = IF full THEN ch ELSE Append(ch, l)
        /\ overrun' = (overrun \/ full)
        /\ clean' = (clean /\ ~full)
        /\ UNCHANGED <<mem, needSync, batch, mode, posts, follower, writes, faults>>

------------------------------------------------------------------------------
\* The sender's loop.  It selects only while no post is out.

Selecting == mode = "running" /\ posts.now = NoPost

\* Mutant: the ticker, too, sends full batches only.
FlushFullBatches(b) ==
    /\ batch' = b
    /\ posts' = CASE needSync -> [posts EXCEPT !.now = SnapshotPost(mem)]
                  [] ~needSync /\ Len(b) >= BatchSize -> [posts EXCEPT !.now = AppendPost(b)]
                  [] OTHER -> posts

\* flush, up to the answer of the post.
Flush(b) ==
    /\ batch' = b
    /\ posts' = CASE needSync -> [posts EXCEPT !.now = SnapshotPost(mem)]
                  [] ~needSync /\ b # <<>> -> [posts EXCEPT !.now = AppendPost(b)]
                  [] OTHER -> posts

TakeOverrun ==
    /\ Selecting
    /\ overrun
    /\ overrun' = FALSE
    /\ needSync' = TRUE
    /\ UNCHANGED <<mem, owed, ch, batch, mode, posts, follower, writes, faults, clean>>

TakeLine ==
    LET b == Append(batch, Head(ch))
    IN  /\ Selecting
        /\ ch # <<>>
        /\ ch' = Tail(ch)
        /\ IF Len(b) >= BatchSize THEN Flush(b) ELSE batch' = b /\ posts' = posts
        /\ UNCHANGED <<mem, owed, overrun, needSync, mode, follower, writes, faults, clean>>

Tick ==
    /\ Selecting
    /\ Flush(batch)
    /\ UNCHANGED <<mem, owed, ch, overrun, needSync, mode, follower, writes, faults, clean>>

\* Close: everything queued goes into one last flush.
Close ==
    /\ Selecting
    /\ Flush(batch \o ch)
    /\ ch' = <<>>
    /\ mode' = IF posts'.now = NoPost THEN "closed" ELSE "closing"
    /\ UNCHANGED <<mem, owed, overrun, needSync, follower, writes, faults, clean>>

\* The loop goes on, or ends after its last flush.
Resumed == mode' = IF mode = "closing" THEN "closed" ELSE mode

\* Mutant: the lines queued during a sync are taken for covered by it.
PostSucceedsDropsQueue ==
    LET synced == posts.now.kind = "snapshot"
    IN  /\ Done(posts.now)
        /\ needSync' = (needSync /\ ~synced)
        /\ batch' = <<>>
        /\ ch' = IF synced THEN <<>> ELSE ch
        /\ posts' = [posts EXCEPT !.now = NoPost]
        /\ Resumed
        /\ UNCHANGED <<mem, owed, overrun, follower, writes, faults, clean>>

\* Mutant: needSync is not reset.
PostSucceedsStillSyncing ==
    LET synced == posts.now.kind = "snapshot"
    IN  /\ Done(posts.now)
        /\ needSync' = needSync
        /\ batch' = IF synced THEN ch ELSE <<>>
        /\ ch' = IF synced THEN <<>> ELSE ch
        /\ posts' = [posts EXCEPT !.now = NoPost]
        /\ Resumed
        /\ UNCHANGED <<mem, owed, overrun, follower, writes, faults, clean>>

\* The answer is a success: a snapshot stands for what was batched before, and
\* what queued meanwhile is the next batch.
PostSucceeds ==
    LET synced == posts.now.kind = "snapshot"
    IN  /\ Done(posts.now)
        /\ needSync' = (needSync /\ ~synced)
        /\ batch' = IF synced THEN ch ELSE <<>>
        /\ ch' = IF synced THEN <<>> ELSE ch
        /\ posts' = [posts EXCEPT !.now = NoPost]
        /\ Resumed
        /\ UNCHANGED <<mem, owed, overrun, follower, writes, faults, clean>>

\* flush gets an error.
Failed ==
    /\ needSync' = (needSync \/ posts.now.kind = "append")
    /\ Resumed

\* The client's timeout: the handler does not notice.
PostTimesOut ==
    /\ faults < MaxFaults
    /\ posts.now # NoPost
    /\ posts.late = NoPost
    /\ Failed
    /\ posts' = [now |-> NoPost, late |-> posts.now]
    /\ faults' = faults + 1
    /\ clean' = FALSE
    /\ UNCHANGED <<mem, owed, ch, overrun, batch, follower, writes>>

------------------------------------------------------------------------------
\* The follower.  A reset holds the journal lock from its first to its last
\* step, a line while it is applied and through the compaction it may bring.

Locked == \E h \in {"now", "late"} : posts[h].step \in 1..2

\* ResetFromSnapshot: the memory first.
ResetMemory(h) ==
    /\ posts[h].kind = "snapshot" /\ posts[h].step = 0
    /\ ~Locked
    /\ fmem' = posts[h].state
    /\ posts' = [posts EXCEPT ![h].step = 1]
    /\ UNCHANGED <<disk, writer>>

\* A handler has the lock to apply the next line of its batch.
Applying(h) ==
    /\ posts[h].kind = "append" /\ posts[h].step = 0
    /\ posts[h].lines # <<>>
    /\ ~Locked

NextLine(h) == Head(posts[h].lines)

\* The batch behind that line, which may have brought a compaction (step 1).
Behind(p, n) == [kind |-> p.kind, state |-> p.state, lines |-> Tail(p.lines), step |-> n]

\* ApplyReplicated: a line that is not skipped changes memory and journal, and
\* the journal may be due for compaction.
ApplyReplicated(h) ==
    /\ Applying(h)
    /\ \/ /\ Seen(fmem, NextLine(h))
          /\ posts' = [posts EXCEPT ![h] = Behind(@, 0)]
          /\ UNCHANGED <<fmem, disk>>
       \/ /\ ~Seen(fmem, NextLine(h)) /\ writer = "ok"
          /\ fmem' = Apply(fmem, NextLine(h))
          /\ disk' = [disk EXCEPT !.log = Append(@, NextLine(h))]
          /\ posts' = [posts EXCEPT ![h] =
                          Behind(@, IF Len(disk'.log) >= CompactEvery THEN 1 ELSE 0)]
    /\ writer' = writer

\* A line reaches the memory, and the handler fails before the file has it.
AppliesInMemory(h) ==
    /\ Applying(h)
    /\ ~Seen(fmem, NextLine(h))
    /\ fmem' = Apply(fmem, NextLine(h))

\* The snapshot file is replaced: by the snapshot received, or in compactLocked
\* by the follower's own.
RenameSnapshot(h) ==
    /\ posts[h].step = 1
    /\ disk' = [disk EXCEPT !.snap = IF posts[h].kind = "snapshot" THEN posts[h].state
                                     ELSE fmem]
    /\ posts' = [posts EXCEPT ![h].step = 2]
    /\ UNCHANGED <<fmem, writer>>

\* A reset ends here, after a compaction the batch goes on.
Truncated(h) ==
    posts' = [posts EXCEPT ![h].step = IF posts[h].kind = "snapshot" THEN 3 ELSE 0]

\* Mutant: the journal keeps the lines from before the snapshot.
KeepJournal(h) ==
    /\ posts[h].step = 2
    /\ Truncated(h)
    /\ UNCHANGED follower

\* f.Close, OpenFile(O_TRUNC), a new writer.
TruncateJournal(h) ==
    /\ posts[h].step = 2 /\ writer # "closed"
    /\ disk' = [disk EXCEPT !.log = <<>>]
    /\ writer' = "ok"
    /\ fmem' = fmem
    /\ Truncated(h)

Handle(h) ==
    /\ ResetMemory(h) \/ ApplyReplicated(h) \/ RenameSnapshot(h) \/ TruncateJournal(h)
    /\ UNCHANGED <<mem, owed, sender, writes, faults, clean>>

\* A post ends with an error; nobody waits for the late one's.
EndsInError(h) ==
    /\ posts' = [posts EXCEPT ![h] = NoPost]
    /\ IF h = "now" THEN Failed ELSE UNCHANGED <<needSync, mode>>
    /\ UNCHANGED <<mem, owed, ch, overrun, batch, writes, clean>>

\* The writer is broken: a line reaches the memory and not the journal, and a
\* closed file cannot be closed again.
Refused(h) ==
    /\ \/ writer # "ok" /\ AppliesInMemory(h)
       \/ posts[h].step = 2 /\ writer = "closed" /\ fmem' = fmem
    /\ EndsInError(h)
    /\ UNCHANGED <<disk, writer, faults>>

\* A lost request, a lost answer, or a handler that fails where it is: a line
\* that is applied may not reach the file, and a journal that was closed may
\* not open again.
PostFails(h) ==
    /\ faults < MaxFaults
    /\ posts[h] # NoPost
    /\ \/ /\ fmem' = fmem
          /\ writer' = IF posts[h].step = 2 THEN "closed" ELSE writer
       \/ writer = "ok" /\ AppliesInMemory(h) /\ writer' = "failed"
    /\ EndsInError(h)
    /\ faults' = faults + 1
    /\ disk' = disk

\* The answer of a handler nobody waits for.
LateAnswer ==
    /\ Done(posts.late)
    /\ posts' = [posts EXCEPT !.late = NoPost]
    /\ UNCHANGED <<mem, owed, sender, follower, writes, faults, clean>>

\* load: the snapshot and every journal line after it.
Recovered == ApplyAll(disk.snap, disk.log)

\* The follower dies and is opened again.
FollowerCrash ==
    /\ faults < MaxFaults
    /\ fmem' = Recovered
    /\ writer' = "ok"
    /\ posts' = [now |-> NoPost, late |-> NoPost]
    /\ Failed
    /\ faults' = faults + 1
    /\ UNCHANGED <<mem, owed, ch, overrun, batch, disk, writes, clean>>

------------------------------------------------------------------------------
Writes ==
    \/ \E k \in Keys, v \in {0, writes + 1} : Write([key |-> k, ver |-> v])
    \/ Write([key |-> Hist, ver |-> Len(mem.hist) + 1])

Handlers == \E h \in {"now", "late"} : Handle(h) \/ Refused(h)

Next ==
    \/ Writes
    \/ \E l \in owed : Tap(l)
    \/ TakeOverrun
    \/ TakeLine
    \/ Tick
    \/ Close
    \/ PostSucceeds
    \/ \E h \in {"now", "late"} : PostFails(h)
    \/ PostTimesOut
    \/ Handlers
    \/ LateAnswer
    \/ FollowerCrash

\* A writer journals its line, the loop's select takes every ready case, the
\* ticker fires, and a handler that runs comes to its end.  Nothing is assumed
\* of writes, faults, timeouts and Close.
Fairness ==
    /\ WF_vars(\E l \in owed : Tap(l))
    /\ WF_vars(TakeOverrun)
    /\ WF_vars(TakeLine)
    /\ WF_vars(Tick)
    /\ WF_vars(PostSucceeds)
    /\ WF_vars(Handlers)
    /\ WF_vars(LateAnswer)

Spec == Init /\ [][Next]_vars
FairSpec == Spec /\ Fairness

------------------------------------------------------------------------------
State == [kv : [Keys -> Nat], hist : Seq(Nat)]
Post == [kind : {"none", "snapshot", "append"}, state : State,
         lines : Seq(Line), step : 0..3]

\* Channel, batch, posts and follower have their types, and the channel never
\* holds more than its buffer (the tap of NewSender).
TypeOK ==
    /\ mem \in State
    /\ owed \subseteq Line
    /\ ch \in Seq(Line) /\ Len(ch) <= Buffer
    /\ overrun \in BOOLEAN /\ needSync \in BOOLEAN
    /\ batch \in Seq(Line)
    /\ mode \in {"running", "closing", "closed"}
    /\ posts \in [now : Post, late : Post]
    /\ fmem \in State
    /\ disk \in [snap : State, log : Seq(Line)]
    /\ writer \in {"ok", "failed", "closed"}
    /\ writes \in 0..MaxWrites /\ faults \in 0..MaxFaults
    /\ clean \in BOOLEAN

\* What lines do to a follower that skips what it has seen.
Take(s, l) == IF Seen(s, l) THEN s ELSE Apply(s, l)

Receive(s, lines) ==
    LET after[i \in 0..Len(lines)] ==
            IF i = 0 THEN s ELSE Take(after[i - 1], lines[i])
    IN  after[Len(lines)]

\* Where the next lines will land: the follower, or the snapshot that is sent
\* or will be.
Base ==
    CASE ~needSync -> fmem
      [] needSync /\ posts.now # NoPost -> posts.now.state
      [] OTHER -> mem

\* The journaled lines that are to follow it: what is left of the post that is
\* out, or the batch, and the channel.
Journaled ==
    CASE needSync -> ch
      [] ~needSync /\ posts.now # NoPost -> posts.now.lines \o ch
      [] OTHER -> batch \o ch

\* The orders in which a set of lines may be journaled.
Orders(S) == {q \in [1..Cardinality(S) -> S] : Range(q) = S}

Quiescent ==
    /\ mode = "running"
    /\ owed = {} /\ ch = <<>> /\ batch = <<>>
    /\ ~overrun /\ ~needSync
    /\ posts = [now |-> NoPost, late |-> NoPost]

------------------------------------------------------------------------------
\* Lost requests, lost answers, half-applied batches and follower restarts in
\* between: what the follower has (or the snapshot on its way), with the lines
\* still to come in whatever order their writers journal them, is always
\* exactly the leader's state.
StreamComplete ==
    clean /\ mode = "running" =>
        \A order \in Orders(owed) : Receive(Base, Journaled \o order) = mem

\* The audit trail of a follower in sync has no event twice and none out of
\* order, whatever a resync overlaps.
HistoryOnce ==
    clean /\ ~needSync =>
        \A i, j \in DOMAIN fmem.hist : i < j => fmem.hist[i] < fmem.hist[j]

\* Promotion: opening the store of a follower in sync gives what it
\* acknowledged, whichever write of a reset or of a batch a failure hit before.
\* Only between the rename and the truncation of the follower's own compaction
\* would the audit trail come back with events twice, and with none missing.
PromotionComplete ==
    clean /\ ~needSync =>
        /\ Recovered.kv = fmem.kv
        /\ Range(Recovered.hist) = Range(fmem.hist)
        /\ posts.now.step # 2 => Recovered = fmem

\* Every overrun and every failed post is repaired by a snapshot that arrives,
\* unless the follower could not reopen its journal.
ResyncCompletes ==
    overrun \/ needSync ~>
        (~overrun /\ ~needSync) \/ mode # "running" \/ writer = "closed"

\* When the writes end, the follower comes to hold the leader's state for good,
\* unless lines were dropped, a post was given up on or the follower could not
\* reopen its journal.
Converges ==
    <>[](fmem = mem \/ ~clean \/ mode # "running" \/ writer = "closed")

------------------------------------------------------------------------------
\* The package comment: "Any error or buffer overflow triggers a full snapshot
\* resync, so the follower converges no matter what was lost in between."
Converged == Quiescent => fmem = mem
==============================================================================
