-------------------------- MODULE ReplicationProofs --------------------------
(***************************************************************************)
(* Proofs about Replication: what a follower holds, for every buffer,      *)
(* batch, number of keys, writes and faults.  What a sequence of lines     *)
(* does to a store is shown by looking at the shortest sequence for which  *)
(* it would fail.                                                          *)
(***************************************************************************)
EXTENDS Replication, TLAPS, FiniteSetTheorems, WellFoundedInduction

\* A nonempty set of numbers has a least one.
LEMMA LeastExists ==
    ASSUME NEW S \in SUBSET Nat, S # {}
    PROVE  \E n \in S : \A m \in S : n <= m
<1> DEFINE R == OpToRel(<, Nat)
<1>1. IsWellFoundedOn(R, Nat)
  BY NatLessThanWellFounded
<1>2. PICK x \in S : \A y \in S : ~ (<<y, x>> \in R)
  <2> HIDE DEF R
  <2> QED BY <1>1, WFMin
<1>3. \A y \in Nat : y < x => <<y, x>> \in R
  BY <1>2 DEF OpToRel
<1>4. \A y \in S : x <= y
  <2> HIDE DEF R
  <2> SUFFICES ASSUME NEW y \in S, ~(x <= y) PROVE FALSE
    OBVIOUS
  <2>1. y < x /\ y \in Nat
    OBVIOUS
  <2> QED BY <1>2, <1>3, <2>1
<1> QED BY <1>2, <1>4

\* The first n + 1 states of a replay.
Chain(f, n, s, lines) ==
    f[0] = s /\ \A i \in 1..n : f[i] = Apply(f[i - 1], lines[i])

\* apply yields a state.
LEMMA ApplyTyped ==
    ASSUME NEW s \in State, NEW l \in Line
    PROVE  Apply(s, l) \in State
<1>1. CASE l.key = Hist
  <2>1. s = [kv |-> s.kv, hist |-> s.hist] /\ s.kv \in [Keys -> Nat]
        /\ s.hist \in Seq(Nat) /\ l.ver \in Nat
    BY DEF State, Line
  <2>2. Append(s.hist, l.ver) \in Seq(Nat)
    BY <2>1
  <2>3. Apply(s, l) = [kv |-> s.kv, hist |-> Append(s.hist, l.ver)]
    BY <1>1, <2>1 DEF Apply
  <2> QED BY <2>1, <2>2, <2>3 DEF State
<1>2. CASE l.key # Hist
  BY <1>2 DEF Apply, State, Line
<1> QED BY <1>1, <1>2

\* Every replay has its states.
LEMMA ChainExists ==
    ASSUME NEW s \in State, NEW lines \in Seq(Line)
    PROVE  \A n \in 0..Len(lines) : \E f \in [0..n -> State] : Chain(f, n, s, lines)
<1> DEFINE Good(n) == \E f \in [0..n -> State] : Chain(f, n, s, lines)
           Bad == {n \in 0..Len(lines) : ~Good(n)}
<1> SUFFICES ASSUME Bad # {} PROVE FALSE
  OBVIOUS
<1>1. PICK n \in Bad : \A m \in Bad : n <= m
  <2>1. Bad \in SUBSET Nat
    OBVIOUS
  <2> HIDE DEF Bad
  <2> QED BY <2>1, LeastExists
<1>2. n \in 0..Len(lines) /\ Len(lines) \in Nat
  BY <1>1
<1>3. CASE n = 0
  <2> DEFINE f == [i \in 0..0 |-> s]
  <2>1. f \in [0..0 -> State] /\ f[0] = s /\ 1..0 = {}
    OBVIOUS
  <2> HIDE DEF f
  <2>2. Chain(f, 0, s, lines)
    BY <2>1 DEF Chain
  <2> QED BY <1>1, <1>3, <2>1, <2>2
<1>4. CASE n # 0
  <2>1. n - 1 \in 0..Len(lines) /\ ~(n <= n - 1)
    BY <1>2, <1>4
  <2>2. Good(n - 1)
    BY <1>1, <2>1
  <2>3. PICK g \in [0..(n - 1) -> State] : Chain(g, n - 1, s, lines)
    BY <2>2
  <2> DEFINE f == [i \in 0..n |-> IF i = n THEN Apply(g[n - 1], lines[n]) ELSE g[i]]
  <2>4. lines[n] \in Line /\ g[n - 1] \in State
    BY <1>2, <1>4, <2>1
  <2>5. Apply(g[n - 1], lines[n]) \in State
    BY <2>4, ApplyTyped
  <2>6. f \in [0..n -> State]
    BY <1>2, <2>5
  <2>7. f[n] = Apply(g[n - 1], lines[n]) /\ \A i \in 0..(n - 1) : f[i] = g[i]
    BY <1>2, <1>4
  <2> HIDE DEF f
  <2>8. f[0] = s
    BY <1>2, <1>4, <2>3, <2>7 DEF Chain
  <2>9. ASSUME NEW i \in 1..n PROVE f[i] = Apply(f[i - 1], lines[i])
    <3>1. CASE i = n
      BY <1>2, <1>4, <2>7, <3>1
    <3>2. CASE i # n
      <4>1. i \in 1..(n - 1) /\ i \in 0..(n - 1) /\ i - 1 \in 0..(n - 1)
        BY <1>2, <3>2
      <4> QED BY <2>3, <2>7, <4>1 DEF Chain
    <3> QED BY <3>1, <3>2
  <2>10. Chain(f, n, s, lines)
    BY <2>8, <2>9 DEF Chain
  <2> QED BY <1>1, <2>6, <2>10
<1> QED BY <1>3, <1>4

\* Two replays that start alike go alike, as far as their lines agree.
LEMMA ChainUnique ==
    ASSUME NEW s, NEW N \in Nat, NEW a, NEW b, \A i \in 1..N : a[i] = b[i],
           NEW f, NEW g, Chain(f, N, s, a), Chain(g, N, s, b)
    PROVE  \A i \in 0..N : f[i] = g[i]
<1> DEFINE Bad == {i \in 0..N : f[i] # g[i]}
<1> SUFFICES ASSUME Bad # {} PROVE FALSE
  OBVIOUS
<1>1. PICK n \in Bad : \A m \in Bad : n <= m
  <2>1. Bad \in SUBSET Nat
    OBVIOUS
  <2> HIDE DEF Bad
  <2> QED BY <2>1, LeastExists
<1>2. n # 0
  BY <1>1 DEF Chain
<1>3. n \in 1..N /\ n - 1 \in 0..N /\ ~(n <= n - 1)
  BY <1>1, <1>2
<1>4. f[n - 1] = g[n - 1]
  BY <1>1, <1>3
<1> QED BY <1>1, <1>3, <1>4 DEF Chain

\* What load computes is the last state of a replay.
LEMMA ReplayIs ==
    ASSUME NEW s \in State, NEW lines \in Seq(Line)
    PROVE  /\ Replay(s, lines) \in [0..Len(lines) -> State]
           /\ Chain(Replay(s, lines), Len(lines), s, lines)
<1> DEFINE N == Len(lines)
           F(f) == [i \in 0..N |-> IF i = 0 THEN s ELSE Apply(f[i - 1], lines[i])]
<1>1. N \in Nat /\ 0 \in 0..N
  OBVIOUS
<1>2. PICK f \in [0..N -> State] : Chain(f, N, s, lines)
  BY <1>1, ChainExists
<1>3. f = F(f)
  BY <1>1, <1>2 DEF Chain
<1>4. Replay(s, lines) = CHOOSE g : g = F(g)
  BY DEF Replay
<1>5. PICK g : g = Replay(s, lines) /\ g = F(g)
  BY <1>3, <1>4
<1>6. Chain(g, N, s, lines)
  <2>1. g[0] = s
    BY <1>1, <1>5
  <2>2. \A i \in 1..N : g[i] = Apply(g[i - 1], lines[i])
    BY <1>1, <1>5
  <2> QED BY <2>1, <2>2 DEF Chain
<1>7. \A i \in 0..N : g[i] = f[i]
  BY <1>1, <1>2, <1>6, ChainUnique
<1>8. DOMAIN g = 0..N /\ g = [i \in 0..N |-> g[i]]
  BY <1>5
<1>9. g \in [0..N -> State]
  BY <1>2, <1>7, <1>8
<1> QED BY <1>5, <1>6, <1>9

\* load without a journal line, and with one more.
LEMMA ApplyAllNone ==
    ASSUME NEW s \in State
    PROVE  ApplyAll(s, <<>>) = s
<1>1. <<>> \in Seq(Line) /\ Len(<<>>) = 0
  OBVIOUS
<1> QED BY <1>1, ReplayIs DEF ApplyAll, Chain

\* A complete store stays complete, whatever lines are applied to it.
LEMMA ApplyAllTyped ==
    ASSUME NEW s \in State, NEW lines \in Seq(Line)
    PROVE  ApplyAll(s, lines) \in State
<1>1. Len(lines) \in 0..Len(lines)
  OBVIOUS
<1> QED BY <1>1, ReplayIs DEF ApplyAll

\* Applying one more line is applying it to what the others gave.
LEMMA ApplyAllAppend ==
    ASSUME NEW s \in State, NEW lines \in Seq(Line), NEW l \in Line
    PROVE  ApplyAll(s, Append(lines, l)) = Apply(ApplyAll(s, lines), l)
<1> DEFINE N == Len(lines)
           more == Append(lines, l)
           f == Replay(s, lines)
           g == Replay(s, more)
<1>1. /\ N \in Nat /\ more \in Seq(Line) /\ Len(more) = N + 1
      /\ more[N + 1] = l /\ \A i \in 1..N : more[i] = lines[i]
  OBVIOUS
<1>2. Chain(f, N, s, lines)
  BY ReplayIs
<1>3. Chain(g, N + 1, s, more)
  <2> HIDE DEF more
  <2> QED BY <1>1, ReplayIs
<1> HIDE DEF more, f, g
<1>4. Chain(g, N, s, more)
  BY <1>1, <1>3 DEF Chain
<1>5. g[N] = f[N]
  <2> HIDE DEF N
  <2>1. N \in Nat /\ \A i \in 1..N : more[i] = lines[i]
    BY <1>1
  <2>2. \A i \in 0..N : g[i] = f[i]
    BY <1>2, <1>4, <2>1, ChainUnique
  <2> QED BY <2>1, <2>2
<1>6. N + 1 \in 1..(N + 1) /\ (N + 1) - 1 = N
  BY <1>1
<1>7. g[N + 1] = Apply(g[N], l)
  BY <1>1, <1>3, <1>6 DEF Chain
<1> QED BY <1>1, <1>5, <1>7 DEF ApplyAll, f, g, more

------------------------------------------------------------------------------
\* Type correctness.

Posts == [now : Post, late : Post]

\* What the sender posts is a post.
LEMMA PostsTyped ==
    /\ Empty \in State /\ NoPost \in Post
    /\ \A s \in State : SnapshotPost(s) \in Post
    /\ \A b \in Seq(Line) : AppendPost(b) \in Post
<1>1. Empty \in State
  BY DEF Empty, State
<1>2. <<>> \in Seq(Line) /\ 0 \in 0..3
  OBVIOUS
<1>3. NoPost \in Post
  BY <1>1, <1>2 DEF NoPost, Post
<1>4. ASSUME NEW s \in State PROVE SnapshotPost(s) \in Post
  BY <1>1, <1>2 DEF SnapshotPost, NoPost, Post
<1>5. ASSUME NEW b \in Seq(Line) PROVE AppendPost(b) \in Post
  BY <1>1, <1>2 DEF AppendPost, NoPost, Post
<1> QED BY <1>1, <1>3, <1>4, <1>5

\* Replacing one of the two posts changes that one only.
LEMMA PostReplaced ==
    ASSUME NEW r \in Posts, NEW q \in Post
    PROVE  /\ [r EXCEPT !.now = q] \in Posts
           /\ [r EXCEPT !.now = q].now = q /\ [r EXCEPT !.now = q].late = r.late
           /\ [r EXCEPT !.late = q] \in Posts
           /\ [r EXCEPT !.late = q].late = q /\ [r EXCEPT !.late = q].now = r.now
BY DEF Posts

\* Handler h goes from its post to q, the other stays where it is.
LEMMA Placed ==
    ASSUME NEW r \in Posts, NEW h \in {"now", "late"}, NEW q \in Post
    PROVE  /\ [r EXCEPT ![h] = q] \in Posts /\ r[h] \in Post
           /\ h = "now" => [r EXCEPT ![h] = q].now = q /\ [r EXCEPT ![h] = q].late = r.late
           /\ h = "late" => [r EXCEPT ![h] = q].late = q /\ [r EXCEPT ![h] = q].now = r.now
           /\ r["now"] = r.now /\ r["late"] = r.late
BY DEF Posts

\* The post p with other lines and another step.
Goes(p, ls, n) == [kind |-> p.kind, state |-> p.state, lines |-> ls, step |-> n]

\* The step of a post in one form.
LEMMA Stepped ==
    ASSUME posts \in Posts, NEW h \in {"now", "late"}, NEW n \in 0..3
    PROVE  /\ Goes(posts[h], posts[h].lines, n) \in Post
           /\ [posts EXCEPT ![h].step = n] = [posts EXCEPT ![h] = Goes(posts[h], posts[h].lines, n)]
<1> DEFINE m == Goes(posts[h], posts[h].lines, n)
<1>1. posts[h] \in Post /\ DOMAIN posts = {"now", "late"}
  BY DEF Posts
<1>2. m \in Post /\ [posts[h] EXCEPT !.step = n] = m
  BY <1>1 DEF Post, Goes
<1>3. [posts EXCEPT ![h].step = n] = [posts EXCEPT ![h] = [posts[h] EXCEPT !.step = n]]
  BY <1>1
<1> QED BY <1>2, <1>3

\* The steps of a handler: the memory of a reset, a line skipped or applied, the
\* rename and the truncation of a reset or a compaction.
Moves(h, q) ==
    LET p == posts[h]
    IN  /\ q.kind = p.kind /\ q.state = p.state
        /\ \/ /\ p.kind = "snapshot" /\ p.step = 0 /\ q.step = 1 /\ q.lines = p.lines
              /\ fmem' = p.state /\ disk' = disk
           \/ /\ p.kind = "append" /\ p.step = 0 /\ p.lines # <<>> /\ q.lines = Tail(p.lines)
              /\ \/ /\ Seen(fmem, Head(p.lines)) /\ q.step = 0
                    /\ UNCHANGED <<fmem, disk>>
                 \/ /\ ~Seen(fmem, Head(p.lines)) /\ q.step \in 0..1
                    /\ fmem' = Apply(fmem, Head(p.lines))
                    /\ disk' = [disk EXCEPT !.log = Append(@, Head(p.lines))]
           \/ /\ p.step = 1 /\ q.step = 2 /\ q.lines = p.lines /\ fmem' = fmem
              /\ disk' = [disk EXCEPT !.snap = IF p.kind = "snapshot" THEN p.state ELSE fmem]
           \/ /\ p.step = 2 /\ q.step = IF p.kind = "snapshot" THEN 3 ELSE 0
              /\ q.lines = p.lines /\ fmem' = fmem
              /\ disk' = [disk EXCEPT !.log = <<>>]

\* What one step of a handler does.
LEMMA HandleMoves ==
    ASSUME TypeOK, NEW h \in {"now", "late"}, Handle(h)
    PROVE  /\ \E q \in Post : posts' = [posts EXCEPT ![h] = q] /\ Moves(h, q)
           /\ writer' \in {"ok", "failed", "closed"}
           /\ UNCHANGED <<mem, owed, ch, overrun, needSync, batch, mode, writes, faults, clean>>
<1> DEFINE Q(ls, n) == Goes(posts[h], ls, n)
<1>1. posts \in Posts /\ posts[h] \in Post /\ posts[h].lines \in Seq(Line)
      /\ writer \in {"ok", "failed", "closed"}
  BY DEF TypeOK, Posts, Post
<1>2. UNCHANGED <<mem, owed, ch, overrun, needSync, batch, mode, writes, faults, clean>>
  BY DEF Handle, sender
<1>3. ASSUME NEW n \in 0..3
      PROVE  /\ Q(posts[h].lines, n) \in Post
             /\ [posts EXCEPT ![h].step = n] = [posts EXCEPT ![h] = Q(posts[h].lines, n)]
  <2> HIDE DEF Q
  <2>1. /\ Goes(posts[h], posts[h].lines, n) \in Post
        /\ [posts EXCEPT ![h].step = n] = [posts EXCEPT ![h] = Goes(posts[h], posts[h].lines, n)]
    BY <1>1, Stepped
  <2> QED BY <2>1 DEF Q
<1>4. CASE ResetMemory(h)
  <2>1. Moves(h, Q(posts[h].lines, 1)) /\ writer' = writer
    BY <1>4 DEF ResetMemory, Moves, Goes
  <2>2. posts' = [posts EXCEPT ![h].step = 1] /\ 1 \in 0..3
    BY <1>4 DEF ResetMemory
  <2> HIDE DEF Q
  <2> QED BY <1>1, <1>2, <1>3, <2>1, <2>2
<1>5. CASE ApplyReplicated(h)
  <2> DEFINE ls == Tail(posts[h].lines)
  <2>1. /\ posts[h].kind = "append" /\ posts[h].step = 0 /\ posts[h].lines # <<>>
        /\ writer' = writer
    BY <1>5 DEF ApplyReplicated, Applying
  <2>2. ls \in Seq(Line)
    BY <1>1, <2>1
  <2>3. ASSUME NEW n \in 0..3
        PROVE  Q(ls, n) \in Post /\ Behind(posts[h], n) = Q(ls, n)
    BY <1>1, <2>2 DEF Post, Goes, Behind
  <2>4. CASE Seen(fmem, NextLine(h))
    <3>1. posts' = [posts EXCEPT ![h] = Behind(posts[h], 0)] /\ UNCHANGED <<fmem, disk>>
      BY <1>1, <1>5, <2>4 DEF ApplyReplicated, Posts
    <3>2. Moves(h, Q(ls, 0))
      BY <2>1, <2>4, <3>1 DEF Moves, NextLine, Goes
    <3>3. 0 \in 0..3
      OBVIOUS
    <3> HIDE DEF Q, ls
    <3> QED BY <1>1, <1>2, <2>1, <2>3, <3>1, <3>2, <3>3
  <2>5. CASE ~Seen(fmem, NextLine(h))
    <3> DEFINE n == IF Len(disk'.log) >= CompactEvery THEN 1 ELSE 0
    <3>1. /\ posts' = [posts EXCEPT ![h] = Behind(posts[h], n)]
          /\ fmem' = Apply(fmem, NextLine(h))
          /\ disk' = [disk EXCEPT !.log = Append(@, NextLine(h))]
      BY <1>1, <1>5, <2>5 DEF ApplyReplicated, Posts
    <3>2. n \in 0..3 /\ n \in 0..1
      OBVIOUS
    <3> HIDE DEF n
    <3>3. Moves(h, Q(ls, n))
      BY <2>1, <2>5, <3>1, <3>2 DEF Moves, NextLine, Goes
    <3> HIDE DEF Q, ls
    <3> QED BY <1>1, <1>2, <2>1, <2>3, <3>1, <3>2, <3>3
  <2> QED BY <2>4, <2>5
<1>6. CASE RenameSnapshot(h)
  <2>1. Moves(h, Q(posts[h].lines, 2)) /\ writer' = writer
    BY <1>6 DEF RenameSnapshot, Moves, Goes
  <2>2. posts' = [posts EXCEPT ![h].step = 2] /\ 2 \in 0..3
    BY <1>6 DEF RenameSnapshot
  <2> HIDE DEF Q
  <2> QED BY <1>1, <1>2, <1>3, <2>1, <2>2
<1>7. CASE TruncateJournal(h)
  <2> DEFINE n == IF posts[h].kind = "snapshot" THEN 3 ELSE 0
  <2>1. Moves(h, Q(posts[h].lines, n)) /\ writer' = "ok"
    BY <1>7 DEF TruncateJournal, Moves, Goes
  <2>2. posts' = [posts EXCEPT ![h].step = n] /\ n \in 0..3
    BY <1>7 DEF TruncateJournal, Truncated
  <2> HIDE DEF Q, n
  <2> QED BY <1>1, <1>2, <1>3, <2>1, <2>2
<1> QED BY <1>4, <1>5, <1>6, <1>7 DEF Handle

\* What a post that ends with an error leaves.
LEMMA ErrorEnds ==
    ASSUME TypeOK, NEW h \in {"now", "late"}, Refused(h) \/ PostFails(h)
    PROVE  /\ posts' = [posts EXCEPT ![h] = NoPost] /\ posts[h] # NoPost
           /\ h = "now" => Failed
           /\ h = "late" => UNCHANGED <<needSync, mode>>
           /\ UNCHANGED <<mem, owed, ch, overrun, batch, writes, clean, disk>>
           /\ fmem' \in State /\ writer' \in {"ok", "failed", "closed"}
           /\ faults' \in 0..MaxFaults
<1>1. EndsInError(h)
  BY DEF Refused, PostFails
<1>2. posts[h] # NoPost
  BY DEF Refused, PostFails, AppliesInMemory, Applying, NoPost
<1>3. fmem' = fmem \/ AppliesInMemory(h)
  BY DEF Refused, PostFails
<1>4. fmem' \in State
  <2>1. CASE AppliesInMemory(h)
    <3>1. posts[h].lines \in Seq(Line) /\ posts[h].lines # <<>>
      BY <2>1 DEF AppliesInMemory, Applying, TypeOK, Post
    <3>2. NextLine(h) \in Line
      BY <3>1 DEF NextLine
    <3> QED BY <2>1, <3>2, ApplyTyped DEF AppliesInMemory, TypeOK
  <2> QED BY <1>3, <2>1 DEF TypeOK
<1>5. faults' \in 0..MaxFaults /\ writer' \in {"ok", "failed", "closed"}
  BY ReplicationAssumption DEF Refused, PostFails, TypeOK
<1>6. disk' = disk
  BY DEF Refused, PostFails
<1> QED BY <1>1, <1>2, <1>4, <1>5, <1>6 DEF EndsInError

\* flush posts a snapshot, a batch or nothing.
LEMMA FlushPosts ==
    ASSUME TypeOK, NEW b \in Seq(Line), Flush(b)
    PROVE  /\ batch' = b
           /\ \/ needSync /\ posts' = [posts EXCEPT !.now = SnapshotPost(mem)]
              \/ ~needSync /\ posts' = [posts EXCEPT !.now = AppendPost(b)]
              \/ posts' = posts
           /\ posts' \in Posts
<1>1. posts \in Posts /\ mem \in State
  BY DEF TypeOK, Posts
<1>2. /\ batch' = b
      /\ \/ needSync /\ posts' = [posts EXCEPT !.now = SnapshotPost(mem)]
         \/ ~needSync /\ posts' = [posts EXCEPT !.now = AppendPost(b)]
         \/ posts' = posts
  BY DEF Flush
<1> QED BY <1>1, <1>2, PostsTyped, PostReplaced

\* The leader, the channel and the sender's loop keep their types.
LEMMA SenderTypes ==
    ASSUME TypeOK, \/ Writes \/ (\E l \in owed : Tap(l)) \/ TakeOverrun \/ TakeLine
                   \/ Tick \/ Close
    PROVE  TypeOK'
<1> USE ReplicationAssumption
<1>1. ASSUME NEW l \in Line, Write(l)
      PROVE  TypeOK'
  <2>1. mem' \in State
    BY <1>1, ApplyTyped DEF Write, TypeOK
  <2>2. writes' \in 0..MaxWrites /\ owed' \subseteq Line
    BY <1>1 DEF Write, TypeOK
  <2>3. UNCHANGED <<ch, overrun, needSync, batch, mode, posts, fmem, disk, writer, faults, clean>>
    BY <1>1 DEF Write, sender, follower
  <2> QED BY <2>1, <2>2, <2>3 DEF TypeOK
<1>2. ASSUME Writes
      PROVE  TypeOK'
  <2>1. ASSUME NEW k \in Keys, NEW v \in {0, writes + 1}
        PROVE  [key |-> k, ver |-> v] \in Line
    <3>1. v \in Nat
      BY DEF TypeOK
    <3> QED BY <3>1 DEF Line
  <2>2. [key |-> Hist, ver |-> Len(mem.hist) + 1] \in Line
    <3>1. Len(mem.hist) + 1 \in Nat
      BY DEF TypeOK, State
    <3> QED BY <3>1 DEF Line
  <2> QED BY <1>1, <1>2, <2>1, <2>2 DEF Writes
<1>3. ASSUME NEW l \in owed, Tap(l)
      PROVE  TypeOK'
  <2>1. l \in Line
    BY DEF TypeOK
  <2>2. ch' \in Seq(Line) /\ Len(ch') <= Buffer
    <3>1. CASE Len(ch) >= Buffer
      BY <1>3, <3>1 DEF Tap, TypeOK
    <3>2. CASE ~(Len(ch) >= Buffer)
      <4>1. ch' = Append(ch, l) /\ Len(ch) < Buffer /\ ch \in Seq(Line)
        BY <1>3, <3>2 DEF Tap, TypeOK
      <4> QED BY <2>1, <4>1
    <3> QED BY <3>1, <3>2
  <2>3. overrun' \in BOOLEAN /\ clean' \in BOOLEAN
    BY <1>3 DEF Tap, TypeOK
  <2>4. owed' \subseteq Line
    BY <1>3 DEF Tap, TypeOK
  <2>5. UNCHANGED <<mem, needSync, batch, mode, posts, fmem, disk, writer, writes, faults>>
    BY <1>3 DEF Tap, follower
  <2> QED BY <2>2, <2>3, <2>4, <2>5 DEF TypeOK
<1>4. CASE TakeOverrun
  BY <1>4 DEF TakeOverrun, TypeOK, follower
<1>5. CASE TakeLine
  <2> DEFINE b == Append(batch, Head(ch))
  <2>1. ch \in Seq(Line) /\ ch # <<>> /\ batch \in Seq(Line) /\ ch' = Tail(ch)
    BY <1>5 DEF TakeLine, TypeOK
  <2>2. b \in Seq(Line) /\ ch' \in Seq(Line) /\ Len(ch') <= Len(ch) /\ Len(ch') \in Nat
    BY <2>1
  <2>3. Flush(b) \/ (batch' = b /\ posts' = posts)
    BY <1>5 DEF TakeLine
  <2> HIDE DEF b
  <2>4. batch' \in Seq(Line) /\ posts' \in Posts
    BY <2>2, <2>3, FlushPosts DEF TypeOK, Posts
  <2>5. Len(ch') <= Buffer
    BY <2>1, <2>2 DEF TypeOK
  <2>6. UNCHANGED <<mem, owed, overrun, needSync, mode, fmem, disk, writer, writes, faults, clean>>
    BY <1>5 DEF TakeLine, follower
  <2> QED BY <2>2, <2>4, <2>5, <2>6 DEF TypeOK, Posts
<1>6. CASE Tick
  <2>1. batch' \in Seq(Line) /\ posts' \in Posts
    BY <1>6, FlushPosts DEF Tick, TypeOK
  <2>2. UNCHANGED <<mem, owed, ch, overrun, needSync, mode, fmem, disk, writer, writes, faults,
                    clean>>
    BY <1>6 DEF Tick, follower
  <2> QED BY <2>1, <2>2 DEF TypeOK, Posts
<1>7. CASE Close
  <2>1. batch \o ch \in Seq(Line)
    BY DEF TypeOK
  <2>2. batch' \in Seq(Line) /\ posts' \in Posts
    BY <1>7, <2>1, FlushPosts DEF Close
  <2>3. ch' \in Seq(Line) /\ Len(ch') <= Buffer
    BY <1>7 DEF Close
  <2>4. mode' \in {"running", "closing", "closed"}
    BY <1>7 DEF Close
  <2>5. UNCHANGED <<mem, owed, overrun, needSync, fmem, disk, writer, writes, faults, clean>>
    BY <1>7 DEF Close, follower
  <2> QED BY <2>2, <2>3, <2>4, <2>5 DEF TypeOK, Posts
<1> QED BY <1>2, <1>3, <1>4, <1>5, <1>6, <1>7

\* The answers, the follower's handlers and its restart keep theirs.
LEMMA FollowerTypes ==
    ASSUME TypeOK, \/ PostSucceeds \/ PostTimesOut \/ Handlers \/ LateAnswer \/ FollowerCrash
                   \/ \E h \in {"now", "late"} : PostFails(h)
    PROVE  TypeOK'
<1> USE ReplicationAssumption, PostsTyped
<1>1. posts \in Posts /\ posts.now \in Post /\ posts.late \in Post
  BY DEF TypeOK, Posts
<1>2. Resumed => mode' \in {"running", "closing", "closed"}
  BY DEF Resumed, TypeOK
<1>3. Failed => mode' \in {"running", "closing", "closed"} /\ needSync' \in BOOLEAN
  BY <1>2 DEF Failed, TypeOK
<1>4. faults < MaxFaults /\ faults' = faults + 1 => faults' \in 0..MaxFaults
  BY DEF TypeOK
<1>5. [now |-> NoPost, late |-> NoPost] \in Posts
  BY DEF Posts
<1>6. [now |-> NoPost, late |-> posts.now] \in Posts
  BY <1>1 DEF Posts
<1>7. CASE PostSucceeds
  <2>1. posts' \in Posts
    BY <1>1, <1>7, PostReplaced DEF PostSucceeds
  <2>2. needSync' \in BOOLEAN /\ batch' \in Seq(Line)
    BY <1>7 DEF PostSucceeds, TypeOK
  <2>3. ch' \in Seq(Line) /\ Len(ch') <= Buffer
    BY <1>7 DEF PostSucceeds, TypeOK
  <2>4. UNCHANGED <<mem, owed, overrun, fmem, disk, writer, writes, faults, clean>> /\ Resumed
    BY <1>7 DEF PostSucceeds, follower
  <2> QED BY <1>2, <2>1, <2>2, <2>3, <2>4 DEF TypeOK, Posts
<1>8. ASSUME NEW h \in {"now", "late"}, Refused(h) \/ PostFails(h)
      PROVE  TypeOK'
  <2>1. posts' \in Posts
    BY <1>1, <1>8, ErrorEnds, Placed
  <2>2. mode' \in {"running", "closing", "closed"} /\ needSync' \in BOOLEAN
    BY <1>3, <1>8, ErrorEnds DEF TypeOK
  <2> QED BY <1>8, <2>1, <2>2, ErrorEnds DEF TypeOK, Posts
<1>9. CASE PostTimesOut
  <2>1. UNCHANGED <<mem, owed, ch, overrun, batch, fmem, disk, writer, writes>>
        /\ Failed /\ faults' \in 0..MaxFaults /\ posts' \in Posts /\ clean' \in BOOLEAN
    BY <1>4, <1>6, <1>9 DEF PostTimesOut, follower
  <2> QED BY <1>3, <2>1 DEF TypeOK, Posts
<1>10. ASSUME NEW h \in {"now", "late"}, Handle(h)
       PROVE  TypeOK'
  <2>1. PICK q \in Post : posts' = [posts EXCEPT ![h] = q] /\ Moves(h, q)
    BY <1>10, HandleMoves
  <2>2. posts' \in Posts
    BY <1>1, <2>1, Placed
  <2>3. /\ posts[h].state \in State /\ posts[h].lines \in Seq(Line)
        /\ fmem \in State /\ disk \in [snap : State, log : Seq(Line)]
    BY DEF TypeOK, Post
  <2>4. fmem' \in State /\ disk' \in [snap : State, log : Seq(Line)]
    <3>1. CASE posts[h].lines # <<>>
      <4>1. Head(posts[h].lines) \in Line
        BY <2>3, <3>1
      <4>2. Apply(fmem, Head(posts[h].lines)) \in State
            /\ Append(disk.log, Head(posts[h].lines)) \in Seq(Line)
        BY <2>3, <4>1, ApplyTyped
      <4>3. [disk EXCEPT !.log = Append(@, Head(posts[h].lines))]
               = [disk EXCEPT !.log = Append(disk.log, Head(posts[h].lines))]
        BY <2>3
      <4>4. \/ fmem' = posts[h].state /\ disk' = disk
            \/ UNCHANGED <<fmem, disk>>
            \/ /\ fmem' = Apply(fmem, Head(posts[h].lines))
               /\ disk' = [disk EXCEPT !.log = Append(disk.log, Head(posts[h].lines))]
            \/ fmem' = fmem /\ disk' = [disk EXCEPT !.snap = posts[h].state]
            \/ fmem' = fmem /\ disk' = [disk EXCEPT !.snap = fmem]
            \/ fmem' = fmem /\ disk' = [disk EXCEPT !.log = <<>>]
        BY <2>1, <4>3 DEF Moves
      <4>5. <<>> \in Seq(Line)
        OBVIOUS
      <4> DEFINE a == Apply(fmem, Head(posts[h].lines))
                 b == Append(disk.log, Head(posts[h].lines))
                 c == posts[h].state
      <4> HIDE DEF a, b, c
      <4>6. \/ fmem' = c /\ disk' = disk
            \/ UNCHANGED <<fmem, disk>>
            \/ fmem' = a /\ disk' = [disk EXCEPT !.log = b]
            \/ fmem' = fmem /\ disk' = [disk EXCEPT !.snap = c]
            \/ fmem' = fmem /\ disk' = [disk EXCEPT !.snap = fmem]
            \/ fmem' = fmem /\ disk' = [disk EXCEPT !.log = <<>>]
        BY <4>4 DEF a, b, c
      <4>7. a \in State /\ b \in Seq(Line) /\ c \in State
        BY <2>3, <4>2 DEF a, b, c
      <4> QED BY <2>3, <4>5, <4>6, <4>7
    <3>2. CASE posts[h].lines = <<>>
      BY <2>1, <2>3, <3>2 DEF Moves
    <3> QED BY <3>1, <3>2
  <2> QED BY <1>10, <2>2, <2>4, HandleMoves DEF TypeOK, Posts
<1>12. CASE LateAnswer
  <2>1. posts' \in Posts
    BY <1>1, <1>12, PostReplaced DEF LateAnswer
  <2>2. UNCHANGED <<mem, owed, ch, overrun, needSync, batch, mode, fmem, disk, writer, writes,
                    faults, clean>>
    BY <1>12 DEF LateAnswer, sender, follower
  <2> QED BY <2>1, <2>2 DEF TypeOK, Posts
<1>13. CASE FollowerCrash
  <2>1. Recovered \in State
    BY ApplyAllTyped DEF TypeOK, Recovered
  <2>2. UNCHANGED <<mem, owed, ch, overrun, batch, disk, writes, clean>> /\ fmem' \in State
        /\ Failed /\ faults' \in 0..MaxFaults /\ posts' \in Posts /\ writer' = "ok"
    BY <1>4, <1>5, <1>13, <2>1 DEF FollowerCrash
  <2> QED BY <1>3, <2>2 DEF TypeOK, Posts
<1> QED BY <1>7, <1>8, <1>9, <1>10, <1>12, <1>13 DEF Handlers

\* A new sender and an empty follower are well typed.
LEMMA TypeInit ==
    ASSUME Init
    PROVE  TypeOK
<1>1. mem \in State /\ fmem \in State /\ disk \in [snap : State, log : Seq(Line)]
      /\ writer \in {"ok", "failed", "closed"}
  BY PostsTyped DEF Init
<1>2. posts \in Posts
  BY PostsTyped DEF Init, Posts
<1>3. /\ owed \subseteq Line /\ overrun \in BOOLEAN /\ needSync \in BOOLEAN
      /\ mode \in {"running", "closing", "closed"} /\ clean \in BOOLEAN
  BY DEF Init
<1>4. ch \in Seq(Line) /\ Len(ch) <= Buffer /\ batch \in Seq(Line)
  BY ReplicationAssumption DEF Init
<1>5. writes \in 0..MaxWrites /\ faults \in 0..MaxFaults
  BY ReplicationAssumption DEF Init
<1> QED BY <1>1, <1>2, <1>3, <1>4, <1>5 DEF TypeOK, Posts

\* Every step of leader, sender and follower keeps the types.
LEMMA TypeStep ==
    ASSUME TypeOK, [Next]_vars
    PROVE  TypeOK'
<1>1. CASE UNCHANGED vars
  BY <1>1 DEF vars, sender, follower, TypeOK
<1> QED BY <1>1, SenderTypes, FollowerTypes DEF Next

\* The channel never outgrows its buffer, and what a follower holds is a
\* complete store after any sequence of failed resets and restarts.
THEOREM ReplicationTypes == Spec => []TypeOK
<1>1. Init => TypeOK
  BY TypeInit
<1>2. TypeOK /\ [Next]_vars => TypeOK'
  BY TypeStep
<1> QED BY <1>1, <1>2, PTL DEF Spec

------------------------------------------------------------------------------
\* A follower in sync.

\* What the sender's loop knows of the post that is out: a snapshot is out only
\* while a resync is due, lines only while it is not, and a handler nobody waits
\* for only after a timeout.
PostInv ==
    /\ posts.now.kind = "none" => posts.now = NoPost
    /\ posts.now.kind = "snapshot" => needSync
    /\ posts.now.kind = "append" => ~needSync /\ posts.now.step \in 0..2
    /\ clean => posts.late = NoPost

Increasing(h) == \A i, j \in DOMAIN h : i < j => h[i] < h[j]

\* The leader numbers its events one by one.
OrderInv ==
    /\ \A i \in DOMAIN mem.hist : mem.hist[i] = i
    /\ Increasing(posts.now.state.hist)

\* How far a reset has come.
ResetInv ==
    clean /\ posts.now.kind = "snapshot" =>
        /\ posts.now.step \in 1..3 => fmem = posts.now.state
        /\ posts.now.step \in 2..3 => disk.snap = posts.now.state
        /\ posts.now.step = 3 => disk.log = <<>>

\* Every line in the journal is in s already: a record's last line, every event.
Absorbed(s, lines) ==
    /\ \A k \in Keys : \A i \in DOMAIN lines :
          lines[i].key = k /\ (\A j \in DOMAIN lines : lines[j].key = k => j <= i)
              => s.kv[k] = lines[i].ver
    /\ \A i \in DOMAIN lines : lines[i].key = Hist =>
          \E j \in DOMAIN s.hist : s.hist[j] = lines[i].ver

\* The promise: a follower that is in sync can be promoted.  Once a compaction
\* has renamed its snapshot, the journal still holds lines the snapshot has.
InSyncInv ==
    clean /\ ~needSync =>
        /\ posts.now.step # 2 => Recovered = fmem
        /\ posts.now.step = 2 => disk.snap = fmem
        /\ Absorbed(fmem, disk.log)
        /\ Increasing(fmem.hist)

SyncInv == PostInv /\ OrderInv /\ ResetInv /\ InSyncInv

\* The fields of the posts the sender makes.
LEMMA PostFields ==
    /\ NoPost.kind = "none" /\ NoPost.step = 0 /\ Increasing(NoPost.state.hist)
    /\ \A s : /\ SnapshotPost(s).kind = "snapshot" /\ SnapshotPost(s).step = 0
              /\ SnapshotPost(s).state = s
    /\ \A b : /\ AppendPost(b).kind = "append" /\ AppendPost(b).step = 0
              /\ Increasing(AppendPost(b).state.hist)
<1>1. Empty.hist = <<>> /\ DOMAIN Empty.hist = {}
  BY DEF Empty
<1>2. NoPost.state = Empty /\ NoPost.kind = "none" /\ NoPost.step = 0
  BY DEF NoPost
<1>3. \A b : /\ AppendPost(b).kind = "append" /\ AppendPost(b).step = 0
             /\ AppendPost(b).state = Empty
  BY DEF AppendPost, NoPost
<1>4. \A s : /\ SnapshotPost(s).kind = "snapshot" /\ SnapshotPost(s).step = 0
             /\ SnapshotPost(s).state = s
  BY DEF SnapshotPost, NoPost
<1> QED BY <1>1, <1>2, <1>3, <1>4 DEF Increasing

\* The leader's events are in order.
LEMMA NumberedIncreasing ==
    ASSUME TypeOK, OrderInv
    PROVE  Increasing(mem.hist)
<1>1. DOMAIN mem.hist \subseteq Nat
  BY DEF TypeOK, State
<1> QED BY <1>1 DEF OrderInv, Increasing

\* Steps that leave posts and follower alone.
LEMMA AsideKeeps ==
    ASSUME TypeOK, SyncInv, UNCHANGED <<posts, fmem, disk>>, clean' => clean,
           needSync' = needSync \/ (needSync' = TRUE /\ posts.now = NoPost),
           \A i \in DOMAIN mem'.hist : mem'.hist[i] = i
    PROVE  SyncInv'
<1> USE DEF SyncInv
<1>1. PostInv'
  BY PostFields DEF PostInv
<1>2. OrderInv'
  BY DEF OrderInv
<1>3. ResetInv'
  BY DEF ResetInv
<1>4. InSyncInv'
  BY DEF InSyncInv, Recovered
<1> QED BY <1>1, <1>2, <1>3, <1>4

\* flush puts a post out where none was.
LEMMA FlushKeeps ==
    ASSUME TypeOK, SyncInv, posts.now = NoPost, NEW b \in Seq(Line),
           Flush(b) \/ posts' = posts,
           UNCHANGED <<mem, needSync, fmem, disk, clean>>
    PROVE  SyncInv'
<1> USE DEF SyncInv
<1>1. posts \in Posts /\ mem \in State
  BY DEF TypeOK, Posts
<1>2. CASE posts' = posts
  BY <1>2, AsideKeeps DEF OrderInv
<1>3. CASE needSync /\ posts' = [posts EXCEPT !.now = SnapshotPost(mem)]
  <2>1. /\ posts'.now = SnapshotPost(mem) /\ posts'.late = posts.late
    BY <1>1, <1>3, PostsTyped, PostReplaced
  <2>2. posts'.now.kind = "snapshot" /\ posts'.now.step = 0 /\ posts'.now.state = mem
    BY <2>1, PostFields
  <2>3. PostInv'
    BY <1>3, <2>1, <2>2 DEF PostInv
  <2>4. OrderInv'
    BY <2>2, NumberedIncreasing DEF OrderInv
  <2>5. ResetInv'
    BY <2>2 DEF ResetInv
  <2>6. InSyncInv'
    BY <2>2, PostFields DEF InSyncInv, Recovered
  <2> QED BY <2>3, <2>4, <2>5, <2>6
<1>4. CASE ~needSync /\ posts' = [posts EXCEPT !.now = AppendPost(b)]
  <2>1. posts'.now = AppendPost(b) /\ posts'.late = posts.late
    BY <1>1, <1>4, PostsTyped, PostReplaced
  <2>2. /\ posts'.now.kind = "append" /\ posts'.now.step = 0
        /\ Increasing(posts'.now.state.hist)
    BY <2>1, PostFields
  <2>3. PostInv'
    BY <1>4, <2>1, <2>2 DEF PostInv
  <2>4. OrderInv'
    BY <2>2 DEF OrderInv
  <2>5. ResetInv'
    BY <2>2 DEF ResetInv
  <2>6. InSyncInv'
    BY <2>2, PostFields DEF InSyncInv, Recovered
  <2> QED BY <2>3, <2>4, <2>5, <2>6
<1> QED BY <1>2, <1>3, <1>4, FlushPosts

\* A post that ends, well or not, leaves a follower the sender calls in sync
\* only if it is.
LEMMA AnswerKeeps ==
    ASSUME TypeOK, SyncInv, posts'.now = NoPost, clean' => posts'.late = NoPost /\ clean,
           UNCHANGED <<mem, disk>>,
           clean' /\ ~needSync' => /\ Recovered = fmem' /\ Absorbed(fmem', disk.log)
                                   /\ Increasing(fmem'.hist)
    PROVE  SyncInv'
<1> USE DEF SyncInv
<1>1. PostInv'
  BY PostFields DEF PostInv
<1>2. OrderInv'
  BY PostFields DEF OrderInv
<1>3. ResetInv'
  BY PostFields DEF ResetInv
<1>4. InSyncInv'
  BY PostFields DEF InSyncInv, Recovered
<1> QED BY <1>1, <1>2, <1>3, <1>4

\* A line that is not seen comes after every event there is.
LEMMA UnseenIncreasing ==
    ASSUME NEW s \in State, NEW l \in Line, ~Seen(s, l), Increasing(s.hist)
    PROVE  Increasing(Apply(s, l).hist)
<1>1. CASE l.key # Hist
  <2>1. Apply(s, l).hist = s.hist
    BY <1>1 DEF Apply, State
  <2> QED BY <2>1
<1>2. CASE l.key = Hist
  <2> DEFINE h == Append(s.hist, l.ver)
  <2>1. s.hist \in Seq(Nat) /\ l.ver \in Nat
    BY DEF State, Line
  <2>2. Apply(s, l).hist = h
    BY <1>2, <2>1 DEF Apply, State
  <2>3. \A i \in DOMAIN s.hist : s.hist[i] < l.ver
    BY <1>2, <2>1 DEF Seen
  <2>4. /\ DOMAIN h = 1..(Len(s.hist) + 1) /\ Len(s.hist) \in Nat
        /\ DOMAIN s.hist = 1..Len(s.hist)
        /\ h[Len(s.hist) + 1] = l.ver
        /\ \A i \in 1..Len(s.hist) : h[i] = s.hist[i]
    BY <2>1
  <2> HIDE DEF h
  <2>5. ASSUME NEW i \in DOMAIN h, NEW j \in DOMAIN h, i < j
        PROVE  h[i] < h[j]
    <3>1. i \in 1..Len(s.hist)
      BY <2>4, <2>5
    <3>2. CASE j = Len(s.hist) + 1
      BY <2>3, <2>4, <3>1, <3>2
    <3>3. CASE j # Len(s.hist) + 1
      <4>1. j \in 1..Len(s.hist)
        BY <2>4, <3>3
      <4> QED BY <2>4, <2>5, <3>1, <4>1 DEF Increasing
    <3> QED BY <3>2, <3>3
  <2> QED BY <2>2, <2>5 DEF Increasing
<1> QED BY <1>1, <1>2

\* A line that is applied is absorbed, and takes nothing from what was.
LEMMA AbsorbsLine ==
    ASSUME NEW s \in State, NEW lines \in Seq(Line), NEW l \in Line, Absorbed(s, lines)
    PROVE  Absorbed(Apply(s, l), Append(lines, l))
<1> DEFINE more == Append(lines, l)
           t == Apply(s, l)
           N == Len(lines)
<1>1. /\ N \in Nat /\ DOMAIN lines = 1..N /\ DOMAIN more = 1..(N + 1)
      /\ more[N + 1] = l /\ \A i \in 1..N : more[i] = lines[i]
  OBVIOUS
<1>2. s.kv \in [Keys -> Nat] /\ s.hist \in Seq(Nat) /\ l.key \in Keys \cup {Hist} /\ l.ver \in Nat
  BY DEF State, Line
<1>3. l.key = Hist => t.kv = s.kv /\ t.hist = Append(s.hist, l.ver)
  BY <1>2 DEF Apply, State
<1>4. l.key # Hist => t.kv = [s.kv EXCEPT ![l.key] = l.ver] /\ t.hist = s.hist
  BY <1>2 DEF Apply, State
<1> HIDE DEF more, t, N
<1>5. ASSUME NEW k \in Keys, NEW i \in DOMAIN more, more[i].key = k,
             \A j \in DOMAIN more : more[j].key = k => j <= i
      PROVE  t.kv[k] = more[i].ver
  <2>1. CASE l.key = k
    <3>1. i = N + 1
      BY <1>1, <1>5, <2>1
    <3> QED BY <1>1, <1>2, <1>4, <1>5, <2>1, <3>1, ReplicationAssumption
  <2>2. CASE l.key # k
    <3>1. i \in 1..N
      BY <1>1, <1>5, <2>2
    <3>2. s.kv[k] = lines[i].ver
      BY <1>1, <1>5, <3>1 DEF Absorbed
    <3> QED BY <1>1, <1>2, <1>3, <1>4, <2>2, <3>1, <3>2
  <2> QED BY <2>1, <2>2
<1>6. ASSUME NEW i \in DOMAIN more, more[i].key = Hist
      PROVE  \E j \in DOMAIN t.hist : t.hist[j] = more[i].ver
  <2>1. CASE i = N + 1
    <3>1. t.hist = Append(s.hist, l.ver) /\ more[i].ver = l.ver
      BY <1>1, <1>3, <1>6, <2>1
    <3>2. Len(s.hist) + 1 \in DOMAIN t.hist /\ t.hist[Len(s.hist) + 1] = l.ver
      BY <1>2, <3>1
    <3> QED BY <3>1, <3>2
  <2>2. CASE i # N + 1
    <3>1. i \in 1..N /\ lines[i].key = Hist
      BY <1>1, <1>6, <2>2
    <3>2. PICK j \in DOMAIN s.hist : s.hist[j] = lines[i].ver
      BY <1>1, <3>1 DEF Absorbed
    <3>3. j \in DOMAIN t.hist /\ t.hist[j] = s.hist[j]
      <4>1. CASE l.key = Hist
        <5>1. j \in 1..Len(s.hist) /\ j \in DOMAIN Append(s.hist, l.ver)
              /\ Append(s.hist, l.ver)[j] = s.hist[j]
          BY <1>2, <3>2
        <5> QED BY <1>3, <4>1, <5>1
      <4>2. CASE l.key # Hist
        BY <1>4, <3>2, <4>2
      <4> QED BY <4>1, <4>2
    <3> QED BY <1>1, <3>1, <3>2, <3>3
  <2> QED BY <2>1, <2>2
<1> QED BY <1>5, <1>6 DEF Absorbed, more, t

\* Lines that are absorbed change no record and add no event that is not there.
LEMMA ReplaysAbsorbed ==
    ASSUME NEW s \in State, NEW lines \in Seq(Line), Absorbed(s, lines)
    PROVE  /\ ApplyAll(s, lines).kv = s.kv
           /\ Range(ApplyAll(s, lines).hist) = Range(s.hist)
<1> DEFINE N == Len(lines)
           f == Replay(s, lines)
           Left(n, k) ==
             \/ f[n].kv[k] = s.kv[k] /\ \A i \in 1..n : lines[i].key # k
             \/ \E i \in 1..n : /\ lines[i].key = k /\ f[n].kv[k] = lines[i].ver
                                /\ \A j \in 1..n : lines[j].key = k => j <= i
           Good(n) == (\A k \in Keys : Left(n, k)) /\ Range(f[n].hist) = Range(s.hist)
           Bad == {n \in 0..N : ~Good(n)}
<1>1. N \in Nat /\ DOMAIN lines = 1..N /\ \A i \in 1..N : lines[i] \in Line
  OBVIOUS
<1>2. f \in [0..N -> State] /\ f[0] = s /\ \A i \in 1..N : f[i] = Apply(f[i - 1], lines[i])
  BY ReplayIs DEF Chain
<1> HIDE DEF f, N
<1>3. Good(0)
  BY <1>2
<1>4. ASSUME NEW n \in 1..N, Good(n - 1)
      PROVE  Good(n)
  <2> DEFINE u == f[n - 1]
             l == lines[n]
  <2>1. /\ n - 1 \in 0..N /\ u \in State /\ l \in Line /\ f[n] = Apply(u, l)
        /\ \A i \in 1..n : i = n \/ i \in 1..(n - 1)
        /\ \A i \in 1..(n - 1) : i \in 1..n /\ i < n
        /\ n \in 1..n /\ n \notin 1..(n - 1)
    BY <1>1, <1>2
  <2>2. u.kv \in [Keys -> Nat] /\ u.hist \in Seq(Nat) /\ l.key \in Keys \cup {Hist} /\ l.ver \in Nat
    BY <2>1 DEF State, Line
  <2>3. l.key = Hist => f[n].kv = u.kv /\ f[n].hist = Append(u.hist, l.ver)
    BY <2>1, <2>2 DEF Apply, State
  <2>4. l.key # Hist => f[n].kv = [u.kv EXCEPT ![l.key] = l.ver] /\ f[n].hist = u.hist
    BY <2>1, <2>2 DEF Apply, State
  <2>5. ASSUME NEW k \in Keys PROVE Left(n, k)
    <3>1. CASE l.key = k
      <4>1. f[n].kv[k] = l.ver
        BY <2>2, <2>4, <3>1, ReplicationAssumption
      <4>2. \A j \in 1..n : j <= n
        BY <1>1
      <4> QED BY <2>1, <3>1, <4>1, <4>2
    <3>2. CASE l.key # k
      <4>1. f[n].kv[k] = u.kv[k]
        BY <2>2, <2>3, <2>4, <3>2
      <4>2. Left(n - 1, k)
        BY <1>4
      <4>3. CASE u.kv[k] = s.kv[k] /\ \A i \in 1..(n - 1) : lines[i].key # k
        BY <2>1, <3>2, <4>1, <4>3
      <4>4. ASSUME NEW i \in 1..(n - 1), lines[i].key = k, u.kv[k] = lines[i].ver,
                   \A j \in 1..(n - 1) : lines[j].key = k => j <= i
            PROVE  Left(n, k)
        <5>1. \A j \in 1..n : lines[j].key = k => j <= i
          BY <2>1, <3>2, <4>4
        <5> QED BY <2>1, <4>1, <4>4, <5>1
      <4> QED BY <4>2, <4>3, <4>4
    <3> QED BY <3>1, <3>2
  <2>6. Range(f[n].hist) = Range(s.hist)
    <3>1. Range(u.hist) = Range(s.hist)
      BY <1>4
    <3>2. CASE l.key # Hist
      BY <2>4, <3>1, <3>2
    <3>3. CASE l.key = Hist
      <4>1. PICK j \in DOMAIN s.hist : s.hist[j] = l.ver
        BY <1>1, <3>3 DEF Absorbed
      <4>2. l.ver \in Range(u.hist)
        BY <3>1, <4>1 DEF Range
      <4>3. Range(Append(u.hist, l.ver)) = Range(u.hist) \cup {l.ver}
        <5> DEFINE g == u.hist
                   m == Append(g, l.ver)
        <5>1. /\ DOMAIN g = 1..Len(g) /\ Len(g) \in Nat /\ DOMAIN m = 1..(Len(g) + 1)
              /\ m[Len(g) + 1] = l.ver /\ \A i \in 1..Len(g) : m[i] = g[i]
          BY <2>2
        <5> HIDE DEF g, m
        <5>2. \A i \in 1..(Len(g) + 1) : i = Len(g) + 1 \/ i \in 1..Len(g)
          BY <5>1
        <5>3. Len(g) + 1 \in 1..(Len(g) + 1) /\ \A i \in 1..Len(g) : i \in 1..(Len(g) + 1)
          BY <5>1
        <5>4. Range(m) = Range(g) \cup {l.ver}
          BY <5>1, <5>2, <5>3 DEF Range
        <5> QED BY <5>4 DEF g, m
      <4> QED BY <2>3, <3>1, <3>3, <4>2, <4>3
    <3> QED BY <3>2, <3>3
  <2> QED BY <2>5, <2>6
<1> HIDE DEF Good
<1>5. Bad = {}
  <2> SUFFICES ASSUME Bad # {} PROVE FALSE
    OBVIOUS
  <2>1. PICK n \in Bad : \A m \in Bad : n <= m
    <3>1. Bad \in SUBSET Nat
      BY <1>1
    <3> HIDE DEF Bad
    <3> QED BY <3>1, LeastExists
  <2>2. n # 0
    BY <1>3, <2>1
  <2>3. n \in 1..N /\ n - 1 \in 0..N /\ ~(n <= n - 1)
    BY <1>1, <2>1, <2>2
  <2>4. Good(n - 1)
    BY <2>1, <2>3
  <2> QED BY <1>4, <2>1, <2>3, <2>4
<1>6. Good(N) /\ N \in 0..N
  BY <1>1, <1>5
<1>7. ASSUME NEW k \in Keys PROVE f[N].kv[k] = s.kv[k]
  <2>1. Left(N, k)
    BY <1>6 DEF Good
  <2>2. ASSUME NEW i \in 1..N, lines[i].key = k, f[N].kv[k] = lines[i].ver,
               \A j \in 1..N : lines[j].key = k => j <= i
        PROVE  f[N].kv[k] = s.kv[k]
    <3>1. s.kv[k] = lines[i].ver
      BY <1>1, <2>2 DEF Absorbed
    <3> QED BY <2>2, <3>1
  <2> QED BY <2>1, <2>2
<1>8. f[N].kv = s.kv
  <2>1. f[N] \in State
    BY <1>2, <1>6
  <2> QED BY <1>7, <2>1 DEF State
<1>9. Range(f[N].hist) = Range(s.hist)
  BY <1>6 DEF Good
<1> QED BY <1>8, <1>9 DEF ApplyAll, f, N

\* A handler's step, on a follower that nobody else writes to: lines change
\* memory and journal alike, a reset and a compaction end with both the same.
LEMMA HandleKeeps ==
    ASSUME TypeOK, SyncInv, NEW h \in {"now", "late"}, Handle(h)
    PROVE  SyncInv'
<1> USE DEF SyncInv
<1>1. posts \in Posts /\ disk \in [snap : State, log : Seq(Line)] /\ fmem \in State
  BY DEF TypeOK, Posts
<1>2. PICK q \in Post : posts' = [posts EXCEPT ![h] = q] /\ Moves(h, q)
  BY HandleMoves
<1>3. UNCHANGED <<mem, needSync, clean>>
  BY HandleMoves
<1>4. posts[h] # NoPost
  BY <1>2 DEF Moves, NoPost
<1>5. CASE h = "late"
  <2>1. ~clean /\ posts'.now = posts.now
    BY <1>1, <1>2, <1>4, <1>5, Placed DEF PostInv
  <2> QED BY <1>3, <2>1 DEF PostInv, OrderInv, ResetInv, InSyncInv
<1>6. CASE h = "now"
  <2> DEFINE p == posts.now
  <2>1. posts'.now = q /\ posts'.late = posts.late /\ posts[h] = p /\ p \in Post
    BY <1>1, <1>2, <1>6, Placed
  <2> HIDE DEF p
  <2>2. p = posts.now /\ p.kind \in {"snapshot", "append"} /\ q.kind = p.kind /\ q.state = p.state
        /\ p.lines \in Seq(Line) /\ p.state \in State
    <3>1. p.kind \in {"none", "snapshot", "append"} /\ p.lines \in Seq(Line) /\ p.state \in State
      BY <2>1 DEF Post
    <3>2. p = posts.now /\ p # NoPost
      BY <1>4, <2>1 DEF p
    <3>3. q.kind = p.kind /\ q.state = p.state
      BY <1>2, <2>1 DEF Moves
    <3> QED BY <3>1, <3>2, <3>3 DEF PostInv
  <2>3. OrderInv'
    BY <1>3, <2>1, <2>2 DEF OrderInv
  <2>4. CASE p.kind = "snapshot"
    <3>1. needSync
      BY <2>2, <2>4 DEF PostInv
    <3>2. PostInv'
      BY <1>3, <2>1, <2>2, <2>4, <3>1 DEF PostInv
    <3>3. InSyncInv'
      BY <1>3, <3>1 DEF InSyncInv
    <3>4. ResetInv'
      <4> SUFFICES ASSUME clean
                   PROVE  /\ q.step \in 1..3 => fmem' = q.state
                          /\ q.step \in 2..3 => disk'.snap = q.state
                          /\ q.step = 3 => disk'.log = <<>>
        BY <1>3, <2>1, <2>2, <2>4 DEF ResetInv
      <4>1. /\ p.step \in 1..3 => fmem = p.state
            /\ p.step \in 2..3 => disk.snap = p.state
        BY <2>2, <2>4 DEF ResetInv
      <4>2. \/ q.step = 1 /\ fmem' = p.state
            \/ p.step = 1 /\ q.step = 2 /\ fmem' = fmem /\ disk' = [disk EXCEPT !.snap = p.state]
            \/ p.step = 2 /\ q.step = 3 /\ fmem' = fmem /\ disk' = [disk EXCEPT !.log = <<>>]
        BY <1>2, <2>1, <2>4 DEF Moves
      <4> QED BY <1>1, <2>2, <4>1, <4>2
    <3> QED BY <2>3, <3>2, <3>3, <3>4
  <2>5. CASE p.kind = "append"
    <3>1. ~needSync /\ p.step \in 0..2
      BY <2>2, <2>5 DEF PostInv
    <3>2. q.step \in 0..2
      BY <1>2, <2>1, <2>5 DEF Moves
    <3>3. PostInv'
      BY <1>3, <2>1, <2>2, <2>5, <3>1, <3>2 DEF PostInv
    <3>4. ResetInv'
      BY <2>1, <2>2, <2>5 DEF ResetInv
    <3>5. InSyncInv'
      <4> SUFFICES ASSUME clean
                   PROVE  /\ q.step # 2 => Recovered' = fmem'
                          /\ q.step = 2 => disk'.snap = fmem'
                          /\ Absorbed(fmem', disk'.log)
                          /\ Increasing(fmem'.hist)
        BY <1>3, <2>1 DEF InSyncInv
      <4>1. /\ p.step # 2 => Recovered = fmem
            /\ p.step = 2 => disk.snap = fmem
            /\ Absorbed(fmem, disk.log) /\ Increasing(fmem.hist)
        BY <2>2, <3>1 DEF InSyncInv
      <4>2. CASE p.step = 0 /\ UNCHANGED <<fmem, disk>> /\ q.step = 0
        BY <4>1, <4>2 DEF Recovered
      <4>3. CASE /\ p.step = 0 /\ p.lines # <<>> /\ ~Seen(fmem, Head(p.lines)) /\ q.step \in 0..1
                 /\ fmem' = Apply(fmem, Head(p.lines))
                 /\ disk' = [disk EXCEPT !.log = Append(@, Head(p.lines))]
        <5> DEFINE l == Head(p.lines)
        <5>1. l \in Line
          BY <2>2, <4>3
        <5> HIDE DEF l
        <5>2. fmem' = Apply(fmem, l) /\ disk'.snap = disk.snap /\ disk'.log = Append(disk.log, l)
          BY <1>1, <4>3 DEF l
        <5>3. Recovered' = ApplyAll(disk.snap, Append(disk.log, l))
          BY <5>2 DEF Recovered
        <5>4. Recovered' = Apply(Recovered, l)
          BY <1>1, <5>1, <5>3, ApplyAllAppend DEF Recovered
        <5>5. Increasing(fmem'.hist)
          BY <1>1, <4>1, <4>3, <5>1, <5>2, UnseenIncreasing DEF l
        <5>6. Absorbed(fmem', disk'.log)
          BY <1>1, <4>1, <5>1, <5>2, AbsorbsLine
        <5> QED BY <4>1, <4>3, <5>2, <5>4, <5>5, <5>6
      <4>4. CASE /\ q.step = 2 /\ fmem' = fmem /\ disk' = [disk EXCEPT !.snap = fmem]
        <5>1. disk'.snap = fmem /\ disk'.log = disk.log
          BY <1>1, <4>4
        <5> QED BY <4>1, <4>4, <5>1
      <4>5. CASE p.step = 2 /\ q.step = 0 /\ fmem' = fmem /\ disk' = [disk EXCEPT !.log = <<>>]
        <5>1. disk'.snap = fmem /\ disk'.log = <<>>
          BY <1>1, <4>1, <4>5
        <5>2. Recovered' = fmem
          BY <1>1, <5>1, ApplyAllNone DEF Recovered
        <5>3. Absorbed(fmem', disk'.log)
          BY <5>1 DEF Absorbed
        <5> QED BY <4>1, <4>5, <5>2, <5>3
      <4> QED BY <1>2, <2>1, <2>5, <4>2, <4>3, <4>4, <4>5 DEF Moves
    <3> QED BY <2>3, <3>3, <3>4, <3>5
  <2> QED BY <2>2, <2>4, <2>5
<1> QED BY <1>5, <1>6

\* A post that ends with an error leaves a resync due.
LEMMA ErrorKeeps ==
    ASSUME TypeOK, SyncInv, NEW h \in {"now", "late"}, Refused(h) \/ PostFails(h)
    PROVE  SyncInv'
<1> USE DEF SyncInv
<1>1. /\ posts \in Posts /\ posts.now \in Post /\ NoPost \in Post
      /\ posts.now.kind \in {"none", "snapshot", "append"}
  BY PostsTyped DEF TypeOK, Posts, Post
<1>2. /\ posts' = [posts EXCEPT ![h] = NoPost] /\ posts[h] # NoPost
      /\ UNCHANGED <<mem, clean, disk>>
  BY ErrorEnds
<1>3. CASE h = "now"
  <2>1. posts'.now = NoPost /\ posts'.late = posts.late /\ posts.now # NoPost
    BY <1>1, <1>2, <1>3, Placed
  <2>2. needSync'
    <3>1. needSync \/ posts.now.kind = "append"
      BY <1>1, <2>1 DEF PostInv
    <3> QED BY <1>3, <3>1, ErrorEnds DEF Failed
  <2> QED BY <1>2, <2>1, <2>2, AnswerKeeps DEF PostInv
<1>4. CASE h = "late"
  <2>1. posts'.now = posts.now /\ ~clean /\ needSync' = needSync
    BY <1>1, <1>2, <1>4, ErrorEnds, Placed DEF PostInv
  <2> QED BY <1>2, <2>1 DEF PostInv, OrderInv, ResetInv, InSyncInv
<1> QED BY <1>3, <1>4

\* A leader's write numbers its event next.
LEMMA WritesKeep ==
    ASSUME TypeOK, SyncInv, Writes
    PROVE  SyncInv'
<1>1. UNCHANGED <<posts, fmem, disk, needSync, clean>>
  BY DEF Writes, Write, sender, follower
<1>2. mem \in State /\ mem.hist \in Seq(Nat)
  BY DEF TypeOK, State
<1>3. CASE \E k \in Keys, v \in {0, writes + 1} : Write([key |-> k, ver |-> v])
  <2>1. PICK k \in Keys, v \in {0, writes + 1} : Write([key |-> k, ver |-> v])
    BY <1>3
  <2>2. mem'.hist = mem.hist
    BY <1>2, <2>1, ReplicationAssumption DEF Write, Apply, State
  <2> QED BY <1>1, <2>2, AsideKeeps DEF SyncInv, OrderInv
<1>4. CASE Write([key |-> Hist, ver |-> Len(mem.hist) + 1])
  <2>1. mem'.hist = Append(mem.hist, Len(mem.hist) + 1)
    BY <1>2, <1>4 DEF Write, Apply, State
  <2>2. \A i \in DOMAIN mem'.hist : mem'.hist[i] = i
    BY <1>2, <2>1 DEF SyncInv, OrderInv
  <2> QED BY <1>1, <2>2, AsideKeeps
<1> QED BY <1>3, <1>4 DEF Writes

\* Every step of leader, sender and follower keeps the invariant.
LEMMA SyncStep ==
    ASSUME TypeOK, SyncInv, [Next]_vars
    PROVE  SyncInv'
<1>1. posts \in Posts /\ posts.now \in Post /\ posts.late \in Post
  BY DEF TypeOK, Posts
<1>2. \A i \in DOMAIN mem.hist : mem.hist[i] = i
  BY DEF SyncInv, OrderInv
<1>3. ASSUME NEW l \in owed, Tap(l)
      PROVE  SyncInv'
  BY <1>2, <1>3, AsideKeeps DEF Tap, follower
<1>4. CASE TakeOverrun
  BY <1>2, <1>4, AsideKeeps DEF TakeOverrun, Selecting, follower
<1>5. CASE TakeLine
  <2>1. Append(batch, Head(ch)) \in Seq(Line)
    BY <1>5 DEF TakeLine, TypeOK
  <2>2. Flush(Append(batch, Head(ch))) \/ posts' = posts
    BY <1>5 DEF TakeLine
  <2>3. posts.now = NoPost /\ UNCHANGED <<mem, needSync, fmem, disk, clean>>
    BY <1>5 DEF TakeLine, Selecting, follower
  <2> QED BY <2>1, <2>2, <2>3, FlushKeeps
<1>6. CASE Tick
  BY <1>6, FlushKeeps DEF Tick, Selecting, follower, TypeOK
<1>7. CASE Close
  <2>1. batch \o ch \in Seq(Line)
    BY DEF TypeOK
  <2> QED BY <1>7, <2>1, FlushKeeps DEF Close, Selecting, follower
<1>8. CASE PostSucceeds
  <2>1. posts'.now = NoPost /\ posts'.late = posts.late
    BY <1>1, <1>8, PostsTyped, PostReplaced DEF PostSucceeds
  <2>2. UNCHANGED <<mem, fmem, disk, clean>> /\ Done(posts.now)
        /\ needSync' = (needSync /\ ~(posts.now.kind = "snapshot"))
    BY <1>8 DEF PostSucceeds, follower
  <2>3. ASSUME clean, ~needSync'
        PROVE  Recovered = fmem /\ Absorbed(fmem, disk.log) /\ Increasing(fmem.hist)
    <3>1. CASE posts.now.kind = "snapshot"
      <4>1. /\ fmem = posts.now.state /\ disk.snap = posts.now.state
            /\ disk.log = <<>>
        BY <2>2, <2>3, <3>1 DEF Done, SyncInv, ResetInv
      <4>2. Recovered = fmem
        BY <4>1, ApplyAllNone DEF Recovered, TypeOK
      <4>3. Absorbed(fmem, disk.log)
        BY <4>1 DEF Absorbed
      <4> QED BY <4>1, <4>2, <4>3 DEF SyncInv, OrderInv
    <3>2. CASE posts.now.kind # "snapshot"
      <4>1. posts.now.step = 0 /\ ~needSync
        BY <2>2, <2>3, <3>2 DEF Done, TypeOK
      <4> QED BY <2>3, <4>1 DEF SyncInv, InSyncInv
    <3> QED BY <3>1, <3>2
  <2> QED BY <2>1, <2>2, <2>3, AnswerKeeps DEF SyncInv, PostInv
<1>10. CASE PostTimesOut
  <2>1. posts'.now = NoPost /\ clean' = FALSE /\ UNCHANGED <<mem, disk>>
    BY <1>10 DEF PostTimesOut, follower
  <2> QED BY <2>1, AnswerKeeps
<1>11. CASE LateAnswer
  <2>1. posts'.now = posts.now /\ posts'.late = NoPost
    BY <1>1, <1>11, PostsTyped, PostReplaced DEF LateAnswer
  <2>2. UNCHANGED <<mem, needSync, fmem, disk, clean>>
    BY <1>11 DEF LateAnswer, sender, follower
  <2> QED BY <2>1, <2>2 DEF SyncInv, PostInv, OrderInv, ResetInv, InSyncInv, Recovered
<1>12. CASE FollowerCrash
  <2>1. posts'.now = NoPost /\ posts'.late = NoPost /\ UNCHANGED <<mem, disk, clean>>
        /\ fmem' = Recovered /\ needSync' = (needSync \/ posts.now.kind = "append")
    BY <1>12 DEF FollowerCrash, Failed
  <2>2. posts.now.kind \in {"none", "snapshot", "append"}
    BY <1>1 DEF Post
  <2>3. ~needSync' => ~needSync /\ posts.now.step = 0
    BY <2>1, <2>2, PostFields DEF SyncInv, PostInv
  <2> QED BY <2>1, <2>3, AnswerKeeps DEF SyncInv, InSyncInv
<1>13. CASE UNCHANGED vars
  BY <1>2, <1>13, AsideKeeps DEF vars, sender, follower
<1> QED
  BY <1>3, <1>4, <1>5, <1>6, <1>7, <1>8, <1>10, <1>11, <1>12, <1>13,
     WritesKeep, HandleKeeps, ErrorKeeps DEF Next, Handlers

\* A sender starts with a resync due.
LEMMA SyncInit ==
    ASSUME Init
    PROVE  SyncInv
<1>1. /\ posts.now = NoPost /\ posts.late = NoPost /\ needSync = TRUE
      /\ mem.hist = <<>>
  BY DEF Init, Empty
<1> QED BY <1>1, PostFields DEF SyncInv, PostInv, OrderInv, ResetInv, InSyncInv

\* Promotion of a follower in sync loses nothing it acknowledged, wherever a
\* failure hit an earlier reset, batch or compaction; in the middle of its own
\* compaction the audit trail may come back with events twice.
THEOREM PromotionsAreComplete == Spec => []PromotionComplete
<1>1. Init => TypeOK /\ SyncInv
  BY TypeInit, SyncInit
<1>2. TypeOK /\ SyncInv /\ [Next]_vars => (TypeOK /\ SyncInv)'
  BY TypeStep, SyncStep
<1>3. TypeOK /\ SyncInv => PromotionComplete
  <2> SUFFICES ASSUME TypeOK, SyncInv, clean, ~needSync
               PROVE  /\ Recovered.kv = fmem.kv /\ Range(Recovered.hist) = Range(fmem.hist)
                      /\ posts.now.step # 2 => Recovered = fmem
    BY DEF PromotionComplete
  <2>1. /\ posts.now.step # 2 => Recovered = fmem
        /\ posts.now.step = 2 => disk.snap = fmem
        /\ Absorbed(fmem, disk.log)
    BY DEF SyncInv, InSyncInv
  <2>2. fmem \in State /\ disk.log \in Seq(Line)
    BY DEF TypeOK
  <2>3. CASE posts.now.step = 2
    BY <2>1, <2>2, <2>3, ReplaysAbsorbed DEF Recovered
  <2> QED BY <2>1, <2>3
<1> QED BY <1>1, <1>2, <1>3, PTL DEF Spec

\* The audit trail of a follower in sync has no event twice and none out of order,
\* however often lines are sent again.
THEOREM HistoryHappensOnce == Spec => []HistoryOnce
<1>1. Init => TypeOK /\ SyncInv
  BY TypeInit, SyncInit
<1>2. TypeOK /\ SyncInv /\ [Next]_vars => (TypeOK /\ SyncInv)'
  BY TypeStep, SyncStep
<1>3. SyncInv => HistoryOnce
  BY DEF SyncInv, InSyncInv, HistoryOnce, Increasing
<1> QED BY <1>1, <1>2, <1>3, PTL DEF Spec

------------------------------------------------------------------------------
\* The stream.  What lines still do to a store that skips what it has seen.

\* The first n + 1 states of a follower that takes lines one by one.
TakeChain(f, n, s, lines) ==
    f[0] = s /\ \A i \in 1..n : f[i] = Take(f[i - 1], lines[i])

\* A line that is taken or skipped leaves a state.
LEMMA TakeTyped ==
    ASSUME NEW s \in State, NEW l \in Line
    PROVE  Take(s, l) \in State
BY ApplyTyped DEF Take

\* Every sequence of lines can be taken.
LEMMA TakeChainExists ==
    ASSUME NEW s \in State, NEW lines \in Seq(Line)
    PROVE  \A n \in 0..Len(lines) :
              \E f \in [0..n -> State] : TakeChain(f, n, s, lines)
<1> DEFINE Good(n) == \E f \in [0..n -> State] : TakeChain(f, n, s, lines)
           Bad == {n \in 0..Len(lines) : ~Good(n)}
<1> SUFFICES ASSUME Bad # {} PROVE FALSE
  OBVIOUS
<1>1. PICK n \in Bad : \A m \in Bad : n <= m
  <2>1. Bad \in SUBSET Nat
    OBVIOUS
  <2> HIDE DEF Bad
  <2> QED BY <2>1, LeastExists
<1>2. n \in 0..Len(lines) /\ Len(lines) \in Nat
  BY <1>1
<1>3. CASE n = 0
  <2> DEFINE f == [i \in 0..0 |-> s]
  <2>1. f \in [0..0 -> State] /\ f[0] = s /\ 1..0 = {}
    OBVIOUS
  <2> HIDE DEF f
  <2>2. TakeChain(f, 0, s, lines)
    BY <2>1 DEF TakeChain
  <2> QED BY <1>1, <1>3, <2>1, <2>2
<1>4. CASE n # 0
  <2>1. n - 1 \in 0..Len(lines) /\ ~(n <= n - 1)
    BY <1>2, <1>4
  <2>2. Good(n - 1)
    BY <1>1, <2>1
  <2>3. PICK g \in [0..(n - 1) -> State] : TakeChain(g, n - 1, s, lines)
    BY <2>2
  <2> DEFINE f == [i \in 0..n |-> IF i = n THEN Take(g[n - 1], lines[n]) ELSE g[i]]
  <2>4. lines[n] \in Line /\ g[n - 1] \in State
    BY <1>2, <1>4, <2>1
  <2>5. Take(g[n - 1], lines[n]) \in State
    BY <2>4, TakeTyped
  <2>6. f \in [0..n -> State]
    BY <1>2, <2>5
  <2>7. f[n] = Take(g[n - 1], lines[n]) /\ \A i \in 0..(n - 1) : f[i] = g[i]
    BY <1>2, <1>4
  <2> HIDE DEF f
  <2>8. f[0] = s
    BY <1>2, <1>4, <2>3, <2>7 DEF TakeChain
  <2>9. ASSUME NEW i \in 1..n PROVE f[i] = Take(f[i - 1], lines[i])
    <3>1. CASE i = n
      BY <1>2, <1>4, <2>7, <3>1
    <3>2. CASE i # n
      <4>1. i \in 1..(n - 1) /\ i \in 0..(n - 1) /\ i - 1 \in 0..(n - 1)
        BY <1>2, <3>2
      <4> QED BY <2>3, <2>7, <4>1 DEF TakeChain
    <3> QED BY <3>1, <3>2
  <2>10. TakeChain(f, n, s, lines)
    BY <2>8, <2>9 DEF TakeChain
  <2> QED BY <1>1, <2>6, <2>10
<1> QED BY <1>3, <1>4

\* Receive is the last state of such a chain.
LEMMA ReceiveIs ==
    ASSUME NEW s \in State, NEW lines \in Seq(Line)
    PROVE  \E f \in [0..Len(lines) -> State] :
              TakeChain(f, Len(lines), s, lines) /\ Receive(s, lines) = f[Len(lines)]
<1> DEFINE N == Len(lines)
           F(f) == [i \in 0..N |-> IF i = 0 THEN s ELSE Take(f[i - 1], lines[i])]
<1>1. N \in Nat /\ 0 \in 0..N
  OBVIOUS
<1>2. PICK f \in [0..N -> State] : TakeChain(f, N, s, lines)
  BY <1>1, TakeChainExists
<1>3. f = F(f)
  BY <1>1, <1>2 DEF TakeChain
<1>4. Receive(s, lines) = (CHOOSE g : g = F(g))[N]
  BY DEF Receive
<1>5. PICK g : Receive(s, lines) = g[N] /\ g = F(g)
  BY <1>3, <1>4
<1>6. TakeChain(g, N, s, lines)
  <2>1. g[0] = s
    BY <1>1, <1>5
  <2>2. \A i \in 1..N : g[i] = Take(g[i - 1], lines[i])
    BY <1>1, <1>5
  <2> QED BY <2>1, <2>2 DEF TakeChain
<1> DEFINE Bad == {i \in 0..N : f[i] # g[i]}
<1>7. Bad = {}
  <2> SUFFICES ASSUME Bad # {} PROVE FALSE
    OBVIOUS
  <2>1. PICK n \in Bad : \A m \in Bad : n <= m
    <3>1. Bad \in SUBSET Nat
      OBVIOUS
    <3> HIDE DEF Bad
    <3> QED BY <3>1, LeastExists
  <2>2. n # 0
    BY <1>2, <1>6, <2>1 DEF TakeChain
  <2>3. n \in 1..N /\ n - 1 \in 0..N /\ ~(n <= n - 1)
    BY <1>1, <2>1, <2>2
  <2>4. f[n - 1] = g[n - 1]
    BY <2>1, <2>3
  <2> QED BY <1>2, <1>6, <2>1, <2>3, <2>4 DEF TakeChain
<1>8. g[N] = f[N]
  BY <1>1, <1>7
<1> QED BY <1>1, <1>2, <1>5, <1>8

Numbered(h) == \A i \in DOMAIN h : h[i] = i

\* With the lines q and then, in any order, the lines of S, the records of s
\* become those of t: the last line of a record tells its version.
KeysCovered(s, q, S, t) ==
    /\ \A o \in S : o.key \in Keys => t.kv[o.key] = o.ver
    /\ \A i \in DOMAIN q :
          /\ q[i].key \in Keys
          /\ \A j \in DOMAIN q : i < j => q[j].key # q[i].key
          /\ \A o \in S : o.key # q[i].key
          => t.kv[q[i].key] = q[i].ver
    /\ \A k \in Keys :
          /\ \A i \in DOMAIN q : q[i].key # k
          /\ \A o \in S : o.key # k
          => s.kv[k] = t.kv[k]

\* And so do the events: each line has its predecessor before it, and the last
\* one comes.
HistoryCovered(s, q, S, t) ==
    LET m == Len(s.hist)
        n == Len(t.hist)
    IN  /\ Numbered(s.hist) /\ Numbered(t.hist) /\ m <= n
        /\ \A i \in DOMAIN q : q[i].key = Hist =>
              /\ q[i].ver \in 1..n
              /\ \/ q[i].ver <= m + 1
                 \/ \E j \in DOMAIN q :
                       j < i /\ q[j].key = Hist /\ q[j].ver + 1 = q[i].ver
        /\ \/ m = n
           \/ \E i \in DOMAIN q : q[i].key = Hist /\ q[i].ver = n
           \/ \E o \in S : o.key = Hist
        /\ \A o \in S : o.key = Hist =>
              /\ o.ver = n /\ n # 0
              /\ \/ n <= m + 1
                 \/ \E j \in DOMAIN q : q[j].key = Hist /\ q[j].ver + 1 = n

Covers(s, q, S, t) == KeysCovered(s, q, S, t) /\ HistoryCovered(s, q, S, t)

\* The lines of a stream.
LEMMA LineFields ==
    ASSUME NEW q \in Seq(Line)
    PROVE  /\ DOMAIN q = 1..Len(q) /\ Len(q) \in Nat
           /\ \A i \in DOMAIN q : q[i].key \in Keys \cup {Hist} /\ q[i].ver \in Nat
<1>1. DOMAIN q = 1..Len(q) /\ Len(q) \in Nat /\ \A i \in DOMAIN q : q[i] \in Line
  OBVIOUS
<1>2. \A l \in Line : l.key \in Keys \cup {Hist} /\ l.ver \in Nat
  BY DEF Line
<1> QED BY <1>1, <1>2

\* What a numbered store has seen.
LEMMA SeenBelow ==
    ASSUME NEW s \in State, NEW l \in Line, Numbered(s.hist), l.key = Hist, l.ver # 0
    PROVE  Seen(s, l) <=> l.ver <= Len(s.hist)
<1>1. /\ DOMAIN s.hist = 1..Len(s.hist) /\ Len(s.hist) \in Nat /\ l.ver \in Nat
  BY DEF State, Line
<1>2. ASSUME l.ver <= Len(s.hist)
      PROVE  Seen(s, l)
  <2>1. l.ver \in DOMAIN s.hist /\ s.hist[l.ver] = l.ver
    BY <1>1, <1>2 DEF Numbered
  <2> QED BY <1>1, <2>1 DEF Seen
<1>3. ASSUME Seen(s, l)
      PROVE  l.ver <= Len(s.hist)
  <2>1. PICK i \in DOMAIN s.hist : l.ver <= s.hist[i]
    BY <1>3 DEF Seen
  <2>2. s.hist[i] = i /\ i \in 1..Len(s.hist)
    BY <1>1 DEF Numbered
  <2> QED BY <1>1, <2>1, <2>2
<1> QED BY <1>2, <1>3

\* What taking a line of a record, and of the history, does.
LEMMA TakeFields ==
    ASSUME NEW s \in State, NEW l \in Line
    PROVE  /\ l.key # Hist =>
                /\ Take(s, l).hist = s.hist
                /\ Take(s, l).kv = [s.kv EXCEPT ![l.key] = l.ver]
           /\ l.key = Hist => Take(s, l).kv = s.kv
           /\ l.key = Hist /\ Seen(s, l) => Take(s, l).hist = s.hist
           /\ l.key = Hist /\ ~Seen(s, l) => Take(s, l).hist = Append(s.hist, l.ver)
<1>1. CASE l.key # Hist
  <2>1. ~Seen(s, l)
    BY <1>1 DEF Seen
  <2> QED BY <1>1, <2>1 DEF Take, Apply, State
<1>2. CASE l.key = Hist /\ Seen(s, l)
  BY <1>2 DEF Take
<1>3. CASE l.key = Hist /\ ~Seen(s, l)
  BY <1>3 DEF Take, Apply, State
<1> QED BY <1>1, <1>2, <1>3

\* Taking the first line leaves the rest to do what is left.
LEMMA TakeKeys ==
    ASSUME NEW s \in State, NEW q \in Seq(Line), q # <<>>, NEW S, NEW t \in State,
           KeysCovered(s, q, S, t)
    PROVE  KeysCovered(Take(s, Head(q)), Tail(q), S, t)
<1> DEFINE l == Head(q)
           r == Tail(q)
           N == Len(q)
           u == Take(s, l)
<1>1. /\ N \in Nat /\ N >= 1 /\ DOMAIN q = 1..N /\ DOMAIN r = 1..(N - 1)
      /\ \A i \in 1..(N - 1) : r[i] = q[i + 1]
      /\ l = q[1] /\ l \in Line
  OBVIOUS
<1>2. \A k \in Keys : u.kv[k] = IF l.key = k THEN l.ver ELSE s.kv[k]
  <2>1. s.kv \in [Keys -> Nat] /\ Hist \notin Keys
    BY ReplicationAssumption DEF State
  <2>2. l.key \in Keys \cup {Hist}
    BY <1>1 DEF Line
  <2> QED BY <1>1, <2>1, <2>2, TakeFields
<1> HIDE DEF u, r, l, N
<1>3. \A o \in S : o.key \in Keys => t.kv[o.key] = o.ver
  BY DEF KeysCovered
<1>4. ASSUME NEW i \in DOMAIN r, r[i].key \in Keys,
             \A j \in DOMAIN r : i < j => r[j].key # r[i].key,
             \A o \in S : o.key # r[i].key
      PROVE  t.kv[r[i].key] = r[i].ver
  <2>1. i + 1 \in DOMAIN q /\ r[i] = q[i + 1] /\ i \in Nat
    BY <1>1
  <2>2. ASSUME NEW j \in DOMAIN q, i + 1 < j
        PROVE  q[j].key # q[i + 1].key
    <3>1. j - 1 \in DOMAIN r /\ i < j - 1 /\ r[j - 1] = q[j]
      BY <1>1, <2>1, <2>2
    <3> QED BY <1>4, <2>1, <3>1
  <2> QED BY <1>4, <2>1, <2>2 DEF KeysCovered
<1>5. ASSUME NEW k \in Keys, \A i \in DOMAIN r : r[i].key # k, \A o \in S : o.key # k
      PROVE  u.kv[k] = t.kv[k]
  <2>1. ASSUME NEW j \in DOMAIN q, 1 < j
        PROVE  q[j].key # k
    <3>1. j - 1 \in DOMAIN r /\ r[j - 1] = q[j]
      BY <1>1, <2>1
    <3> QED BY <1>5, <3>1
  <2>2. CASE l.key = k
    <3>1. 1 \in DOMAIN q /\ q[1].key = k /\ q[1].ver = l.ver
      BY <1>1, <2>2
    <3>2. t.kv[q[1].key] = q[1].ver
      BY <1>5, <2>1, <3>1 DEF KeysCovered
    <3> QED BY <1>2, <2>2, <3>1, <3>2
  <2>3. CASE l.key # k
    <3>1. \A i \in DOMAIN q : q[i].key # k
      BY <1>1, <2>1, <2>3
    <3> QED BY <1>2, <1>5, <2>3, <3>1 DEF KeysCovered
  <2> QED BY <2>2, <2>3
<1>6. KeysCovered(u, r, S, t)
  BY <1>3, <1>4, <1>5 DEF KeysCovered
<1> QED BY <1>6 DEF u, r, l

\* The same for the events.
LEMMA TakeHistory ==
    ASSUME NEW s \in State, NEW q \in Seq(Line), q # <<>>, NEW S, NEW t \in State,
           HistoryCovered(s, q, S, t)
    PROVE  HistoryCovered(Take(s, Head(q)), Tail(q), S, t)
<1> DEFINE l == Head(q)
           r == Tail(q)
           N == Len(q)
           u == Take(s, l)
           m == Len(s.hist)
           n == Len(t.hist)
<1>1. /\ N \in Nat /\ N >= 1 /\ DOMAIN q = 1..N /\ DOMAIN r = 1..(N - 1)
      /\ \A i \in 1..(N - 1) : r[i] = q[i + 1]
      /\ l = q[1] /\ l \in Line /\ \A i \in 1..N : q[i] \in Line
  OBVIOUS
<1>2. /\ Numbered(s.hist) /\ Numbered(t.hist) /\ m <= n /\ m \in Nat /\ n \in Nat
      /\ s.hist \in Seq(Nat)
  BY DEF HistoryCovered, State
<1>3. \A i \in 1..N : q[i].key \in Keys \cup {Hist} /\ q[i].ver \in Nat
  BY <1>1 DEF Line
<1>4. l.key = Hist => l.ver \in 1..n /\ l.ver <= m + 1
  <2> SUFFICES ASSUME q[1].key = Hist PROVE q[1].ver \in 1..n /\ q[1].ver <= m + 1
    BY <1>1
  <2>1. 1 \in DOMAIN q /\ \A j \in DOMAIN q : ~(j < 1)
    BY <1>1
  <2> HIDE DEF l, r, N, u
  <2> QED BY <2>1 DEF HistoryCovered
\* The new length, and what it stands for.
<1>5. /\ Numbered(u.hist)
      /\ Len(u.hist) = IF l.key = Hist /\ l.ver = m + 1 THEN m + 1 ELSE m
  <2>1. CASE l.key # Hist
    BY <1>1, <1>2, <2>1, TakeFields
  <2>2. CASE l.key = Hist /\ l.ver <= m
    <3>1. Seen(s, l)
      BY <1>1, <1>2, <1>4, <2>2, SeenBelow
    <3>2. u.hist = s.hist
      BY <1>1, <2>2, <3>1, TakeFields
    <3>3. l.ver # m + 1
      BY <1>2, <1>4, <2>2
    <3> QED BY <1>2, <3>2, <3>3
  <2>3. CASE l.key = Hist /\ l.ver = m + 1
    <3>1. ~Seen(s, l)
      <4>1. l.ver # 0 /\ ~(l.ver <= m)
        BY <1>2, <2>3
      <4> QED BY <1>1, <1>2, <2>3, <4>1, SeenBelow
    <3>2. u.hist = Append(s.hist, m + 1)
      <4>1. l \in Line /\ l.key = Hist /\ l.ver = m + 1
        BY <1>1, <2>3
      <4> HIDE DEF l, m
      <4>2. u.hist = Append(s.hist, l.ver)
        BY <3>1, <4>1, TakeFields
      <4> QED BY <4>1, <4>2
    <3>3. Len(u.hist) = m + 1
      BY <1>2, <3>2
    <3>4. Numbered(u.hist)
      <4>1. /\ DOMAIN u.hist = 1..(m + 1) /\ DOMAIN s.hist = 1..m
            /\ u.hist[m + 1] = m + 1 /\ \A i \in 1..m : u.hist[i] = s.hist[i]
        BY <1>2, <3>2
      <4> HIDE DEF u, m
      <4> QED BY <1>2, <4>1 DEF Numbered
    <3> QED BY <2>3, <3>3, <3>4
  <2> QED
    <3>1. l.key = Hist => l.ver \in Nat /\ (l.ver <= m \/ l.ver = m + 1)
      BY <1>2, <1>4
    <3> QED BY <2>1, <2>2, <2>3, <3>1
<1> DEFINE w == Len(u.hist)
<1>6. w \in Nat /\ m <= w /\ w <= m + 1 /\ w <= n /\ (l.key = Hist => l.ver <= w)
  <2> HIDE DEF u, l, m, n
  <2> QED BY <1>2, <1>4, <1>5
<1> HIDE DEF u, r, l, N
<1>7. ASSUME NEW i \in DOMAIN r, r[i].key = Hist
      PROVE  /\ r[i].ver \in 1..n
             /\ \/ r[i].ver <= w + 1
                \/ \E j \in DOMAIN r : j < i /\ r[j].key = Hist /\ r[j].ver + 1 = r[i].ver
  <2>1. i + 1 \in DOMAIN q /\ r[i] = q[i + 1] /\ i \in Nat /\ q[i + 1].ver \in Nat
    BY <1>1, <1>3
  <2>2. /\ q[i + 1].ver \in 1..n
        /\ \/ q[i + 1].ver <= m + 1
           \/ \E j \in DOMAIN q : j < i + 1 /\ q[j].key = Hist /\ q[j].ver + 1 = q[i + 1].ver
    BY <1>7, <2>1 DEF HistoryCovered
  <2>3. CASE q[i + 1].ver <= m + 1
    <3> HIDE DEF m, w, n
    <3> QED BY <1>2, <1>6, <2>1, <2>2, <2>3
  <2>4. CASE \E j \in DOMAIN q : j < i + 1 /\ q[j].key = Hist /\ q[j].ver + 1 = q[i + 1].ver
    <3>1. PICK j \in DOMAIN q : j < i + 1 /\ q[j].key = Hist /\ q[j].ver + 1 = q[i + 1].ver
      BY <2>4
    <3>2. CASE j = 1
      <4>1. l.key = Hist /\ l.ver + 1 = r[i].ver /\ l.ver \in Nat
        BY <1>1, <1>3, <2>1, <3>1, <3>2
      <4> HIDE DEF m, w, n
      <4> QED BY <1>6, <2>1, <2>2, <4>1
    <3>3. CASE j # 1
      <4>1. j - 1 \in DOMAIN r /\ j - 1 < i /\ r[j - 1] = q[j]
        BY <1>1, <2>1, <3>1, <3>3
      <4> QED BY <2>1, <2>2, <3>1, <4>1
    <3> QED BY <3>2, <3>3
  <2> QED BY <2>2, <2>3, <2>4
<1>8. \/ w = n
      \/ \E i \in DOMAIN r : r[i].key = Hist /\ r[i].ver = n
      \/ \E o \in S : o.key = Hist
  <2>1. \/ m = n
        \/ \E i \in DOMAIN q : q[i].key = Hist /\ q[i].ver = n
        \/ \E o \in S : o.key = Hist
    BY DEF HistoryCovered
  <2>2. CASE m = n
    <3> HIDE DEF m, n, w
    <3> QED BY <1>2, <1>6, <2>2
  <2>3. CASE \E i \in DOMAIN q : q[i].key = Hist /\ q[i].ver = n
    <3>1. PICK i \in DOMAIN q : q[i].key = Hist /\ q[i].ver = n
      BY <2>3
    <3>2. CASE i = 1
      <4> HIDE DEF m, n, w
      <4> QED BY <1>1, <1>2, <1>6, <3>1, <3>2
    <3>3. CASE i # 1
      <4>1. i - 1 \in DOMAIN r /\ r[i - 1] = q[i]
        BY <1>1, <3>3
      <4> QED BY <3>1, <4>1
    <3> QED BY <3>2, <3>3
  <2> QED BY <2>1, <2>2, <2>3
<1>9. ASSUME NEW o \in S, o.key = Hist
      PROVE  /\ o.ver = n /\ n # 0
             /\ \/ n <= w + 1
                \/ \E j \in DOMAIN r : r[j].key = Hist /\ r[j].ver + 1 = n
  <2>1. /\ o.ver = n /\ n # 0
        /\ \/ n <= m + 1
           \/ \E j \in DOMAIN q : q[j].key = Hist /\ q[j].ver + 1 = n
    BY <1>9 DEF HistoryCovered
  <2>2. CASE n <= m + 1
    <3> HIDE DEF m, n, w
    <3> QED BY <1>2, <1>6, <2>1, <2>2
  <2>3. CASE \E j \in DOMAIN q : q[j].key = Hist /\ q[j].ver + 1 = n
    <3>1. PICK j \in DOMAIN q : q[j].key = Hist /\ q[j].ver + 1 = n
      BY <2>3
    <3>2. CASE j = 1
      <4> HIDE DEF m, n, w
      <4> QED BY <1>1, <1>2, <1>3, <1>6, <2>1, <3>1, <3>2
    <3>3. CASE j # 1
      <4>1. j - 1 \in DOMAIN r /\ r[j - 1] = q[j]
        BY <1>1, <3>3
      <4> QED BY <2>1, <3>1, <4>1
    <3> QED BY <3>2, <3>3
  <2> QED BY <2>1, <2>2, <2>3
<1>10. HistoryCovered(u, r, S, t)
  BY <1>2, <1>5, <1>6, <1>7, <1>8, <1>9 DEF HistoryCovered
<1> QED BY <1>10 DEF u, r, l

\* A line taken from the front of the stream.
LEMMA CoversTake ==
    ASSUME NEW s \in State, NEW q \in Seq(Line), q # <<>>, NEW S, NEW t \in State,
           Covers(s, q, S, t)
    PROVE  Covers(Take(s, Head(q)), Tail(q), S, t)
BY TakeKeys, TakeHistory DEF Covers

\* A stream that has run out has made the two states equal.
LEMMA CoversDone ==
    ASSUME NEW s \in State, NEW t \in State, Covers(s, <<>>, {}, t)
    PROVE  s = t
<1>1. DOMAIN <<>> = {}
  OBVIOUS
<1>2. \A k \in Keys : s.kv[k] = t.kv[k]
  BY <1>1 DEF Covers, KeysCovered
<1>3. Numbered(s.hist) /\ Numbered(t.hist) /\ Len(s.hist) = Len(t.hist)
  BY <1>1 DEF Covers, HistoryCovered
<1>4. s.hist \in Seq(Nat) /\ t.hist \in Seq(Nat) /\ s.kv \in [Keys -> Nat]
      /\ t.kv \in [Keys -> Nat]
  BY DEF State
<1>5. s.kv = t.kv
  BY <1>2, <1>4
<1>6. s.hist = t.hist
  <2>1. DOMAIN s.hist = DOMAIN t.hist /\ \A i \in DOMAIN s.hist : s.hist[i] = t.hist[i]
    BY <1>3, <1>4 DEF Numbered
  <2>2. s.hist = [i \in DOMAIN s.hist |-> s.hist[i]]
        /\ t.hist = [i \in DOMAIN t.hist |-> t.hist[i]]
    BY <1>4
  <2> QED BY <2>1, <2>2
<1>7. s = [kv |-> s.kv, hist |-> s.hist] /\ t = [kv |-> t.kv, hist |-> t.hist]
  BY DEF State
<1> QED BY <1>5, <1>6, <1>7

\* What Covers is for: receiving the stream gives the other state.
LEMMA CoversReceive ==
    ASSUME NEW s \in State, NEW q \in Seq(Line), NEW t \in State, Covers(s, q, {}, t)
    PROVE  Receive(s, q) = t
<1> DEFINE N == Len(q)
           rest(i) == SubSeq(q, i + 1, N)
<1>1. PICK f \in [0..N -> State] : TakeChain(f, N, s, q) /\ Receive(s, q) = f[N]
  BY ReceiveIs
<1>2. N \in Nat /\ \A i \in 1..N : q[i] \in Line
  OBVIOUS
<1> DEFINE Bad == {i \in 0..N : ~Covers(f[i], rest(i), {}, t)}
<1>3. Bad = {}
  <2> SUFFICES ASSUME Bad # {} PROVE FALSE
    OBVIOUS
  <2>1. PICK n \in Bad : \A k \in Bad : n <= k
    <3>1. Bad \in SUBSET Nat
      OBVIOUS
    <3> HIDE DEF Bad
    <3> QED BY <3>1, LeastExists
  <2>2. n # 0
    <3>1. rest(0) = q
      OBVIOUS
    <3> HIDE DEF rest
    <3> QED BY <1>1, <2>1, <3>1 DEF TakeChain
  <2>3. n \in 1..N /\ n - 1 \in 0..N /\ ~(n <= n - 1)
    BY <1>2, <2>1, <2>2
  <2>4. Covers(f[n - 1], rest(n - 1), {}, t)
    BY <2>1, <2>3
  <2>5. /\ rest(n - 1) \in Seq(Line) /\ rest(n - 1) # <<>>
        /\ Head(rest(n - 1)) = q[n]
    <3>1. rest(n - 1) = SubSeq(q, n, N)
      BY <1>2, <2>3
    <3>2. /\ SubSeq(q, n, N) \in Seq(Line) /\ Len(SubSeq(q, n, N)) = N - n + 1
          /\ SubSeq(q, n, N)[1] = q[n]
      BY <1>2, <2>3
    <3> DEFINE z == SubSeq(q, n, N)
    <3>3. z \in Seq(Line) /\ Len(z) # 0 /\ z[1] = q[n]
      BY <1>2, <2>3, <3>2
    <3> HIDE DEF rest, z
    <3>4. z # <<>> /\ Head(z) = q[n]
      BY <3>3
    <3> QED BY <3>1, <3>3, <3>4 DEF z
  <2>6. Tail(rest(n - 1)) = rest(n)
    BY <1>2, <2>3
  <2>7. f[n - 1] \in State
    BY <2>3
  <2> HIDE DEF rest
  <2>8. Covers(Take(f[n - 1], q[n]), rest(n), {}, t)
    BY <2>4, <2>5, <2>6, <2>7, CoversTake
  <2> QED BY <1>1, <2>1, <2>3, <2>8 DEF TakeChain
<1>4. rest(N) = <<>>
  BY <1>2
<1>5. Covers(f[N], <<>>, {}, t)
  <2> HIDE DEF rest
  <2> QED BY <1>2, <1>3, <1>4
<1> QED BY <1>1, <1>2, <1>5, CoversDone

\* A snapshot of the state to be reached makes the lines before it superfluous
\* and does no harm to the ones after it.
LEMMA CoversSnapshot ==
    ASSUME NEW s \in State, NEW p \in Seq(Line), NEW q \in Seq(Line), NEW S,
           NEW t \in State, Covers(s, p \o q, S, t)
    PROVE  Covers(t, q, S, t)
<1> DEFINE r == p \o q
           P == Len(p)
           N == Len(q)
           n == Len(t.hist)
<1>1. /\ P \in Nat /\ N \in Nat /\ n \in Nat /\ DOMAIN q = 1..N /\ DOMAIN r = 1..(P + N)
      /\ \A i \in 1..N : P + i \in DOMAIN r /\ r[P + i] = q[i]
  BY DEF State
<1>2. \A i \in 1..N : q[i].ver \in Nat
  BY LineFields
<1>3. Covers(s, r, S, t)
  OBVIOUS
<1> HIDE DEF r, P, N
<1>4. ASSUME NEW i \in DOMAIN q, q[i].key \in Keys,
             \A j \in DOMAIN q : i < j => q[j].key # q[i].key,
             \A o \in S : o.key # q[i].key
      PROVE  t.kv[q[i].key] = q[i].ver
  <2>1. P + i \in DOMAIN r /\ r[P + i] = q[i] /\ i \in Nat
    BY <1>1
  <2>2. ASSUME NEW j \in DOMAIN r, P + i < j
        PROVE  r[j].key # r[P + i].key
    <3>1. j - P \in DOMAIN q /\ i < j - P /\ P + (j - P) = j
      BY <1>1, <2>1, <2>2
    <3>2. r[j] = q[j - P]
      BY <1>1, <3>1
    <3> QED BY <1>4, <2>1, <3>1, <3>2
  <2> QED BY <1>3, <1>4, <2>1, <2>2 DEF Covers, KeysCovered
<1>5. KeysCovered(t, q, S, t)
  BY <1>3, <1>4 DEF Covers, KeysCovered
<1>6. \A i \in DOMAIN q : q[i].key = Hist => q[i].ver \in 1..n
  <2>1. \A j \in DOMAIN r : r[j].key = Hist => r[j].ver \in 1..n
    BY <1>3 DEF Covers, HistoryCovered
  <2> HIDE DEF n
  <2>2. \A i \in DOMAIN q : P + i \in DOMAIN r /\ r[P + i] = q[i]
    BY <1>1
  <2> QED BY <2>1, <2>2
<1>7. /\ Numbered(t.hist)
      /\ \A o \in S : o.key = Hist => o.ver = n /\ n # 0
  BY <1>3 DEF Covers, HistoryCovered
<1>8. /\ n <= n /\ n <= n + 1 /\ n = n
      /\ \A i \in DOMAIN q : q[i].key = Hist => q[i].ver <= n + 1
  BY <1>1, <1>6, <1>2
<1>9. HistoryCovered(t, q, S, t)
  BY <1>6, <1>7, <1>8 DEF HistoryCovered
<1> QED BY <1>5, <1>9 DEF Covers

\* A line that is journaled goes to the end of the stream.
LEMMA CoversTap ==
    ASSUME NEW s \in State, NEW q \in Seq(Line), NEW S \in SUBSET Line, NEW t \in State,
           NEW l \in S, \A o \in S : o.key = l.key => o = l,
           Covers(s, q, S, t)
    PROVE  Covers(s, Append(q, l), S \ {l}, t)
<1> DEFINE r == Append(q, l)
           N == Len(q)
           R == S \ {l}
           m == Len(s.hist)
           n == Len(t.hist)
<1>1. /\ N \in Nat /\ DOMAIN q = 1..N /\ DOMAIN r = 1..(N + 1)
      /\ \A i \in 1..N : r[i] = q[i]
      /\ r[N + 1] = l
  OBVIOUS
<1>2. m \in Nat /\ n \in Nat
  BY DEF State
<1>3. \A o \in R : o \in S /\ o.key # l.key
  OBVIOUS
<1> HIDE DEF r, N
<1>4. ASSUME NEW i \in DOMAIN r, r[i].key \in Keys,
             \A j \in DOMAIN r : i < j => r[j].key # r[i].key,
             \A o \in R : o.key # r[i].key
      PROVE  t.kv[r[i].key] = r[i].ver
  <2>1. CASE i = N + 1
    <3>1. r[i] = l
      BY <1>1, <2>1
    <3> QED BY <1>4, <3>1 DEF Covers, KeysCovered
  <2>2. CASE i # N + 1
    <3>1. i \in DOMAIN q /\ r[i] = q[i] /\ i < N + 1 /\ N + 1 \in DOMAIN r
      BY <1>1, <2>2
    <3>2. l.key # q[i].key
      BY <1>1, <1>4, <3>1
    <3>3. \A o \in S : o.key # q[i].key
      BY <1>4, <3>1, <3>2
    <3>4. \A j \in DOMAIN q : i < j => q[j].key # q[i].key
      <4>1. \A j \in DOMAIN q : j \in DOMAIN r /\ r[j] = q[j]
        BY <1>1
      <4> QED BY <1>4, <3>1, <4>1
    <3> QED BY <1>4, <3>1, <3>3, <3>4 DEF Covers, KeysCovered
  <2> QED BY <2>1, <2>2
<1>5. ASSUME NEW k \in Keys, \A i \in DOMAIN r : r[i].key # k, \A o \in R : o.key # k
      PROVE  s.kv[k] = t.kv[k]
  <2>1. N + 1 \in DOMAIN r /\ \A i \in DOMAIN q : i \in DOMAIN r /\ r[i] = q[i]
    BY <1>1
  <2>2. l.key # k
    BY <1>1, <1>5, <2>1
  <2>3. (\A o \in S : o.key # k) /\ (\A i \in DOMAIN q : q[i].key # k)
    BY <1>5, <2>1, <2>2
  <2> QED BY <2>3 DEF Covers, KeysCovered
<1>6. KeysCovered(s, r, R, t)
  BY <1>4, <1>5 DEF Covers, KeysCovered
<1>7. \A i \in DOMAIN q : i \in DOMAIN r /\ r[i] = q[i]
  BY <1>1
<1>8. ASSUME NEW i \in DOMAIN r, r[i].key = Hist
      PROVE  /\ r[i].ver \in 1..n
             /\ \/ r[i].ver <= m + 1
                \/ \E j \in DOMAIN r : j < i /\ r[j].key = Hist /\ r[j].ver + 1 = r[i].ver
  <2>1. CASE i = N + 1
    <3>1. r[i] = l /\ l.ver = n /\ n # 0
      BY <1>1, <1>8, <2>1 DEF Covers, HistoryCovered
    <3>2. \/ n <= m + 1
          \/ \E j \in DOMAIN q : q[j].key = Hist /\ q[j].ver + 1 = n
      BY <1>8, <3>1 DEF Covers, HistoryCovered
    <3>3. \A j \in DOMAIN q : j < i
      BY <1>1, <2>1
    <3>4. n \in 1..n
      BY <1>2, <3>1
    <3> QED BY <1>7, <3>1, <3>2, <3>3, <3>4
  <2>2. CASE i # N + 1
    <3>1. i \in DOMAIN q /\ r[i] = q[i]
      BY <1>1, <2>2
    <3> QED BY <1>7, <1>8, <3>1 DEF Covers, HistoryCovered
  <2> QED BY <2>1, <2>2
<1>9. \/ m = n
      \/ \E i \in DOMAIN r : r[i].key = Hist /\ r[i].ver = n
      \/ \E o \in R : o.key = Hist
  <2>1. CASE l.key = Hist
    <3>1. l.ver = n /\ N + 1 \in DOMAIN r
      BY <1>1, <2>1 DEF Covers, HistoryCovered
    <3> QED BY <1>1, <2>1, <3>1
  <2>2. CASE l.key # Hist
    <3>1. (\E o \in S : o.key = Hist) => \E o \in R : o.key = Hist
      BY <2>2
    <3> QED BY <1>7, <3>1 DEF Covers, HistoryCovered
  <2> QED BY <2>1, <2>2
<1>10. \A o \in R : o.key = Hist =>
          /\ o.ver = n /\ n # 0
          /\ \/ n <= m + 1
             \/ \E j \in DOMAIN r : r[j].key = Hist /\ r[j].ver + 1 = n
  BY <1>7 DEF Covers, HistoryCovered
<1>11. Numbered(s.hist) /\ Numbered(t.hist) /\ m <= n
  BY DEF Covers, HistoryCovered
<1>12. HistoryCovered(s, r, R, t)
  <2> HIDE DEF R
  <2> QED BY <1>8, <1>9, <1>10, <1>11 DEF HistoryCovered
<1> QED BY <1>6, <1>12 DEF Covers, r

\* All lines that are owed go to the end of the stream, one after the other.
LEMMA CoversOrder ==
    ASSUME NEW s \in State, NEW q \in Seq(Line), NEW S \in SUBSET Line, NEW t \in State,
           NEW e \in Seq(S), \A o \in S : \E i \in DOMAIN e : e[i] = o,
           Covers(s, q, S, t)
    PROVE  Covers(s, q \o e, {}, t)
<1> DEFINE r == q \o e
           N == Len(q)
           M == Len(e)
           m == Len(s.hist)
           n == Len(t.hist)
<1>1. /\ N \in Nat /\ M \in Nat /\ DOMAIN q = 1..N /\ DOMAIN r = 1..(N + M)
      /\ DOMAIN e = 1..M /\ \A i \in 1..M : e[i] \in S
      /\ \A i \in 1..N : r[i] = q[i]
      /\ \A i \in 1..M : r[N + i] = e[i]
  OBVIOUS
<1>2. /\ m \in Nat /\ n \in Nat
  BY DEF State
<1> HIDE DEF r, N, M
<1>3. \A i \in DOMAIN q : i \in DOMAIN r /\ r[i] = q[i]
  BY <1>1
<1>4. \A i \in DOMAIN r : i \notin DOMAIN q => r[i] \in S /\ \A j \in DOMAIN q : j < i
  <2> SUFFICES ASSUME NEW i \in DOMAIN r, i \notin DOMAIN q
               PROVE  r[i] \in S /\ \A j \in DOMAIN q : j < i
    OBVIOUS
  <2>1. i - N \in 1..M /\ N + (i - N) = i /\ i > N /\ i \in Nat
    BY <1>1
  <2>2. r[i] = e[i - N]
    BY <1>1, <2>1
  <2> QED BY <1>1, <2>1, <2>2
<1>5. \A o \in S : \E i \in DOMAIN r : r[i] = o /\ \A j \in DOMAIN q : j < i
  <2> SUFFICES ASSUME NEW o \in S
               PROVE  \E i \in DOMAIN r : r[i] = o /\ \A j \in DOMAIN q : j < i
    OBVIOUS
  <2>1. PICK i \in DOMAIN e : e[i] = o
    OBVIOUS
  <2>2. N + i \in DOMAIN r /\ r[N + i] = o /\ \A j \in DOMAIN q : j < N + i
    BY <1>1, <2>1
  <2> QED BY <2>2
<1>6. ASSUME NEW i \in DOMAIN r, r[i].key \in Keys,
             \A j \in DOMAIN r : i < j => r[j].key # r[i].key
      PROVE  t.kv[r[i].key] = r[i].ver
  <2>1. CASE i \in DOMAIN q
    <3>1. r[i] = q[i] /\ \A o \in S : o.key # q[i].key
      BY <1>3, <1>5, <1>6, <2>1
    <3>2. \A j \in DOMAIN q : i < j => q[j].key # q[i].key
      BY <1>3, <1>6, <2>1
    <3> QED BY <1>6, <2>1, <3>1, <3>2 DEF Covers, KeysCovered
  <2>2. CASE i \notin DOMAIN q
    BY <1>4, <1>6, <2>2 DEF Covers, KeysCovered
  <2> QED BY <2>1, <2>2
<1>7. ASSUME NEW k \in Keys, \A i \in DOMAIN r : r[i].key # k
      PROVE  s.kv[k] = t.kv[k]
  <2>1. \A o \in S : o.key # k
    BY <1>5, <1>7
  <2>2. \A i \in DOMAIN q : q[i].key # k
    BY <1>3, <1>7
  <2> QED BY <2>1, <2>2 DEF Covers, KeysCovered
<1>8. KeysCovered(s, r, {}, t)
  BY <1>6, <1>7 DEF KeysCovered
<1>9. ASSUME NEW i \in DOMAIN r, r[i].key = Hist
      PROVE  /\ r[i].ver \in 1..n
             /\ \/ r[i].ver <= m + 1
                \/ \E j \in DOMAIN r : j < i /\ r[j].key = Hist /\ r[j].ver + 1 = r[i].ver
  <2>1. CASE i \in DOMAIN q
    BY <1>3, <1>9, <2>1 DEF Covers, HistoryCovered
  <2>2. CASE i \notin DOMAIN q
    <3>1. /\ r[i].ver = n /\ n # 0
          /\ \/ n <= m + 1
             \/ \E j \in DOMAIN q : q[j].key = Hist /\ q[j].ver + 1 = n
      BY <1>4, <1>9, <2>2 DEF Covers, HistoryCovered
    <3>2. n \in 1..n
      BY <1>2, <3>1
    <3> QED BY <1>3, <1>4, <2>2, <3>1, <3>2
  <2> QED BY <2>1, <2>2
<1>10. m = n \/ \E i \in DOMAIN r : r[i].key = Hist /\ r[i].ver = n
  <2>1. CASE \E o \in S : o.key = Hist
    <3>1. PICK o \in S : o.key = Hist
      BY <2>1
    <3>2. o.ver = n
      BY <3>1 DEF Covers, HistoryCovered
    <3> QED BY <1>5, <3>1, <3>2
  <2>2. CASE ~(\E o \in S : o.key = Hist)
    BY <1>3, <2>2 DEF Covers, HistoryCovered
  <2> QED BY <2>1, <2>2
<1>11. Numbered(s.hist) /\ Numbered(t.hist) /\ m <= n
  BY DEF Covers, HistoryCovered
<1>12. HistoryCovered(s, r, {}, t)
  BY <1>9, <1>10, <1>11 DEF HistoryCovered
<1> QED BY <1>8, <1>12 DEF Covers, r

\* A change of a record whose line is owed.
LEMMA CoversWriteKey ==
    ASSUME NEW s \in State, NEW q \in Seq(Line), NEW S \in SUBSET Line, NEW t \in State,
           NEW l \in Line, l.key # Hist, \A o \in S : o.key # l.key,
           Covers(s, q, S, t)
    PROVE  Covers(s, q, S \cup {l}, Apply(t, l))
<1> DEFINE R == S \cup {l}
           u == Apply(t, l)
<1>1. u.hist = t.hist /\ u.kv = [t.kv EXCEPT ![l.key] = l.ver] /\ t.kv \in [Keys -> Nat]
      /\ l.key \in Keys
  BY DEF Apply, State, Line
<1>2. u.kv[l.key] = l.ver /\ \A k \in Keys : k # l.key => u.kv[k] = t.kv[k]
  BY <1>1
<1>3. S \subseteq R /\ l \in R /\ \A o \in R : o \in S \/ o = l
  OBVIOUS
<1> HIDE DEF R, u
<1>4. KeysCovered(s, q, R, u)
  <2>1. \A o \in R : o.key \in Keys => u.kv[o.key] = o.ver
    BY <1>2, <1>3 DEF Covers, KeysCovered
  <2>2. ASSUME NEW i \in DOMAIN q, q[i].key \in Keys,
               \A j \in DOMAIN q : i < j => q[j].key # q[i].key,
               \A o \in R : o.key # q[i].key
        PROVE  u.kv[q[i].key] = q[i].ver
    BY <1>2, <1>3, <2>2 DEF Covers, KeysCovered
  <2>3. ASSUME NEW k \in Keys, \A i \in DOMAIN q : q[i].key # k, \A o \in R : o.key # k
        PROVE  s.kv[k] = u.kv[k]
    BY <1>2, <1>3, <2>3 DEF Covers, KeysCovered
  <2> QED BY <2>1, <2>2, <2>3 DEF KeysCovered
<1>5. HistoryCovered(s, q, R, u)
  <2>1. HistoryCovered(s, q, R, t)
    <3>1. (\E o \in S : o.key = Hist) => \E o \in R : o.key = Hist
      BY <1>3
    <3> QED BY <1>3, <3>1 DEF Covers, HistoryCovered
  <2> QED BY <1>1, <2>1 DEF HistoryCovered
<1> QED BY <1>4, <1>5 DEF Covers, R, u

\* A new event whose line is owed.
LEMMA CoversWriteEvent ==
    ASSUME NEW s \in State, NEW q \in Seq(Line), NEW S \in SUBSET Line, NEW t \in State,
           NEW l \in Line, l.key = Hist, l.ver = Len(t.hist) + 1,
           \A o \in S : o.key # Hist, Covers(s, q, S, t)
    PROVE  Covers(s, q, S \cup {l}, Apply(t, l))
<1> DEFINE R == S \cup {l}
           u == Apply(t, l)
           m == Len(s.hist)
           n == Len(t.hist)
<1>1. u.kv = t.kv /\ u.hist = Append(t.hist, n + 1) /\ t.hist \in Seq(Nat)
      /\ m \in Nat /\ n \in Nat
  BY DEF Apply, State
<1>2. /\ Len(u.hist) = n + 1 /\ DOMAIN u.hist = 1..(n + 1) /\ DOMAIN t.hist = 1..n
      /\ u.hist[n + 1] = n + 1 /\ \A i \in 1..n : u.hist[i] = t.hist[i]
  BY <1>1
<1>3. S \subseteq R /\ l \in R /\ \A o \in R : o \in S \/ o = l
  OBVIOUS
<1>4. \A i \in DOMAIN q : q[i].ver \in Nat
  BY LineFields
<1> HIDE DEF R, u
<1>5. KeysCovered(s, q, R, u)
  <2>1. Hist \notin Keys
    BY ReplicationAssumption
  <2> QED BY <1>1, <1>3, <2>1 DEF Covers, KeysCovered
<1>6. Numbered(s.hist) /\ Numbered(t.hist) /\ m <= n
  BY DEF Covers, HistoryCovered
<1>7. Numbered(u.hist)
  <2> HIDE DEF n
  <2> QED BY <1>1, <1>2, <1>6 DEF Numbered
<1>8. \A i \in DOMAIN q : q[i].key = Hist =>
         /\ q[i].ver \in 1..(n + 1)
         /\ \/ q[i].ver <= m + 1
            \/ \E j \in DOMAIN q :
                  j < i /\ q[j].key = Hist /\ q[j].ver + 1 = q[i].ver
  <2> SUFFICES ASSUME NEW i \in DOMAIN q, q[i].key = Hist
               PROVE  /\ q[i].ver \in 1..(n + 1)
                      /\ \/ q[i].ver <= m + 1
                         \/ \E j \in DOMAIN q :
                               j < i /\ q[j].key = Hist /\ q[j].ver + 1 = q[i].ver
    OBVIOUS
  <2>1. /\ q[i].ver \in 1..n
        /\ \/ q[i].ver <= m + 1
           \/ \E j \in DOMAIN q :
                 j < i /\ q[j].key = Hist /\ q[j].ver + 1 = q[i].ver
    BY DEF Covers, HistoryCovered
  <2>2. q[i].ver \in 1..(n + 1)
    BY <1>1, <2>1
  <2> QED BY <2>1, <2>2
<1>9. \A o \in R : o.key = Hist =>
         /\ o.ver = n + 1 /\ n + 1 # 0
         /\ \/ n + 1 <= m + 1
            \/ \E j \in DOMAIN q : q[j].key = Hist /\ q[j].ver + 1 = n + 1
  <2>1. \/ m = n
        \/ \E i \in DOMAIN q : q[i].key = Hist /\ q[i].ver = n
    BY DEF Covers, HistoryCovered
  <2>2. \/ n + 1 <= m + 1
        \/ \E j \in DOMAIN q : q[j].key = Hist /\ q[j].ver + 1 = n + 1
    <3> HIDE DEF m, n
    <3> QED BY <1>1, <2>1
  <2>3. n + 1 # 0
    BY <1>1
  <2> QED BY <1>3, <2>2, <2>3
<1>10. m <= n + 1
  BY <1>1, <1>6
<1>11. \E o \in R : o.key = Hist
  BY <1>3
<1>12. HistoryCovered(s, q, R, u)
  BY <1>2, <1>6, <1>7, <1>8, <1>9, <1>10, <1>11 DEF HistoryCovered
<1> QED BY <1>5, <1>12 DEF Covers, R, u

\* Lines that are owed are lines of different records, and the stream leads to
\* the leader's state.
StreamInv ==
    /\ \A o, p \in owed : o.key = p.key => o = p
    /\ IsFiniteSet(owed)
    /\ clean /\ mode = "running" => Covers(Base, Journaled, owed, mem)

\* Where the stream starts and what it holds, case by case.
LEMMA StreamCases ==
    /\ ~needSync => Base = fmem
    /\ needSync /\ posts.now # NoPost => Base = posts.now.state
    /\ needSync /\ posts.now = NoPost => Base = mem
    /\ needSync => Journaled = ch
    /\ ~needSync /\ posts.now # NoPost => Journaled = posts.now.lines \o ch
    /\ ~needSync /\ posts.now = NoPost => Journaled = batch \o ch
BY DEF Base, Journaled

StreamHere ==
    /\ ~needSync => Base = fmem
    /\ needSync /\ posts.now # NoPost => Base = posts.now.state
    /\ needSync /\ posts.now = NoPost => Base = mem
    /\ needSync => Journaled = ch
    /\ ~needSync /\ posts.now # NoPost => Journaled = posts.now.lines \o ch
    /\ ~needSync /\ posts.now = NoPost => Journaled = batch \o ch

\* The same of the next state.
LEMMA StreamNext == StreamHere'
<1>1. StreamHere
  BY StreamCases DEF StreamHere
<1> QED BY <1>1, PTL

\* Base is a state, the stream is made of lines.
LEMMA StreamTyped ==
    ASSUME TypeOK
    PROVE  Base \in State /\ Journaled \in Seq(Line)
<1>1. /\ mem \in State /\ fmem \in State /\ posts.now.state \in State
      /\ ch \in Seq(Line) /\ batch \in Seq(Line) /\ posts.now.lines \in Seq(Line)
      /\ needSync \in BOOLEAN
  BY DEF TypeOK, Post
<1>2. batch \o ch \in Seq(Line) /\ posts.now.lines \o ch \in Seq(Line)
  BY <1>1
<1> QED BY <1>1, <1>2, StreamCases

\* Lines between two variables.
LEMMA Concatenations ==
    ASSUME NEW p \in Seq(Line), NEW q \in Seq(Line), NEW l \in Line
    PROVE  /\ <<>> \o q = q /\ q \o <<>> = q
           /\ p \o Append(q, l) = Append(p \o q, l)
           /\ q # <<>> => Append(p, Head(q)) \o Tail(q) = p \o q
           /\ q # <<>> => <<Head(q)>> \o Tail(q) = q
           /\ p # <<>> => /\ p \o q # <<>> /\ Head(p \o q) = Head(p)
                          /\ Tail(p \o q) = Tail(p) \o q
<1>1. <<>> \o q = q /\ q \o <<>> = q
  OBVIOUS
<1>2. p \o Append(q, l) = Append(p \o q, l)
  OBVIOUS
<1>3. q # <<>> => Append(p, Head(q)) \o Tail(q) = p \o q
  OBVIOUS
<1>4. q # <<>> => <<Head(q)>> \o Tail(q) = q
  OBVIOUS
<1>5. p # <<>> => p \o q # <<>> /\ Head(p \o q) = Head(p)
  OBVIOUS
<1>6. p # <<>> => Tail(p \o q) = Tail(p) \o q
  OBVIOUS
<1> QED BY <1>1, <1>2, <1>3, <1>4, <1>5, <1>6

\* A line at the end of the second part is at the end of the whole.
LEMMA ConcatAppend ==
    ASSUME NEW p \in Seq(Line), NEW q \in Seq(Line), NEW l \in Line
    PROVE  p \o Append(q, l) = Append(p \o q, l)
BY Concatenations

\* The first line of the first part is the first of the whole.
LEMMA ConcatFirst ==
    ASSUME NEW p \in Seq(Line), NEW q \in Seq(Line), p # <<>>
    PROVE  p \o q # <<>> /\ Head(p \o q) = Head(p) /\ Tail(p \o q) = Tail(p) \o q
<1>1. Head(p) \in Line
  OBVIOUS
<1> QED BY <1>1, Concatenations

\* Steps that move lines along the stream.
LEMMA StreamMoves ==
    ASSUME StreamInv, UNCHANGED <<mem, owed>>,
           clean' /\ mode' = "running" => /\ clean /\ mode = "running"
                                          /\ Base' = Base /\ Journaled' = Journaled
    PROVE  StreamInv'
BY DEF StreamInv

\* Steps after which a snapshot of the leader's memory is to come.
LEMMA StreamRestarts ==
    ASSUME TypeOK, StreamInv, UNCHANGED <<mem, owed>>, Base' = mem,
           NEW p \in Seq(Line), Journaled = p \o Journaled', Journaled' \in Seq(Line),
           clean' /\ mode' = "running" => clean /\ mode = "running"
    PROVE  StreamInv'
<1>1. Base \in State /\ mem \in State
  BY StreamTyped DEF TypeOK
<1>2. ASSUME clean', mode' = "running"
      PROVE  Covers(mem, Journaled', owed, mem)
  <2>1. Covers(Base, p \o Journaled', owed, mem)
    BY <1>2 DEF StreamInv
  <2> QED BY <1>1, <2>1, CoversSnapshot
<1> QED BY <1>2 DEF StreamInv

\* A leader's write.
LEMMA StreamWrites ==
    ASSUME TypeOK, StreamInv, NEW l \in Line, Write(l),
           l.key = Hist => l.ver = Len(mem.hist) + 1
    PROVE  StreamInv'
<1>1. /\ mem' = Apply(mem, l) /\ owed' = owed \cup {l}
      /\ \A o \in owed : o.key # l.key
      /\ UNCHANGED <<ch, needSync, batch, mode, posts, fmem, clean>>
  BY DEF Write, sender, follower
<1>2. Base \in State /\ Journaled \in Seq(Line) /\ mem \in State /\ owed \in SUBSET Line
      /\ mem' \in State /\ needSync \in BOOLEAN
  BY <1>1, StreamTyped, ApplyTyped DEF TypeOK
<1>3. Journaled' = Journaled
  BY <1>1 DEF Journaled
<1>4. ASSUME clean, mode = "running"
      PROVE  Covers(Base, Journaled, owed', mem')
  <2>1. Covers(Base, Journaled, owed, mem)
    BY <1>4 DEF StreamInv
  <2>2. CASE l.key = Hist
    BY <1>1, <1>2, <2>1, <2>2, CoversWriteEvent
  <2>3. CASE l.key # Hist
    BY <1>1, <1>2, <2>1, <2>3, CoversWriteKey
  <2> QED BY <2>2, <2>3
<1>5. ASSUME clean, mode = "running"
      PROVE  Covers(Base', Journaled', owed', mem')
  <2>1. CASE needSync /\ posts.now = NoPost
    <3>1. Base' = mem'
      BY <1>1, <2>1, StreamNext DEF StreamHere
    <3>2. Journaled = <<>> \o Journaled /\ <<>> \in Seq(Line)
      BY <1>2
    <3>3. Covers(Base, <<>> \o Journaled, owed', mem')
      BY <1>4, <1>5, <3>2
    <3>4. Covers(mem', Journaled, owed', mem')
      BY <1>2, <3>2, <3>3, CoversSnapshot
    <3> QED BY <1>3, <3>1, <3>4
  <2>2. CASE ~(needSync /\ posts.now = NoPost)
    <3>1. Base' = Base
      BY <1>1, <1>2, <2>2, StreamCases, StreamNext DEF StreamHere
    <3> QED BY <1>3, <1>4, <1>5, <3>1
  <2> QED BY <2>1, <2>2
<1>6. \A o, p \in owed' : o.key = p.key => o = p
  BY <1>1 DEF StreamInv
<1>7. IsFiniteSet(owed')
  BY <1>1, FS_AddElement DEF StreamInv
<1> QED BY <1>1, <1>5, <1>6, <1>7 DEF StreamInv

\* A journaled line joins the stream, or is dropped and remembered as dropped.
LEMMA StreamTap ==
    ASSUME TypeOK, StreamInv, NEW l \in owed, Tap(l)
    PROVE  StreamInv'
<1>1. /\ owed' = owed \ {l} /\ UNCHANGED <<mem, needSync, batch, mode, posts, fmem>>
      /\ clean' = (clean /\ ~(Len(ch) >= Buffer))
      /\ ~(Len(ch) >= Buffer) => ch' = Append(ch, l)
  BY DEF Tap, follower
<1>2. /\ Base \in State /\ Journaled \in Seq(Line) /\ mem \in State /\ owed \in SUBSET Line
      /\ l \in Line /\ needSync \in BOOLEAN
      /\ ch \in Seq(Line) /\ batch \in Seq(Line) /\ posts.now.lines \in Seq(Line)
  BY StreamTyped DEF TypeOK, Post
<1>3. ASSUME clean', mode' = "running"
      PROVE  Covers(Base', Journaled', owed', mem')
  <2>1. clean /\ mode = "running" /\ ch' = Append(ch, l)
    BY <1>1, <1>3
  <2>2. Base' = Base
    BY <1>1 DEF Base
  <2>3. Journaled' = Append(Journaled, l)
    <3>1. CASE needSync
      BY <1>1, <2>1, <3>1, StreamCases, StreamNext DEF StreamHere
    <3>2. CASE ~needSync /\ posts.now # NoPost
      <4>1. Journaled = posts.now.lines \o ch /\ Journaled' = posts.now.lines \o Append(ch, l)
        BY <1>1, <2>1, <3>2, StreamCases, StreamNext DEF StreamHere
      <4>2. posts.now.lines \o Append(ch, l) = Append(posts.now.lines \o ch, l)
        BY <1>2, ConcatAppend, Zenon
      <4> QED BY <4>1, <4>2
    <3>3. CASE ~needSync /\ posts.now = NoPost
      <4>1. Journaled = batch \o ch /\ Journaled' = batch \o Append(ch, l)
        BY <1>1, <2>1, <3>3, StreamCases, StreamNext DEF StreamHere
      <4> QED BY <1>2, <4>1, Concatenations
    <3> QED BY <1>2, <3>1, <3>2, <3>3
  <2>4. Covers(Base, Append(Journaled, l), owed \ {l}, mem)
    <3>1. Covers(Base, Journaled, owed, mem) /\ \A o \in owed : o.key = l.key => o = l
      BY <2>1 DEF StreamInv
    <3> QED BY <1>2, <3>1, CoversTap
  <2> QED BY <1>1, <2>2, <2>3, <2>4
<1>4. \A o, p \in owed' : o.key = p.key => o = p
  BY <1>1 DEF StreamInv
<1>5. IsFiniteSet(owed')
  BY <1>1, FS_RemoveElement DEF StreamInv
<1> QED BY <1>3, <1>4, <1>5 DEF StreamInv

\* The loop's select.
LEMMA StreamSelect ==
    ASSUME TypeOK, SyncInv, StreamInv, TakeOverrun \/ TakeLine \/ Tick \/ Close
    PROVE  StreamInv'
<1>1. /\ posts \in Posts /\ mem \in State /\ needSync \in BOOLEAN
      /\ ch \in Seq(Line) /\ batch \in Seq(Line)
  BY DEF TypeOK, Posts
<1>2. /\ \A s \in State : /\ SnapshotPost(s) # NoPost /\ SnapshotPost(s).state = s
                          /\ SnapshotPost(s) \in Post
      /\ \A b \in Seq(Line) : /\ AppendPost(b) # NoPost /\ AppendPost(b).lines = b
                              /\ AppendPost(b) \in Post
  <2>1. \A b : AppendPost(b).lines = b
    BY DEF AppendPost, NoPost
  <2>2. /\ \A s : SnapshotPost(s) # NoPost
        /\ \A b : AppendPost(b) # NoPost
    <3>1. NoPost.kind = "none"
      BY DEF NoPost
    <3> QED BY <3>1, PostFields
  <2> QED BY <2>1, <2>2, PostFields, PostsTyped
<1>3. CASE TakeOverrun
  <2>1. needSync' /\ posts.now = NoPost /\ UNCHANGED <<mem, owed, ch, posts, mode, clean>>
    BY <1>3 DEF TakeOverrun, Selecting
  <2>2. Base' = mem /\ Journaled' = ch
    BY <2>1, StreamNext DEF StreamHere
  <2>3. CASE needSync
    <3>1. Journaled = <<>> \o ch /\ <<>> \in Seq(Line)
      BY <1>1, <2>3, StreamCases
    <3> QED BY <1>1, <2>1, <2>2, <3>1, StreamRestarts
  <2>4. CASE ~needSync
    <3>1. Journaled = batch \o ch
      BY <2>1, <2>4, StreamCases
    <3> QED BY <1>1, <2>1, <2>2, <3>1, StreamRestarts
  <2> QED BY <2>3, <2>4
<1>4. CASE TakeLine
  <2> DEFINE b == Append(batch, Head(ch))
  <2>1. /\ posts.now = NoPost /\ ch # <<>> /\ ch' = Tail(ch)
        /\ UNCHANGED <<mem, owed, needSync, mode, fmem, clean>>
        /\ Flush(b) \/ (batch' = b /\ posts' = posts)
    BY <1>4 DEF TakeLine, Selecting, follower
  <2>2. b \in Seq(Line) /\ b # <<>> /\ Head(ch) \in Line /\ Tail(ch) \in Seq(Line)
        /\ <<Head(ch)>> \in Seq(Line)
    BY <1>1, <2>1
  <2>3. b \o Tail(ch) = batch \o ch
    BY <1>1, <2>1, <2>2, Concatenations
  <2> HIDE DEF b
  <2>4. CASE needSync
    <3>1. posts'.now = NoPost \/ posts'.now = SnapshotPost(mem)
      <4>1. posts' = posts \/ posts' = [posts EXCEPT !.now = SnapshotPost(mem)]
        BY <2>1, <2>4 DEF Flush
      <4>2. SnapshotPost(mem) \in Post
        BY <1>1, PostsTyped
      <4>3. [posts EXCEPT !.now = SnapshotPost(mem)].now = SnapshotPost(mem)
        BY <1>1, <4>2, PostReplaced
      <4> QED BY <2>1, <4>1, <4>3
    <3>2. Base' = mem /\ Journaled' = Tail(ch)
      BY <1>1, <1>2, <2>1, <2>4, <3>1, StreamNext DEF StreamHere
    <3>3. Journaled = <<Head(ch)>> \o Tail(ch)
      BY <1>1, <2>1, <2>2, <2>4, StreamCases, Concatenations
    <3> QED BY <2>1, <2>2, <3>2, <3>3, StreamRestarts
  <2>5. CASE ~needSync
    <3>1. batch' = b /\ (posts'.now = NoPost \/ posts'.now = AppendPost(b))
      <4>1. /\ batch' = b
            /\ posts' = posts \/ posts' = [posts EXCEPT !.now = AppendPost(b)]
        BY <2>1, <2>2, <2>5 DEF Flush
      <4>2. AppendPost(b) \in Post
        BY <2>2, PostsTyped
      <4>3. [posts EXCEPT !.now = AppendPost(b)].now = AppendPost(b)
        BY <1>1, <4>2, PostReplaced
      <4> QED BY <2>1, <4>1, <4>3
    <3>2. Base' = Base /\ Journaled' = b \o Tail(ch) /\ Journaled = batch \o ch
      BY <1>2, <2>1, <2>2, <2>5, <3>1, StreamCases, StreamNext DEF StreamHere
    <3> QED BY <2>1, <2>3, <3>2, StreamMoves
  <2> QED BY <1>1, <2>4, <2>5
<1>5. CASE Tick
  <2>1. /\ posts.now = NoPost /\ Flush(batch)
        /\ UNCHANGED <<mem, owed, ch, needSync, mode, fmem, clean>>
    BY <1>5 DEF Tick, Selecting, follower
  <2>2. CASE needSync
    <3>1. posts'.now = SnapshotPost(mem)
      BY <1>1, <1>2, <2>1, <2>2, PostReplaced DEF Flush
    <3>2. Base' = Base /\ Journaled' = Journaled
      BY <1>1, <1>2, <2>1, <2>2, <3>1, StreamCases, StreamNext DEF StreamHere
    <3> QED BY <2>1, <3>2, StreamMoves
  <2>3. CASE ~needSync
    <3>1. batch' = batch /\ (posts'.now = NoPost \/ posts'.now = AppendPost(batch))
      BY <1>1, <1>2, <2>1, <2>3, PostReplaced DEF Flush
    <3>2. Base' = Base /\ Journaled' = Journaled
      BY <1>1, <1>2, <2>1, <2>3, <3>1, StreamCases, StreamNext DEF StreamHere
    <3> QED BY <2>1, <3>2, StreamMoves
  <2> QED BY <1>1, <2>2, <2>3
<1>6. CASE Close
  <2>1. mode' # "running" /\ UNCHANGED <<mem, owed>>
    BY <1>6 DEF Close
  <2> QED BY <2>1, StreamMoves
<1> QED BY <1>3, <1>4, <1>5, <1>6

\* Answers, handlers and restarts.
LEMMA StreamAnswers ==
    ASSUME TypeOK, SyncInv, StreamInv,
           \/ PostSucceeds \/ PostTimesOut \/ LateAnswer \/ FollowerCrash
           \/ \E h \in {"now", "late"} : Refused(h) \/ PostFails(h)
    PROVE  StreamInv'
<1>1. /\ posts \in Posts /\ mem \in State /\ needSync \in BOOLEAN /\ posts.now \in Post
      /\ ch \in Seq(Line) /\ batch \in Seq(Line) /\ posts.now.lines \in Seq(Line)
  BY DEF TypeOK, Posts, Post
<1>2. NoPost \in Post /\ NoPost.kind = "none"
  BY PostsTyped, PostFields
<1>3. Resumed => (mode' = "running" => mode = "running")
  BY DEF Resumed
<1>4. Failed => /\ (mode' = "running" => mode = "running")
                /\ needSync' = (needSync \/ posts.now.kind = "append")
  BY <1>3 DEF Failed
<1>5. posts.now # NoPost => needSync \/ posts.now.kind = "append"
  BY <1>1 DEF SyncInv, PostInv, Post
\* The post is given up: a snapshot is to come.
<1>6. ASSUME needSync', posts'.now = NoPost, UNCHANGED <<mem, owed, ch, batch>>,
             clean' /\ mode' = "running" => clean /\ mode = "running"
      PROVE  StreamInv'
  <2>1. Base' = mem /\ Journaled' = ch
    BY <1>6, StreamNext DEF StreamHere
  <2>2. \E p \in Seq(Line) : Journaled = p \o ch
    <3>1. Journaled = ch => Journaled = <<>> \o ch
      BY <1>1
    <3>2. <<>> \in Seq(Line)
      OBVIOUS
    <3> QED BY <1>1, <3>1, <3>2, StreamCases
  <2> QED BY <1>1, <1>6, <2>1, <2>2, StreamRestarts
<1>7. CASE PostSucceeds
  <2>1. /\ Done(posts.now) /\ posts'.now = NoPost
        /\ UNCHANGED <<mem, owed, fmem, clean>> /\ (mode' = "running" => mode = "running")
    BY <1>1, <1>2, <1>3, <1>7, PostReplaced DEF PostSucceeds, follower
  <2>2. CASE posts.now.kind = "snapshot"
    <3>1. needSync /\ posts.now # NoPost /\ posts.now.step = 3
      BY <1>2, <2>1, <2>2 DEF SyncInv, PostInv, Done
    <3>2. ~needSync' /\ batch' = ch /\ ch' = <<>>
      BY <1>1, <1>7, <2>2 DEF PostSucceeds
    <3>3. Journaled' = Journaled
      <4>1. Journaled' = ch \o <<>> /\ Journaled = ch
        BY <2>1, <3>1, <3>2, StreamCases, StreamNext DEF StreamHere
      <4> QED BY <1>1, <4>1
    <3>4. clean => Base' = Base
      <4>1. Base' = fmem /\ Base = posts.now.state
        BY <2>1, <3>1, <3>2, StreamCases, StreamNext DEF StreamHere
      <4> QED BY <2>2, <3>1, <4>1 DEF SyncInv, ResetInv
    <3> QED BY <2>1, <3>3, <3>4, StreamMoves
  <2>3. CASE posts.now.kind # "snapshot"
    <3>1. posts.now.kind = "append" /\ posts.now.lines = <<>> /\ ~needSync /\ posts.now # NoPost
      BY <1>2, <2>1, <2>3 DEF Done, SyncInv, PostInv
    <3>2. ~needSync' /\ batch' = <<>> /\ ch' = ch
      BY <1>1, <1>7, <2>3, <3>1 DEF PostSucceeds
    <3>3. Journaled' = Journaled /\ Base' = Base
      BY <2>1, <3>1, <3>2, StreamCases, StreamNext DEF StreamHere
    <3> QED BY <2>1, <3>3, StreamMoves
  <2> QED BY <2>2, <2>3
<1>8. ASSUME NEW h \in {"now", "late"}, Refused(h) \/ PostFails(h)
      PROVE  StreamInv'
  <2>1. /\ posts' = [posts EXCEPT ![h] = NoPost] /\ posts[h] # NoPost
        /\ UNCHANGED <<mem, owed, ch, batch, clean>>
    BY <1>8, ErrorEnds
  <2>2. CASE h = "now"
    <3>1. posts'.now = NoPost /\ posts.now # NoPost
      BY <1>1, <1>2, <2>1, <2>2, Placed
    <3>2. Failed
      BY <1>8, <2>2, ErrorEnds
    <3> QED BY <1>4, <1>5, <1>6, <2>1, <3>1, <3>2
  <2>3. CASE h = "late"
    <3>1. ~clean
      BY <1>1, <1>2, <2>1, <2>3, Placed DEF SyncInv, PostInv
    <3> QED BY <2>1, <3>1, StreamMoves
  <2> QED BY <2>2, <2>3
<1>9. CASE PostTimesOut
  <2>1. ~clean' /\ UNCHANGED <<mem, owed>>
    BY <1>9 DEF PostTimesOut
  <2> QED BY <2>1, StreamMoves
<1>10. CASE LateAnswer
  <2>1. posts'.now = posts.now
        /\ UNCHANGED <<mem, owed, ch, batch, needSync, mode, fmem, clean>>
    BY <1>1, <1>2, <1>10, PostReplaced DEF LateAnswer, sender, follower
  <2>2. Base' = Base /\ Journaled' = Journaled
    BY <2>1 DEF Base, Journaled
  <2> QED BY <2>1, <2>2, StreamMoves
<1>11. CASE FollowerCrash
  <2>1. /\ posts'.now = NoPost /\ Failed /\ fmem' = Recovered
        /\ UNCHANGED <<mem, owed, ch, batch, clean>>
    BY <1>11 DEF FollowerCrash
  <2>2. CASE needSync \/ posts.now # NoPost
    BY <1>4, <1>5, <1>6, <2>1, <2>2
  <2>3. CASE ~needSync /\ posts.now = NoPost
    <3>1. ~needSync' /\ (mode' = "running" => mode = "running")
      BY <1>1, <1>2, <1>4, <2>1, <2>3
    <3>2. clean => fmem' = fmem
      BY <2>1, <2>3, PostFields DEF SyncInv, InSyncInv
    <3>3. Journaled' = Journaled /\ (clean => Base' = Base)
      BY <2>1, <2>3, <3>1, <3>2, StreamCases, StreamNext DEF StreamHere
    <3> QED BY <2>1, <3>1, <3>3, StreamMoves
  <2> QED BY <1>1, <2>2, <2>3
<1> QED BY <1>7, <1>8, <1>9, <1>10, <1>11

\* Resets and compactions do not touch the stream, a line that is applied leaves
\* it.
LEMMA StreamHandlers ==
    ASSUME TypeOK, SyncInv, StreamInv, NEW h \in {"now", "late"}, Handle(h)
    PROVE  StreamInv'
<1>1. /\ posts \in Posts /\ fmem \in State /\ needSync \in BOOLEAN /\ posts[h] \in Post
      /\ ch \in Seq(Line) /\ posts.now.lines \in Seq(Line) /\ mem \in State
      /\ owed \in SUBSET Line
  BY DEF TypeOK, Posts, Post
<1>2. UNCHANGED <<mem, owed, ch, batch, needSync, mode, clean>>
  BY HandleMoves
<1>3. NoPost.kind = "none" /\ NoPost.step = 0
  BY DEF NoPost
<1>4. PICK q \in Post : posts' = [posts EXCEPT ![h] = q] /\ Moves(h, q)
  BY HandleMoves
<1>5. posts[h] # NoPost
  BY <1>3, <1>4 DEF Moves
<1>6. CASE h = "late"
  <2>1. ~clean
    BY <1>1, <1>4, <1>5, <1>6, Placed DEF SyncInv, PostInv
  <2> QED BY <1>2, <2>1, StreamMoves
<1>7. CASE h = "now"
  <2> DEFINE p == posts.now
             l == Head(p.lines)
  <2>1. /\ posts'.now = q /\ posts[h] = p /\ p \in Post /\ p # NoPost
        /\ p.kind \in {"none", "snapshot", "append"} /\ q.kind = p.kind /\ q.state = p.state
    <3>1. posts'.now = q /\ posts[h] = p /\ p \in Post
      BY <1>1, <1>4, <1>7, Placed
    <3>2. q.kind = p.kind /\ q.state = p.state
      BY <1>4, <3>1 DEF Moves
    <3>3. p.kind \in {"none", "snapshot", "append"}
      BY <3>1 DEF Post
    <3> QED BY <1>5, <3>1, <3>2, <3>3
  <2>2. /\ p.kind = "snapshot" => needSync
        /\ p.kind = "append" => ~needSync
        /\ p.kind # "none" /\ q # NoPost
    BY <1>3, <2>1 DEF SyncInv, PostInv
  <2>3. CASE p.kind = "snapshot"
    <3>1. Base' = Base /\ Journaled' = Journaled
      BY <1>2, <2>1, <2>2, <2>3, StreamCases, StreamNext DEF StreamHere
    <3> QED BY <1>2, <3>1, StreamMoves
  <2>4. CASE p.kind = "append" /\ q.lines = p.lines /\ fmem' = fmem
    <3>1. Base' = Base /\ Journaled' = Journaled
      BY <1>2, <2>1, <2>2, <2>4, StreamCases, StreamNext DEF StreamHere
    <3> QED BY <1>2, <3>1, StreamMoves
  <2>5. CASE /\ p.kind = "append" /\ p.lines # <<>> /\ q.lines = Tail(p.lines)
             /\ fmem' = Take(fmem, l)
    <3>1. /\ Base = fmem /\ Journaled = p.lines \o ch
          /\ Base' = Take(fmem, l) /\ Journaled' = Tail(p.lines) \o ch
      BY <1>2, <2>1, <2>2, <2>5, StreamCases, StreamNext DEF StreamHere
    <3>2. /\ Journaled # <<>> /\ Head(Journaled) = l /\ Tail(Journaled) = Journaled'
          /\ Journaled \in Seq(Line)
      <4>1. p.lines \o ch # <<>> /\ Head(p.lines \o ch) = l
            /\ Tail(p.lines \o ch) = Tail(p.lines) \o ch
        BY <1>1, <2>5, ConcatFirst, Zenon
      <4>2. Journaled \in Seq(Line)
        BY StreamTyped
      <4> QED BY <3>1, <4>1, <4>2
    <3>3. ASSUME clean, mode = "running"
          PROVE  Covers(Base', Journaled', owed, mem)
      <4>1. Covers(fmem, Journaled, owed, mem)
        BY <3>1, <3>3 DEF StreamInv
      <4>2. Covers(Take(fmem, Head(Journaled)), Tail(Journaled), owed, mem)
        BY <1>1, <3>2, <4>1, CoversTake
      <4> QED BY <3>1, <3>2, <4>2
    <3> QED BY <1>2, <3>3 DEF StreamInv
  <2>6. p.kind = "append" =>
          \/ q.lines = p.lines /\ fmem' = fmem
          \/ p.lines # <<>> /\ q.lines = Tail(p.lines) /\ fmem' = Take(fmem, l)
    BY <1>4, <2>1 DEF Moves, Take
  <2> QED BY <2>1, <2>2, <2>3, <2>4, <2>5, <2>6
<1> QED BY <1>6, <1>7

\* A sender starts on a leader that runs, with a snapshot to come.
LEMMA StreamInit ==
    ASSUME Init
    PROVE  StreamInv
<1>1. /\ needSync = TRUE /\ posts.now = NoPost /\ ch = <<>> /\ owed = {} /\ mem = Empty
  BY DEF Init
<1>2. Base = mem /\ Journaled = <<>>
  BY <1>1, StreamCases
<1>3. mem.hist = <<>> /\ Len(mem.hist) = 0 /\ DOMAIN mem.hist = {} /\ DOMAIN <<>> = {}
  BY <1>1 DEF Empty
<1>4. HistoryCovered(mem, <<>>, {}, mem)
  BY <1>3 DEF HistoryCovered, Numbered
<1>5. KeysCovered(mem, <<>>, {}, mem)
  BY <1>3 DEF KeysCovered
<1>6. IsFiniteSet(owed)
  BY <1>1, FS_EmptySet
<1> QED BY <1>1, <1>2, <1>4, <1>5, <1>6 DEF StreamInv, Covers

\* Every step keeps the stream complete.
LEMMA StreamStep ==
    ASSUME TypeOK, SyncInv, StreamInv, [Next]_vars
    PROVE  StreamInv'
<1>1. CASE Writes
  <2>1. ASSUME NEW k \in Keys, NEW v \in {0, writes + 1}
        PROVE  /\ [key |-> k, ver |-> v] \in Line
               /\ [key |-> k, ver |-> v].key # Hist
    <3>1. v \in Nat
      BY DEF TypeOK
    <3> QED BY <3>1, ReplicationAssumption DEF Line
  <2>2. [key |-> Hist, ver |-> Len(mem.hist) + 1] \in Line
    <3>1. Len(mem.hist) + 1 \in Nat
      BY DEF TypeOK, State
    <3> QED BY <3>1 DEF Line
  <2> QED BY <1>1, <2>1, <2>2, StreamWrites DEF Writes
<1>2. CASE UNCHANGED vars
  <2>1. UNCHANGED <<mem, owed, ch, batch, needSync, mode, posts, fmem, clean>>
    BY <1>2 DEF vars, sender, follower
  <2> QED BY <2>1, StreamMoves DEF Base, Journaled
<1> QED
  BY <1>1, <1>2, StreamTap, StreamSelect, StreamAnswers, StreamHandlers DEF Next, Handlers

\* What a complete stream promises.
LEMMA StreamMeans ==
    ASSUME TypeOK, StreamInv
    PROVE  StreamComplete
<1> SUFFICES ASSUME clean, mode = "running", NEW order \in Orders(owed)
             PROVE  Receive(Base, Journaled \o order) = mem
  BY DEF StreamComplete
<1>1. /\ Base \in State /\ Journaled \in Seq(Line) /\ mem \in State
      /\ owed \in SUBSET Line
  BY StreamTyped DEF TypeOK
<1>2. Cardinality(owed) \in Nat
  BY FS_CardinalityType DEF StreamInv
<1>3. order \in [1..Cardinality(owed) -> owed] /\ Range(order) = owed
  BY DEF Orders
<1>4. order \in Seq(owed) /\ order \in Seq(Line) /\ \A o \in owed : \E i \in DOMAIN order : order[i] = o
  BY <1>1, <1>2, <1>3 DEF Range
<1>5. Covers(Base, Journaled \o order, {}, mem)
  BY <1>1, <1>4, CoversOrder DEF StreamInv
<1>6. Journaled \o order \in Seq(Line)
  BY <1>1, <1>4
<1> QED BY <1>1, <1>5, <1>6, CoversReceive

\* Whatever posts and answers are lost, batches half applied and followers
\* restarted: the follower, or the snapshot on its way, and the lines to come make
\* the leader's state, in every order in which the writers journal them.
THEOREM StreamsAreComplete == Spec => []StreamComplete
<1>1. Init => TypeOK /\ SyncInv /\ StreamInv
  BY TypeInit, SyncInit, StreamInit
<1>2. TypeOK /\ SyncInv /\ StreamInv /\ [Next]_vars => (TypeOK /\ SyncInv /\ StreamInv)'
  BY TypeStep, SyncStep, StreamStep
<1>3. TypeOK /\ StreamInv => StreamComplete
  BY StreamMeans
<1> QED BY <1>1, <1>2, <1>3, PTL DEF Spec
==============================================================================
