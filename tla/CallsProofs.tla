----------------------------- MODULE CallsProofs ------------------------------
(***************************************************************************)
(* Proofs about Calls: call activities and the retention sweep, for every  *)
(* number of clients, instances, levels of nesting and crashes.            *)
(***************************************************************************)
EXTENDS Calls, TLAPS, FiniteSetTheorems, SequenceTheorems

------------------------------------------------------------------------------
\* The inductive invariant.

\* Continuations that are run as soon as they are owed, and the others.
LeadOps == {"start", "fail", "drain"}
TellOps == {"cancel", "notify"}

\* Continuations that tell a parent what became of its child.
AnswerOps == {"start", "fail", "notify"}

Instance ==
    [st : {"none", "active", "gone"} \cup Ended, parent : 0..MaxInst, depth : 0..MaxDepth,
     tok : {"none", "start", "task", "call", "incident"}, ref : 0..MaxInst]

Continuation ==
    [op : LeadOps \cup TellOps, id : Ids, parent : 0..MaxInst, depth : 0..MaxDepth]

\* What a thread still has to run.
Owed == [c \in Threads |-> ToSet(todo[c])]

ShapeInv ==
    /\ up \in BOOLEAN
    /\ inst \in [Ids -> Instance]
    /\ next \in 1..(MaxInst + 1)
    /\ todo \in [Threads -> Seq(Continuation)]
    /\ boot \in Seq(Ids)
    /\ sweep \in [state : Ended, list : Seq(Ids), purge : 0..MaxInst]
    /\ early \subseteq Ids
    /\ crashes \in 0..MaxCrashes

\* An instance runs exactly while it has a token, and only one that may call
\* waits for a child or for an operator after a failed call.
TokenInv ==
    \A i \in Ids :
        /\ inst[i].st = "active" <=> inst[i].tok # "none"
        /\ inst[i].tok \in {"call", "incident"} => inst[i].depth > 0

\* Reconcile and the API's threads do not run side by side.
BootInv ==
    /\ ~up => (\A c \in Threads : todo[c] = <<>>) /\ boot = <<>>
    /\ boot # <<>> \/ todo[Boot] # <<>> => \A c \in Clients : todo[c] = <<>>

\* A thread starts a child, reports its failure or drains it before it does
\* anything else.
LeadsFirst ==
    \A c \in Threads : \A k \in DOMAIN todo[c] : k > 1 => todo[c][k].op \in TellOps

\* Only one thread is about to store or to drain an instance.
OneLead ==
    \A c, d \in Threads : \A x \in Owed[c], y \in Owed[d] :
        x.op \in LeadOps /\ y.op \in LeadOps /\ x.id = y.id => c = d /\ x = y

\* Ids that were not handed out are not in use.
FreshInv ==
    /\ \A i \in Ids : i >= next => inst[i].st = "none"
    /\ \A c \in Threads : \A x \in Owed[c] : x.id < next

\* What the store holds when a continuation is still to be run.
OwedInv ==
    \A c \in Threads : \A x \in Owed[c] :
        /\ x.op \in {"start", "fail"} => inst[x.id].st = "none"
        /\ x.op \in AnswerOps => x.parent # 0
        /\ x.op = "drain" => /\ x = Cont("drain", x.id, 0, 0)
                             /\ inst[x.id].st = "active" /\ inst[x.id].tok = "start"
        /\ x.op = "notify" => inst[x.id].st \in Ended \cup {"gone"}

\* The instance that waits for a child is its parent, and the child's record is
\* there as long as it waits.
ParentInv ==
    \A p, j \in Ids : Awaits(p, j) =>
        /\ j < next
        /\ inst[j].st # "gone"
        /\ inst[j].st # "none" => inst[j].parent = p
        /\ \A c \in Threads : \A x \in Owed[c] :
              x.op \in AnswerOps /\ x.id = j => x.parent = p

\* A waiting token has the id of its child.
RefInv == \A i \in Ids : inst[i].tok = "call" => inst[i].ref \in Ids

\* What the sweep has listed has ended; nobody waits for what it is about to
\* remove.
SweepInv ==
    /\ \A i \in ToSet(sweep.list) : inst[i].st \in Ended \cup {"gone"}
    /\ sweep.purge # 0 => /\ inst[sweep.purge].st \in Ended \cup {"gone"}
                          /\ \A p \in Ids : ~Awaits(p, sweep.purge)

\* A child that is still to be started has its parent waiting, or comes too late.
StartInv ==
    \A c \in Threads : \A x \in Owed[c] :
        x.op = "start" => Awaits(x.parent, x.id) \/ x.id \in early

\* A running child that its parent has given up is about to be cancelled.
CancelInv ==
    \A i \in Ids : inst[i].st = "active" /\ inst[i].parent # 0 =>
        \/ Awaits(inst[i].parent, i)
        \/ \E c \in Threads : \E x \in Owed[c] : x.op = "cancel" /\ x.id = i
        \/ i \in early

BaseInv ==
    /\ ShapeInv /\ TokenInv /\ RefInv /\ LeadsFirst /\ OneLead /\ FreshInv
    /\ OwedInv /\ ParentInv /\ SweepInv /\ StartInv /\ CancelInv

\* The instance waits for a child.
Waiting(p) == inst[p].st = "active" /\ inst[p].tok = "call"

\* The child runs, or a thread has something to say about it.
Answered(p) ==
    \/ inst[inst[p].ref].st = "active"
    \/ \E c \in Threads : \E x \in Owed[c] : x.op \in AnswerOps /\ x.id = inst[p].ref

\* Who waits without an answer while the process runs has reconcile to come.
AnswerInv == up => \A p \in Ids : Waiting(p) /\ ~Answered(p) => p \in ToSet(boot)

CallsInv == BaseInv /\ BootInv /\ AnswerInv

------------------------------------------------------------------------------
\* Listings and continuations.

\* A sorted listing has exactly the members of the set: an id's place in it is
\* given by the number of smaller ones.
LEMMA SortedLists ==
    ASSUME NEW S \in SUBSET Ids
    PROVE  Sorted(S) \in Seq(S) /\ ToSet(Sorted(S)) = S
<1> DEFINE n == Cardinality(S)
           Below(i) == {j \in S : j < i}
           Rank(i) == Cardinality(Below(i))
<1>1. S \subseteq Nat /\ IsFiniteSet(S) /\ n \in Nat
  <2>1. IsFiniteSet(1..MaxInst)
    BY CallsAssumption, FS_Interval
  <2>2. IsFiniteSet(S)
    BY <2>1, FS_Subset DEF Ids
  <2> QED BY <2>2, FS_CardinalityType, CallsAssumption DEF Ids
<1>2. ASSUME NEW i \in S, NEW T \in SUBSET S, Below(i) \subseteq T, i \in T, IsFiniteSet(T)
      PROVE  Rank(i) \in Nat /\ Rank(i) < Cardinality(T)
  <2>1. IsFiniteSet(Below(i)) /\ Cardinality(Below(i)) <= Cardinality(T)
        /\ (Cardinality(T) = Cardinality(Below(i)) => T = Below(i))
    BY <1>2, FS_Subset
  <2>2. i \notin Below(i)
    BY <1>1
  <2>3. Cardinality(T) \in Nat /\ Cardinality(Below(i)) \in Nat
    BY <2>1, <1>2, FS_CardinalityType
  <2> HIDE DEF Below
  <2> QED BY <1>2, <2>1, <2>2, <2>3
<1>3. ASSUME NEW i \in S PROVE Rank(i) \in 0..(n - 1)
  <2>1. Rank(i) \in Nat /\ Rank(i) < n
    BY <1>1, <1>2
  <2> HIDE DEF Rank, n
  <2> QED BY <2>1, <1>1
<1>4. ASSUME NEW i \in S, NEW k \in S, i < k PROVE Rank(i) < Rank(k)
  <2>1. Below(k) \in SUBSET S /\ Below(i) \subseteq Below(k) /\ i \in Below(k)
    <3>1. \A j \in S : j < i => j < k
      BY <1>1, <1>4
    <3> QED BY <3>1, <1>4
  <2>2. IsFiniteSet(Below(k))
    BY <1>1, <2>1, FS_Subset
  <2> QED BY <1>2, <2>1, <2>2
<1>5. \A i, k \in S : Rank(i) = Rank(k) => i = k
  <2> HIDE DEF Rank
  <2> SUFFICES ASSUME NEW i \in S, NEW k \in S, Rank(i) = Rank(k), i # k PROVE FALSE
    OBVIOUS
  <2>1. i < k \/ k < i
    BY <1>1
  <2>2. Rank(i) \in Int /\ Rank(k) \in Int
    BY <1>3
  <2> QED BY <1>4, <2>1, <2>2
<1>6. \A m \in 0..(n - 1) : \E i \in S : Rank(i) = m
  <2> DEFINE f == [i \in S |-> Rank(i)]
  <2>1. f \in Injection(S, 0..(n - 1))
    <3> HIDE DEF Rank, n
    <3> QED BY <1>3, <1>5 DEF Injection, IsInjective
  <2>2. IsFiniteSet(0..(n - 1)) /\ Cardinality(0..(n - 1)) = n
    <3> HIDE DEF n
    <3> QED BY <1>1, FS_Interval
  <2>3. f \in Surjection(S, 0..(n - 1))
    <3> HIDE DEF f
    <3> QED BY <2>1, <2>2, FS_Injection
  <2> HIDE DEF Rank, n
  <2> QED BY <2>3 DEF Surjection
<1>7. Sorted(S) = [k \in 1..n |-> CHOOSE i \in S : Rank(i) = k - 1]
  BY DEF Sorted
<1>8. ASSUME NEW k \in 1..n PROVE Sorted(S)[k] \in S /\ Rank(Sorted(S)[k]) = k - 1
  <2> HIDE DEF Rank, n
  <2>1. k - 1 \in 0..(n - 1)
    BY <1>1
  <2> QED BY <2>1, <1>6, <1>7
<1>9. ASSUME NEW i \in S PROVE \E k \in 1..n : Sorted(S)[k] = i
  <2> HIDE DEF Rank, n
  <2>1. Rank(i) + 1 \in 1..n /\ (Rank(i) + 1) - 1 = Rank(i)
    BY <1>1, <1>3
  <2>2. Sorted(S)[Rank(i) + 1] = i
    BY <2>1, <1>5, <1>8
  <2> QED BY <2>1, <2>2
<1>10. DOMAIN Sorted(S) = 1..n /\ Sorted(S) \in [1..n -> S]
  <2> HIDE DEF Rank, n
  <2> QED BY <1>7, <1>8
<1>11. Sorted(S) \in Seq(S)
  <2> HIDE DEF Rank, n
  <2> QED BY <1>1, <1>10
<1> HIDE DEF Rank, n
<1> QED BY <1>8, <1>9, <1>10, <1>11 DEF ToSet

\* What is left when the first continuation is taken off.
LEMMA TailOwed ==
    ASSUME ShapeInv, LeadsFirst, NEW c \in Threads, todo[c] # <<>>
    PROVE  /\ Head(todo[c]) \in Owed[c] /\ Head(todo[c]) \in Continuation
           /\ Tail(todo[c]) \in Seq(Continuation)
           /\ ToSet(Tail(todo[c])) \subseteq {x \in Owed[c] : x.op \in TellOps}
           /\ Owed[c] = {Head(todo[c])} \cup ToSet(Tail(todo[c]))
<1> DEFINE s == todo[c]
           t == Tail(s)
<1>1. s \in Seq(Continuation) /\ s # <<>>
  BY DEF ShapeInv
<1>2. /\ Head(s) \in Continuation /\ t \in Seq(Continuation) /\ Len(t) = Len(s) - 1
      /\ \A k \in 1..Len(t) : t[k] = s[k + 1]
  BY <1>1, HeadTailProperties
<1>3. \A k \in DOMAIN s : k > 1 => s[k].op \in TellOps
  BY DEF LeadsFirst
<1>4. DOMAIN s = 1..Len(s) /\ Len(s) \in Nat /\ Len(s) >= 1 /\ Head(s) = s[1]
      /\ DOMAIN t = 1..Len(t)
  BY <1>1, <1>2
<1>5. Owed[c] = ToSet(s)
  BY DEF Owed
<1> HIDE DEF s, t
<1>6. \A k \in DOMAIN t : k + 1 \in DOMAIN s /\ k + 1 > 1 /\ t[k] = s[k + 1]
  BY <1>2, <1>4
<1>7. \A k \in DOMAIN s : k = 1 \/ (k - 1 \in DOMAIN t /\ t[k - 1] = s[k])
  BY <1>2, <1>4
<1>8. 1 \in DOMAIN s
  BY <1>4
<1>9. ToSet(t) \subseteq {x \in ToSet(s) : x.op \in TellOps}
  BY <1>3, <1>6 DEF ToSet
<1>10. ToSet(s) = {Head(s)} \cup ToSet(t)
  BY <1>4, <1>6, <1>7, <1>8 DEF ToSet
<1> QED BY <1>2, <1>5, <1>9, <1>10 DEF s, t

\* What is owed is typed.
LEMMA OwedTyped ==
    ASSUME ShapeInv, NEW c \in Threads
    PROVE  /\ Owed[c] \subseteq Continuation
           /\ \A x \in Owed[c] : x.id \in Ids /\ x.parent \in 0..MaxInst
                                 /\ x.op \in LeadOps \cup TellOps
<1>1. todo[c] \in Seq(Continuation)
  BY DEF ShapeInv
<1>2. \A k \in DOMAIN todo[c] : todo[c][k] \in Continuation
  BY <1>1
<1>3. Owed[c] \subseteq Continuation
  BY <1>2 DEF Owed, ToSet
<1> QED BY <1>3 DEF Continuation

\* So is what the sweep has listed.
LEMMA SweepTyped ==
    ASSUME ShapeInv
    PROVE  ToSet(sweep.list) \subseteq Ids /\ sweep.purge \in 0..MaxInst /\ sweep.list \in Seq(Ids)
<1>1. sweep.list \in Seq(Ids) /\ sweep.purge \in 0..MaxInst
  BY DEF ShapeInv
<1>2. \A k \in DOMAIN sweep.list : sweep.list[k] \in Ids
  BY <1>1
<1> QED BY <1>1, <1>2 DEF ToSet

\* Thread c has run the continuations old and owes the continuations new.
Works(c, old, new) ==
    /\ todo' \in [Threads -> Seq(Continuation)]
    /\ LeadsFirst'
    /\ \A d \in Threads : d # c => todo'[d] = todo[d] /\ Owed'[d] = Owed[d]
    /\ Owed[c] \subseteq old \cup Owed'[c]
    /\ new \subseteq Owed'[c]
    /\ \A x \in Owed'[c] : x \in new \/ (x \in Owed[c] /\ x.op \in TellOps)

\* Of the continuations that a step adds only the first may be a lead.
LEMMA OwesWorks ==
    ASSUME ShapeInv, LeadsFirst, NEW c \in Threads,
           NEW conts \in Seq(Continuation), NEW before \in Seq(Continuation),
           Owes(c, conts, before),
           \A k \in DOMAIN conts : k > 1 => conts[k].op \in TellOps,
           ToSet(before) \subseteq {x \in Owed[c] : x.op \in TellOps},
           NEW old, Owed[c] \subseteq old \cup ToSet(before)
    PROVE  Works(c, old, ToSet(conts))
<1> DEFINE s == conts \o before
<1>1. /\ s \in Seq(Continuation) /\ Len(s) = Len(conts) + Len(before)
      /\ \A k \in 1..(Len(conts) + Len(before)) :
            s[k] = IF k <= Len(conts) THEN conts[k] ELSE before[k - Len(conts)]
  BY ConcatProperties
<1>2. /\ DOMAIN conts = 1..Len(conts) /\ Len(conts) \in Nat
      /\ DOMAIN before = 1..Len(before) /\ Len(before) \in Nat
      /\ DOMAIN s = 1..Len(s)
  BY <1>1
<1>3. todo' = [todo EXCEPT ![c] = s] /\ todo \in [Threads -> Seq(Continuation)]
  BY DEF Owes, ShapeInv
<1> HIDE DEF s
<1>4. todo' \in [Threads -> Seq(Continuation)] /\ todo'[c] = s
      /\ \A d \in Threads : d # c => todo'[d] = todo[d]
  BY <1>1, <1>3
<1>5. \A k \in DOMAIN s : \/ k \in DOMAIN conts /\ s[k] = conts[k]
                         \/ /\ k - Len(conts) \in DOMAIN before
                            /\ s[k] = before[k - Len(conts)]
  BY <1>1, <1>2
<1>6. \A k \in DOMAIN conts : k \in DOMAIN s /\ s[k] = conts[k]
  BY <1>1, <1>2
<1>7. \A k \in DOMAIN before : k + Len(conts) \in DOMAIN s /\ s[k + Len(conts)] = before[k]
  BY <1>1, <1>2
<1>8. ToSet(s) = ToSet(conts) \cup ToSet(before)
  BY <1>5, <1>6, <1>7 DEF ToSet
<1>9. \A k \in DOMAIN s : k > 1 => s[k].op \in TellOps
  BY <1>5 DEF ToSet
<1>10. LeadsFirst'
  BY <1>4, <1>9 DEF LeadsFirst
<1>11. Owed'[c] = ToSet(s) /\ \A d \in Threads : d # c => Owed'[d] = Owed[d]
  BY <1>4 DEF Owed
<1> QED BY <1>4, <1>8, <1>10, <1>11 DEF Works

\* A thread that runs its next continuation.
LEMMA RunWorks ==
    ASSUME ShapeInv, LeadsFirst, NEW c \in Threads, todo[c] # <<>>,
           NEW conts \in Seq(Continuation), Owes(c, conts, Tail(todo[c])),
           \A k \in DOMAIN conts : k > 1 => conts[k].op \in TellOps
    PROVE  Works(c, {Head(todo[c])}, ToSet(conts))
<1> DEFINE before == Tail(todo[c])
<1>1. before \in Seq(Continuation)
      /\ ToSet(before) \subseteq {x \in Owed[c] : x.op \in TellOps}
      /\ Owed[c] \subseteq {Head(todo[c])} \cup ToSet(before)
  BY TailOwed
<1> HIDE DEF before
<1>2. Owes(c, conts, before)
  BY DEF before
<1> QED BY <1>1, <1>2, OwesWorks

\* A thread that owed nothing.
LEMMA ApiWorks ==
    ASSUME ShapeInv, LeadsFirst, NEW c \in Threads, todo[c] = <<>>,
           NEW conts \in Seq(Continuation), Owes(c, conts, <<>>),
           \A k \in DOMAIN conts : k > 1 => conts[k].op \in TellOps
    PROVE  Owed[c] = {} /\ Works(c, {}, ToSet(conts))
<1>1. Owed[c] = {}
  BY DEF Owed, ToSet
<1>2. <<>> \in Seq(Continuation) /\ ToSet(<<>>) = {}
  BY DEF ToSet
<1> QED BY <1>1, <1>2, OwesWorks

------------------------------------------------------------------------------
\* The kinds of change that a thread makes: each keeps the invariant.

\* Nobody else is in the middle of starting instance i.
NoDrain(c, i) ==
    \A d \in Threads : d # c => \A x \in Owed[d] : ~(x.op = "drain" /\ x.id = i)

\* A step on instance i takes no answer from another instance.
TakesNoAnswer(i, old) ==
    \A x \in old : x.op \in AnswerOps => \A p \in Ids : Awaits(p, x.id) => p = i

\* What the step leaves alone, reconcile's list aside.
Beside == UNCHANGED <<up, sweep, crashes>> /\ boot' \in Seq(Ids)

\* Nobody but instance i gets into a wait without an answer.
StillAnswered(i) ==
    \A p \in Ids : Waiting(p)' => Answered(p)' \/ (p # i /\ Waiting(p) /\ ~Answered(p))

\* Thread c gives the token of the running instance i state t and child r, and
\* gives up the child it had.
Moves(c, i, old, new, t, r) ==
    /\ inst[i].st = "active" /\ NoDrain(c, i)
    /\ t \in {"task", "incident", "call"} /\ (t = "task" \/ inst[i].depth > 0)
    /\ r \in 0..MaxInst
    /\ inst' = [inst EXCEPT ![i].tok = t, ![i].ref = r]
    /\ Works(c, old, new)
    /\ \/ /\ t = "call" /\ r = next /\ next <= MaxInst /\ next' = next + 1
          /\ new = {Cont("start", next, i, inst[i].depth - 1)}
       \/ /\ t # "call" /\ next' = next
          /\ \A x \in new : x.op = "cancel" /\ x.id < next
    /\ \A j \in Ids : Awaits(i, j) =>
          /\ inst[j].st = "active" => \E x \in new : x.op = "cancel" /\ x.id = j
          /\ \A d \in Threads : \A x \in Owed[d] : x.op = "start" /\ x.id = j => j \in early'
    /\ \A x \in old : x.op # "cancel"
    /\ TakesNoAnswer(i, old)
    /\ early \subseteq early' /\ early' \subseteq Ids
    /\ Beside

\* A step that moves one instance's token keeps the invariant, and every other waiting
\* parent keeps its answer.
LEMMA MovesKeeps ==
    ASSUME BaseInv, NEW c \in Threads, NEW i \in Ids, NEW old, NEW new, NEW t, NEW r,
           Moves(c, i, old, new, t, r)
    PROVE  BaseInv' /\ StillAnswered(i)
<1> USE DEF BaseInv
<1>1. inst \in [Ids -> Instance] /\ next \in 1..(MaxInst + 1) /\ MaxInst \in Nat /\ Ids = 1..MaxInst
  BY CallsAssumption DEF ShapeInv, Ids
<1>2. /\ inst' \in [Ids -> Instance]
      /\ \A p \in Ids : p # i => inst'[p] = inst[p]
      /\ inst'[i].tok = t /\ inst'[i].ref = r
      /\ \A p \in Ids : /\ inst'[p].st = inst[p].st /\ inst'[p].parent = inst[p].parent
                       /\ inst'[p].depth = inst[p].depth
  <2>1. inst[i] \in Instance
    BY <1>1
  <2> DEFINE rec == [inst[i] EXCEPT !.tok = t, !.ref = r]
  <2>2. /\ rec \in Instance /\ rec.tok = t /\ rec.ref = r /\ rec.st = inst[i].st
        /\ rec.parent = inst[i].parent /\ rec.depth = inst[i].depth
    BY <2>1 DEF Moves, Instance
  <2>3. inst' = [inst EXCEPT ![i] = rec]
    BY <1>1, <2>1 DEF Moves, Instance
  <2> HIDE DEF rec
  <2> QED BY <1>1, <2>2, <2>3
<1>3. /\ next' \in 1..(MaxInst + 1) /\ next <= next'
      /\ t = "call" => r = next /\ next < next' /\ next \in Ids
  BY <1>1 DEF Moves
<1>4. \A x \in new :
         /\ x.id < next'
         /\ \/ x.op = "cancel"
            \/ t = "call" /\ x.op = "start" /\ x.id = next /\ x.parent = i
  <2>1. CASE t = "call"
    BY <1>1, <2>1 DEF Moves, Cont
  <2>2. CASE t # "call"
    <3>1. next' = next /\ \A x \in new : x.op = "cancel" /\ x.id < next
      BY <2>2, Zenon DEF Moves
    <3> QED BY <3>1
  <2> QED BY <2>1, <2>2
<1>5. \A d \in Threads : \A x \in Owed'[d] :
         (d = c /\ x \in new) \/ (x \in Owed[d] /\ (d = c => x.op \in TellOps))
  BY DEF Moves, Works
<1>6. \A d \in Threads : \A x \in Owed[d] : x \in Owed'[d] \/ (d = c /\ x \in old)
  BY DEF Moves, Works
<1>7. new \subseteq Owed'[c]
  BY DEF Moves, Works
<1>8. \A p, j \in Ids : Awaits(p, j)' <=> IF p = i THEN t = "call" /\ j = r ELSE Awaits(p, j)
  BY <1>2 DEF Awaits, Moves
<1>9. \A d \in Threads : \A x \in Owed[d] : x.id \in Ids /\ x.parent \in 0..MaxInst
  BY OwedTyped
<1>a. ShapeInv'
  BY <1>2, <1>3 DEF ShapeInv, Moves, Works, Beside
<1>b. TokenInv' /\ RefInv'
  BY <1>1, <1>2, <1>3 DEF TokenInv, RefInv, Moves
<1>c. LeadsFirst'
  BY DEF Moves, Works
<1>d. OneLead'
  <2> SUFFICES ASSUME NEW d \in Threads, NEW e \in Threads, NEW x \in Owed'[d], NEW y \in Owed'[e],
                      x.op \in LeadOps, y.op \in LeadOps, x.id = y.id
               PROVE  d = e /\ x = y
    BY DEF OneLead
  <2>1. \A z \in new : z.op \in LeadOps => new = {z} /\ z.id = next
    BY <1>4 DEF Moves, LeadOps
  <2>2. \A z : z.op \in LeadOps => z.op \notin TellOps
    BY DEF LeadOps, TellOps
  <2>3. (d = c /\ new = {x} /\ x.id = next) \/ (x \in Owed[d] /\ x.id < next /\ x.id \in Ids)
    BY <1>5, <1>9, <2>1, <2>2 DEF FreshInv
  <2>4. (e = c /\ new = {y} /\ y.id = next) \/ (y \in Owed[e] /\ y.id < next /\ y.id \in Ids)
    BY <1>5, <1>9, <2>1, <2>2 DEF FreshInv
  <2> QED BY <1>1, <2>3, <2>4 DEF OneLead
<1>e. FreshInv'
  <2>1. \A p \in Ids : p >= next' => inst'[p].st = "none"
    BY <1>1, <1>2, <1>3 DEF FreshInv
  <2>2. \A d \in Threads : \A x \in Owed[d] : x.id < next'
    BY <1>1, <1>3, <1>9 DEF FreshInv
  <2> QED BY <1>4, <1>5, <2>1, <2>2 DEF FreshInv
<1>f. OwedInv'
  <2> SUFFICES ASSUME NEW d \in Threads, NEW x \in Owed'[d]
               PROVE  /\ x.op \in {"start", "fail"} => inst'[x.id].st = "none"
                      /\ x.op \in AnswerOps => x.parent # 0
                      /\ x.op = "drain" => /\ x = Cont("drain", x.id, 0, 0)
                                           /\ inst'[x.id].st = "active" /\ inst'[x.id].tok = "start"
                      /\ x.op = "notify" => inst'[x.id].st \in Ended \cup {"gone"}
    BY DEF OwedInv
  <2>1. CASE x \in Owed[d] /\ (d = c => x.op \in TellOps)
    <3>1. x.op = "drain" => x.id # i
      BY <2>1 DEF Moves, NoDrain, TellOps
    <3> QED BY <1>2, <1>9, <2>1, <3>1 DEF OwedInv
  <2>2. CASE x \in new
    BY <1>1, <1>2, <1>3, <1>4, <2>2 DEF FreshInv, AnswerOps
  <2> QED BY <1>5, <2>1, <2>2
<1>g. ParentInv'
  BY <1>1, <1>2, <1>3, <1>4, <1>5, <1>8, <1>9 DEF ParentInv, FreshInv, AnswerOps
<1>h. SweepInv'
  <2>1. sweep' = sweep /\ ToSet(sweep.list) \subseteq Ids /\ sweep.purge \in 0..MaxInst
    BY SweepTyped DEF Moves, Beside
  <2>2. \A k \in ToSet(sweep.list) : inst'[k].st \in Ended \cup {"gone"}
    BY <1>2, <2>1 DEF SweepInv
  <2>3. ASSUME sweep.purge # 0
        PROVE  inst'[sweep.purge].st \in Ended \cup {"gone"} /\ \A p \in Ids : ~Awaits(p, sweep.purge)'
    <3>1. sweep.purge \in Ids /\ inst[sweep.purge].st \in Ended \cup {"gone"}
      BY <1>1, <2>1, <2>3 DEF SweepInv
    <3>2. t = "call" => inst[next].st = "none"
      BY <1>1, <1>3 DEF FreshInv
    <3>3. t = "call" => sweep.purge # r
      BY <1>3, <3>1, <3>2 DEF Ended
    <3>4. \A p \in Ids : ~Awaits(p, sweep.purge)
      BY <2>3 DEF SweepInv
    <3> QED BY <1>2, <2>1, <3>1, <3>3, <3>4 DEF Awaits, Moves
  <2> QED BY <2>1, <2>2, <2>3 DEF SweepInv
<1>i. StartInv'
  <2> SUFFICES ASSUME NEW d \in Threads, NEW x \in Owed'[d], x.op = "start"
               PROVE  Awaits(x.parent, x.id)' \/ x.id \in early'
    BY DEF StartInv
  <2>1. CASE x \in Owed[d]
    BY <1>1, <1>3, <1>8, <1>9, <2>1 DEF StartInv, OwedInv, AnswerOps, Moves
  <2>2. CASE x \in new
    BY <1>1, <1>3, <1>4, <1>8, <1>9, <2>2 DEF AnswerOps, Moves
  <2> QED BY <1>5, <2>1, <2>2
<1>j. CancelInv'
  <2> SUFFICES ASSUME NEW k \in Ids, inst'[k].st = "active", inst'[k].parent # 0
               PROVE  \/ Awaits(inst[k].parent, k)'
                      \/ \E d \in Threads : \E x \in Owed'[d] : x.op = "cancel" /\ x.id = k
                      \/ k \in early'
    BY DEF CancelInv, Awaits
  <2>1. inst[k].st = "active" /\ inst[k].parent = inst'[k].parent /\ inst[k].parent \in Ids
    <3>1. inst[k].st = inst'[k].st /\ inst[k].parent = inst'[k].parent
      BY <1>2
    <3>2. inst[k].parent \in 0..MaxInst
      <4>1. inst[k] \in Instance
        BY <1>1
      <4> QED BY <4>1 DEF Instance
    <3> QED BY <1>1, <3>1, <3>2
  <2>2. CASE Awaits(inst[k].parent, k)
    <3>1. CASE inst[k].parent = i
      BY <1>7, <2>1, <2>2, <3>1 DEF Moves
    <3>2. CASE inst[k].parent # i
      BY <1>2, <2>1, <2>2, <3>2 DEF Awaits
    <3> QED BY <3>1, <3>2
  <2>3. CASE \E d \in Threads : \E x \in Owed[d] : x.op = "cancel" /\ x.id = k
    BY <1>6, <2>3 DEF Moves
  <2>4. CASE k \in early
    BY <2>4 DEF Moves
  <2> QED BY <2>1, <2>2, <2>3, <2>4 DEF CancelInv
<1>k. StillAnswered(i)
  <2> SUFFICES ASSUME NEW p \in Ids, Waiting(p)', ~(p # i /\ Waiting(p) /\ ~Answered(p))
               PROVE  Answered(p)'
    BY DEF StillAnswered
  <2>1. CASE p = i
    <3>1. t = "call" /\ inst'[p].ref = next /\ new = {Cont("start", next, i, inst[i].depth - 1)}
      BY <1>2, <1>3, <2>1 DEF Waiting, Moves
    <3>2. Cont("start", next, i, inst[i].depth - 1) \in Owed'[c]
      BY <1>7, <3>1
    <3>3. \E x \in Owed'[c] : x.op \in AnswerOps /\ x.id = inst'[p].ref
      BY <3>1, <3>2 DEF Cont, AnswerOps
    <3> QED BY <3>3 DEF Answered
  <2>2. CASE p # i
    <3>1. inst'[p] = inst[p] /\ Waiting(p) /\ Answered(p) /\ inst[p].ref \in Ids
      BY <1>2, <2>2 DEF Waiting, RefInv
    <3>2. CASE inst[inst[p].ref].st = "active"
      BY <1>2, <3>1, <3>2 DEF Answered
    <3>3. CASE \E d \in Threads : \E x \in Owed[d] : x.op \in AnswerOps /\ x.id = inst[p].ref
      <4>0. PICK d \in Threads : \E x \in Owed[d] : x.op \in AnswerOps /\ x.id = inst[p].ref
        BY <3>3
      <4>1. PICK x \in Owed[d] : x.op \in AnswerOps /\ x.id = inst[p].ref
        BY <4>0
      <4>2. x \notin old
        BY <2>2, <3>1, <4>1 DEF Moves, TakesNoAnswer, Awaits, Waiting
      <4> QED BY <1>6, <3>1, <4>1, <4>2 DEF Answered
    <3> QED BY <3>1, <3>2, <3>3 DEF Answered
  <2> QED BY <2>1, <2>2
<1> QED BY <1>a, <1>b, <1>c, <1>d, <1>e, <1>f, <1>g, <1>h, <1>i, <1>j, <1>k

\* Thread c ends the running instance i: it owes a cancellation to every child
\* that runs and the news to the parent.
Ends(c, i, old, new, st) ==
    /\ inst[i].st = "active" /\ NoDrain(c, i) /\ st \in Ended
    /\ inst' = [inst EXCEPT ![i].st = st, ![i].tok = "none", ![i].ref = 0]
    /\ Works(c, old, new)
    /\ \A x \in new : /\ x.id < next
                      /\ \/ x.op = "cancel"
                         \/ x.op = "notify" /\ x.id = i /\ x.parent = inst[i].parent /\ x.parent # 0
    /\ \A j \in Ids : inst[j].parent = i /\ inst[j].st = "active" =>
          \E x \in new : x.op = "cancel" /\ x.id = j
    /\ inst[i].parent # 0 => \E x \in new : x.op = "notify" /\ x.id = i
    /\ next' = next
    /\ \A j \in Ids : Awaits(i, j) =>
          \A d \in Threads : \A x \in Owed[d] : x.op = "start" /\ x.id = j => j \in early'
    /\ early \subseteq early' /\ early' \subseteq Ids
    /\ \A x \in old : x.op = "cancel" => x.id = i
    /\ TakesNoAnswer(i, old)
    /\ Beside

\* So does a step that ends one instance: its running children are cancelled or
\* excepted, and its parent is told.
LEMMA EndsKeeps ==
    ASSUME BaseInv, NEW c \in Threads, NEW i \in Ids, NEW old, NEW new, NEW st,
           Ends(c, i, old, new, st)
    PROVE  BaseInv' /\ StillAnswered(i)
<1> USE DEF BaseInv
<1>1. inst \in [Ids -> Instance] /\ next \in 1..(MaxInst + 1) /\ MaxInst \in Nat /\ Ids = 1..MaxInst
  BY CallsAssumption DEF ShapeInv, Ids
<1>2. /\ inst' \in [Ids -> Instance]
      /\ \A p \in Ids : p # i => inst'[p] = inst[p]
      /\ inst'[i].tok = "none" /\ inst'[i].st = st /\ st \in Ended
      /\ \A p \in Ids : inst'[p].parent = inst[p].parent /\ inst'[p].depth = inst[p].depth
  <2>1. inst[i] \in Instance
    BY <1>1
  <2> DEFINE rec == [inst[i] EXCEPT !.st = st, !.tok = "none", !.ref = 0]
  <2>2. /\ rec \in Instance /\ rec.tok = "none" /\ rec.st = st /\ st \in Ended
        /\ rec.parent = inst[i].parent /\ rec.depth = inst[i].depth
    <3>1. st \in Ended /\ 0 \in 0..MaxInst
      BY <1>1 DEF Ends
    <3> QED BY <2>1, <3>1 DEF Instance
  <2>3. inst' = [inst EXCEPT ![i] = rec]
    BY <1>1, <2>1 DEF Ends, Instance
  <2> HIDE DEF rec
  <2> QED BY <1>1, <2>2, <2>3
<1>3. next' = next /\ sweep' = sweep /\ inst[i].st = "active"
  BY DEF Ends, Beside
<1>4. \A x \in new :
         /\ x.id < next /\ x.op \in TellOps
         /\ x.op = "notify" => x.id = i /\ x.parent = inst[i].parent /\ x.parent # 0
  BY DEF Ends, TellOps
<1>5. \A d \in Threads : \A x \in Owed'[d] :
         (d = c /\ x \in new) \/ (x \in Owed[d] /\ (d = c => x.op \in TellOps))
  BY DEF Ends, Works
<1>6. \A d \in Threads : \A x \in Owed[d] : x \in Owed'[d] \/ (d = c /\ x \in old)
  BY DEF Ends, Works
<1>7. new \subseteq Owed'[c]
  BY DEF Ends, Works
<1>8. \A p, j \in Ids : Awaits(p, j)' <=> p # i /\ Awaits(p, j)
  BY <1>2 DEF Awaits, Ended
<1>9. \A d \in Threads : \A x \in Owed[d] : x.id \in Ids /\ x.parent \in 0..MaxInst
  BY OwedTyped
<1>a. ShapeInv'
  BY <1>2, <1>3 DEF ShapeInv, Ends, Works, Beside
<1>b. TokenInv' /\ RefInv'
  BY <1>1, <1>2, <1>3 DEF TokenInv, RefInv, Ended
<1>c. LeadsFirst'
  BY DEF Ends, Works
<1>d. OneLead'
  <2>1. \A d \in Threads : \A x \in Owed'[d] : x.op \in LeadOps => x \in Owed[d]
    BY <1>4, <1>5 DEF LeadOps, TellOps
  <2> QED BY <2>1 DEF OneLead
<1>e. FreshInv'
  BY <1>1, <1>2, <1>3, <1>4, <1>5 DEF FreshInv
<1>f. OwedInv'
  <2> SUFFICES ASSUME NEW d \in Threads, NEW x \in Owed'[d]
               PROVE  /\ x.op \in {"start", "fail"} => inst'[x.id].st = "none"
                      /\ x.op \in AnswerOps => x.parent # 0
                      /\ x.op = "drain" => /\ x = Cont("drain", x.id, 0, 0)
                                           /\ inst'[x.id].st = "active" /\ inst'[x.id].tok = "start"
                      /\ x.op = "notify" => inst'[x.id].st \in Ended \cup {"gone"}
    BY DEF OwedInv
  <2>1. CASE x \in Owed[d] /\ (d = c => x.op \in TellOps)
    <3>1. x.op = "drain" => x.id # i
      BY <2>1 DEF Ends, NoDrain, TellOps
    <3>2. x.op \in {"start", "fail"} => x.id # i
      BY <1>3, <2>1 DEF OwedInv
    <3> QED BY <1>2, <1>9, <2>1, <3>1, <3>2 DEF OwedInv
  <2>2. CASE x \in new
    BY <1>2, <1>4, <2>2 DEF TellOps, AnswerOps
  <2> QED BY <1>5, <2>1, <2>2
<1>g. ParentInv'
  <2> SUFFICES ASSUME NEW p \in Ids, NEW j \in Ids, Awaits(p, j)'
               PROVE  /\ j < next'
                      /\ inst'[j].st # "gone"
                      /\ inst'[j].st # "none" => inst'[j].parent = p
                      /\ \A d \in Threads : \A x \in Owed'[d] :
                            x.op \in AnswerOps /\ x.id = j => x.parent = p
    BY DEF ParentInv
  <2>1. p # i /\ Awaits(p, j)
    BY <1>8
  <2>2. /\ j < next /\ inst[j].st # "gone" /\ (inst[j].st # "none" => inst[j].parent = p)
        /\ \A d \in Threads : \A x \in Owed[d] : x.op \in AnswerOps /\ x.id = j => x.parent = p
    BY <2>1 DEF ParentInv
  <2>3. inst'[j].st # "gone" /\ (inst'[j].st # "none" => inst'[j].parent = p)
    BY <1>2, <1>3, <2>2 DEF Ended
  <2>4. \A x \in new : x.op \in AnswerOps /\ x.id = j => x.parent = p
    BY <1>3, <1>4, <2>2 DEF AnswerOps, TellOps
  <2> QED BY <1>3, <1>5, <2>2, <2>3, <2>4
<1>h. SweepInv'
  <2>1. ToSet(sweep.list) \subseteq Ids /\ sweep.purge \in 0..MaxInst
    BY SweepTyped
  <2>2. \A k \in Ids : inst[k].st \in Ended \cup {"gone"} => inst'[k].st \in Ended \cup {"gone"}
    BY <1>2
  <2>3. sweep.purge # 0 => sweep.purge \in Ids
    BY <1>1, <2>1
  <2>4. ASSUME sweep.purge # 0 PROVE \A p \in Ids : ~Awaits(p, sweep.purge)'
    <3>1. \A p \in Ids : ~Awaits(p, sweep.purge)
      BY <2>4 DEF SweepInv
    <3> QED BY <1>2, <1>3, <3>1 DEF Awaits, Ended
  <2> QED BY <1>3, <2>1, <2>2, <2>3, <2>4 DEF SweepInv
<1>i. StartInv'
  <2> SUFFICES ASSUME NEW d \in Threads, NEW x \in Owed'[d], x.op = "start"
               PROVE  Awaits(x.parent, x.id)' \/ x.id \in early'
    BY DEF StartInv
  <2>1. x \in Owed[d]
    BY <1>4, <1>5 DEF TellOps
  <2>2. x.id \in Ids /\ x.parent \in Ids
    BY <1>1, <1>9, <2>1 DEF OwedInv, AnswerOps
  <2>3. Awaits(x.parent, x.id) \/ x.id \in early
    BY <2>1 DEF StartInv
  <2> QED BY <1>8, <2>1, <2>2, <2>3 DEF Ends
<1>j. CancelInv'
  <2> SUFFICES ASSUME NEW k \in Ids, inst'[k].st = "active", inst'[k].parent # 0
               PROVE  \/ Awaits(inst[k].parent, k)'
                      \/ \E d \in Threads : \E x \in Owed'[d] : x.op = "cancel" /\ x.id = k
                      \/ k \in early'
    BY DEF CancelInv, Awaits
  <2>1. /\ k # i /\ inst[k].st = "active" /\ inst[k].parent = inst'[k].parent
        /\ inst[k].parent \in Ids
    <3>1. k # i /\ inst[k] = inst'[k] /\ inst[k] \in Instance
      BY <1>1, <1>2 DEF Ended
    <3>2. inst[k].parent \in 0..MaxInst
      BY <3>1 DEF Instance
    <3> QED BY <1>1, <3>1, <3>2
  <2>2. CASE Awaits(inst[k].parent, k)
    <3>1. CASE inst[k].parent = i
      BY <1>7, <2>1, <3>1 DEF Ends
    <3>2. CASE inst[k].parent # i
      BY <1>2, <2>1, <2>2, <3>2 DEF Awaits
    <3> QED BY <3>1, <3>2
  <2>3. CASE \E d \in Threads : \E x \in Owed[d] : x.op = "cancel" /\ x.id = k
    BY <1>6, <2>1, <2>3 DEF Ends
  <2>4. CASE k \in early
    BY <2>4 DEF Ends
  <2> QED BY <2>1, <2>2, <2>3, <2>4 DEF CancelInv
<1>k. StillAnswered(i)
  <2> SUFFICES ASSUME NEW p \in Ids, Waiting(p)', ~(p # i /\ Waiting(p) /\ ~Answered(p))
               PROVE  Answered(p)'
    BY DEF StillAnswered
  <2>1. p # i
    BY <1>2 DEF Waiting
  <2>2. inst'[p] = inst[p] /\ Waiting(p) /\ Answered(p) /\ inst[p].ref \in Ids
    BY <1>2, <2>1 DEF Waiting, RefInv
  <2>3. CASE inst[p].ref = i
    <3>1. inst[i].parent = p
      BY <1>3, <2>2, <2>3 DEF ParentInv, Awaits, Waiting
    <3>2. \E x \in new : x.op = "notify" /\ x.id = i
      BY <1>1, <3>1 DEF Ends
    <3> QED BY <1>7, <2>2, <2>3, <3>2 DEF Answered, AnswerOps
  <2>4. CASE inst[p].ref # i /\ inst[inst[p].ref].st = "active"
    BY <1>2, <2>2, <2>4 DEF Answered
  <2>5. CASE \E d \in Threads : \E x \in Owed[d] : x.op \in AnswerOps /\ x.id = inst[p].ref
    <3>1. PICK d \in Threads : \E x \in Owed[d] : x.op \in AnswerOps /\ x.id = inst[p].ref
      BY <2>5
    <3>2. PICK x \in Owed[d] : x.op \in AnswerOps /\ x.id = inst[p].ref
      BY <3>1
    <3>3. x \notin old
      BY <2>1, <2>2, <3>2 DEF Ends, TakesNoAnswer, Awaits, Waiting
    <3> QED BY <1>6, <2>2, <3>2, <3>3 DEF Answered
  <2> QED BY <2>2, <2>3, <2>4, <2>5 DEF Answered
<1> QED BY <1>a, <1>b, <1>c, <1>d, <1>e, <1>f, <1>g, <1>h, <1>i, <1>j, <1>k

\* Thread c stores the new instance i, of parent p, and keeps its lock.
Starts(c, i, old, p, depth) ==
    /\ inst[i].st = "none" /\ p \in 0..MaxInst /\ depth \in 0..MaxDepth
    /\ inst' = [inst EXCEPT ![i] = [st |-> "active", parent |-> p, depth |-> depth,
                                    tok |-> "start", ref |-> 0]]
    /\ Works(c, old, {Cont("drain", i, 0, 0)})
    /\ \A x \in old : x.op = "start" /\ x.id = i
    /\ p # 0 => Awaits(p, i) \/ i \in early
    /\ \A q \in Ids : Awaits(q, i) => q = p
    /\ \A d \in Threads : \A x \in Owed[d] : x.op \in LeadOps /\ x.id = i => d = c
    /\ i < next' /\ next <= next' /\ next' \in 1..(MaxInst + 1)
    /\ early' = early
    /\ Beside

\* So does the write that starts an instance, which turns a child still to be
\* started into a running one.
LEMMA StartsKeeps ==
    ASSUME BaseInv, NEW c \in Threads, NEW i \in Ids, NEW old, NEW p, NEW depth,
           Starts(c, i, old, p, depth)
    PROVE  BaseInv' /\ StillAnswered(i)
<1> USE DEF BaseInv
<1> DEFINE new == Cont("drain", i, 0, 0)
<1>1. inst \in [Ids -> Instance] /\ next \in 1..(MaxInst + 1) /\ MaxInst \in Nat /\ Ids = 1..MaxInst
  BY CallsAssumption DEF ShapeInv, Ids
<1>2. /\ inst' \in [Ids -> Instance]
      /\ \A q \in Ids : q # i => inst'[q] = inst[q]
      /\ inst'[i].tok = "start" /\ inst'[i].st = "active" /\ inst'[i].parent = p
  <2> DEFINE rec == [st |-> "active", parent |-> p, depth |-> depth, tok |-> "start", ref |-> 0]
  <2>1. p \in 0..MaxInst /\ depth \in 0..MaxDepth /\ 0 \in 0..MaxInst
    BY <1>1 DEF Starts
  <2>2. rec \in Instance /\ rec.tok = "start" /\ rec.st = "active" /\ rec.parent = p
    BY <2>1 DEF Instance
  <2>3. inst' = [inst EXCEPT ![i] = rec]
    BY DEF Starts
  <2> HIDE DEF rec
  <2> QED BY <1>1, <2>2, <2>3
<1>3. /\ sweep' = sweep /\ early' = early /\ inst[i].st = "none"
      /\ i < next' /\ next <= next' /\ next' \in 1..(MaxInst + 1)
  BY DEF Starts, Beside
<1>4. new.op = "drain" /\ new.id = i /\ new = Cont("drain", new.id, 0, 0)
  BY DEF Cont
<1>5. \A d \in Threads : \A x \in Owed'[d] :
         (d = c /\ x = new) \/ (x \in Owed[d] /\ (x.op \in LeadOps => d # c))
  BY DEF Starts, Works, LeadOps, TellOps
<1>6. \A d \in Threads : \A x \in Owed[d] : x \in Owed'[d] \/ (x.op = "start" /\ x.id = i)
  BY DEF Starts, Works
<1> HIDE DEF new
<1>7. \A d \in Threads : \A x \in Owed[d] : x.op \in LeadOps /\ x.id = i => d = c
  BY DEF Starts
<1>8. \A q, j \in Ids : Awaits(q, j)' <=> Awaits(q, j)
  BY <1>2, <1>3 DEF Awaits
<1>9. \A d \in Threads : \A x \in Owed[d] : x.id \in Ids /\ x.parent \in 0..MaxInst
  BY OwedTyped
<1>a. ShapeInv'
  BY <1>2, <1>3 DEF ShapeInv, Starts, Works, Beside
<1>b. TokenInv' /\ RefInv'
  BY <1>1, <1>2 DEF TokenInv, RefInv
<1>c. LeadsFirst'
  BY DEF Starts, Works
<1>d. OneLead'
  <2> SUFFICES ASSUME NEW d \in Threads, NEW e \in Threads, NEW x \in Owed'[d], NEW y \in Owed'[e],
                      x.op \in LeadOps, y.op \in LeadOps, x.id = y.id
               PROVE  d = e /\ x = y
    BY DEF OneLead
  <2>1. (d = c /\ x = new) \/ (x \in Owed[d] /\ x.id # i)
    BY <1>5, <1>7
  <2>2. (e = c /\ y = new) \/ (y \in Owed[e] /\ y.id # i)
    BY <1>5, <1>7
  <2> QED BY <1>4, <2>1, <2>2 DEF OneLead
<1>e. FreshInv'
  <2>1. \A q \in Ids : q >= next' => inst'[q].st = "none"
    BY <1>1, <1>2, <1>3 DEF FreshInv
  <2>2. \A d \in Threads : \A x \in Owed[d] : x.id < next'
    BY <1>1, <1>3, <1>9 DEF FreshInv
  <2> QED BY <1>3, <1>4, <1>5, <2>1, <2>2 DEF FreshInv
<1>f. OwedInv'
  <2> SUFFICES ASSUME NEW d \in Threads, NEW x \in Owed'[d]
               PROVE  /\ x.op \in {"start", "fail"} => inst'[x.id].st = "none"
                      /\ x.op \in AnswerOps => x.parent # 0
                      /\ x.op = "drain" => /\ x = Cont("drain", x.id, 0, 0)
                                           /\ inst'[x.id].st = "active" /\ inst'[x.id].tok = "start"
                      /\ x.op = "notify" => inst'[x.id].st \in Ended \cup {"gone"}
    BY DEF OwedInv
  <2>1. CASE x \in Owed[d] /\ (x.op \in LeadOps => d # c)
    <3>1. x.op \in LeadOps => x.id # i
      BY <1>7, <2>1
    <3>2. x.op = "notify" => x.id # i
      BY <1>3, <2>1 DEF OwedInv, Ended
    <3> QED BY <1>2, <1>9, <2>1, <3>1, <3>2 DEF OwedInv, LeadOps
  <2>2. CASE x = new
    BY <1>2, <1>4, <2>2 DEF AnswerOps
  <2> QED BY <1>5, <2>1, <2>2
<1>g. ParentInv'
  <2> SUFFICES ASSUME NEW q \in Ids, NEW j \in Ids, Awaits(q, j)'
               PROVE  /\ j < next'
                      /\ inst'[j].st # "gone"
                      /\ inst'[j].st # "none" => inst'[j].parent = q
                      /\ \A d \in Threads : \A x \in Owed'[d] :
                            x.op \in AnswerOps /\ x.id = j => x.parent = q
    BY DEF ParentInv
  <2>1. Awaits(q, j)
    BY <1>8
  <2>2. /\ j < next /\ inst[j].st # "gone" /\ (inst[j].st # "none" => inst[j].parent = q)
        /\ \A d \in Threads : \A x \in Owed[d] : x.op \in AnswerOps /\ x.id = j => x.parent = q
    BY <2>1 DEF ParentInv
  <2>3. inst'[j].st # "gone" /\ (inst'[j].st # "none" => inst'[j].parent = q)
    BY <1>2, <2>1, <2>2 DEF Starts
  <2>4. j < next'
    BY <1>1, <1>3, <2>2
  <2> QED BY <1>4, <1>5, <2>2, <2>3, <2>4 DEF AnswerOps
<1>h. SweepInv'
  <2>1. ToSet(sweep.list) \subseteq Ids /\ sweep.purge \in 0..MaxInst
    BY SweepTyped
  <2>2. \A k \in Ids : inst[k].st \in Ended \cup {"gone"} => inst'[k].st \in Ended \cup {"gone"}
    BY <1>2, <1>3 DEF Ended
  <2>3. sweep.purge # 0 => sweep.purge \in Ids
    BY <1>1, <2>1
  <2>4. ASSUME sweep.purge # 0 PROVE \A q \in Ids : ~Awaits(q, sweep.purge)'
    <3>1. \A q \in Ids : ~Awaits(q, sweep.purge)
      BY <2>4 DEF SweepInv
    <3> QED BY <1>2, <1>3, <3>1 DEF Awaits
  <2> QED BY <1>3, <2>1, <2>2, <2>3, <2>4 DEF SweepInv
<1>i. StartInv'
  <2> SUFFICES ASSUME NEW d \in Threads, NEW x \in Owed'[d], x.op = "start"
               PROVE  Awaits(x.parent, x.id)' \/ x.id \in early'
    BY DEF StartInv
  <2>1. x \in Owed[d]
    BY <1>4, <1>5
  <2>2. x.id \in Ids /\ x.parent \in Ids
    BY <1>1, <1>9, <2>1 DEF OwedInv, AnswerOps
  <2>3. Awaits(x.parent, x.id) \/ x.id \in early
    BY <2>1 DEF StartInv
  <2> QED BY <1>3, <1>8, <2>2, <2>3
<1>j. CancelInv'
  <2> SUFFICES ASSUME NEW k \in Ids, inst'[k].st = "active", inst'[k].parent # 0
               PROVE  \/ Awaits(inst[k].parent, k)'
                      \/ \E d \in Threads : \E x \in Owed'[d] : x.op = "cancel" /\ x.id = k
                      \/ k \in early'
    BY DEF CancelInv, Awaits
  <2>1. CASE k = i
    <3>1. p \in Ids /\ (Awaits(p, i) \/ i \in early)
      BY <1>1, <1>2, <2>1 DEF Starts
    <3>2. Awaits(p, i)' \/ i \in early'
      BY <1>3, <1>8, <3>1
    <3> QED BY <1>2, <2>1, <3>2 DEF Awaits
  <2>2. CASE k # i
    <3>1. inst[k] = inst'[k] /\ inst[k] \in Instance
      BY <1>1, <1>2, <2>2
    <3>2. inst[k].parent \in Ids
      BY <1>1, <3>1 DEF Instance
    <3>3. CASE Awaits(inst[k].parent, k)
      BY <1>2, <1>3, <3>1, <3>2, <3>3 DEF Awaits
    <3>4. CASE \E d \in Threads : \E x \in Owed[d] : x.op = "cancel" /\ x.id = k
      BY <1>6, <3>4
    <3> QED BY <1>3, <3>1, <3>3, <3>4 DEF CancelInv
  <2> QED BY <2>1, <2>2
<1>k. StillAnswered(i)
  <2> SUFFICES ASSUME NEW q \in Ids, Waiting(q)', ~(q # i /\ Waiting(q) /\ ~Answered(q))
               PROVE  Answered(q)'
    BY DEF StillAnswered
  <2>1. q # i
    BY <1>2 DEF Waiting
  <2>2. inst'[q] = inst[q] /\ Waiting(q) /\ Answered(q) /\ inst[q].ref \in Ids
    BY <1>2, <2>1 DEF Waiting, RefInv
  <2>3. CASE inst[q].ref = i
    BY <1>2, <2>2, <2>3 DEF Answered
  <2>4. CASE inst[q].ref # i
    BY <1>2, <1>6, <2>2, <2>4 DEF Answered
  <2> QED BY <2>3, <2>4
<1> QED BY <1>a, <1>b, <1>c, <1>d, <1>e, <1>f, <1>g, <1>h, <1>i, <1>j, <1>k

\* Thread c has run continuations that changed no instance; the failure to
\* start a child is still to be reported.
Drops(c, old, new) ==
    /\ UNCHANGED <<inst, next, early>>
    /\ Works(c, old, new)
    /\ old \subseteq Owed[c]
    /\ \A x, y \in new : x = y
    /\ \A x \in new : x.op = "fail" /\ \E y \in old : y.op = "start" /\ y.id = x.id
                                                      /\ y.parent = x.parent
    /\ \A y \in old : /\ y.op = "cancel" => inst[y.id].st # "active"
                      /\ y.op \in AnswerOps => \/ \E x \in new : x.id = y.id
                                               \/ \A p \in Ids : ~Awaits(p, y.id)
    /\ Beside

\* So does a step that only works off a continuation, unless it was an answer
\* somebody waits for.
LEMMA DropsKeeps ==
    ASSUME BaseInv, NEW c \in Threads, NEW old, NEW new, Drops(c, old, new)
    PROVE  BaseInv' /\ StillAnswered(0)
<1> USE DEF BaseInv
<1>1. inst \in [Ids -> Instance] /\ next \in 1..(MaxInst + 1) /\ MaxInst \in Nat /\ Ids = 1..MaxInst
  BY CallsAssumption DEF ShapeInv, Ids
<1>2. inst' = inst /\ next' = next /\ early' = early /\ sweep' = sweep
  BY DEF Drops, Beside
<1>3. \A x \in new : /\ new = {x} /\ x.op = "fail"
                     /\ \E y \in Owed[c] : y.op = "start" /\ y.id = x.id /\ y.parent = x.parent
  BY DEF Drops
<1>5. \A d \in Threads : \A x \in Owed'[d] :
         (d = c /\ x \in new) \/ (x \in Owed[d] /\ (x.op \in LeadOps => d # c))
  BY DEF Drops, Works, LeadOps, TellOps
<1>6. \A d \in Threads : \A x \in Owed[d] : x \in Owed'[d] \/ (d = c /\ x \in old)
  BY DEF Drops, Works
<1>7. new \subseteq Owed'[c]
  BY DEF Drops, Works
<1>8. \A x \in new : x.id < next /\ inst[x.id].st = "none" /\ x.parent # 0
  BY <1>3 DEF FreshInv, OwedInv, AnswerOps
<1>a. ShapeInv'
  BY <1>2 DEF ShapeInv, Drops, Works, Beside
<1>b. TokenInv' /\ RefInv'
  BY <1>2 DEF TokenInv, RefInv
<1>c. LeadsFirst'
  BY DEF Drops, Works
<1>d. OneLead'
  <2> SUFFICES ASSUME NEW d \in Threads, NEW e \in Threads, NEW x \in Owed'[d], NEW y \in Owed'[e],
                      x.op \in LeadOps, y.op \in LeadOps, x.id = y.id
               PROVE  d = e /\ x = y
    BY DEF OneLead
  <2>0. \A z \in new : \A b \in Threads : \A v \in Owed[b] :
           v.op \in LeadOps /\ v.id = z.id => b = c
    BY <1>3 DEF OneLead, LeadOps
  <2> QED BY <1>3, <1>5, <2>0 DEF OneLead
<1>e. FreshInv'
  BY <1>2, <1>5, <1>8 DEF FreshInv
<1>f. OwedInv'
  <2> SUFFICES ASSUME NEW d \in Threads, NEW x \in Owed'[d]
               PROVE  /\ x.op \in {"start", "fail"} => inst'[x.id].st = "none"
                      /\ x.op \in AnswerOps => x.parent # 0
                      /\ x.op = "drain" => /\ x = Cont("drain", x.id, 0, 0)
                                           /\ inst'[x.id].st = "active" /\ inst'[x.id].tok = "start"
                      /\ x.op = "notify" => inst'[x.id].st \in Ended \cup {"gone"}
    BY DEF OwedInv
  <2>1. CASE x \in Owed[d]
    BY <1>2, <2>1 DEF OwedInv
  <2>2. CASE x \in new
    BY <1>2, <1>3, <1>8, <2>2
  <2> QED BY <1>5, <2>1, <2>2
<1>g. ParentInv'
  <2> SUFFICES ASSUME NEW q \in Ids, NEW j \in Ids, Awaits(q, j)'
               PROVE  /\ j < next'
                      /\ inst'[j].st # "gone"
                      /\ inst'[j].st # "none" => inst'[j].parent = q
                      /\ \A d \in Threads : \A x \in Owed'[d] :
                            x.op \in AnswerOps /\ x.id = j => x.parent = q
    BY DEF ParentInv
  <2>1. Awaits(q, j)
    BY <1>2 DEF Awaits
  <2>2. /\ j < next /\ inst[j].st # "gone" /\ (inst[j].st # "none" => inst[j].parent = q)
        /\ \A d \in Threads : \A x \in Owed[d] : x.op \in AnswerOps /\ x.id = j => x.parent = q
    BY <2>1 DEF ParentInv
  <2>3. \A x \in new : x.id = j => x.parent = q
    BY <1>3, <2>2 DEF AnswerOps
  <2> QED BY <1>2, <1>5, <2>2, <2>3
<1>h. SweepInv'
  BY <1>2 DEF SweepInv, Awaits
<1>i. StartInv'
  <2> SUFFICES ASSUME NEW d \in Threads, NEW x \in Owed'[d], x.op = "start"
               PROVE  Awaits(x.parent, x.id)' \/ x.id \in early'
    BY DEF StartInv
  <2>1. x \in Owed[d]
    BY <1>3, <1>5
  <2> QED BY <1>2, <2>1 DEF StartInv, Awaits
<1>j. CancelInv'
  <2> SUFFICES ASSUME NEW k \in Ids, inst'[k].st = "active", inst'[k].parent # 0
               PROVE  \/ Awaits(inst[k].parent, k)'
                      \/ \E d \in Threads : \E x \in Owed'[d] : x.op = "cancel" /\ x.id = k
                      \/ k \in early'
    BY DEF CancelInv, Awaits
  <2>1. CASE Awaits(inst[k].parent, k)
    BY <1>2, <2>1 DEF Awaits
  <2>2. CASE \E d \in Threads : \E x \in Owed[d] : x.op = "cancel" /\ x.id = k
    BY <1>2, <1>6, <2>2 DEF Drops
  <2> QED BY <1>2, <2>1, <2>2 DEF CancelInv
<1>k. StillAnswered(0)
  <2> SUFFICES ASSUME NEW q \in Ids, Waiting(q)', ~(q # 0 /\ Waiting(q) /\ ~Answered(q))
               PROVE  Answered(q)'
    BY DEF StillAnswered
  <2>1. Waiting(q) /\ Answered(q) /\ inst[q].ref \in Ids
    BY <1>1, <1>2 DEF Waiting, RefInv
  <2>2. CASE inst[inst[q].ref].st = "active"
    BY <1>2, <2>2 DEF Answered
  <2>3. CASE \E d \in Threads : \E x \in Owed[d] : x.op \in AnswerOps /\ x.id = inst[q].ref
    <3>1. PICK d \in Threads : \E x \in Owed[d] : x.op \in AnswerOps /\ x.id = inst[q].ref
      BY <2>3
    <3>2. PICK x \in Owed[d] : x.op \in AnswerOps /\ x.id = inst[q].ref
      BY <3>1
    <3>3. CASE x \in old
      <4>1. \E y \in new : y.id = x.id
        BY <2>1, <3>2, <3>3 DEF Drops, Awaits, Waiting
      <4> QED BY <1>2, <1>3, <1>7, <3>2, <4>1 DEF Answered, AnswerOps
    <3>4. CASE x \notin old
      BY <1>2, <1>6, <3>2, <3>4 DEF Answered
    <3> QED BY <3>3, <3>4
  <2> QED BY <2>1, <2>2, <2>3 DEF Answered
<1> QED BY <1>a, <1>b, <1>c, <1>d, <1>e, <1>f, <1>g, <1>h, <1>i, <1>j, <1>k

------------------------------------------------------------------------------
\* The operations of the model are changes of these kinds.

\* An instance that is not locked is not being started.
LEMMA NotLocked ==
    ASSUME BaseInv, NEW i \in Ids, ~Locked(i), NEW d \in Threads, NEW x \in Owed[d]
    PROVE  ~(x.op = "drain" /\ x.id = i)
<1> SUFFICES ASSUME x.op = "drain", x.id = i PROVE FALSE
  OBVIOUS
<1>1. todo[d] \in Seq(Continuation)
  BY DEF BaseInv, ShapeInv
<1>2. PICK k \in DOMAIN todo[d] : x = todo[d][k]
  BY DEF Owed, ToSet
<1>3. ~(k > 1)
  BY <1>2 DEF BaseInv, LeadsFirst, TellOps
<1>4. k = 1 /\ todo[d] # <<>> /\ Head(todo[d]) = x
  BY <1>1, <1>2, <1>3
<1>5. x = Cont("drain", i, 0, 0)
  BY DEF BaseInv, OwedInv
<1> QED BY <1>4, <1>5 DEF Locked

\* Thread c runs its next continuation, or serves a call of the API.
GoesOn(c, old, before) ==
    \/ todo[c] # <<>> /\ old = {Head(todo[c])} /\ before = Tail(todo[c])
    \/ todo[c] = <<>> /\ old = {} /\ before = <<>>

\* A thread that runs its next continuation, or an idle client that is called,
\* replaces what it did by what it owes now.
LEMMA GoesOnWorks ==
    ASSUME BaseInv, NEW c \in Threads, NEW old, NEW before, GoesOn(c, old, before),
           NEW conts \in Seq(Continuation), Owes(c, conts, before),
           \A k \in DOMAIN conts : k > 1 => conts[k].op \in TellOps
    PROVE  Works(c, old, ToSet(conts)) /\ old \subseteq Owed[c]
<1>1. CASE todo[c] # <<>> /\ old = {Head(todo[c])} /\ before = Tail(todo[c])
  BY <1>1, RunWorks, TailOwed DEF BaseInv
<1>2. CASE todo[c] = <<>> /\ old = {} /\ before = <<>>
  BY <1>2, ApiWorks DEF BaseInv
<1> QED BY <1>1, <1>2 DEF GoesOn

\* A step that adds nothing, and one that adds one continuation.
LEMMA AddsNothing ==
    /\ <<>> \in Seq(Continuation) /\ ToSet(<<>>) = {}
    /\ \A k \in DOMAIN <<>> : k > 1 => <<>>[k].op \in TellOps
  BY DEF ToSet

\* The same for a single new continuation.
LEMMA AddsOne ==
    ASSUME BaseInv, NEW c \in Threads, NEW old, NEW before, GoesOn(c, old, before),
           NEW x \in Continuation, Owes(c, <<x>>, before)
    PROVE  Works(c, old, {x}) /\ old \subseteq Owed[c]
<1> DEFINE s == <<x>>
<1>1. DOMAIN s = {1} /\ s[1] = x /\ s \in Seq(Continuation)
  OBVIOUS
<1>2. Owes(c, s, before)
  OBVIOUS
<1> HIDE DEF s
<1>3. ToSet(s) = {x} /\ \A k \in DOMAIN s : k > 1 => s[k].op \in TellOps
  BY <1>1 DEF ToSet
<1>4. Works(c, old, ToSet(s)) /\ old \subseteq Owed[c]
  BY <1>1, <1>2, <1>3, GoesOnWorks
<1> QED BY <1>3, <1>4

\* Instance i may call a process: it runs, and what it waited for is over.
Ready(c, i, old) ==
    /\ inst[i].st = "active" /\ inst[i].depth > 0
    /\ NoDrain(c, i)
    /\ \A x \in old : x.op # "cancel"
    /\ TakesNoAnswer(i, old)
    /\ \A j \in Ids : Awaits(i, j) =>
          /\ inst[j].st # "active"
          /\ \A d \in Threads : \A x \in Owed[d] : ~(x.op = "start" /\ x.id = j)

\* A call that fails leaves an incident behind and the invariant intact.
LEMMA IncidentKeeps ==
    ASSUME BaseInv, NEW c \in Threads, NEW i \in Ids, NEW old, NEW before,
           GoesOn(c, old, before), Ready(c, i, old), Incident(c, i, before), Beside
    PROVE  BaseInv' /\ StillAnswered(i)
<1>1. Works(c, old, {})
  BY AddsNothing, GoesOnWorks DEF Incident
<1>2. early \subseteq Ids /\ 0 \in 0..MaxInst
  BY CallsAssumption DEF BaseInv, ShapeInv
<1>3. Moves(c, i, old, {}, "incident", 0)
  BY <1>1, <1>2 DEF Moves, Ready, Incident
<1> QED BY <1>3, MovesKeeps

\* callActivity parks the token with a fresh child id and owes the child's start.
LEMMA CallKeeps ==
    ASSUME BaseInv, NEW c \in Threads, NEW i \in Ids, NEW old, NEW before,
           GoesOn(c, old, before), Ready(c, i, old), CallActivity(c, i, before), Beside
    PROVE  BaseInv' /\ StillAnswered(i)
<1>1. CASE Incident(c, i, before)
  BY <1>1, IncidentKeeps
<1>2. CASE /\ next <= MaxInst
           /\ inst' = [inst EXCEPT ![i].tok = "call", ![i].ref = next]
           /\ next' = next + 1
           /\ Owes(c, <<Cont("start", next, i, inst[i].depth - 1)>>, before)
           /\ UNCHANGED early
  <2> DEFINE x == Cont("start", next, i, inst[i].depth - 1)
  <2>1. inst[i].depth \in 0..MaxDepth /\ inst[i].depth > 0 /\ next \in 1..(MaxInst + 1)
        /\ MaxInst \in Nat /\ MaxDepth \in Nat
    BY CallsAssumption DEF BaseInv, ShapeInv, Instance, Ready
  <2>2. next \in Ids /\ i \in 0..MaxInst /\ inst[i].depth - 1 \in 0..MaxDepth
    BY <1>2, <2>1 DEF Ids
  <2>3. x \in Continuation
    BY <2>2 DEF Cont, Continuation, LeadOps
  <2>4. Owes(c, <<x>>, before)
    BY <1>2
  <2>5. Works(c, old, {x})
    <3> HIDE DEF x
    <3> QED BY <2>3, <2>4, AddsOne
  <2>6. early \subseteq Ids /\ next \in 0..MaxInst
    BY <2>2 DEF BaseInv, ShapeInv, Ids
  <2>7. Moves(c, i, old, {x}, "call", next)
    BY <1>2, <2>5, <2>6 DEF Moves, Ready
  <2> QED BY <2>7, MovesKeeps
<1> QED BY <1>1, <1>2 DEF CallActivity

\* What an ended instance owes: the cancellations of its children, then the news.
LEMMA EndOwes ==
    ASSUME BaseInv, NEW i \in Ids, inst[i].st = "active"
    PROVE  LET children == ActiveChildren(i)
               conts == [k \in DOMAIN children |-> Cont("cancel", children[k], 0, 0)]
                        \o NotifyParent(i)
           IN  /\ conts \in Seq(Continuation)
               /\ \A k \in DOMAIN conts : conts[k].op \in TellOps
               /\ \A x \in ToSet(conts) :
                     /\ x.id < next
                     /\ \/ x.op = "cancel"
                        \/ x.op = "notify" /\ x.id = i /\ x.parent = inst[i].parent /\ x.parent # 0
               /\ \A j \in Ids : inst[j].parent = i /\ inst[j].st = "active" =>
                     \E x \in ToSet(conts) : x.op = "cancel" /\ x.id = j
               /\ inst[i].parent # 0 => \E x \in ToSet(conts) : x.op = "notify" /\ x.id = i
<1> DEFINE S == {j \in Ids : inst[j].parent = i /\ inst[j].st = "active"}
           children == ActiveChildren(i)
           cancels == [k \in DOMAIN children |-> Cont("cancel", children[k], 0, 0)]
           news == NotifyParent(i)
           conts == cancels \o news
<1>1. inst \in [Ids -> Instance] /\ next \in 1..(MaxInst + 1) /\ MaxInst \in Nat /\ Ids = 1..MaxInst
      /\ 0 \in 0..MaxInst /\ 0 \in 0..MaxDepth
  BY CallsAssumption DEF BaseInv, ShapeInv, Ids
<1>2. children \in Seq(S) /\ ToSet(children) = S
  BY SortedLists DEF ActiveChildren
<1>3. \A j \in Ids : inst[j].st = "active" => j < next
  BY <1>1 DEF BaseInv, FreshInv
<1>4. /\ DOMAIN children = 1..Len(children) /\ Len(children) \in Nat
      /\ \A k \in DOMAIN children : children[k] \in S
      /\ \A j \in S : \E k \in DOMAIN children : children[k] = j
  BY <1>2 DEF ToSet
<1> HIDE DEF children
<1>5. \A j \in S : /\ Cont("cancel", j, 0, 0) \in Continuation
                   /\ Cont("cancel", j, 0, 0).op = "cancel" /\ Cont("cancel", j, 0, 0).id = j
                   /\ j < next
  BY <1>1, <1>3 DEF Cont, Continuation, TellOps
<1> HIDE DEF S
<1>6. /\ cancels \in Seq(Continuation)
      /\ \A k \in DOMAIN cancels : cancels[k].op = "cancel" /\ cancels[k].id < next
      /\ \A j \in S : \E k \in DOMAIN cancels : cancels[k].op = "cancel" /\ cancels[k].id = j
  <2>1. cancels \in [1..Len(children) -> Continuation]
    BY <1>4, <1>5
  <2> QED BY <1>4, <1>5, <2>1
<1>7. /\ news \in Seq(Continuation)
      /\ \A k \in DOMAIN news : /\ news[k].op = "notify" /\ news[k].id = i /\ news[k].id < next
                                /\ news[k].parent = inst[i].parent /\ news[k].parent # 0
      /\ inst[i].parent # 0 => 1 \in DOMAIN news
  <2>1. CASE inst[i].parent = 0
    BY <2>1 DEF NotifyParent
  <2>2. CASE inst[i].parent # 0
    <3> DEFINE x == Cont("notify", i, inst[i].parent, 0)
    <3>1. inst[i] \in Instance
      BY <1>1
    <3>2. inst[i].parent \in 0..MaxInst
      BY <3>1 DEF Instance
    <3>3. x \in Continuation /\ x.op = "notify" /\ x.id = i /\ x.parent = inst[i].parent
      BY <1>1, <3>2 DEF Cont, Continuation, TellOps
    <3>4. news = <<x>>
      BY <2>2 DEF NotifyParent
    <3> HIDE DEF x
    <3>5. news \in Seq(Continuation) /\ DOMAIN news = {1} /\ news[1] = x
      BY <3>3, <3>4
    <3> QED BY <1>3, <2>2, <3>3, <3>5
  <2> QED BY <2>1, <2>2
<1> HIDE DEF cancels, news
<1>8. /\ conts \in Seq(Continuation) /\ Len(conts) = Len(cancels) + Len(news)
      /\ \A k \in 1..(Len(cancels) + Len(news)) :
            conts[k] = IF k <= Len(cancels) THEN cancels[k] ELSE news[k - Len(cancels)]
  BY <1>6, <1>7, ConcatProperties
<1>9. /\ DOMAIN cancels = 1..Len(cancels) /\ Len(cancels) \in Nat
      /\ DOMAIN news = 1..Len(news) /\ Len(news) \in Nat
      /\ DOMAIN conts = 1..Len(conts)
  BY <1>6, <1>7, <1>8
<1> HIDE DEF conts
<1>10. \A k \in DOMAIN conts : \/ k \in DOMAIN cancels /\ conts[k] = cancels[k]
                               \/ /\ k - Len(cancels) \in DOMAIN news
                                  /\ conts[k] = news[k - Len(cancels)]
  BY <1>8, <1>9
<1>11. \A k \in DOMAIN cancels : k \in DOMAIN conts /\ conts[k] = cancels[k]
  BY <1>8, <1>9
<1>12. \A k \in DOMAIN news : k + Len(cancels) \in DOMAIN conts /\ conts[k + Len(cancels)] = news[k]
  BY <1>8, <1>9
<1>13. \A k \in DOMAIN conts : conts[k].op \in TellOps
  BY <1>6, <1>7, <1>10 DEF TellOps
<1>14. \A x \in ToSet(conts) :
          /\ x.id < next
          /\ \/ x.op = "cancel"
             \/ x.op = "notify" /\ x.id = i /\ x.parent = inst[i].parent /\ x.parent # 0
  BY <1>6, <1>7, <1>10 DEF ToSet
<1>15. \A j \in S : \E x \in ToSet(conts) : x.op = "cancel" /\ x.id = j
  BY <1>6, <1>11 DEF ToSet
<1>16. inst[i].parent # 0 => \E x \in ToSet(conts) : x.op = "notify" /\ x.id = i
  BY <1>7, <1>12 DEF ToSet
<1>17. \A j \in Ids : inst[j].parent = i /\ inst[j].st = "active" =>
          \E x \in ToSet(conts) : x.op = "cancel" /\ x.id = j
  BY <1>15 DEF S
<1> QED BY <1>8, <1>13, <1>14, <1>16, <1>17 DEF conts, cancels, news, children

\* The end of an instance, completed or cancelled, keeps the invariant.
LEMMA EndKeeps ==
    ASSUME BaseInv, NEW c \in Threads, NEW i \in Ids, NEW old, NEW before, NEW st \in Ended,
           GoesOn(c, old, before), inst[i].st = "active", NoDrain(c, i),
           \A x \in old : x.op = "cancel" => x.id = i,
           TakesNoAnswer(i, old), EndInstance(c, i, st, before), Beside
    PROVE  BaseInv' /\ StillAnswered(i)
<1> DEFINE children == ActiveChildren(i)
           conts == [k \in DOMAIN children |-> Cont("cancel", children[k], 0, 0)]
                    \o NotifyParent(i)
           new == ToSet(conts)
<1>1. /\ conts \in Seq(Continuation)
      /\ \A k \in DOMAIN conts : conts[k].op \in TellOps
      /\ \A x \in new :
            /\ x.id < next
            /\ \/ x.op = "cancel"
               \/ x.op = "notify" /\ x.id = i /\ x.parent = inst[i].parent /\ x.parent # 0
      /\ \A j \in Ids : inst[j].parent = i /\ inst[j].st = "active" =>
            \E x \in new : x.op = "cancel" /\ x.id = j
      /\ inst[i].parent # 0 => \E x \in new : x.op = "notify" /\ x.id = i
  BY EndOwes
<1>2. Owes(c, conts, before) /\ next' = next
      /\ inst' = [inst EXCEPT ![i].st = st, ![i].tok = "none", ![i].ref = 0]
      /\ early' = IF inst[i].tok = "call" /\ StartPending(inst[i].ref)
                    THEN early \cup {inst[i].ref} ELSE early
  BY DEF EndInstance
<1> HIDE DEF conts
<1>3. Works(c, old, new)
  BY <1>1, <1>2, GoesOnWorks
<1> HIDE DEF new
<1>4. early \subseteq Ids /\ (inst[i].tok = "call" => inst[i].ref \in Ids)
  BY DEF BaseInv, ShapeInv, RefInv
<1>5. early \subseteq early' /\ early' \subseteq Ids
  BY <1>2, <1>4
<1>6. \A j \in Ids : Awaits(i, j) =>
          \A d \in Threads : \A x \in Owed[d] : x.op = "start" /\ x.id = j => j \in early'
  <2> SUFFICES ASSUME NEW j \in Ids, Awaits(i, j), NEW d \in Threads, NEW x \in Owed[d],
                      x.op = "start", x.id = j
               PROVE  j \in early'
    OBVIOUS
  <2>1. StartPending(j)
    BY DEF Owed, ToSet, StartPending
  <2> QED BY <1>2, <2>1 DEF Awaits
<1>7. Ends(c, i, old, new, st)
  BY <1>1, <1>2, <1>3, <1>5, <1>6 DEF Ends
<1> QED BY <1>7, EndsKeeps

------------------------------------------------------------------------------
\* The steps that threads take keep BaseInv.

\* afterRun: a thread runs its next continuation.
LEMMA ContinueStep ==
    ASSUME BaseInv, NEW c \in Threads, Continue(c)
    PROVE  BaseInv' /\ \E i \in 0..MaxInst : StillAnswered(i)
<1> DEFINE k == Head(todo[c])
           rest == Tail(todo[c])
           old == {k}
<1>1. todo[c] # <<>> /\ Beside /\ boot' = boot
  BY DEF Continue, RunDrain, RunStart, RunFail, RunNotify, RunCancel, Running, Beside,
         BaseInv, ShapeInv
<1>2. /\ k \in Owed[c] /\ k \in Continuation /\ k.id \in Ids /\ k.parent \in 0..MaxInst
      /\ k.depth \in 0..MaxDepth
  BY <1>1, TailOwed DEF BaseInv, Continuation
<1>3. GoesOn(c, old, rest)
  BY <1>1 DEF GoesOn
<1>4. Ids = 1..MaxInst /\ MaxInst \in Nat
  BY CallsAssumption DEF Ids
<1>5. \A p \in Ids : p \in 0..MaxInst
  BY <1>4
<1>6. k.op \in AnswerOps => k.parent \in Ids /\ \A p \in Ids : Awaits(p, k.id) => p = k.parent
  BY <1>2, <1>4 DEF BaseInv, OwedInv, ParentInv
<1>7. \A d \in Threads : \A x \in Owed[d] :
         /\ x.op = "start" => inst[x.id].st = "none"
         /\ x.op = "drain" => inst[x.id].tok = "start"
  BY DEF BaseInv, OwedInv
<1>8. \A j \in Ids : inst[j].tok \in {"call", "incident"} => inst[j].depth > 0
  BY DEF BaseInv, TokenInv
<1>d. ASSUME Drop(c), k.op = "cancel" => inst[k.id].st # "active",
             k.op \in AnswerOps => ~Awaits(k.parent, k.id)
      PROVE  BaseInv' /\ StillAnswered(0)
  <2> HIDE DEF k, rest
  <2>1. Owes(c, <<>>, rest) /\ UNCHANGED <<inst, next, early>>
    BY <1>d DEF Drop, rest
  <2>2. Works(c, old, {}) /\ old \subseteq Owed[c]
    BY <1>3, <2>1, AddsNothing, GoesOnWorks
  <2>3. Drops(c, old, {})
    BY <1>1, <1>d, <1>6, <2>1, <2>2 DEF Drops
  <2> QED BY <2>3, DropsKeeps
<1>9. CASE RunDrain(c)
  <2> DEFINE i == k.id
  <2>1. k.op = "drain" /\ inst[i].st = "active" /\ inst[i].tok = "start"
    BY <1>2, <1>9 DEF RunDrain, Running, BaseInv, OwedInv
  <2>2. NoDrain(c, i)
    BY <1>2, <2>1 DEF NoDrain, BaseInv, OneLead, LeadOps
  <2>3. \A j \in Ids : ~Awaits(i, j)
    BY <2>1 DEF Awaits
  <2>4. TakesNoAnswer(i, old) /\ \A x \in old : x.op # "cancel"
    BY <2>1 DEF TakesNoAnswer, AnswerOps
  <2>5. CASE /\ inst[i].depth = 0
             /\ inst' = [inst EXCEPT ![i].tok = "task"]
             /\ Owes(c, <<>>, rest)
             /\ UNCHANGED <<next, early>>
    <3> HIDE DEF k, rest
    <3>1. Works(c, old, {})
      BY <1>3, <2>5, AddsNothing, GoesOnWorks
    <3>2. inst[i] \in Instance /\ early \subseteq Ids /\ inst \in [Ids -> Instance]
      BY <1>2 DEF BaseInv, ShapeInv
    <3>3. inst[i].ref \in 0..MaxInst
      BY <3>2 DEF Instance
    <3>4. [inst[i] EXCEPT !.tok = "task"] = [inst[i] EXCEPT !.tok = "task", !.ref = inst[i].ref]
      BY <3>2 DEF Instance
    <3>5. inst' = [inst EXCEPT ![i].tok = "task", ![i].ref = inst[i].ref]
      <4>1. inst' = [inst EXCEPT ![i] = [inst[i] EXCEPT !.tok = "task"]]
        BY <2>5
      <4> QED BY <4>1, <3>4
    <3>6. Moves(c, i, old, {}, "task", inst[i].ref)
      BY <1>1, <2>1, <2>2, <2>3, <2>4, <2>5, <3>1, <3>2, <3>3, <3>5 DEF Moves
    <3> QED BY <1>2, <1>5, <3>6, MovesKeeps
  <2>6. CASE inst[i].depth > 0 /\ CallActivity(c, i, rest)
    <3> HIDE DEF k, rest
    <3>1. Ready(c, i, old)
      BY <2>1, <2>2, <2>3, <2>4, <2>6 DEF Ready
    <3> QED BY <1>1, <1>2, <1>3, <1>5, <2>6, <3>1, CallKeeps
  <2> QED BY <1>9, <2>5, <2>6 DEF RunDrain
<1>10. CASE RunStart(c)
  <2>1. k.op = "start" /\ inst[k.id].st = "none" /\ k.parent \in Ids /\ k.id < next
        /\ (Awaits(k.parent, k.id) \/ k.id \in early)
    BY <1>2, <1>6, <1>10 DEF RunStart, Running, BaseInv, OwedInv, StartInv, FreshInv, AnswerOps
  <2>2. CASE StartInstance(c, k.id, k.parent, k.depth, rest) /\ UNCHANGED <<next, early>>
    <3> HIDE DEF k, rest
    <3> DEFINE x == Cont("drain", k.id, 0, 0)
    <3>1. x \in Continuation /\ Owes(c, <<x>>, rest)
      BY <1>2, <1>4, <2>2, CallsAssumption DEF Cont, Continuation, LeadOps, StartInstance
    <3>2. Works(c, old, {x})
      <4> HIDE DEF x
      <4> QED BY <1>3, <3>1, AddsOne
    <3>3. \A d \in Threads : \A y \in Owed[d] : y.op \in LeadOps /\ y.id = k.id => d = c
      BY <1>2, <2>1 DEF BaseInv, OneLead, LeadOps
    <3>4. \A q \in Ids : Awaits(q, k.id) => q = k.parent
      BY <1>6, <2>1 DEF AnswerOps
    <3>5. next \in 1..(MaxInst + 1) /\ next <= next
      BY <1>4 DEF BaseInv, ShapeInv
    <3>6. Starts(c, k.id, old, k.parent, k.depth)
      BY <1>1, <1>2, <2>1, <2>2, <3>2, <3>3, <3>4, <3>5 DEF Starts, StartInstance
    <3> QED BY <1>2, <1>5, <3>6, StartsKeeps
  <2>3. CASE /\ Owes(c, <<Cont("fail", k.id, k.parent, 0)>>, rest)
             /\ UNCHANGED <<inst, next, early>>
    <3> HIDE DEF k, rest
    <3> DEFINE x == Cont("fail", k.id, k.parent, 0)
    <3>1. x \in Continuation /\ Owes(c, <<x>>, rest)
          /\ x.op = "fail" /\ x.id = k.id /\ x.parent = k.parent
      BY <1>2, <1>4, <2>3, CallsAssumption DEF Cont, Continuation, LeadOps
    <3> HIDE DEF x
    <3>2. Works(c, old, {x}) /\ old \subseteq Owed[c]
      BY <1>3, <3>1, AddsOne
    <3>3. Drops(c, old, {x})
      BY <1>1, <2>1, <2>3, <3>1, <3>2 DEF Drops
    <3> QED BY <1>4, <3>3, DropsKeeps
  <2> QED BY <1>10, <2>2, <2>3 DEF RunStart
<1>11. CASE RunFail(c)
  <2>1. k.op = "fail" /\ inst[k.id].st = "none" /\ k.parent \in Ids
    BY <1>2, <1>6, <1>11 DEF RunFail, Running, BaseInv, OwedInv, AnswerOps
  <2>2. CASE Awaits(k.parent, k.id) /\ Incident(c, k.parent, rest)
    <3> HIDE DEF k, rest
    <3>1. inst[k.parent].st = "active" /\ inst[k.parent].tok = "call" /\ inst[k.parent].ref = k.id
      BY <2>2 DEF Awaits
    <3>2. NoDrain(c, k.parent) /\ inst[k.parent].depth > 0
      BY <1>7, <1>8, <2>1, <3>1 DEF NoDrain
    <3>3. TakesNoAnswer(k.parent, old)
      BY <1>6 DEF TakesNoAnswer
    <3>4. \A d \in Threads : \A x \in Owed[d] : ~(x.op = "start" /\ x.id = k.id)
      BY <1>2, <2>1 DEF BaseInv, OneLead, LeadOps
    <3>5. Ready(c, k.parent, old)
      BY <2>1, <3>1, <3>2, <3>3, <3>4 DEF Ready, Awaits
    <3> QED BY <1>1, <1>3, <1>5, <2>1, <2>2, <3>5, IncidentKeeps
  <2>3. CASE ~Awaits(k.parent, k.id) /\ Drop(c)
    <3>1. k.op # "cancel"
      BY <2>1
    <3> QED BY <1>4, <1>d, <2>3, <3>1
  <2> QED BY <1>11, <2>2, <2>3 DEF RunFail
<1>12. CASE RunNotify(c)
  <2>1. k.op = "notify" /\ inst[k.id].st \in Ended \cup {"gone"} /\ k.parent \in Ids
    BY <1>2, <1>6, <1>12 DEF RunNotify, Running, BaseInv, OwedInv, AnswerOps
  <2>2. CASE Awaits(k.parent, k.id) /\ (CompleteActivity(c, k.parent, rest) \/ Incident(c, k.parent, rest))
    <3> HIDE DEF k, rest
    <3>1. inst[k.parent].st = "active" /\ inst[k.parent].tok = "call" /\ inst[k.parent].ref = k.id
      BY <2>2 DEF Awaits
    <3>2. NoDrain(c, k.parent) /\ inst[k.parent].depth > 0
      BY <1>7, <1>8, <2>1, <3>1 DEF NoDrain
    <3>3. TakesNoAnswer(k.parent, old)
      BY <1>6 DEF TakesNoAnswer
    <3>4. \A d \in Threads : \A x \in Owed[d] : ~(x.op = "start" /\ x.id = k.id)
      BY <1>7, <2>1 DEF Ended
    <3>5. inst[k.id].st # "active"
      BY <2>1 DEF Ended
    <3>6. Ready(c, k.parent, old)
      BY <2>1, <3>1, <3>2, <3>3, <3>4, <3>5 DEF Ready, Awaits
    <3>7. CASE EndInstance(c, k.parent, "completed", rest)
      <4>1. \A x \in old : x.op = "cancel" => x.id = k.parent
        BY <2>1
      <4>2. "completed" \in Ended
        BY DEF Ended
      <4> QED BY <1>1, <1>3, <1>5, <2>1, <3>1, <3>2, <3>3, <3>7, <4>1, <4>2, EndKeeps
    <3>8. CASE CallActivity(c, k.parent, rest)
      BY <1>1, <1>3, <1>5, <2>1, <3>6, <3>8, CallKeeps
    <3>9. CASE Incident(c, k.parent, rest)
      BY <1>1, <1>3, <1>5, <2>1, <3>6, <3>9, IncidentKeeps
    <3> QED BY <2>2, <3>7, <3>8, <3>9 DEF CompleteActivity
  <2>3. CASE ~Awaits(k.parent, k.id) /\ Drop(c)
    <3>1. k.op # "cancel"
      BY <2>1
    <3> QED BY <1>4, <1>d, <2>3, <3>1
  <2> QED BY <1>12, <2>2, <2>3 DEF RunNotify
<1>13. CASE RunCancel(c)
  <2>1. k.op = "cancel" /\ ~Locked(k.id)
    BY <1>13 DEF RunCancel, Running
  <2>2. CASE inst[k.id].st = "active" /\ EndInstance(c, k.id, "terminated", rest)
    <3> HIDE DEF k, rest
    <3>1. NoDrain(c, k.id)
      BY <1>2, <2>1, NotLocked DEF NoDrain
    <3>2. TakesNoAnswer(k.id, old)
      BY <2>1 DEF TakesNoAnswer, AnswerOps
    <3>3. "terminated" \in Ended /\ \A x \in old : x.op = "cancel" => x.id = k.id
      BY DEF Ended
    <3> QED BY <1>1, <1>2, <1>3, <1>5, <2>2, <3>1, <3>2, <3>3, EndKeeps
  <2>3. CASE inst[k.id].st # "active" /\ Drop(c)
    <3>1. k.op \notin AnswerOps
      BY <2>1 DEF AnswerOps
    <3> QED BY <1>4, <1>d, <2>3, <3>1
  <2> QED BY <1>13, <2>2, <2>3 DEF RunCancel
<1> QED BY <1>9, <1>10, <1>11, <1>12, <1>13 DEF Continue

\* A call of the API.
Call(c) ==
    \/ \E d \in 0..MaxDepth : StartRoot(c, d)
    \/ \E i \in Ids : \/ CompleteTask(c, i) \/ CancelInstance(c, i)
                      \/ ResolveIncident(c, i) \/ BoundaryTriggered(c, i)

\* Every call of the API keeps the invariant and takes an answer from at most one
\* instance, the one it is about.
LEMMA CallStep ==
    ASSUME BaseInv, NEW c \in Clients, Call(c)
    PROVE  BaseInv' /\ \E i \in 0..MaxInst : StillAnswered(i)
<1>1. /\ up /\ boot = <<>> /\ todo[Boot] = <<>> /\ todo[c] = <<>>
      /\ Beside /\ boot' = boot /\ c \in Threads
  BY DEF Call, StartRoot, CompleteTask, CancelInstance, ResolveIncident, BoundaryTriggered,
         Operable, Free, Beside, Threads, BaseInv, ShapeInv
<1>2. Owed[c] = {} /\ GoesOn(c, {}, <<>>)
  BY <1>1 DEF Owed, ToSet, GoesOn
<1>3. Ids = 1..MaxInst /\ MaxInst \in Nat /\ \A p \in Ids : p \in 0..MaxInst
  BY CallsAssumption DEF Ids
<1>4. \A i : TakesNoAnswer(i, {})
  BY DEF TakesNoAnswer
<1>5. ASSUME NEW i \in Ids, ~Locked(i) PROVE NoDrain(c, i)
  BY <1>5, NotLocked DEF NoDrain
<1>6. ASSUME NEW d \in 0..MaxDepth, StartRoot(c, d)
      PROVE  BaseInv' /\ \E i \in 0..MaxInst : StillAnswered(i)
  <2> DEFINE x == Cont("drain", next, 0, 0)
  <2>1. next <= MaxInst /\ next' = next + 1 /\ StartInstance(c, next, 0, d, <<>>) /\ early' = early
    BY <1>6 DEF StartRoot
  <2>2. next \in Ids /\ next \in 1..(MaxInst + 1) /\ 0 \in 0..MaxInst
    BY <1>3, <2>1 DEF BaseInv, ShapeInv
  <2>3. x \in Continuation /\ Owes(c, <<x>>, <<>>)
    BY <2>1, <2>2, CallsAssumption DEF Cont, Continuation, LeadOps, StartInstance
  <2>4. Works(c, {}, {x})
    <3> HIDE DEF x
    <3> QED BY <1>1, <1>2, <2>3, AddsOne
  <2>5. inst[next].st = "none" /\ \A e \in Threads : \A y \in Owed[e] : y.id # next
    <3>1. \A e \in Threads : \A y \in Owed[e] : y.id \in Ids /\ y.id < next
      BY OwedTyped DEF BaseInv, FreshInv
    <3> QED BY <1>3, <2>2, <3>1 DEF BaseInv, FreshInv
  <2>6. \A q \in Ids : ~Awaits(q, next)
    BY <1>3, <2>2 DEF BaseInv, ParentInv
  <2>7. next < next' /\ next <= next' /\ next' \in 1..(MaxInst + 1)
    BY <1>3, <2>1, <2>2
  <2>8. Starts(c, next, {}, 0, d)
    BY <1>1, <2>1, <2>2, <2>4, <2>5, <2>6, <2>7 DEF Starts, StartInstance
  <2> QED BY <1>1, <1>3, <2>2, <2>8, StartsKeeps
<1>7. ASSUME NEW i \in Ids, NEW st \in Ended, Operable(c, i), EndInstance(c, i, st, <<>>)
      PROVE  BaseInv' /\ \E q \in 0..MaxInst : StillAnswered(q)
  <2>1. inst[i].st = "active" /\ NoDrain(c, i)
    BY <1>5, <1>7 DEF Operable
  <2> QED BY <1>1, <1>2, <1>3, <1>4, <1>7, <2>1, EndKeeps
<1>8. ASSUME NEW i \in Ids, CompleteTask(c, i) \/ CancelInstance(c, i)
      PROVE  BaseInv' /\ \E q \in 0..MaxInst : StillAnswered(q)
  BY <1>7, <1>8 DEF CompleteTask, CancelInstance, Ended
<1>9. ASSUME NEW i \in Ids, ResolveIncident(c, i)
      PROVE  BaseInv' /\ \E q \in 0..MaxInst : StillAnswered(q)
  <2>1. inst[i].st = "active" /\ inst[i].tok = "incident" /\ ~Locked(i) /\ CallActivity(c, i, <<>>)
    BY <1>9 DEF ResolveIncident, Operable
  <2>2. inst[i].depth > 0 /\ \A j \in Ids : ~Awaits(i, j)
    BY <2>1 DEF BaseInv, TokenInv, Awaits
  <2>3. Ready(c, i, {})
    BY <1>4, <1>5, <2>1, <2>2 DEF Ready
  <2> QED BY <1>1, <1>2, <1>3, <2>1, <2>3, CallKeeps
<1>10. ASSUME NEW i \in Ids, BoundaryTriggered(c, i)
       PROVE  BaseInv' /\ \E q \in 0..MaxInst : StillAnswered(q)
  <2> DEFINE j == inst[i].ref
             x == Cont("cancel", j, 0, 0)
  <2>1. /\ inst[i].st = "active" /\ inst[i].tok = "call" /\ ~Locked(i)
        /\ inst' = [inst EXCEPT ![i].tok = "task", ![i].ref = 0]
        /\ Owes(c, <<x>>, <<>>)
        /\ early' = IF StartPending(j) THEN early \cup {j} ELSE early
        /\ next' = next
    BY <1>10 DEF BoundaryTriggered, Operable, CancelChild
  <2>2. j \in Ids /\ early \subseteq Ids /\ Awaits(i, j) /\ 0 \in 0..MaxInst
    BY <1>3, <2>1 DEF BaseInv, RefInv, ShapeInv, Awaits
  <2>3. x \in Continuation /\ x.op = "cancel" /\ x.id = j
    BY <1>3, <2>2, CallsAssumption DEF Cont, Continuation, TellOps
  <2>4. j < next
    BY <2>2 DEF BaseInv, ParentInv
  <2>5. \A q \in Ids : Awaits(i, q) => q = j
    BY DEF Awaits
  <2>6. ASSUME NEW d \in Threads, NEW y \in Owed[d], y.op = "start", y.id = j PROVE j \in early'
    <3>1. StartPending(j)
      BY <2>6 DEF Owed, ToSet, StartPending
    <3> QED BY <2>1, <3>1
  <2>7. early \subseteq early' /\ early' \subseteq Ids
    BY <2>1, <2>2
  <2> HIDE DEF x, j
  <2>8. Works(c, {}, {x})
    BY <1>1, <1>2, <2>1, <2>3, AddsOne
  <2>9. Moves(c, i, {}, {x}, "task", 0)
    BY <1>1, <1>4, <1>5, <2>1, <2>2, <2>3, <2>4, <2>5, <2>6, <2>7, <2>8 DEF Moves
  <2> QED BY <1>1, <1>3, <2>9, MovesKeeps
<1> QED BY <1>6, <1>8, <1>9, <1>10 DEF Call

\* reconcile, for one instance: nothing else runs.
LEMMA ReconcileStep ==
    ASSUME BaseInv, BootInv, Reconcile, NEW i \in Ids, i = Head(boot)
    PROVE  BaseInv' /\ StillAnswered(i) /\ (Waiting(i)' => Answered(i)')
<1>1. /\ up /\ boot # <<>> /\ todo[Boot] = <<>> /\ boot' = Tail(boot)
      /\ UNCHANGED <<up, sweep, crashes>> /\ Boot \in Threads
  BY DEF Reconcile, Threads
<1>2. i \in Ids /\ Beside
  <2>1. boot \in Seq(Ids)
    BY DEF BaseInv, ShapeInv
  <2> QED BY <1>1, <2>1, HeadTailProperties DEF Beside
<1>3. \A c \in Threads : Owed[c] = {}
  <2>1. \A c \in Threads : todo[c] = <<>>
    BY <1>1 DEF BootInv, Threads
  <2> QED BY <2>1 DEF Owed, ToSet
<1>c. PICK c \in Threads : c = Boot
  BY <1>1
<1>4. GoesOn(c, {}, <<>>) /\ NoDrain(c, i) /\ TakesNoAnswer(i, {})
  BY <1>1, <1>3, <1>c DEF GoesOn, NoDrain, TakesNoAnswer
<1>5. Ids = 1..MaxInst /\ MaxInst \in Nat
  BY CallsAssumption DEF Ids
<1>6. CASE /\ UNCHANGED <<inst, next, todo, early>>
           /\ Waiting(i) => inst[inst[i].ref].st = "active"
  <2>1. Owed' = Owed
    BY <1>6 DEF Owed
  <2>2. BaseInv'
    <3>1. ShapeInv'
      BY <1>1, <1>2, <1>6 DEF BaseInv, ShapeInv, Beside
    <3>2. TokenInv' /\ RefInv' /\ LeadsFirst' /\ OneLead' /\ FreshInv' /\ OwedInv'
      BY <1>6, <2>1 DEF BaseInv, TokenInv, RefInv, LeadsFirst, OneLead, FreshInv, OwedInv
    <3>3. ParentInv' /\ SweepInv' /\ StartInv' /\ CancelInv'
      BY <1>1, <1>6, <2>1 DEF BaseInv, ParentInv, SweepInv, StartInv, CancelInv, Awaits
    <3> QED BY <3>1, <3>2, <3>3 DEF BaseInv
  <2>3. \A p \in Ids : (Waiting(p)' <=> Waiting(p)) /\ (Answered(p)' <=> Answered(p))
    BY <1>6, <2>1 DEF Waiting, Answered
  <2>5. Waiting(i) => Answered(i)
    BY <1>6 DEF Answered
  <2>6. StillAnswered(i)
    BY <1>2, <2>3, <2>5 DEF StillAnswered
  <2> QED BY <1>1, <1>2, <2>2, <2>3, <2>5, <2>6
<1>7. CASE /\ inst[i].st = "active" /\ inst[i].tok = "call"
           /\ \/ ~Stored(inst[i].ref) /\ Incident(c, i, <<>>)
              \/ inst[inst[i].ref].st \in Ended /\ CompleteActivity(c, i, <<>>)
  <2>1. inst[inst[i].ref].st # "active" /\ inst[i].depth > 0 /\ inst[i].ref \in Ids
    BY <1>2, <1>7 DEF Stored, Ended, BaseInv, TokenInv, RefInv
  <2>2. Ready(c, i, {})
    BY <1>3, <1>4, <1>7, <2>1 DEF Ready, Awaits
  <2>3. ASSUME Incident(c, i, <<>>) PROVE BaseInv' /\ StillAnswered(i)
    BY <1>1, <1>2, <1>4, <2>2, <2>3, IncidentKeeps
  <2>4. ASSUME CallActivity(c, i, <<>>) PROVE BaseInv' /\ StillAnswered(i)
    BY <1>1, <1>2, <1>4, <2>2, <2>4, CallKeeps
  <2>5. ASSUME EndInstance(c, i, "completed", <<>>) PROVE BaseInv' /\ StillAnswered(i)
    <3>1. "completed" \in Ended
      BY DEF Ended
    <3> QED BY <1>1, <1>2, <1>4, <1>7, <2>5, <3>1, EndKeeps
  <2>6. BaseInv' /\ StillAnswered(i)
    BY <1>7, <2>3, <2>4, <2>5 DEF CompleteActivity
  <2>7. Waiting(i)' => Answered(i)'
    BY <1>2, <2>6 DEF StillAnswered
  <2> QED BY <1>1, <2>6, <2>7
<1> QED BY <1>6, <1>7, <1>c DEF Reconcile, Waiting

\* A listing of the sweep holds instances in the state it asked for.
LEMMA BatchLists ==
    ASSUME ShapeInv, NEW st
    PROVE  Batch(st) \in Seq(Ids) /\ \A i \in ToSet(Batch(st)) : inst[i].st = st
<1> DEFINE S == {i \in Ids : inst[i].st = st}
           found == Sorted(S)
           n == IF Len(found) > BatchSize THEN BatchSize ELSE Len(found)
<1>1. found \in Seq(S)
  BY SortedLists
<1>2. Batch(st) = SubSeq(found, 1, n)
  BY DEF Batch
<1> HIDE DEF found
<1>3. n \in Nat /\ n <= Len(found) /\ DOMAIN found = 1..Len(found) /\ Len(found) \in Nat
  BY <1>1, CallsAssumption
<1> HIDE DEF n
<1>4. \A k \in 1..n : found[k] \in S
  BY <1>1, <1>3
<1>5. SubSeq(found, 1, n) \in Seq(S)
  <2> HIDE DEF S
  <2>1. 1 \in Int /\ n \in Int
    BY <1>3
  <2> QED BY <1>4, <2>1, SubSeqProperties
<1>6. \A k \in DOMAIN Batch(st) : Batch(st)[k] \in S
  BY <1>2, <1>5
<1>7. Batch(st) \in Seq(Ids)
  <2>1. S \subseteq Ids
    OBVIOUS
  <2> HIDE DEF S
  <2> QED BY <1>2, <1>5, <2>1
<1> QED BY <1>6, <1>7 DEF ToSet

\* RunHousekeeping: only instances that have ended and that nobody waits for go.
LEMMA SweepStep ==
    ASSUME BaseInv, Sweep
    PROVE  /\ BaseInv'
           /\ \A p \in Ids : (Waiting(p)' <=> Waiting(p)) /\ (Waiting(p) /\ Answered(p) => Answered(p)')
<1> USE DEF BaseInv
<1>1. UNCHANGED <<up, next, todo, boot, early, crashes>> /\ Owed' = Owed
  BY DEF Sweep, SweepLists, SweepLooks, PurgeInstance, Owed
<1>2. /\ sweep.state \in Ended /\ sweep.list \in Seq(Ids) /\ sweep.purge \in 0..MaxInst
      /\ sweep \in [state : Ended, list : Seq(Ids), purge : 0..MaxInst]
      /\ ToSet(sweep.list) \subseteq Ids /\ 0 \in 0..MaxInst
      /\ Ids = 1..MaxInst /\ MaxInst \in Nat
  BY SweepTyped, CallsAssumption DEF ShapeInv, Ids
<1>3. ASSUME inst' = inst, sweep' \in [state : Ended, list : Seq(Ids), purge : 0..MaxInst], SweepInv'
      PROVE  /\ BaseInv'
             /\ \A p \in Ids : (Waiting(p)' <=> Waiting(p)) /\ (Waiting(p) /\ Answered(p) => Answered(p)')
  <2>1. ShapeInv'
    BY <1>1, <1>3 DEF ShapeInv
  <2>2. TokenInv' /\ RefInv' /\ LeadsFirst' /\ OneLead' /\ FreshInv' /\ OwedInv'
    BY <1>1, <1>3 DEF TokenInv, RefInv, LeadsFirst, OneLead, FreshInv, OwedInv
  <2>3. ParentInv' /\ StartInv' /\ CancelInv'
    BY <1>1, <1>3 DEF ParentInv, StartInv, CancelInv, Awaits
  <2>4. \A p \in Ids : (Waiting(p)' <=> Waiting(p)) /\ (Answered(p)' <=> Answered(p))
    BY <1>1, <1>3 DEF Waiting, Answered
  <2> QED BY <1>3, <2>1, <2>2, <2>3, <2>4
<1>4. CASE SweepLists
  <2> DEFINE batch == Batch(sweep.state)
  <2>1. inst' = inst /\ sweep' = [state |-> Other(sweep.state), list |-> batch, purge |-> 0]
    BY <1>4 DEF SweepLists
  <2>2. batch \in Seq(Ids) /\ \A i \in ToSet(batch) : inst[i].st = sweep.state
    BY BatchLists
  <2>3. Other(sweep.state) \in Ended
    <3>1. \E x \in Ended : x # sweep.state
      BY <1>2 DEF Ended
    <3> QED BY <3>1 DEF Other
  <2> HIDE DEF batch
  <2>4. sweep' \in [state : Ended, list : Seq(Ids), purge : 0..MaxInst]
    BY <1>2, <2>1, <2>2, <2>3
  <2>5. SweepInv'
    BY <1>2, <2>1, <2>2 DEF SweepInv
  <2> QED BY <1>3, <2>1, <2>4, <2>5
<1>5. CASE SweepLooks
  <2> DEFINE i == Head(sweep.list)
             purge == IF MayPurge(i) THEN i ELSE 0
             rest == Tail(sweep.list)
  <2>1. inst' = inst /\ sweep.list # <<>>
        /\ sweep' = [sweep EXCEPT !.list = Tail(@), !.purge = purge]
    BY <1>5 DEF SweepLooks
  <2>2. i \in Ids /\ rest \in Seq(Ids) /\ i \in ToSet(sweep.list)
        /\ ToSet(rest) \subseteq ToSet(sweep.list)
    <3>1. i \in Ids /\ rest \in Seq(Ids) /\ Len(rest) = Len(sweep.list) - 1
          /\ \A k \in 1..Len(rest) : rest[k] = sweep.list[k + 1]
      BY <1>2, <2>1, HeadTailProperties
    <3>2. DOMAIN sweep.list = 1..Len(sweep.list) /\ Len(sweep.list) \in Nat /\ Len(sweep.list) >= 1
          /\ i = sweep.list[1] /\ DOMAIN rest = 1..Len(rest)
      BY <1>2, <2>1, <3>1
    <3> HIDE DEF i, rest
    <3>3. \A k \in DOMAIN rest : k + 1 \in DOMAIN sweep.list /\ rest[k] = sweep.list[k + 1]
      BY <3>1, <3>2
    <3>4. 1 \in DOMAIN sweep.list
      BY <3>2
    <3> QED BY <3>1, <3>2, <3>3, <3>4 DEF ToSet
  <2>3. inst[i].st \in Ended \cup {"gone"}
    BY <2>2 DEF SweepInv
  <2>4. MayPurge(i) => \A p \in Ids : ~Awaits(p, i)
    <3> HIDE DEF i
    <3> SUFFICES ASSUME MayPurge(i), NEW p \in Ids, Awaits(p, i) PROVE FALSE
      OBVIOUS
    <3>1. inst[i].st # "gone" /\ inst[i].st # "none"
      BY <2>2, <2>3 DEF ParentInv, Ended
    <3>2. inst[i].parent = p
      BY <2>2, <3>1 DEF ParentInv
    <3> QED BY <1>2, <3>2 DEF MayPurge, Awaits
  <2>5. purge \in 0..MaxInst
    BY <1>2, <2>2
  <2>6. /\ sweep' \in [state : Ended, list : Seq(Ids), purge : 0..MaxInst]
        /\ sweep'.list = rest /\ sweep'.purge = purge
    <3> HIDE DEF purge, i
    <3> QED BY <1>2, <2>1, <2>2, <2>5
  <2>7. \A k \in ToSet(rest) : inst[k].st \in Ended \cup {"gone"}
    BY <2>2 DEF SweepInv
  <2>8. purge # 0 => purge = i /\ MayPurge(i)
    OBVIOUS
  <2> HIDE DEF i, purge, rest
  <2>9. SweepInv'
    <3>1. \A k \in ToSet(sweep'.list) : inst'[k].st \in Ended \cup {"gone"}
      BY <2>1, <2>6, <2>7
    <3>2. sweep'.purge # 0 => /\ inst'[sweep'.purge].st \in Ended \cup {"gone"}
                              /\ \A p \in Ids : ~(inst'[p].st = "active" /\ inst'[p].tok = "call"
                                                  /\ inst'[p].ref = sweep'.purge)
      BY <2>1, <2>3, <2>4, <2>6, <2>8 DEF Awaits
    <3> QED BY <3>1, <3>2 DEF SweepInv, Awaits
  <2> QED BY <1>3, <2>1, <2>6, <2>9
<1>6. CASE PurgeInstance
  <2> DEFINE i == sweep.purge
             rec == [NotStored EXCEPT !.st = "gone"]
  <2>1. i # 0 /\ inst' = [inst EXCEPT ![i] = rec] /\ sweep' = [sweep EXCEPT !.purge = 0]
    BY <1>6 DEF PurgeInstance
  <2>2. rec \in Instance /\ rec.st = "gone" /\ rec.tok = "none"
    BY CallsAssumption DEF NotStored, Instance
  <2>3. /\ i \in Ids /\ inst[i].st \in Ended \cup {"gone"} /\ inst[i].st # "active" /\ inst[i].st # "none"
        /\ \A p \in Ids : ~Awaits(p, i)
    BY <1>2, <2>1 DEF SweepInv, Ended
  <2> HIDE DEF rec
  <2>4. /\ inst \in [Ids -> Instance] /\ inst' \in [Ids -> Instance]
        /\ \A p \in Ids : p # i => inst'[p] = inst[p]
        /\ inst'[i].st = "gone" /\ inst'[i].tok = "none"
    BY <2>1, <2>2, <2>3 DEF ShapeInv
  <2>5. /\ sweep' \in [state : Ended, list : Seq(Ids), purge : 0..MaxInst]
        /\ sweep'.list = sweep.list /\ sweep'.purge = 0
    BY <1>2, <2>1
  <2> HIDE DEF i
  <2>6. \A p, j \in Ids : Awaits(p, j)' <=> Awaits(p, j)
    BY <2>3, <2>4 DEF Awaits
  <2>7. \A d \in Threads : \A x \in Owed[d] : x.id \in Ids /\ x.parent \in 0..MaxInst
    BY OwedTyped
  <2>8. ShapeInv'
    BY <1>1, <2>4, <2>5 DEF ShapeInv
  <2>9. TokenInv' /\ RefInv'
    BY <2>4 DEF TokenInv, RefInv
  <2>10. LeadsFirst' /\ OneLead'
    BY <1>1 DEF LeadsFirst, OneLead
  <2>11. FreshInv'
    BY <1>1, <2>3, <2>4 DEF FreshInv
  <2>12. OwedInv'
    <3> SUFFICES ASSUME NEW d \in Threads, NEW x \in Owed[d]
                 PROVE  /\ x.op \in {"start", "fail"} => inst'[x.id].st = "none"
                        /\ x.op \in AnswerOps => x.parent # 0
                        /\ x.op = "drain" => /\ x = Cont("drain", x.id, 0, 0)
                                             /\ inst'[x.id].st = "active" /\ inst'[x.id].tok = "start"
                        /\ x.op = "notify" => inst'[x.id].st \in Ended \cup {"gone"}
      BY <1>1 DEF OwedInv
    <3>1. CASE x.id = i
      BY <2>3, <2>4, <3>1 DEF OwedInv
    <3>2. CASE x.id # i
      BY <2>4, <2>7, <3>2 DEF OwedInv
    <3> QED BY <3>1, <3>2
  <2>13. ParentInv'
    <3> SUFFICES ASSUME NEW q \in Ids, NEW j \in Ids, Awaits(q, j)'
                 PROVE  /\ j < next'
                        /\ inst'[j].st # "gone"
                        /\ inst'[j].st # "none" => inst'[j].parent = q
                        /\ \A d \in Threads : \A x \in Owed'[d] :
                              x.op \in AnswerOps /\ x.id = j => x.parent = q
      BY DEF ParentInv
    <3>1. Awaits(q, j) /\ j # i
      BY <2>3, <2>6
    <3> QED BY <1>1, <2>4, <3>1 DEF ParentInv
  <2>14. SweepInv'
    BY <1>2, <2>4, <2>5 DEF SweepInv
  <2>15. StartInv'
    <3> SUFFICES ASSUME NEW d \in Threads, NEW x \in Owed[d], x.op = "start"
                 PROVE  Awaits(x.parent, x.id)' \/ x.id \in early'
      BY <1>1 DEF StartInv
    <3>1. x.id \in Ids /\ x.parent \in Ids
      BY <1>2, <2>7 DEF OwedInv, AnswerOps
    <3> QED BY <1>1, <2>6, <3>1 DEF StartInv
  <2>16. CancelInv'
    <3> SUFFICES ASSUME NEW k \in Ids, inst'[k].st = "active", inst'[k].parent # 0
                 PROVE  \/ Awaits(inst[k].parent, k)'
                        \/ \E d \in Threads : \E x \in Owed'[d] : x.op = "cancel" /\ x.id = k
                        \/ k \in early'
      BY DEF CancelInv, Awaits
    <3>1. k # i /\ inst[k] = inst'[k] /\ inst[k] \in Instance
      BY <2>4
    <3>2. inst[k].parent \in Ids
      BY <1>2, <3>1 DEF Instance
    <3>3. CASE Awaits(inst[k].parent, k)
      <4>1. inst[k].parent # i
        BY <2>3, <3>3 DEF Awaits
      <4> QED BY <2>4, <3>1, <3>2, <3>3, <4>1 DEF Awaits
    <3> QED BY <1>1, <3>1, <3>3 DEF CancelInv
  <2>17. \A p \in Ids : (Waiting(p)' <=> Waiting(p)) /\ (Waiting(p) /\ Answered(p) => Answered(p)')
    <3> SUFFICES ASSUME NEW p \in Ids
                 PROVE  (Waiting(p)' <=> Waiting(p)) /\ (Waiting(p) /\ Answered(p) => Answered(p)')
      OBVIOUS
    <3>1. Waiting(p)' <=> Waiting(p)
      BY <2>3, <2>4 DEF Waiting
    <3>2. ASSUME Waiting(p), Answered(p) PROVE Answered(p)'
      <4>1. p # i /\ inst'[p] = inst[p] /\ inst[p].ref \in Ids
        BY <2>3, <2>4, <3>2 DEF Waiting, RefInv
      <4>2. CASE inst[inst[p].ref].st = "active"
        BY <2>3, <2>4, <4>1, <4>2 DEF Answered
      <4>3. CASE \E d \in Threads : \E x \in Owed[d] : x.op \in AnswerOps /\ x.id = inst[p].ref
        BY <1>1, <4>1, <4>3 DEF Answered
      <4> QED BY <3>2, <4>2, <4>3 DEF Answered
    <3> QED BY <3>1, <3>2
  <2> QED BY <2>8, <2>9, <2>10, <2>11, <2>12, <2>13, <2>14, <2>15, <2>16, <2>17
<1> QED BY <1>4, <1>5, <1>6 DEF Sweep

------------------------------------------------------------------------------
\* The whole invariant.

\* The empty store satisfies the invariant.
LEMMA CallsInit == Init => CallsInv
<1> SUFFICES ASSUME Init PROVE CallsInv
  OBVIOUS
<1>1. MaxInst \in Nat /\ MaxDepth \in Nat /\ MaxCrashes \in Nat /\ Ids = 1..MaxInst /\ MaxInst # 0
      /\ Boot \in Threads
  BY CallsAssumption DEF Ids, Threads
<1>2. \A i \in Ids : inst[i] = NotStored
  BY DEF Init
<1>3. NotStored \in Instance /\ NotStored.st = "none" /\ NotStored.tok = "none"
  BY <1>1 DEF NotStored, Instance
<1>4. \A c \in Threads : todo[c] = <<>> /\ Owed[c] = {}
  BY DEF Init, Owed, ToSet
<1>5. Idle \in [state : Ended, list : Seq(Ids), purge : 0..MaxInst]
      /\ ToSet(Idle.list) = {} /\ Idle.purge = 0
  BY <1>1 DEF Idle, Ended, ToSet
<1>6. ShapeInv
  <2>1. inst \in [Ids -> Instance]
    BY <1>3 DEF Init
  <2>2. todo \in [Threads -> Seq(Continuation)]
    BY DEF Init
  <2> QED BY <1>1, <1>5, <2>1, <2>2 DEF Init, ShapeInv
<1>7. TokenInv /\ RefInv /\ FreshInv /\ CancelInv
  BY <1>2, <1>3, <1>4 DEF TokenInv, RefInv, FreshInv, CancelInv
<1>8. LeadsFirst /\ OneLead /\ OwedInv /\ StartInv
  BY <1>4 DEF LeadsFirst, OneLead, OwedInv, StartInv
<1>9. ParentInv
  BY <1>2, <1>3 DEF ParentInv, Awaits
<1>10. SweepInv
  BY <1>5 DEF SweepInv, Init
<1>11. BootInv /\ AnswerInv
  BY <1>1, <1>2, <1>3, <1>4 DEF BootInv, AnswerInv, Waiting, Init
<1> QED BY <1>6, <1>7, <1>8, <1>9, <1>10, <1>11 DEF CallsInv, BaseInv

\* A crash loses what the threads owed; a lost cancellation makes the child one
\* of those that outlive their parent's wait.
LEMMA CrashStep ==
    ASSUME BaseInv, Crash
    PROVE  BaseInv'
<1> USE DEF BaseInv
<1>1. /\ inst' = inst /\ next' = next /\ sweep' = Idle /\ boot' = <<>> /\ up' = FALSE
      /\ todo' = [c \in Threads |-> <<>>] /\ crashes < MaxCrashes /\ crashes' = crashes + 1
      /\ early' = early \cup {i \in Ids : \E c \in Threads : \E k \in DOMAIN todo[c] :
                                todo[c][k].op = "cancel" /\ todo[c][k].id = i}
  BY DEF Crash
<1>2. \A c \in Threads : todo'[c] = <<>> /\ Owed'[c] = {}
  BY <1>1 DEF Owed, ToSet
<1>3. Idle \in [state : Ended, list : Seq(Ids), purge : 0..MaxInst]
      /\ ToSet(Idle.list) = {} /\ Idle.purge = 0
  BY CallsAssumption DEF Idle, Ended, ToSet
<1>4. ShapeInv'
  <2>1. todo' \in [Threads -> Seq(Continuation)] /\ boot' \in Seq(Ids)
    BY <1>1
  <2>2. crashes' \in 0..MaxCrashes
    BY <1>1, CallsAssumption DEF ShapeInv
  <2>3. early' \subseteq Ids
    BY <1>1 DEF ShapeInv
  <2> QED BY <1>1, <1>3, <2>1, <2>2, <2>3 DEF ShapeInv
<1>5. TokenInv' /\ RefInv' /\ FreshInv'
  BY <1>1, <1>2 DEF TokenInv, RefInv, FreshInv
<1>6. LeadsFirst' /\ OneLead' /\ OwedInv' /\ StartInv'
  BY <1>2 DEF LeadsFirst, OneLead, OwedInv, StartInv
<1>7. ParentInv'
  BY <1>1, <1>2 DEF ParentInv, Awaits
<1>8. SweepInv'
  BY <1>1, <1>3 DEF SweepInv
<1>9. CancelInv'
  <2> SUFFICES ASSUME NEW i \in Ids, inst[i].st = "active", inst[i].parent # 0
               PROVE  Awaits(inst[i].parent, i) \/ i \in early'
    BY <1>1 DEF CancelInv, Awaits
  <2>1. (\E c \in Threads : \E x \in Owed[c] : x.op = "cancel" /\ x.id = i) => i \in early'
    BY <1>1 DEF Owed, ToSet
  <2> QED BY <1>1, <2>1 DEF CancelInv
<1> QED BY <1>4, <1>5, <1>6, <1>7, <1>8, <1>9

\* At the next start every active instance is put on reconcile's list.
LEMMA StartStep ==
    ASSUME BaseInv, Start
    PROVE  BaseInv' /\ UNCHANGED <<inst, todo>> /\ \A i \in Ids : Waiting(i)' => i \in ToSet(boot')
<1> USE DEF BaseInv
<1> DEFINE S == {i \in Ids : inst[i].st = "active"}
<1>1. boot' = Sorted(S) /\ up' = TRUE /\ UNCHANGED <<inst, next, todo, sweep, early, crashes>>
  BY DEF Start
<1>2. Sorted(S) \in Seq(S) /\ ToSet(Sorted(S)) = S
  BY SortedLists
<1>3. boot' \in Seq(Ids)
  <2>1. S \subseteq Ids
    OBVIOUS
  <2> HIDE DEF S
  <2> QED BY <1>1, <1>2, <2>1
<1>4. Owed' = Owed
  BY <1>1 DEF Owed
<1>5. ShapeInv'
  BY <1>1, <1>3 DEF ShapeInv
<1>6. TokenInv' /\ RefInv' /\ LeadsFirst' /\ OneLead' /\ FreshInv' /\ OwedInv'
  BY <1>1, <1>4 DEF TokenInv, RefInv, LeadsFirst, OneLead, FreshInv, OwedInv
<1>7. ParentInv' /\ SweepInv' /\ StartInv' /\ CancelInv'
  BY <1>1, <1>4 DEF ParentInv, SweepInv, StartInv, CancelInv, Awaits
<1>8. \A i \in Ids : Waiting(i)' => i \in ToSet(boot')
  BY <1>1, <1>2 DEF Waiting
<1> QED BY <1>1, <1>5, <1>6, <1>7, <1>8

\* Threads take turns: first reconcile, then the API.
LEMMA BootStep ==
    ASSUME BaseInv, BootInv, Next
    PROVE  BootInv'
<1>1. Boot \in Threads /\ Boot \notin Clients /\ Threads = Clients \cup {Boot}
  BY CallsAssumption DEF Threads
<1>2. todo \in [Threads -> Seq(Continuation)]
  BY DEF BaseInv, ShapeInv
<1>3. ASSUME NEW c \in Threads, Continue(c) PROVE BootInv'
  <2>1. up /\ todo[c] # <<>> /\ up' = up /\ boot' = boot
    BY <1>3 DEF Continue, RunDrain, RunStart, RunFail, RunNotify, RunCancel, Running
  <2>2. \E s : todo' = [todo EXCEPT ![c] = s]
    BY <1>3 DEF Continue, RunDrain, RunStart, RunFail, RunNotify, RunCancel, Drop, Owes,
                CallActivity, Incident, CompleteActivity, EndInstance, StartInstance
  <2>3. \A d \in Threads : d # c => todo'[d] = todo[d]
    BY <1>2, <2>2
  <2> QED BY <1>1, <2>1, <2>3 DEF BootInv
<1>4. ASSUME NEW c \in Clients, Call(c) PROVE BootInv'
  <2>1. up /\ boot = <<>> /\ todo[Boot] = <<>> /\ up' = up /\ boot' = boot
    BY <1>4 DEF Call, StartRoot, CompleteTask, CancelInstance, ResolveIncident,
                BoundaryTriggered, Operable, Free
  <2>2. \E s : todo' = [todo EXCEPT ![c] = s]
    BY <1>4 DEF Call, StartRoot, CompleteTask, CancelInstance, ResolveIncident,
                BoundaryTriggered, Owes, CallActivity, Incident, EndInstance, StartInstance
  <2>3. todo'[Boot] = todo[Boot]
    BY <1>1, <1>2, <2>2
  <2> QED BY <2>1, <2>3 DEF BootInv
<1>5. CASE Sweep
  BY <1>5 DEF Sweep, SweepLists, SweepLooks, PurgeInstance, BootInv
<1>6. CASE Crash
  BY <1>1, <1>6 DEF Crash, BootInv
<1>7. CASE Start
  BY <1>1, <1>7 DEF Start, BootInv
<1>8. CASE Reconcile
  <2>1. up /\ boot # <<>> /\ up' = up
    BY <1>8 DEF Reconcile
  <2>2. todo' = todo \/ \E s : todo' = [todo EXCEPT ![Boot] = s]
    BY <1>8 DEF Reconcile, Owes, CallActivity, Incident, CompleteActivity, EndInstance
  <2>3. \A c \in Clients : todo'[c] = todo[c]
    BY <1>1, <1>2, <2>2
  <2> QED BY <2>1, <2>3 DEF BootInv
<1> QED BY <1>3, <1>4, <1>5, <1>6, <1>7, <1>8 DEF Next, Call

\* Every step keeps it, one case per action.
LEMMA CallsStep == CallsInv /\ [Next]_vars => CallsInv'
<1> SUFFICES ASSUME CallsInv, [Next]_vars PROVE CallsInv'
  OBVIOUS
<1> USE DEF CallsInv
<1>1. CASE UNCHANGED vars
  <2>1. UNCHANGED <<up, inst, next, todo, boot, sweep, early, crashes>> /\ Owed' = Owed
    BY <1>1 DEF vars, Owed
  <2>2. ShapeInv' /\ TokenInv' /\ RefInv' /\ LeadsFirst' /\ OneLead' /\ FreshInv' /\ OwedInv'
    BY <2>1 DEF BaseInv, ShapeInv, TokenInv, RefInv, LeadsFirst, OneLead, FreshInv, OwedInv
  <2>3. ParentInv' /\ SweepInv' /\ StartInv' /\ CancelInv'
    BY <2>1 DEF BaseInv, ParentInv, SweepInv, StartInv, CancelInv, Awaits
  <2>4. BootInv' /\ AnswerInv'
    BY <2>1 DEF BootInv, AnswerInv, Waiting, Answered
  <2> QED BY <2>2, <2>3, <2>4 DEF BaseInv
<1>3. ASSUME NEW i, StillAnswered(i), up' = up, boot' = boot PROVE AnswerInv'
  BY <1>3 DEF StillAnswered, AnswerInv
<1>4. ASSUME NEW c \in Threads, Continue(c) PROVE CallsInv'
  <2>1. up' = up /\ boot' = boot
    BY <1>4 DEF Continue, RunDrain, RunStart, RunFail, RunNotify, RunCancel
  <2>2. Next
    BY <1>4 DEF Next
  <2> QED BY <1>3, <1>4, <2>1, <2>2, ContinueStep, BootStep
<1>5. ASSUME NEW c \in Clients, Call(c) PROVE CallsInv'
  <2>1. up' = up /\ boot' = boot
    BY <1>5 DEF Call, StartRoot, CompleteTask, CancelInstance, ResolveIncident, BoundaryTriggered
  <2>2. Next
    BY <1>5 DEF Next, Call
  <2> QED BY <1>3, <1>5, <2>1, <2>2, CallStep, BootStep
<1>6. CASE Sweep
  <2>1. up' = up /\ boot' = boot
    BY <1>6 DEF Sweep, SweepLists, SweepLooks, PurgeInstance
  <2>2. AnswerInv'
    BY <1>6, <2>1, SweepStep DEF AnswerInv
  <2>3. Next
    BY <1>6 DEF Next
  <2> QED BY <1>6, <2>2, <2>3, SweepStep, BootStep
<1>7. CASE Crash
  <2>1. AnswerInv'
    BY <1>7 DEF Crash, AnswerInv
  <2>2. Next
    BY <1>7 DEF Next
  <2> QED BY <1>7, <2>1, <2>2, CrashStep, BootStep
<1>8. CASE Start
  <2>1. AnswerInv'
    BY <1>8, StartStep DEF AnswerInv
  <2>2. Next
    BY <1>8 DEF Next
  <2> QED BY <1>8, <2>1, <2>2, StartStep, BootStep
<1>9. CASE Reconcile
  <2>1. boot \in Seq(Ids) /\ boot # <<>> /\ boot' = Tail(boot) /\ up' = up
    BY <1>9 DEF Reconcile, BaseInv, ShapeInv
  <2>2. PICK i \in Ids : i = Head(boot)
    BY <2>1, HeadTailProperties
  <2>3. BaseInv' /\ StillAnswered(i) /\ (Waiting(i)' => Answered(i)')
    BY <1>9, <2>2, ReconcileStep
  <2>4. \A p \in ToSet(boot) : p = i \/ p \in ToSet(boot')
    <3>1. Len(Tail(boot)) = Len(boot) - 1 /\ Tail(boot) \in Seq(Ids)
          /\ \A k \in 1..Len(Tail(boot)) : Tail(boot)[k] = boot[k + 1]
      BY <2>1, HeadTailProperties
    <3>2. DOMAIN boot = 1..Len(boot) /\ Len(boot) \in Nat /\ i = boot[1]
          /\ DOMAIN boot' = 1..Len(boot')
      BY <2>1, <2>2, <3>1
    <3>3. \A k \in DOMAIN boot : k = 1 \/ (k - 1 \in DOMAIN boot' /\ boot'[k - 1] = boot[k])
      BY <2>1, <3>1, <3>2
    <3> QED BY <3>2, <3>3 DEF ToSet
  <2>5. AnswerInv'
    BY <2>1, <2>3, <2>4 DEF AnswerInv, StillAnswered
  <2>6. Next
    BY <1>9 DEF Next
  <2> QED BY <2>3, <2>5, <2>6, BootStep
<1> QED BY <1>1, <1>4, <1>5, <1>6, <1>7, <1>8, <1>9 DEF Next, Call

\* Whatever the threads, the sweep and crashes do, the bookkeeping between
\* instances stays consistent: the strengthening that the theorems below rest on.
THEOREM CallsAreAccounted == Spec => []CallsInv
  BY CallsInit, CallsStep, PTL DEF Spec

------------------------------------------------------------------------------
\* What it implies.

\* The invariant has the type invariant in it.
LEMMA CallsTypeOK == CallsInv => TypeOK
<1> SUFFICES ASSUME CallsInv PROVE TypeOK
  OBVIOUS
<1> USE DEF CallsInv, BaseInv
<1>1. ASSUME NEW i \in Ids
      PROVE  /\ inst[i].st \in {"none", "active", "gone"} \cup Ended
             /\ inst[i].parent \in 0..MaxInst /\ inst[i].ref \in 0..MaxInst
             /\ inst[i].depth \in 0..MaxDepth
             /\ inst[i].tok \in {"none", "start", "task", "call", "incident"}
             /\ inst[i].st = "active" <=> inst[i].tok # "none"
  <2>1. inst[i] \in Instance
    BY DEF ShapeInv
  <2>2. inst[i].st = "active" <=> inst[i].tok # "none"
    BY DEF TokenInv
  <2> QED BY <2>1, <2>2 DEF Instance
<1>2. ASSUME NEW i \in Ids, NEW c \in Threads, NEW d \in Threads,
             todo[c] # <<>>, Head(todo[c]) = Cont("drain", i, 0, 0),
             todo[d] # <<>>, Head(todo[d]) = Cont("drain", i, 0, 0)
      PROVE  c = d
  <2> DEFINE x == Cont("drain", i, 0, 0)
  <2>1. x \in Owed[c] /\ x \in Owed[d]
    BY <1>2, TailOwed
  <2>2. x.op \in LeadOps
    BY DEF Cont, LeadOps
  <2> HIDE DEF x
  <2> QED BY <2>1, <2>2 DEF OneLead
<1> QED BY <1>1, <1>2 DEF TypeOK, ShapeInv

\* A parent without an answer has reconcile to come, so somebody owes it one.
LEMMA CallsAnswered == CallsInv => CallHasAnswer
<1> SUFFICES ASSUME CallsInv, NEW i \in Ids, inst[i].st = "active", inst[i].tok = "call"
             PROVE  \/ inst[inst[i].ref].st = "active"
                    \/ \E op \in {"start", "fail", "notify"} : Pending(op, inst[i].ref)
                    \/ ~up
                    \/ i \in ToSet(boot)
  BY DEF CallHasAnswer
<1>1. Answered(i) \/ ~up \/ i \in ToSet(boot)
  BY DEF CallsInv, BaseInv, AnswerInv, ShapeInv, Waiting
<1>2. CASE \E c \in Threads : \E x \in Owed[c] : x.op \in AnswerOps /\ x.id = inst[i].ref
  BY <1>2 DEF Owed, ToSet, AnswerOps, Pending
<1> QED BY <1>1, <1>2 DEF Answered

\* CancelInv is the property, over what the threads owe.
LEMMA CallsCanceled == CallsInv => ChildrenCanceled
  BY DEF CallsInv, BaseInv, CancelInv, ChildrenCanceled, Pending, Owed, ToSet

\* Every piece of state of the call activities has its type, and two threads
\* never hold the lock of one instance (startInstance).
THEOREM CallsTypes == Spec => []TypeOK
  BY CallsAreAccounted, CallsTypeOK, PTL

\* A call activity's token never waits for an answer that nobody owes it
\* (callActivity, startChildInstance, notifyParent, reconcile, RunHousekeeping).
THEOREM CallsHaveAnswers == Spec => []CallHasAnswer
  BY CallsAreAccounted, CallsAnswered, PTL

\* A running child that its parent no longer waits for is about to be cancelled,
\* or is one of the named exceptions (cleanupInstanceRecords, cancelWaits).
THEOREM ChildrenAreCanceled == Spec => []ChildrenCanceled
  BY CallsAreAccounted, CallsCanceled, PTL

------------------------------------------------------------------------------
\* The sweep.

\* Only the sweep removes a record.
LEMMA OnlySweepPurges ==
    ASSUME BaseInv, Next, ~PurgeInstance, NEW j \in Ids, inst[j].st # "gone"
    PROVE  inst'[j].st # "gone"
<1>1. inst \in [Ids -> Instance]
  BY DEF BaseInv, ShapeInv
<1>2. inst[j] \in Instance
  BY <1>1
<1>3. ASSUME NEW i, NEW tok, NEW ref, inst' = [inst EXCEPT ![i].tok = tok, ![i].ref = ref]
      PROVE  inst'[j].st # "gone"
  BY <1>1, <1>2, <1>3 DEF Instance
<1>4. ASSUME NEW c, NEW i, NEW before, Incident(c, i, before) \/ CallActivity(c, i, before)
      PROVE  inst'[j].st # "gone"
  BY <1>3, <1>4 DEF Incident, CallActivity
<1>5. ASSUME NEW c, NEW i, NEW st \in Ended, NEW before, EndInstance(c, i, st, before)
      PROVE  inst'[j].st # "gone"
  <2>1. inst' = [inst EXCEPT ![i].st = st, ![i].tok = "none", ![i].ref = 0]
    BY <1>5 DEF EndInstance
  <2> QED BY <1>1, <1>2, <2>1 DEF Instance, Ended
<1>6. ASSUME NEW c, NEW i, NEW p, NEW d, NEW before, StartInstance(c, i, p, d, before)
      PROVE  inst'[j].st # "gone"
  BY <1>1, <1>6 DEF StartInstance
<1>7. "completed" \in Ended /\ "terminated" \in Ended
  BY DEF Ended
<1>8. ASSUME NEW c \in Threads, Continue(c) PROVE inst'[j].st # "gone"
  <2>1. CASE RunDrain(c)
    <3>1. CASE inst' = [inst EXCEPT ![Head(todo[c]).id].tok = "task"]
      BY <1>1, <1>2, <3>1 DEF Instance
    <3> QED BY <1>4, <2>1, <3>1 DEF RunDrain
  <2>2. CASE RunStart(c)
    BY <1>6, <2>2 DEF RunStart
  <2>3. CASE RunFail(c)
    BY <1>4, <2>3 DEF RunFail, Drop
  <2>4. CASE RunNotify(c)
    BY <1>4, <1>5, <1>7, <2>4 DEF RunNotify, Drop, CompleteActivity
  <2>5. CASE RunCancel(c)
    BY <1>5, <1>7, <2>5 DEF RunCancel, Drop
  <2> QED BY <1>8, <2>1, <2>2, <2>3, <2>4, <2>5 DEF Continue
<1>9. ASSUME NEW c \in Clients, Call(c) PROVE inst'[j].st # "gone"
  <2>1. ASSUME NEW d \in 0..MaxDepth, StartRoot(c, d) PROVE inst'[j].st # "gone"
    BY <1>6, <2>1 DEF StartRoot
  <2>2. ASSUME NEW i \in Ids, CompleteTask(c, i) \/ CancelInstance(c, i) PROVE inst'[j].st # "gone"
    BY <1>5, <1>7, <2>2 DEF CompleteTask, CancelInstance
  <2>3. ASSUME NEW i \in Ids, ResolveIncident(c, i) PROVE inst'[j].st # "gone"
    BY <1>4, <2>3 DEF ResolveIncident
  <2>4. ASSUME NEW i \in Ids, BoundaryTriggered(c, i) PROVE inst'[j].st # "gone"
    BY <1>3, <2>4 DEF BoundaryTriggered
  <2> QED BY <1>9, <2>1, <2>2, <2>3, <2>4 DEF Call
<1>10. CASE Reconcile
  BY <1>4, <1>5, <1>7, <1>10 DEF Reconcile, CompleteActivity
<1>11. CASE Sweep \/ Crash \/ Start
  BY <1>11 DEF Sweep, SweepLists, SweepLooks, Crash, Start
<1> QED BY <1>8, <1>9, <1>10, <1>11 DEF Next, Call

\* The retention sweep never removes the record of a child that a running
\* parent waits for, whatever happens between its listing, its look at the
\* parent and the purge (RunHousekeeping, PurgeInstance).
THEOREM PurgesAreSafe == Spec => PurgeSafe
<1> DEFINE Safe == \A i, j \in Ids : Awaits(i, j) /\ inst[j].st \in Ended => inst'[j].st # "gone"
<1>1. ASSUME CallsInv, Next PROVE Safe
  <2> SUFFICES ASSUME NEW i \in Ids, NEW j \in Ids, Awaits(i, j), inst[j].st \in Ended
               PROVE  inst'[j].st # "gone"
    OBVIOUS
  <2>1. inst \in [Ids -> Instance] /\ inst[j].st # "gone"
    BY <1>1 DEF CallsInv, BaseInv, ShapeInv, Ended
  <2>2. CASE PurgeInstance
    <3>1. sweep.purge # 0 /\ inst' = [inst EXCEPT ![sweep.purge] = [NotStored EXCEPT !.st = "gone"]]
      BY <2>2 DEF PurgeInstance
    <3>2. j # sweep.purge
      BY <1>1, <3>1 DEF CallsInv, BaseInv, SweepInv
    <3> QED BY <2>1, <3>1, <3>2
  <2>3. CASE ~PurgeInstance
    BY <1>1, <2>1, <2>3, OnlySweepPurges DEF CallsInv
  <2> QED BY <2>2, <2>3
<1>2. CallsInv /\ [Next]_vars => [Safe]_vars
  BY <1>1
<1> QED BY <1>2, CallsAreAccounted, PTL DEF Spec, PurgeSafe
===============================================================================
