---------------------------- MODULE JournalProofs ----------------------------
(***************************************************************************)
(* Proofs about Journal: type correctness, durability of acknowledged      *)
(* records, completeness of the recovered history stream, and that Journal *)
(* implements DurableStore, for every number of writers, keys, values,     *)
(* events and compactions.                                                 *)
(***************************************************************************)
EXTENDS Journal, TLAPS, FiniteSetTheorems, WellFoundedInduction

\* A nonempty set of line numbers has a last one.
LEMMA LastExists ==
    ASSUME NEW N \in Nat, NEW S \in SUBSET (1..N), S # {}
    PROVE  \E i \in S : \A j \in S : j <= i
<1> DEFINE T == {m \in Nat : N - m \in S}
           R == OpToRel(<, Nat)
<1>1. T \subseteq Nat
  OBVIOUS
<1>2. T # {}
  <2>1. PICK i \in S : TRUE
    OBVIOUS
  <2>2. i \in 1..N /\ N - (N - i) = i /\ N - i \in Nat
    BY <2>1
  <2> QED BY <2>1, <2>2
<1>3. IsWellFoundedOn(R, Nat)
  BY NatLessThanWellFounded
<1>4. PICK x \in T : \A y \in T : ~ (<<y, x>> \in R)
  <2> HIDE DEF T, R
  <2> QED BY <1>1, <1>2, <1>3, WFMin
<1>5. \A y \in Nat : y < x => <<y, x>> \in R
  BY <1>1, <1>4 DEF OpToRel
<1>6. \A y \in T : x <= y
  <2> HIDE DEF T, R
  <2> SUFFICES ASSUME NEW y \in T, ~(x <= y) PROVE FALSE
    OBVIOUS
  <2>1. x \in Nat /\ y \in Nat
    BY <1>1
  <2>2. y < x
    BY <2>1
  <2> QED BY <1>4, <1>5, <2>1, <2>2
<1>7. \A j \in S : j <= N - x
  <2> HIDE DEF R
  <2> SUFFICES ASSUME NEW j \in S PROVE j <= N - x
    OBVIOUS
  <2>1. j \in 1..N /\ N - j \in Nat /\ N - (N - j) = j
    OBVIOUS
  <2>2. N - j \in T
    BY <2>1
  <2>3. x <= N - j
    BY <1>6, <2>2
  <2> QED BY <2>1, <2>3, <1>1
<1> QED BY <1>4, <1>7

------------------------------------------------------------------------------
\* Recovery yields a well-typed image.

\* A line replay applies is a journal entry.
LEMMA ValidLineTyped ==
    ASSUME TypeOK, NEW i \in ValidLines
    PROVE  i \in 1..Len(log) /\ log[i] \in Entry
<1>1. i \in DOMAIN log /\ \A j \in 1..i : log[j] # Corrupt
  BY DEF ValidLines
<1>2. log \in Seq(Entry \cup {Corrupt})
  BY DEF TypeOK
<1>3. i \in 1..Len(log)
  BY <1>1, <1>2
<1>4. log[i] # Corrupt
  BY <1>1, <1>3
<1>5. log[i] \in Entry \cup {Corrupt}
  BY <1>2, <1>3
<1> QED BY <1>3, <1>4, <1>5

\* Whatever snapshot and lines load meets, it leaves some value under every key.
LEMMA RecoversSome ==
    ASSUME TypeOK, NEW k \in Keys
    PROVE  \E v \in Values \cup {None} : Recovers(k, v)
<1>1. CASE Touching(k) = {}
  <2>1. snap.mem[k] \in Values \cup {None}
    BY DEF TypeOK, Image
  <2> QED BY <1>1, <2>1 DEF Recovers
<1>2. CASE Touching(k) # {}
  <2>1. Touching(k) \in SUBSET (1..Len(log)) /\ Len(log) \in Nat
    BY ValidLineTyped DEF Touching, TypeOK
  <2>2. PICK i \in Touching(k) : \A j \in Touching(k) : j <= i
    BY <1>2, <2>1, LastExists
  <2>3. log[i].val \in Values \cup {None}
    BY <2>2, ValidLineTyped DEF Touching, Entry
  <2> QED BY <2>2, <2>3 DEF Recovers
<1> QED BY <1>1, <1>2

\* What OpenJournal puts in memory under a key is a value or nothing.
LEMMA RecoveredTyped ==
    ASSUME TypeOK, NEW k \in Keys
    PROVE  Recovered(k) \in Values \cup {None} /\ Recovers(k, Recovered(k))
BY RecoversSome DEF Recovered

\* The replayed stream holds each event a natural number of times.
LEMMA RecoveredHistTyped ==
    ASSUME TypeOK, NEW s \in Seqs
    PROVE  RecoveredHist(s) \in Nat
<1> DEFINE purges == {i \in ValidLines : log[i].op = "purge"}
           kept == {i \in Touching(s) : log[i].op = "hist"
                                        /\ \A j \in purges : j < i}
<1>1. IsFiniteSet(1..Len(log))
  <2>1. Len(log) \in Int
    BY DEF TypeOK
  <2> QED BY <2>1, FS_Interval
<1>2. kept \in SUBSET (1..Len(log))
  BY ValidLineTyped DEF Touching
<1>3. Cardinality(kept) \in Nat
  <2> HIDE DEF kept
  <2> QED BY <1>1, <1>2, FS_Subset, FS_CardinalityType
<1>4. snap.hist[s] \in Nat
  BY DEF TypeOK, Image
<1>5. (IF purges = {} THEN snap.hist[s] ELSE 0) \in Nat
  BY <1>4
<1>6. RecoveredHist(s) = (IF purges = {} THEN snap.hist[s] ELSE 0)
                         + Cardinality(kept)
  BY DEF RecoveredHist
<1> HIDE DEF purges, kept
<1> QED BY <1>3, <1>5, <1>6

\* load applies finitely many lines: j.n after it is a number.
LEMMA ValidLinesCount ==
    ASSUME TypeOK
    PROVE  Cardinality(ValidLines) \in Nat
<1>1. IsFiniteSet(1..Len(log))
  <2>1. Len(log) \in Int
    BY DEF TypeOK
  <2> QED BY <2>1, FS_Interval
<1>2. ValidLines \in SUBSET (1..Len(log))
  BY ValidLineTyped
<1> QED BY <1>1, <1>2, FS_Subset, FS_CardinalityType

------------------------------------------------------------------------------
\* load's loop, and what it amounts to.

\* A nonempty set of numbers has a least one.
LEMMA LeastExists ==
    ASSUME NEW S \in SUBSET Nat, S # {}
    PROVE  \E i \in S : \A j \in S : i <= j
<1> DEFINE R == OpToRel(<, Nat)
<1>1. IsWellFoundedOn(R, Nat)
  BY NatLessThanWellFounded
<1>2. PICK x \in S : \A y \in S : ~ (<<y, x>> \in R)
  <2> HIDE DEF R
  <2> QED BY <1>1, WFMin
<1>3. \A y \in Nat : y < x => <<y, x>> \in R
  BY <1>2 DEF OpToRel
<1>4. \A y \in S : x <= y
  <2> HIDE DEF R
  <2> SUFFICES ASSUME NEW y \in S, ~(x <= y) PROVE FALSE
    OBVIOUS
  <2>1. y < x /\ y \in Nat
    OBVIOUS
  <2> QED BY <1>2, <1>3, <2>1
<1> QED BY <1>2, <1>4

\* What load carries from line to line, and what it starts from.
Progress == [img : Image, n : Nat, stopped : BOOLEAN]
Start == [img |-> snap, n |-> 0, stopped |-> FALSE]

\* f follows load over the first m lines.
Scan(f, m) == f[0] = Start /\ \A i \in 1..m : f[i] = LoadLine(f[i - 1], log[i])

\* What one turn of the loop does.
LEMMA LoadLineDoes ==
    ASSUME NEW acc \in Progress, NEW e \in Entry \cup {Corrupt}
    PROVE  /\ LoadLine(acc, e) \in Progress
           /\ acc.stopped \/ e = Corrupt =>
                 LoadLine(acc, e) = [acc EXCEPT !.stopped = TRUE]
           /\ ~(acc.stopped \/ e = Corrupt) =>
                 /\ ~LoadLine(acc, e).stopped
                 /\ LoadLine(acc, e).n = acc.n + 1
                 /\ \A k \in Keys : LoadLine(acc, e).img.mem[k]
                       = IF k \in e.keys THEN e.val ELSE acc.img.mem[k]
                 /\ \A s \in Seqs : LoadLine(acc, e).img.hist[s]
                       = IF e.op = "purge" THEN 0
                         ELSE IF e.op = "hist" /\ s \in e.keys THEN acc.img.hist[s] + 1
                         ELSE acc.img.hist[s]
<1>1. CASE acc.stopped \/ e = Corrupt
  BY <1>1 DEF LoadLine, Progress
<1>2. CASE ~(acc.stopped \/ e = Corrupt)
  <2> DEFINE img == Apply(acc.img, e)
  <2>1. /\ e \in Entry /\ acc.img \in Image /\ acc.n \in Nat
        /\ acc.img.mem \in [Keys -> Values \cup {None}] /\ acc.img.hist \in [Seqs -> Nat]
    BY <1>2 DEF Progress, Image
  <2>2. e.val \in Values \cup {None}
    BY <2>1 DEF Entry
  <2>3. /\ img.mem = [k \in Keys |-> IF k \in e.keys THEN e.val ELSE acc.img.mem[k]]
        /\ img.hist = [s \in Seqs |-> IF e.op = "purge" THEN 0
                         ELSE IF e.op = "hist" /\ s \in e.keys THEN acc.img.hist[s] + 1
                         ELSE acc.img.hist[s]]
        /\ img = [mem |-> img.mem, hist |-> img.hist]
    BY DEF Apply
  <2>4. img.mem \in [Keys -> Values \cup {None}]
    <3> HIDE DEF img
    <3> QED BY <2>1, <2>2, <2>3
  <2>5. img.hist \in [Seqs -> Nat]
    <3> HIDE DEF img
    <3>1. \A s \in Seqs : acc.img.hist[s] \in Nat /\ acc.img.hist[s] + 1 \in Nat
      BY <2>1
    <3> QED BY <2>3, <3>1
  <2>6. img \in Image
    <3> HIDE DEF img
    <3> QED BY <2>3, <2>4, <2>5 DEF Image
  <2>7. LoadLine(acc, e) = [acc EXCEPT !.img = img, !.n = acc.n + 1]
    BY <1>2, <2>1 DEF LoadLine, Progress
  <2> HIDE DEF img
  <2>8. /\ LoadLine(acc, e) \in Progress /\ LoadLine(acc, e).img = img
        /\ LoadLine(acc, e).n = acc.n + 1 /\ LoadLine(acc, e).stopped = acc.stopped
    <3>1. acc.n + 1 \in Nat /\ acc.stopped \in BOOLEAN
      BY <2>1 DEF Progress
    <3>2. LoadLine(acc, e) = [img |-> img, n |-> acc.n + 1, stopped |-> acc.stopped]
      BY <2>7 DEF Progress
    <3> QED BY <2>6, <3>1, <3>2 DEF Progress
  <2>9. /\ \A k \in Keys : img.mem[k] = IF k \in e.keys THEN e.val ELSE acc.img.mem[k]
        /\ \A s \in Seqs : img.hist[s] = IF e.op = "purge" THEN 0
                         ELSE IF e.op = "hist" /\ s \in e.keys THEN acc.img.hist[s] + 1
                         ELSE acc.img.hist[s]
    BY <2>3
  <2> QED BY <1>2, <2>8, <2>9
<1> QED BY <1>1, <1>2

\* load gets through every file.
LEMMA ScanExists ==
    ASSUME TypeOK
    PROVE  \A m \in 0..Len(log) : \E f \in [0..m -> Progress] : Scan(f, m)
<1> DEFINE Good(m) == \E f \in [0..m -> Progress] : Scan(f, m)
           Bad == {m \in 0..Len(log) : ~Good(m)}
<1> SUFFICES ASSUME Bad # {} PROVE FALSE
  OBVIOUS
<1>1. log \in Seq(Entry \cup {Corrupt}) /\ Start \in Progress
  BY DEF TypeOK, Start, Progress
<1>2. PICK m \in Bad : \A j \in Bad : m <= j
  <2>1. Bad \in SUBSET Nat
    BY <1>1
  <2> HIDE DEF Bad
  <2> QED BY <2>1, LeastExists
<1>3. m \in 0..Len(log) /\ Len(log) \in Nat
  BY <1>1, <1>2
<1>4. CASE m = 0
  <2> DEFINE f == [i \in 0..0 |-> Start]
  <2>1. f \in [0..0 -> Progress] /\ f[0] = Start /\ 1..0 = {}
    BY <1>1
  <2> HIDE DEF f
  <2>2. Scan(f, 0)
    BY <2>1 DEF Scan
  <2> QED BY <1>2, <1>4, <2>1, <2>2
<1>5. CASE m # 0
  <2>1. m - 1 \in 0..Len(log) /\ ~(m <= m - 1)
    BY <1>3, <1>5
  <2>2. PICK g \in [0..(m - 1) -> Progress] : Scan(g, m - 1)
    BY <1>2, <2>1
  <2> DEFINE f == [i \in 0..m |-> IF i = m THEN LoadLine(g[m - 1], log[m]) ELSE g[i]]
  <2>3. log[m] \in Entry \cup {Corrupt} /\ g[m - 1] \in Progress
    BY <1>1, <1>3, <1>5, <2>1
  <2>4. LoadLine(g[m - 1], log[m]) \in Progress
    BY <2>3, LoadLineDoes
  <2>5. f \in [0..m -> Progress]
    BY <1>3, <2>4
  <2>6. f[m] = LoadLine(g[m - 1], log[m]) /\ \A i \in 0..(m - 1) : f[i] = g[i]
    BY <1>3, <1>5
  <2> HIDE DEF f
  <2>7. f[0] = Start
    BY <1>3, <1>5, <2>2, <2>6 DEF Scan
  <2>8. ASSUME NEW i \in 1..m PROVE f[i] = LoadLine(f[i - 1], log[i])
    <3>1. CASE i = m
      BY <1>3, <1>5, <2>6, <3>1
    <3>2. CASE i # m
      <4>1. i \in 1..(m - 1) /\ i \in 0..(m - 1) /\ i - 1 \in 0..(m - 1)
        BY <1>3, <3>2
      <4> QED BY <2>2, <2>6, <4>1 DEF Scan
    <3> QED BY <3>1, <3>2
  <2>9. Scan(f, m)
    BY <2>7, <2>8 DEF Scan
  <2> QED BY <1>2, <2>5, <2>9
<1> QED BY <1>4, <1>5

\* Load is where the scan ends.
LEMMA LoadIs ==
    ASSUME TypeOK
    PROVE  \E f \in [0..Len(log) -> Progress] : Scan(f, Len(log)) /\ Load = f[Len(log)]
<1> DEFINE N == Len(log)
           F(f) == [i \in 0..N |-> IF i = 0 THEN Start ELSE LoadLine(f[i - 1], log[i])]
<1>1. N \in Nat /\ 0 \in 0..N /\ N \in 0..N
  BY DEF TypeOK
<1>2. PICK f \in [0..N -> Progress] : Scan(f, N)
  BY <1>1, ScanExists
<1>3. f = F(f)
  BY <1>1, <1>2 DEF Scan
<1>4. Load = (CHOOSE g : g = F(g))[N]
  BY DEF Load, Start
<1>5. PICK g : Load = g[N] /\ g = F(g)
  BY <1>3, <1>4
<1>6. Scan(g, N)
  <2>1. g[0] = Start
    BY <1>1, <1>5
  <2>2. \A i \in 1..N : g[i] = LoadLine(g[i - 1], log[i])
    BY <1>1, <1>5
  <2> QED BY <2>1, <2>2 DEF Scan
<1> DEFINE Bad == {i \in 0..N : f[i] # g[i]}
<1>7. Bad = {}
  <2> SUFFICES ASSUME Bad # {} PROVE FALSE
    OBVIOUS
  <2>1. PICK m \in Bad : \A j \in Bad : m <= j
    <3>1. Bad \in SUBSET Nat
      BY <1>1
    <3> HIDE DEF Bad
    <3> QED BY <3>1, LeastExists
  <2>2. m # 0
    BY <1>2, <1>6, <2>1 DEF Scan
  <2>3. m \in 1..N /\ m - 1 \in 0..N /\ ~(m <= m - 1)
    BY <1>1, <2>1, <2>2
  <2>4. f[m - 1] = g[m - 1]
    BY <2>1, <2>3
  <2> QED BY <1>2, <1>6, <2>1, <2>3, <2>4 DEF Scan
<1>8. g[N] = f[N]
  BY <1>1, <1>7
<1> QED BY <1>2, <1>5, <1>8

\* The closed form, over the first m lines.
ValidTo(m) == {i \in 1..m : \A j \in 1..i : log[j] # Corrupt}
PurgesTo(m) == {i \in ValidTo(m) : log[i].op = "purge"}
KeptTo(m, s) == {i \in ValidTo(m) : /\ s \in log[i].keys /\ log[i].op = "hist"
                                    /\ \A j \in PurgesTo(m) : j < i}

LeavesRecord(acc, m, k) ==
    \/ acc.img.mem[k] = snap.mem[k] /\ \A i \in ValidTo(m) : k \notin log[i].keys
    \/ \E i \in ValidTo(m) : /\ k \in log[i].keys /\ acc.img.mem[k] = log[i].val
                             /\ \A j \in ValidTo(m) : k \in log[j].keys => j <= i

LeavesEvent(acc, m, s) ==
    acc.img.hist[s] = (IF PurgesTo(m) = {} THEN snap.hist[s] ELSE 0)
                      + Cardinality(KeptTo(m, s))

LoadedTo(acc, m) ==
    /\ acc.stopped <=> \E i \in 1..m : log[i] = Corrupt
    /\ acc.n = Cardinality(ValidTo(m))
    /\ \A k \in Keys : LeavesRecord(acc, m, k)
    /\ \A s \in Seqs : LeavesEvent(acc, m, s)

\* The sets of line numbers are finite.
LEMMA LinesFinite ==
    ASSUME NEW m \in Nat
    PROVE  /\ IsFiniteSet(ValidTo(m)) /\ ValidTo(m) \subseteq 1..m
           /\ \A s : IsFiniteSet(KeptTo(m, s))
<1>1. IsFiniteSet(1..m)
  BY FS_Interval
<1>2. ValidTo(m) \subseteq 1..m
  BY DEF ValidTo
<1>3. IsFiniteSet(ValidTo(m))
  BY <1>1, <1>2, FS_Subset
<1>4. \A s : KeptTo(m, s) \subseteq ValidTo(m)
  BY DEF KeptTo
<1> QED BY <1>2, <1>3, <1>4, FS_Subset

\* Beyond the first damaged line nothing counts.
LEMMA LoadStops ==
    ASSUME TypeOK, NEW m \in 1..Len(log), NEW acc \in Progress, LoadedTo(acc, m - 1),
           acc.stopped \/ log[m] = Corrupt
    PROVE  LoadedTo(LoadLine(acc, log[m]), m)
<1>1. m - 1 \in Nat /\ m \in Nat /\ Len(log) \in Nat /\ log[m] \in Entry \cup {Corrupt}
  BY DEF TypeOK
<1>2. LoadLine(acc, log[m]) = [acc EXCEPT !.stopped = TRUE]
  BY <1>1, LoadLineDoes
<1>3. PICK c \in 1..m : log[c] = Corrupt
  BY <1>1 DEF LoadedTo
<1>4. ValidTo(m) = ValidTo(m - 1)
  <2>1. m \notin ValidTo(m)
    BY <1>1, <1>3 DEF ValidTo
  <2>2. \A i \in 1..m : i # m => i \in 1..(m - 1)
    BY <1>1
  <2>3. \A i \in 1..(m - 1) : i \in 1..m
    BY <1>1
  <2> QED BY <2>1, <2>2, <2>3 DEF ValidTo
<1>5. PurgesTo(m) = PurgesTo(m - 1) /\ \A s : KeptTo(m, s) = KeptTo(m - 1, s)
  BY <1>4 DEF PurgesTo, KeptTo
<1>6. /\ LoadLine(acc, log[m]).img = acc.img /\ LoadLine(acc, log[m]).n = acc.n
      /\ LoadLine(acc, log[m]).stopped = TRUE
  BY <1>2 DEF Progress
<1> QED BY <1>3, <1>4, <1>5, <1>6 DEF LoadedTo, LeavesRecord, LeavesEvent

\* A line that parses, with none damaged before it, counts.
LEMMA LoadApplies ==
    ASSUME TypeOK, NEW m \in 1..Len(log), NEW acc \in Progress, LoadedTo(acc, m - 1),
           ~(acc.stopped \/ log[m] = Corrupt)
    PROVE  LoadedTo(LoadLine(acc, log[m]), m)
<1> DEFINE e == log[m]
           new == LoadLine(acc, e)
           V == ValidTo(m - 1)
           W == ValidTo(m)
<1>1. /\ m - 1 \in Nat /\ m \in Nat /\ Len(log) \in Nat
      /\ e \in Entry \cup {Corrupt} /\ e \in Entry
  BY DEF TypeOK
<1>2. /\ ~new.stopped /\ new.n = acc.n + 1 /\ new \in Progress
      /\ \A k \in Keys : new.img.mem[k] = IF k \in e.keys THEN e.val ELSE acc.img.mem[k]
      /\ \A s \in Seqs : new.img.hist[s]
            = IF e.op = "purge" THEN 0
              ELSE IF e.op = "hist" /\ s \in e.keys THEN acc.img.hist[s] + 1
              ELSE acc.img.hist[s]
  BY <1>1, LoadLineDoes
<1>3. \A i \in 1..m : log[i] # Corrupt
  BY <1>1 DEF LoadedTo
<1>4. W = V \cup {m} /\ m \notin V /\ \A i \in V : i < m
  <2>1. \A i \in 1..m : \A j \in 1..i : j \in 1..m
    BY <1>1
  <2>2. W = 1..m
    BY <1>3, <2>1 DEF ValidTo
  <2>3. \A i \in 1..(m - 1) : \A j \in 1..i : j \in 1..m
    BY <1>1
  <2>4. V = 1..(m - 1)
    BY <1>3, <2>3 DEF ValidTo
  <2> QED BY <1>1, <2>2, <2>4
<1>5. IsFiniteSet(V) /\ \A s : IsFiniteSet(KeptTo(m - 1, s))
  BY <1>1, LinesFinite
<1> HIDE DEF new, V, W
<1>6. new.n = Cardinality(W)
  <2>1. Cardinality(W) = Cardinality(V) + 1
    BY <1>4, <1>5, FS_AddElement
  <2> QED BY <1>2, <2>1 DEF LoadedTo, V
<1>7. ASSUME NEW k \in Keys
      PROVE  LeavesRecord(new, m, k)
  <2>1. LeavesRecord(acc, m - 1, k)
    BY DEF LoadedTo
  <2>2. CASE k \in e.keys
    <3>1. m \in W /\ new.img.mem[k] = e.val /\ \A j \in W : j <= m
      BY <1>1, <1>2, <1>4, <2>2, LinesFinite DEF W
    <3> QED BY <2>2, <3>1 DEF LeavesRecord, W
  <2>3. CASE k \notin e.keys
    <3>1. new.img.mem[k] = acc.img.mem[k]
      BY <1>2, <2>3
    <3>2. \A i \in W : k \in log[i].keys => i \in V
      BY <1>4, <2>3
    <3>3. V \subseteq W
      BY <1>4
    <3> QED BY <2>1, <3>1, <3>2, <3>3 DEF LeavesRecord, V, W
  <2> QED BY <2>2, <2>3
<1>8. ASSUME NEW s \in Seqs
      PROVE  LeavesEvent(new, m, s)
  <2> DEFINE A == KeptTo(m - 1, s)
             B == KeptTo(m, s)
             base == IF PurgesTo(m - 1) = {} THEN snap.hist[s] ELSE 0
  <2>1. acc.img.hist[s] = base + Cardinality(A)
    BY DEF LoadedTo, LeavesEvent
  <2>2. Cardinality(A) \in Nat /\ base \in Nat
    <3>1. snap.hist[s] \in Nat
      BY DEF TypeOK, Image
    <3> QED BY <1>5, <3>1, FS_CardinalityType
  <2>3. CASE e.op = "purge"
    <3>1. m \in PurgesTo(m)
      BY <1>4, <2>3 DEF PurgesTo, W
    <3>2. B = {}
      <4>1. \A i \in W : ~(m < i)
        BY <1>1, LinesFinite DEF W
      <4> QED BY <3>1, <4>1 DEF KeptTo, W
    <3>3. Cardinality(B) = 0
      BY <3>2, FS_EmptySet
    <3> QED BY <1>2, <2>3, <3>1, <3>3 DEF LeavesEvent
  <2>4. ASSUME e.op # "purge"
        PROVE  PurgesTo(m) = PurgesTo(m - 1)
    BY <1>4, <2>4 DEF PurgesTo, V, W
  <2>5. CASE e.op = "hist" /\ s \in e.keys
    <3>1. PurgesTo(m) = PurgesTo(m - 1)
      BY <2>4, <2>5
    <3>2. \A j \in PurgesTo(m - 1) : j < m
      BY <1>4 DEF PurgesTo, V
    <3>3. B = A \cup {m} /\ m \notin A
      <4>1. m \in B
        BY <1>4, <2>5, <3>1, <3>2 DEF KeptTo, W
      <4>2. A \subseteq B
        BY <1>4, <3>1 DEF KeptTo, V, W
      <4>3. B \subseteq A \cup {m}
        BY <1>4, <3>1 DEF KeptTo, V, W
      <4>4. m \notin A
        BY <1>4 DEF KeptTo, V
      <4> QED BY <4>1, <4>2, <4>3, <4>4
    <3>4. Cardinality(B) = Cardinality(A) + 1
      BY <1>5, <3>3, FS_AddElement
    <3>5. new.img.hist[s] = acc.img.hist[s] + 1
      BY <1>2, <2>5
    <3>6. new.img.hist[s] = base + Cardinality(B)
      <4> HIDE DEF base, A, B
      <4> QED BY <2>1, <2>2, <3>4, <3>5
    <3> QED BY <3>1, <3>6 DEF LeavesEvent
  <2>6. CASE e.op # "purge" /\ ~(e.op = "hist" /\ s \in e.keys)
    <3>1. PurgesTo(m) = PurgesTo(m - 1)
      BY <2>4, <2>6
    <3>2. B = A
      BY <1>4, <2>6, <3>1 DEF KeptTo, V, W
    <3>3. new.img.hist[s] = acc.img.hist[s]
      BY <1>2, <2>6
    <3> QED BY <2>1, <3>1, <3>2, <3>3 DEF LeavesEvent
  <2> QED BY <2>3, <2>5, <2>6
<1>9. LoadedTo(new, m)
  BY <1>2, <1>3, <1>6, <1>7, <1>8 DEF LoadedTo, W
<1> QED BY <1>9 DEF new

\* The loop has read the file.
LEMMA LoadReads ==
    ASSUME TypeOK
    PROVE  LoadedTo(Load, Len(log)) /\ Load \in Progress
<1> DEFINE N == Len(log)
<1>1. PICK f \in [0..N -> Progress] : Scan(f, N) /\ Load = f[N]
  BY LoadIs
<1>2. N \in Nat /\ log \in Seq(Entry \cup {Corrupt})
  BY DEF TypeOK
<1> DEFINE Bad == {i \in 0..N : ~LoadedTo(f[i], i)}
<1>3. Bad = {}
  <2> SUFFICES ASSUME Bad # {} PROVE FALSE
    OBVIOUS
  <2>1. PICK m \in Bad : \A j \in Bad : m <= j
    <3>1. Bad \in SUBSET Nat
      BY <1>2
    <3> HIDE DEF Bad
    <3> QED BY <3>1, LeastExists
  <2>2. CASE m = 0
    <3>1. 1..0 = {} /\ ValidTo(0) = {} /\ PurgesTo(0) = {} /\ \A s : KeptTo(0, s) = {}
      BY DEF ValidTo, PurgesTo, KeptTo
    <3>2. f[0] = Start /\ Start.img = snap /\ Start.n = 0 /\ Start.stopped = FALSE
      BY <1>1 DEF Scan, Start
    <3>3. Cardinality({}) = 0
      BY FS_EmptySet
    <3>4. \A s \in Seqs : snap.hist[s] = snap.hist[s] + 0
      BY DEF TypeOK, Image
    <3>5. \A s \in Seqs : LeavesEvent(f[0], 0, s)
      BY <3>1, <3>2, <3>3, <3>4 DEF LeavesEvent
    <3>6. \A k \in Keys : LeavesRecord(f[0], 0, k)
      BY <3>1, <3>2 DEF LeavesRecord
    <3>7. LoadedTo(f[0], 0)
      BY <3>1, <3>2, <3>3, <3>5, <3>6 DEF LoadedTo
    <3> QED BY <2>1, <2>2, <3>7
  <2>3. CASE m # 0
    <3>1. m \in 1..N /\ m - 1 \in 0..N /\ ~(m <= m - 1)
      BY <1>2, <2>1, <2>3
    <3>2. LoadedTo(f[m - 1], m - 1) /\ f[m - 1] \in Progress
      BY <2>1, <3>1
    <3>3. LoadedTo(LoadLine(f[m - 1], log[m]), m)
      BY <3>1, <3>2, LoadStops, LoadApplies
    <3> QED BY <1>1, <2>1, <3>1, <3>3 DEF Scan
  <2> QED BY <2>2, <2>3
<1> QED BY <1>1, <1>2, <1>3

\* The closed form of load is what its loop computes, for every file.
LEMMA LoadMeans ==
    ASSUME TypeOK
    PROVE  ReplayIsLastLine
<1>1. LoadedTo(Load, Len(log)) /\ Load \in Progress
  BY LoadReads
<1>2. DOMAIN log = 1..Len(log) /\ Len(log) \in Nat
  BY DEF TypeOK
<1>3. ValidTo(Len(log)) = ValidLines
  BY <1>2 DEF ValidTo, ValidLines
<1>4. Load.n = Cardinality(ValidLines)
  BY <1>1, <1>3 DEF LoadedTo
<1>5. ASSUME NEW k \in Keys
      PROVE  Load.img.mem[k] = Recovered(k)
  <2>1. Load.img.mem[k] \in Values \cup {None}
    BY <1>1 DEF Progress, Image
  <2>2. Recovers(k, Load.img.mem[k])
    <3>1. LeavesRecord(Load, Len(log), k)
      BY <1>1 DEF LoadedTo
    <3> QED BY <1>3, <3>1 DEF LeavesRecord, Recovers, Touching
  <2>3. Recovers(k, Recovered(k))
    BY RecoveredTyped
  <2>4. \A i \in Touching(k) : i \in Nat
    BY <1>2 DEF Touching, ValidLines
  <2>5. \A i, j \in Nat : i <= j /\ j <= i => i = j
    OBVIOUS
  <2> QED BY <2>2, <2>3, <2>4, <2>5 DEF Recovers
<1>6. ASSUME NEW s \in Seqs
      PROVE  Load.img.hist[s] = RecoveredHist(s)
  <2>1. LeavesEvent(Load, Len(log), s)
    BY <1>1 DEF LoadedTo
  <2>2. {i \in ValidLines : log[i].op = "purge"} = PurgesTo(Len(log))
    BY <1>3 DEF PurgesTo
  <2>3. {i \in Touching(s) : log[i].op = "hist" /\ \A j \in PurgesTo(Len(log)) : j < i}
          = KeptTo(Len(log), s)
    BY <1>3 DEF KeptTo, Touching
  <2> QED BY <2>1, <2>2, <2>3 DEF LeavesEvent, RecoveredHist
<1> QED BY <1>4, <1>5, <1>6 DEF ReplayIsLastLine

\* OpenJournal, in the closed form.
LEMMA OpenLoads ==
    ASSUME TypeOK, Open
    PROVE  /\ mem' = [k \in Keys |-> Recovered(k)]
           /\ hist' = [s \in Seqs |-> RecoveredHist(s)]
           /\ n' = Cardinality(ValidLines)
<1>1. Load \in Progress /\ ReplayIsLastLine
  BY LoadReads, LoadMeans
<1>2. Load.img.mem \in [Keys -> Values \cup {None}] /\ Load.img.hist \in [Seqs -> Nat]
  BY <1>1 DEF Progress, Image
<1>3. Load.img.mem = [k \in Keys |-> Recovered(k)]
  BY <1>1, <1>2 DEF ReplayIsLastLine
<1>4. Load.img.hist = [s \in Seqs |-> RecoveredHist(s)]
  BY <1>1, <1>2 DEF ReplayIsLastLine
<1> QED BY <1>1, <1>3, <1>4 DEF Open, ReplayIsLastLine

------------------------------------------------------------------------------
\* Type correctness.

\* append's write leaves a well-typed file, glued lines included.
LEMMA WriteTyped ==
    ASSUME TypeOK, open => log # <<>>,
           NEW e \in Entry \cup {Corrupt}, NEW cut \in BOOLEAN, Write(e, cut)
    PROVE  log' \in Seq(Entry \cup {Corrupt}) /\ open' \in BOOLEAN
           /\ glued' \in BOOLEAN
<1>1. open' \in BOOLEAN /\ glued' \in BOOLEAN
  BY DEF Write, TypeOK
<1>2. CASE open
  <2>1. Len(log) \in 1..Len(log)
    BY <1>2 DEF TypeOK
  <2>2. log' = [log EXCEPT ![Len(log)] = Corrupt]
    BY <1>2 DEF Write
  <2> QED BY <1>1, <2>1, <2>2 DEF TypeOK
<1>3. CASE ~open
  BY <1>1, <1>3 DEF Write, TypeOK
<1> QED BY <1>2, <1>3

\* An operation that returns an error leaves well-typed debts.
LEMMA GiveUpTyped ==
    ASSUME TypeOK, NEW p \in Procs, GiveUp(p, pending[p])
    PROVE  /\ pending' \in [Procs -> SUBSET Entry]
           /\ unsaved' \subseteq Keys \cup Seqs
<1>1. pending[p] \subseteq Entry
  BY DEF TypeOK
<1>2. UNION {e.keys : e \in pending[p]} \subseteq Keys \cup Seqs
  BY <1>1 DEF Entry
<1>3. pending' \in [Procs -> SUBSET Entry]
  BY DEF TypeOK, GiveUp
<1> QED BY <1>2, <1>3 DEF TypeOK, GiveUp

\* The empty store is an image a snapshot may hold.
LEMMA BlankTyped == Blank \in Image
BY DEF Blank, Image

\* The death of the process leaves a well-typed state.
LEMMA DieTyped ==
    ASSUME TypeOK, Die
    PROVE  /\ up' \in BOOLEAN
           /\ mem' \in [Keys -> Values \cup {None}]
           /\ hist' \in [Seqs -> Nat]
           /\ pending' \in [Procs -> SUBSET Entry]
           /\ compactor' \in Procs \cup {NoProc}
           /\ stage' \in {"idle", "snapshot", "rename", "truncate"}
           /\ tmp' \in Image
           /\ snap' \in Image
           /\ n' \in Nat
           /\ writer' \in {"ok", "failed", "closed"}
           /\ unsaved' \subseteq Keys \cup Seqs
           /\ faults' \in 0..MaxCrashes
<1>1. /\ mem' \in [Keys -> Values \cup {None}]
      /\ hist' \in [Seqs -> Nat]
      /\ tmp' \in Image
  BY DEF Die, Blank, Image
<1>2. faults' \in 0..MaxCrashes /\ n' \in Nat
  BY JournalAssumption DEF Die, TypeOK
<1>3. /\ up' \in BOOLEAN
      /\ pending' \in [Procs -> SUBSET Entry]
      /\ compactor' \in Procs \cup {NoProc}
      /\ stage' \in {"idle", "snapshot", "rename", "truncate"}
      /\ snap' \in Image
      /\ writer' \in {"ok", "failed", "closed"}
      /\ unsaved' \subseteq Keys \cup Seqs
  BY DEF Die, TypeOK
<1> QED BY <1>1, <1>2, <1>3

\* What the file and the lock always satisfy, whatever the operations do.
Shape ==
    /\ open => log # <<>>
    /\ stage = "idle" <=> compactor = NoProc
    /\ ~up => stage = "idle" /\ \A p \in Procs : pending[p] = {}
    /\ writer = "closed" => faults > 0

\* Before the first failure append counts the lines it writes and compacts in
\* time.
LEMMA CountStep ==
    ASSUME TypeOK, Shape, [Next]_vars
    PROVE  LinesCounted'
<1> USE JournalAssumption
<1> SUFFICES ASSUME faults' = 0
             PROVE  up' /\ ~open' /\ n' = Len(log') /\ (stage' = "idle" => n' < CompactEvery)
  BY DEF LinesCounted
<1>1. ~Die
  BY DEF Die, TypeOK
<1>2. faults = 0 => up /\ ~open /\ n = Len(log) /\ (stage = "idle" => n < CompactEvery)
  BY DEF TypeOK, LinesCounted
<1>3. faults \in Nat /\ n \in Nat /\ log \in Seq(Entry \cup {Corrupt})
  BY DEF TypeOK
<1>4. ASSUME NEW p \in Procs, NEW e \in pending[p], WriteLine(p, e)
      PROVE  up' /\ ~open' /\ n' = Len(log') /\ (stage' = "idle" => n' < CompactEvery)
  <2>1. /\ up /\ ~open /\ n = Len(log) /\ up' = up /\ n' = n + 1
        /\ open' = FALSE /\ log' = Append(log, e)
    BY <1>2, <1>4 DEF WriteLine, Write
  <2>2. n + 1 >= CompactEvery => stage' = "snapshot"
    BY <1>4 DEF WriteLine
  <2> QED BY <1>3, <2>1, <2>2
<1>5. CASE TruncateJournal
  BY <1>5 DEF TruncateJournal
<1>6. CASE \E p \in Procs : Operation(p)
  <2>1. UNCHANGED <<up, stage, log, open, n, faults>>
    BY <1>6 DEF Operation, Put, Delete, Claim, Purge, AppendHistory, Mutate
  <2> QED BY <1>2, <2>1
<1>7. CASE \E p \in Procs : AppendStep(p)
  <2>1. PICK p \in Procs : AppendStep(p)
    BY <1>7
  <2>2. CASE WriteRefused(p)
    BY <1>2, <2>2 DEF WriteRefused
  <2>3. ASSUME NEW e \in pending[p], NEW cut \in BOOLEAN, WriteFails(p, e, cut) PROVE FALSE
    BY <1>3, <2>3 DEF WriteFails
  <2>4. ASSUME NEW e \in pending[p], SyncFails(p, e) PROVE FALSE
    BY <1>3, <2>4 DEF SyncFails
  <2>5. ASSUME NEW e \in pending[p], NEW whole \in BOOLEAN, TornCrash(p, e, whole) PROVE FALSE
    BY <1>1, <2>5 DEF TornCrash
  <2> QED BY <1>4, <2>1, <2>2, <2>3, <2>4, <2>5 DEF AppendStep
<1>8. CASE Compaction
  <2>1. ASSUME NEW p \in Procs, Compact(p)
        PROVE  up' /\ ~open' /\ n' = Len(log') /\ stage' # "idle"
    BY <1>2, <2>1 DEF Compact
  <2>2. CASE WriteSnapshot
    BY <1>2, <2>2 DEF WriteSnapshot
  <2>3. CASE RenameSnapshot
    BY <1>2, <2>3 DEF RenameSnapshot
  <2>4. CASE CompactFails
    <3>1. faults = 0 /\ stage = "truncate" /\ writer = "closed"
      BY <1>3, <2>4 DEF CompactFails
    <3> QED BY <3>1 DEF Shape
  <2> QED BY <1>5, <1>8, <2>1, <2>2, <2>3, <2>4 DEF Compaction
<1>9. CASE Open
  BY <1>2, <1>9 DEF Open
<1>10. CASE UNCHANGED vars
  BY <1>2, <1>10 DEF vars
<1> QED BY <1>1, <1>6, <1>7, <1>8, <1>9, <1>10 DEF Next, Crash

\* Every step of the store, of a compaction and of recovery keeps the types.
LEMMA TypeStep ==
    ASSUME TypeOK, Shape, [Next]_vars
    PROVE  TypeOK'
<1>0. LinesCounted'
  BY CountStep
<1> USE JournalAssumption, <1>0
<1>1. ASSUME NEW p \in Procs, NEW k \in Keys, NEW v \in Values, Put(p, k, v)
      PROVE  TypeOK'
  <2>1. SetTo(k, v) \in Entry
    BY DEF SetTo, Entry
  <2> QED BY <1>1, <2>1 DEF Put, Mutate, TypeOK
<1>2. ASSUME NEW p \in Procs, NEW k \in Keys, Delete(p, k)
      PROVE  TypeOK'
  <2>1. SetTo(k, None) \in Entry
    BY DEF SetTo, Entry
  <2> QED BY <1>2, <2>1 DEF Delete, Mutate, TypeOK
<1>3. ASSUME NEW p \in Procs, NEW K \in SUBSET Keys,
             NEW v \in Values \cup {None}, Claim(p, K, v)
      PROVE  TypeOK'
  <2>1. {SetTo(k, v) : k \in K} \in SUBSET Entry
    BY DEF SetTo, Entry
  <2> QED BY <1>3, <2>1 DEF Claim, Mutate, TypeOK
<1>4. ASSUME NEW p \in Procs, Purge(p)
      PROVE  TypeOK'
  <2>1. [op |-> "purge", keys |-> InstKeys \cup Seqs, val |-> None] \in Entry
    BY DEF Entry
  <2> QED BY <1>4, <2>1 DEF Purge, Mutate, TypeOK
<1>5. ASSUME NEW p \in Procs, NEW s \in Seqs, AppendHistory(p, s)
      PROVE  TypeOK'
  <2>1. [op |-> "hist", keys |-> {s}, val |-> None] \in Entry
    BY DEF Entry
  <2> QED BY <1>5, <2>1 DEF AppendHistory, Mutate, TypeOK
<1>6. ASSUME NEW p \in Procs, NEW e \in pending[p], WriteLine(p, e)
      PROVE  TypeOK'
  <2>1. e \in Entry
    BY DEF TypeOK
  <2>2. log' \in Seq(Entry \cup {Corrupt}) /\ open' \in BOOLEAN
        /\ glued' \in BOOLEAN
    BY <1>6, <2>1, WriteTyped DEF WriteLine, Shape
  <2>3. pending' \in [Procs -> SUBSET Entry]
    BY <1>6 DEF WriteLine, TypeOK
  <2>4. compactor' \in Procs \cup {NoProc}
        /\ stage' \in {"idle", "snapshot", "rename", "truncate"}
    BY <1>6 DEF WriteLine, TypeOK
  <2> QED BY <1>6, <2>2, <2>3, <2>4 DEF WriteLine, TypeOK
<1>7. ASSUME NEW p \in Procs, NEW e \in pending[p], NEW cut \in BOOLEAN,
             WriteFails(p, e, cut)
      PROVE  TypeOK'
  <2>1. log' \in Seq(Entry \cup {Corrupt}) /\ open' \in BOOLEAN
        /\ glued' \in BOOLEAN
    <3>1. CASE cut
      BY <1>7, <3>1, WriteTyped DEF WriteFails, Shape
    <3>2. CASE ~cut
      BY <1>7, <3>2 DEF WriteFails, TypeOK
    <3> QED BY <3>1, <3>2
  <2>2. pending' \in [Procs -> SUBSET Entry]
        /\ unsaved' \subseteq Keys \cup Seqs
    BY <1>7, GiveUpTyped DEF WriteFails
  <2> QED BY <1>7, <2>1, <2>2 DEF WriteFails, TypeOK
<1>8. ASSUME NEW p \in Procs, NEW e \in pending[p], SyncFails(p, e)
      PROVE  TypeOK'
  <2>1. e \in Entry
    BY DEF TypeOK
  <2>2. log' \in Seq(Entry \cup {Corrupt}) /\ open' \in BOOLEAN
        /\ glued' \in BOOLEAN
    BY <1>8, <2>1, WriteTyped DEF SyncFails, Shape
  <2>3. pending' \in [Procs -> SUBSET Entry]
        /\ unsaved' \subseteq Keys \cup Seqs
    BY <1>8, GiveUpTyped DEF SyncFails
  <2> QED BY <1>8, <2>2, <2>3 DEF SyncFails, TypeOK
<1>9. ASSUME NEW p \in Procs, WriteRefused(p)
      PROVE  TypeOK'
  <2>1. pending' \in [Procs -> SUBSET Entry]
        /\ unsaved' \subseteq Keys \cup Seqs
    BY <1>9, GiveUpTyped DEF WriteRefused
  <2> QED BY <1>9, <2>1 DEF WriteRefused, TypeOK
<1>10. ASSUME NEW p \in Procs, NEW e \in pending[p], NEW whole \in BOOLEAN,
              TornCrash(p, e, whole)
       PROVE  TypeOK'
  <2>1. (IF whole THEN e ELSE Corrupt) \in Entry \cup {Corrupt}
    BY DEF TypeOK
  <2>2. log' \in Seq(Entry \cup {Corrupt}) /\ open' \in BOOLEAN
        /\ glued' \in BOOLEAN
    BY <1>10, <2>1, WriteTyped DEF TornCrash, Shape
  <2> QED BY <1>10, <2>2, DieTyped, Zenon DEF TornCrash, TypeOK
<1>11. CASE WriteSnapshot
  BY <1>11 DEF WriteSnapshot, TypeOK, Image
<1>12. CASE RenameSnapshot
  BY <1>12, BlankTyped DEF RenameSnapshot, TypeOK
<1>13. CASE TruncateJournal
  <2>1. /\ log' \in Seq(Entry \cup {Corrupt})
        /\ n' \in Nat
        /\ compactor' \in Procs \cup {NoProc}
        /\ stage' \in {"idle", "snapshot", "rename", "truncate"}
        /\ unsaved' \subseteq Keys \cup Seqs
    BY <1>13 DEF TruncateJournal
  <2>2. open' \in BOOLEAN /\ glued' \in BOOLEAN
    BY <1>13 DEF TruncateJournal
  <2>3. UNCHANGED <<up, mem, hist, pending, tmp, snap, faults>> /\ writer' = "ok"
    BY <1>13 DEF TruncateJournal
  <2> QED BY <2>1, <2>2, <2>3 DEF TypeOK
<1>14. CASE CompactFails
  <2>1. compactor \in Procs
    BY <1>14 DEF CompactFails, Shape, TypeOK
  <2>2. pending' \in [Procs -> SUBSET Entry]
        /\ unsaved' \subseteq Keys \cup Seqs
    BY <1>14, <2>1, GiveUpTyped DEF CompactFails
  <2> QED BY <1>14, <2>2, BlankTyped DEF CompactFails, TypeOK
<1>15. CASE Crash
  BY <1>15, DieTyped, Zenon DEF Crash, TypeOK
<1>16. CASE Open
  <2>1. mem' \in [Keys -> Values \cup {None}]
    BY <1>16, OpenLoads, RecoveredTyped
  <2>2. hist' \in [Seqs -> Nat]
    BY <1>16, OpenLoads, RecoveredHistTyped
  <2>3. n' \in Nat
    BY <1>16, OpenLoads, ValidLinesCount
  <2> QED BY <1>16, <2>1, <2>2, <2>3 DEF Open, TypeOK
<1>17. ASSUME NEW p \in Procs, Compact(p)
       PROVE  TypeOK'
  BY <1>17 DEF Compact, TypeOK
<1>18. CASE UNCHANGED vars
  BY <1>18 DEF vars, TypeOK
<1> QED
  BY <1>1, <1>2, <1>3, <1>4, <1>5, <1>6, <1>7, <1>8, <1>9, <1>10, <1>11,
     <1>12, <1>13, <1>14, <1>15, <1>16, <1>17, <1>18
  DEF Next, Operation, AppendStep, Compaction

\* Every step keeps the facts about the file's end, j.mu and a dead process.
LEMMA ShapeStep ==
    ASSUME TypeOK, Shape, [Next]_vars
    PROVE  Shape'
<1> USE JournalAssumption
<1>1. ASSUME NEW p \in Procs, Operation(p)
      PROVE  Shape'
  BY <1>1 DEF Shape, Operation, Put, Delete, Claim, Purge, AppendHistory,
              Mutate, MayStart
<1>2. ASSUME NEW p \in Procs, AppendStep(p)
      PROVE  Shape'
  <2>1. ASSUME NEW e \in pending[p], WriteLine(p, e)
        PROVE  Shape'
    <3>1. compactor = NoProc /\ p # NoProc /\ stage = "idle"
      BY <2>1 DEF WriteLine, Shape
    <3>2. stage' = "idle" <=> compactor' = NoProc
      BY <2>1, <3>1 DEF WriteLine
    <3>3. ~open' /\ up' /\ writer' # "closed"
      BY <2>1 DEF WriteLine, Write
    <3> QED BY <3>2, <3>3 DEF Shape
  <2>2. ASSUME NEW e \in pending[p], NEW cut \in BOOLEAN, WriteFails(p, e, cut)
        PROVE  Shape'
    <3>1. log' # <<>> \/ UNCHANGED <<log, open>>
      BY <2>2 DEF WriteFails, Write, TypeOK, Shape
    <3> QED BY <2>2, <3>1 DEF WriteFails, Shape
  <2>3. ASSUME NEW e \in pending[p], SyncFails(p, e)
        PROVE  Shape'
    BY <2>3 DEF SyncFails, Write, Shape
  <2>4. ASSUME NEW e \in pending[p], NEW whole \in BOOLEAN,
               TornCrash(p, e, whole)
        PROVE  Shape'
    <3>1. log' # <<>>
      BY <2>4 DEF TornCrash, Write, TypeOK, Shape
    <3> QED BY <2>4, <3>1 DEF TornCrash, Die, Shape
  <2>5. CASE WriteRefused(p)
    BY <2>5 DEF WriteRefused, Shape
  <2> QED BY <1>2, <2>1, <2>2, <2>3, <2>4, <2>5 DEF AppendStep
<1>3. CASE Compaction
  <2>1. CASE CompactFails
    <3>1. faults' \in Nat /\ (writer' = "closed" => faults' > 0)
      BY <2>1 DEF CompactFails, Shape, TypeOK
    <3> QED BY <2>1, <3>1 DEF CompactFails, Shape
  <2> QED BY <1>3, <2>1 DEF Compaction, Compact, WriteSnapshot, RenameSnapshot,
              TruncateJournal, Shape
<1>4. CASE Crash
  BY <1>4 DEF Crash, Die, Shape
<1>5. CASE Open
  BY <1>5 DEF Open, Shape
<1>6. CASE UNCHANGED vars
  BY <1>6 DEF vars, Shape
<1> QED BY <1>1, <1>2, <1>3, <1>4, <1>5, <1>6 DEF Next

\* A new store is well typed.
LEMMA InitTyped == Init => TypeOK /\ Shape
<1> SUFFICES ASSUME Init PROVE TypeOK /\ Shape
  OBVIOUS
<1>1. mem \in [Keys -> Values \cup {None}] /\ hist \in [Seqs -> Nat]
      /\ tmp \in Image /\ snap \in Image
  BY DEF Init, Blank, Image
<1>2. log \in Seq(Entry \cup {Corrupt}) /\ n \in Nat /\ faults \in 0..MaxCrashes
  BY JournalAssumption DEF Init
<1>4. LinesCounted
  BY JournalAssumption DEF Init, LinesCounted
<1>3. pending \in [Procs -> SUBSET Entry]
  BY DEF Init
<1> QED BY <1>1, <1>2, <1>3, <1>4 DEF Init, TypeOK, Shape

\* Every reachable state is well typed: in particular what OpenJournal rebuilds
\* from any snapshot and any journal, torn or not, is a complete store.
THEOREM Typing == Spec => []TypeOK
<1>1. Init => TypeOK /\ Shape
  BY InitTyped
<1>2. TypeOK /\ Shape /\ [Next]_vars => (TypeOK /\ Shape)'
  BY TypeStep, ShapeStep
<1> QED BY <1>1, <1>2, PTL DEF Spec

------------------------------------------------------------------------------
\* Durability of acknowledged records.

\* The serialised records no running operation has changed.
Quiet == Serialised \ InFlight

\* A line an operation still owes carries the value that is in memory.
OwedAgree ==
    \A p \in Procs : \A e \in pending[p] : \A k \in e.keys \cap Serialised :
        mem[k] = e.val

\* No two owed lines are about the same serialised record.
OwedDisjoint ==
    \A p, q \in Procs : \A e \in pending[p], f \in pending[q] :
        e.keys \cap f.keys \cap Serialised # {} => p = q /\ e = f

\* Unless a write continued an unterminated line, only such a line is corrupt.
CorruptLast ==
    ~glued => \A i \in 1..Len(log) : log[i] = Corrupt => open /\ i = Len(log)

\* While j.mu is held for a compaction, its image of a record nobody has
\* touched since is the one in memory.
SnapshotCurrent ==
    /\ stage = "rename" => \A k \in Quiet : tmp.mem[k] = mem[k]
    /\ stage = "truncate" => \A k \in Quiet : snap.mem[k] = mem[k]

DurableInv ==
    /\ OwedAgree
    /\ OwedDisjoint
    /\ CorruptLast
    /\ SnapshotCurrent
    /\ Durable

\* A key is in flight exactly when some goroutine owes a line for it.
LEMMA InFlightIs ==
    \A k : k \in InFlight <=> \E p \in Procs : \E e \in pending[p] : k \in e.keys
BY DEF InFlight

\* A well-formed line appended after well-formed lines is replayed, after them.
LEMMA AppendedLines ==
    ASSUME TypeOK, CorruptLast, ~glued, ~open, NEW e \in Entry,
           log' = Append(log, e)
    PROVE  /\ Len(log) \in Nat
           /\ log'[Len(log) + 1] = e
           /\ \A i \in 1..Len(log) : log'[i] = log[i]
           /\ ValidLines = 1..Len(log)
           /\ ValidLines' = 1..(Len(log) + 1)
<1> DEFINE m == Len(log)
<1>1. log \in Seq(Entry \cup {Corrupt}) /\ m \in Nat
  BY DEF TypeOK
<1>2. /\ log'[m + 1] = e
      /\ \A i \in 1..m : log'[i] = log[i]
      /\ DOMAIN log' = 1..(m + 1)
      /\ DOMAIN log = 1..m
  BY <1>1
<1>3. \A i \in 1..m : log[i] # Corrupt
  BY DEF CorruptLast
<1>4. e # Corrupt
  BY CorruptAssumption
<1>5. ValidLines = 1..m
  BY <1>1, <1>2, <1>3 DEF ValidLines
<1>6. ValidLines' = 1..(m + 1)
  <2>1. \A i \in 1..(m + 1) : log'[i] # Corrupt
    BY <1>1, <1>2, <1>3, <1>4
  <2>2. \A i \in 1..(m + 1) : \A j \in 1..i : j \in 1..(m + 1)
    BY <1>1
  <2>3. ValidLines' = {i \in DOMAIN log' : \A j \in 1..i : log'[j] # Corrupt}
    BY DEF ValidLines
  <2> QED BY <1>2, <2>1, <2>2, <2>3
<1> QED BY <1>1, <1>2, <1>5, <1>6

\* Such a line decides what recovery yields for the records it touches, and
\* nothing about the others.
LEMMA AppendRecovers ==
    ASSUME TypeOK, CorruptLast, ~glued, ~open, NEW e \in Entry,
           log' = Append(log, e), snap' = snap, NEW k \in Keys
    PROVE  /\ k \in e.keys => Recovers(k, e.val)'
           /\ k \notin e.keys => \A v : Recovers(k, v) => Recovers(k, v)'
<1> DEFINE m == Len(log)
<1>1. m \in Nat
  BY AppendedLines
<1>2. log'[m + 1] = e /\ \A i \in 1..m : log'[i] = log[i]
  BY AppendedLines
<1>3. ValidLines = 1..m /\ ValidLines' = 1..(m + 1)
  BY AppendedLines
<1>4. CASE k \in e.keys
  <2>1. Touching(k)' = {i \in 1..(m + 1) : k \in log'[i].keys}
    BY <1>3 DEF Touching
  <2>2. m + 1 \in Touching(k)' /\ \A j \in Touching(k)' : j <= m + 1
    BY <1>1, <1>2, <1>4, <2>1
  <2>3. log'[m + 1].val = e.val
    BY <1>2
  <2> QED BY <1>4, <2>2, <2>3 DEF Recovers
<1>5. CASE k \notin e.keys
  <2>1. Touching(k)' = Touching(k)
    <3>1. Touching(k)' = {i \in 1..(m + 1) : k \in log'[i].keys}
      BY <1>3 DEF Touching
    <3>2. Touching(k) = {i \in 1..m : k \in log[i].keys}
      BY <1>3 DEF Touching
    <3>3. \A i \in 1..(m + 1) : i \in 1..m \/ i = m + 1
      BY <1>1
    <3>4. \A i \in 1..m : i \in 1..(m + 1)
      BY <1>1
    <3> QED BY <1>2, <1>5, <3>1, <3>2, <3>3, <3>4
  <2>2. Touching(k) \subseteq 1..m
    BY <1>3 DEF Touching
  <2>3. \A i \in Touching(k) : log'[i] = log[i]
    BY <1>2, <2>2
  <2> QED BY <1>5, <2>1, <2>3 DEF Recovers
<1> QED BY <1>4, <1>5

\* A line that does not parse is not replayed.
LEMMA CorruptLine ==
    ASSUME TypeOK, log' = Append(log, Corrupt)
    PROVE  /\ ValidLines' = ValidLines
           /\ \A i \in ValidLines : log'[i] = log[i]
<1> DEFINE m == Len(log)
<1>1. log \in Seq(Entry \cup {Corrupt}) /\ m \in Nat
  BY DEF TypeOK
<1>2. /\ log'[m + 1] = Corrupt
      /\ \A i \in 1..m : log'[i] = log[i]
      /\ DOMAIN log' = 1..(m + 1)
      /\ DOMAIN log = 1..m
  BY <1>1
<1>3. ValidLines' = ValidLines
  <2>1. ValidLines = {i \in 1..m : \A j \in 1..i : log[j] # Corrupt}
    BY <1>2 DEF ValidLines
  <2>2. ValidLines' = {i \in 1..(m + 1) : \A j \in 1..i : log'[j] # Corrupt}
    BY <1>2 DEF ValidLines
  <2>3. ASSUME NEW i \in ValidLines' PROVE i \in ValidLines
    <3>1. i \in 1..(m + 1) /\ \A j \in 1..i : log'[j] # Corrupt
      BY <2>2, <2>3
    <3>2. i # m + 1
      BY <1>1, <1>2, <3>1
    <3>3. i \in 1..m /\ \A j \in 1..i : j \in 1..m
      BY <1>1, <3>1, <3>2
    <3> QED BY <1>2, <2>1, <3>1, <3>3
  <2>4. ASSUME NEW i \in ValidLines PROVE i \in ValidLines'
    <3>1. i \in 1..m /\ \A j \in 1..i : log[j] # Corrupt
      BY <2>1, <2>4
    <3>2. i \in 1..(m + 1) /\ \A j \in 1..i : j \in 1..m
      BY <1>1, <3>1
    <3> QED BY <1>2, <2>2, <3>1, <3>2
  <2> QED BY <2>3, <2>4
<1>4. ValidLines \subseteq 1..m
  BY <1>2 DEF ValidLines
<1> QED BY <1>2, <1>3, <1>4

\* A corrupt last line changes nothing that recovery yields.
LEMMA AppendCorruptRecovers ==
    ASSUME TypeOK, log' = Append(log, Corrupt), snap' = snap, NEW k \in Keys,
           NEW v, Recovers(k, v)
    PROVE  Recovers(k, v)'
<1>1. Touching(k)' = Touching(k) /\ \A i \in Touching(k) : log'[i] = log[i]
  BY CorruptLine DEF Touching
<1> QED BY <1>1 DEF Recovers

\* Recovery depends on the two files only, not on memory.
LEMMA SameFilesRecover ==
    ASSUME UNCHANGED <<log, snap>>, NEW k, NEW v, Recovers(k, v)
    PROVE  Recovers(k, v)'
BY DEF Recovers, Touching, ValidLines

\* The first step of every store operation, in one form: it changes the items
\* K in memory and owes the entries that record them.
Starts(p, K, entries) ==
    /\ up
    /\ pending[p] = {}
    /\ pending' = [pending EXCEPT ![p] = entries]
    /\ K \cap InFlight \cap Serialised = {}
    /\ \A k \in Keys \ K : mem'[k] = mem[k]
    /\ \A k \in K : \E e \in entries : k \in e.keys
    /\ \A e \in entries : \A k \in e.keys \cap Serialised :
          k \in K /\ mem'[k] = e.val
    /\ \A e, f \in entries : e.keys \cap f.keys \cap Serialised # {} => e = f
    /\ UNCHANGED <<up, compactor, stage, tmp, snap, log, open, glued, unsaved>>

\* A put, delete or claim owes lines that agree with the memory it leaves.
LEMMA SetStarts ==
    ASSUME TypeOK, NEW p \in Procs, NEW k \in Keys, NEW v,
           MayStart(p, {k}), mem' = [mem EXCEPT ![k] = v],
           Mutate(p, {SetTo(k, v)})
    PROVE  Starts(p, {k}, {SetTo(k, v)})
<1>1. SetTo(k, v).keys = {k} /\ SetTo(k, v).val = v
  BY DEF SetTo
<1>2. mem'[k] = v /\ \A j \in Keys \ {k} : mem'[j] = mem[j]
  BY DEF TypeOK
<1> QED BY <1>1, <1>2 DEF MayStart, Mutate, Starts

\* Every store operation starts the same way: memory changes, lines are owed.
LEMMA OperationStarts ==
    ASSUME TypeOK, NEW p \in Procs, Operation(p)
    PROVE  \E K, entries : Starts(p, K, entries)
<1> USE JournalAssumption
<1>1. ASSUME NEW k \in Keys, NEW v \in Values, Put(p, k, v)
      PROVE  \E K, entries : Starts(p, K, entries)
  <2>1. Starts(p, {k}, {SetTo(k, v)})
    BY <1>1, SetStarts DEF Put
  <2> QED BY <2>1
<1>2. ASSUME NEW k \in Keys, Delete(p, k)
      PROVE  \E K, entries : Starts(p, K, entries)
  <2>1. Starts(p, {k}, {SetTo(k, None)})
    BY <1>2, SetStarts DEF Delete
  <2> QED BY <2>1
<1>3. ASSUME NEW K \in SUBSET Keys, NEW v \in Values \cup {None},
             Claim(p, K, v)
      PROVE  \E J, entries : Starts(p, J, entries)
  <2> DEFINE entries == {SetTo(k, v) : k \in K}
  <2>1. \A k : SetTo(k, v).keys = {k} /\ SetTo(k, v).val = v
    BY DEF SetTo
  <2>2. \A e \in entries : \E k \in K : e = SetTo(k, v)
    OBVIOUS
  <2>3. /\ \A k \in Keys \ K : mem'[k] = mem[k]
        /\ \A k \in K : mem'[k] = v
    BY <1>3 DEF Claim
  <2>4. \A k \in K : \E e \in entries : k \in e.keys
    <3>1. \A k \in K : SetTo(k, v) \in entries
      OBVIOUS
    <3> HIDE DEF entries
    <3> QED BY <2>1, <3>1
  <2>5. pending' = [pending EXCEPT ![p] = entries]
    BY <1>3 DEF Claim, Mutate
  <2> HIDE DEF entries
  <2>6. \A e \in entries : \A k \in e.keys \cap Serialised :
          k \in K /\ mem'[k] = e.val
    BY <2>1, <2>2, <2>3
  <2>7. \A e, f \in entries : e.keys \cap f.keys \cap Serialised # {} => e = f
    BY <2>1, <2>2
  <2>8. /\ up /\ pending[p] = {} /\ K \cap InFlight \cap Serialised = {}
        /\ UNCHANGED <<up, compactor, stage, tmp, snap, log, open, glued,
                       unsaved>>
    BY <1>3 DEF Claim, MayStart, Mutate
  <2>9. Starts(p, K, entries)
    BY <2>3, <2>4, <2>5, <2>6, <2>7, <2>8 DEF Starts
  <2> QED BY <2>9
<1>4. ASSUME Purge(p)
      PROVE  \E K, entries : Starts(p, K, entries)
  <2> DEFINE e == [op |-> "purge", keys |-> InstKeys \cup Seqs, val |-> None]
  <2>1. e.keys = InstKeys \cup Seqs /\ e.val = None
    OBVIOUS
  <2>2. /\ \A k \in Keys \ (InstKeys \cup Seqs) : mem'[k] = mem[k]
        /\ \A k \in InstKeys : mem'[k] = None
    BY <1>4 DEF Purge
  <2>3. \A k \in (InstKeys \cup Seqs) \cap Serialised : mem'[k] = None
    BY <2>2
  <2>4. /\ up /\ pending[p] = {}
        /\ pending' = [pending EXCEPT ![p] = {e}]
        /\ (InstKeys \cup Seqs) \cap InFlight \cap Serialised = {}
        /\ UNCHANGED <<up, compactor, stage, tmp, snap, log, open, glued,
                       unsaved>>
    BY <1>4 DEF Purge, MayStart, Mutate
  <2> HIDE DEF e
  <2>5. Starts(p, InstKeys \cup Seqs, {e})
    BY <2>1, <2>2, <2>3, <2>4 DEF Starts
  <2> QED BY <2>5
<1>5. ASSUME NEW s \in Seqs, AppendHistory(p, s)
      PROVE  \E K, entries : Starts(p, K, entries)
  <2> DEFINE e == [op |-> "hist", keys |-> {s}, val |-> None]
  <2>1. e.keys = {s} /\ s \notin Serialised
    OBVIOUS
  <2>2. /\ up /\ pending[p] = {}
        /\ pending' = [pending EXCEPT ![p] = {e}]
        /\ mem' = mem
        /\ UNCHANGED <<up, compactor, stage, tmp, snap, log, open, glued,
                       unsaved>>
    BY <1>5 DEF AppendHistory, MayStart, Mutate
  <2> HIDE DEF e
  <2>3. Starts(p, {s}, {e})
    BY <2>1, <2>2 DEF Starts
  <2> QED BY <2>3
<1> QED BY <1>1, <1>2, <1>3, <1>4, <1>5 DEF Operation

\* Starting an operation disturbs only the records it puts in flight.
LEMMA StartsKeeps ==
    ASSUME TypeOK, DurableInv, NEW p \in Procs, NEW K, NEW entries,
           Starts(p, K, entries)
    PROVE  DurableInv'
<1> USE DEF DurableInv
<1>1. /\ pending'[p] = entries
      /\ \A q \in Procs : q # p => pending'[q] = pending[q]
      /\ pending[p] = {}
  BY DEF Starts, TypeOK
<1>2. \A k \in Serialised : k \in K => k \notin InFlight
  BY DEF Starts
<1>3. \A k : k \in InFlight' <=>
                \E q \in Procs : \E e \in pending'[q] : k \in e.keys
  BY DEF InFlight
<1>4. \A k \in Serialised : k \notin InFlight' => k \notin K /\ k \notin InFlight
  BY <1>1, <1>3, InFlightIs DEF Starts
<1>5. \A k \in Serialised \ K : mem'[k] = mem[k]
  BY JournalAssumption DEF Starts
<1>6. OwedAgree'
  <2> SUFFICES ASSUME NEW q \in Procs, NEW e \in pending'[q],
                      NEW k \in e.keys \cap Serialised
               PROVE  mem'[k] = e.val
    BY DEF OwedAgree
  <2>1. CASE q = p
    BY <1>1, <2>1 DEF Starts
  <2>2. CASE q # p
    <3>1. e \in pending[q] /\ k \in InFlight
      BY <1>1, <2>2, InFlightIs
    <3> QED BY <1>2, <1>5, <3>1 DEF OwedAgree
  <2> QED BY <2>1, <2>2
<1>7. OwedDisjoint'
  <2> SUFFICES ASSUME NEW q \in Procs, NEW r \in Procs,
                      NEW e \in pending'[q], NEW f \in pending'[r],
                      NEW k \in Serialised, k \in e.keys, k \in f.keys
               PROVE  q = r /\ e = f
    BY DEF OwedDisjoint
  <2>1. CASE q = p /\ r = p
    BY <1>1, <2>1 DEF Starts
  <2>2. CASE q = p /\ r # p
    BY <1>1, <1>2, <2>2, InFlightIs DEF Starts
  <2>3. CASE q # p /\ r = p
    BY <1>1, <1>2, <2>3, InFlightIs DEF Starts
  <2>4. CASE q # p /\ r # p
    BY <1>1, <2>4 DEF OwedDisjoint
  <2> QED BY <2>1, <2>2, <2>3, <2>4
<1>8. CorruptLast'
  BY DEF CorruptLast, Starts
<1>9. SnapshotCurrent'
  BY <1>4, <1>5 DEF SnapshotCurrent, Quiet, Starts
<1>10. Durable'
  <2> SUFFICES ASSUME up', ~glued', NEW k \in Settled' \cap Keys
               PROVE  Recovers(k, mem[k])'
    BY DEF Durable
  <2>1. k \in Serialised /\ k \notin InFlight' /\ k \notin unsaved'
    BY JournalAssumption DEF Settled
  <2>2. k \in Settled /\ mem'[k] = mem[k] /\ up /\ ~glued
    BY <1>4, <1>5, <2>1 DEF Settled, Starts
  <2>3. Recovers(k, mem[k])
    BY <2>2 DEF Durable
  <2>4. UNCHANGED <<log, snap>>
    BY DEF Starts
  <2> QED BY <2>2, <2>3, <2>4 DEF Recovers, Touching, ValidLines
<1> QED BY <1>6, <1>7, <1>8, <1>9, <1>10

\* A failed operation moves its records from in flight to unsaved.
LEMMA GiveUpKeeps ==
    ASSUME TypeOK, DurableInv, NEW p \in Procs, GiveUp(p, pending[p]),
           mem' = mem
    PROVE  /\ OwedAgree' /\ OwedDisjoint'
           /\ Settled' \subseteq Settled
<1> USE DEF DurableInv
<1>1. /\ pending'[p] = {}
      /\ \A q \in Procs : q # p => pending'[q] = pending[q]
  BY DEF GiveUp, TypeOK
<1>2. OwedAgree'
  BY <1>1 DEF OwedAgree
<1>3. OwedDisjoint'
  BY <1>1 DEF OwedDisjoint
<1>4. Settled' \subseteq Settled
  <2> SUFFICES ASSUME NEW k \in Settled' PROVE k \in Settled
    OBVIOUS
  <2>1. /\ k \in Serialised \cup Seqs
        /\ \A q \in Procs : \A e \in pending'[q] : k \notin e.keys
        /\ k \notin unsaved'
    BY DEF Settled, InFlight
  <2>2. k \notin unsaved /\ \A e \in pending[p] : k \notin e.keys
    BY <2>1 DEF GiveUp
  <2>3. k \notin InFlight
    BY <1>1, <2>1, <2>2, InFlightIs
  <2> QED BY <2>1, <2>2, <2>3 DEF Settled
<1> QED BY <1>2, <1>3, <1>4

\* With nobody inside an operation nothing is owed.
LEMMA NothingOwed ==
    ASSUME \A p \in Procs : pending'[p] = {}
    PROVE  OwedAgree' /\ OwedDisjoint' /\ InFlight' = {}
BY DEF OwedAgree, OwedDisjoint, InFlight

\* append's write keeps an unparsable line at the end of the file.
LEMMA WriteKeepsCorruptLast ==
    ASSUME TypeOK, CorruptLast, NEW e \in Entry \cup {Corrupt},
           NEW cut \in BOOLEAN, Write(e, cut), e = Corrupt => cut
    PROVE  CorruptLast'
<1> SUFFICES ASSUME ~glued', NEW i \in 1..Len(log'), log'[i] = Corrupt
             PROVE  open' /\ i = Len(log')
  BY DEF CorruptLast
<1>1. ~open /\ ~glued /\ log' = Append(log, e) /\ open' = cut
  BY DEF Write, TypeOK
<1>2. log \in Seq(Entry \cup {Corrupt}) /\ Len(log) \in Nat
  BY DEF TypeOK
<1>3. /\ Len(log') = Len(log) + 1 /\ log'[Len(log) + 1] = e
      /\ \A j \in 1..Len(log) : log'[j] = log[j]
  BY <1>1, <1>2
<1>4. \A j \in 1..Len(log) : log[j] # Corrupt
  BY <1>1 DEF CorruptLast
<1>5. i = Len(log) + 1
  BY <1>2, <1>3, <1>4
<1> QED BY <1>1, <1>3, <1>5

\* Every step of writers, compaction, crash and recovery keeps the invariant.
LEMMA DurableStep ==
    ASSUME TypeOK, Shape, DurableInv, [Next]_vars
    PROVE  DurableInv'
<1> USE JournalAssumption DEF DurableInv
<1>1. ASSUME NEW p \in Procs, Operation(p)
      PROVE  DurableInv'
  BY <1>1, OperationStarts, StartsKeeps
<1>2. ASSUME NEW p \in Procs, NEW e \in pending[p], WriteLine(p, e)
      PROVE  DurableInv'
  <2>1. /\ pending'[p] = pending[p] \ {e}
        /\ \A q \in Procs : q # p => pending'[q] = pending[q]
        /\ e \in Entry
        /\ mem' = mem /\ snap' = snap /\ unsaved' = unsaved /\ up
        /\ Write(e, FALSE)
    BY <1>2 DEF WriteLine, TypeOK
  <2>2. OwedAgree' /\ OwedDisjoint'
    <3>1. \A q \in Procs : pending'[q] \subseteq pending[q]
      BY <2>1
    <3> QED BY <2>1, <3>1 DEF OwedAgree, OwedDisjoint
  <2>3. CorruptLast'
    BY <2>1, CorruptAssumption, WriteKeepsCorruptLast
  <2>4. SnapshotCurrent'
    BY <1>2 DEF WriteLine, Shape, SnapshotCurrent
  <2>5. Durable'
    <3> SUFFICES ASSUME ~glued', NEW k \in Settled' \cap Keys
                 PROVE  Recovers(k, mem[k])'
      BY DEF Durable
    <3>1. ~glued /\ ~open /\ log' = Append(log, e)
      BY <2>1 DEF Write, TypeOK
    <3>2. k \in Serialised /\ k \notin InFlight' /\ k \notin unsaved
      BY <2>1 DEF Settled
    <3>3. CASE k \in e.keys
      <4>1. mem[k] = e.val
        BY <3>2, <3>3 DEF OwedAgree
      <4> QED BY <2>1, <3>1, <3>3, <4>1, AppendRecovers
    <3>4. CASE k \notin e.keys
      <4>1. \A q \in Procs : \A f \in pending'[q] : k \notin f.keys
        BY <3>2 DEF InFlight
      <4>2. k \notin InFlight
        BY <2>1, <3>4, <4>1, InFlightIs
      <4>3. Recovers(k, mem[k])
        BY <2>1, <3>1, <3>2, <4>2 DEF Durable, Settled
      <4> QED BY <2>1, <3>1, <3>4, <4>3, AppendRecovers
    <3> QED BY <3>3, <3>4
  <2> QED BY <2>2, <2>3, <2>4, <2>5
<1>3. ASSUME NEW p \in Procs, NEW e \in pending[p], NEW cut \in BOOLEAN,
             WriteFails(p, e, cut)
      PROVE  DurableInv'
  <2>1. OwedAgree' /\ OwedDisjoint' /\ Settled' \subseteq Settled
    BY <1>3, GiveUpKeeps DEF WriteFails
  <2>2. CorruptLast'
    <3>1. CASE cut
      BY <1>3, <3>1, WriteKeepsCorruptLast DEF WriteFails
    <3>2. CASE ~cut
      BY <1>3, <3>2 DEF WriteFails, CorruptLast
    <3> QED BY <3>1, <3>2
  <2>3. SnapshotCurrent'
    BY <1>3 DEF WriteFails, Shape, SnapshotCurrent
  <2>4. Durable'
    <3> SUFFICES ASSUME ~glued', NEW k \in Settled' \cap Keys
                 PROVE  Recovers(k, mem[k])'
      BY DEF Durable
    <3>1. ~glued /\ mem' = mem /\ snap' = snap /\ up
      BY <1>3 DEF WriteFails, Write, TypeOK
    <3>2. Recovers(k, mem[k])
      BY <2>1, <3>1 DEF Durable
    <3>3. log' = log \/ log' = Append(log, Corrupt)
      BY <1>3 DEF WriteFails, Write, TypeOK
    <3> QED BY <3>1, <3>2, <3>3, AppendCorruptRecovers, SameFilesRecover
  <2> QED BY <2>1, <2>2, <2>3, <2>4
<1>4. ASSUME NEW p \in Procs, NEW e \in pending[p], SyncFails(p, e)
      PROVE  DurableInv'
  <2>1. OwedAgree' /\ OwedDisjoint' /\ Settled' \subseteq Settled
    BY <1>4, GiveUpKeeps DEF SyncFails
  <2>2. e \in Entry /\ Write(e, FALSE) /\ mem' = mem /\ snap' = snap /\ up
    BY <1>4 DEF SyncFails, TypeOK
  <2>3. CorruptLast'
    BY <2>2, CorruptAssumption, WriteKeepsCorruptLast
  <2>4. SnapshotCurrent'
    BY <1>4 DEF SyncFails, Shape, SnapshotCurrent
  <2>5. Durable'
    <3> SUFFICES ASSUME ~glued', NEW k \in Settled' \cap Keys
                 PROVE  Recovers(k, mem[k])'
      BY DEF Durable
    <3>1. ~glued /\ ~open /\ log' = Append(log, e)
      BY <2>2 DEF Write, TypeOK
    <3>2. Recovers(k, mem[k]) /\ k \notin InFlight
      BY <2>1, <2>2, <3>1 DEF Durable, Settled
    <3>3. k \notin e.keys
      BY <3>2, InFlightIs
    <3> QED BY <2>2, <3>1, <3>2, <3>3, AppendRecovers
  <2> QED BY <2>1, <2>3, <2>4, <2>5
<1>5. ASSUME NEW p \in Procs, WriteRefused(p)
      PROVE  DurableInv'
  <2>1. OwedAgree' /\ OwedDisjoint' /\ Settled' \subseteq Settled
    BY <1>5, GiveUpKeeps DEF WriteRefused
  <2>2. UNCHANGED <<up, mem, stage, tmp, snap, log, open, glued, compactor>>
        /\ stage = "idle"
    BY <1>5 DEF WriteRefused, Shape
  <2>3. CorruptLast' /\ SnapshotCurrent'
    BY <2>2 DEF CorruptLast, SnapshotCurrent
  <2>4. Durable'
    BY <2>1, <2>2, SameFilesRecover DEF Durable
  <2> QED BY <2>1, <2>3, <2>4
<1>6. ASSUME NEW p \in Procs, NEW e \in pending[p], NEW whole \in BOOLEAN,
             TornCrash(p, e, whole)
      PROVE  DurableInv'
  <2>1. /\ \A q \in Procs : pending'[q] = {}
        /\ ~up' /\ stage' = "idle"
    BY <1>6 DEF TornCrash, Die
  <2>2. CorruptLast'
    BY <1>6, WriteKeepsCorruptLast DEF TornCrash, TypeOK
  <2> QED BY <2>1, <2>2, NothingOwed DEF SnapshotCurrent, Durable
<1>7. CASE WriteSnapshot
  <2>1. UNCHANGED <<up, mem, pending, snap, log, open, glued, unsaved>>
        /\ stage' = "rename" /\ tmp'.mem = mem
    BY <1>7 DEF WriteSnapshot
  <2>2. OwedAgree' /\ OwedDisjoint' /\ CorruptLast'
    BY <2>1 DEF OwedAgree, OwedDisjoint, CorruptLast
  <2>3. SnapshotCurrent'
    BY <2>1 DEF SnapshotCurrent
  <2>4. Durable'
    BY <2>1, SameFilesRecover DEF Durable, Settled, InFlight
  <2> QED BY <2>2, <2>3, <2>4
<1>8. CASE RenameSnapshot
  <2>1. UNCHANGED <<up, mem, pending, log, open, glued, unsaved>>
        /\ stage = "rename" /\ stage' = "truncate" /\ snap' = tmp
    BY <1>8 DEF RenameSnapshot
  <2>2. OwedAgree' /\ OwedDisjoint' /\ CorruptLast'
    BY <2>1 DEF OwedAgree, OwedDisjoint, CorruptLast
  <2>3. SnapshotCurrent'
    BY <2>1 DEF SnapshotCurrent, Quiet, InFlight
  <2>4. Durable'
    <3> SUFFICES ASSUME up', ~glued', NEW k \in Settled' \cap Keys
                 PROVE  Recovers(k, mem[k])'
      BY DEF Durable
    <3>1. Settled' = Settled
      BY <2>1 DEF Settled, InFlight
    <3>2. Recovers(k, mem[k])
      BY <2>1, <3>1 DEF Durable
    <3>3. k \in Quiet
      BY <3>1 DEF Settled, Quiet
    <3>4. tmp.mem[k] = mem[k]
      BY <2>1, <3>3 DEF SnapshotCurrent
    <3>5. Touching(k)' = Touching(k)
      BY <2>1 DEF Touching, ValidLines
    <3> QED BY <2>1, <3>2, <3>4, <3>5 DEF Recovers
  <2> QED BY <2>2, <2>3, <2>4
<1>9. CASE TruncateJournal
  <2>1. UNCHANGED <<up, mem, pending, snap>>
        /\ stage = "truncate" /\ stage' = "idle" /\ log' = <<>>
    BY <1>9 DEF TruncateJournal
  <2>2. OwedAgree' /\ OwedDisjoint' /\ CorruptLast' /\ SnapshotCurrent'
    BY <2>1 DEF OwedAgree, OwedDisjoint, CorruptLast, SnapshotCurrent
  <2>3. Durable'
    <3> SUFFICES ASSUME NEW k \in Settled' \cap Keys
                 PROVE  Recovers(k, mem[k])'
      BY DEF Durable
    <3>1. k \in Quiet
      BY <2>1 DEF Settled, Quiet, InFlight
    <3>2. snap.mem[k] = mem[k]
      BY <2>1, <3>1 DEF SnapshotCurrent
    <3>3. Touching(k)' = {}
      BY <2>1 DEF Touching, ValidLines
    <3> QED BY <2>1, <3>2, <3>3 DEF Recovers
  <2> QED BY <2>2, <2>3
<1>10. CASE CompactFails
  <2>1. compactor \in Procs
    BY <1>10 DEF CompactFails, Shape, TypeOK
  <2>2. OwedAgree' /\ OwedDisjoint' /\ Settled' \subseteq Settled
    BY <1>10, <2>1, GiveUpKeeps DEF CompactFails
  <2>3. UNCHANGED <<up, mem, snap, log, open, glued>> /\ stage' = "idle"
    BY <1>10 DEF CompactFails
  <2>4. CorruptLast' /\ SnapshotCurrent'
    BY <2>3 DEF CorruptLast, SnapshotCurrent
  <2>5. Durable'
    BY <2>2, <2>3, SameFilesRecover DEF Durable
  <2> QED BY <2>2, <2>4, <2>5
<1>11. CASE Crash
  <2>1. /\ \A q \in Procs : pending'[q] = {}
        /\ ~up' /\ stage' = "idle" /\ UNCHANGED <<log, open, glued>>
    BY <1>11 DEF Crash, Die
  <2> QED BY <2>1, NothingOwed DEF SnapshotCurrent, Durable, CorruptLast
<1>12. CASE Open
  <2>1. /\ \A q \in Procs : pending'[q] = {}
        /\ UNCHANGED <<log, snap, open, glued, stage, compactor>>
        /\ mem' = [k \in Keys |-> Recovered(k)]
    BY <1>12, OpenLoads DEF Open, Shape
  <2>2. OwedAgree' /\ OwedDisjoint' /\ CorruptLast'
    BY <2>1, NothingOwed DEF CorruptLast
  <2>3. SnapshotCurrent'
    BY <1>12 DEF Open, SnapshotCurrent, Shape
  <2>4. Durable'
    BY <2>1, RecoveredTyped, SameFilesRecover DEF Durable
  <2> QED BY <2>2, <2>3, <2>4
<1>13. ASSUME NEW p \in Procs, Compact(p)
       PROVE  DurableInv'
  <2>1. UNCHANGED <<up, mem, pending, snap, log, open, glued, unsaved>>
        /\ stage' = "snapshot"
    BY <1>13 DEF Compact
  <2>2. OwedAgree' /\ OwedDisjoint' /\ CorruptLast' /\ SnapshotCurrent'
    BY <2>1 DEF OwedAgree, OwedDisjoint, CorruptLast, SnapshotCurrent
  <2>3. Durable'
    BY <2>1, SameFilesRecover DEF Durable, Settled, InFlight
  <2> QED BY <2>2, <2>3
<1>14. CASE UNCHANGED vars
  BY <1>14 DEF vars, OwedAgree, OwedDisjoint, CorruptLast, SnapshotCurrent,
               Quiet, Durable, Settled, InFlight, Recovers, Touching, ValidLines
<1> QED
  BY <1>1, <1>2, <1>3, <1>4, <1>5, <1>6, <1>7, <1>8, <1>9, <1>10, <1>11,
     <1>12, <1>13, <1>14 DEF Next, AppendStep, Compaction

\* A new store satisfies the invariant.
LEMMA InitDurable == Init => DurableInv
<1> SUFFICES ASSUME Init PROVE DurableInv
  OBVIOUS
<1>1. \A p \in Procs : pending[p] = {}
  BY DEF Init
<1>2. OwedAgree /\ OwedDisjoint
  BY <1>1 DEF OwedAgree, OwedDisjoint
<1>3. log = <<>> /\ stage = "idle" /\ snap.mem = mem
  BY DEF Init, Blank
<1>4. CorruptLast /\ SnapshotCurrent
  BY <1>3 DEF CorruptLast, SnapshotCurrent
<1>5. \A k : Touching(k) = {}
  BY <1>3 DEF Touching, ValidLines
<1>6. Durable
  BY <1>3, <1>5 DEF Durable, Recovers
<1> QED BY <1>2, <1>4, <1>6 DEF DurableInv

\* An acknowledged put, delete, claim or purge survives a crash at any point,
\* before or during any number of compactions and after any failed write, as
\* long as no write has continued an unterminated line.
THEOREM Durability == Spec => []Durable
<1>1. Init => TypeOK /\ Shape /\ DurableInv
  BY InitTyped, InitDurable
<1>2. TypeOK /\ Shape /\ DurableInv /\ [Next]_vars
        => (TypeOK /\ Shape /\ DurableInv)'
  BY TypeStep, ShapeStep, DurableStep
<1>3. DurableInv => Durable
  BY DEF DurableInv
<1> QED BY <1>1, <1>2, <1>3, PTL DEF Spec

------------------------------------------------------------------------------
\* The history stream.

\* The purge lines recovery replays.
Purges == {i \in ValidLines : log[i].op = "purge"}

\* The lines of event s that no later purge takes back.
Kept(s) == {i \in Touching(s) : log[i].op = "hist" /\ \A j \in Purges : j < i}

\* Event s is in the stream that recovery builds.
Streamed(s) == \/ Purges = {} /\ snap.hist[s] > 0
               \/ Kept(s) # {}

\* An event is in the recovered stream exactly when the snapshot has it and no
\* line purges it, or a line adds it after the last purge.
Replayed == TypeOK => \A s \in Seqs : RecoveredHist(s) > 0 <=> Streamed(s)

\* Counting the lines of an event says no more than that there is one.
LEMMA StreamedIs == Replayed
<1> SUFFICES ASSUME TypeOK, NEW s \in Seqs
             PROVE  RecoveredHist(s) > 0 <=> Streamed(s)
  BY DEF Replayed
<1>1. IsFiniteSet(1..Len(log))
  <2>1. Len(log) \in Int
    BY DEF TypeOK
  <2> QED BY <2>1, FS_Interval
<1>2. Kept(s) \in SUBSET (1..Len(log))
  BY ValidLineTyped DEF Touching, Kept
<1>3. IsFiniteSet(Kept(s))
  BY <1>1, <1>2, FS_Subset
<1>4. Cardinality(Kept(s)) \in Nat /\ (Cardinality(Kept(s)) = 0 <=> Kept(s) = {})
  BY <1>3, FS_CardinalityType, FS_EmptySet
<1>5. snap.hist[s] \in Nat
  BY DEF TypeOK, Image
<1>6. RecoveredHist(s) = (IF Purges = {} THEN snap.hist[s] ELSE 0)
                         + Cardinality(Kept(s))
  BY DEF RecoveredHist, Purges, Kept
<1> QED BY <1>4, <1>5, <1>6 DEF Streamed

\* The same after a step.
LEMMA StreamedIsNext == Replayed'
BY StreamedIs, PTL

\* A purge line empties the stream, a history line adds its event, and any
\* other line leaves it.
LEMMA AppendStreams ==
    ASSUME TypeOK, CorruptLast, ~glued, ~open, NEW e \in Entry,
           log' = Append(log, e), snap' = snap, NEW s \in Seqs
    PROVE  /\ e.op = "purge" => ~Streamed(s)'
           /\ e.op = "hist" /\ s \in e.keys => Streamed(s)'
           /\ e.op # "purge" /\ (s \notin e.keys \/ e.op = "set")
                 => (Streamed(s)' <=> Streamed(s))
<1> DEFINE m == Len(log)
<1>1. m \in Nat
  BY AppendedLines
<1>2. log'[m + 1] = e /\ \A i \in 1..m : log'[i] = log[i]
  BY AppendedLines
<1>3. ValidLines = 1..m /\ ValidLines' = 1..(m + 1)
  BY AppendedLines
<1> HIDE DEF m
<1>4. /\ \A i \in 1..(m + 1) : i \in 1..m \/ i = m + 1
      /\ \A i \in 1..m : i \in 1..(m + 1) /\ i < m + 1 /\ ~(m + 1 < i)
      /\ m + 1 \in 1..(m + 1) /\ ~(m + 1 < m + 1)
  BY <1>1
<1>5. /\ Purges = {i \in 1..m : log[i].op = "purge"}
      /\ Purges' = {i \in 1..(m + 1) : log'[i].op = "purge"}
  BY <1>3 DEF Purges
<1>6. /\ Kept(s) = {i \in 1..m : s \in log[i].keys /\ log[i].op = "hist"
                                 /\ \A j \in Purges : j < i}
      /\ Kept(s)' = {i \in 1..(m + 1) : s \in log'[i].keys /\ log'[i].op = "hist"
                                 /\ \A j \in Purges' : j < i}
  BY <1>3 DEF Kept, Touching
<1>7. ASSUME e.op = "purge"
      PROVE  ~Streamed(s)'
  <2>1. m + 1 \in Purges'
    BY <1>2, <1>4, <1>5, <1>7
  <2>2. Kept(s)' = {}
    BY <1>4, <1>6, <2>1
  <2> QED BY <2>1, <2>2 DEF Streamed
<1>8. ASSUME e.op # "purge"
      PROVE  Purges' = Purges
  BY <1>2, <1>4, <1>5, <1>8
<1>9. ASSUME e.op = "hist", s \in e.keys
      PROVE  Streamed(s)'
  <2>1. Purges' = Purges /\ \A j \in Purges : j < m + 1
    BY <1>4, <1>5, <1>8, <1>9
  <2>2. m + 1 \in Kept(s)'
    BY <1>2, <1>4, <1>6, <1>9, <2>1
  <2> QED BY <2>2 DEF Streamed
<1>10. ASSUME e.op # "purge", s \notin e.keys \/ e.op = "set"
       PROVE  Streamed(s)' <=> Streamed(s)
  <2>1. Purges' = Purges
    BY <1>8, <1>10
  <2>2. Kept(s)' = Kept(s)
    BY <1>2, <1>4, <1>6, <1>10, <2>1
  <2> QED BY <2>1, <2>2 DEF Streamed
<1> QED BY <1>7, <1>9, <1>10

\* The stream depends on the two files only, and not on a line cut short.
LEMMA SameStreams ==
    ASSUME TypeOK, snap' = snap, log' = log \/ log' = Append(log, Corrupt),
           NEW s \in Seqs
    PROVE  Streamed(s)' <=> Streamed(s)
<1>1. ValidLines' = ValidLines /\ \A i \in ValidLines : log'[i] = log[i]
  BY CorruptLine DEF ValidLines
<1>2. Purges' = Purges
  BY <1>1 DEF Purges
<1>3. Kept(s)' = Kept(s)
  BY <1>1, <1>2 DEF Kept, Touching
<1> QED BY <1>2, <1>3 DEF Streamed

\* An owed history line is about an event that is in memory, an owed purge about
\* every event, and no other line about any.
OwedHistory ==
    \A p \in Procs : \A e \in pending[p] :
        /\ e.op = "set" => e.keys \cap Seqs = {}
        /\ e.op = "purge" => Seqs \subseteq e.keys
        /\ \A s \in e.keys \cap Seqs : hist[s] > 0 <=> e.op = "hist"

\* While j.mu is held for a compaction, its image of an event nobody adds or
\* purges is the one in memory.
SnapshotHistory ==
    /\ stage = "rename" => \A s \in Seqs \ InFlight : tmp.hist[s] = hist[s]
    /\ stage = "truncate" => \A s \in Seqs \ InFlight : snap.hist[s] = hist[s]

StreamKept ==
    up /\ ~glued => \A s \in Settled \cap Seqs : hist[s] > 0 <=> Streamed(s)

HistoryInv == OwedHistory /\ SnapshotHistory /\ StreamKept

\* The first step of every operation, as the stream sees it.
StartsStream(p, K, entries) ==
    /\ up
    /\ pending[p] = {}
    /\ pending' = [pending EXCEPT ![p] = entries]
    /\ K \cap InFlight \cap Seqs = {}
    /\ \A s \in Seqs \ K : hist'[s] = hist[s]
    /\ \A s \in K \cap Seqs : \E e \in entries : s \in e.keys
    /\ \A e \in entries :
          /\ e.op = "set" => e.keys \cap Seqs = {}
          /\ e.op = "purge" => Seqs \subseteq e.keys
          /\ \A s \in e.keys \cap Seqs : s \in K /\ (hist'[s] > 0 <=> e.op = "hist")
    /\ UNCHANGED <<up, compactor, stage, tmp, snap, log, open, glued, unsaved>>

\* Every store operation starts the same way.
LEMMA OperationStartsStream ==
    ASSUME TypeOK, NEW p \in Procs, Operation(p)
    PROVE  \E K, entries : StartsStream(p, K, entries)
<1> USE JournalAssumption
<1>1. ASSUME NEW K \in SUBSET Keys, NEW v, MayStart(p, K), hist' = hist,
             Mutate(p, {SetTo(k, v) : k \in K})
      PROVE  \E J, entries : StartsStream(p, J, entries)
  <2> DEFINE entries == {SetTo(k, v) : k \in K}
  <2>1. \A e \in entries : e.op = "set" /\ e.keys \cap Seqs = {}
    <3>1. \A k : SetTo(k, v).keys = {k} /\ SetTo(k, v).op = "set"
      BY DEF SetTo
    <3>2. \A e \in entries : \E k \in K : e = SetTo(k, v)
      OBVIOUS
    <3> HIDE DEF entries
    <3> QED BY <3>1, <3>2
  <2>2. pending' = [pending EXCEPT ![p] = entries] /\ K \cap Seqs = {}
    BY <1>1 DEF Mutate
  <2> HIDE DEF entries
  <2>3. StartsStream(p, K, entries)
    BY <1>1, <2>1, <2>2 DEF StartsStream, MayStart, Mutate
  <2> QED BY <2>3
<1>2. ASSUME NEW k \in Keys, NEW v \in Values, Put(p, k, v)
      PROVE  \E K, entries : StartsStream(p, K, entries)
  <2>1. {SetTo(k, v)} = {SetTo(j, v) : j \in {k}}
    OBVIOUS
  <2> QED BY <1>1, <1>2, <2>1 DEF Put
<1>3. ASSUME NEW k \in Keys, Delete(p, k)
      PROVE  \E K, entries : StartsStream(p, K, entries)
  <2>1. {SetTo(k, None)} = {SetTo(j, None) : j \in {k}}
    OBVIOUS
  <2> QED BY <1>1, <1>3, <2>1 DEF Delete
<1>4. ASSUME NEW K \in SUBSET Keys, NEW v \in Values \cup {None}, Claim(p, K, v)
      PROVE  \E J, entries : StartsStream(p, J, entries)
  BY <1>1, <1>4 DEF Claim
<1>5. ASSUME Purge(p)
      PROVE  \E K, entries : StartsStream(p, K, entries)
  <2> DEFINE e == [op |-> "purge", keys |-> InstKeys \cup Seqs, val |-> None]
  <2>1. e.keys = InstKeys \cup Seqs /\ e.op = "purge"
    OBVIOUS
  <2>2. \A s \in Seqs : ~(hist'[s] > 0)
    BY <1>5 DEF Purge
  <2>3. /\ up /\ pending[p] = {}
        /\ pending' = [pending EXCEPT ![p] = {e}]
        /\ (InstKeys \cup Seqs) \cap InFlight \cap Seqs = {}
        /\ UNCHANGED <<up, compactor, stage, tmp, snap, log, open, glued,
                       unsaved>>
    BY <1>5 DEF Purge, MayStart, Mutate
  <2> HIDE DEF e
  <2>4. StartsStream(p, InstKeys \cup Seqs, {e})
    BY <2>1, <2>2, <2>3 DEF StartsStream
  <2> QED BY <2>4
<1>6. ASSUME NEW s \in Seqs, AppendHistory(p, s)
      PROVE  \E K, entries : StartsStream(p, K, entries)
  <2> DEFINE e == [op |-> "hist", keys |-> {s}, val |-> None]
  <2>1. e.keys = {s} /\ e.op = "hist"
    OBVIOUS
  <2>2. hist'[s] > 0 /\ \A t \in Seqs \ {s} : hist'[t] = hist[t]
    BY <1>6 DEF AppendHistory, TypeOK
  <2>3. /\ up /\ pending[p] = {}
        /\ pending' = [pending EXCEPT ![p] = {e}]
        /\ {s} \cap InFlight \cap Seqs = {}
        /\ UNCHANGED <<up, compactor, stage, tmp, snap, log, open, glued,
                       unsaved>>
    BY <1>6 DEF AppendHistory, MayStart, Mutate
  <2> HIDE DEF e
  <2>4. StartsStream(p, {s}, {e})
    BY <2>1, <2>2, <2>3 DEF StartsStream
  <2> QED BY <2>4
<1> QED BY <1>2, <1>3, <1>4, <1>5, <1>6 DEF Operation

\* Starting an operation disturbs only the events it puts in flight.
LEMMA StartsStreamKeeps ==
    ASSUME TypeOK, HistoryInv, NEW p \in Procs, NEW K, NEW entries,
           StartsStream(p, K, entries)
    PROVE  HistoryInv'
<1> USE DEF HistoryInv
<1>1. /\ pending'[p] = entries
      /\ \A q \in Procs : q # p => pending'[q] = pending[q]
      /\ pending[p] = {}
  BY DEF StartsStream, TypeOK
<1>2. \A k : k \in InFlight' <=>
                \E q \in Procs : \E e \in pending'[q] : k \in e.keys
  BY DEF InFlight
<1>3. \A s \in Seqs : s \notin InFlight' => s \notin K /\ s \notin InFlight
  BY <1>1, <1>2, InFlightIs DEF StartsStream
<1>4. \A s \in Seqs \ K : hist'[s] = hist[s]
  BY DEF StartsStream
<1>5. OwedHistory'
  <2> SUFFICES ASSUME NEW q \in Procs, NEW e \in pending'[q]
               PROVE  /\ e.op = "set" => e.keys \cap Seqs = {}
                      /\ e.op = "purge" => Seqs \subseteq e.keys
                      /\ \A s \in e.keys \cap Seqs : hist'[s] > 0 <=> e.op = "hist"
    BY DEF OwedHistory
  <2>1. CASE q = p
    BY <1>1, <2>1 DEF StartsStream
  <2>2. CASE q # p
    <3>1. e \in pending[q] /\ \A s \in e.keys : s \in InFlight
      BY <1>1, <2>2, InFlightIs
    <3>2. \A s \in e.keys \cap Seqs : hist'[s] = hist[s]
      BY <1>4, <3>1 DEF StartsStream
    <3> QED BY <3>1, <3>2 DEF OwedHistory
  <2> QED BY <2>1, <2>2
<1>6. SnapshotHistory'
  BY <1>3, <1>4 DEF SnapshotHistory, StartsStream
<1>7. StreamKept'
  <2> SUFFICES ASSUME up', ~glued', NEW s \in Settled' \cap Seqs
               PROVE  hist'[s] > 0 <=> Streamed(s)'
    BY DEF StreamKept
  <2>1. s \in Settled /\ hist'[s] = hist[s] /\ up /\ ~glued
    BY <1>3, <1>4 DEF Settled, StartsStream
  <2>2. Streamed(s)' <=> Streamed(s)
    BY SameStreams DEF StartsStream
  <2> QED BY <2>1, <2>2 DEF StreamKept
<1> QED BY <1>5, <1>6, <1>7

\* A write that puts event s, or a purge of it, on disk leaves the stream as
\* memory has it, for the events it settles and for those it does not touch.
LEMMA WriteStreams ==
    ASSUME TypeOK, DurableInv, HistoryInv, up, NEW p \in Procs, NEW e \in pending[p],
           Write(e, FALSE), snap' = snap, hist' = hist, ~glued', NEW s \in Seqs,
           s \in e.keys \/ s \in Settled
    PROVE  hist'[s] > 0 <=> Streamed(s)'
<1> USE DEF HistoryInv
<1>1. ~glued /\ ~open /\ log' = Append(log, e) /\ e \in Entry
  BY DEF Write, TypeOK
<1>2. /\ e.op = "purge" => ~Streamed(s)'
      /\ e.op = "hist" /\ s \in e.keys => Streamed(s)'
      /\ e.op # "purge" /\ (s \notin e.keys \/ e.op = "set")
            => (Streamed(s)' <=> Streamed(s))
  BY <1>1, AppendStreams DEF DurableInv
<1>3. e.op \in {"set", "purge", "hist"}
  BY <1>1 DEF Entry
<1>4. /\ e.op = "set" => s \notin e.keys
      /\ e.op = "purge" => s \in e.keys
      /\ s \in e.keys => (hist[s] > 0 <=> e.op = "hist")
  BY DEF OwedHistory
<1>5. CASE s \in e.keys
  BY <1>2, <1>3, <1>4, <1>5
<1>6. CASE s \notin e.keys
  <2>1. hist[s] > 0 <=> Streamed(s)
    BY <1>1, <1>6 DEF StreamKept
  <2> QED BY <1>2, <1>3, <1>4, <1>6, <2>1
<1> QED BY <1>5, <1>6

\* Every step of writers, compaction, crash and recovery keeps the invariant of
\* the stream.
LEMMA HistoryStep ==
    ASSUME TypeOK, TypeOK', Shape, DurableInv, HistoryInv, [Next]_vars
    PROVE  HistoryInv'
<1> USE DEF HistoryInv
<1>1. ASSUME NEW p \in Procs, Operation(p)
      PROVE  HistoryInv'
  BY <1>1, OperationStartsStream, StartsStreamKeeps
<1>2. ASSUME NEW p \in Procs, NEW e \in pending[p], WriteLine(p, e)
      PROVE  HistoryInv'
  <2>1. /\ pending'[p] = pending[p] \ {e}
        /\ \A q \in Procs : q # p => pending'[q] = pending[q]
        /\ hist' = hist /\ snap' = snap /\ unsaved' = unsaved /\ up
        /\ Write(e, FALSE)
    BY <1>2 DEF WriteLine, TypeOK
  <2>2. OwedHistory'
    <3>1. \A q \in Procs : pending'[q] \subseteq pending[q]
      BY <2>1
    <3> QED BY <2>1, <3>1 DEF OwedHistory
  <2>3. SnapshotHistory'
    BY <1>2 DEF WriteLine, Shape, SnapshotHistory
  <2>4. StreamKept'
    <3> SUFFICES ASSUME ~glued', NEW s \in Settled' \cap Seqs
                 PROVE  hist'[s] > 0 <=> Streamed(s)'
      BY DEF StreamKept
    <3>1. /\ \A q \in Procs : \A f \in pending'[q] : s \notin f.keys
          /\ s \notin unsaved
      BY <2>1 DEF Settled, InFlight
    <3>2. s \in e.keys \/ s \notin InFlight
      BY <2>1, <3>1, InFlightIs
    <3>3. s \in e.keys \/ s \in Settled
      BY <3>1, <3>2 DEF Settled
    <3> QED BY <2>1, <3>3, WriteStreams
  <2> QED BY <2>2, <2>3, <2>4
<1>3. ASSUME NEW p \in Procs, GiveUp(p, pending[p]), up, UNCHANGED <<mem, hist, snap>>,
             stage' = "idle", glued => glued',
             ~glued' => \A s \in Settled \cap Settled' \cap Seqs :
                           hist'[s] > 0 <=> Streamed(s)'
      PROVE  HistoryInv'
  <2>1. Settled' \subseteq Settled
    BY <1>3, GiveUpKeeps
  <2>2. \A q \in Procs : pending'[q] \subseteq pending[q]
    BY <1>3 DEF GiveUp, TypeOK
  <2>3. OwedHistory'
    BY <1>3, <2>2 DEF OwedHistory
  <2>4. SnapshotHistory'
    BY <1>3 DEF SnapshotHistory
  <2>5. StreamKept'
    BY <1>3, <2>1 DEF StreamKept
  <2> QED BY <2>3, <2>4, <2>5
<1>4. ASSUME NEW p \in Procs, NEW e \in pending[p], NEW cut \in BOOLEAN,
             WriteFails(p, e, cut)
      PROVE  HistoryInv'
  <2>1. /\ GiveUp(p, pending[p]) /\ up /\ UNCHANGED <<mem, hist, snap>>
        /\ stage' = "idle"
    BY <1>4 DEF WriteFails, Shape
  <2>2. glued => glued'
    BY <1>4 DEF WriteFails, Write
  <2>3. ASSUME ~glued', NEW s \in Settled \cap Settled' \cap Seqs
        PROVE  hist'[s] > 0 <=> Streamed(s)'
    <3>1. ~glued /\ (log' = log \/ log' = Append(log, Corrupt))
      BY <1>4, <2>3 DEF WriteFails, Write, TypeOK
    <3>2. Streamed(s)' <=> Streamed(s)
      BY <2>1, <3>1, SameStreams
    <3> QED BY <2>1, <3>1, <3>2 DEF StreamKept
  <2> QED BY <1>3, <2>1, <2>2, <2>3
<1>5. ASSUME NEW p \in Procs, NEW e \in pending[p], SyncFails(p, e)
      PROVE  HistoryInv'
  <2>1. /\ GiveUp(p, pending[p]) /\ up /\ UNCHANGED <<mem, hist, snap>>
        /\ stage' = "idle" /\ Write(e, FALSE)
    BY <1>5 DEF SyncFails, Shape
  <2>2. glued => glued'
    BY <2>1 DEF Write
  <2>3. ASSUME ~glued', NEW s \in Settled \cap Settled' \cap Seqs
        PROVE  hist'[s] > 0 <=> Streamed(s)'
    BY <2>1, <2>3, WriteStreams
  <2> QED BY <1>3, <2>1, <2>2, <2>3
<1>6. ASSUME NEW p \in Procs, UNCHANGED <<mem, hist, snap, log, glued>>, up,
             GiveUp(p, pending[p]), stage' = "idle"
      PROVE  HistoryInv'
  <2>1. ASSUME ~glued', NEW s \in Settled \cap Settled' \cap Seqs
        PROVE  hist'[s] > 0 <=> Streamed(s)'
    <3>1. Streamed(s)' <=> Streamed(s)
      BY <1>6, SameStreams
    <3> QED BY <1>6, <2>1, <3>1 DEF StreamKept
  <2> QED BY <1>3, <1>6, <2>1
<1>7. ASSUME NEW p \in Procs, WriteRefused(p)
      PROVE  HistoryInv'
  BY <1>6, <1>7 DEF WriteRefused, Shape
<1>8. ASSUME CompactFails
      PROVE  HistoryInv'
  <2>1. compactor \in Procs
    BY <1>8 DEF CompactFails, Shape, TypeOK
  <2> QED BY <1>6, <1>8, <2>1 DEF CompactFails
<1>9. ASSUME Die
      PROVE  HistoryInv'
  BY <1>9 DEF Die, OwedHistory, SnapshotHistory, StreamKept
<1>10. ASSUME UNCHANGED <<up, hist, pending, snap, log, glued, unsaved>>, SnapshotHistory'
       PROVE  HistoryInv'
  <2>1. OwedHistory'
    BY <1>10 DEF OwedHistory
  <2>2. \A s \in Seqs : Streamed(s)' <=> Streamed(s)
    BY <1>10, SameStreams
  <2>3. StreamKept'
    BY <1>10, <2>2 DEF StreamKept, Settled, InFlight
  <2> QED BY <1>10, <2>1, <2>3
<1>11. ASSUME WriteSnapshot
       PROVE  HistoryInv'
  BY <1>10, <1>11 DEF WriteSnapshot, SnapshotHistory
<1>12. ASSUME NEW p \in Procs, Compact(p)
       PROVE  HistoryInv'
  BY <1>10, <1>12 DEF Compact, SnapshotHistory
<1>13. ASSUME RenameSnapshot
       PROVE  HistoryInv'
  <2>1. UNCHANGED <<up, hist, pending, log, glued, unsaved>>
        /\ stage = "rename" /\ stage' = "truncate" /\ snap' = tmp
    BY <1>13 DEF RenameSnapshot
  <2>2. OwedHistory'
    BY <2>1 DEF OwedHistory
  <2>3. InFlight' = InFlight
    BY <2>1 DEF InFlight
  <2>4. SnapshotHistory'
    BY <2>1, <2>3 DEF SnapshotHistory
  <2>5. StreamKept'
    <3> SUFFICES ASSUME up', ~glued', NEW s \in Settled' \cap Seqs
                 PROVE  hist'[s] > 0 <=> Streamed(s)'
      BY DEF StreamKept
    <3>1. s \in Settled /\ s \notin InFlight
      BY <2>1, <2>3 DEF Settled
    <3>2. hist[s] > 0 <=> Streamed(s)
      BY <2>1, <3>1 DEF StreamKept
    <3>3. snap'.hist[s] = hist[s]
      BY <2>1, <3>1 DEF SnapshotHistory
    <3>4. Purges' = Purges /\ Kept(s)' = Kept(s)
      BY <2>1 DEF Purges, Kept, Touching, ValidLines
    <3> QED BY <2>1, <3>2, <3>3, <3>4 DEF Streamed
  <2> QED BY <2>2, <2>4, <2>5
<1>14. ASSUME TruncateJournal
       PROVE  HistoryInv'
  <2>1. UNCHANGED <<up, hist, pending, snap>>
        /\ stage = "truncate" /\ stage' = "idle" /\ log' = <<>>
    BY <1>14 DEF TruncateJournal
  <2>2. OwedHistory' /\ SnapshotHistory'
    BY <2>1 DEF OwedHistory, SnapshotHistory
  <2>3. StreamKept'
    <3> SUFFICES ASSUME NEW s \in Settled' \cap Seqs
                 PROVE  hist'[s] > 0 <=> Streamed(s)'
      BY DEF StreamKept
    <3>1. s \notin InFlight
      BY <2>1 DEF Settled, InFlight
    <3>2. snap.hist[s] = hist[s]
      BY <2>1, <3>1 DEF SnapshotHistory
    <3>3. Purges' = {} /\ Kept(s)' = {}
      BY <2>1 DEF Purges, Kept, Touching, ValidLines
    <3> QED BY <2>1, <3>2, <3>3 DEF Streamed
  <2> QED BY <2>2, <2>3
<1>15. ASSUME Open
       PROVE  HistoryInv'
  <2>1. /\ \A q \in Procs : pending'[q] = {}
        /\ UNCHANGED <<log, snap>> /\ stage' = "idle"
        /\ hist' = [s \in Seqs |-> RecoveredHist(s)]
    BY <1>15, OpenLoads DEF Open, Shape
  <2>2. OwedHistory' /\ SnapshotHistory'
    BY <2>1 DEF OwedHistory, SnapshotHistory
  <2>3. \A s \in Seqs : hist'[s] > 0 <=> Streamed(s)
    BY <2>1, StreamedIs DEF Replayed
  <2>4. \A s \in Seqs : Streamed(s)' <=> Streamed(s)
    BY <2>1, SameStreams
  <2>5. StreamKept'
    BY <2>3, <2>4 DEF StreamKept
  <2> QED BY <2>2, <2>5
<1>16. ASSUME UNCHANGED vars
       PROVE  HistoryInv'
  BY <1>10, <1>16 DEF vars, SnapshotHistory, InFlight
<1> QED
  BY <1>1, <1>2, <1>4, <1>5, <1>7, <1>8, <1>9, <1>11, <1>12, <1>13, <1>14, <1>15, <1>16
  DEF Next, AppendStep, Compaction, TornCrash, Crash

\* A new store has an empty stream.
LEMMA InitHistory == Init => HistoryInv
<1> SUFFICES ASSUME Init PROVE HistoryInv
  OBVIOUS
<1>1. \A p \in Procs : pending[p] = {}
  BY DEF Init
<1>2. log = <<>> /\ stage = "idle" /\ snap.hist = hist
  BY DEF Init, Blank
<1>3. Purges = {} /\ \A s : Kept(s) = {}
  BY <1>2 DEF Purges, Kept, Touching, ValidLines
<1> QED BY <1>1, <1>2, <1>3
        DEF HistoryInv, OwedHistory, SnapshotHistory, StreamKept, Streamed

\* An acknowledged history event survives a crash at any point, and an event
\* that was purged does not come back.
THEOREM HistoryIsKept == Spec => []HistoryKept
<1>1. Init => TypeOK /\ Shape /\ DurableInv /\ HistoryInv
  BY InitTyped, InitDurable, InitHistory
<1>2. TypeOK /\ Shape /\ DurableInv /\ HistoryInv /\ [Next]_vars
        => (TypeOK /\ Shape /\ DurableInv /\ HistoryInv)'
  BY TypeStep, ShapeStep, DurableStep, HistoryStep
<1>3. TypeOK /\ HistoryInv => HistoryKept
  BY StreamedIs DEF HistoryInv, StreamKept, HistoryKept, Replayed
<1> QED BY <1>1, <1>2, <1>3, PTL DEF Spec

------------------------------------------------------------------------------
\* Whatever snapshot and journal the disk holds, load's loop ends with the last
\* value of every record, the events since the last purge and the number of lines
\* before the first damaged one.
THEOREM ReplayGivesLastLine == Spec => []ReplayIsLastLine
<1>1. Init => TypeOK /\ Shape
  BY InitTyped
<1>2. TypeOK /\ Shape /\ [Next]_vars => (TypeOK /\ Shape)'
  BY TypeStep, ShapeStep
<1>3. TypeOK => ReplayIsLastLine
  BY LoadMeans
<1> QED BY <1>1, <1>2, <1>3, PTL DEF Spec

------------------------------------------------------------------------------
(***************************************************************************)
(* Journal implements DurableStore: every step of a writer, a compaction,  *)
(* a crash and a recovery is a step of the crash-safe store its callers    *)
(* rely on, or leaves that store unchanged.                                *)
(***************************************************************************)

\* The image a compaction has written and not yet renamed is, for a record
\* whose operations did not fail, what memory holds or what the files on disk
\* already yield: renaming it takes no record back.
SnapshotPossible ==
    stage = "rename" /\ ~glued =>
        \A k \in Serialised \ unsaved :
            tmp.mem[k] = mem[k] \/ Recovers(k, tmp.mem[k])

RefinementInv == TypeOK /\ Shape /\ DurableInv /\ SnapshotPossible

\* Recovery leaves one value under a key.
LEMMA RecoversOne ==
    ASSUME TypeOK, NEW k \in Keys, NEW v, NEW w, Recovers(k, v), Recovers(k, w)
    PROVE  v = w
<1>1. CASE Touching(k) = {}
  BY <1>1 DEF Recovers
<1>2. CASE Touching(k) # {}
  <2>1. PICK i \in Touching(k) :
               (\A m \in Touching(k) : m <= i) /\ v = log[i].val
    BY <1>2 DEF Recovers
  <2>2. PICK j \in Touching(k) :
               (\A m \in Touching(k) : m <= j) /\ w = log[j].val
    BY <1>2 DEF Recovers
  <2>3. i \in Nat /\ j \in Nat
    BY ValidLineTyped DEF Touching
  <2> QED BY <2>1, <2>2, <2>3
<1> QED BY <1>1, <1>2

\* What a key recovers to is what OpenJournal puts in memory under it.
Determined ==
    TypeOK => \A k \in Keys : /\ Recovered(k) \in Values \cup {None}
                              /\ Recovers(k, Recovered(k))
                              /\ \A v : Recovers(k, v) => Recovered(k) = v

\* The snapshot and the lines determine what recovery yields for each key.
LEMMA RecoveredIs == Determined
BY RecoversOne, RecoveredTyped DEF Determined

\* The same after a step.
LEMMA RecoveredIsNext == Determined'
BY RecoveredIs, PTL

\* Recovery depends on the two files only.
LEMMA FilesDecide ==
    ASSUME TypeOK, TypeOK', UNCHANGED <<log, snap>>, NEW k \in Keys
    PROVE  Recovered(k)' = Recovered(k)
<1>1. Recovers(k, Recovered(k))
  BY RecoveredTyped
<1>2. Recovers(k, Recovered(k)) => \E v : v = Recovered(k) /\ Recovers(k, v)
  OBVIOUS
<1>3. PICK v : v = Recovered(k) /\ Recovers(k, v)
  BY <1>1, <1>2
<1>4. Recovers(k, v)'
  BY <1>3, SameFilesRecover
<1> QED BY <1>3, <1>4, RecoveredIsNext DEF Determined

\* A line appended to a sound file decides what its records recover to and
\* leaves the others.
LEMMA LineDecides ==
    ASSUME TypeOK, TypeOK', CorruptLast, ~glued, ~open, NEW e \in Entry,
           log' = Append(log, e), snap' = snap, NEW k \in Keys
    PROVE  /\ k \in e.keys => Recovered(k)' = e.val
           /\ k \notin e.keys => Recovered(k)' = Recovered(k)
<1>1. CASE k \in e.keys
  <2>1. Recovers(k, e.val)'
    BY <1>1, AppendRecovers
  <2> QED BY <1>1, <2>1, RecoveredIsNext DEF Determined
<1>2. CASE k \notin e.keys
  <2>1. PICK v : v = Recovered(k) /\ Recovers(k, v)
    BY RecoveredTyped
  <2>2. Recovers(k, v)'
    BY <1>2, <2>1, AppendRecovers
  <2> QED BY <1>2, <2>1, <2>2, RecoveredIsNext DEF Determined
<1> QED BY <1>1, <1>2

\* A line cut short is not replayed.
LEMMA CutLineIgnored ==
    ASSUME TypeOK, TypeOK', log' = Append(log, Corrupt), snap' = snap,
           NEW k \in Keys
    PROVE  Recovered(k)' = Recovered(k)
<1>1. PICK v : v = Recovered(k) /\ Recovers(k, v)
  BY RecoveredTyped
<1>2. Recovers(k, v)'
  BY <1>1, AppendCorruptRecovers
<1> QED BY <1>1, <1>2, RecoveredIsNext DEF Determined

------------------------------------------------------------------------------
\* The steps of the abstract store.

\* The states of the journal show the abstract store values of its type.
LEMMA StoreTyped ==
    ASSUME TypeOK, TypeOK'
    PROVE  /\ [k \in Serialised |-> Recovered(k)]' \in [Serialised -> Values \cup {None}]
           /\ [k \in Serialised |-> mem[k]]' \in [Serialised -> Values \cup {None}]
<1>1. \A k \in Serialised : k \in Keys
  BY JournalAssumption
<1>2. \A k \in Serialised : Recovered(k)' \in Values \cup {None}
  BY <1>1, RecoveredIsNext DEF Determined
<1>3. \A k \in Serialised : mem'[k] \in Values \cup {None}
  BY <1>1 DEF TypeOK
<1> QED BY <1>2, <1>3

\* An append or a rename on a sound file, whether its operation returns
\* successfully, with an error or not yet.
LEMMA CommitStep ==
    ASSUME TypeOK, TypeOK', up, up' = up, mem' = mem, glued' = glued,
           InFlight' \subseteq InFlight, unsaved' \subseteq InFlight \cup unsaved,
           \A k \in Serialised : \/ Recovered(k)' = Recovered(k)
                                 \/ k \in InFlight /\ Recovered(k)' = mem[k]
                                 \/ k \in unsaved,
           \A k \in Serialised : /\ k \in InFlight \cup unsaved
                                 /\ k \notin InFlight' \cup unsaved'
                                 => Recovered(k)' = mem[k]
    PROVE  Store!Commit
<1> DEFINE dur == [k \in Serialised |-> Recovered(k)]
           sta == [k \in Serialised |-> mem[k]]
<1>1. dur' \in [Serialised -> Values \cup {None}] /\ sta' = sta
  BY StoreTyped
<1>2. \A k \in Serialised : dur'[k] = Recovered(k)' /\ dur[k] = Recovered(k)
                            /\ sta[k] = mem[k]
  OBVIOUS
<1> HIDE DEF dur, sta
<1>3. \A k \in Serialised : dur'[k] \in Values \cup {None}
  BY <1>1
<1>4. \A k \in Serialised :
        dur'[k] \in {dur[k]}
           \cup (IF k \in Serialised \cap InFlight THEN {sta[k]} ELSE {})
           \cup (IF k \in Serialised \cap unsaved THEN Values \cup {None} ELSE {})
  BY <1>2, <1>3
<1>5. Store!Follows
  BY <1>1, <1>4 DEF Store!Follows, Store!MayBecome, dur, sta
<1>6. \A k \in ((Serialised \cap InFlight) \cup (Serialised \cap unsaved))
               \ ((Serialised \cap InFlight)' \cup (Serialised \cap unsaved)') :
        dur'[k] = sta[k]
  BY <1>2
<1> QED BY <1>1, <1>5, <1>6 DEF Store!Commit, dur, sta

\* A write that continues an unterminated line, and every step after it.
LEMMA DamageStep ==
    ASSUME up' = up, mem' = mem, glued' = TRUE,
           InFlight' \subseteq InFlight, unsaved' \subseteq InFlight \cup unsaved
    PROVE  Store!Damage
BY DEF Store!Damage

\* A process that dies keeps what its files yield.
LEMMA FallStep ==
    ASSUME TypeOK, TypeOK', Die, glued => glued',
           ~glued' => \A k \in Serialised :
                         \/ Recovered(k)' = Recovered(k)
                         \/ k \in InFlight /\ Recovered(k)' = mem[k]
    PROVE  Store!Fall
<1> DEFINE dur == [k \in Serialised |-> Recovered(k)]
           sta == [k \in Serialised |-> mem[k]]
<1>1. dur' \in [Serialised -> Values \cup {None}]
  BY StoreTyped
<1>2. \A k \in Serialised : dur'[k] = Recovered(k)' /\ dur[k] = Recovered(k)
                            /\ sta[k] = mem[k]
  OBVIOUS
<1>3. up /\ up' = FALSE /\ unsaved' = {} /\ InFlight' = {}
  BY NothingOwed DEF Die
<1> HIDE DEF dur, sta
<1>4. ~glued' => Store!Follows
  <2> SUFFICES ASSUME ~glued' PROVE Store!Follows
    OBVIOUS
  <2>1. \A k \in Serialised :
        dur'[k] \in {dur[k]}
           \cup (IF k \in Serialised \cap InFlight THEN {sta[k]} ELSE {})
           \cup (IF k \in Serialised \cap unsaved THEN Values \cup {None} ELSE {})
    BY <1>2
  <2> QED BY <1>1, <2>1 DEF Store!Follows, Store!MayBecome, dur, sta
<1>5. (Serialised \cap InFlight)' = {} /\ (Serialised \cap unsaved)' = {}
  BY <1>3
<1> QED BY <1>3, <1>4, <1>5 DEF Store!Fall

\* A failed operation puts its records in doubt, and only them.
LEMMA GiveUpReturns ==
    ASSUME TypeOK, NEW p \in Procs, GiveUp(p, pending[p])
    PROVE  /\ InFlight' \subseteq InFlight
           /\ unsaved' \subseteq InFlight \cup unsaved
           /\ InFlight \cup unsaved \subseteq InFlight' \cup unsaved'
<1>1. /\ pending'[p] = {}
      /\ \A q \in Procs : q # p => pending'[q] = pending[q]
  BY DEF GiveUp, TypeOK
<1>2. \A k : k \in unsaved' <=> k \in unsaved \/ \E e \in pending[p] : k \in e.keys
  BY DEF GiveUp
<1>3. \A k : k \in InFlight' <=> \E q \in Procs : \E e \in pending'[q] : k \in e.keys
  BY DEF InFlight
<1>4. InFlight' \subseteq InFlight
  BY <1>1, <1>3, InFlightIs
<1>5. unsaved' \subseteq InFlight \cup unsaved
  BY <1>2, InFlightIs
<1>6. InFlight \cup unsaved \subseteq InFlight' \cup unsaved'
  BY <1>1, <1>2, <1>3, InFlightIs
<1> QED BY <1>4, <1>5, <1>6

------------------------------------------------------------------------------
\* A record that starts to change after the image was written is one whose
\* image the files already yield.
LEMMA PossibleStep ==
    ASSUME RefinementInv, [Next]_vars
    PROVE  SnapshotPossible'
<1> USE DEF RefinementInv
<1> SUFFICES ASSUME stage' = "rename", ~glued', NEW k \in Serialised, k \notin unsaved'
             PROVE  (tmp.mem[k] = mem[k] \/ Recovers(k, tmp.mem[k]))'
  BY DEF SnapshotPossible
<1>1. CASE WriteSnapshot
  BY <1>1 DEF WriteSnapshot
<1>2. ASSUME NEW p \in Procs, Operation(p)
      PROVE  (tmp.mem[k] = mem[k] \/ Recovers(k, tmp.mem[k]))'
  <2>1. PICK K, entries : Starts(p, K, entries)
    BY <1>2, OperationStarts
  <2>2. UNCHANGED <<up, stage, tmp, snap, log, glued, unsaved>> /\ up
    BY <2>1 DEF Starts
  <2>3. tmp.mem[k] = mem[k] \/ Recovers(k, tmp.mem[k])
    BY <2>2 DEF SnapshotPossible
  <2>4. Recovers(k, tmp.mem[k]) => Recovers(k, tmp.mem[k])'
    BY <2>2 DEF Recovers, Touching, ValidLines
  <2>5. CASE k \notin K
    <3>1. mem'[k] = mem[k]
      BY <2>1, <2>5, JournalAssumption DEF Starts
    <3> QED BY <2>2, <2>3, <2>4, <3>1
  <2>6. CASE k \in K
    <3>1. k \notin InFlight /\ k \notin unsaved
      BY <2>1, <2>2, <2>6 DEF Starts
    <3>2. tmp.mem[k] = mem[k]
      BY <2>2, <3>1 DEF DurableInv, SnapshotCurrent, Quiet
    <3>3. Recovers(k, mem[k])
      BY <2>2, <3>1, JournalAssumption DEF DurableInv, Durable, Settled
    <3> QED BY <2>4, <3>2, <3>3
  <2> QED BY <2>5, <2>6
<1>3. CASE UNCHANGED <<mem, tmp, snap, log, stage, glued, unsaved>>
  BY <1>3 DEF SnapshotPossible, Recovers, Touching, ValidLines
<1>4. ASSUME NEW p \in Procs, AppendStep(p)
      PROVE  FALSE
  <2>1. ASSUME NEW e \in pending[p], WriteLine(p, e)
        PROVE  FALSE
    BY <2>1 DEF WriteLine, Shape
  <2>2. ASSUME NEW e \in pending[p], NEW cut \in BOOLEAN, WriteFails(p, e, cut)
        PROVE  FALSE
    BY <2>2 DEF WriteFails, Shape
  <2>3. ASSUME NEW e \in pending[p], SyncFails(p, e)
        PROVE  FALSE
    BY <2>3 DEF SyncFails, Shape
  <2>4. ASSUME NEW e \in pending[p], NEW whole \in BOOLEAN, TornCrash(p, e, whole)
        PROVE  FALSE
    BY <2>4 DEF TornCrash, Die
  <2>5. ASSUME WriteRefused(p)
        PROVE  FALSE
    BY <2>5 DEF WriteRefused, Shape
  <2> QED BY <1>4, <2>1, <2>2, <2>3, <2>4, <2>5 DEF AppendStep
<1>5. ASSUME RenameSnapshot \/ TruncateJournal \/ CompactFails \/ Crash
             \/ (\E p \in Procs : Compact(p))
      PROVE  FALSE
  BY <1>5 DEF RenameSnapshot, TruncateJournal, CompactFails, Crash, Die, Compact
<1>6. ASSUME Open
      PROVE  FALSE
  BY <1>6 DEF Open, Shape
<1>7. UNCHANGED vars => UNCHANGED <<mem, tmp, snap, log, stage, glued, unsaved>>
  BY DEF vars
<1> QED BY <1>1, <1>2, <1>3, <1>4, <1>5, <1>6, <1>7 DEF Next, Compaction

\* A store operation's first step: callers see its effect at once, and the
\* disk does not.
LEMMA BeginStep ==
    ASSUME RefinementInv, TypeOK', NEW p \in Procs, Operation(p)
    PROVE  Store!Begin
<1> USE DEF RefinementInv
<1>1. PICK K, entries : Starts(p, K, entries)
  BY OperationStarts
<1>2. /\ up /\ UNCHANGED <<up, snap, log, glued, unsaved>>
      /\ pending'[p] = entries /\ pending[p] = {}
      /\ \A q \in Procs : q # p => pending'[q] = pending[q]
  BY <1>1 DEF Starts, TypeOK
<1>3. \A k : k \in InFlight' <=> \E q \in Procs : \E e \in pending'[q] : k \in e.keys
  BY DEF InFlight
<1>4. InFlight \subseteq InFlight'
  BY <1>2, <1>3, InFlightIs
<1>5. \A k \in Serialised : k \notin InFlight' => mem'[k] = mem[k]
  BY <1>1, <1>2, <1>3, JournalAssumption DEF Starts
<1>6. [k \in Serialised |-> Recovered(k)]' = [k \in Serialised |-> Recovered(k)]
  <2>1. \A k \in Serialised : Recovered(k)' = Recovered(k)
    BY <1>2, FilesDecide, JournalAssumption
  <2> QED BY <2>1
<1>7. [k \in Serialised |-> mem[k]]' \in [Serialised -> Values \cup {None}]
  BY StoreTyped
<1> QED BY <1>2, <1>4, <1>5, <1>6, <1>7 DEF Store!Begin

\* A line written whole.
LEMMA WriteLineRefines ==
    ASSUME RefinementInv, TypeOK', NEW p \in Procs, NEW e \in pending[p],
           WriteLine(p, e)
    PROVE  Store!Commit \/ Store!Damage
<1> USE DEF RefinementInv
<1>1. /\ e \in Entry /\ Write(e, FALSE) /\ up
      /\ UNCHANGED <<up, mem, snap, unsaved>>
      /\ pending'[p] = pending[p] \ {e}
      /\ \A q \in Procs : q # p => pending'[q] = pending[q]
  BY DEF WriteLine, TypeOK
<1>2. \A k : k \in InFlight' <=> \E q \in Procs : \E f \in pending'[q] : k \in f.keys
  BY DEF InFlight
<1>3. InFlight' \subseteq InFlight
  BY <1>1, <1>2, InFlightIs
<1>4. CASE glued'
  BY <1>1, <1>3, <1>4, DamageStep
<1>5. CASE ~glued'
  <2>1. ~glued /\ ~open /\ log' = Append(log, e) /\ glued' = glued
    BY <1>1, <1>5 DEF Write, TypeOK
  <2>2. \A k \in Serialised : k \in e.keys => k \in InFlight /\ mem[k] = e.val
    BY InFlightIs DEF DurableInv, OwedAgree
  <2>3. \A k \in Serialised :
           /\ k \in e.keys => Recovered(k)' = mem[k]
           /\ k \notin e.keys => Recovered(k)' = Recovered(k)
    BY <1>1, <2>1, <2>2, LineDecides, JournalAssumption DEF DurableInv
  <2>4. \A k \in Serialised : k \in InFlight /\ k \notin InFlight' => k \in e.keys
    BY <1>1, <1>2, InFlightIs
  <2> QED BY <1>1, <1>3, <2>1, <2>2, <2>3, <2>4, CommitStep
<1> QED BY <1>4, <1>5

\* An operation that returns an error.
LEMMA ErrorRefines ==
    ASSUME RefinementInv, TypeOK', NEW p \in Procs, GiveUp(p, pending[p]), up,
           UNCHANGED <<up, mem>>, glued => glued',
           ~glued' => \A k \in Serialised :
                         \/ Recovered(k)' = Recovered(k)
                         \/ k \in InFlight /\ Recovered(k)' = mem[k]
    PROVE  Store!Commit \/ Store!Damage
<1> USE DEF RefinementInv
<1>1. /\ InFlight' \subseteq InFlight
      /\ unsaved' \subseteq InFlight \cup unsaved
      /\ InFlight \cup unsaved \subseteq InFlight' \cup unsaved'
  BY GiveUpReturns
<1>2. CASE glued'
  BY <1>1, <1>2, DamageStep
<1>3. CASE ~glued'
  <2>1. glued' = glued
    BY <1>3 DEF TypeOK
  <2> QED BY <1>1, <1>3, <2>1, CommitStep
<1> QED BY <1>2, <1>3

\* What a line that reaches the file, whole or cut short, makes of a record.
LEMMA WriteFollows ==
    ASSUME RefinementInv, TypeOK', NEW p \in Procs, NEW e \in pending[p],
           NEW f \in {e, Corrupt}, NEW cut \in BOOLEAN,
           Write(f, cut), snap' = snap, ~glued', NEW k \in Serialised
    PROVE  \/ Recovered(k)' = Recovered(k)
           \/ k \in InFlight /\ Recovered(k)' = mem[k]
<1> USE DEF RefinementInv
<1>1. ~glued /\ ~open /\ log' = Append(log, f) /\ e \in Entry /\ k \in Keys
  BY JournalAssumption DEF Write, TypeOK
<1>2. CASE f = Corrupt
  BY <1>1, <1>2, CutLineIgnored
<1>3. CASE f = e
  <2>1. k \in e.keys => k \in InFlight /\ mem[k] = e.val
    BY InFlightIs DEF DurableInv, OwedAgree
  <2> QED BY <1>1, <1>3, <2>1, LineDecides DEF DurableInv
<1> QED BY <1>2, <1>3

\* The snapshot is renamed into place: a record no replayed line touches takes
\* its value.
LEMMA RenameRefines ==
    ASSUME RefinementInv, TypeOK', RenameSnapshot
    PROVE  Store!Commit \/ Store!Damage
<1> USE DEF RefinementInv
<1>1. UNCHANGED <<up, mem, pending, log, glued, unsaved>>
      /\ up /\ stage = "rename" /\ snap' = tmp
  BY DEF RenameSnapshot
<1>2. InFlight' = InFlight
  BY <1>1 DEF InFlight
<1>3. CASE glued'
  BY <1>1, <1>2, <1>3, DamageStep
<1>4. CASE ~glued'
  <2>1. ASSUME NEW k \in Serialised
        PROVE  \/ Recovered(k)' = Recovered(k)
               \/ k \in InFlight /\ Recovered(k)' = mem[k]
               \/ k \in unsaved
    <3>1. Touching(k)' = Touching(k) /\ k \in Keys
      BY <1>1, JournalAssumption DEF Touching, ValidLines
    <3>2. CASE Touching(k) # {}
      <4>1. PICK v : v = Recovered(k) /\ Recovers(k, v)
        BY <3>1, RecoveredTyped
      <4>2. Recovers(k, v)'
        BY <1>1, <3>1, <3>2, <4>1 DEF Recovers
      <4> QED BY <3>1, <4>1, <4>2, RecoveredIsNext DEF Determined
    <3>3. CASE Touching(k) = {} /\ k \notin unsaved
      <4>1. PICK v : v = tmp.mem[k]
        OBVIOUS
      <4>2. Recovers(k, v)'
        BY <1>1, <3>1, <3>3, <4>1 DEF Recovers
      <4>3. Recovered(k)' = v
        BY <3>1, <4>2, RecoveredIsNext DEF Determined
      <4>4. v = mem[k] \/ Recovered(k) = v
        BY <1>1, <1>4, <3>1, <3>3, <4>1, RecoveredIs DEF SnapshotPossible, Determined
      <4>5. k \notin InFlight => Recovered(k) = mem[k]
        BY <1>1, <1>4, <3>1, <3>3, RecoveredIs
        DEF DurableInv, Durable, Settled, Determined
      <4> QED BY <4>3, <4>4, <4>5
    <3> QED BY <3>2, <3>3
  <2> QED BY <1>1, <1>2, <2>1, CommitStep
<1> QED BY <1>3, <1>4

\* The journal is truncated: what the snapshot holds is what is in memory.
LEMMA TruncateRefines ==
    ASSUME RefinementInv, TypeOK', TruncateJournal
    PROVE  Store!Checkpoint
<1> USE DEF RefinementInv
<1>1. /\ UNCHANGED <<up, mem, pending, snap>>
      /\ up /\ stage = "truncate" /\ log' = <<>> /\ unsaved' = {} /\ glued' = FALSE
  BY DEF TruncateJournal
<1>2. InFlight' = InFlight
  BY <1>1 DEF InFlight
<1>3. ASSUME NEW k \in Serialised, k \notin InFlight
      PROVE  Recovered(k)' = mem[k]
  <2>1. Touching(k)' = {} /\ k \in Keys
    BY <1>1, JournalAssumption DEF Touching, ValidLines
  <2>2. PICK v : v = mem[k]
    OBVIOUS
  <2>3. snap.mem[k] = v
    BY <1>1, <1>3, <2>2 DEF DurableInv, SnapshotCurrent, Quiet
  <2>4. Recovers(k, v)'
    BY <1>1, <2>1, <2>3 DEF Recovers
  <2> QED BY <2>1, <2>2, <2>4, RecoveredIsNext DEF Determined
<1> QED BY <1>1, <1>2, <1>3 DEF Store!Checkpoint

\* A step that touches neither memory nor the files nor who is waiting.
LEMMA Stutters ==
    ASSUME TypeOK, TypeOK', UNCHANGED <<up, mem, pending, snap, log, glued, unsaved>>
    PROVE  UNCHANGED Store!dvars
<1>1. InFlight' = InFlight
  BY DEF InFlight
<1>2. \A k \in Serialised : Recovered(k)' = Recovered(k)
  BY FilesDecide, JournalAssumption
<1> QED BY <1>1, <1>2 DEF Store!dvars

\* Every step of the journal is a step of the abstract store or a stutter.
LEMMA RefinementStep ==
    ASSUME RefinementInv, TypeOK', [Next]_vars
    PROVE  [Store!DNext]_(Store!dvars)
<1> USE DEF RefinementInv
<1>1. ASSUME NEW p \in Procs, Operation(p)
      PROVE  Store!Begin
  BY <1>1, BeginStep
<1>2. ASSUME NEW p \in Procs, NEW e \in pending[p], WriteLine(p, e)
      PROVE  Store!Commit \/ Store!Damage
  BY <1>2, WriteLineRefines
<1>3. ASSUME NEW p \in Procs, NEW e \in pending[p], NEW cut \in BOOLEAN,
             WriteFails(p, e, cut)
      PROVE  Store!Commit \/ Store!Damage
  <2>1. /\ GiveUp(p, pending[p]) /\ up /\ UNCHANGED <<up, mem, snap>>
        /\ IF cut THEN Write(Corrupt, TRUE) ELSE UNCHANGED <<log, open, glued>>
    BY <1>3 DEF WriteFails
  <2>2. glued => glued'
    BY <2>1 DEF Write
  <2>3. ~glued' => \A k \in Serialised :
                         \/ Recovered(k)' = Recovered(k)
                         \/ k \in InFlight /\ Recovered(k)' = mem[k]
    <3>1. CASE cut
      BY <2>1, <3>1, WriteFollows
    <3>2. CASE ~cut
      BY <2>1, <3>2, FilesDecide, JournalAssumption
    <3> QED BY <3>1, <3>2
  <2> QED BY <2>1, <2>2, <2>3, ErrorRefines
<1>4. ASSUME NEW p \in Procs, NEW e \in pending[p], SyncFails(p, e)
      PROVE  Store!Commit \/ Store!Damage
  <2>1. /\ GiveUp(p, pending[p]) /\ up /\ UNCHANGED <<up, mem, snap>>
        /\ Write(e, FALSE)
    BY <1>4 DEF SyncFails
  <2>2. glued => glued'
    BY <2>1 DEF Write
  <2>3. ~glued' => \A k \in Serialised :
                         \/ Recovered(k)' = Recovered(k)
                         \/ k \in InFlight /\ Recovered(k)' = mem[k]
    BY <2>1, WriteFollows
  <2> QED BY <2>1, <2>2, <2>3, ErrorRefines
<1>5. ASSUME NEW p \in Procs, WriteRefused(p)
      PROVE  Store!Commit \/ Store!Damage
  <2>1. GiveUp(p, pending[p]) /\ up /\ UNCHANGED <<up, mem, snap, log, glued>>
    BY <1>5 DEF WriteRefused
  <2>2. \A k \in Serialised : Recovered(k)' = Recovered(k)
    BY <2>1, FilesDecide, JournalAssumption
  <2> QED BY <2>1, <2>2, ErrorRefines
<1>6. ASSUME CompactFails
      PROVE  Store!Commit \/ Store!Damage
  <2>1. compactor \in Procs
    BY <1>6 DEF CompactFails, Shape, TypeOK
  <2>2. /\ GiveUp(compactor, pending[compactor]) /\ up
        /\ UNCHANGED <<up, mem, snap, log, glued>>
    BY <1>6 DEF CompactFails
  <2>3. \A k \in Serialised : Recovered(k)' = Recovered(k)
    BY <2>2, FilesDecide, JournalAssumption
  <2> QED BY <2>1, <2>2, <2>3, ErrorRefines
<1>7. ASSUME NEW p \in Procs, NEW e \in pending[p], NEW whole \in BOOLEAN,
             TornCrash(p, e, whole)
      PROVE  Store!Fall
  <2>1. /\ Die /\ snap' = snap
        /\ Write(IF whole THEN e ELSE Corrupt, TRUE)
    BY <1>7 DEF TornCrash, Die
  <2>2. glued => glued'
    BY <2>1 DEF Write
  <2>3. (IF whole THEN e ELSE Corrupt) \in {e, Corrupt}
    OBVIOUS
  <2>4. ~glued' => \A k \in Serialised :
                         \/ Recovered(k)' = Recovered(k)
                         \/ k \in InFlight /\ Recovered(k)' = mem[k]
    BY <2>1, <2>3, WriteFollows
  <2> QED BY <2>1, <2>2, <2>4, FallStep
<1>8. ASSUME Crash
      PROVE  Store!Fall
  <2>1. Die /\ UNCHANGED <<snap, log, glued>>
    BY <1>8 DEF Crash, Die
  <2>2. \A k \in Serialised : Recovered(k)' = Recovered(k)
    BY <2>1, FilesDecide, JournalAssumption
  <2> QED BY <2>1, <2>2, FallStep
<1>9. ASSUME Open
      PROVE  Store!Restart
  <2>1. /\ ~up /\ up' = TRUE /\ mem' = [k \in Keys |-> Recovered(k)]
        /\ UNCHANGED <<pending, snap, log, glued, unsaved>>
    BY <1>9, OpenLoads DEF Open
  <2>2. InFlight' = InFlight
    BY <2>1 DEF InFlight
  <2>3. \A k \in Serialised : k \in Keys /\ Recovered(k)' = Recovered(k)
    BY <2>1, FilesDecide, JournalAssumption
  <2>4. [k \in Serialised |-> mem[k]]' = [k \in Serialised |-> Recovered(k)]
    BY <2>1, <2>3
  <2> QED BY <2>1, <2>2, <2>3, <2>4 DEF Store!Restart
<1>10. ASSUME WriteSnapshot \/ (\E p \in Procs : Compact(p)) \/ UNCHANGED vars
       PROVE  UNCHANGED Store!dvars
  BY <1>10, Stutters DEF WriteSnapshot, Compact, vars
<1>11. ASSUME RenameSnapshot
       PROVE  Store!Commit \/ Store!Damage
  BY <1>11, RenameRefines
<1>12. ASSUME TruncateJournal
       PROVE  Store!Checkpoint
  BY <1>12, TruncateRefines
<1> QED
  BY <1>1, <1>2, <1>3, <1>4, <1>5, <1>6, <1>7, <1>8, <1>9, <1>10, <1>11, <1>12
  DEF Next, AppendStep, Compaction, Store!DNext

\* A new journal is a new store.
LEMMA RefinementInit ==
    ASSUME Init
    PROVE  RefinementInv /\ Store!DInit
<1>1. TypeOK /\ Shape /\ DurableInv /\ SnapshotPossible
  BY InitTyped, InitDurable DEF Init, SnapshotPossible
<1>2. /\ up = TRUE /\ glued = FALSE /\ unsaved = {}
      /\ \A p \in Procs : pending[p] = {}
  BY DEF Init
<1>3. InFlight = {}
  BY <1>2 DEF InFlight
<1>4. \A k \in Serialised : Recovered(k) = mem[k]
  BY <1>1, <1>2, <1>3, RecoveredIs, JournalAssumption
  DEF DurableInv, Durable, Settled, Determined
<1>5. \A k \in Serialised : mem[k] \in Values \cup {None}
  BY <1>1, JournalAssumption DEF TypeOK
<1>6. Store!DInit
  BY <1>2, <1>3, <1>4, <1>5 DEF Store!DInit
<1> QED BY <1>1, <1>6 DEF RefinementInv

\* The journal implements the crash-safe store, record by record: an operation
\* that returned is on disk, one that was running when the process died leaves
\* the old or the new value, and one that failed is in doubt until the next
\* compaction; nothing else ever changes what a restart would find.
THEOREM JournalImplementsStore == Spec => Refinement
<1>1. Init => RefinementInv /\ Store!DInit
  BY RefinementInit
<1>2. RefinementInv /\ [Next]_vars => RefinementInv'
  BY TypeStep, ShapeStep, DurableStep, PossibleStep DEF RefinementInv
<1>3. RefinementInv /\ RefinementInv' /\ [Next]_vars => [Store!DNext]_(Store!dvars)
  BY RefinementStep DEF RefinementInv
<1> QED BY <1>1, <1>2, <1>3, PTL DEF Spec, Refinement, Store!DSpec
==============================================================================
