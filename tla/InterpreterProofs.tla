-------------------------- MODULE InterpreterProofs --------------------------
(***************************************************************************)
(* What the operators of module Interpreter keep, whatever the process     *)
(* model: a world stays well typed, and tokens and side records stay       *)
(* linked.  Module EngineProofs turns these lemmas into theorems about the *)
(* engine.                                                                 *)
(***************************************************************************)
EXTENDS Interpreter, TLAPS, FiniteSetTheorems, SequenceTheorems

------------------------------------------------------------------------------
\* Well-typed worlds: every id that is mentioned is at most n, the highest one.

ScopeOK(s, n) == s \in Scopes /\ \A i \in DOMAIN s : s[i].own <= n

TokenOK(tok, n) ==
    /\ tok \in Token
    /\ tok.ref <= n /\ tok.par <= n
    /\ ScopeOK(tok.scope, n)

\* No token is an iteration of itself.
ToksOK(f, n) ==
    /\ DOMAIN f \subseteq 1..n
    /\ \A t \in DOMAIN f : TokenOK(f[t], n) /\ f[t].par # t

RecordOK(rec, n) == rec \in Record /\ rec.tok <= n

RecsOK(f, n) == DOMAIN f \subseteq 1..n /\ \A i \in DOMAIN f : RecordOK(f[i], n)

LoopsOK(f, n) == DOMAIN f \subseteq 1..n /\ \A t \in DOMAIN f : f[t] \in Loop

\* A world is that of an instance that has been started.
RunStates == {"active", "completed", "terminated"}

IsWorld(w) == DOMAIN w = {"def", "st", "toks", "multi", "again", "spent", "recs", "top"}

Typed(w) ==
    /\ IsWorld(w)
    /\ w.def \in Processes /\ w.st \in RunStates
    /\ w.again \in BOOLEAN /\ w.spent \in Nat /\ w.top \in Nat
    /\ ToksOK(w.toks, w.top)
    /\ RecsOK(w.recs, w.top)
    /\ LoopsOK(w.multi, w.top)

------------------------------------------------------------------------------
\* Links between tokens and side records.

\* The states in which a token names the task or the job it waits for.
Parked == {"task", "external", "agent", "timer", "retry"}

\* The record is the one that token t waits for.  U holds the elements whose
\* timers no migration can rename.
Fits(tok, t, rec, U) ==
    /\ rec.tok = t
    /\ IF tok.st = "retry" THEN rec.kind \in {"async", "retry"} ELSE rec.kind = tok.st
    /\ tok.st = "timer" /\ tok.el \in U => rec.el = tok.el

\* A timer is awaited at a catch event or receive task of the process.
Placed(tok, def, U) ==
    tok.st = "timer" => /\ Type(tok.el) \in {"catch", "receive"}
                        /\ tok.el \in U => RootOf[tok.el] = def

\* What the token waits for is there: as a record, or claimed by somebody.
Awake(tok, recs, claimed, U) ==
    /\ tok.st = "task" => tok.ref \in DOMAIN recs
    /\ tok.st = "retry" \/ (tok.st = "timer" /\ tok.el \in U) =>
          tok.ref \in DOMAIN recs \cup claimed

SameWait(tok, old) == tok.st = old.st /\ tok.ref = old.ref /\ tok.el = old.el

\* What a world w is compared with: k.base is the world it was made from,
\* k.claimed the ids of the claimed jobs, k.stays the elements no plan touches.

\* A record of w is new or one of the base.
RecsKept(w, k) ==
    \A i \in DOMAIN w.recs :
        i > k.base.top \/ (i \in DOMAIN k.base.recs /\ w.recs[i] = k.base.recs[i])

\* The wait of token t is new or the one it had in the base, and its record fits.
WaitKept(w, t, k) ==
    LET tok == w.toks[t]
    IN  tok.st \in Parked =>
          /\ \/ tok.ref > k.base.top
             \/ t \in DOMAIN k.base.toks /\ SameWait(tok, k.base.toks[t])
          /\ tok.ref \in DOMAIN w.recs => Fits(tok, t, w.recs[tok.ref], k.stays)
          /\ Placed(tok, w.def, k.stays)

\* The world w was made from the base, and the tokens outside X can be woken.
Linked(w, X, k) ==
    /\ w.def = k.base.def /\ k.base.top \in Nat /\ k.base.top <= w.top
    /\ RecsKept(w, k)
    /\ \A t \in DOMAIN w.toks : WaitKept(w, t, k)
    /\ \A t \in DOMAIN w.toks \ X : Awake(w.toks[t], w.recs, k.claimed, k.stays)

Good(w, X, k) == Typed(w) /\ Linked(w, X, k)

\* A step from w to v that keeps the links: the records of v are new or those
\* of w; a token of v waits as it did in w, or for a new record of its own; and
\* outside Y no wait loses its record.
Relinks(w, v, X, Y, k) ==
    /\ v.def = w.def /\ v.top \in Nat /\ w.top <= v.top
    /\ \A i \in DOMAIN v.recs :
          i \in Nat /\ (i > w.top \/ (i \in DOMAIN w.recs /\ v.recs[i] = w.recs[i]))
    /\ \A t \in DOMAIN v.toks : v.toks[t].st \in Parked =>
          \/ /\ t \in DOMAIN w.toks /\ SameWait(v.toks[t], w.toks[t])
             /\ t \notin Y =>
                   t \notin X /\ (w.toks[t].ref \in DOMAIN w.recs => w.toks[t].ref \in DOMAIN v.recs)
          \/ /\ v.toks[t].ref \in DOMAIN v.recs /\ v.toks[t].ref > w.top
             /\ Fits(v.toks[t], t, v.recs[v.toks[t].ref], k.stays)
             /\ Placed(v.toks[t], v.def, k.stays)

------------------------------------------------------------------------------
\* A nonempty set of numbers has a least one, and Min is it.
LEMMA MinIsLeast ==
    ASSUME NEW S \in SUBSET Nat, S # {}
    PROVE  Min(S) \in S /\ \A y \in S : Min(S) <= y
<1> DEFINE R == OpToRel(<, Nat)
<1>1. IsWellFoundedOn(R, Nat)
  BY NatLessThanWellFounded
<1>2. PICK x \in S : \A y \in S : ~ (<<y, x>> \in R)
  <2> HIDE DEF R
  <2> QED BY <1>1, WFMin
<1>3. \A y \in Nat : y < x => <<y, x>> \in R
  BY <1>2 DEF OpToRel
<1>4. \A y \in S : x <= y
  <2> HIDE DEF R
  <2> SUFFICES ASSUME NEW y \in S, ~(x <= y) PROVE FALSE
    OBVIOUS
  <2>1. y < x /\ y \in Nat
    OBVIOUS
  <2> QED BY <1>2, <1>3, <2>1
<1> QED BY <1>2, <1>4 DEF Min

\* Max of a nonempty set of numbers with an upper bound.
LEMMA MaxIsGreatest ==
    ASSUME NEW n \in Nat, NEW S \in SUBSET (0..n), S # {}
    PROVE  Max(S) \in S /\ \A y \in S : Max(S) >= y
<1> DEFINE D == {n - y : y \in S}
<1>0. \A y \in S : n - y \in Nat
  OBVIOUS
<1>1. D \in SUBSET Nat /\ D # {}
  BY <1>0
<1> HIDE DEF D
<1>2. Min(D) \in D /\ \A y \in D : Min(D) <= y
  BY <1>1, MinIsLeast
<1>3. PICK x \in S : Min(D) = n - x
  BY <1>2 DEF D
<1>4. \A y \in S : x >= y
  BY <1>2, <1>3 DEF D
<1> QED BY <1>3, <1>4 DEF Max

\* SetToSeq lists a finite set.
LEMMA SetToSeqLists ==
    ASSUME NEW S, IsFiniteSet(S)
    PROVE  /\ SetToSeq(S) \in [1..Cardinality(S) -> S]
           /\ IsInjective(SetToSeq(S))
           /\ Cardinality(S) \in Nat /\ Len(SetToSeq(S)) = Cardinality(S)
<1>1. Cardinality(S) \in Nat /\ ExistsBijection(1..Cardinality(S), S)
  BY FS_CardinalityType
<1>2. PICK f \in [1..Cardinality(S) -> S] : IsInjective(f)
  BY <1>1 DEF ExistsBijection, Bijection, Injection
<1>3. SetToSeq(S) \in [1..Cardinality(S) -> S] /\ IsInjective(SetToSeq(S))
  BY <1>2 DEF SetToSeq
<1> QED BY <1>1, <1>3

\* It lists every element.
LEMMA SetToSeqOnto ==
    ASSUME NEW S, IsFiniteSet(S), NEW x \in S
    PROVE  \E i \in 1..Cardinality(S) : SetToSeq(S)[i] = x
<1> DEFINE q == SetToSeq(S)
           n == Cardinality(S)
           T == S \ {x}
<1>1. q \in [1..n -> S] /\ IsInjective(q) /\ n \in Nat
  BY SetToSeqLists
<1>2. IsFiniteSet(T) /\ Cardinality(T) = n - 1
  BY FS_RemoveElement
<1>3. IsFiniteSet(1..n) /\ Cardinality(1..n) = n
  BY <1>1, FS_Interval
<1> HIDE DEF q, n, T
<1>4. SUFFICES ASSUME \A i \in 1..n : q[i] # x PROVE FALSE
  BY DEF q, n
<1>5. q \in [1..n -> T]
  BY <1>1, <1>4 DEF T
<1>6. Cardinality(T) < Cardinality(1..n)
  BY <1>1, <1>2, <1>3
<1>7. \E a, b \in 1..n : a # b /\ q[a] = q[b]
  <2> DEFINE I == 1..n
  <2>1. q \in [I -> T] /\ IsFiniteSet(I) /\ Cardinality(T) < Cardinality(I)
    BY <1>3, <1>5, <1>6
  <2> HIDE DEF I
  <2>2. \E a, b \in I : a # b /\ q[a] = q[b]
    BY <1>2, <2>1, FS_PigeonHole
  <2> QED BY <2>2 DEF I
<1> QED BY <1>1, <1>7 DEF IsInjective

------------------------------------------------------------------------------
\* A step that keeps the links leads from a good world to a good one.
LEMMA RelinkGood ==
    ASSUME NEW w, NEW v, NEW X, NEW Y, NEW k,
           Good(w, X, k), Typed(v), Relinks(w, v, X, Y, k)
    PROVE  Good(v, Y, k)
<1>0. /\ Typed(w) /\ Linked(w, X, k)
      /\ k.base.top \in Nat /\ w.top \in Nat /\ k.base.top <= w.top /\ v.top \in Nat
  BY DEF Good, Linked, Typed
<1>1. \A t \in DOMAIN w.toks : w.toks[t].ref \in Nat
  BY <1>0 DEF Typed, ToksOK, TokenOK, Token
<1>2. v.def = k.base.def /\ k.base.top <= v.top
  BY <1>0 DEF Linked, Relinks
<1>3. RecsKept(v, k)
  BY <1>0 DEF Linked, Relinks, RecsKept
<1>4. ASSUME NEW t \in DOMAIN v.toks, v.toks[t].st \in Parked,
             t \in DOMAIN w.toks, SameWait(v.toks[t], w.toks[t])
      PROVE  /\ WaitKept(v, t, k)
             /\ t \notin Y => Awake(v.toks[t], v.recs, k.claimed, k.stays)
  <2>1. WaitKept(w, t, k) /\ w.toks[t].st \in Parked
    BY <1>0, <1>4 DEF Linked, SameWait
  <2>2. v.toks[t].ref = w.toks[t].ref /\ v.toks[t].st = w.toks[t].st /\ v.toks[t].el = w.toks[t].el
    BY <1>4 DEF SameWait
  <2>3. ~(w.toks[t].ref > w.top) /\ w.toks[t].ref \in Nat
    BY <1>0, <1>4 DEF Typed, ToksOK, TokenOK, Token
  <2>4. ASSUME v.toks[t].ref \in DOMAIN v.recs
        PROVE  Fits(v.toks[t], t, v.recs[v.toks[t].ref], k.stays)
    <3> DEFINE i == v.toks[t].ref
    <3>1. i \in DOMAIN w.recs /\ v.recs[i] = w.recs[i]
      BY <2>2, <2>3, <2>4 DEF Relinks
    <3>2. Fits(w.toks[t], t, w.recs[i], k.stays)
      BY <2>1, <2>2, <3>1 DEF WaitKept
    <3> QED BY <2>2, <3>1, <3>2 DEF Fits
  <2>5. Placed(v.toks[t], v.def, k.stays)
    BY <2>1, <2>2 DEF WaitKept, Relinks, Placed
  <2>6. \/ v.toks[t].ref > k.base.top
        \/ t \in DOMAIN k.base.toks /\ SameWait(v.toks[t], k.base.toks[t])
    BY <2>1, <2>2 DEF WaitKept, SameWait
  <2>7. ASSUME t \notin Y
        PROVE  Awake(v.toks[t], v.recs, k.claimed, k.stays)
    <3>1. t \notin X /\ (w.toks[t].ref \in DOMAIN w.recs => w.toks[t].ref \in DOMAIN v.recs)
      BY <1>4, <2>2, <2>3, <2>7 DEF Relinks
    <3>2. Awake(w.toks[t], w.recs, k.claimed, k.stays)
      BY <1>0, <1>4, <3>1 DEF Linked
    <3> QED BY <2>2, <3>1, <3>2 DEF Awake
  <2> QED BY <2>4, <2>5, <2>6, <2>7 DEF WaitKept
<1>5. ASSUME NEW t \in DOMAIN v.toks, v.toks[t].st \in Parked,
             v.toks[t].ref \in DOMAIN v.recs, v.toks[t].ref > w.top,
             Fits(v.toks[t], t, v.recs[v.toks[t].ref], k.stays),
             Placed(v.toks[t], v.def, k.stays)
      PROVE  /\ WaitKept(v, t, k)
             /\ t \notin Y => Awake(v.toks[t], v.recs, k.claimed, k.stays)
  <2>1. v.toks[t].ref \in Nat
    BY <1>5 DEF Typed, ToksOK, TokenOK, Token
  <2>2. v.toks[t].ref > k.base.top
    BY <1>0, <1>5, <2>1
  <2> QED BY <1>5, <2>2 DEF WaitKept, Awake
<1>6. ASSUME NEW t \in DOMAIN v.toks
      PROVE  /\ WaitKept(v, t, k)
             /\ t \notin Y => Awake(v.toks[t], v.recs, k.claimed, k.stays)
  <2>1. CASE v.toks[t].st \in Parked
    BY <1>4, <1>5, <1>6, <2>1 DEF Relinks
  <2>2. CASE v.toks[t].st \notin Parked
    BY <2>2 DEF WaitKept, Awake, Parked
  <2> QED BY <2>1, <2>2
<1> QED BY <1>0, <1>2, <1>3, <1>6 DEF Good, Linked

\* More tokens may be exempt.
LEMMA GoodWeaker ==
    ASSUME NEW w, NEW X, NEW Y, NEW k, Good(w, X, k), X \cap DOMAIN w.toks \subseteq Y
    PROVE  Good(w, Y, k)
  BY DEF Good, Linked

\* A larger bound on the ids does as well.
LEMMA OKLarger ==
    ASSUME NEW n \in Nat, NEW m \in Nat, n <= m
    PROVE  /\ \A f : ToksOK(f, n) => ToksOK(f, m)
           /\ \A f : RecsOK(f, n) => RecsOK(f, m)
           /\ \A f : LoopsOK(f, n) => LoopsOK(f, m)
<1>1. ASSUME NEW tok, TokenOK(tok, n) PROVE TokenOK(tok, m)
  <2>0. tok.scope \in Seq([el : Elements, own : Nat])
    BY <1>1 DEF TokenOK, ScopeOK, Scopes
  <2>1. \A i \in DOMAIN tok.scope : tok.scope[i] \in [el : Elements, own : Nat]
    BY <2>0, LenProperties
  <2> QED BY <1>1, <2>1 DEF TokenOK, ScopeOK, Token
<1>2. ASSUME NEW rec, RecordOK(rec, n) PROVE RecordOK(rec, m)
  BY <1>2 DEF RecordOK, Record
<1>3. 1..n \subseteq 1..m
  OBVIOUS
<1> QED BY <1>1, <1>2, <1>3 DEF ToksOK, RecsOK, LoopsOK

\* Removing records.
LEMMA DropRecsGood ==
    ASSUME NEW w, NEW X, NEW Y, NEW k, NEW S, Good(w, X, k),
           \A t \in DOMAIN w.toks \ Y : t \notin X /\
               (w.toks[t].st \in Parked /\ w.toks[t].ref \in DOMAIN w.recs => w.toks[t].ref \notin S)
    PROVE  Good([w EXCEPT !.recs = Without(@, S)], Y, k)
<1> DEFINE x == Without(w.recs, S)
<1>2. DOMAIN x = DOMAIN w.recs \ S /\ \A i \in DOMAIN x : x[i] = w.recs[i]
  BY DEF Without
<1> HIDE DEF x
<1> DEFINE v == [w EXCEPT !.recs = x]
<1>0. Typed(w) /\ IsWorld(w)
  BY DEF Good, Typed
<1>1. /\ IsWorld(v) /\ v.recs = x /\ v.toks = w.toks /\ v.multi = w.multi /\ v.def = w.def
      /\ v.st = w.st /\ v.again = w.again /\ v.spent = w.spent /\ v.top = w.top
  BY <1>0 DEF IsWorld
<1> HIDE DEF v
<1>3. Typed(v)
  BY <1>0, <1>1, <1>2 DEF Typed, RecsOK
<1>4. w.top \in Nat /\ DOMAIN w.recs \subseteq Nat
  BY <1>0 DEF Typed, RecsOK
<1>5. Relinks(w, v, X, Y, k)
  BY <1>1, <1>2, <1>4 DEF Relinks, SameWait
<1>6. Good(v, Y, k)
  BY <1>3, <1>5, RelinkGood
<1> QED BY <1>6 DEF v, x

\* Removing tokens.
LEMMA DiscardFields ==
    ASSUME NEW w, NEW T, IsWorld(w)
    PROVE  /\ IsWorld(Discard(w, T))
           /\ DOMAIN Discard(w, T).toks = DOMAIN w.toks \ T
           /\ \A t \in DOMAIN w.toks \ T : Discard(w, T).toks[t] = w.toks[t]
           /\ Discard(w, T).multi = w.multi /\ Discard(w, T).recs = w.recs
           /\ Discard(w, T).top = w.top /\ Discard(w, T).def = w.def
           /\ Discard(w, T).st = w.st /\ Discard(w, T).again = w.again
           /\ Discard(w, T).spent = w.spent
  BY DEF Discard, Without, IsWorld

\* Tokens that are removed need not wait for anything.
LEMMA DiscardGood ==
    ASSUME NEW w, NEW X, NEW Y, NEW k, NEW T, Good(w, X, k), X \subseteq Y \cup T
    PROVE  Good(Discard(w, T), Y, k)
<1> DEFINE v == Discard(w, T)
<1>0. Typed(w) /\ IsWorld(w)
  BY DEF Good, Typed
<1>1. /\ IsWorld(v) /\ v.recs = w.recs /\ v.multi = w.multi /\ v.def = w.def
      /\ v.st = w.st /\ v.again = w.again /\ v.spent = w.spent /\ v.top = w.top
      /\ DOMAIN v.toks = DOMAIN w.toks \ T
      /\ \A t \in DOMAIN w.toks \ T : v.toks[t] = w.toks[t]
  BY <1>0, DiscardFields
<1> HIDE DEF v
<1>2. Typed(v)
  BY <1>0, <1>1 DEF Typed, ToksOK
<1>3. w.top \in Nat /\ DOMAIN w.recs \subseteq Nat
  BY <1>0 DEF Typed, RecsOK
<1>4. Relinks(w, v, X, Y, k)
  BY <1>1, <1>3 DEF Relinks, SameWait
<1>5. Good(v, Y, k)
  BY <1>2, <1>4, RelinkGood
<1> QED BY <1>5 DEF v

\* dropTokenEventWaits takes the jobs and subscriptions of the tokens in T.
LEMMA DropTokenEventWaitsGood ==
    ASSUME NEW w, NEW X, NEW Y, NEW k, NEW T, Good(w, X, k), X \subseteq Y, T \subseteq Y
    PROVE  /\ Good(DropTokenEventWaits(w, T), Y, k)
           /\ DropTokenEventWaits(w, T).toks = w.toks
           /\ DropTokenEventWaits(w, T).multi = w.multi
           /\ DropTokenEventWaits(w, T).top = w.top /\ DropTokenEventWaits(w, T).def = w.def
           /\ DropTokenEventWaits(w, T).again = w.again
<1> DEFINE S == {i \in DOMAIN w.recs : w.recs[i].tok \in T /\ w.recs[i].kind \in EventWaits}
           v == [w EXCEPT !.recs = Without(@, S)]
<1>0. Typed(w) /\ IsWorld(w) /\ Linked(w, X, k)
  BY DEF Good, Typed
<1>1. DropTokenEventWaits(w, T) = v
  BY DEF DropTokenEventWaits
<1>2. ASSUME NEW t \in DOMAIN w.toks \ Y,
             w.toks[t].st \in Parked, w.toks[t].ref \in DOMAIN w.recs
      PROVE  w.toks[t].ref \notin S
  <2>1. WaitKept(w, t, k)
    BY <1>0, <1>2 DEF Linked
  <2>2. w.recs[w.toks[t].ref].tok = t
    BY <1>2, <2>1 DEF WaitKept, Fits
  <2> QED BY <1>2, <2>2
<1>3. Good(v, Y, k)
  <2> HIDE DEF S
  <2> QED BY <1>2, DropRecsGood
<1>4. v.toks = w.toks /\ v.multi = w.multi /\ v.top = w.top /\ v.def = w.def /\ v.again = w.again
  <2> HIDE DEF S
  <2> QED BY <1>0 DEF v, IsWorld
<1> HIDE DEF v
<1> QED BY <1>1, <1>3, <1>4

\* Ending some loops.
LEMMA DropLoopsGood ==
    ASSUME NEW w, NEW X, NEW k, NEW x, Good(w, X, k), LoopsOK(x, w.top)
    PROVE  /\ Good([w EXCEPT !.multi = x], X, k)
           /\ [w EXCEPT !.multi = x].toks = w.toks /\ [w EXCEPT !.multi = x].multi = x
           /\ [w EXCEPT !.multi = x].top = w.top /\ [w EXCEPT !.multi = x].def = w.def
<1> DEFINE v == [w EXCEPT !.multi = x]
<1>0. Typed(w) /\ IsWorld(w)
  BY DEF Good, Typed
<1>1. /\ IsWorld(v) /\ v.multi = x /\ v.recs = w.recs /\ v.toks = w.toks /\ v.def = w.def
      /\ v.st = w.st /\ v.again = w.again /\ v.spent = w.spent /\ v.top = w.top
  BY <1>0 DEF IsWorld
<1> HIDE DEF v
<1>3. Typed(v)
  BY <1>0, <1>1 DEF Typed
<1>4. w.top \in Nat /\ DOMAIN w.recs \subseteq Nat
  BY <1>0 DEF Typed, RecsOK
<1>5. Relinks(w, v, X, X, k)
  BY <1>1, <1>4 DEF Relinks, SameWait
<1>6. Good(v, X, k)
  BY <1>3, <1>5, RelinkGood
<1> QED BY <1>1, <1>6 DEF v

\* Scopes are built by going in and cut by going out.
LEMMA ScopesOK ==
    ASSUME NEW n \in Nat
    PROVE  /\ ScopeOK(<<>>, n)
           /\ \A s, e, o : ScopeOK(s, n) /\ e \in Elements /\ o \in 0..n =>
                              ScopeOK(Append(s, [el |-> e, own |-> o]), n)
           /\ \A s : ScopeOK(s, n) => Len(s) \in Nat /\ \A d \in 0..Len(s) : ScopeOK(SubSeq(s, 1, d), n)
           /\ \A s : ScopeOK(s, n) => \A d \in 1..Len(s) : s[d].el \in Elements /\ s[d].own \in 0..n
<1> DEFINE E == [el : Elements, own : Nat]
<1>1. ScopeOK(<<>>, n)
  BY EmptySeq DEF ScopeOK, Scopes
<1>2. ASSUME NEW s, NEW e \in Elements, NEW o \in 0..n, ScopeOK(s, n)
      PROVE  ScopeOK(Append(s, [el |-> e, own |-> o]), n)
  <2> DEFINE x == [el |-> e, own |-> o]
  <2>1. x \in E /\ x.own <= n
    OBVIOUS
  <2> HIDE DEF x, E
  <2>2. s \in Seq(E) /\ \A i \in DOMAIN s : s[i].own <= n
    BY <1>2 DEF ScopeOK, Scopes, E
  <2>3. /\ Append(s, x) \in Seq(E) /\ Len(s) \in Nat /\ DOMAIN s = 1..Len(s)
        /\ DOMAIN Append(s, x) = 1..(Len(s) + 1)
        /\ \A i \in 1..Len(s) : Append(s, x)[i] = s[i]
        /\ Append(s, x)[Len(s) + 1] = x
    BY <2>1, <2>2
  <2>4. \A i \in 1..(Len(s) + 1) : i \in 1..Len(s) \/ i = Len(s) + 1
    BY <2>3
  <2>5. \A i \in DOMAIN Append(s, x) : Append(s, x)[i].own <= n
    BY <2>1, <2>2, <2>3, <2>4
  <2>6. Append(s, x) \in Scopes
    BY <2>3 DEF Scopes, E
  <2> QED BY <2>5, <2>6 DEF ScopeOK, x
<1>3. ASSUME NEW s, ScopeOK(s, n)
      PROVE  /\ Len(s) \in Nat
             /\ \A d \in 0..Len(s) : ScopeOK(SubSeq(s, 1, d), n)
             /\ \A d \in 1..Len(s) : s[d].el \in Elements /\ s[d].own \in 0..n
  <2> HIDE DEF E
  <2>1. s \in Seq(E) /\ \A i \in DOMAIN s : s[i].own <= n
    BY <1>3 DEF ScopeOK, Scopes, E
  <2>2. Len(s) \in Nat /\ DOMAIN s = 1..Len(s) /\ \A i \in 1..Len(s) : s[i] \in E
    BY <2>1, LenProperties
  <2>3. ASSUME NEW d \in 0..Len(s) PROVE ScopeOK(SubSeq(s, 1, d), n)
    <3>1. d \in Int /\ d \in Nat /\ 1 \in Int /\ \A i \in 1..d : i \in 1..Len(s)
      BY <2>2
    <3>2. /\ SubSeq(s, 1, d) \in Seq(E)
          /\ Len(SubSeq(s, 1, d)) = IF 1 <= d THEN d - 1 + 1 ELSE 0
          /\ \A i \in 1..(d - 1 + 1) : SubSeq(s, 1, d)[i] = s[1 + i - 1]
      <4>1. \A i \in 1..d : s[i] \in E
        BY <2>2, <3>1
      <4> QED BY <3>1, <4>1, SubSeqProperties
    <3>3. DOMAIN SubSeq(s, 1, d) = 1..d
      <4>1. DOMAIN SubSeq(s, 1, d) = 1..Len(SubSeq(s, 1, d))
        BY <3>2, LenProperties
      <4>2. Len(SubSeq(s, 1, d)) = d
        BY <3>1, <3>2
      <4> QED BY <4>1, <4>2
    <3>4. \A i \in 1..d : SubSeq(s, 1, d)[i] = s[i]
      BY <3>1, <3>2
    <3>5. \A i \in DOMAIN SubSeq(s, 1, d) : SubSeq(s, 1, d)[i].own <= n
      BY <2>1, <2>2, <3>1, <3>3, <3>4
    <3> QED BY <3>2, <3>5 DEF ScopeOK, Scopes, E
  <2>4. \A d \in 1..Len(s) : s[d].el \in Elements /\ s[d].own \in 0..n
    BY <2>1, <2>2 DEF E
  <2> QED BY <2>2, <2>3, <2>4
<1> QED BY <1>1, <1>2, <1>3

\* Adding tokens that wait for nothing.
LEMMA MoreTokensGood ==
    ASSUME NEW w, NEW X, NEW k, NEW f, NEW n \in Nat, Good(w, X, k), w.top <= n,
           DOMAIN w.toks \subseteq DOMAIN f, \A u \in DOMAIN w.toks : f[u] = w.toks[u],
           \A u \in DOMAIN f \ DOMAIN w.toks :
               u \in 1..n /\ TokenOK(f[u], n) /\ f[u].par # u /\ f[u].st \notin Parked
    PROVE  Good([w EXCEPT !.toks = f, !.top = n], X, k)
<1> DEFINE v == [w EXCEPT !.toks = f, !.top = n]
<1>0. Typed(w) /\ IsWorld(w) /\ w.top \in Nat
  BY DEF Good, Typed
<1>1. /\ IsWorld(v) /\ v.toks = f /\ v.recs = w.recs /\ v.multi = w.multi /\ v.def = w.def
      /\ v.st = w.st /\ v.again = w.again /\ v.spent = w.spent /\ v.top = n
  BY <1>0 DEF IsWorld
<1> HIDE DEF v
<1>2. ToksOK(w.toks, n) /\ RecsOK(w.recs, n) /\ LoopsOK(w.multi, n)
  BY <1>0, OKLarger DEF Typed
<1>3. ToksOK(f, n)
  BY <1>2 DEF ToksOK
<1>4. Typed(v)
  BY <1>0, <1>1, <1>2, <1>3 DEF Typed
<1>5. DOMAIN w.recs \subseteq Nat
  BY <1>0 DEF Typed, RecsOK
<1>6. Relinks(w, v, X, X, k)
  BY <1>0, <1>1, <1>5 DEF Relinks, SameWait
<1>7. Good(v, X, k)
  BY <1>4, <1>6, RelinkGood
<1> QED BY <1>1, <1>7 DEF v

\* Adding records that no token waits for.
LEMMA MoreRecsGood ==
    ASSUME NEW w, NEW X, NEW k, NEW f, NEW n \in Nat, Good(w, X, k), w.top <= n,
           \A i \in DOMAIN w.recs : i \in DOMAIN f /\ f[i] = w.recs[i],
           \A i \in DOMAIN f \ DOMAIN w.recs : i \in (w.top + 1)..n /\ RecordOK(f[i], n)
    PROVE  Good([w EXCEPT !.recs = f, !.top = n], X, k)
<1> DEFINE v == [w EXCEPT !.recs = f, !.top = n]
<1>0. Typed(w) /\ IsWorld(w) /\ w.top \in Nat
  BY DEF Good, Typed
<1>1. /\ IsWorld(v) /\ v.recs = f /\ v.toks = w.toks /\ v.multi = w.multi /\ v.def = w.def
      /\ v.st = w.st /\ v.again = w.again /\ v.spent = w.spent /\ v.top = n
  BY <1>0 DEF IsWorld
<1> HIDE DEF v
<1>2. ToksOK(w.toks, n) /\ RecsOK(w.recs, n) /\ LoopsOK(w.multi, n)
  BY <1>0, OKLarger DEF Typed
<1>a. \A i \in DOMAIN f \ DOMAIN w.recs : i \in 1..n /\ i > w.top
  BY <1>0
<1>3. RecsOK(f, n)
  BY <1>2, <1>a DEF RecsOK
<1>4. Typed(v)
  BY <1>0, <1>1, <1>2, <1>3 DEF Typed
<1>5. \A i \in DOMAIN f : i \in Nat /\ (i > w.top \/ (i \in DOMAIN w.recs /\ f[i] = w.recs[i]))
  BY <1>3, <1>a DEF RecsOK
<1>6. Relinks(w, v, X, X, k)
  BY <1>0, <1>1, <1>5 DEF Relinks, SameWait
<1>7. Good(v, X, k)
  BY <1>4, <1>6, RelinkGood
<1> QED BY <1>1, <1>7 DEF v

------------------------------------------------------------------------------
\* Canceling waits takes the records of the tokens in T and of no other.
LEMMA DropWaitsGood ==
    ASSUME NEW w, NEW X, NEW Y, NEW k, NEW T \in SUBSET DOMAIN w.toks, NEW C,
           Good(w, X, k), X \subseteq Y, T \subseteq Y
    PROVE  /\ Good(DropWaits(w, T, C), Y, k)
           /\ DropWaits(w, T, C).toks = w.toks
           /\ DropWaits(w, T, C).top = w.top
<1> DEFINE v == DropTokenEventWaits(w, T)
           held == {w.toks[t].ref : t \in {u \in T : w.toks[u].st \in {"task", "external", "agent"}}}
           u1 == [v EXCEPT !.recs = Without(@, held)]
           x == Without(v.multi, C)
<1>1. Good(v, Y, k) /\ v.toks = w.toks /\ v.multi = w.multi /\ v.top = w.top
  BY DropTokenEventWaitsGood
<1>2. DropWaits(w, T, C) = [u1 EXCEPT !.multi = x]
  <2>1. DropWaits(w, T, C) = [v EXCEPT !.recs = Without(@, held), !.multi = Without(@, C)]
    BY DEF DropWaits
  <2>2. Typed(v) /\ IsWorld(v)
    BY <1>1 DEF Good, Typed
  <2> HIDE DEF v, held
  <2>3. u1.multi = v.multi
    BY <2>2 DEF IsWorld
  <2> QED BY <2>1, <2>3
<1> HIDE DEF v
<1>3. ASSUME NEW t \in DOMAIN v.toks \ Y,
             v.toks[t].st \in Parked, v.toks[t].ref \in DOMAIN v.recs, v.toks[t].ref \in held
      PROVE  FALSE
  <2>1. PICK u \in T : /\ w.toks[u].st \in {"task", "external", "agent"}
                       /\ v.toks[t].ref = w.toks[u].ref
    BY <1>3
  <2>2. WaitKept(v, t, k) /\ WaitKept(v, u, k)
    BY <1>1, <1>3, <2>1 DEF Good, Linked
  <2>3. w.toks[u].st \in Parked
    BY <2>1 DEF Parked
  <2>4. v.recs[v.toks[t].ref].tok = t
    BY <1>3, <2>2 DEF WaitKept, Fits
  <2>5. v.recs[v.toks[t].ref].tok = u
    BY <1>1, <1>3, <2>1, <2>2, <2>3 DEF WaitKept, Fits
  <2> QED BY <1>3, <2>1, <2>4, <2>5
<1>4. Good(u1, Y, k)
  <2> HIDE DEF held
  <2> QED BY <1>1, <1>3, DropRecsGood
<1>5. u1.toks = w.toks /\ u1.top = w.top /\ u1.multi = v.multi
  <2>1. IsWorld(v)
    BY <1>1 DEF Good, Typed
  <2> HIDE DEF held
  <2> QED BY <1>1, <2>1 DEF IsWorld
<1> HIDE DEF u1
<1>6. LoopsOK(x, u1.top)
  <2>1. LoopsOK(v.multi, u1.top)
    BY <1>4, <1>5 DEF Good, Typed
  <2> QED BY <2>1 DEF LoopsOK, Without
<1> HIDE DEF x
<1> QED BY <1>2, <1>4, <1>5, <1>6, DropLoopsGood

\* cancelWaits: the tokens in T stay, and no longer have what they waited for.
LEMMA CancelWaitsGood ==
    ASSUME NEW w, NEW X, NEW Y, NEW k, NEW T \in SUBSET DOMAIN w.toks,
           Good(w, X, k), X \subseteq Y, T \subseteq Y
    PROVE  /\ Good(CancelWaits(w, T), Y, k)
           /\ T \subseteq DOMAIN CancelWaits(w, T).toks
           /\ DOMAIN CancelWaits(w, T).toks \subseteq DOMAIN w.toks
           /\ \A t \in DOMAIN CancelWaits(w, T).toks : CancelWaits(w, T).toks[t] = w.toks[t]
           /\ CancelWaits(w, T).top = w.top
           /\ \A t \in DOMAIN w.toks : w.toks[t].par \in T \cap DOMAIN w.multi /\ t \notin T =>
                 t \notin DOMAIN CancelWaits(w, T).toks
<1> DEFINE gone == Iterations(w, T \cap DOMAIN w.multi)
           v == DropWaits(w, T \cup gone, T \cup gone)
<1>1. gone \subseteq DOMAIN w.toks
  BY DEF Iterations, Inside
<1>2. \A t \in DOMAIN w.toks : w.toks[t].par \in T \cap DOMAIN w.multi => t \in gone
  BY DEF Iterations
<1>3. CancelWaits(w, T) = Discard(v, gone \ T)
  BY DEF CancelWaits
<1> HIDE DEF gone
<1> DEFINE T1 == T \cup gone
           Y1 == Y \cup gone
           D == gone \ T
<1>a. T1 \in SUBSET DOMAIN w.toks /\ X \subseteq Y1 /\ T1 \subseteq Y1 /\ Y1 \subseteq Y \cup D
  BY <1>1
<1> HIDE DEF Y1, D, T1
<1>4. Good(v, Y1, k) /\ v.toks = w.toks /\ v.top = w.top
  BY <1>a, DropWaitsGood DEF T1
<1> HIDE DEF v
<1>5. Good(Discard(v, D), Y, k)
  BY <1>4, <1>a, DiscardGood
<1>6. /\ DOMAIN Discard(v, D).toks = DOMAIN v.toks \ D
      /\ \A t \in DOMAIN v.toks \ D : Discard(v, D).toks[t] = v.toks[t]
      /\ Discard(v, D).top = v.top
  BY <1>4, DiscardFields DEF Good, Typed
<1>7. CancelWaits(w, T) = Discard(v, D)
  BY <1>3 DEF D
<1>8. \A t \in D : t \in gone /\ t \notin T
  BY DEF D
<1>9. T \subseteq DOMAIN w.toks \ D /\ \A t \in DOMAIN w.toks \ D : ~(t \in gone /\ t \notin T)
  BY DEF D
<1> HIDE DEF D
<1> QED BY <1>2, <1>4, <1>5, <1>6, <1>7, <1>9

\* The tokens whose waits are canceled are still there.
LEMMA CancelWaitsLeaves ==
    ASSUME NEW w, NEW X, NEW Y, NEW k, NEW T \in SUBSET DOMAIN w.toks,
           Good(w, X, k), X \subseteq Y, T \subseteq Y
    PROVE  Good(CancelWaits(w, T), Y, k) /\ T \subseteq DOMAIN CancelWaits(w, T).toks
<1>1. Good(CancelWaits(w, T), Y, k)
  BY CancelWaitsGood
<1>2. T \subseteq DOMAIN CancelWaits(w, T).toks
  BY CancelWaitsGood
<1> QED BY <1>1, <1>2

\* A loop that counts on is a loop.
LEMMA LoopCounts ==
    ASSUME NEW l \in Loop
    PROVE  [l EXCEPT !.done = @ + 1] \in Loop /\ [l EXCEPT !.next = @ + 1] \in Loop
<1>1. l.done + 1 \in Nat /\ l.next + 1 \in Nat
  BY DEF Loop
<1>2. ASSUME NEW n \in Nat PROVE [l EXCEPT !.done = n] \in Loop /\ [l EXCEPT !.next = n] \in Loop
  BY DEF Loop
<1> QED BY <1>1, <1>2

\* killScopeTokens: what it kills is gone for good.
LEMMA KillScopeTokensGood ==
    ASSUME NEW w, NEW X, NEW k, NEW s, NEW exclude, Good(w, X, k)
    PROVE  LET v == KillScopeTokens(w, s, exclude)
           IN  /\ Good(v, X, k)
               /\ DOMAIN v.toks \subseteq DOMAIN w.toks
               /\ \A t \in DOMAIN v.toks : v.toks[t] = w.toks[t]
               /\ v.top = w.top
<1> DEFINE inChild(t) == /\ Len(w.toks[t].scope) > Len(s)
                         /\ w.toks[t].scope[Len(s) + 1].el = exclude
           T == {t \in Inside(w, s) : ~inChild(t)}
           v == CancelWaits(w, T)
<1>1. T \in SUBSET DOMAIN w.toks
  BY DEF Inside
<1>2. KillScopeTokens(w, s, exclude) = Discard(v, T)
  BY DEF KillScopeTokens
<1> HIDE DEF T
<1> DEFINE Y == X \cup T
<1>a. X \subseteq Y /\ T \subseteq Y /\ Y \subseteq X \cup T
  OBVIOUS
<1> HIDE DEF Y
<1>3. /\ Good(v, Y, k) /\ v.top = w.top
      /\ DOMAIN v.toks \subseteq DOMAIN w.toks
      /\ \A t \in DOMAIN v.toks : v.toks[t] = w.toks[t]
  <2> HIDE DEF v
  <2>1. v = CancelWaits(w, T)
    BY DEF v
  <2>2. Good(CancelWaits(w, T), Y, k) /\ CancelWaits(w, T).top = w.top
    BY <1>1, <1>a, CancelWaitsGood
  <2>3. /\ DOMAIN CancelWaits(w, T).toks \subseteq DOMAIN w.toks
        /\ \A t \in DOMAIN CancelWaits(w, T).toks : CancelWaits(w, T).toks[t] = w.toks[t]
    BY <1>1, <1>a, CancelWaitsGood, Zenon
  <2> QED BY <2>1, <2>2, <2>3, Zenon
<1> HIDE DEF v
<1>4. Good(Discard(v, T), X, k)
  BY <1>3, <1>a, DiscardGood
<1>5. /\ DOMAIN Discard(v, T).toks = DOMAIN v.toks \ T
      /\ \A t \in DOMAIN v.toks \ T : Discard(v, T).toks[t] = v.toks[t]
      /\ Discard(v, T).top = v.top
  BY <1>3, DiscardFields DEF Good, Typed
<1> QED BY <1>2, <1>3, <1>4, <1>5

\* completeInstance, terminate: no token is left.
LEMMA EndInstanceGood ==
    ASSUME NEW w, NEW X, NEW Y, NEW k, NEW st \in {"completed", "terminated"}, Good(w, X, k)
    PROVE  Good(EndInstance(w, st), Y, k)
<1> DEFINE a == Discard(w, DOMAIN w.toks)
           S == {i \in DOMAIN a.recs : a.recs[i].kind # "incident"}
           b == [a EXCEPT !.recs = Without(@, S)]
           v == [b EXCEPT !.st = st]
<1>1. Good(a, X, k) /\ DOMAIN a.toks = {}
  <2> DEFINE D == DOMAIN w.toks
  <2>1. X \subseteq X \cup D
    OBVIOUS
  <2> HIDE DEF D
  <2>2. Good(Discard(w, D), X, k)
    BY <2>1, DiscardGood
  <2>3. DOMAIN Discard(w, D).toks = DOMAIN w.toks \ D
    BY DiscardFields DEF Good, Typed
  <2> QED BY <2>2, <2>3 DEF D
<1>2. IsWorld(a)
  BY <1>1 DEF Good, Typed
<1>3. EndInstance(w, st) = [a EXCEPT !.st = st,
                      !.recs = Without(@, {i \in DOMAIN @ : @[i].kind # "incident"})]
  BY DEF EndInstance
<1> HIDE DEF a
<1>4. Good(b, Y, k)
  <2> HIDE DEF S
  <2> QED BY <1>1, DropRecsGood
<1>5. b.toks = a.toks /\ b.multi = a.multi /\ b.def = a.def /\ b.recs = Without(a.recs, S)
      /\ b.again = a.again /\ b.spent = a.spent /\ b.top = a.top /\ IsWorld(b)
  <2> HIDE DEF S
  <2> QED BY <1>2 DEF IsWorld
<1> DEFINE u == EndInstance(w, st)
<1>6. /\ u.toks = a.toks /\ u.multi = a.multi /\ u.def = a.def /\ u.recs = Without(a.recs, S)
      /\ u.again = a.again /\ u.spent = a.spent /\ u.top = a.top /\ IsWorld(u) /\ u.st = st
  BY <1>2, <1>3 DEF IsWorld
<1> HIDE DEF u, b, S
<1>7. Typed(b)
  BY <1>4 DEF Good
<1>8. Typed(u)
  BY <1>5, <1>6, <1>7 DEF Typed, RunStates
<1>9. Linked(u, Y, k)
  BY <1>4, <1>5, <1>6 DEF Good, Linked, RecsKept, WaitKept
<1> QED BY <1>8, <1>9 DEF Good, u

------------------------------------------------------------------------------
\* A new token is active.
LEMMA NewTokenOK ==
    ASSUME NEW e \in Elements, NEW s, NEW n \in Nat, ScopeOK(s, n)
    PROVE  TokenOK(NewToken(e, s), n) /\ NewToken(e, s).st = "active" /\ NewToken(e, s).par = 0
  BY DEF ScopeOK, TokenOK, NewToken, Token, TokenStates

\* A record as NewRecord makes it.
LEMMA NewRecordOK ==
    ASSUME NEW kind \in RecordKinds, NEW n \in Nat, NEW t \in 0..n, NEW e \in Elements,
           NEW left \in Nat
    PROVE  RecordOK(NewRecord(kind, t, e, left), n)
  BY DEF RecordOK, NewRecord, Record

\* spawnToken adds one token.
LEMMA SpawnGood ==
    ASSUME NEW w, NEW X, NEW k, NEW tok, Good(w, X, k),
           TokenOK(tok, w.top + 1), tok.st = "active", tok.par = 0
    PROVE  Good(Spawn(w, tok), X, k)
<1> DEFINE n == w.top + 1
           f == With(w.toks, n, tok)
<1>0. IsWorld(w) /\ w.top \in Nat /\ DOMAIN w.toks \subseteq 1..w.top
  BY DEF Good, Typed, ToksOK
<1>1. n \in Nat /\ w.top <= n /\ n \in 1..n /\ n \notin DOMAIN w.toks
  BY <1>0
<1>2. Spawn(w, tok) = [w EXCEPT !.toks = f, !.top = n]
  <2>1. Spawn(w, tok) = [w EXCEPT !.toks = With(@, w.top + 1, tok), !.top = @ + 1]
    BY DEF Spawn
  <2>2. [w EXCEPT !.toks = f].top = w.top
    BY <1>0 DEF IsWorld
  <2> QED BY <2>1, <2>2
<1>3. DOMAIN f = DOMAIN w.toks \cup {n} /\ f[n] = tok /\ \A u \in DOMAIN w.toks : u # n => f[u] = w.toks[u]
  BY DEF With
<1>4. TokenOK(tok, n) /\ tok.st \notin Parked
  BY DEF Parked
<1> HIDE DEF n, f
<1>5. DOMAIN w.toks \subseteq DOMAIN f /\ \A u \in DOMAIN w.toks : f[u] = w.toks[u]
  BY <1>1, <1>3
<1>6. \A u \in DOMAIN f \ DOMAIN w.toks :
         u \in 1..n /\ TokenOK(f[u], n) /\ f[u].par # u /\ f[u].st \notin Parked
  BY <1>1, <1>3, <1>4
<1>7. Good([w EXCEPT !.toks = f, !.top = n], X, k)
  BY <1>1, <1>5, <1>6, MoreTokensGood
<1> QED BY <1>2, <1>7

\* The record a token is parked on: its own, and for a timer that of the
\* catch event or receive task where it is.
ParkOK(w, t, st, rec, k) ==
    /\ st \in TokenStates
    /\ RecordOK(rec, w.top)
    /\ st \in Parked => Fits([w.toks[t] EXCEPT !.st = st], t, rec, k.stays)
    /\ Placed([w.toks[t] EXCEPT !.st = st], w.def, k.stays)

\* Putting a record and parking the token on it.
LEMMA ParkGood ==
    ASSUME NEW w, NEW X, NEW Y, NEW k, NEW t \in DOMAIN w.toks, NEW st, NEW rec,
           Good(w, X, k), X \subseteq Y \cup {t}, ParkOK(w, t, st, rec, k)
    PROVE  Good(Park(w, t, st, rec), Y, k)
<1> DEFINE n == w.top + 1
           v == Park(w, t, st, rec)
<1>0. /\ Typed(w) /\ IsWorld(w) /\ w.top \in Nat /\ DOMAIN w.recs \subseteq 1..w.top
      /\ TokenOK(w.toks[t], w.top)
  BY DEF Good, Typed, RecsOK, ToksOK
<1>1. n \in Nat /\ w.top <= n /\ n > w.top /\ n \in 1..n /\ n \notin DOMAIN w.recs
  BY <1>0
<1>2. /\ IsWorld(v) /\ v.recs = With(w.recs, n, rec) /\ v.multi = w.multi /\ v.def = w.def
      /\ v.st = w.st /\ v.again = w.again /\ v.spent = w.spent /\ v.top = n
  BY <1>0 DEF IsWorld, Park
<1>3. /\ DOMAIN v.toks = DOMAIN w.toks
      /\ \A u \in DOMAIN w.toks \ {t} : v.toks[u] = w.toks[u]
      /\ v.toks[t] = [w.toks[t] EXCEPT !.st = st, !.ref = n]
  BY <1>0 DEF IsWorld, Park
<1>4. /\ DOMAIN v.recs = DOMAIN w.recs \cup {n} /\ v.recs[n] = rec
      /\ \A i \in DOMAIN w.recs : v.recs[i] = w.recs[i]
  BY <1>1, <1>2 DEF With
<1>5. /\ v.toks[t].st = st /\ v.toks[t].ref = n /\ v.toks[t].el = w.toks[t].el
      /\ [w.toks[t] EXCEPT !.st = st].st = st /\ [w.toks[t] EXCEPT !.st = st].el = w.toks[t].el
  BY <1>0, <1>3 DEF TokenOK, Token
<1>6. TokenOK(v.toks[t], n)
  <2>1. v.toks[t] \in Token
    BY <1>0, <1>1, <1>3 DEF TokenOK, Token, ParkOK
  <2>2. v.toks[t].par = w.toks[t].par /\ v.toks[t].scope = w.toks[t].scope
    BY <1>0, <1>3 DEF TokenOK, Token
  <2>3. TokenOK(w.toks[t], n)
    <3>1. ToksOK(w.toks, n)
      BY <1>0, <1>1, OKLarger DEF Typed
    <3> QED BY <3>1 DEF ToksOK
  <2> QED BY <1>1, <1>5, <2>1, <2>2, <2>3 DEF TokenOK
<1> HIDE DEF v, n
<1>7. ToksOK(w.toks, n) /\ RecsOK(w.recs, n) /\ LoopsOK(w.multi, n)
  BY <1>0, <1>1, OKLarger DEF Typed
<1>8. RecordOK(rec, n)
  BY <1>0, <1>1 DEF ParkOK, RecordOK, Record
<1>9. ToksOK(v.toks, n)
  <2>1. v.toks[t].par = w.toks[t].par
    BY <1>0, <1>3 DEF TokenOK, Token
  <2> QED BY <1>3, <1>6, <1>7, <2>1 DEF ToksOK
<1>10. RecsOK(v.recs, n)
  BY <1>1, <1>4, <1>7, <1>8 DEF RecsOK
<1>11. Typed(v)
  BY <1>0, <1>1, <1>2, <1>7, <1>9, <1>10 DEF Typed
<1>12. ASSUME st \in Parked
       PROVE  Fits(v.toks[t], t, v.recs[n], k.stays) /\ Placed(v.toks[t], v.def, k.stays)
  BY <1>12, <1>2, <1>4, <1>5 DEF ParkOK, Fits, Placed
<1>13. \A i \in DOMAIN v.recs : i \in Nat /\ (i > w.top \/ (i \in DOMAIN w.recs /\ v.recs[i] = w.recs[i]))
  BY <1>0, <1>1, <1>4
<1>14. ASSUME NEW u \in DOMAIN v.toks, v.toks[u].st \in Parked, u # t
       PROVE  /\ u \in DOMAIN w.toks /\ SameWait(v.toks[u], w.toks[u])
              /\ u \notin Y => u \notin X /\ (w.toks[u].ref \in DOMAIN w.recs => w.toks[u].ref \in DOMAIN v.recs)
  BY <1>14, <1>3, <1>4 DEF SameWait
<1>15. Relinks(w, v, X, Y, k)
  BY <1>1, <1>2, <1>4, <1>5, <1>12, <1>13, <1>14 DEF Relinks
<1>16. Good(v, Y, k)
  BY <1>11, <1>15, RelinkGood
<1> QED BY <1>16 DEF v

\* raiseIncident
LEMMA RaiseIncidentGood ==
    ASSUME NEW w, NEW X, NEW Y, NEW k, NEW t \in DOMAIN w.toks,
           Good(w, X, k), X \subseteq Y \cup {t}
    PROVE  Good(RaiseIncident(w, t), Y, k)
<1> DEFINE rec == NewRecord("incident", t, w.toks[t].el, 0)
<1>1. w.top \in Nat /\ t \in 0..w.top /\ w.toks[t] \in Token /\ w.toks[t].el \in Elements
  BY DEF Good, Typed, ToksOK, TokenOK, Token
<1>2. "incident" \in RecordKinds /\ 0 \in Nat
  BY DEF RecordKinds
<1>3. RecordOK(rec, w.top)
  BY <1>1, <1>2, NewRecordOK
<1>4. [w.toks[t] EXCEPT !.st = "incident"].st = "incident"
  BY <1>1 DEF Token
<1> HIDE DEF rec
<1>5. ParkOK(w, t, "incident", rec, k)
  BY <1>3, <1>4 DEF ParkOK, TokenStates, WaitStates, Parked, Placed
<1>6. Good(Park(w, t, "incident", rec), Y, k)
  BY <1>5, ParkGood
<1> QED BY <1>6 DEF RaiseIncident, rec

\* createEventWait of several events: no token is parked on them.
LEMMA CreateEventWaitsGood ==
    ASSUME NEW w, NEW X, NEW k, NEW t, NEW events \in SUBSET Elements,
           Good(w, X, k), t \in 0..w.top
    PROVE  /\ Good(CreateEventWaits(w, t, events), X, k)
           /\ CreateEventWaits(w, t, events).toks = w.toks
           /\ CreateEventWaits(w, t, events).multi = w.multi
           /\ CreateEventWaits(w, t, events).def = w.def
           /\ CreateEventWaits(w, t, events).top \in Nat
           /\ w.top <= CreateEventWaits(w, t, events).top
<1> DEFINE q == SetToSeq(events)
           ids == (w.top + 1)..(w.top + Len(q))
           wait(e) == NewRecord(WaitKind(e), t, e, WaitRetries(e))
           g == [i \in ids |-> wait(q[i - w.top])]
           f == Over(w.recs, g)
           n == w.top + Len(q)
<1>0. IsWorld(w) /\ w.top \in Nat /\ DOMAIN w.recs \subseteq 1..w.top
  BY DEF Good, Typed, RecsOK
<1>1. IsFiniteSet(events)
  BY ProcessModelAssumption, FS_Subset
<1>2. q \in [1..Len(q) -> events] /\ Len(q) \in Nat
  BY <1>1, SetToSeqLists
<1>3. CreateEventWaits(w, t, events) = [w EXCEPT !.recs = f, !.top = n]
  <2>1. [w EXCEPT !.recs = f].top = w.top
    BY <1>0 DEF IsWorld
  <2> QED BY <2>1 DEF CreateEventWaits
<1> HIDE DEF q
<1>4. n \in Nat /\ w.top <= n
  BY <1>0, <1>2
<1>5. ASSUME NEW e \in events PROVE RecordOK(wait(e), n)
  <2>1. WaitKind(e) \in RecordKinds /\ WaitRetries(e) \in Nat
    BY InterpreterAssumption DEF WaitKind, WaitRetries, RecordKinds, EventWaits
  <2>2. t \in 0..n
    BY <1>0, <1>4
  <2> QED BY <1>4, <2>1, <2>2, NewRecordOK
<1>6. ASSUME NEW i \in ids PROVE RecordOK(g[i], n)
  <2>1. i - w.top \in 1..Len(q)
    BY <1>0, <1>2, <1>6
  <2>2. q[i - w.top] \in events
    BY <1>2, <2>1
  <2>3. RecordOK(wait(q[i - w.top]), n)
    BY <1>5, <2>2
  <2> QED BY <1>6, <2>3
<1>7. DOMAIN g = ids
  OBVIOUS
<1>8. \A i \in ids : i \in (w.top + 1)..n /\ i \notin DOMAIN w.recs
  BY <1>0, <1>2
<1> HIDE DEF g, ids, wait, n
<1>9. \A i \in DOMAIN w.recs : i \in DOMAIN f /\ f[i] = w.recs[i]
  BY DEF Over
<1>10. \A i \in DOMAIN f \ DOMAIN w.recs : i \in (w.top + 1)..n /\ RecordOK(f[i], n)
  BY <1>6, <1>7, <1>8 DEF Over
<1> HIDE DEF f
<1>11. Good([w EXCEPT !.recs = f, !.top = n], X, k)
  BY <1>4, <1>9, <1>10, MoreRecsGood
<1>12. /\ [w EXCEPT !.recs = f, !.top = n].toks = w.toks
       /\ [w EXCEPT !.recs = f, !.top = n].multi = w.multi
       /\ [w EXCEPT !.recs = f, !.top = n].top = n
       /\ [w EXCEPT !.recs = f, !.top = n].def = w.def
  BY <1>0 DEF IsWorld
<1> QED BY <1>3, <1>4, <1>11, <1>12

\* The flows of a set are numbered from 0 by the flows before them.
LEMMA RankCounts ==
    ASSUME NEW F \in SUBSET Nat, IsFiniteSet(F), F # {}
    PROVE  /\ Cardinality(F) \in Nat \ {0}
           /\ \A f \in F : Cardinality({g \in F : g < f}) \in 0..(Cardinality(F) - 1)
           /\ \A f, h \in F : Cardinality({g \in F : g < f}) = Cardinality({g \in F : g < h}) => f = h
           /\ \A f \in F \ {Min(F)} : Cardinality({g \in F : g < f}) # 0
<1> DEFINE below(f) == {g \in F : g < f}
<1>1. Cardinality(F) \in Nat /\ Cardinality(F) # 0
  BY FS_CardinalityType, FS_EmptySet
<1>2. ASSUME NEW f \in F
      PROVE  /\ IsFiniteSet(below(f)) /\ Cardinality(below(f)) \in Nat
             /\ Cardinality(below(f)) <= Cardinality(F)
             /\ Cardinality(below(f)) # Cardinality(F)
  <2>1. below(f) \in SUBSET F /\ f \notin below(f)
    OBVIOUS
  <2> HIDE DEF below
  <2>2. /\ IsFiniteSet(below(f)) /\ Cardinality(below(f)) <= Cardinality(F)
        /\ Cardinality(F) = Cardinality(below(f)) => F = below(f)
    BY <2>1, FS_Subset
  <2>3. Cardinality(below(f)) \in Nat
    BY <2>2, FS_CardinalityType
  <2> QED BY <2>1, <2>2, <2>3
<1>3. ASSUME NEW f \in F, NEW h \in F, f < h
      PROVE  Cardinality(below(f)) # Cardinality(below(h))
  <2>0. \A g \in F : g \in Nat /\ (g < f => g < h) /\ ~(f < f)
    BY <1>3
  <2>1. below(f) \in SUBSET below(h) /\ f \in below(h) /\ f \notin below(f)
    BY <1>3, <2>0, Zenon
  <2>2. IsFiniteSet(below(h))
    BY <1>2
  <2> HIDE DEF below
  <2>3. Cardinality(below(h)) = Cardinality(below(f)) => below(h) = below(f)
    BY <2>1, <2>2, FS_Subset
  <2> QED BY <2>1, <2>3
<1>4. ASSUME NEW f \in F, f # Min(F) PROVE Cardinality(below(f)) # 0
  <2>1. Min(F) \in F /\ Min(F) <= f
    BY MinIsLeast
  <2>2. Min(F) \in below(f)
    <3>1. Min(F) \in Nat /\ f \in Nat
      BY <1>4, <2>1
    <3>2. Min(F) < f
      BY <1>4, <2>1, <3>1
    <3> QED BY <2>1, <3>2
  <2>3. IsFiniteSet(below(f))
    BY <1>2
  <2> HIDE DEF below
  <2> QED BY <2>2, <2>3, FS_EmptySet
<1>5. \A f \in F : Cardinality(below(f)) \in 0..(Cardinality(F) - 1)
  <2> HIDE DEF below
  <2> QED BY <1>1, <1>2
<1>6. \A f, h \in F : Cardinality(below(f)) = Cardinality(below(h)) => f = h
  <2> HIDE DEF below
  <2>1. \A f, h \in F : f # h => f < h \/ h < f
    OBVIOUS
  <2> QED BY <1>3, <2>1
<1> QED BY <1>1, <1>4, <1>5, <1>6

\* moveOver and maybeAsync: the token and its new siblings are active, or wait
\* each for a job of its own.
LEMMA MoveOverGood ==
    ASSUME NEW w, NEW X, NEW Y, NEW k, NEW t \in DOMAIN w.toks,
           NEW F \in SUBSET Flows, F # {}, Good(w, X, k), X \subseteq Y \cup {t}
    PROVE  Good(MoveOver(w, t, F), Y, k)
<1> DEFINE rank(f) == Cardinality({g \in F : g < f})
           c == Cardinality(F)
           id(f) == IF f = Min(F) THEN t ELSE w.top + rank(f)
           job(f) == w.top + c + rank(f)
           async == {f \in F : Node[Flow[f].to].async}
           arrived(f) == [w.toks[t] EXCEPT !.el = Flow[f].to,
                                           !.flow = f,
                                           !.st = IF f \in async THEN "retry" ELSE "active",
                                           !.ref = IF f \in async THEN job(f) ELSE 0]
           by(i) == CHOOSE f \in F : id(f) = i
           due(i) == CHOOSE f \in async : job(f) = i
           g == [i \in {id(f) : f \in F} |-> arrived(by(i))]
           r == [i \in {job(f) : f \in async} |-> NewRecord("async", id(due(i)), Flow[due(i)].to, 0)]
           n == w.top + 2 * c
           v == MoveOver(w, t, F)
<1>0. /\ Typed(w) /\ IsWorld(w) /\ w.top \in Nat /\ DOMAIN w.recs \subseteq 1..w.top
      /\ DOMAIN w.toks \subseteq 1..w.top /\ TokenOK(w.toks[t], w.top)
  BY DEF Good, Typed, RecsOK, ToksOK
<1>1. F \in SUBSET Nat /\ IsFiniteSet(F)
  BY ProcessModelAssumption, FS_Subset
<1>2. /\ c \in Nat \ {0} /\ \A f \in F : rank(f) \in 0..(c - 1)
      /\ \A f, h \in F : rank(f) = rank(h) => f = h
      /\ \A f \in F \ {Min(F)} : rank(f) # 0
  BY <1>1, RankCounts
<1>3. /\ IsWorld(v) /\ v.toks = Over(g, w.toks) /\ v.recs = Over(w.recs, r)
      /\ v.multi = w.multi /\ v.def = w.def
      /\ v.st = w.st /\ v.again = w.again /\ v.spent = w.spent /\ v.top = n
  <2>1. v = [w EXCEPT !.toks = Over(g, @), !.recs = Over(@, r), !.top = @ + 2 * Cardinality(F)]
    BY DEF MoveOver
  <2> HIDE DEF v, g, r
  <2> QED BY <1>0, <2>1 DEF IsWorld
<1> HIDE DEF v, rank, c
<1>4. n \in Nat /\ w.top <= n /\ \A f \in F : job(f) \in Nat /\ job(f) > w.top /\ job(f) \in 1..n
  BY <1>0, <1>2
<1>5. \A f, h \in F : job(f) = job(h) => f = h
  BY <1>0, <1>2
<1>6. /\ t \in 1..w.top
      /\ \A f \in F : id(f) \in 1..n /\ (id(f) = t \/ id(f) > w.top)
  BY <1>0, <1>2
<1>7. \A f, h \in F : id(f) = id(h) => f = h
  <2> SUFFICES ASSUME NEW f \in F, NEW h \in F, id(f) = id(h) PROVE f = h
    OBVIOUS
  <2>1. rank(f) \in Nat /\ rank(h) \in Nat
    BY <1>2
  <2>2. CASE f = Min(F) /\ h = Min(F)
    BY <2>2
  <2>3. CASE f # Min(F) /\ h # Min(F)
    <3>1. w.top + rank(f) = w.top + rank(h)
      BY <2>3
    <3>2. rank(f) = rank(h)
      BY <1>0, <2>1, <3>1
    <3> QED BY <1>2, <3>2
  <2>4. CASE f = Min(F) /\ h # Min(F)
    <3>1. t = w.top + rank(h) /\ rank(h) # 0
      BY <1>2, <2>4
    <3> QED BY <1>0, <1>6, <2>1, <3>1
  <2>5. CASE f # Min(F) /\ h = Min(F)
    <3>1. t = w.top + rank(f) /\ rank(f) # 0
      BY <1>2, <2>5
    <3> QED BY <1>0, <1>6, <2>1, <3>1
  <2> QED BY <2>2, <2>3, <2>4, <2>5
<1> HIDE DEF id, job, n
<1>8. \A f \in F : by(id(f)) = f
  BY <1>7
<1>9. \A f \in async : due(job(f)) = f
  BY <1>5
<1>10. DOMAIN g = {id(f) : f \in F} /\ \A f \in F : g[id(f)] = arrived(f)
  <2> HIDE DEF by, arrived
  <2> QED BY <1>8
<1>11. DOMAIN r = {job(f) : f \in async} /\ \A f \in async : r[job(f)] = NewRecord("async", id(f), Flow[f].to, 0)
  <2> HIDE DEF due
  <2> QED BY <1>9
<1>12. ASSUME NEW f \in F
       PROVE  /\ TokenOK(arrived(f), n) /\ arrived(f).st \in {"retry", "active"}
              /\ arrived(f).st = "retry" <=> f \in async
              /\ f \in async => arrived(f).ref = job(f)
              /\ arrived(f).par = w.toks[t].par
  <2>1. Flow[f].to \in Elements /\ f \in Nat
    BY <1>1, ProcessModelAssumption DEF FlowRecord
  <2>2. w.toks[t] \in Token /\ TokenOK(w.toks[t], n)
    <3>1. ToksOK(w.toks, n)
      BY <1>0, <1>4, OKLarger DEF Typed
    <3> QED BY <3>1 DEF ToksOK, TokenOK
  <2>3. job(f) \in Nat /\ job(f) <= n
    BY <1>4
  <2> HIDE DEF async
  <2>4. arrived(f) \in Token
    BY <2>1, <2>2, <2>3 DEF Token, TokenStates, WaitStates
  <2>5. /\ arrived(f).par = w.toks[t].par /\ arrived(f).scope = w.toks[t].scope
        /\ arrived(f).st = (IF f \in async THEN "retry" ELSE "active")
        /\ arrived(f).ref = (IF f \in async THEN job(f) ELSE 0)
    BY <2>2 DEF Token
  <2> HIDE DEF arrived
  <2> QED BY <1>4, <2>2, <2>3, <2>4, <2>5 DEF TokenOK
<1> HIDE DEF by, due, arrived, g, r
<1>13. /\ DOMAIN v.toks = DOMAIN g \cup DOMAIN w.toks
       /\ \A f \in F : id(f) \in DOMAIN v.toks /\ v.toks[id(f)] = arrived(f)
       /\ \A u \in DOMAIN w.toks \ {t} : v.toks[u] = w.toks[u]
  <2>1. \A u \in DOMAIN w.toks \ {t} : u \notin DOMAIN g
    BY <1>0, <1>6, <1>10
  <2>2. v.toks = Over(g, w.toks)
    BY <1>3
  <2> QED BY <1>10, <2>1, <2>2 DEF Over
<1>14. \A u \in DOMAIN v.toks : (\E f \in F : u = id(f)) \/ u \in DOMAIN w.toks \ {t}
  <2>1. Min(F) \in F /\ id(Min(F)) = t
    BY <1>1, MinIsLeast DEF id
  <2> QED BY <1>10, <1>13, <2>1
<1>15. /\ \A i \in DOMAIN w.recs : i \in DOMAIN v.recs /\ v.recs[i] = w.recs[i]
       /\ \A f \in async : job(f) \in DOMAIN v.recs
                           /\ v.recs[job(f)] = NewRecord("async", id(f), Flow[f].to, 0)
       /\ \A i \in DOMAIN v.recs : i \in DOMAIN w.recs \/ \E f \in async : i = job(f)
  <2>1. \A f \in async : job(f) \notin DOMAIN w.recs
    BY <1>0, <1>4
  <2>2. v.recs = Over(w.recs, r)
    BY <1>3
  <2> QED BY <1>11, <2>1, <2>2 DEF Over
<1>16. ToksOK(w.toks, n) /\ RecsOK(w.recs, n) /\ LoopsOK(w.multi, n)
  BY <1>0, <1>4, OKLarger DEF Typed
<1>17. ToksOK(v.toks, n)
  <2>1. w.toks[t].par # t /\ ~(w.toks[t].par > w.top) /\ w.toks[t].par \in Nat
    BY <1>0 DEF Typed, ToksOK, TokenOK, Token
  <2>2. \A f \in F : arrived(f).par # id(f)
    BY <1>6, <1>12, <2>1
  <2> QED BY <1>6, <1>12, <1>13, <1>14, <1>16, <2>2 DEF ToksOK
<1>18. \A f \in async : RecordOK(NewRecord("async", id(f), Flow[f].to, 0), n)
  <2> SUFFICES ASSUME NEW f \in async PROVE RecordOK(NewRecord("async", id(f), Flow[f].to, 0), n)
    OBVIOUS
  <2>1. f \in F /\ Flow[f].to \in Elements
    BY ProcessModelAssumption DEF FlowRecord
  <2>2. id(f) \in 0..n /\ n \in Nat /\ 0 \in Nat
    BY <1>4, <1>6, <2>1
  <2>3. "async" \in RecordKinds
    BY DEF RecordKinds, EventWaits
  <2> QED BY <2>1, <2>2, <2>3, NewRecordOK
<1>19. RecsOK(v.recs, n)
  BY <1>4, <1>15, <1>16, <1>18 DEF RecsOK
<1>20. Typed(v)
  BY <1>0, <1>3, <1>4, <1>16, <1>17, <1>19 DEF Typed
<1>21. \A i \in DOMAIN v.recs : i \in Nat /\ (i > w.top \/ (i \in DOMAIN w.recs /\ v.recs[i] = w.recs[i]))
  BY <1>0, <1>4, <1>15
<1>22. ASSUME NEW f \in F, v.toks[id(f)].st \in Parked
       PROVE  /\ v.toks[id(f)].ref \in DOMAIN v.recs /\ v.toks[id(f)].ref > w.top
              /\ Fits(v.toks[id(f)], id(f), v.recs[v.toks[id(f)].ref], k.stays)
              /\ Placed(v.toks[id(f)], v.def, k.stays)
  <2>1. v.toks[id(f)] = arrived(f) /\ arrived(f).st = "retry" /\ f \in async
    BY <1>12, <1>13, <1>22 DEF Parked
  <2>2. v.toks[id(f)].ref = job(f) /\ v.toks[id(f)].st = "retry"
    BY <1>12, <2>1
  <2>3. v.recs[job(f)].tok = id(f) /\ v.recs[job(f)].kind = "async"
    <3>1. v.recs[job(f)] = NewRecord("async", id(f), Flow[f].to, 0)
      BY <1>15, <2>1
    <3>2. \A a, b, c1, d : NewRecord(a, b, c1, d).tok = b /\ NewRecord(a, b, c1, d).kind = a
      BY DEF NewRecord
    <3> QED BY <3>1, <3>2
  <2> QED BY <1>4, <1>15, <2>1, <2>2, <2>3 DEF Fits, Placed
<1>23. ASSUME NEW u \in DOMAIN w.toks \ {t}
       PROVE  /\ SameWait(v.toks[u], w.toks[u])
              /\ u \notin Y => u \notin X /\ (w.toks[u].ref \in DOMAIN w.recs => w.toks[u].ref \in DOMAIN v.recs)
  <2>1. u \notin Y => u \notin X
    BY <1>23
  <2>2. w.toks[u].ref \in DOMAIN w.recs => w.toks[u].ref \in DOMAIN v.recs
    BY <1>15
  <2>3. v.toks[u] = w.toks[u]
    BY <1>13, <1>23
  <2> QED BY <2>1, <2>2, <2>3 DEF SameWait
<1>24. Relinks(w, v, X, Y, k)
  <2>1. ASSUME NEW u \in DOMAIN v.toks, v.toks[u].st \in Parked
        PROVE  \/ /\ u \in DOMAIN w.toks /\ SameWait(v.toks[u], w.toks[u])
                  /\ u \notin Y =>
                        u \notin X /\ (w.toks[u].ref \in DOMAIN w.recs => w.toks[u].ref \in DOMAIN v.recs)
               \/ /\ v.toks[u].ref \in DOMAIN v.recs /\ v.toks[u].ref > w.top
                  /\ Fits(v.toks[u], u, v.recs[v.toks[u].ref], k.stays)
                  /\ Placed(v.toks[u], v.def, k.stays)
    BY <1>14, <1>22, <1>23, <2>1
  <2>2. v.def = w.def /\ v.top \in Nat /\ w.top <= v.top
    BY <1>3, <1>4
  <2> QED BY <1>21, <2>1, <2>2 DEF Relinks
<1>25. Good(v, Y, k)
  BY <1>20, <1>24, RelinkGood
<1> QED BY <1>25 DEF v

\* The flows out of an element.
LEMMA FlowsTakenOK ==
    ASSUME NEW e \in Elements, NEW yes
    PROVE  /\ Outgoing(e) \in SUBSET Flows
           /\ FlowsTaken(e, yes) \in SUBSET Flows
           /\ FirstFlow(e, yes) \in SUBSET Flows
<1>1. Outgoing(e) \in SUBSET Flows
  BY DEF Outgoing, OutgoingFlows
<1>2. HoldingFlows(e, yes) \in SUBSET Flows /\ Default(e) \in SUBSET Flows
  BY <1>1 DEF HoldingFlows, Default
<1>3. FlowsTaken(e, yes) \in SUBSET Flows
  BY <1>2 DEF FlowsTaken, OrDefault
<1>4. ASSUME HoldingFlows(e, yes) # {} PROVE Min(HoldingFlows(e, yes)) \in Flows
  <2> DEFINE H == HoldingFlows(e, yes)
  <2>1. H \in SUBSET Nat /\ H # {}
    BY <1>2, <1>4, ProcessModelAssumption
  <2> HIDE DEF H
  <2>2. Min(H) \in H
    BY <2>1, MinIsLeast
  <2> QED BY <1>2, <2>2 DEF H
<1>5. FirstFlow(e, yes) \in SUBSET Flows
  <2> DEFINE H == IF HoldingFlows(e, yes) = {} THEN {} ELSE {Min(HoldingFlows(e, yes))}
  <2>1. H \in SUBSET Flows
    BY <1>4
  <2>2. FirstFlow(e, yes) \in {{}, OrDefault(H, e)}
    BY DEF FirstFlow
  <2> HIDE DEF H
  <2>3. OrDefault(H, e) \in SUBSET Flows
    BY <1>2, <2>1 DEF OrDefault
  <2> QED BY <2>2, <2>3
<1> QED BY <1>1, <1>3, <1>5

\* takeOutgoing and forkAll
LEMMA FollowGood ==
    ASSUME NEW w, NEW X, NEW Y, NEW k, NEW t \in DOMAIN w.toks, NEW F \in SUBSET Flows,
           Good(w, X, k), X \subseteq Y \cup {t}
    PROVE  Good(Follow(w, t, F), Y, k)
<1>1. CASE F = {}
  <2>1. Good(RaiseIncident(w, t), Y, k)
    BY RaiseIncidentGood
  <2> QED BY <1>1, <2>1 DEF Follow
<1>2. CASE F # {}
  <2>1. Good(MoveOver(w, t, F), Y, k)
    BY <1>2, MoveOverGood
  <2> QED BY <1>2, <2>1 DEF Follow
<1> QED BY <1>1, <1>2

\* A token is at an element.
LEMMA AtElement ==
    ASSUME NEW w, NEW X, NEW k, NEW t \in DOMAIN w.toks, Good(w, X, k)
    PROVE  /\ w.toks[t] \in Token /\ TokenOK(w.toks[t], w.top)
           /\ w.toks[t].el \in Elements /\ t \in 1..w.top /\ w.top \in Nat
           /\ ScopeOK(w.toks[t].scope, w.top) /\ w.toks[t].par \in 0..w.top
  BY DEF Good, Typed, ToksOK, TokenOK, Token

\* takeOutgoing
LEMMA TakeOutgoingGood ==
    ASSUME NEW w, NEW X, NEW Y, NEW k, NEW t \in DOMAIN w.toks, NEW yes,
           Good(w, X, k), X \subseteq Y \cup {t}
    PROVE  Good(TakeOutgoing(w, t, yes), Y, k)
<1> DEFINE F == FlowsTaken(w.toks[t].el, yes)
<1>1. F \in SUBSET Flows
  BY AtElement, FlowsTakenOK
<1> HIDE DEF F
<1>2. Good(Follow(w, t, F), Y, k)
  BY <1>1, FollowGood
<1> QED BY <1>2 DEF TakeOutgoing, F

\* completeActivity, of a token that is no iteration
LEMMA LeaveActivityGood ==
    ASSUME NEW w, NEW X, NEW Y, NEW k, NEW t \in DOMAIN w.toks, NEW yes,
           Good(w, X, k), X \subseteq Y \cup {t}
    PROVE  Good(LeaveActivity(w, t, yes), Y, k)
<1> DEFINE v == DropTokenEventWaits(w, {t})
           T == {t}
           Z == Y \cup {t}
<1>1. X \subseteq Z /\ T \subseteq Z /\ Z \subseteq Y \cup {t}
  OBVIOUS
<1> HIDE DEF T, Z
<1>2. Good(DropTokenEventWaits(w, T), Z, k) /\ DropTokenEventWaits(w, T).toks = w.toks
  BY <1>1, DropTokenEventWaitsGood
<1>3. Good(v, Z, k) /\ v.toks = w.toks
  BY <1>2 DEF T
<1> HIDE DEF v
<1>4. Good(TakeOutgoing(v, t, yes), Y, k)
  BY <1>1, <1>3, TakeOutgoingGood
<1> QED BY <1>4 DEF LeaveActivity, v

------------------------------------------------------------------------------
\* Multi-instance loops.

\* The iterations are new tokens at their coordinator's element.
LEMMA SpawnMIChildrenGood ==
    ASSUME NEW w, NEW X, NEW k, NEW t \in DOMAIN w.toks, NEW n \in Nat, Good(w, X, k)
    PROVE  /\ Good(SpawnMIChildren(w, t, n), X, k)
           /\ SpawnMIChildren(w, t, n).multi = w.multi
<1> DEFINE child == [NewToken(w.toks[t].el, w.toks[t].scope) EXCEPT !.par = t,
                                                                    !.mi = w.toks[t].el]
           ids == (w.top + 1)..(w.top + n)
           g == [i \in ids |-> child]
           f == Over(w.toks, g)
           m == w.top + n
<1>0. IsWorld(w) /\ w.top \in Nat /\ DOMAIN w.toks \subseteq 1..w.top
  BY DEF Good, Typed, ToksOK
<1>1. SpawnMIChildren(w, t, n) = [w EXCEPT !.toks = f, !.top = m]
  <2>1. [w EXCEPT !.toks = f].top = w.top
    BY <1>0 DEF IsWorld
  <2> QED BY <2>1 DEF SpawnMIChildren
<1>2. m \in Nat /\ w.top <= m
  BY <1>0
<1>3. TokenOK(child, m) /\ child.par = t /\ child.st \notin Parked
  <2>1. /\ w.toks[t].el \in Elements /\ ScopeOK(w.toks[t].scope, m) /\ t \in 1..m
    <3>1. ToksOK(w.toks, m)
      BY <1>0, <1>2, OKLarger DEF Good, Typed
    <3> QED BY <3>1 DEF ToksOK, TokenOK, Token
  <2>2. child \in Token
    <3> DEFINE new == NewToken(w.toks[t].el, w.toks[t].scope)
    <3>1. new \in Token
      BY <1>2, <2>1, NewTokenOK DEF TokenOK
    <3> HIDE DEF new
    <3>2. t \in Nat
      BY <2>1
    <3>3. [new EXCEPT !.par = t, !.mi = w.toks[t].el] \in Token
      BY <2>1, <3>1, <3>2 DEF Token
    <3> QED BY <3>3 DEF new
  <2>3. /\ child.st = "active" /\ child.ref = 0 /\ child.par = t
        /\ child.scope = w.toks[t].scope
    BY DEF NewToken
  <2> HIDE DEF child
  <2> QED BY <1>2, <2>1, <2>2, <2>3 DEF TokenOK, Parked
<1> HIDE DEF child
<1>4. DOMAIN g = ids /\ \A i \in ids : g[i] = child
  OBVIOUS
<1>5. \A i \in ids : i \in 1..m /\ i \notin DOMAIN w.toks
  BY <1>0
<1> HIDE DEF g, ids
<1>6. DOMAIN w.toks \subseteq DOMAIN f /\ \A u \in DOMAIN w.toks : f[u] = w.toks[u]
  BY DEF Over
<1>7. \A u \in DOMAIN f \ DOMAIN w.toks :
         u \in 1..m /\ TokenOK(f[u], m) /\ f[u].par # u /\ f[u].st \notin Parked
  BY <1>3, <1>4, <1>5 DEF Over
<1> HIDE DEF f, m
<1>8. Good([w EXCEPT !.toks = f, !.top = m], X, k)
  BY <1>2, <1>6, <1>7, MoreTokensGood
<1>9. [w EXCEPT !.toks = f, !.top = m].multi = w.multi
  BY <1>0 DEF IsWorld
<1> QED BY <1>1, <1>8, <1>9

------------------------------------------------------------------------------
\* Changes of one token and of the counters.

\* Nothing but token t differs.
Changed(w, v, t) ==
    /\ IsWorld(v) /\ v.def = w.def /\ v.st = w.st /\ v.multi = w.multi /\ v.recs = w.recs
    /\ v.again = w.again /\ v.spent = w.spent /\ v.top = w.top
    /\ DOMAIN v.toks = DOMAIN w.toks
    /\ \A u \in DOMAIN w.toks \ {t} : v.toks[u] = w.toks[u]

Resumed(w, t, st) == [w EXCEPT !.toks[t].st = st, !.toks[t].ref = 0]
Jumped(w, t, e) == [w EXCEPT !.toks[t].el = e, !.toks[t].st = "active", !.toks[t].ref = 0]
Tried(w, t, n) == [w EXCEPT !.toks[t].tries = n]

\* What they leave alone.
LEMMA ResumedFields ==
    ASSUME NEW w, NEW t, NEW st, IsWorld(w)
    PROVE  /\ DOMAIN Resumed(w, t, st).toks = DOMAIN w.toks
           /\ Resumed(w, t, st).multi = w.multi /\ Resumed(w, t, st).top = w.top
           /\ Resumed(w, t, st).def = w.def
  BY DEF IsWorld, Resumed

\* The loops are left alone.
LEMMA SpawnMIChildrenFields ==
    ASSUME NEW w, NEW t, NEW n, IsWorld(w)
    PROVE  SpawnMIChildren(w, t, n).multi = w.multi
  BY DEF IsWorld, SpawnMIChildren

\* A token that then waits for nothing keeps the links.
LEMMA ChangedGood ==
    ASSUME NEW w, NEW v, NEW X, NEW Y, NEW k, NEW t \in DOMAIN w.toks,
           Good(w, X, k), X \subseteq Y \cup {t}, Changed(w, v, t),
           v.toks[t] \in Token, v.toks[t].st \notin Parked, v.toks[t].ref <= w.top,
           v.toks[t].par = w.toks[t].par, v.toks[t].scope = w.toks[t].scope
    PROVE  Good(v, Y, k)
<1>0. Typed(w) /\ IsWorld(w) /\ TokenOK(w.toks[t], w.top) /\ w.toks[t].par # t
  BY DEF Good, Typed, ToksOK
<1>2. ToksOK(v.toks, w.top)
  <2>1. TokenOK(v.toks[t], w.top) /\ v.toks[t].par # t
    BY <1>0 DEF TokenOK
  <2> QED BY <1>0, <2>1 DEF Typed, ToksOK, Changed
<1>3. Typed(v)
  BY <1>0, <1>2 DEF Typed, Changed
<1>4. w.top \in Nat /\ DOMAIN w.recs \subseteq Nat
  BY <1>0 DEF Typed, RecsOK
<1>5. Relinks(w, v, X, Y, k)
  BY <1>4 DEF Relinks, SameWait, Changed
<1> QED BY <1>3, <1>5, RelinkGood

\* A token with some fields changed is a token.
LEMMA TokenChanges ==
    ASSUME NEW tok \in Token, NEW e \in Elements, NEW st \in TokenStates, NEW n \in Nat
    PROVE  /\ [tok EXCEPT !.st = st] \in Token
           /\ [tok EXCEPT !.ref = n] \in Token
           /\ [tok EXCEPT !.el = e] \in Token
           /\ [tok EXCEPT !.tries = n] \in Token
           /\ [tok EXCEPT !.mi = "none"] \in Token
  BY DEF Token

\* A token goes to another state in which it waits for no task and no job.
LEMMA ResumeGood ==
    ASSUME NEW w, NEW X, NEW Y, NEW k, NEW t \in DOMAIN w.toks,
           NEW st \in TokenStates \ Parked,
           Good(w, X, k), X \subseteq Y \cup {t}
    PROVE  LET v == Resumed(w, t, st)
           IN  /\ Good(v, Y, k) /\ DOMAIN v.toks = DOMAIN w.toks /\ v.multi = w.multi
               /\ v.top = w.top /\ v.toks[t].scope = w.toks[t].scope
               /\ v.toks[t].el = w.toks[t].el /\ v.def = w.def
<1> DEFINE v == Resumed(w, t, st)
<1>0. IsWorld(w) /\ w.toks[t] \in Token /\ w.top \in Nat
  BY DEF Good, Typed, ToksOK, TokenOK
<1>1. Changed(w, v, t) /\ v.toks[t] = [w.toks[t] EXCEPT !.st = st, !.ref = 0]
  BY <1>0 DEF Changed, IsWorld, Resumed, Jumped
<1> HIDE DEF v
<1>a. v.toks[t] \in Token
  <2>0. w.toks[t].el \in Elements /\ 0 \in Nat /\ st \in TokenStates
    BY <1>0 DEF Token
  <2>1. [w.toks[t] EXCEPT !.st = st] \in Token
    BY <1>0, <2>0, TokenChanges
  <2>2. [[w.toks[t] EXCEPT !.st = st] EXCEPT !.ref = 0] \in Token
    BY <2>0, <2>1, TokenChanges
  <2> QED BY <1>1, <2>2
<1>2. /\ v.toks[t].st = st /\ v.toks[t].ref = 0
      /\ v.toks[t].par = w.toks[t].par /\ v.toks[t].scope = w.toks[t].scope
      /\ v.toks[t].el = w.toks[t].el
  BY <1>0, <1>1 DEF Token
<1>b. v.toks[t].ref <= w.top /\ v.toks[t].st \notin Parked
  BY <1>0, <1>2
<1>3. Good(v, Y, k)
  BY <1>1, <1>2, <1>a, <1>b, ChangedGood
<1>4. DOMAIN v.toks = DOMAIN w.toks /\ v.multi = w.multi /\ v.top = w.top /\ v.def = w.def
  BY <1>1 DEF Changed
<1> QED BY <1>2, <1>3, <1>4 DEF v

\* A token is put on another element and goes on from there.
LEMMA JumpGood ==
    ASSUME NEW w, NEW X, NEW Y, NEW k, NEW t \in DOMAIN w.toks, NEW e \in Elements,
           Good(w, X, k), X \subseteq Y \cup {t}
    PROVE  LET v == Jumped(w, t, e)
           IN  Good(v, Y, k) /\ DOMAIN v.toks = DOMAIN w.toks /\ v.toks[t].st = "active"
<1> DEFINE v == Jumped(w, t, e)
<1>0. IsWorld(w) /\ w.toks[t] \in Token /\ w.top \in Nat
  BY DEF Good, Typed, ToksOK, TokenOK
<1>1. Changed(w, v, t) /\ v.toks[t] = [w.toks[t] EXCEPT !.el = e, !.st = "active", !.ref = 0]
  BY <1>0 DEF Changed, IsWorld, Resumed, Jumped
<1> HIDE DEF v
<1>a. v.toks[t] \in Token
  <2>0. "active" \in TokenStates /\ 0 \in Nat
    BY DEF TokenStates
  <2>1. [w.toks[t] EXCEPT !.el = e] \in Token
    BY <1>0, TokenChanges, <2>0
  <2>2. [[w.toks[t] EXCEPT !.el = e] EXCEPT !.st = "active"] \in Token
    BY <2>0, <2>1, TokenChanges
  <2>3. [[[w.toks[t] EXCEPT !.el = e] EXCEPT !.st = "active"] EXCEPT !.ref = 0] \in Token
    BY <2>0, <2>2, TokenChanges
  <2> QED BY <1>1, <2>3
<1>2. /\ v.toks[t].st = "active" /\ v.toks[t].ref = 0
      /\ v.toks[t].par = w.toks[t].par /\ v.toks[t].scope = w.toks[t].scope
  BY <1>0, <1>1 DEF Token
<1>b. v.toks[t].ref <= w.top /\ v.toks[t].st \notin Parked
  BY <1>0, <1>2 DEF Parked
<1>3. Good(v, Y, k)
  BY <1>1, <1>2, <1>a, <1>b, ChangedGood
<1> QED BY <1>1, <1>2, <1>3 DEF v, Changed

\* moveToBoundary
LEMMA MoveToBoundaryGood ==
    ASSUME NEW w, NEW X, NEW Y, NEW k, NEW t \in DOMAIN w.toks, NEW b \in Elements,
           Good(w, X, k), X \subseteq Y \cup {t}
    PROVE  Good(MoveToBoundary(w, t, b), Y, k)
<1> DEFINE j == Jumped(w, t, b)
           v == [j EXCEPT !.toks[t].tries = 0, !.toks[t].mi = "none"]
<1>1. Good(j, Y, k) /\ DOMAIN j.toks = DOMAIN w.toks /\ j.toks[t].st = "active"
  BY JumpGood
<1>2. MoveToBoundary(w, t, b) = v
  BY DEF MoveToBoundary, Jumped
<1> HIDE DEF j
<1>3. IsWorld(j) /\ TokenOK(j.toks[t], j.top) /\ t \in DOMAIN j.toks
  BY <1>1 DEF Good, Typed, ToksOK
<1>4. Changed(j, v, t) /\ v.toks[t] = [j.toks[t] EXCEPT !.tries = 0, !.mi = "none"]
  BY <1>3 DEF Changed, IsWorld
<1> HIDE DEF v
<1>5. v.toks[t] \in Token
  <2>1. j.toks[t] \in Token /\ b \in Elements /\ "active" \in TokenStates /\ 0 \in Nat
    BY <1>3 DEF TokenOK, TokenStates
  <2>2. [j.toks[t] EXCEPT !.tries = 0] \in Token
    BY <2>1, TokenChanges
  <2>3. [[j.toks[t] EXCEPT !.tries = 0] EXCEPT !.mi = "none"] \in Token
    BY <2>1, <2>2, TokenChanges
  <2> QED BY <1>4, <2>3
<1>6. /\ v.toks[t].st = "active" /\ v.toks[t].ref = j.toks[t].ref
      /\ v.toks[t].par = j.toks[t].par /\ v.toks[t].scope = j.toks[t].scope
  BY <1>1, <1>3, <1>4 DEF TokenOK, Token
<1>7. v.toks[t].ref <= j.top /\ v.toks[t].st \notin Parked
  BY <1>3, <1>6 DEF TokenOK, Parked
<1>8. Good(v, Y, k)
  BY <1>1, <1>3, <1>4, <1>5, <1>6, <1>7, ChangedGood
<1> QED BY <1>2, <1>8

\* A token waits at a join.
LEMMA JoiningGood ==
    ASSUME NEW w, NEW X, NEW Y, NEW k, NEW t \in DOMAIN w.toks,
           Good(w, X, k), X \subseteq Y \cup {t}
    PROVE  Good(Joining(w, t), Y, k)
<1> DEFINE v == Joining(w, t)
<1>0. IsWorld(w) /\ w.toks[t] \in Token /\ w.top \in Nat /\ w.toks[t].ref <= w.top
  BY DEF Good, Typed, ToksOK, TokenOK
<1>1. Changed(w, v, t) /\ v.toks[t] = [w.toks[t] EXCEPT !.st = "joining"]
  BY <1>0 DEF Changed, IsWorld, Joining
<1> HIDE DEF v
<1>2. /\ v.toks[t] \in Token /\ v.toks[t].st = "joining" /\ v.toks[t].ref = w.toks[t].ref
      /\ v.toks[t].par = w.toks[t].par /\ v.toks[t].scope = w.toks[t].scope
  BY <1>0, <1>1 DEF Token, TokenStates
<1>3. Good(v, Y, k)
  BY <1>0, <1>1, <1>2, ChangedGood DEF Parked
<1> QED BY <1>3 DEF v

\* The attempts of an activity are counted.
LEMMA TriesGood ==
    ASSUME NEW w, NEW X, NEW k, NEW t \in DOMAIN w.toks, NEW n \in Nat, Good(w, X, k)
    PROVE  LET v == Tried(w, t, n)
           IN  /\ Good(v, X, k) /\ DOMAIN v.toks = DOMAIN w.toks
               /\ v.toks[t].el = w.toks[t].el /\ v.top = w.top
<1> DEFINE v == Tried(w, t, n)
<1>0. /\ Typed(w) /\ IsWorld(w) /\ w.toks[t] \in Token /\ w.top \in Nat
      /\ TokenOK(w.toks[t], w.top) /\ w.toks[t].par # t
  BY DEF Good, Typed, ToksOK, TokenOK
<1>1. Changed(w, v, t) /\ v.toks[t] = [w.toks[t] EXCEPT !.tries = n]
  BY <1>0 DEF Changed, IsWorld, Tried
<1> HIDE DEF v
<1>2. /\ v.toks[t] \in Token /\ v.toks[t].st = w.toks[t].st /\ v.toks[t].ref = w.toks[t].ref
      /\ v.toks[t].el = w.toks[t].el
      /\ v.toks[t].par = w.toks[t].par /\ v.toks[t].scope = w.toks[t].scope
  BY <1>0, <1>1 DEF Token
<1>3. ToksOK(v.toks, w.top)
  <2>1. TokenOK(v.toks[t], w.top) /\ v.toks[t].par # t
    BY <1>0, <1>2 DEF TokenOK
  <2>2. /\ DOMAIN v.toks = DOMAIN w.toks /\ DOMAIN w.toks \subseteq 1..w.top
        /\ \A u \in DOMAIN w.toks : TokenOK(w.toks[u], w.top) /\ w.toks[u].par # u
    BY <1>0, <1>1 DEF Typed, ToksOK, Changed
  <2>3. \A u \in DOMAIN w.toks : u = t \/ v.toks[u] = w.toks[u]
    BY <1>1 DEF Changed
  <2>4. \A u \in DOMAIN v.toks : TokenOK(v.toks[u], w.top) /\ v.toks[u].par # u
    BY <2>1, <2>2, <2>3
  <2> QED BY <2>2, <2>4 DEF ToksOK
<1>4. Typed(v)
  BY <1>0, <1>1, <1>3 DEF Typed, Changed
<1>5. DOMAIN w.recs \subseteq Nat
  BY <1>0 DEF Typed, RecsOK
<1>6. \A u \in DOMAIN w.toks : SameWait(v.toks[u], w.toks[u])
  BY <1>1, <1>2 DEF SameWait, Changed
<1>7. Relinks(w, v, X, X, k)
  BY <1>0, <1>1, <1>5, <1>6 DEF Relinks, Changed
<1>8. Good(v, X, k)
  BY <1>4, <1>7, RelinkGood
<1> QED BY <1>1, <1>2, <1>8 DEF v, Changed

\* Budget and the mark of a loop that is started over.
LEMMA CountersGood ==
    ASSUME NEW w, NEW v, NEW X, NEW k, Good(w, X, k), IsWorld(v),
           v.def = w.def, v.st = w.st, v.toks = w.toks, v.multi = w.multi, v.recs = w.recs,
           v.top = w.top, v.again \in BOOLEAN, v.spent \in Nat
    PROVE  Good(v, X, k)
<1>1. Typed(v)
  BY DEF Good, Typed
<1>2. w.top \in Nat /\ DOMAIN w.recs \subseteq Nat
  BY DEF Good, Typed, RecsOK
<1>3. Relinks(w, v, X, X, k)
  BY <1>2 DEF Relinks, SameWait
<1> QED BY <1>1, <1>3, RelinkGood

------------------------------------------------------------------------------
\* Loops and scopes.

\* Boundary events and typed starts are elements.
LEMMA EventsAreElements ==
    /\ \A e \in Elements : /\ Awaited(e) \in SUBSET Elements
                           /\ ErrorBoundaries(e) \in SUBSET Elements
    /\ \A c, kinds : /\ EventStarts(c, kinds) \in SUBSET Elements
                     /\ Starts(c, kinds) \in SUBSET Elements
  BY DEF Awaited, ErrorBoundaries, BoundaryEvents, BoundariesOf, EventStarts, Starts

\* createEventWait of several events leaves the token where it is.
LEMMA RegisterWaitsFields ==
    ASSUME NEW w, NEW t \in DOMAIN w.toks, NEW events, NEW bad,
           IsWorld(w), w.toks[t] \in Token
    PROVE  /\ DOMAIN RegisterWaits(w, t, events, bad).toks = DOMAIN w.toks
           /\ RegisterWaits(w, t, events, bad).def = w.def
           /\ RegisterWaits(w, t, events, bad).toks[t].el = w.toks[t].el
<1> DEFINE v == CreateEventWaits(w, t, events \ bad)
<1>1. IsWorld(v) /\ v.toks = w.toks /\ v.def = w.def
  BY DEF IsWorld, CreateEventWaits
<1> DEFINE n == v.top + Cardinality(events \cap bad)
           rec == NewRecord("incident", t, w.toks[t].el, 0)
           f == Over(v.recs, [i \in (v.top + 1)..n |-> rec])
           r == [v EXCEPT !.recs = f, !.toks[t].st = "incident", !.toks[t].ref = n, !.top = n]
<1>2. RegisterWaits(w, t, events, bad) \in {v, r}
  BY DEF RegisterWaits
<1> HIDE DEF v, n, f
<1>3. r.def = w.def /\ DOMAIN r.toks = DOMAIN w.toks
  BY <1>1 DEF IsWorld
<1>4. r.toks[t] = [w.toks[t] EXCEPT !.st = "incident", !.ref = n]
  BY <1>1 DEF IsWorld
<1> HIDE DEF r
<1>5. r.toks[t].el = w.toks[t].el
  BY <1>4 DEF Token
<1>6. CASE RegisterWaits(w, t, events, bad) = v
  BY <1>1, <1>6
<1>7. CASE RegisterWaits(w, t, events, bad) = r
  BY <1>3, <1>5, <1>7
<1> QED BY <1>2, <1>6, <1>7

\* Of several events some may fail: the token is parked on an incident then.
LEMMA RegisterWaitsGood ==
    ASSUME NEW w, NEW X, NEW k, NEW t \in DOMAIN w.toks, NEW events \in SUBSET Elements,
           NEW bad, Good(w, X, k)
    PROVE  Good(RegisterWaits(w, t, events, bad), X, k)
<1> DEFINE v == CreateEventWaits(w, t, events \ bad)
           c == Cardinality(events \cap bad)
           n == v.top + c
           rec == NewRecord("incident", t, w.toks[t].el, 0)
           g == [i \in (v.top + 1)..n |-> rec]
           f == Over(v.recs, g)
           a == [v EXCEPT !.recs = f, !.top = n]
           r == RegisterWaits(w, t, events, bad)
<1>0. w.toks[t] \in Token /\ w.toks[t].el \in Elements /\ t \in 0..w.top /\ w.top \in Nat
  BY AtElement
<1>1. /\ Good(v, X, k) /\ v.toks = w.toks /\ v.multi = w.multi /\ v.def = w.def
      /\ v.top \in Nat /\ w.top <= v.top
  <2>1. events \ bad \in SUBSET Elements
    OBVIOUS
  <2> QED BY <1>0, <2>1, CreateEventWaitsGood
<1>2. CASE events \cap bad = {}
  <2>1. r = v
    BY <1>2 DEF RegisterWaits
  <2> HIDE DEF r, v
  <2> QED BY <1>1, <2>1 DEF r
<1>3. CASE events \cap bad # {}
  <2>1. r = [v EXCEPT !.recs = f, !.toks[t].st = "incident", !.toks[t].ref = n, !.top = n]
    BY <1>3 DEF RegisterWaits
  <2>2. c \in Nat
    <3>1. IsFiniteSet(events \cap bad)
      BY ProcessModelAssumption, FS_Subset
    <3> QED BY <3>1, FS_CardinalityType
  <2> HIDE DEF c, v, r
  <2>3. n \in Nat /\ v.top <= n /\ IsWorld(v) /\ DOMAIN v.recs \subseteq 1..v.top
    BY <1>1, <2>2 DEF Good, Typed, RecsOK
  <2>4. RecordOK(rec, n)
    <3>1. "incident" \in RecordKinds /\ 0 \in Nat /\ t \in 0..n
      BY <1>0, <1>1, <2>3 DEF RecordKinds
    <3> QED BY <1>0, <2>3, <3>1, NewRecordOK
  <2> HIDE DEF rec
  <2>5. \A i \in DOMAIN v.recs : i \in DOMAIN f /\ f[i] = v.recs[i]
    BY DEF Over
  <2>6. \A i \in DOMAIN f \ DOMAIN v.recs : i \in (v.top + 1)..n /\ RecordOK(f[i], n)
    BY <2>4 DEF Over
  <2> HIDE DEF f, n
  <2>7. Good(a, X, k)
    <3>1. Good(v, X, k)
      BY <1>1
    <3> QED BY <2>3, <2>5, <2>6, <3>1, MoreRecsGood
  <2>8. a.toks = w.toks /\ a.multi = w.multi /\ a.def = w.def /\ a.top = n /\ IsWorld(a)
    BY <1>1, <2>3 DEF IsWorld
  <2>9. Changed(a, r, t) /\ r.toks[t] = [w.toks[t] EXCEPT !.st = "incident", !.ref = n]
    BY <1>1, <2>1, <2>3 DEF Changed, IsWorld
  <2> HIDE DEF a
  <2>10. r.toks[t] \in Token
    <3>1. "incident" \in TokenStates
      BY DEF TokenStates, WaitStates
    <3>2. [w.toks[t] EXCEPT !.st = "incident"] \in Token
      BY <1>0, <2>3, <3>1, TokenChanges
    <3>3. [[w.toks[t] EXCEPT !.st = "incident"] EXCEPT !.ref = n] \in Token
      BY <1>0, <2>3, <3>1, <3>2, TokenChanges
    <3> QED BY <2>9, <3>3
  <2>11. /\ r.toks[t].st = "incident" /\ r.toks[t].ref = n /\ r.toks[t].el = w.toks[t].el
         /\ r.toks[t].par = w.toks[t].par /\ r.toks[t].scope = w.toks[t].scope
    BY <1>0, <2>9 DEF Token
  <2>12. r.toks[t].st \notin Parked /\ r.toks[t].ref <= a.top
    BY <2>3, <2>8, <2>11 DEF Parked
  <2>13. Good(r, X, k)
    BY <2>7, <2>8, <2>9, <2>10, <2>11, <2>12, ChangedGood
  <2> QED BY <2>8, <2>9, <2>11, <2>13 DEF Changed, r
<1> QED BY <1>2, <1>3

\* startMultiInstance
LEMMA StartMultiInstanceGood ==
    ASSUME NEW w, NEW X, NEW Y, NEW k, NEW t \in DOMAIN w.toks, NEW n \in Nat, NEW yes,
           NEW bad, Good(w, X, k), X \subseteq Y \cup {t}
    PROVE  Good(StartMultiInstance(w, t, n, yes, bad), Y, k)
<1> DEFINE e == w.toks[t].el
           first == IF Node[e].multi = "sequential" THEN 1 ELSE n
           v == [w EXCEPT !.again = @ \/ t \in DOMAIN w.multi]
           a == Resumed(v, t, "multi")
           x == With(a.multi, t, [total |-> n, next |-> first, done |-> 0])
           b == [a EXCEPT !.multi = x]
           d == RegisterWaits(b, t, Awaited(e), bad)
<1>0. IsWorld(w) /\ Typed(w) /\ e \in Elements /\ first \in Nat /\ t \in 1..w.top
  BY AtElement DEF Good, Typed
<1>1. Good(v, X, k) /\ v.toks = w.toks /\ v.top = w.top
  <2>1. /\ IsWorld(v) /\ v.def = w.def /\ v.st = w.st /\ v.toks = w.toks /\ v.multi = w.multi
        /\ v.recs = w.recs /\ v.top = w.top /\ v.spent = w.spent
        /\ v.again = (w.again \/ t \in DOMAIN w.multi)
    BY <1>0 DEF IsWorld
  <2>2. v.again \in BOOLEAN /\ v.spent \in Nat
    BY <1>0, <2>1 DEF Typed
  <2> HIDE DEF v
  <2> QED BY <2>1, <2>2, CountersGood
<1>2. StartMultiInstance(w, t, n, yes, bad) =
         IF n = 0 THEN LeaveActivity(v, t, yes) ELSE SpawnMIChildren(d, t, first)
  BY DEF StartMultiInstance, Resumed
<1> HIDE DEF v
<1>3. CASE n = 0
  <2>1. Good(LeaveActivity(v, t, yes), Y, k)
    BY <1>1, LeaveActivityGood
  <2> QED BY <1>2, <1>3, <2>1
<1>4. CASE n # 0
  <2>1. /\ Good(a, Y, k) /\ DOMAIN a.toks = DOMAIN w.toks /\ a.top = w.top
    <3>1. "multi" \in TokenStates \ Parked
      BY DEF TokenStates, WaitStates, Parked
    <3> QED BY <1>1, <3>1, ResumeGood
  <2> HIDE DEF a
  <2>2. LoopsOK(x, a.top)
    <3>1. LoopsOK(a.multi, a.top)
      BY <2>1 DEF Good, Typed
    <3>2. [total |-> n, next |-> first, done |-> 0] \in Loop
      BY <1>0 DEF Loop
    <3> HIDE DEF first
    <3> QED BY <1>0, <2>1, <3>1, <3>2 DEF LoopsOK, With
  <2> HIDE DEF x
  <2>3. Good(b, Y, k) /\ b.toks = a.toks /\ b.top = a.top
    BY <2>1, <2>2, DropLoopsGood
  <2> HIDE DEF b
  <2>4. Good(d, Y, k) /\ DOMAIN d.toks = DOMAIN b.toks
    <3>1. Awaited(e) \in SUBSET Elements /\ t \in DOMAIN b.toks
      BY <1>0, <2>1, <2>3, EventsAreElements
    <3> HIDE DEF e
    <3>2. Good(d, Y, k)
      BY <2>3, <3>1, RegisterWaitsGood
    <3>3. IsWorld(b) /\ b.toks[t] \in Token
      BY <2>3, <3>1, AtElement DEF Good, Typed
    <3> QED BY <3>1, <3>2, <3>3, RegisterWaitsFields
  <2> HIDE DEF d, first
  <2>5. Good(SpawnMIChildren(d, t, first), Y, k)
    BY <1>0, <2>1, <2>3, <2>4, SpawnMIChildrenGood
  <2> QED BY <1>2, <1>4, <2>5
<1> QED BY <1>3, <1>4

\* finishMultiInstance
LEMMA FinishMultiInstanceGood ==
    ASSUME NEW w, NEW X, NEW Y, NEW k, NEW p \in DOMAIN w.toks, NEW yes,
           Good(w, X, k), X \subseteq Y \cup {p}
    PROVE  Good(FinishMultiInstance(w, p, yes), Y, k)
<1> DEFINE T == {p}
           Z == Y \cup {p}
           v == CancelWaits(w, T)
           a == Resumed(v, p, "active")
<1>1. T \in SUBSET DOMAIN w.toks /\ X \subseteq Z /\ T \subseteq Z /\ Z \subseteq Y \cup {p} /\ p \in T
  OBVIOUS
<1>2. FinishMultiInstance(w, p, yes) = LeaveActivity(a, p, yes)
  BY DEF FinishMultiInstance, Resumed
<1> HIDE DEF T, Z
<1>3. Good(v, Z, k) /\ p \in DOMAIN v.toks
  <2>1. Good(v, Z, k) /\ T \subseteq DOMAIN v.toks
    BY <1>1, CancelWaitsLeaves
  <2> QED BY <1>1, <2>1
<1> HIDE DEF v
<1>4. Good(a, Y, k) /\ p \in DOMAIN a.toks
  <2>1. "active" \in TokenStates \ Parked
    BY DEF TokenStates, Parked
  <2>2. Good(v, Z, k) /\ p \in DOMAIN v.toks /\ Z \subseteq Y \cup {p}
    BY <1>1, <1>3
  <2>3. Good(a, Y, k)
    BY <2>1, <2>2, ResumeGood
  <2>4. DOMAIN a.toks = DOMAIN v.toks
    BY <2>2, ResumedFields DEF Good, Typed
  <2> QED BY <2>2, <2>3, <2>4
<1> HIDE DEF a
<1> QED BY <1>1, <1>2, <1>4, LeaveActivityGood

\* miChildCompleted
LEMMA MIChildCompletedGood ==
    ASSUME NEW w, NEW X, NEW Y, NEW k, NEW t \in DOMAIN w.toks, NEW yes,
           Good(w, X, k), X \subseteq Y \cup {t}, w.toks[t].par \in DOMAIN w.multi
    PROVE  Good(MIChildCompleted(w, t, yes), Y, k)
<1> DEFINE p == w.toks[t].par
           T == {t}
           gone == Discard(w, {t})
           x == [gone.multi EXCEPT ![p].done = @ + 1]
           v == [gone EXCEPT !.multi = x]
           y == [v.multi EXCEPT ![p].next = @ + 1]
           u == SpawnMIChildren(v, p, 1)
<1>0. IsWorld(w) /\ p # t /\ w.top \in Nat /\ LoopsOK(w.multi, w.top)
  BY DEF Good, Typed, ToksOK
<1>1. /\ Good(gone, Y, k) /\ gone.multi = w.multi /\ gone.top = w.top
      /\ DOMAIN gone.toks = DOMAIN w.toks \ {t}
  <2>1. X \subseteq Y \cup T
    OBVIOUS
  <2> HIDE DEF T
  <2>2. Good(Discard(w, T), Y, k)
    BY <2>1, DiscardGood
  <2> QED BY <1>0, <2>2, DiscardFields DEF T
<1>a. IsWorld(gone)
  BY <1>1 DEF Good, Typed
<1>2. MIChildCompleted(w, t, yes) \in
         {gone, RaiseIncident(gone, p), RaiseIncident(v, p), FinishMultiInstance(v, p, yes),
          [u EXCEPT !.multi[p].next = @ + 1], v}
      /\ (p \notin DOMAIN w.toks => MIChildCompleted(w, t, yes) = gone)
  <2>1. [gone EXCEPT !.multi[p].done = @ + 1] = v
    <3> HIDE DEF gone
    <3> QED BY <1>a DEF IsWorld
  <2> HIDE DEF v, gone, u
  <2>2. CASE p \notin DOMAIN w.toks
    BY <2>1, <2>2 DEF MIChildCompleted, gone
  <2>3. CASE p \in DOMAIN w.toks
    BY <2>1, <2>3 DEF MIChildCompleted, gone, u
  <2> QED BY <2>2, <2>3
<1> HIDE DEF gone
<1>3. CASE p \notin DOMAIN w.toks
  BY <1>1, <1>2, <1>3
<1>4. CASE p \in DOMAIN w.toks
  <2>0. p \in DOMAIN gone.toks
    BY <1>0, <1>1, <1>4
  <2>1. LoopsOK(x, gone.top) /\ DOMAIN x = DOMAIN w.multi
    <3>1. w.multi[p] \in Loop
      BY <1>0 DEF LoopsOK
    <3>2. [w.multi[p] EXCEPT !.done = @ + 1] \in Loop
      BY <3>1, LoopCounts
    <3> QED BY <1>0, <1>1, <3>2 DEF LoopsOK
  <2> HIDE DEF x
  <2>2. Good(v, Y, k) /\ v.toks = gone.toks /\ v.top = gone.top /\ v.multi = x
    BY <1>1, <2>1, DropLoopsGood
  <2> HIDE DEF v
  <2>3. Good(RaiseIncident(gone, p), Y, k)
    BY <1>1, <2>0, RaiseIncidentGood
  <2>4. Good(RaiseIncident(v, p), Y, k)
    BY <2>0, <2>2, RaiseIncidentGood
  <2>5. Good(FinishMultiInstance(v, p, yes), Y, k)
    BY <2>0, <2>2, FinishMultiInstanceGood
  <2>6. Good(u, Y, k) /\ u.multi = x
    <3> DEFINE one == 1
    <3>1. p \in DOMAIN v.toks /\ one \in Nat
      BY <2>0, <2>2
    <3> HIDE DEF p, one
    <3>2. Good(SpawnMIChildren(v, p, one), Y, k)
      BY <2>2, <3>1, SpawnMIChildrenGood
    <3>3. SpawnMIChildren(v, p, one).multi = v.multi
      BY <2>2, SpawnMIChildrenFields DEF Good, Typed
    <3> QED BY <2>2, <3>2, <3>3 DEF one
  <2> HIDE DEF u
  <2>7. Good([u EXCEPT !.multi[p].next = @ + 1], Y, k)
    <3>1. IsWorld(u) /\ LoopsOK(u.multi, u.top)
      BY <2>6 DEF Good, Typed
    <3> DEFINE z == [u.multi EXCEPT ![p].next = @ + 1]
    <3>2. [u EXCEPT !.multi[p].next = @ + 1] = [u EXCEPT !.multi = z]
      BY <3>1 DEF IsWorld
    <3>3. LoopsOK(z, u.top)
      <4>1. p \in DOMAIN u.multi /\ u.multi[p] \in Loop
        BY <2>1, <2>6, <3>1 DEF LoopsOK
      <4>2. [u.multi[p] EXCEPT !.next = @ + 1] \in Loop
        BY <4>1, LoopCounts
      <4> QED BY <3>1, <4>1, <4>2 DEF LoopsOK
    <3> HIDE DEF z
    <3>4. Good([u EXCEPT !.multi = z], Y, k)
      BY <2>6, <3>3, DropLoopsGood
    <3> QED BY <3>2, <3>4
  <2> QED BY <1>1, <1>2, <2>2, <2>3, <2>4, <2>5, <2>7
<1> QED BY <1>3, <1>4

\* completeActivity
LEMMA CompleteActivityGood ==
    ASSUME NEW w, NEW X, NEW Y, NEW k, NEW t \in DOMAIN w.toks, NEW yes,
           Good(w, X, k), X \subseteq Y \cup {t}
    PROVE  Good(CompleteActivity(w, t, yes), Y, k)
<1>1. CASE w.toks[t].par \in DOMAIN w.multi /\ IsMIChild(w, t)
  <2>1. Good(MIChildCompleted(w, t, yes), Y, k)
    BY <1>1, MIChildCompletedGood
  <2> QED BY <1>1, <2>1 DEF CompleteActivity
<1>2. CASE ~(w.toks[t].par \in DOMAIN w.multi /\ IsMIChild(w, t))
  <2>1. Good(LeaveActivity(w, t, yes), Y, k)
    BY LeaveActivityGood
  <2> QED BY <1>2, <2>1 DEF CompleteActivity
<1> QED BY <1>1, <1>2

\* checkScope
LEMMA CheckScopeGood ==
    ASSUME NEW w, NEW X, NEW k, NEW s, NEW yes, Good(w, X, k), Len(s) \in Nat
    PROVE  Good(CheckScope(w, s, yes), X, k)
<1> DEFINE at(i) == SubSeq(s, 1, i)
           broken(i) == i > 0 /\ ~Resolves(w, at(i - 1))
           stops(i) == \/ i = 0
                       \/ Inside(w, at(i)) # {}
                       \/ broken(i)
                       \/ OwnerWaits(w, at(i))
           S == {i \in 0..Len(s) : stops(i)}
           k0 == Max(S)
<1>1. stops(k0)
  <2>1. S \in SUBSET (0..Len(s)) /\ 0 \in S /\ \A i \in S : stops(i)
    OBVIOUS
  <2> HIDE DEF S, stops
  <2>2. Max(S) \in S
    BY <2>1, MaxIsGreatest
  <2> QED BY <2>1, <2>2
<1>2. CheckScope(w, s, yes) =
         CASE Inside(w, at(k0)) # {} \/ broken(k0) -> w
           [] k0 = 0 -> EndInstance(w, "completed")
           [] OTHER -> CompleteActivity(DropTokenEventWaits(w, {Last(at(k0)).own}),
                                        Last(at(k0)).own, yes)
  BY DEF CheckScope
<1> HIDE DEF k0, at
<1>3. CASE Inside(w, at(k0)) # {} \/ broken(k0)
  <2>1. k0 = 0 => ~broken(k0)
    OBVIOUS
  <2>2. CheckScope(w, s, yes) \in {w, EndInstance(w, "completed")}
    <3> HIDE DEF broken
    <3> QED BY <1>2, <1>3
  <2>3. Good(EndInstance(w, "completed"), X, k)
    BY EndInstanceGood
  <2> QED BY <2>2, <2>3
<1>4. CASE ~(Inside(w, at(k0)) # {} \/ broken(k0)) /\ k0 = 0
  <2>1. Good(EndInstance(w, "completed"), X, k)
    BY EndInstanceGood
  <2> HIDE DEF broken
  <2> QED BY <1>2, <1>4, <2>1
<1>5. CASE ~(Inside(w, at(k0)) # {} \/ broken(k0)) /\ k0 # 0
  <2> DEFINE o == Last(at(k0)).own
  <2>1. OwnerWaits(w, at(k0))
    BY <1>1, <1>5
  <2>2. o \in DOMAIN w.toks
    BY <2>1 DEF OwnerWaits
  <2> DEFINE T == {o}
             Z == X \cup T
             v == DropTokenEventWaits(w, T)
  <2>3. CheckScope(w, s, yes) = CompleteActivity(v, o, yes)
    <3> HIDE DEF broken
    <3> QED BY <1>2, <1>5
  <2>4. X \subseteq Z /\ T \subseteq Z /\ Z \subseteq X \cup {o}
    OBVIOUS
  <2> HIDE DEF o, T, Z
  <2>5. Good(v, Z, k)
    BY <2>4, DropTokenEventWaitsGood
  <2>6. v.toks = w.toks
    BY DEF Good, Typed, IsWorld, DropTokenEventWaits
  <2> HIDE DEF v
  <2>7. Good(CompleteActivity(v, o, yes), X, k)
    BY <2>2, <2>4, <2>5, <2>6, CompleteActivityGood
  <2> QED BY <2>3, <2>7
<1> QED BY <1>3, <1>4, <1>5

\* consume
LEMMA ConsumeGood ==
    ASSUME NEW w, NEW X, NEW k, NEW t \in DOMAIN w.toks, NEW yes, Good(w, X, k)
    PROVE  Good(Consume(w, t, yes), X, k)
<1> DEFINE T == {t}
           v == Discard(w, T)
           s == w.toks[t].scope
<1>1. X \subseteq X \cup T
  OBVIOUS
<1>2. Len(s) \in Nat
  BY AtElement, ScopesOK
<1>3. Consume(w, t, yes) = CheckScope(v, s, yes)
  BY DEF Consume
<1> HIDE DEF T, s
<1>4. Good(v, X, k)
  BY <1>1, DiscardGood
<1> HIDE DEF v
<1> QED BY <1>2, <1>3, <1>4, CheckScopeGood

\* A terminate end event.
LEMMA TerminateEndGood ==
    ASSUME NEW w, NEW X, NEW k, NEW t \in DOMAIN w.toks, NEW yes, Good(w, X, k)
    PROVE  Good(TerminateEnd(w, t, yes), X, k)
<1> DEFINE s == w.toks[t].scope
           v == KillScopeTokens(w, s, "none")
<1>1. Len(s) \in Nat
  BY AtElement, ScopesOK
<1>2. TerminateEnd(w, t, yes) \in {EndInstance(w, "completed"), CheckScope(v, s, yes)}
  BY DEF TerminateEnd
<1> HIDE DEF s
<1>3. Good(v, X, k)
  BY KillScopeTokensGood
<1> HIDE DEF v
<1>4. Good(CheckScope(v, s, yes), X, k)
  BY <1>1, <1>3, CheckScopeGood
<1>5. Good(EndInstance(w, "completed"), X, k)
  BY EndInstanceGood
<1> QED BY <1>2, <1>4, <1>5

------------------------------------------------------------------------------
\* Errors.

\* Adding one record for a token that does not wait for it.
LEMMA AddRecordGood ==
    ASSUME NEW w, NEW X, NEW k, NEW rec, Good(w, X, k), RecordOK(rec, w.top)
    PROVE  Good([w EXCEPT !.recs = With(@, w.top + 1, rec), !.top = @ + 1], X, k)
<1> DEFINE n == w.top + 1
           f == With(w.recs, n, rec)
<1>0. IsWorld(w) /\ w.top \in Nat /\ DOMAIN w.recs \subseteq 1..w.top
  BY DEF Good, Typed, RecsOK
<1>1. n \in Nat /\ w.top <= n /\ n \in (w.top + 1)..n /\ n \notin DOMAIN w.recs
  BY <1>0
<1>2. [w EXCEPT !.recs = With(@, w.top + 1, rec), !.top = @ + 1] = [w EXCEPT !.recs = f, !.top = n]
  <2>1. [w EXCEPT !.recs = f].top = w.top
    BY <1>0 DEF IsWorld
  <2> QED BY <2>1
<1>3. RecordOK(rec, n)
  BY <1>0, <1>1 DEF RecordOK, Record
<1> HIDE DEF n
<1>4. \A i \in DOMAIN w.recs : i \in DOMAIN f /\ f[i] = w.recs[i]
  BY <1>1 DEF With
<1>5. \A i \in DOMAIN f \ DOMAIN w.recs : i \in (w.top + 1)..n /\ RecordOK(f[i], n)
  BY <1>1, <1>3 DEF With
<1> HIDE DEF f
<1>6. Good([w EXCEPT !.recs = f, !.top = n], X, k)
  BY <1>1, <1>4, <1>5, MoreRecsGood
<1> QED BY <1>2, <1>6

\* A new token at an element in a scope.
LEMMA SpawnNewGood ==
    ASSUME NEW w, NEW X, NEW k, NEW e \in Elements, NEW s, Good(w, X, k), ScopeOK(s, w.top)
    PROVE  Good(Spawn(w, NewToken(e, s)), X, k)
<1> DEFINE n == w.top + 1
           tok == NewToken(e, s)
<1>1. w.top \in Nat /\ n \in Nat /\ w.top <= n
  BY DEF Good, Typed
<1>2. ScopeOK(s, n)
  <2>1. s \in Seq([el : Elements, own : Nat])
    BY DEF ScopeOK, Scopes
  <2>2. \A i \in DOMAIN s : s[i] \in [el : Elements, own : Nat]
    BY <2>1, LenProperties
  <2> QED BY <1>1, <2>2 DEF ScopeOK
<1>3. TokenOK(tok, n) /\ tok.st = "active" /\ tok.par = 0
  BY <1>1, <1>2, NewTokenOK
<1> HIDE DEF tok
<1>4. Good(Spawn(w, tok), X, k)
  BY <1>3, SpawnGood
<1> QED BY <1>4 DEF tok

\* The coordinator of a loop is canceled and takes the boundary event.
LEMMA CancelToBoundaryGood ==
    ASSUME NEW w, NEW X, NEW Y, NEW k, NEW t \in DOMAIN w.toks, NEW b \in Elements,
           Good(w, X, k), X \subseteq Y \cup {t}
    PROVE  Good(MoveToBoundary(CancelWaits(w, {t}), t, b), Y, k)
<1> DEFINE T == {t}
           Z == Y \cup {t}
           v == CancelWaits(w, T)
<1>1. T \in SUBSET DOMAIN w.toks /\ X \subseteq Z /\ T \subseteq Z /\ Z \subseteq Y \cup {t} /\ t \in T
  OBVIOUS
<1>2. MoveToBoundary(CancelWaits(w, {t}), t, b) = MoveToBoundary(v, t, b)
  OBVIOUS
<1> HIDE DEF T, Z
<1>3. Good(v, Z, k) /\ t \in DOMAIN v.toks
  <2>1. Good(v, Z, k) /\ T \subseteq DOMAIN v.toks
    BY <1>1, CancelWaitsLeaves
  <2> QED BY <1>1, <2>1
<1> HIDE DEF v
<1>4. Good(MoveToBoundary(v, t, b), Y, k)
  BY <1>1, <1>3, MoveToBoundaryGood
<1> QED BY <1>2, <1>4

\* The owner of a scope loses its event waits and takes the boundary event.
LEMMA OwnerToBoundaryGood ==
    ASSUME NEW w, NEW X, NEW k, NEW t \in DOMAIN w.toks, NEW b \in Elements, Good(w, X, k)
    PROVE  Good(Jumped(DropTokenEventWaits(w, {t}), t, b), X, k)
<1> DEFINE T == {t}
           Z == X \cup {t}
           v == DropTokenEventWaits(w, T)
<1>1. X \subseteq Z /\ T \subseteq Z /\ Z \subseteq X \cup {t}
  OBVIOUS
<1>2. Jumped(DropTokenEventWaits(w, {t}), t, b) = Jumped(v, t, b)
  OBVIOUS
<1> HIDE DEF T, Z
<1>3. Good(v, Z, k) /\ v.toks = w.toks
  BY <1>1, DropTokenEventWaitsGood
<1> HIDE DEF v
<1>4. Good(Jumped(v, t, b), X, k)
  BY <1>1, <1>3, JumpGood
<1> QED BY <1>2, <1>4

\* propagateError
LEMMA PropagateErrorGood ==
    ASSUME NEW w, NEW X, NEW k, NEW t \in 0..w.top, NEW e \in Elements, NEW s,
           Good(w, X, k), ScopeOK(s, w.top)
    PROVE  Good(PropagateError(w, t, e, s), X, k)
<1> DEFINE at(d) == SubSeq(s, 1, d)
           subs(d) == EventStarts(ContainerAt(w, at(d)), {"error"})
           bounds(d) == IF d = 0 THEN {} ELSE ErrorBoundaries(s[d].el)
           D == {d \in 0..Len(s) : Resolves(w, at(d)) /\ subs(d) \cup bounds(d) # {}}
           d0 == Max(D)
           start == CHOOSE x \in subs(d0) : TRUE
           b == CHOOSE x \in bounds(d0) : TRUE
           own == s[d0].own
           killed == KillScopeTokens(w, at(d0), "none")
           coord == killed.toks[own].par
           rec == NewRecord("incident", t, e, 0)
           incident == [w EXCEPT !.recs = With(@, w.top + 1, rec), !.top = @ + 1]
           es == Node[start].in
           s1 == Append(at(d0), [el |-> es, own |-> 0])
           spared == KillScopeTokens(w, at(d0), es)
<1>0. w.top \in Nat /\ Len(s) \in Nat
  BY ScopesOK DEF Good, Typed
<1>1. PropagateError(w, t, e, s) =
        CASE D = {} -> EndInstance(incident, "terminated")
          [] D # {} /\ subs(d0) # {} -> Spawn(spared, NewToken(start, s1))
          [] D # {} /\ subs(d0) = {} /\ HasCoordinator(killed, own) ->
                MoveToBoundary(CancelWaits(killed, {coord}), coord, b)
          [] OTHER ->
                IF own \in DOMAIN killed.toks /\ killed.toks[own].el = s[d0].el
                  THEN Jumped(DropTokenEventWaits(killed, {own}), own, b)
                  ELSE Spawn(killed, NewToken(b, at(d0 - 1)))
  BY DEF PropagateError, Jumped
<1>2. ASSUME D # {}
      PROVE  /\ d0 \in 0..Len(s) /\ subs(d0) \cup bounds(d0) # {}
             /\ Good(killed, X, k) /\ killed.top = w.top
             /\ Good(spared, X, k) /\ spared.top = w.top
             /\ ScopeOK(at(d0), w.top)
  <2>1. D \in SUBSET (0..Len(s)) /\ \A d \in D : subs(d) \cup bounds(d) # {}
    OBVIOUS
  <2> HIDE DEF D, subs, bounds
  <2>2. d0 \in D
    BY <1>0, <1>2, <2>1, MaxIsGreatest
  <2>3. d0 \in 0..Len(s) /\ subs(d0) \cup bounds(d0) # {}
    BY <2>1, <2>2
  <2>4. ScopeOK(at(d0), w.top)
    BY <1>0, <2>3, ScopesOK
  <2> HIDE DEF d0, at, es
  <2>5. Good(killed, X, k) /\ killed.top = w.top
    BY KillScopeTokensGood
  <2>6. Good(spared, X, k) /\ spared.top = w.top
    BY KillScopeTokensGood
  <2> QED BY <2>3, <2>4, <2>5, <2>6
<1>3. ASSUME NEW d PROVE subs(d) \in SUBSET Elements
  BY EventsAreElements
<1>4. ASSUME NEW d \in 0..Len(s) PROVE bounds(d) \in SUBSET Elements
  <2>1. CASE d = 0
    BY <2>1
  <2>2. CASE d # 0
    <3>1. s[d].el \in Elements
      BY <1>0, <2>2, ScopesOK
    <3> QED BY <2>2, <3>1, EventsAreElements
  <2> QED BY <2>1, <2>2
<1>5. CASE D = {}
  <2>1. Good(incident, X, k)
    <3>1. "incident" \in RecordKinds /\ 0 \in Nat
      BY DEF RecordKinds
    <3>2. RecordOK(rec, w.top)
      BY <1>0, <3>1, NewRecordOK
    <3> HIDE DEF rec
    <3> QED BY <3>2, AddRecordGood
  <2> HIDE DEF incident
  <2>2. Good(EndInstance(incident, "terminated"), X, k)
    BY <2>1, EndInstanceGood
  <2>3. PropagateError(w, t, e, s) = EndInstance(incident, "terminated")
    <3> HIDE DEF D
    <3> QED BY <1>1, <1>5
  <2> QED BY <2>2, <2>3
<1>6. CASE D # {} /\ subs(d0) # {}
  <2>1. start \in subs(d0) /\ start \in Elements
    <3> HIDE DEF d0, subs
    <3> QED BY <1>3, <1>6
  <2>2. es \in Elements
    BY <2>1 DEF EventStarts
  <2>3. ScopeOK(s1, w.top)
    <3>1. ScopeOK(at(d0), w.top) /\ 0 \in 0..w.top
      BY <1>0, <1>2, <1>6
    <3> HIDE DEF at, d0, es
    <3> QED BY <1>0, <2>2, <3>1, ScopesOK
  <2>4. Good(spared, X, k) /\ spared.top = w.top
    BY <1>2, <1>6
  <2> HIDE DEF spared, start, s1
  <2>5. Good(Spawn(spared, NewToken(start, s1)), X, k)
    BY <2>1, <2>3, <2>4, SpawnNewGood
  <2>6. PropagateError(w, t, e, s) = Spawn(spared, NewToken(start, s1))
    <3> HIDE DEF D, subs, d0, killed
    <3> QED BY <1>1, <1>6
  <2> QED BY <2>5, <2>6
<1>7. CASE D # {} /\ subs(d0) = {}
  <2>0. bounds(d0) # {} /\ d0 \in 0..Len(s) /\ d0 # 0
    <3>1. bounds(d0) # {} /\ d0 \in 0..Len(s)
      <4> HIDE DEF bounds, subs, d0
      <4> QED BY <1>2, <1>7
    <3> HIDE DEF d0
    <3> QED BY <3>1
  <2>1. b \in Elements
    <3> HIDE DEF bounds, d0
    <3> QED BY <1>4, <2>0
  <2>2. Good(killed, X, k) /\ killed.top = w.top
    BY <1>2, <1>7
  <2>3. ASSUME HasCoordinator(killed, own)
        PROVE  Good(MoveToBoundary(CancelWaits(killed, {coord}), coord, b), X, k)
    <3>1. coord \in DOMAIN killed.toks
      BY <2>3 DEF HasCoordinator
    <3> HIDE DEF killed, coord, b
    <3> QED BY <2>1, <2>2, <3>1, CancelToBoundaryGood
  <2>4. ASSUME own \in DOMAIN killed.toks
        PROVE  Good(Jumped(DropTokenEventWaits(killed, {own}), own, b), X, k)
    <3> HIDE DEF killed, own, b
    <3> QED BY <2>1, <2>2, <2>4, OwnerToBoundaryGood
  <2>5. Good(Spawn(killed, NewToken(b, at(d0 - 1))), X, k)
    <3> DEFINE s2 == at(d0 - 1)
    <3>1. d0 - 1 \in 0..Len(s)
      <4> HIDE DEF d0
      <4> QED BY <1>0, <2>0
    <3>2. ScopeOK(s2, killed.top)
      <4> HIDE DEF d0, killed
      <4> QED BY <1>0, <2>2, <3>1, ScopesOK
    <3> HIDE DEF s2, killed, b
    <3>3. Good(Spawn(killed, NewToken(b, s2)), X, k)
      BY <2>1, <2>2, <3>2, SpawnNewGood
    <3> QED BY <3>3 DEF s2
  <2> DEFINE has == HasCoordinator(killed, own)
             stays == own \in DOMAIN killed.toks /\ killed.toks[own].el = s[d0].el
             a1 == MoveToBoundary(CancelWaits(killed, {coord}), coord, b)
             a2 == Jumped(DropTokenEventWaits(killed, {own}), own, b)
             a3 == Spawn(killed, NewToken(b, at(d0 - 1)))
             none == subs(d0) = {}
             some == D # {}
             o1 == EndInstance(incident, "terminated")
             o2 == Spawn(spared, NewToken(start, s1))
  <2>6. PropagateError(w, t, e, s) = IF has THEN a1 ELSE IF stays THEN a2 ELSE a3
    <3>1. some /\ none
      BY <1>7
    <3>2. PropagateError(w, t, e, s) =
            CASE ~some -> o1
              [] some /\ ~none -> o2
              [] some /\ none /\ has -> a1
              [] OTHER -> IF stays THEN a2 ELSE a3
      BY <1>1
    <3> HIDE DEF has, stays, a1, a2, a3, o1, o2, none, some
    <3> QED BY <3>1, <3>2
  <2>7. has => Good(a1, X, k)
    BY <2>3
  <2>8. stays => Good(a2, X, k)
    BY <2>4
  <2>9. Good(a3, X, k)
    BY <2>5
  <2> HIDE DEF has, stays, a1, a2, a3
  <2> QED BY <2>6, <2>7, <2>8, <2>9
<1> QED BY <1>5, <1>6, <1>7

\* What cancelWaits leaves.
LEMMA CancelWaitsFields ==
    ASSUME NEW w, NEW X, NEW k, NEW T \in SUBSET DOMAIN w.toks, Good(w, X, k)
    PROVE  LET v == CancelWaits(w, T)
           IN  /\ T \subseteq DOMAIN v.toks
               /\ DOMAIN v.toks \subseteq DOMAIN w.toks
               /\ \A t \in DOMAIN v.toks : v.toks[t] = w.toks[t]
               /\ v.top = w.top
               /\ \A t \in DOMAIN w.toks :
                     w.toks[t].par \in T \cap DOMAIN w.multi /\ t \notin T => t \notin DOMAIN v.toks
<1> DEFINE Y == X \cup T
<1>1. X \subseteq Y /\ T \subseteq Y
  OBVIOUS
<1> HIDE DEF Y
<1> QED BY <1>1, CancelWaitsGood

\* throwError: the iteration that throws goes with its loop.
LEMMA ThrowErrorGood ==
    ASSUME NEW w, NEW X, NEW Y, NEW k, NEW t \in DOMAIN w.toks,
           Good(w, X, k), X \subseteq Y \cup {t}
    PROVE  Good(ThrowError(w, t), Y, k)
<1> DEFINE tok == w.toks[t]
           own == ErrorBoundaries(tok.el)
           b == CHOOSE x \in own : TRUE
           p == w.toks[t].par
           gone == Discard(CancelWaits(w, {t}), {t})
<1>0. /\ tok.el \in Elements /\ ScopeOK(tok.scope, w.top) /\ t \in 0..w.top /\ w.top \in Nat
      /\ own \in SUBSET Elements /\ p # t
  <2>1. p # t
    BY DEF Good, Typed, ToksOK
  <2> QED BY <2>1, AtElement, EventsAreElements
<1>1. ThrowError(w, t) =
        IF own # {}
          THEN IF HasCoordinator(w, t) THEN MoveToBoundary(CancelWaits(w, {p}), p, b)
               ELSE MoveToBoundary(CancelWaits(w, {t}), t, b)
          ELSE PropagateError(gone, t, tok.el, tok.scope)
  BY DEF ThrowError
<1>2. own # {} => b \in Elements
  <2> HIDE DEF own
  <2> QED BY <1>0
<1>3. ASSUME own # {}, HasCoordinator(w, t)
      PROVE  Good(MoveToBoundary(CancelWaits(w, {p}), p, b), Y, k)
  <2> DEFINE T == {p}
             Z == Y \cup {p}
             Z1 == Y \cup {p} \cup {t}
             v == CancelWaits(w, T)
  <2>0. p \in DOMAIN w.toks /\ p \in DOMAIN w.multi
    BY <1>3 DEF HasCoordinator
  <2>1. /\ T \in SUBSET DOMAIN w.toks /\ X \subseteq Z1 /\ T \subseteq Z1 /\ Z \subseteq Y \cup {p}
        /\ p \in T /\ p \in T \cap DOMAIN w.multi /\ t \notin T
    BY <1>0, <2>0
  <2>2. MoveToBoundary(CancelWaits(w, {p}), p, b) = MoveToBoundary(v, p, b)
    OBVIOUS
  <2> HIDE DEF T, Z1
  <2>a. Good(v, Z1, k)
    BY <2>1, CancelWaitsGood
  <2>3. Good(v, Z1, k) /\ p \in DOMAIN v.toks
    BY <2>1, <2>a, CancelWaitsFields
  <2>4. t \notin DOMAIN v.toks
    BY <2>1, CancelWaitsFields
  <2> HIDE DEF v
  <2>5. Z1 \cap DOMAIN v.toks \subseteq Z
    BY <2>4 DEF Z1
  <2> HIDE DEF Z
  <2>6. Good(v, Z, k)
    BY <2>3, <2>5, GoodWeaker
  <2> HIDE DEF p, b
  <2>7. Good(MoveToBoundary(v, p, b), Y, k)
    BY <1>2, <1>3, <2>1, <2>3, <2>6, MoveToBoundaryGood
  <2> QED BY <2>2, <2>7
<1>4. ASSUME own # {} PROVE Good(MoveToBoundary(CancelWaits(w, {t}), t, b), Y, k)
  <2> HIDE DEF b
  <2> QED BY <1>2, <1>4, CancelToBoundaryGood
<1>5. Good(PropagateError(gone, t, tok.el, tok.scope), Y, k)
  <2> DEFINE T == {t}
             Z == Y \cup {t}
             v == CancelWaits(w, T)
  <2>1. T \in SUBSET DOMAIN w.toks /\ X \subseteq Z /\ T \subseteq Z /\ Z \subseteq Y \cup T
    OBVIOUS
  <2>2. gone = Discard(v, T)
    OBVIOUS
  <2> HIDE DEF T, Z
  <2>a. Good(v, Z, k)
    BY <2>1, CancelWaitsGood
  <2>3. Good(v, Z, k) /\ v.top = w.top
    BY <2>1, <2>a, CancelWaitsFields
  <2> HIDE DEF v
  <2>4. Good(Discard(v, T), Y, k)
    BY <2>1, <2>3, DiscardGood
  <2>5. Discard(v, T).top = w.top
    BY <2>3, DiscardFields DEF Good, Typed
  <2>6. Good(gone, Y, k) /\ gone.top = w.top
    BY <2>2, <2>4, <2>5
  <2> HIDE DEF gone, tok
  <2> QED BY <1>0, <2>6, PropagateErrorGood
<1> HIDE DEF own, b, p, gone, tok
<1> QED BY <1>1, <1>3, <1>4, <1>5

\* endEvent
LEMMA EndEventGood ==
    ASSUME NEW w, NEW X, NEW k, NEW t \in DOMAIN w.toks, NEW yes, Good(w, X, k)
    PROVE  Good(EndEvent(w, t, yes), X, k)
<1> DEFINE tok == w.toks[t]
           T == {t}
           gone == Discard(w, T)
<1>0. tok.el \in Elements /\ ScopeOK(tok.scope, w.top) /\ t \in 0..w.top /\ X \subseteq X \cup T
  BY AtElement
<1>1. EndEvent(w, t, yes) \in {TerminateEnd(w, t, yes), Consume(w, t, yes),
                               PropagateError(gone, t, tok.el, tok.scope)}
  BY DEF EndEvent
<1> HIDE DEF T
<1>2. Good(gone, X, k) /\ gone.top = w.top
  BY <1>0, DiscardGood, DiscardFields DEF Good, Typed
<1> HIDE DEF gone, tok
<1>3. Good(PropagateError(gone, t, tok.el, tok.scope), X, k)
  BY <1>0, <1>2, PropagateErrorGood
<1>4. Good(TerminateEnd(w, t, yes), X, k)
  BY TerminateEndGood
<1>5. Good(Consume(w, t, yes), X, k)
  BY ConsumeGood
<1> QED BY <1>1, <1>3, <1>4, <1>5

------------------------------------------------------------------------------
\* Gateways.

\* mergeJoiningTokens keeps the arriving token.
LEMMA MergeJoiningGood ==
    ASSUME NEW w, NEW X, NEW k, NEW t \in DOMAIN w.toks, Good(w, X, k)
    PROVE  Good(MergeJoining(w, t), X, k) /\ t \in DOMAIN MergeJoining(w, t).toks
<1> DEFINE of(f) == {u \in Joined(w, t) : w.toks[u].flow = f}
           others == {w.toks[u].flow : u \in Joined(w, t)} \ {w.toks[t].flow}
           T == {Min(of(f)) : f \in others}
<1>1. ASSUME NEW f \in others PROVE Min(of(f)) # t
  <2>1. of(f) # {} /\ t \notin of(f)
    BY <1>1
  <2>2. of(f) \in SUBSET Nat
    BY DEF Joined, Good, Typed, ToksOK
  <2> HIDE DEF of
  <2>3. Min(of(f)) \in of(f)
    BY <2>1, <2>2, MinIsLeast
  <2> QED BY <2>1, <2>3
<1>2. t \notin T /\ X \subseteq X \cup T
  BY <1>1
<1>3. MergeJoining(w, t) = Discard(w, T)
  BY DEF MergeJoining
<1> HIDE DEF T
<1>4. Good(Discard(w, T), X, k)
  BY <1>2, DiscardGood
<1>5. t \in DOMAIN Discard(w, T).toks
  BY <1>2, DiscardFields DEF Good, Typed
<1> QED BY <1>3, <1>4, <1>5

\* parallelGateway
LEMMA ParallelGatewayGood ==
    ASSUME NEW w, NEW X, NEW k, NEW t \in DOMAIN w.toks, Good(w, X, k)
    PROVE  Good(ParallelGateway(w, t), X, k)
<1> DEFINE F == Outgoing(w.toks[t].el)
           v == MergeJoining(w, t)
<1>1. F \in SUBSET Flows
  BY AtElement, FlowsTakenOK
<1>2. ParallelGateway(w, t) \in {Follow(w, t, F), Joining(w, t), Follow(v, t, F)}
  BY DEF ParallelGateway
<1> HIDE DEF F
<1>3. Good(v, X, k) /\ t \in DOMAIN v.toks
  BY MergeJoiningGood
<1> HIDE DEF v
<1>4. Good(Follow(w, t, F), X, k)
  BY <1>1, FollowGood
<1>5. Good(Follow(v, t, F), X, k)
  BY <1>1, <1>3, FollowGood
<1>6. Good(Joining(w, t), X, k)
  BY JoiningGood
<1> QED BY <1>2, <1>4, <1>5, <1>6

\* inclusiveGateway
LEMMA InclusiveGatewayGood ==
    ASSUME NEW w, NEW X, NEW k, NEW t \in DOMAIN w.toks, NEW yes, Good(w, X, k)
    PROVE  Good(InclusiveGateway(w, t, yes), X, k)
<1> DEFINE T == Joined(w, t) \ {t}
           v == Discard(w, T)
<1>1. InclusiveGateway(w, t, yes) \in
         {TakeOutgoing(w, t, yes), Joining(w, t), TakeOutgoing(v, t, yes)}
  BY DEF InclusiveGateway
<1>2. t \notin T /\ X \subseteq X \cup T
  OBVIOUS
<1> HIDE DEF T
<1>3. Good(v, X, k)
  BY <1>2, DiscardGood
<1>4. t \in DOMAIN v.toks
  BY <1>2, DiscardFields DEF Good, Typed
<1> HIDE DEF v
<1>5. Good(TakeOutgoing(w, t, yes), X, k)
  BY TakeOutgoingGood
<1>6. Good(TakeOutgoing(v, t, yes), X, k)
  BY <1>3, <1>4, TakeOutgoingGood
<1>7. Good(Joining(w, t), X, k)
  BY JoiningGood
<1> QED BY <1>1, <1>5, <1>6, <1>7

\* eventBasedGateway
LEMMA EventBasedGatewayGood ==
    ASSUME NEW w, NEW X, NEW k, NEW t \in DOMAIN w.toks, NEW bad, Good(w, X, k)
    PROVE  Good(EventBasedGateway(w, t, bad), X, k)
<1> DEFINE events == {e \in {Flow[f].to : f \in Outgoing(w.toks[t].el)} :
                         Node[e].event \in {"timer", "message"}}
           v == Resumed(w, t, "events")
<1>1. events \in SUBSET Elements
  <2>1. Outgoing(w.toks[t].el) \in SUBSET Flows
    BY AtElement, FlowsTakenOK
  <2>2. \A f \in Flows : Flow[f].to \in Elements
    BY ProcessModelAssumption DEF FlowRecord
  <2> QED BY <2>1, <2>2, AtElement
<1>2. EventBasedGateway(w, t, bad) = RegisterWaits(v, t, events, bad)
  BY DEF EventBasedGateway, Resumed
<1> HIDE DEF events
<1>3. "events" \in TokenStates \ Parked
  BY DEF TokenStates, WaitStates, Parked
<1>4. Good(v, X, k) /\ DOMAIN v.toks = DOMAIN w.toks
  BY <1>3, ResumeGood
<1> HIDE DEF v
<1>5. Good(RegisterWaits(v, t, events, bad), X, k)
  BY <1>1, <1>4, RegisterWaitsGood
<1> QED BY <1>2, <1>5

------------------------------------------------------------------------------
\* The process an element belongs to.

\* The processes at the end of the way outward from e.
Roots(e) ==
    {p \in Processes :
        \E n \in Nat \ {0} : \E c \in [1..n -> Elements] :
            /\ c[1] = e
            /\ \A i \in 1..(n - 1) : Node[c[i]].in = c[i + 1]
            /\ Node[c[n]].in = p}

\* One step outward.
LEMMA RootsStep ==
    ASSUME NEW e \in Elements
    PROVE  /\ Node[e].in \in Processes => Roots(e) = {Node[e].in}
           /\ Node[e].in \in Elements => Roots(e) = Roots(Node[e].in)
<1> DEFINE x == Node[e].in
<1>0. Processes \cap Elements = {}
  BY ProcessModelAssumption
<1>1. ASSUME NEW p \in Processes, NEW n \in Nat \ {0}, NEW c \in [1..n -> Elements],
             c[1] = e, \A i \in 1..(n - 1) : Node[c[i]].in = c[i + 1], Node[c[n]].in = p
      PROVE  /\ x \in Processes => p = x
             /\ x \in Elements => p \in Roots(x)
  <2>1. CASE n = 1
    BY <1>0, <1>1, <2>1
  <2>2. CASE n # 1
    <3>1. n - 1 \in Nat \ {0} /\ 1 \in 1..(n - 1) /\ 2 \in 1..n
      BY <2>2
    <3>2. x = c[2] /\ c[2] \in Elements
      BY <1>1, <3>1
    <3> DEFINE d == [i \in 1..(n - 1) |-> c[i + 1]]
    <3>3. d \in [1..(n - 1) -> Elements]
      BY <1>1
    <3>4. d[1] = x
      BY <3>1, <3>2
    <3>5. \A i \in 1..(n - 1 - 1) : Node[d[i]].in = d[i + 1]
      <4> SUFFICES ASSUME NEW i \in 1..(n - 1 - 1) PROVE Node[d[i]].in = d[i + 1]
        OBVIOUS
      <4>1. i \in 1..(n - 1) /\ i + 1 \in 1..(n - 1)
        BY <3>1
      <4>2. d[i] = c[i + 1] /\ d[i + 1] = c[i + 1 + 1]
        BY <4>1
      <4> QED BY <1>1, <4>1, <4>2
    <3>6. Node[d[n - 1]].in = p
      <4>1. n - 1 \in 1..(n - 1) /\ n - 1 + 1 = n
        BY <3>1
      <4>2. d[n - 1] = c[n]
        BY <4>1
      <4> QED BY <1>1, <4>2
    <3> HIDE DEF d
    <3>7. p \in Roots(x)
      BY <3>1, <3>3, <3>4, <3>5, <3>6 DEF Roots
    <3> QED BY <1>0, <3>2, <3>7
  <2> QED BY <2>1, <2>2
<1>2. ASSUME x \in Processes PROVE x \in Roots(e)
  <2> DEFINE d == [i \in 1..1 |-> e]
  <2>1. 1 \in Nat \ {0} /\ d \in [1..1 -> Elements] /\ d[1] = e /\ \A i \in 1..(1 - 1) : FALSE
    OBVIOUS
  <2> HIDE DEF d
  <2>2. \E n \in Nat \ {0} : \E c \in [1..n -> Elements] :
            /\ c[1] = e
            /\ \A i \in 1..(n - 1) : Node[c[i]].in = c[i + 1]
            /\ Node[c[n]].in = x
    <3>1. d[1] = e /\ (\A i \in 1..(1 - 1) : Node[d[i]].in = d[i + 1]) /\ Node[d[1]].in = x
      BY <2>1
    <3> QED BY <2>1, <3>1
  <2> QED BY <1>2, <2>2 DEF Roots
<1>3. ASSUME x \in Elements, NEW p \in Roots(x) PROVE p \in Roots(e)
  <2>a. PICK n \in Nat \ {0} : \E c \in [1..n -> Elements] :
            /\ c[1] = x
            /\ \A i \in 1..(n - 1) : Node[c[i]].in = c[i + 1]
            /\ Node[c[n]].in = p
    BY <1>3 DEF Roots
  <2>1. PICK c \in [1..n -> Elements] :
            /\ c[1] = x
            /\ \A i \in 1..(n - 1) : Node[c[i]].in = c[i + 1]
            /\ Node[c[n]].in = p
    BY <2>a
  <2> DEFINE d == [i \in 1..(n + 1) |-> IF i = 1 THEN e ELSE c[i - 1]]
  <2>2. \A i \in 1..(n + 1) : i # 1 => i - 1 \in 1..n
    OBVIOUS
  <2>3. n + 1 \in Nat \ {0} /\ d \in [1..(n + 1) -> Elements] /\ d[1] = e
    BY <2>2
  <2>4. \A i \in 1..(n + 1 - 1) : Node[d[i]].in = d[i + 1]
    <3> SUFFICES ASSUME NEW i \in 1..(n + 1 - 1) PROVE Node[d[i]].in = d[i + 1]
      OBVIOUS
    <3>1. i \in 1..(n + 1) /\ i + 1 \in 1..(n + 1) /\ i + 1 # 1 /\ i + 1 - 1 = i
      OBVIOUS
    <3>2. d[i + 1] = c[i]
      BY <3>1
    <3>3. CASE i = 1
      BY <2>1, <2>3, <3>2, <3>3
    <3>4. CASE i # 1
      <4>1. i - 1 \in 1..(n - 1) /\ i - 1 + 1 = i
        BY <3>4
      <4>2. d[i] = c[i - 1]
        BY <3>1, <3>4
      <4> QED BY <2>1, <3>2, <4>1, <4>2
    <3> QED BY <3>3, <3>4
  <2>5. Node[d[n + 1]].in = p
    <3>1. n + 1 \in 1..(n + 1) /\ n + 1 # 1 /\ n + 1 - 1 = n
      OBVIOUS
    <3>2. d[n + 1] = c[n]
      BY <3>1
    <3> QED BY <2>1, <3>2
  <2>6. p \in Processes
    BY <1>3 DEF Roots
  <2> DEFINE m == n + 1
  <2>7. /\ m \in Nat \ {0} /\ d \in [1..m -> Elements] /\ d[1] = e
        /\ \A i \in 1..(m - 1) : Node[d[i]].in = d[i + 1]
        /\ Node[d[m]].in = p
    <3> HIDE DEF d
    <3> QED BY <2>3, <2>4, <2>5
  <2> HIDE DEF d, m
  <2> QED BY <2>6, <2>7 DEF Roots
<1>4. ASSUME NEW p \in Roots(e)
      PROVE  (x \in Processes => p = x) /\ (x \in Elements => p \in Roots(x))
  <2>a. PICK n \in Nat \ {0} : \E c \in [1..n -> Elements] :
            /\ c[1] = e
            /\ \A i \in 1..(n - 1) : Node[c[i]].in = c[i + 1]
            /\ Node[c[n]].in = p
    BY <1>4 DEF Roots
  <2>1. PICK c \in [1..n -> Elements] :
            /\ c[1] = e
            /\ \A i \in 1..(n - 1) : Node[c[i]].in = c[i + 1]
            /\ Node[c[n]].in = p
    BY <2>a
  <2>2. p \in Processes
    BY <1>4 DEF Roots
  <2> QED BY <1>1, <2>1, <2>2
<1>5. x \in Processes => Roots(e) = {x}
  BY <1>2, <1>4
<1>6. x \in Elements => Roots(e) = Roots(x)
  BY <1>3, <1>4
<1> QED BY <1>5, <1>6

\* FindElement's recursion.
LEMMA RootOfDef ==
    \A e \in Elements :
        RootOf[e] = IF Node[e].in \in Processes THEN Node[e].in ELSE RootOf[Node[e].in]
<1> DEFINE r == [e \in Elements |-> CHOOSE p \in Roots(e) : TRUE]
           R(f) == [e \in Elements |->
                      IF Node[e].in \in Processes THEN Node[e].in ELSE f[Node[e].in]]
<1>1. ASSUME NEW e \in Elements PROVE r[e] = R(r)[e]
  <2>0. Node[e].in \in Processes \cup Elements
    BY ProcessModelAssumption DEF NodeRecord
  <2>1. CASE Node[e].in \in Processes
    <3>1. Roots(e) = {Node[e].in}
      BY <2>1, RootsStep
    <3>2. r[e] = Node[e].in
      BY <3>1
    <3> QED BY <2>1, <3>2
  <2>2. CASE Node[e].in \notin Processes
    <3>1. Node[e].in \in Elements /\ Roots(e) = Roots(Node[e].in)
      BY <2>0, <2>2, RootsStep
    <3>2. r[e] = r[Node[e].in]
      BY <3>1
    <3> QED BY <2>2, <3>2
  <2> QED BY <2>1, <2>2
<1>2. r = R(r)
  BY <1>1
<1>3. RootOf = CHOOSE f : f = R(f)
  BY DEF RootOf
<1> HIDE DEF r
<1>4. \E f : f = R(f)
  BY <1>2
<1>5. RootOf = R(RootOf)
  BY <1>3, <1>4
<1> QED BY <1>5

\* The last scope but one of a path.
LEMMA OuterScope ==
    ASSUME NEW s \in Seq([el : Elements, own : Nat]), NEW i \in 1..Len(s)
    PROVE  /\ i = 1 => SubSeq(s, 1, i - 1) = <<>>
           /\ i # 1 => /\ SubSeq(s, 1, i - 1) # <<>> /\ Last(SubSeq(s, 1, i - 1)) = s[i - 1]
                       /\ i - 1 \in 1..Len(s)
<1> DEFINE E == [el : Elements, own : Nat]
           q == SubSeq(s, 1, i - 1)
<1>0. s \in Seq(E)
  OBVIOUS
<1> HIDE DEF E
<1>1. Len(s) \in Nat /\ DOMAIN s = 1..Len(s) /\ i - 1 \in Int /\ 1 \in Int
      /\ \A j \in 1..(i - 1) : s[j] \in E
  BY <1>0, LenProperties
<1>2. /\ q \in Seq(E)
      /\ Len(q) = IF 1 <= i - 1 THEN i - 1 - 1 + 1 ELSE 0
      /\ \A j \in 1..(i - 1 - 1 + 1) : q[j] = s[1 + j - 1]
  BY <1>1, SubSeqProperties
<1>3. ASSUME i = 1 PROVE q = <<>>
  <2>1. Len(q) = 0
    BY <1>1, <1>2, <1>3
  <2> QED BY <1>2, <2>1, EmptySeq
<1>4. ASSUME i # 1 PROVE q # <<>> /\ Last(q) = s[i - 1] /\ i - 1 \in 1..Len(s)
  <2>1. Len(q) = i - 1 /\ i - 1 \in 1..Len(s) /\ i - 1 \in 1..(i - 1 - 1 + 1) /\ 1 + (i - 1) - 1 = i - 1
    BY <1>1, <1>2, <1>4
  <2>2. q[i - 1] = s[i - 1]
    BY <1>2, <2>1
  <2>3. q # <<>>
    <3>1. Len(q) # 0
      BY <2>1
    <3> HIDE DEF q
    <3> QED BY <1>2, <3>1, EmptySeq
  <2> QED BY <2>1, <2>2, <2>3 DEF Last
<1> QED BY <1>3, <1>4

\* The containers on a path that resolves belong to the instance's process.
LEMMA ResolvedRoot ==
    ASSUME NEW w, NEW s, NEW n, ScopeOK(s, n), w.def \in Processes, Resolves(w, s)
    PROVE  \A i \in 1..Len(s) : s[i].el \in Elements /\ RootOf[s[i].el] = w.def
<1> DEFINE B == {i \in 1..Len(s) : RootOf[s[i].el] # w.def}
<1>0. /\ s \in Seq([el : Elements, own : Nat]) /\ Len(s) \in Nat /\ DOMAIN s = 1..Len(s)
      /\ \A i \in 1..Len(s) : s[i] \in [el : Elements, own : Nat]
  BY LenProperties DEF ScopeOK, Scopes
<1>1. \A i \in 1..Len(s) : s[i].el \in Elements
  BY <1>0
<1>2. ASSUME B # {} PROVE FALSE
  <2> DEFINE m == Min(B)
  <2>1. B \in SUBSET Nat
    OBVIOUS
  <2>2. m \in B /\ \A y \in B : m <= y
    <3> HIDE DEF B
    <3> QED BY <1>2, <2>1, MinIsLeast
  <2> HIDE DEF m
  <2>3. m \in 1..Len(s) /\ RootOf[s[m].el] # w.def
    BY <2>2
  <2>4. Node[s[m].el].in = ContainerAt(w, SubSeq(s, 1, m - 1))
    BY <1>0, <2>3 DEF Resolves
  <2>5. CASE m = 1
    <3>1. Node[s[m].el].in = w.def
      BY <1>0, <2>3, <2>4, <2>5, OuterScope DEF ContainerAt
    <3> QED BY <1>1, <2>3, <3>1, RootOfDef
  <2>6. CASE m # 1
    <3>1. Node[s[m].el].in = s[m - 1].el /\ m - 1 \in 1..Len(s)
      BY <1>0, <2>3, <2>4, <2>6, OuterScope DEF ContainerAt
    <3>2. s[m - 1].el \in Elements /\ s[m - 1].el \notin Processes
      BY <1>1, <3>1, ProcessModelAssumption
    <3>3. RootOf[s[m - 1].el] = w.def
      <4>1. ~(m <= m - 1)
        BY <2>3
      <4> QED BY <2>2, <3>1, <4>1
    <3> QED BY <1>1, <2>3, <3>1, <3>2, <3>3, RootOfDef
  <2> QED BY <2>5, <2>6
<1> QED BY <1>1, <1>2

\* Where an element is found, FindElement finds it in the instance's process.
LEMMA KnownRoot ==
    ASSUME NEW w, NEW X, NEW k, NEW t \in DOMAIN w.toks, Good(w, X, k), Known(w, t)
    PROVE  RootOf[w.toks[t].el] = w.def
<1> DEFINE s == w.toks[t].scope
           e == w.toks[t].el
<1>0. w.def \in Processes /\ ScopeOK(s, w.top) /\ e \in Elements
  BY AtElement DEF Good, Typed
<1>1. Resolves(w, s) /\ Node[e].in = ContainerAt(w, s)
  BY DEF Known
<1> HIDE DEF s, e
<1>2. \A i \in 1..Len(s) : s[i].el \in Elements /\ RootOf[s[i].el] = w.def
  BY <1>0, <1>1, ResolvedRoot
<1>3. s \in Seq([el : Elements, own : Nat]) /\ Len(s) \in Nat
  BY <1>0, LenProperties DEF ScopeOK, Scopes
<1>4. CASE s = <<>>
  <2>1. Node[e].in = w.def
    BY <1>1, <1>4 DEF ContainerAt
  <2> QED BY <1>0, <2>1, RootOfDef DEF e
<1>5. CASE s # <<>>
  <2>1. Len(s) \in 1..Len(s)
    <3>1. Len(s) # 0
      BY <1>3, <1>5, EmptySeq
    <3> QED BY <1>3, <3>1
  <2>2. Node[e].in = s[Len(s)].el
    BY <1>1, <1>5 DEF ContainerAt, Last
  <2>3. Node[e].in \in Elements /\ Node[e].in \notin Processes /\ RootOf[Node[e].in] = w.def
    BY <1>2, <2>1, <2>2, ProcessModelAssumption
  <2> QED BY <1>0, <2>3, RootOfDef DEF e
<1> QED BY <1>4, <1>5

------------------------------------------------------------------------------
\* Activities.

\* The boundary events of an activity are registered.
LEMMA BeginGood ==
    ASSUME NEW w, NEW X, NEW k, NEW t \in DOMAIN w.toks, NEW bad, Good(w, X, k)
    PROVE  LET v == Begin(w, t, bad)
           IN  /\ Good(v, X, k) /\ DOMAIN v.toks = DOMAIN w.toks /\ v.def = w.def
               /\ v.toks[t].el = w.toks[t].el
<1> DEFINE events == Awaited(w.toks[t].el)
           v == RegisterWaits(w, t, events, bad)
<1>1. events \in SUBSET Elements
  BY AtElement, EventsAreElements
<1>2. Begin(w, t, bad) \in {w, v}
  BY DEF Begin
<1> HIDE DEF events
<1>3. /\ Good(v, X, k) /\ DOMAIN v.toks = DOMAIN w.toks /\ v.def = w.def
      /\ v.toks[t].el = w.toks[t].el
  <2>1. Good(v, X, k)
    BY <1>1, RegisterWaitsGood
  <2>2. IsWorld(w) /\ w.toks[t] \in Token
    BY AtElement DEF Good, Typed
  <2> QED BY <2>1, <2>2, RegisterWaitsFields
<1> HIDE DEF v
<1> QED BY <1>2, <1>3

\* A catch event or receive task waits for its event.
LEMMA AwaitGood ==
    ASSUME NEW w, NEW X, NEW k, NEW t \in DOMAIN w.toks, NEW bad, Good(w, X, k),
           RootOf[w.toks[t].el] = w.def, Type(w.toks[t].el) \in {"catch", "receive"}
    PROVE  Good(Await(w, t, bad), X, k)
<1> DEFINE e == w.toks[t].el
           st == IF Node[e].event = "timer" THEN "timer" ELSE "message"
           rec == NewRecord(WaitKind(e), t, e, WaitRetries(e))
           tok == [w.toks[t] EXCEPT !.st = st]
<1>0. e \in Elements /\ w.toks[t] \in Token /\ t \in 0..w.top /\ w.top \in Nat
  BY AtElement
<1>1. RecordOK(rec, w.top)
  <2>1. WaitKind(e) \in RecordKinds /\ WaitRetries(e) \in Nat
    BY InterpreterAssumption DEF WaitKind, WaitRetries, RecordKinds, EventWaits
  <2> HIDE DEF e
  <2> QED BY <1>0, <2>1, NewRecordOK
<1>2. rec.tok = t /\ rec.el = e /\ rec.kind = WaitKind(e)
  BY DEF NewRecord
<1>3. tok.st = st /\ tok.el = e
  BY <1>0 DEF Token
<1>4. st \in TokenStates /\ (st \in Parked => st = "timer" /\ WaitKind(e) = "timer")
  BY DEF TokenStates, WaitStates, Parked, WaitKind
<1>5. Await(w, t, bad) \in {RaiseIncident(w, t), Park(w, t, st, rec)}
  BY DEF Await
<1> HIDE DEF rec, st
<1>6. ParkOK(w, t, st, rec, k)
  <2>1. st \in Parked => Fits(tok, t, rec, k.stays)
    BY <1>2, <1>3, <1>4 DEF Fits
  <2>2. Placed(tok, w.def, k.stays)
    BY <1>3 DEF Placed
  <2> QED BY <1>1, <1>4, <2>1, <2>2 DEF ParkOK
<1>7. Good(Park(w, t, st, rec), X, k)
  BY <1>6, ParkGood
<1>8. Good(RaiseIncident(w, t), X, k)
  BY RaiseIncidentGood
<1> QED BY <1>5, <1>7, <1>8

\* The states in which a token waits for a record of its own kind.
LEMMA ParkRecordGood ==
    ASSUME NEW w, NEW X, NEW Y, NEW k, NEW t \in DOMAIN w.toks, NEW left \in Nat,
           NEW st \in {"task", "external", "agent", "retry"},
           Good(w, X, k), X \subseteq Y \cup {t}
    PROVE  Good(Park(w, t, st, NewRecord(st, t, w.toks[t].el, left)), Y, k)
<1> DEFINE e == w.toks[t].el
           rec == NewRecord(st, t, e, left)
           tok == [w.toks[t] EXCEPT !.st = st]
<1>0. e \in Elements /\ w.toks[t] \in Token /\ t \in 0..w.top /\ w.top \in Nat
  BY AtElement
<1>1. st \in RecordKinds /\ st \in TokenStates
  BY DEF RecordKinds, EventWaits, TokenStates, WaitStates
<1>2. RecordOK(rec, w.top)
  <2> HIDE DEF e
  <2> QED BY <1>0, <1>1, NewRecordOK
<1>3. rec.tok = t /\ rec.el = e /\ rec.kind = st
  BY DEF NewRecord
<1>4. tok.st = st /\ tok.el = e
  BY <1>0 DEF Token
<1> HIDE DEF rec
<1>5. ParkOK(w, t, st, rec, k)
  <2>1. Fits(tok, t, rec, k.stays)
    BY <1>3, <1>4 DEF Fits
  <2>2. Placed(tok, w.def, k.stays)
    BY <1>4 DEF Placed
  <2> QED BY <1>1, <1>2, <2>1, <2>2 DEF ParkOK
<1>6. Good(Park(w, t, st, rec), Y, k)
  BY <1>5, ParkGood
<1> QED BY <1>6 DEF rec

\* userTask, serviceTask and agentTask with a topic, createApprovalTask
LEMMA AwaitWorkerGood ==
    ASSUME NEW w, NEW X, NEW Y, NEW k, NEW t \in DOMAIN w.toks,
           NEW kind \in {"task", "external", "agent"},
           Good(w, X, k), X \subseteq Y \cup {t}
    PROVE  Good(AwaitWorker(w, t, kind), Y, k)
<1> DEFINE left == IF kind = "task" THEN 0 ELSE Retries
<1>1. left \in Nat /\ kind \in {"task", "external", "agent", "retry"}
  BY InterpreterAssumption
<1>2. AwaitWorker(w, t, kind) = Park(w, t, kind, NewRecord(kind, t, w.toks[t].el, left))
  BY DEF AwaitWorker
<1> HIDE DEF left
<1>3. Good(Park(w, t, kind, NewRecord(kind, t, w.toks[t].el, left)), Y, k)
  BY <1>1, ParkRecordGood
<1> QED BY <1>2, <1>3

\* handleActivityFailure
LEMMA HandleActivityFailureGood ==
    ASSUME NEW w, NEW X, NEW Y, NEW k, NEW t \in DOMAIN w.toks,
           Good(w, X, k), X \subseteq Y \cup {t}
    PROVE  Good(HandleActivityFailure(w, t), Y, k)
<1> DEFINE n == w.toks[t].tries + 1
           v == Tried(w, t, n)
           retry == Park(v, t, "retry", NewRecord("retry", t, w.toks[t].el, 0))
<1>0. n \in Nat /\ 0 \in Nat
  BY AtElement DEF Token
<1>1. HandleActivityFailure(w, t) \in {retry, RaiseIncident(w, t)}
  BY DEF HandleActivityFailure, Tried
<1> HIDE DEF n
<1>a. Good(v, X, k)
  BY <1>0, TriesGood
<1>b. DOMAIN v.toks = DOMAIN w.toks /\ v.toks[t].el = w.toks[t].el
  <2>1. IsWorld(w) /\ w.toks[t] \in Token
    BY AtElement DEF Good, Typed
  <2> QED BY <2>1 DEF IsWorld, Tried, Token
<1>2. Good(v, X, k) /\ DOMAIN v.toks = DOMAIN w.toks /\ v.toks[t].el = w.toks[t].el
  BY <1>a, <1>b
<1> HIDE DEF v
<1>3. Good(Park(v, t, "retry", NewRecord("retry", t, v.toks[t].el, 0)), Y, k)
  BY <1>0, <1>2, ParkRecordGood
<1>4. Good(retry, Y, k)
  BY <1>2, <1>3
<1>5. Good(RaiseIncident(w, t), Y, k)
  BY RaiseIncidentGood
<1> QED BY <1>1, <1>4, <1>5

\* finishAgent
LEMMA FinishAgentGood ==
    ASSUME NEW w, NEW X, NEW Y, NEW k, NEW t \in DOMAIN w.toks, NEW yes,
           Good(w, X, k), X \subseteq Y \cup {t}
    PROVE  Good(FinishAgent(w, t, yes), Y, k)
<1>1. FinishAgent(w, t, yes) \in {AwaitWorker(w, t, "task"), CompleteActivity(w, t, yes)}
  BY DEF FinishAgent
<1>2. Good(AwaitWorker(w, t, "task"), Y, k)
  BY AwaitWorkerGood
<1>3. Good(CompleteActivity(w, t, yes), Y, k)
  BY CompleteActivityGood
<1> QED BY <1>1, <1>2, <1>3

\* recordAgentResult: charged, then accepted or rejected.
LEMMA AgentResultGood ==
    ASSUME NEW w, NEW X, NEW Y, NEW k, NEW t \in DOMAIN w.toks, NEW use \in Nat, NEW accepted,
           NEW yes, Good(w, X, k), X \subseteq Y \cup {t}
    PROVE  Good(AgentResult(w, t, use, accepted, yes), Y, k)
<1> DEFINE v == [w EXCEPT !.spent = @ + use]
<1>0. IsWorld(w) /\ w.spent \in Nat /\ w.again \in BOOLEAN
  BY DEF Good, Typed
<1>1. /\ IsWorld(v) /\ v.def = w.def /\ v.st = w.st /\ v.toks = w.toks /\ v.multi = w.multi
      /\ v.recs = w.recs /\ v.top = w.top /\ v.spent = w.spent + use /\ v.again = w.again
  BY <1>0 DEF IsWorld
<1>2. AgentResult(w, t, use, accepted, yes) \in
         {FinishAgent(v, t, yes), HandleActivityFailure(v, t)}
  BY DEF AgentResult
<1> HIDE DEF v
<1>3. v.spent \in Nat /\ v.again \in BOOLEAN
  BY <1>0, <1>1
<1>4. Good(v, X, k) /\ t \in DOMAIN v.toks
  BY <1>1, <1>3, CountersGood
<1>5. Good(FinishAgent(v, t, yes), Y, k)
  BY <1>4, FinishAgentGood
<1>6. Good(HandleActivityFailure(v, t), Y, k)
  BY <1>4, HandleActivityFailureGood
<1> QED BY <1>2, <1>5, <1>6

\* agentTask, up to the invocation
LEMMA AgentTaskGood ==
    ASSUME NEW w, NEW X, NEW k, NEW t \in DOMAIN w.toks, Good(w, X, k)
    PROVE  Good(AgentTask(w, t), X, k)
<1>1. AgentTask(w, t) \in {RaiseIncident(w, t), AwaitWorker(w, t, "agent")}
  BY DEF AgentTask
<1>2. Good(AwaitWorker(w, t, "agent"), X, k)
  BY AwaitWorkerGood
<1>3. Good(RaiseIncident(w, t), X, k)
  BY RaiseIncidentGood
<1> QED BY <1>1, <1>2, <1>3

\* The scope that a token opens.
LEMMA InnerScopeOK ==
    ASSUME NEW w, NEW X, NEW k, NEW t \in DOMAIN w.toks, Good(w, X, k)
    PROVE  ScopeOK(InnerScope(w, t), w.top)
<1> DEFINE e == w.toks[t].el
           s == w.toks[t].scope
<1>1. e \in Elements /\ ScopeOK(s, w.top) /\ t \in 0..w.top /\ w.top \in Nat
  BY AtElement
<1> HIDE DEF e, s
<1>2. ScopeOK(Append(s, [el |-> e, own |-> t]), w.top)
  BY <1>1, ScopesOK
<1> QED BY <1>2 DEF InnerScope, e, s

\* A scope that is well typed stays so under a larger bound.
LEMMA ScopeLarger ==
    ASSUME NEW n \in Nat, NEW m \in Nat, n <= m, NEW s, ScopeOK(s, n)
    PROVE  ScopeOK(s, m)
<1>1. s \in Seq([el : Elements, own : Nat])
  BY DEF ScopeOK, Scopes
<1>2. \A i \in DOMAIN s : s[i] \in [el : Elements, own : Nat]
  BY <1>1, LenProperties
<1> QED BY <1>2 DEF ScopeOK

\* enterSubProcess
LEMMA EnterSubProcessGood ==
    ASSUME NEW w, NEW X, NEW k, NEW t \in DOMAIN w.toks, NEW bad, Good(w, X, k)
    PROVE  Good(EnterSubProcess(w, t, bad), X, k)
<1> DEFINE e == w.toks[t].el
           start == Starts(e, {"none"})
           first == CHOOSE s \in start : TRUE
           waiting == Resumed(w, t, "child")
           events == EventStarts(e, {"timer", "message"}) \ bad
           v == CreateEventWaits(waiting, t, events)
           scope == InnerScope(w, t)
<1>0. t \in 0..w.top /\ start \in SUBSET Elements /\ events \in SUBSET Elements
      /\ ScopeOK(scope, w.top) /\ w.top \in Nat
  BY AtElement, EventsAreElements, InnerScopeOK
<1>1. EnterSubProcess(w, t, bad) =
         IF start = {} THEN RaiseIncident(w, t) ELSE Spawn(v, NewToken(first, scope))
  BY DEF EnterSubProcess, RegisterEventSubprocesses, Resumed
<1> HIDE DEF start, events, scope
<1>2. Good(RaiseIncident(w, t), X, k)
  BY RaiseIncidentGood
<1>3. ASSUME start # {} PROVE Good(Spawn(v, NewToken(first, scope)), X, k)
  <2>1. first \in Elements
    BY <1>0, <1>3
  <2>2. "child" \in TokenStates \ Parked
    BY DEF TokenStates, WaitStates, Parked
  <2>3. Good(waiting, X, k)
    BY <2>2, ResumeGood
  <2>4. waiting.top = w.top
    BY ResumedFields DEF Good, Typed
  <2> HIDE DEF waiting
  <2>5. Good(v, X, k) /\ v.top \in Nat /\ waiting.top <= v.top
    BY <1>0, <2>3, <2>4, CreateEventWaitsGood
  <2> HIDE DEF v, first
  <2>6. ScopeOK(scope, v.top)
    BY <1>0, <2>4, <2>5, ScopeLarger
  <2> QED BY <2>1, <2>5, <2>6, SpawnNewGood
<1> HIDE DEF v, first
<1> QED BY <1>1, <1>2, <1>3

------------------------------------------------------------------------------
\* Triggers.

\* Tokens whose wait nobody looks for may be left out of the exempt ones.
LEMMA GoodLoose ==
    ASSUME NEW w, NEW X, NEW Y, NEW k, Good(w, X, k),
           \A t \in DOMAIN w.toks : t \in X => t \in Y \/ Awake(w.toks[t], w.recs, k.claimed, k.stays)
    PROVE  Good(w, Y, k)
  BY DEF Good, Linked

\* cancelActivity
LEMMA CancelActivityGood ==
    ASSUME NEW w, NEW X, NEW Y, NEW k, NEW t \in DOMAIN w.toks,
           Good(w, X, k), X \subseteq Y \cup {t}
    PROVE  Good(CancelActivity(w, t), Y \cup {t}, k)
<1> DEFINE T == {t}
           Z == Y \cup {t}
           v == CancelWaits(w, T)
           s == InnerScope(w, t)
<1>1. T \in SUBSET DOMAIN w.toks /\ X \subseteq Z /\ T \subseteq Z
  OBVIOUS
<1>2. CancelActivity(w, t) \in {v, KillScopeTokens(v, s, "none")}
  BY DEF CancelActivity
<1> HIDE DEF T, Z, s
<1>3. Good(v, Z, k)
  BY <1>1, CancelWaitsGood
<1> HIDE DEF v
<1>4. Good(KillScopeTokens(v, s, "none"), Z, k)
  BY <1>3, KillScopeTokensGood
<1> QED BY <1>2, <1>3, <1>4 DEF Z

\* A boundary event is taken, by a token that may be gone.
LEMMA BoundaryTakenGood ==
    ASSUME NEW w, NEW X, NEW Y, NEW k, NEW t, NEW b \in Elements,
           Good(w, X, k), X \subseteq Y \cup {t}
    PROVE  Good(MoveToBoundary(w, t, b), Y, k)
<1>1. CASE t \in DOMAIN w.toks
  BY <1>1, MoveToBoundaryGood
<1>2. CASE t \notin DOMAIN w.toks
  <2> DEFINE v == MoveToBoundary(w, t, b)
  <2>1. Typed(w) /\ IsWorld(w) /\ w.top \in Nat /\ DOMAIN w.recs \subseteq Nat
    BY DEF Good, Typed, RecsOK
  <2>2. /\ IsWorld(v) /\ v.def = w.def /\ v.st = w.st /\ v.multi = w.multi /\ v.recs = w.recs
        /\ v.again = w.again /\ v.spent = w.spent /\ v.top = w.top
        /\ DOMAIN v.toks = DOMAIN w.toks /\ \A u \in DOMAIN w.toks : v.toks[u] = w.toks[u]
    BY <1>2, <2>1 DEF IsWorld, MoveToBoundary
  <2> HIDE DEF v
  <2>3. Typed(v)
    BY <2>1, <2>2 DEF Typed, ToksOK
  <2>4. Relinks(w, v, X, Y, k)
    BY <1>2, <2>1, <2>2 DEF Relinks, SameWait
  <2>5. Good(v, Y, k)
    BY <2>3, <2>4, RelinkGood
  <2> QED BY <2>5 DEF v
<1> QED BY <1>1, <1>2

\* boundaryTriggered
LEMMA BoundaryTriggeredGood ==
    ASSUME NEW w, NEW X, NEW k, NEW t \in DOMAIN w.toks, NEW b \in Elements, Good(w, X, k)
    PROVE  Good(BoundaryTriggered(w, t, b), X, k)
<1> DEFINE v == CancelActivity(w, t)
           Z == X \cup {t}
           s == w.toks[t].scope
<1>1. BoundaryTriggered(w, t, b) \in {MoveToBoundary(v, t, b), Spawn(w, NewToken(b, s))}
  BY DEF BoundaryTriggered
<1>2. Z \subseteq X \cup {t}
  OBVIOUS
<1>3. Good(v, Z, k)
  BY CancelActivityGood
<1> HIDE DEF Z, v
<1>4. Good(MoveToBoundary(v, t, b), X, k)
  BY <1>2, <1>3, BoundaryTakenGood
<1>5. ScopeOK(s, w.top)
  BY AtElement
<1> HIDE DEF s
<1>6. Good(Spawn(w, NewToken(b, s)), X, k)
  BY <1>5, SpawnNewGood
<1> QED BY <1>1, <1>4, <1>6

\* eventSubprocessTriggered: the record that triggered it may go, since no token
\* that somebody must wake waits for it.
LEMMA EventSubprocessTriggeredGood ==
    ASSUME NEW w, NEW X, NEW k, NEW owner \in DOMAIN w.toks \cup {0}, NEW start \in Elements,
           NEW id, Good(w, X, k), Node[start].in \in Elements,
           \A t \in DOMAIN w.toks :
               w.toks[t].ref = id => \/ w.toks[t].st \notin Parked
                                     \/ w.toks[t].st = "timer" /\ w.toks[t].el \notin k.stays
    PROVE  Good(EventSubprocessTriggered(w, owner, start, id), X, k)
<1> DEFINE s == IF owner = 0 THEN <<>> ELSE InnerScope(w, owner)
           es == Node[start].in
           killed == KillScopeTokens(w, s, es)
           D == {i \in DOMAIN killed.recs \cap {id} : killed.recs[i].kind = "sub"}
           less == [killed EXCEPT !.recs = Without(@, D)]
           s1 == Append(s, [el |-> es, own |-> 0])
<1>0. w.top \in Nat /\ es \in Elements /\ 0 \in 0..w.top
  BY DEF Good, Typed
<1>1. ScopeOK(s, w.top)
  <2>1. CASE owner = 0
    BY <1>0, <2>1, ScopesOK
  <2>2. CASE owner # 0
    <3>1. ScopeOK(InnerScope(w, owner), w.top)
      BY <2>2, InnerScopeOK
    <3> QED BY <2>2, <3>1
  <2> QED BY <2>1, <2>2
<1>2. EventSubprocessTriggered(w, owner, start, id) \in
         {Spawn(w, NewToken(start, s1)), Spawn(less, NewToken(start, s1))}
  BY DEF EventSubprocessTriggered
<1> HIDE DEF s, es
<1>3. ScopeOK(s1, w.top)
  BY <1>0, <1>1, ScopesOK
<1>4. /\ Good(killed, X, k) /\ killed.top = w.top /\ DOMAIN killed.toks \subseteq DOMAIN w.toks
      /\ \A t \in DOMAIN killed.toks : killed.toks[t] = w.toks[t]
  <2> HIDE DEF killed
  <2>1. killed = KillScopeTokens(w, s, es)
    BY DEF killed
  <2> QED BY <2>1, KillScopeTokensGood
<1> HIDE DEF killed
<1>a. D \subseteq {id}
  OBVIOUS
<1> HIDE DEF D
<1> DEFINE Z == X \cup {t \in DOMAIN killed.toks : killed.toks[t].ref = id}
           v == [killed EXCEPT !.recs = Without(@, D)]
<1>5. Good(v, Z, k) /\ v.toks = killed.toks /\ v.top = w.top
  <2>1. \A t \in DOMAIN killed.toks \ Z : t \notin X /\ killed.toks[t].ref \notin D
    BY <1>a
  <2> HIDE DEF Z
  <2>2. Good(v, Z, k)
    BY <1>4, <2>1, DropRecsGood
  <2>3. IsWorld(killed)
    BY <1>4 DEF Good, Typed
  <2> QED BY <1>4, <2>2, <2>3 DEF IsWorld
<1>6. less = v
  OBVIOUS
<1> HIDE DEF v, less
<1>7. \A t \in DOMAIN v.toks : t \in Z => t \in X \/ Awake(v.toks[t], v.recs, k.claimed, k.stays)
  <2> SUFFICES ASSUME NEW t \in DOMAIN v.toks, t \in Z, t \notin X
               PROVE  Awake(v.toks[t], v.recs, k.claimed, k.stays)
    OBVIOUS
  <2>1. v.toks[t] = w.toks[t] /\ t \in DOMAIN w.toks /\ w.toks[t].ref = id
    BY <1>4, <1>5
  <2>2. \/ w.toks[t].st \notin Parked
        \/ w.toks[t].st = "timer" /\ w.toks[t].el \notin k.stays
    BY <2>1
  <2> QED BY <2>1, <2>2 DEF Awake, Parked
<1> HIDE DEF Z
<1>8. Good(v, X, k)
  BY <1>5, <1>7, GoodLoose
<1> HIDE DEF s1
<1>9. Good(Spawn(v, NewToken(start, s1)), X, k)
  BY <1>3, <1>5, <1>8, SpawnNewGood
<1>10. Good(Spawn(w, NewToken(start, s1)), X, k)
  BY <1>3, SpawnNewGood
<1> QED BY <1>2, <1>6, <1>9, <1>10

\* eventTriggered of a catch event or receive task: the token goes on.
LEMMA EventTriggeredGood ==
    ASSUME NEW w, NEW X, NEW Y, NEW k, NEW rec, NEW id, NEW yes,
           rec.tok \in DOMAIN w.toks, rec.el \in Elements,
           Type(rec.el) \notin {"boundary", "start"},
           Good(w, X, k), X \subseteq Y \cup {rec.tok}
    PROVE  Good(EventTriggered(w, rec, id, yes), Y, k)
<1> DEFINE t == rec.tok
           e == rec.el
           T == {t}
           Z == Y \cup {t}
           v == DropTokenEventWaits(w, T)
           freed == Jumped(v, t, e)
<1>1. EventTriggered(w, rec, id, yes) \in {CompleteActivity(freed, t, yes), TakeOutgoing(freed, t, yes)}
  BY DEF EventTriggered, Jumped
<1>2. X \subseteq Z /\ T \subseteq Z /\ Z \subseteq Y \cup {t} /\ t \in DOMAIN w.toks /\ e \in Elements
  OBVIOUS
<1> HIDE DEF t, e, T, Z
<1>3. Good(v, Z, k)
  BY <1>2, DropTokenEventWaitsGood
<1>4. v.toks = w.toks
  BY DEF Good, Typed, IsWorld, DropTokenEventWaits
<1> HIDE DEF v
<1>5. Good(freed, Y, k)
  BY <1>2, <1>3, <1>4, JumpGood
<1>6. t \in DOMAIN freed.toks
  BY <1>2, <1>3, <1>4 DEF Good, Typed, IsWorld, Jumped
<1> HIDE DEF freed
<1>7. Good(CompleteActivity(freed, t, yes), Y, k)
  BY <1>5, <1>6, CompleteActivityGood
<1>8. Good(TakeOutgoing(freed, t, yes), Y, k)
  BY <1>5, <1>6, TakeOutgoingGood
<1> QED BY <1>1, <1>7, <1>8
==============================================================================
