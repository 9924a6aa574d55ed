----------------------------- MODULE EngineProofs -----------------------------
(***************************************************************************)
(* Proofs about Engine, for every set of process models, migration plans,  *)
(* clients and operations: the end of an instance is final, everything     *)
(* keeps its type, and no token waits for a task or a job that is gone.    *)
(*                                                                         *)
(* What the interpreter makes of a token does not matter for the first:    *)
(* it is about the lock, the stored instance and the copy under the lock.  *)
(* The other two rest on what module InterpreterProofs shows of the        *)
(* operators that move tokens.                                             *)
(***************************************************************************)
EXTENDS Engine, InterpreterProofs

\* An instance record.
IsRecord(x) ==
    x = [def |-> x.def, st |-> x.st, susp |-> x.susp, toks |-> x.toks, multi |-> x.multi,
         again |-> x.again, spent |-> x.spent]

\* Who holds the instance lock has found the stored instance active, and it
\* stays so until the lock is released; without a holder there is no copy
\* but the stored instance.
LockInv ==
    /\ IsRecord(inst) /\ IsRecord(run)
    /\ locked => up /\ inst.st = "active"
    /\ ~locked => run = inst

------------------------------------------------------------------------------
\* Without only removes.
LEMMA WithoutShrinks ==
    ASSUME NEW f, NEW S
    PROVE  DOMAIN Without(f, S) \subseteq DOMAIN f
  BY DEF Without

\* A step of drain works on the copy under the lock.
LEMMA StepEffect ==
    ASSUME Step
    PROVE  /\ up /\ locked
           /\ UNCHANGED <<up, inst, locked, calls, ops, crashes>>
           /\ \E w : Becomes(w)
<1> USE DEF At, Draining, Stepped
<1>1. ASSUME NEW yes \in Truths,
             StepEvent(yes) \/ StepEndEvent(yes) \/ StepExclusiveGateway(yes)
                \/ StepInclusiveGateway(yes)
      PROVE  up /\ locked /\ \E w : Stepped(w)
  <2> HIDE DEF Stepped
  <2> QED BY <1>1 DEF StepEvent, StepEndEvent, StepExclusiveGateway, StepInclusiveGateway
<1>2. ASSUME NEW yes \in Truths, NEW bad \in Faults,
             StepServiceTask(yes, bad) \/ StepInvokeAgent(yes, bad) \/ StepMultiInstance(yes, bad)
      PROVE  up /\ locked /\ \E w : Stepped(w)
  <2> HIDE DEF Stepped
  <2> QED BY <1>2 DEF StepServiceTask, StepInvokeAgent, StepMultiInstance
<1>3. ASSUME NEW bad \in Faults,
             StepEventBasedGateway(bad) \/ StepCatch(bad) \/ StepReceiveTask(bad)
                \/ StepUserTask(bad) \/ StepExternalTask(bad) \/ StepServiceTaskFails(bad)
                \/ StepServiceTaskThrows(bad)
      PROVE  up /\ locked /\ \E w : Stepped(w)
  <2> HIDE DEF Stepped
  <2> QED BY <1>3 DEF StepEventBasedGateway, StepCatch, StepReceiveTask,
             StepUserTask, StepExternalTask, StepServiceTaskFails, StepServiceTaskThrows
<1>4. ASSUME NEW bad \in Faults, StepOverBudget(bad) \/ StepAgentTask(bad) \/ StepSubProcess(bad)
      PROVE  up /\ locked /\ \E w : Stepped(w)
  <2> HIDE DEF Stepped
  <2> QED BY <1>4 DEF StepOverBudget, StepAgentTask, StepSubProcess
<1>5. ASSUME StepParallelGateway \/ StepInputFails \/ StepUnknownElement
      PROVE  up /\ locked /\ \E w : Stepped(w)
  <2> HIDE DEF Stepped
  <2> QED BY <1>5 DEF StepParallelGateway, StepInputFails, StepUnknownElement
<1>6. up /\ locked /\ \E w : Stepped(w)
  <2> HIDE DEF At, Draining, Stepped
  <2> QED BY <1>1, <1>2, <1>3, <1>4, <1>5 DEF Step
<1> QED BY <1>6

\* An operation that a client asked for takes the lock of an active instance.
LEMMA ServeEffect ==
    ASSUME NEW c, NEW kinds, NEW op, NEW w, Serve(c, kinds, op, w)
    PROVE  /\ up /\ ~locked /\ inst.st = "active" /\ locked'
           /\ UNCHANGED <<up, inst, ops, crashes>>
           /\ Becomes(w)
  BY DEF Serve, Accepted

\* Whatever a caller asks for, it either gets the lock of an active instance, or
\* puts its job back, or is refused.
LEMMA AnswerEffect ==
    ASSUME NEW c \in Clients, Answer(c)
    PROVE  \/ /\ up /\ ~locked /\ inst.st = "active" /\ locked'
              /\ UNCHANGED <<up, inst, ops, crashes>>
              /\ \E w : Becomes(w)
           \/ RequeueFailedJob(c)
           \/ Refuse(c)
<1> DEFINE Served == \E kinds, op, w : Serve(c, kinds, op, w)
<1>1. ASSUME NEW yes \in Truths, Complete(c, yes) \/ Trigger(c, yes) PROVE Served
  BY <1>1 DEF Complete, Trigger
<1>2. ASSUME NEW yes \in Truths, CompleteAgentJob(c, yes) PROVE Served
  BY <1>2 DEF CompleteAgentJob
<1>3. ASSUME FailWithError(c) \/ Fail(c) PROVE Served
  BY <1>3 DEF FailWithError, Fail
<1>4. ASSUME RunJob(c) \/ ResolveIncident(c) PROVE Served
  BY <1>4 DEF RunJob, ResolveIncident
<1>5. ASSUME Served
      PROVE  /\ up /\ ~locked /\ inst.st = "active" /\ locked'
             /\ UNCHANGED <<up, inst, ops, crashes>>
             /\ \E w : Becomes(w)
  BY <1>5, ServeEffect
<1> HIDE DEF Served
<1> QED BY <1>1, <1>2, <1>3, <1>4, <1>5 DEF Answer

\* What the operations do with the lock and the instance: they find it active.
LEMMA ControlEffect ==
    ASSUME LockInv, Control
    PROVE  /\ up /\ up' /\ ~locked /\ inst.st = "active"
           /\ \/ locked' /\ UNCHANGED inst /\ IsRecord(run')
              \/ ~locked' /\ run' = inst' /\ IsRecord(inst') /\ inst'.st = "active"
<1>1. ASSUME NEW w, NEW susp, Operate(w, susp)
      PROVE  up /\ up' /\ ~locked /\ inst.st = "active" /\ locked' /\ UNCHANGED inst /\ IsRecord(run')
  BY <1>1 DEF Operate, InstanceOf, IsRecord
<1>2. ASSUME CancelInstance \/ ResumeInstance \/ SetVariables
      PROVE  up /\ up' /\ ~locked /\ inst.st = "active" /\ locked' /\ UNCHANGED inst /\ IsRecord(run')
  BY <1>1, <1>2 DEF CancelInstance, ResumeInstance, SetVariables
<1>3. ASSUME SuspendInstance
      PROVE  /\ up /\ up' /\ ~locked /\ inst.st = "active"
             /\ ~locked' /\ run' = inst' /\ IsRecord(inst') /\ inst'.st = "active"
  BY <1>3 DEF SuspendInstance, LockInv, IsRecord
<1>4. ASSUME NEW p \in Plans,
             MigrateInstance(p) \/ \E c \in Clients, i \in DOMAIN recs : MigrateClaimed(p, c, i)
      PROVE  /\ up /\ up' /\ ~locked /\ inst.st = "active"
             /\ ~locked' /\ run' = inst' /\ IsRecord(inst') /\ inst'.st = "active"
  <2>1. /\ up /\ up' = up /\ ~locked /\ locked' = locked /\ inst.st = "active"
        /\ inst' = Migrated(p) /\ run' = inst'
    BY <1>4 DEF MigrateInstance, MigrateClaimed, Migrates
  <2>2. IsRecord(Migrated(p)) /\ Migrated(p).st = inst.st
    <3> DEFINE f == [t \in DOMAIN inst.toks |-> Mapped(p, inst.toks[t])]
    <3>1. Migrated(p) = [inst EXCEPT !.def = p.to, !.toks = f]
      BY Zenon DEF Migrated
    <3> HIDE DEF f
    <3> QED BY <3>1 DEF LockInv, IsRecord
  <2> QED BY <2>1, <2>2
<1> QED BY <1>2, <1>3, <1>4 DEF Control

------------------------------------------------------------------------------
\* Nobody holds the lock at first.
LEMMA LockInit == Init => LockInv
  BY DEF Init, LockInv, IsRecord

\* Only the operations that take the lock and the one that stores the copy change it.
LEMMA LockStep == LockInv /\ [Next]_vars => LockInv'
<1> SUFFICES ASSUME LockInv, [Next]_vars PROVE LockInv'
  OBVIOUS
<1>0. CASE UNCHANGED vars
  BY <1>0 DEF vars, LockInv, IsRecord
<1>a. ASSUME NEW w, Becomes(w) PROVE IsRecord(run')
  BY <1>a DEF Becomes, InstanceOf, IsRecord
<1>1. ASSUME NEW bad \in Faults, StartInstance(bad) PROVE LockInv'
  BY <1>1 DEF StartInstance, LockInv, IsRecord
<1>2. CASE Step
  BY <1>2, <1>a, StepEffect DEF LockInv, IsRecord
<1>3. CASE PutInstance
  BY <1>3 DEF PutInstance, LockInv, IsRecord
<1>4. ASSUME NEW c \in Clients, Request(c) PROVE LockInv'
  BY <1>4 DEF Request, Read, ClaimJob, LockInv, IsRecord
<1>5. ASSUME NEW c \in Clients, Answer(c) PROVE LockInv'
  BY <1>5, <1>a, AnswerEffect DEF RequeueFailedJob, Refuse, LockInv, IsRecord
<1>6. CASE Control
  BY <1>6, ControlEffect DEF LockInv, IsRecord
<1>7. CASE Crash
  BY <1>7 DEF Crash, LockInv, IsRecord
<1>8. ASSUME NEW p \in Plans, MigrationCrash(p) PROVE LockInv'
  BY <1>8 DEF MigrationCrash, Migrates, LockInv, IsRecord
<1>9. CASE Restart
  BY <1>9, <1>a DEF Restart, LockInv, IsRecord
<1> QED BY <1>0, <1>1, <1>2, <1>3, <1>4, <1>5, <1>6, <1>7, <1>8, <1>9 DEF Next

\* Only who holds the lock works on a copy, and the instance stored meanwhile
\* is active (lockInstance in resume and startInstance).
THEOREM LockGuardsInstance == Spec => []LockInv
  BY LockInit, LockStep, PTL DEF Spec

------------------------------------------------------------------------------
\* No step changes an instance that has ended, or adds a record to it.
LEMMA EndStep ==
    ASSUME LockInv, Next, Ended
    PROVE  inst' = inst /\ DOMAIN recs' \subseteq DOMAIN recs
<1>0. ~locked /\ inst.st # "active" /\ inst.st # "none"
  BY DEF LockInv, Ended
<1>1. (\A bad \in Faults : ~StartInstance(bad)) /\ ~Step /\ ~PutInstance
  BY <1>0, StepEffect DEF StartInstance, PutInstance
<1>2. ASSUME NEW c \in Clients, Request(c)
      PROVE  inst' = inst /\ DOMAIN recs' \subseteq DOMAIN recs
  BY <1>2, WithoutShrinks DEF Request, Read, ClaimJob
<1>3. ASSUME NEW c \in Clients, Answer(c)
      PROVE  inst' = inst /\ DOMAIN recs' \subseteq DOMAIN recs
  BY <1>3, <1>0, AnswerEffect DEF RequeueFailedJob, Fails, Refuse
<1>4. ~Control
  BY <1>0, ControlEffect
<1>5. CASE Crash
  BY <1>5 DEF Crash
<1>6. \A p \in Plans : ~MigrationCrash(p)
  BY <1>0 DEF MigrationCrash, Migrates
<1>7. CASE Restart
  BY <1>7, <1>0, WithoutShrinks DEF Restart
<1> QED BY <1>1, <1>2, <1>3, <1>4, <1>5, <1>6, <1>7 DEF Next

\* An instance that has ended stays as it is, and no late call, job, message,
\* crash or restart creates a record for it (resume, requeueFailedJob,
\* triggerSubscription, reconcile).
THEOREM EndedInstancesStay == Spec => EndIsFinal
<1>1. LockInv /\ [Next]_vars => [Ended => inst' = inst /\ DOMAIN recs' \subseteq DOMAIN recs]_vars
  BY EndStep
<1> QED BY <1>1, LockGuardsInstance, PTL DEF Spec, EndIsFinal

------------------------------------------------------------------------------
\* Types.

\* A caller that waits for the lock.
IsCall(q) ==
    /\ q = [op |-> q.op, id |-> q.id, rec |-> q.rec]
    /\ q.op \in Ops(q.rec.kind)
    /\ q.id \in Nat \ {0}
    /\ q.rec \in Record

\* An instance record, but for its tokens and loops.
InstanceOK(x) ==
    /\ IsRecord(x)
    /\ x.def \in Processes /\ x.st \in RunStates \cup {"none"}
    /\ x.susp \in BOOLEAN /\ x.again \in BOOLEAN /\ x.spent \in Nat

\* Everything is well typed below some id n.
Below(n) ==
    /\ ToksOK(inst.toks, n) /\ LoopsOK(inst.multi, n)
    /\ ToksOK(run.toks, n) /\ LoopsOK(run.multi, n)
    /\ RecsOK(recs, n)
    /\ \A c \in Clients : calls[c].id <= n /\ calls[c].rec.tok <= n

\* An instance that is not started has no tokens, records or callers.
TypeInv ==
    /\ up \in BOOLEAN /\ locked \in BOOLEAN
    /\ InstanceOK(inst) /\ InstanceOK(run)
    /\ DOMAIN calls = Clients
    /\ \A c \in Clients : calls[c] = Idle \/ IsCall(calls[c])
    /\ \E n \in Nat : Below(n)
    /\ \E p \in Processes : ops \in 0..MaxOps[p]
    /\ crashes \in 0..MaxCrashes
    /\ run.st = "none" <=> inst.st = "none"
    /\ inst.st = "none" =>
          /\ DOMAIN inst.toks = {} /\ DOMAIN inst.multi = {} /\ DOMAIN recs = {}
          /\ \A c \in Clients : calls[c] = Idle

------------------------------------------------------------------------------
\* Waits.

\* The elements that no migration touches.
Stays == {e \in Elements : Unmigrated(e, inst.def)}

\* The jobs that the callers in S have claimed, which are no longer records.
JobKinds == {"timer", "async", "retry"}
ClaimedJobs(S) == {calls[c].id : c \in {d \in S : calls[d].op = "trigger"
                                               /\ calls[d].rec.kind \in JobKinds}}

\* Records and callers know the tokens by what they wait for.
Agree(toks) ==
    \A t \in DOMAIN toks : toks[t].st \in Parked =>
        /\ toks[t].ref # 0
        /\ toks[t].ref \in DOMAIN recs => Fits(toks[t], t, recs[toks[t].ref], Stays)
        /\ \A c \in Clients : calls[c].id = toks[t].ref => Fits(toks[t], t, calls[c].rec, Stays)
        /\ Placed(toks[t], inst.def, Stays)

\* A token that waits for a task or a job has it, as a record or in the hands
\* of the scheduler, as long as the process runs.
WaitInv ==
    /\ run.def = inst.def
    /\ Agree(inst.toks) /\ Agree(run.toks)
    /\ up /\ run.st = "active" =>
          \A t \in DOMAIN run.toks : Awake(run.toks[t], recs, ClaimedJobs(Clients), Stays)

------------------------------------------------------------------------------
\* Ids.

\* Under a bound on all ids there is a highest one, and newID is above it.
LEMMA TopBounds ==
    ASSUME NEW n \in Nat, Ids \in SUBSET (0..n)
    PROVE  Top \in Nat /\ \A i \in Ids : i <= Top
<1> DEFINE N == {0 - i : i \in Ids}
           g == Max(Ids)
<1>0. 0 \in Ids
  BY DEF Ids
<1> HIDE DEF N
<1>1. g \in Ids /\ \A i \in Ids : g >= i
  BY <1>0, MaxIsGreatest
<1> HIDE DEF g
<1>2. g \in Nat /\ \A i \in Ids : i \in Nat /\ i <= g
  BY <1>1
<1>3. 0 - g \in N /\ \A y \in N : y \in Int /\ 0 - g <= y
  BY <1>1, <1>2 DEF N
<1>4. Min(N) \in N /\ \A y \in N : Min(N) <= y
  BY <1>3 DEF Min
<1>5. Min(N) = 0 - g
  <2>1. Min(N) \in Int /\ Min(N) <= 0 - g /\ 0 - g <= Min(N)
    BY <1>3, <1>4
  <2> QED BY <1>2, <2>1
<1>6. Top = 0 - Min(N)
  BY DEF Top, N
<1>7. Top = g
  BY <1>2, <1>5, <1>6
<1> QED BY <1>2, <1>7

\* The ids that tokens mention.
LEMMA TokenIdsBound ==
    ASSUME NEW toks, NEW n \in Nat, ToksOK(toks, n)
    PROVE  /\ TokenIds(toks) \in SUBSET (0..n)
           /\ \A m \in Nat : (\A i \in TokenIds(toks) : i <= m) => ToksOK(toks, m)
<1>0. ASSUME NEW t \in DOMAIN toks
      PROVE  /\ toks[t] \in Token /\ t \in 1..n /\ toks[t].ref \in 0..n /\ toks[t].par \in 0..n
             /\ toks[t].scope \in Scopes /\ toks[t].par # t
             /\ \A i \in DOMAIN toks[t].scope : toks[t].scope[i].own \in 0..n
  <2>1. /\ toks[t] \in Token /\ toks[t].ref <= n /\ toks[t].par <= n /\ toks[t].par # t
        /\ t \in 1..n /\ ScopeOK(toks[t].scope, n)
    BY <1>0 DEF ToksOK, TokenOK
  <2>2. toks[t].ref \in Nat /\ toks[t].par \in Nat
    BY <2>1 DEF Token
  <2>3. toks[t].scope \in Seq([el : Elements, own : Nat])
    BY <2>1 DEF ScopeOK, Scopes
  <2>4. \A i \in DOMAIN toks[t].scope : toks[t].scope[i] \in [el : Elements, own : Nat]
    BY <2>3, LenProperties
  <2>5. \A i \in DOMAIN toks[t].scope : toks[t].scope[i].own <= n
    BY <2>1 DEF ScopeOK
  <2> QED BY <2>1, <2>2, <2>3, <2>4, <2>5 DEF Scopes
<1> DEFINE A == DOMAIN toks
           B == {toks[t].ref : t \in DOMAIN toks}
           C == {toks[t].par : t \in DOMAIN toks}
           E == UNION {{s.own : s \in ToSet(toks[t].scope)} : t \in DOMAIN toks}
<1>1. TokenIds(toks) = A \cup B \cup C \cup E
  BY DEF TokenIds
<1>2. A \in SUBSET (0..n) /\ B \in SUBSET (0..n) /\ C \in SUBSET (0..n)
  BY <1>0
<1>3. E \in SUBSET (0..n)
  BY <1>0 DEF ToSet
<1>4. ASSUME NEW m \in Nat, \A i \in TokenIds(toks) : i <= m PROVE ToksOK(toks, m)
  <2> SUFFICES ASSUME NEW t \in DOMAIN toks
               PROVE  t \in 1..m /\ TokenOK(toks[t], m) /\ toks[t].par # t
    BY DEF ToksOK
  <2>1. t \in A /\ toks[t].ref \in B /\ toks[t].par \in C
    OBVIOUS
  <2>2. t <= m /\ toks[t].ref <= m /\ toks[t].par <= m
    <3> HIDE DEF A, B, C, E
    <3> QED BY <1>1, <1>4, <2>1
  <2>3. ASSUME NEW i \in DOMAIN toks[t].scope PROVE toks[t].scope[i].own <= m
    <3>1. toks[t].scope[i].own \in E
      BY <2>3 DEF ToSet
    <3> HIDE DEF A, B, C, E
    <3> QED BY <1>1, <1>4, <3>1
  <2> QED BY <1>0, <2>2, <2>3 DEF TokenOK, ScopeOK
<1> HIDE DEF A, B, C, E
<1> QED BY <1>1, <1>2, <1>3, <1>4

\* Everything is well typed below the highest id.
LEMMA BelowTop ==
    ASSUME TypeInv
    PROVE  Top \in Nat /\ Below(Top)
<1>1. PICK n \in Nat : Below(n)
  BY DEF TypeInv
<1>2. ASSUME NEW c \in Clients
      PROVE  calls[c].id \in 0..n /\ calls[c].rec.tok \in 0..n
  <2>1. calls[c].id \in Nat /\ calls[c].rec.tok \in Nat
    <3>1. CASE calls[c] = Idle
      BY <3>1 DEF Idle, NewRecord
    <3>2. CASE IsCall(calls[c])
      BY <3>2 DEF IsCall, Record
    <3> QED BY <3>1, <3>2 DEF TypeInv
  <2> QED BY <1>1, <2>1 DEF Below
<1>3. ASSUME NEW i \in DOMAIN recs PROVE i \in 1..n /\ recs[i] \in Record /\ recs[i].tok \in 0..n
  BY <1>1, <1>3 DEF Below, RecsOK, RecordOK, Record
<1>4. TokenIds(inst.toks) \in SUBSET (0..n) /\ TokenIds(run.toks) \in SUBSET (0..n)
  BY <1>1, TokenIdsBound DEF Below
<1>5. DOMAIN inst.multi \in SUBSET (0..n) /\ DOMAIN run.multi \in SUBSET (0..n)
  BY <1>1 DEF Below, LoopsOK
<1>6. Ids \in SUBSET (0..n)
  BY <1>2, <1>3, <1>4, <1>5 DEF Ids
<1>7. Top \in Nat /\ \A i \in Ids : i <= Top
  BY <1>6, TopBounds
<1>8. ToksOK(inst.toks, Top) /\ ToksOK(run.toks, Top)
  <2>1. (\A i \in TokenIds(inst.toks) : i <= Top) /\ (\A i \in TokenIds(run.toks) : i <= Top)
    BY <1>7 DEF Ids
  <2> QED BY <1>1, <1>7, <2>1, TokenIdsBound DEF Below
<1>9. LoopsOK(inst.multi, Top) /\ LoopsOK(run.multi, Top)
  <2>1. \A t \in DOMAIN inst.multi \cup DOMAIN run.multi : t <= Top
    BY <1>7 DEF Ids
  <2> QED BY <1>1, <1>7, <2>1 DEF Below, LoopsOK
<1>10. RecsOK(recs, Top)
  <2>1. \A i \in DOMAIN recs : i <= Top /\ recs[i].tok <= Top
    BY <1>7 DEF Ids
  <2> QED BY <1>3, <1>7, <2>1 DEF RecsOK, RecordOK
<1>11. \A c \in Clients : calls[c].id <= Top /\ calls[c].rec.tok <= Top
  BY <1>7 DEF Ids
<1> QED BY <1>7, <1>8, <1>9, <1>10, <1>11 DEF Below

\* What the interpreter's lemmas compare with, when the callers in S keep their
\* claims.
K(S) == [base |-> World, claimed |-> ClaimedJobs(S), stays |-> Stays]

\* The world an operation works on.
LEMMA WorldFields ==
    /\ IsWorld(World) /\ World.def = run.def /\ World.st = run.st /\ World.toks = run.toks
    /\ World.multi = run.multi /\ World.again = run.again /\ World.spent = run.spent
    /\ World.recs = recs /\ World.top = Top
  BY DEF World, IsWorld

\* It is well typed.
LEMMA WorldTyped ==
    ASSUME TypeInv, run.st # "none"
    PROVE  Typed(World)
<1>1. Top \in Nat /\ Below(Top)
  BY BelowTop
<1>2. InstanceOK(run)
  BY DEF TypeInv
<1> QED BY <1>1, <1>2, WorldFields DEF Typed, InstanceOK, Below

\* Its tokens and records are linked, but for those in X, whose claim is no
\* longer counted.
LEMMA WorldGood ==
    ASSUME NEW S, NEW X, TypeInv, WaitInv, run.st # "none",
           \A t \in DOMAIN run.toks \ X : Awake(run.toks[t], recs, ClaimedJobs(S), Stays)
    PROVE  Good(World, X, K(S))
<1>1. Typed(World)
  BY WorldTyped
<1> DEFINE k == K(S)
<1>2. k.base = World /\ k.claimed = ClaimedJobs(S) /\ k.stays = Stays
  BY DEF K
<1> HIDE DEF k
<1>3. Top \in Nat
  BY BelowTop
<1>4. RecsKept(World, k)
  BY <1>2 DEF RecsKept
<1>5. ASSUME NEW t \in DOMAIN World.toks PROVE WaitKept(World, t, k)
  <2> SUFFICES ASSUME World.toks[t].st \in Parked
               PROVE  /\ \/ World.toks[t].ref > k.base.top
                         \/ t \in DOMAIN k.base.toks /\ SameWait(World.toks[t], k.base.toks[t])
                      /\ World.toks[t].ref \in DOMAIN World.recs =>
                            Fits(World.toks[t], t, World.recs[World.toks[t].ref], k.stays)
                      /\ Placed(World.toks[t], World.def, k.stays)
    BY DEF WaitKept
  <2>1. t \in DOMAIN k.base.toks /\ SameWait(World.toks[t], k.base.toks[t])
    BY <1>2, <1>5 DEF SameWait
  <2>2. /\ World.toks[t].ref \in DOMAIN World.recs =>
              Fits(World.toks[t], t, World.recs[World.toks[t].ref], k.stays)
        /\ Placed(World.toks[t], World.def, k.stays)
    BY <1>2, <1>5, WorldFields DEF WaitInv, Agree
  <2> QED BY <2>1, <2>2
<1>6. \A t \in DOMAIN World.toks \ X : Awake(World.toks[t], World.recs, k.claimed, k.stays)
  BY <1>2, WorldFields
<1>7. World.def = k.base.def /\ k.base.top \in Nat /\ k.base.top <= World.top
  BY <1>2, <1>3, WorldFields
<1>8. Linked(World, X, k)
  BY <1>4, <1>5, <1>6, <1>7 DEF Linked
<1> QED BY <1>1, <1>8 DEF Good, k

\* No caller gives up its claim.
LEMMA StepWorldGood ==
    ASSUME TypeInv, WaitInv, up, run.st = "active"
    PROVE  Good(World, {}, K(Clients))
<1>1. \A t \in DOMAIN run.toks \ {} : Awake(run.toks[t], recs, ClaimedJobs(Clients), Stays)
  BY DEF WaitInv
<1> QED BY <1>1, WorldGood

\* Claims that are not given up are still counted.
LEMMA ClaimsKept ==
    ASSUME NEW S \in SUBSET Clients, \A c \in S : calls'[c] = calls[c]
    PROVE  ClaimedJobs(S) \subseteq ClaimedJobs(Clients)'
<1>1. ASSUME NEW i \in ClaimedJobs(S) PROVE i \in ClaimedJobs(Clients)'
  <2>1. PICK c \in S : /\ calls[c].op = "trigger" /\ calls[c].rec.kind \in JobKinds
                       /\ calls[c].id = i
    BY <1>1 DEF ClaimedJobs
  <2>2. c \in Clients /\ calls'[c] = calls[c]
    OBVIOUS
  <2> QED BY <2>1, <2>2 DEF ClaimedJobs
<1> QED BY <1>1

\* What every operation does with callers and counters.
CallsKept ==
    /\ DOMAIN calls' = Clients
    /\ \A c \in Clients : calls'[c] = calls[c] \/ calls'[c] = Idle
    /\ up' \in BOOLEAN /\ locked' \in BOOLEAN
    /\ \E p \in Processes : ops' \in 0..MaxOps[p]
    /\ crashes' \in 0..MaxCrashes

\* An operation that works on a copy of the instance keeps the types.
LEMMA CopyTyped ==
    ASSUME NEW w, NEW S, NEW susp \in BOOLEAN, TypeInv, Good(w, {}, K(S)), inst.st # "none",
           run' = InstanceOf(w, susp), recs' = w.recs, inst' = inst, CallsKept
    PROVE  TypeInv'
<1>0. Typed(w) /\ w.top \in Nat /\ Top <= w.top /\ Top \in Nat
  BY BelowTop, WorldFields DEF Good, Linked, Typed, K
<1>1. /\ run'.def = w.def /\ run'.st = w.st /\ run'.susp = susp /\ run'.toks = w.toks
      /\ run'.multi = w.multi /\ run'.again = w.again /\ run'.spent = w.spent
      /\ IsRecord(run)'
  BY DEF InstanceOf, IsRecord
<1>2. InstanceOK(run)' /\ InstanceOK(inst)'
  BY <1>0, <1>1 DEF InstanceOK, Typed, TypeInv
<1>3. ToksOK(inst.toks, w.top) /\ LoopsOK(inst.multi, w.top)
  BY <1>0, BelowTop, OKLarger DEF Below
<1>4. ASSUME NEW c \in Clients
      PROVE  /\ calls'[c].id <= w.top /\ calls'[c].rec.tok <= w.top
             /\ calls'[c] = Idle \/ IsCall(calls'[c])
  <2>1. CASE calls'[c] = Idle
    BY <1>0, <2>1 DEF Idle, NewRecord
  <2>2. CASE calls'[c] = calls[c] /\ calls[c] # Idle
    <3>1. IsCall(calls[c])
      BY <2>2 DEF TypeInv
    <3>2. calls[c].id \in Nat /\ calls[c].rec.tok \in Nat
      BY <3>1 DEF IsCall, Record
    <3>3. calls[c].id <= Top /\ calls[c].rec.tok <= Top
      BY BelowTop DEF Below
    <3>4. calls[c].id <= w.top /\ calls[c].rec.tok <= w.top
      BY <1>0, <3>2, <3>3
    <3> QED BY <2>2, <3>1, <3>4
  <2> QED BY <1>4, <2>1, <2>2 DEF CallsKept
<1>5. Below(w.top)'
  BY <1>0, <1>1, <1>3, <1>4 DEF Below, Typed
<1>6. inst'.st # "none" /\ run'.st # "none"
  BY <1>0, <1>1 DEF Typed, RunStates
<1> QED BY <1>0, <1>2, <1>4, <1>5, <1>6 DEF TypeInv, CallsKept

\* The ids of the waits.
LEMMA RefsBelowTop ==
    ASSUME TypeInv
    PROVE  /\ Top \in Nat
           /\ \A t \in DOMAIN inst.toks : inst.toks[t].ref \in 0..Top
           /\ \A t \in DOMAIN run.toks : run.toks[t].ref \in 0..Top
           /\ \A c \in Clients : calls[c].id \in 0..Top
<1>1. Top \in Nat /\ Below(Top)
  BY BelowTop
<1>2. ASSUME NEW c \in Clients PROVE calls[c].id \in Nat
  BY DEF TypeInv, IsCall, Idle
<1> QED BY <1>1, <1>2 DEF Below, ToksOK, TokenOK, Token

\* An operation that works on a copy of the instance keeps the waits.
LEMMA CopyLinked ==
    ASSUME NEW w, NEW S, NEW susp, TypeInv, WaitInv, Good(w, {}, K(S)),
           run' = InstanceOf(w, susp), recs' = w.recs, inst' = inst, CallsKept,
           ClaimedJobs(S) \subseteq ClaimedJobs(Clients)'
    PROVE  WaitInv'
<1> DEFINE k == K(S)
<1>0. /\ Linked(w, {}, k) /\ k.base = World /\ k.claimed = ClaimedJobs(S) /\ k.stays = Stays
      /\ Typed(w)
  BY DEF Good, K
<1>1. /\ World.def = run.def /\ World.toks = run.toks /\ World.recs = recs /\ World.top = Top
  BY WorldFields
<1>2. run'.def = w.def /\ run'.st = w.st /\ run'.toks = w.toks
  BY DEF InstanceOf
<1>3. Stays' = Stays
  BY DEF Stays, Unmigrated
<1> HIDE DEF k
<1>4. /\ w.def = run.def
      /\ \A i \in DOMAIN w.recs : i > Top \/ (i \in DOMAIN recs /\ w.recs[i] = recs[i])
      /\ \A t \in DOMAIN w.toks : WaitKept(w, t, k)
      /\ \A t \in DOMAIN w.toks : Awake(w.toks[t], w.recs, ClaimedJobs(S), Stays)
  BY <1>0, <1>1 DEF Linked, RecsKept
<1>5. run'.def = inst'.def
  BY <1>2, <1>4 DEF WaitInv
<1>6. ASSUME NEW c \in Clients
      PROVE  calls'[c] = calls[c] \/ calls'[c].id = 0
  BY DEF CallsKept, Idle
<1>7. ASSUME NEW toks, Agree(toks), \A t \in DOMAIN toks : toks[t].ref \in 0..Top,
             NEW t \in DOMAIN toks, toks[t].st \in Parked
      PROVE  /\ toks[t].ref # 0
             /\ toks[t].ref \in DOMAIN w.recs => Fits(toks[t], t, w.recs[toks[t].ref], Stays)
             /\ \A c \in Clients : calls'[c].id = toks[t].ref => Fits(toks[t], t, calls'[c].rec, Stays)
             /\ Placed(toks[t], inst.def, Stays)
  <2>1. /\ toks[t].ref # 0
        /\ toks[t].ref \in DOMAIN recs => Fits(toks[t], t, recs[toks[t].ref], Stays)
        /\ \A c \in Clients : calls[c].id = toks[t].ref => Fits(toks[t], t, calls[c].rec, Stays)
        /\ Placed(toks[t], inst.def, Stays)
    BY <1>7 DEF Agree
  <2>2. Top \in Nat /\ toks[t].ref \in Nat /\ ~(toks[t].ref > Top)
    BY <1>7, RefsBelowTop
  <2>3. toks[t].ref \in DOMAIN w.recs => Fits(toks[t], t, w.recs[toks[t].ref], Stays)
    BY <1>4, <2>1, <2>2
  <2>4. ASSUME NEW c \in Clients, calls'[c].id = toks[t].ref
        PROVE  Fits(toks[t], t, calls'[c].rec, Stays)
    BY <1>6, <2>1, <2>4
  <2> QED BY <2>1, <2>3, <2>4
<1>8. Agree(inst.toks)'
  <2>1. Agree(inst.toks) /\ \A t \in DOMAIN inst.toks : inst.toks[t].ref \in 0..Top
    BY RefsBelowTop DEF WaitInv
  <2>2. ASSUME NEW t \in DOMAIN inst.toks, inst.toks[t].st \in Parked
        PROVE  /\ inst.toks[t].ref # 0
               /\ inst.toks[t].ref \in DOMAIN recs' => Fits(inst.toks[t], t, recs'[inst.toks[t].ref], Stays)
               /\ \A c \in Clients : calls'[c].id = inst.toks[t].ref =>
                     Fits(inst.toks[t], t, calls'[c].rec, Stays)
               /\ Placed(inst.toks[t], inst.def, Stays)
    BY <1>7, <2>1, <2>2
  <2> QED BY <1>3, <2>2 DEF Agree
<1>9. Agree(run.toks)'
  <2>1. ASSUME NEW t \in DOMAIN w.toks, w.toks[t].st \in Parked
        PROVE  /\ w.toks[t].ref # 0
               /\ w.toks[t].ref \in DOMAIN recs' => Fits(w.toks[t], t, recs'[w.toks[t].ref], Stays)
               /\ \A c \in Clients : calls'[c].id = w.toks[t].ref =>
                     Fits(w.toks[t], t, calls'[c].rec, Stays)
               /\ Placed(w.toks[t], inst.def, Stays)
    <3>1. /\ \/ w.toks[t].ref > Top
             \/ t \in DOMAIN run.toks /\ SameWait(w.toks[t], run.toks[t])
          /\ w.toks[t].ref \in DOMAIN w.recs => Fits(w.toks[t], t, w.recs[w.toks[t].ref], Stays)
          /\ Placed(w.toks[t], w.def, Stays)
      BY <1>0, <1>1, <1>4, <2>1 DEF WaitKept
    <3>2. CASE w.toks[t].ref > Top
      <4>1. Top \in Nat /\ \A c \in Clients : calls'[c].id \in 0..Top
        <5>1. Top \in Nat /\ \A c \in Clients : calls[c].id \in 0..Top
          BY RefsBelowTop
        <5> QED BY <1>6, <5>1
      <4>2. w.toks[t].ref \in Nat
        BY <1>0 DEF Typed, ToksOK, TokenOK, Token
      <4>3. \A c \in Clients : calls'[c].id # w.toks[t].ref
        BY <3>2, <4>1, <4>2
      <4>4. w.toks[t].ref # 0
        BY <3>2, <4>1, <4>2
      <4> QED BY <1>4, <3>1, <4>3, <4>4 DEF WaitInv
    <3>3. CASE t \in DOMAIN run.toks /\ SameWait(w.toks[t], run.toks[t])
      <4>1. Agree(run.toks) /\ (\A u \in DOMAIN run.toks : run.toks[u].ref \in 0..Top)
        BY RefsBelowTop DEF WaitInv
      <4>2. t \in DOMAIN run.toks /\ run.toks[t].st \in Parked /\ run.toks[t].st = w.toks[t].st
            /\ run.toks[t].ref = w.toks[t].ref /\ run.toks[t].el = w.toks[t].el
        BY <2>1, <3>3 DEF SameWait
      <4>3. /\ run.toks[t].ref # 0
            /\ \A c \in Clients : calls'[c].id = run.toks[t].ref =>
                  Fits(run.toks[t], t, calls'[c].rec, Stays)
        BY <1>7, <4>1, <4>2
      <4>4. \A c \in Clients : calls'[c].id = w.toks[t].ref => Fits(w.toks[t], t, calls'[c].rec, Stays)
        BY <4>2, <4>3 DEF Fits
      <4> QED BY <1>4, <3>1, <4>2, <4>3, <4>4 DEF WaitInv
    <3> QED BY <3>1, <3>2, <3>3
  <2> QED BY <1>2, <1>3, <2>1 DEF Agree
<1>10. \A t \in DOMAIN run'.toks : Awake(run'.toks[t], recs', ClaimedJobs(Clients)', Stays')
  BY <1>2, <1>3, <1>4 DEF Awake
<1> QED BY <1>5, <1>8, <1>9, <1>10 DEF WaitInv

\* What the operations keep.
Inv == LockInv /\ TypeInv /\ WaitInv

\* An operation that works on a copy keeps types and waits, if the callers in S
\* keep their claims.
LEMMA CopyKept ==
    ASSUME NEW w, NEW S \in SUBSET Clients, NEW susp \in BOOLEAN, TypeInv, WaitInv,
           Good(w, {}, K(S)), inst.st # "none", run' = InstanceOf(w, susp), recs' = w.recs,
           inst' = inst, CallsKept, \A c \in S : calls'[c] = calls[c]
    PROVE  TypeInv' /\ WaitInv'
<1>1. TypeInv'
  BY CopyTyped
<1>2. ClaimedJobs(S) \subseteq ClaimedJobs(Clients)'
  BY ClaimsKept
<1>3. WaitInv'
  BY <1>2, CopyLinked
<1> QED BY <1>1, <1>3

------------------------------------------------------------------------------
\* The steps of drain.

\* Beginning an activity leaves its token where it is.
LEMMA BeginFields ==
    ASSUME NEW w, NEW t \in DOMAIN w.toks, NEW bad, IsWorld(w), w.toks[t] \in Token
    PROVE  /\ DOMAIN Begin(w, t, bad).toks = DOMAIN w.toks
           /\ Begin(w, t, bad).def = w.def
           /\ Begin(w, t, bad).toks[t].el = w.toks[t].el
<1> DEFINE v == RegisterWaits(w, t, Awaited(w.toks[t].el), bad)
<1>1. Begin(w, t, bad) \in {w, v}
  BY DEF Begin
<1>2. DOMAIN v.toks = DOMAIN w.toks /\ v.def = w.def /\ v.toks[t].el = w.toks[t].el
  BY RegisterWaitsFields
<1> HIDE DEF v
<1> QED BY <1>1, <1>2

\* The world of a step, and the token that takes it.
LEMMA StepWorld ==
    ASSUME Inv, Draining, NEW bad
    PROVE  /\ Good(World, {}, K(Clients)) /\ Next1 \in DOMAIN World.toks
           /\ Good(Begin(World, Next1, bad), {}, K(Clients))
           /\ DOMAIN Begin(World, Next1, bad).toks = DOMAIN World.toks
           /\ Begin(World, Next1, bad).toks[Next1].el = World.toks[Next1].el
           /\ Begin(World, Next1, bad).def = World.def
           /\ World.toks = run.toks
<1>1. up /\ run.st = "active" /\ ActiveTokens # {} /\ TypeInv /\ WaitInv
  BY DEF Inv, Draining
<1>2. Good(World, {}, K(Clients))
  BY <1>1, StepWorldGood
<1>3. World.toks = run.toks
  BY WorldFields
<1>4. DOMAIN run.toks \subseteq Nat
  BY <1>1, BelowTop DEF Below, ToksOK
<1>5. ActiveTokens \in SUBSET Nat
  BY <1>4 DEF ActiveTokens
<1>6. Next1 \in ActiveTokens
  BY <1>1, <1>5, MinIsLeast DEF Next1
<1>7. Next1 \in DOMAIN World.toks
  BY <1>3, <1>6 DEF ActiveTokens
<1>8. Good(Begin(World, Next1, bad), {}, K(Clients))
  <2> HIDE DEF Next1
  <2> QED BY <1>2, <1>7, BeginGood
<1>9. /\ DOMAIN Begin(World, Next1, bad).toks = DOMAIN World.toks
      /\ Begin(World, Next1, bad).toks[Next1].el = World.toks[Next1].el
      /\ Begin(World, Next1, bad).def = World.def
  <2> DEFINE W == World
             t == Next1
             k == K(Clients)
             X == {}
  <2>1. Good(W, X, k) /\ t \in DOMAIN W.toks
    BY <1>2, <1>7
  <2> HIDE DEF W, t, k, X
  <2> DEFINE V == Begin(W, t, bad)
  <2>2. IsWorld(W) /\ W.toks[t] \in Token
    BY <2>1, AtElement DEF Good, Typed
  <2>3. DOMAIN V.toks = DOMAIN W.toks /\ V.def = W.def /\ V.toks[t].el = W.toks[t].el
    BY <2>1, <2>2, BeginFields
  <2> QED BY <2>3 DEF W, t
<1> QED BY <1>2, <1>3, <1>7, <1>8, <1>9

\* A step that leads to a good world keeps types and waits.
LEMMA SteppedKept ==
    ASSUME NEW w, Inv, Draining, Stepped(w), Good(w, {}, K(Clients))
    PROVE  TypeInv' /\ WaitInv'
<1>1. TypeInv /\ WaitInv /\ LockInv /\ locked
  BY DEF Inv, Draining
<1>2. inst.st # "none" /\ run.susp \in BOOLEAN
  BY <1>1 DEF LockInv, TypeInv, InstanceOK
<1>3. /\ run' = InstanceOf(w, run.susp) /\ recs' = w.recs /\ inst' = inst
      /\ calls' = calls /\ UNCHANGED <<up, locked, ops, crashes>>
  BY DEF Stepped, Becomes
<1>4. CallsKept
  BY <1>1, <1>3 DEF CallsKept, TypeInv
<1>5. Clients \in SUBSET Clients /\ \A c \in Clients : calls'[c] = calls[c]
  BY <1>3
<1> QED BY <1>1, <1>2, <1>3, <1>4, <1>5, CopyKept

\* Every step of drain keeps types and waits: events, gateways and loops.
LEMMA RoutingKept ==
    ASSUME Inv, NEW yes, NEW bad,
           \/ StepEvent(yes) \/ StepEndEvent(yes) \/ StepExclusiveGateway(yes)
           \/ StepInclusiveGateway(yes) \/ StepMultiInstance(yes, bad)
           \/ StepParallelGateway \/ StepEventBasedGateway(bad)
           \/ StepInputFails \/ StepUnknownElement
    PROVE  TypeInv' /\ WaitInv'
<1>0. Draining
  BY DEF StepEvent, StepEndEvent, StepExclusiveGateway, StepInclusiveGateway, StepMultiInstance,
         StepParallelGateway, StepEventBasedGateway, StepInputFails, StepUnknownElement, At
<1> DEFINE W == World
           t == Next1
           k == K(Clients)
<1>1. Good(W, {}, k) /\ t \in DOMAIN W.toks /\ W.toks = run.toks
  BY <1>0, StepWorld
<1>2. \A w : Stepped(w) /\ Good(w, {}, k) => TypeInv' /\ WaitInv'
  BY <1>0, SteppedKept
<1>3. {} \subseteq {} \cup {t}
  OBVIOUS
<1> HIDE DEF W, t, k
<1>4. ASSUME StepEvent(yes) PROVE Stepped(TakeOutgoing(W, t, yes))
  BY <1>4 DEF StepEvent, W, t
<1>5. Good(TakeOutgoing(W, t, yes), {}, k)
  BY <1>1, <1>3, TakeOutgoingGood
<1>6. ASSUME StepEndEvent(yes) PROVE Stepped(EndEvent(W, t, yes))
  BY <1>6 DEF StepEndEvent, W, t
<1>7. Good(EndEvent(W, t, yes), {}, k)
  BY <1>1, EndEventGood
<1>8. ASSUME StepExclusiveGateway(yes) PROVE Stepped(Follow(W, t, FirstFlow(run.toks[t].el, yes)))
  BY <1>8 DEF StepExclusiveGateway, W, t
<1>9. Good(Follow(W, t, FirstFlow(run.toks[t].el, yes)), {}, k)
  <2> DEFINE F == FirstFlow(run.toks[t].el, yes)
  <2>1. run.toks[t].el \in Elements
    BY <1>1, AtElement
  <2>2. F \in SUBSET Flows
    BY <2>1, FlowsTakenOK
  <2> HIDE DEF F
  <2>3. Good(Follow(W, t, F), {}, k)
    BY <1>1, <1>3, <2>2, FollowGood
  <2> QED BY <2>3 DEF F
<1>10. ASSUME StepInclusiveGateway(yes) PROVE Stepped(InclusiveGateway(W, t, yes))
  BY <1>10 DEF StepInclusiveGateway, W, t
<1>11. Good(InclusiveGateway(W, t, yes), {}, k)
  BY <1>1, InclusiveGatewayGood
<1>12. ASSUME StepParallelGateway PROVE Stepped(ParallelGateway(W, t))
  BY <1>12 DEF StepParallelGateway, W, t
<1>13. Good(ParallelGateway(W, t), {}, k)
  BY <1>1, ParallelGatewayGood
<1>14. ASSUME StepEventBasedGateway(bad) PROVE Stepped(EventBasedGateway(W, t, bad))
  BY <1>14 DEF StepEventBasedGateway, W, t
<1>15. Good(EventBasedGateway(W, t, bad), {}, k)
  BY <1>1, EventBasedGatewayGood
<1>16. ASSUME StepMultiInstance(yes, bad)
       PROVE  \/ \E n \in 0..MaxItems : Stepped(StartMultiInstance(W, t, n, yes, bad))
              \/ Stepped(RaiseIncident(W, t))
  BY <1>16 DEF StepMultiInstance, W, t
<1>17. ASSUME NEW n \in 0..MaxItems PROVE Good(StartMultiInstance(W, t, n, yes, bad), {}, k)
  <2>1. n \in Nat
    BY EngineAssumption
  <2> QED BY <1>1, <1>3, <2>1, StartMultiInstanceGood
<1>18. Good(RaiseIncident(W, t), {}, k)
  BY <1>1, <1>3, RaiseIncidentGood
<1>19. ASSUME StepInputFails \/ StepUnknownElement PROVE Stepped(RaiseIncident(W, t))
  BY <1>19 DEF StepInputFails, StepUnknownElement, W, t
<1> QED BY <1>2, <1>4, <1>5, <1>6, <1>7, <1>8, <1>9, <1>10, <1>11, <1>12, <1>13, <1>14, <1>15,
           <1>16, <1>17, <1>18, <1>19

\* ... and activities.
LEMMA ActivityKept ==
    ASSUME Inv, NEW yes, NEW bad,
           \/ StepServiceTask(yes, bad) \/ StepInvokeAgent(yes, bad)
           \/ StepCatch(bad) \/ StepReceiveTask(bad) \/ StepUserTask(bad) \/ StepExternalTask(bad)
           \/ StepServiceTaskFails(bad) \/ StepServiceTaskThrows(bad) \/ StepOverBudget(bad)
           \/ StepAgentTask(bad) \/ StepSubProcess(bad)
    PROVE  TypeInv' /\ WaitInv'
<1>0. Draining /\ Known(World, Next1)
  BY DEF StepServiceTask, StepInvokeAgent, StepCatch, StepReceiveTask, StepUserTask,
         StepExternalTask, StepServiceTaskFails, StepServiceTaskThrows, StepOverBudget,
         StepAgentTask, StepSubProcess, At
<1> DEFINE W == World
           B == Begin(World, Next1, bad)
           t == Next1
           k == K(Clients)
<1>1. /\ Good(W, {}, k) /\ t \in DOMAIN W.toks /\ W.toks = run.toks
      /\ Good(B, {}, k) /\ t \in DOMAIN B.toks /\ B.toks[t].el = W.toks[t].el /\ B.def = W.def
      /\ Known(W, t)
  BY <1>0, StepWorld
<1>2. \A w : Stepped(w) /\ Good(w, {}, k) => TypeInv' /\ WaitInv'
  BY <1>0, SteppedKept
<1>3. {} \subseteq {} \cup {t}
  OBVIOUS
<1> HIDE DEF W, B, t, k
<1>4. RootOf[W.toks[t].el] = W.def /\ RootOf[B.toks[t].el] = B.def
  <2>1. RootOf[W.toks[t].el] = W.def
    BY <1>1, KnownRoot
  <2> QED BY <1>1, <2>1
<1>5. ASSUME StepServiceTask(yes, bad) PROVE Stepped(CompleteActivity(B, t, yes))
  BY <1>5 DEF StepServiceTask, B, t
<1>6. Good(CompleteActivity(B, t, yes), {}, k)
  BY <1>1, <1>3, CompleteActivityGood
<1>7. ASSUME StepInvokeAgent(yes, bad)
      PROVE  \E use \in 0..1, accepted \in BOOLEAN : Stepped(AgentResult(B, t, use, accepted, yes))
  BY <1>7 DEF StepInvokeAgent, B, t
<1>8. ASSUME NEW use \in 0..1, NEW accepted \in BOOLEAN
      PROVE  Good(AgentResult(B, t, use, accepted, yes), {}, k)
  <2>1. use \in Nat
    OBVIOUS
  <2> QED BY <1>1, <1>3, <2>1, AgentResultGood
<1>9. ASSUME StepCatch(bad) PROVE Stepped(Await(W, t, bad)) /\ Type(W.toks[t].el) \in {"catch", "receive"}
  <2>1. Type(run.toks[t].el) = "catch"
    BY <1>9 DEF StepCatch, At, t
  <2> QED BY <1>1, <1>9, <2>1 DEF StepCatch, W, t
<1>10. ASSUME Type(W.toks[t].el) \in {"catch", "receive"} PROVE Good(Await(W, t, bad), {}, k)
  BY <1>1, <1>4, <1>10, AwaitGood
<1>11. ASSUME StepReceiveTask(bad)
       PROVE  Stepped(Await(B, t, bad)) /\ Type(B.toks[t].el) \in {"catch", "receive"}
  <2>1. Type(run.toks[t].el) = "receive"
    BY <1>11 DEF StepReceiveTask, At, t
  <2> QED BY <1>1, <1>11, <2>1 DEF StepReceiveTask, B, t
<1>12. ASSUME Type(B.toks[t].el) \in {"catch", "receive"} PROVE Good(Await(B, t, bad), {}, k)
  BY <1>1, <1>4, <1>12, AwaitGood
<1>13. ASSUME StepUserTask(bad) PROVE Stepped(AwaitWorker(B, t, "task"))
  BY <1>13 DEF StepUserTask, B, t
<1>14. ASSUME StepExternalTask(bad) PROVE Stepped(AwaitWorker(B, t, "external"))
  BY <1>14 DEF StepExternalTask, B, t
<1>15. Good(AwaitWorker(B, t, "task"), {}, k) /\ Good(AwaitWorker(B, t, "external"), {}, k)
  <2>1. ASSUME NEW kind \in {"task", "external", "agent"} PROVE Good(AwaitWorker(B, t, kind), {}, k)
    BY <1>1, <1>3, AwaitWorkerGood
  <2> QED BY <2>1
<1>16. ASSUME StepServiceTaskFails(bad) PROVE Stepped(HandleActivityFailure(B, t))
  BY <1>16 DEF StepServiceTaskFails, B, t
<1>17. Good(HandleActivityFailure(B, t), {}, k)
  BY <1>1, <1>3, HandleActivityFailureGood
<1>18. ASSUME StepServiceTaskThrows(bad) PROVE Stepped(ThrowError(B, t))
  BY <1>18 DEF StepServiceTaskThrows, B, t
<1>19. Good(ThrowError(B, t), {}, k)
  BY <1>1, <1>3, ThrowErrorGood
<1>20. ASSUME StepOverBudget(bad) PROVE Stepped(RaiseIncident(B, t))
  BY <1>20 DEF StepOverBudget, B, t
<1>21. Good(RaiseIncident(B, t), {}, k)
  BY <1>1, <1>3, RaiseIncidentGood
<1>22. ASSUME StepAgentTask(bad) PROVE Stepped(AgentTask(B, t))
  BY <1>22 DEF StepAgentTask, B, t
<1>23. Good(AgentTask(B, t), {}, k)
  BY <1>1, AgentTaskGood
<1>24. ASSUME StepSubProcess(bad) PROVE Stepped(EnterSubProcess(B, t, bad))
  BY <1>24 DEF StepSubProcess, B, t
<1>25. Good(EnterSubProcess(B, t, bad), {}, k)
  BY <1>1, EnterSubProcessGood
<1> QED BY <1>2, <1>5, <1>6, <1>7, <1>8, <1>9, <1>10, <1>11, <1>12, <1>13, <1>14, <1>15,
           <1>16, <1>17, <1>18, <1>19, <1>20, <1>21, <1>22, <1>23, <1>24, <1>25

\* drain keeps types and waits.
LEMMA StepKept ==
    ASSUME Inv, Step
    PROVE  TypeInv' /\ WaitInv'
  BY RoutingKept, ActivityKept DEF Step

------------------------------------------------------------------------------
\* The operations that callers wait for.

\* An operation that leads to a good world keeps types and waits.
LEMMA ServedKept ==
    ASSUME NEW c \in Clients, NEW kinds, NEW op, NEW w, Inv, Serve(c, kinds, op, w),
           Good(w, {}, K(Clients \ {c}))
    PROVE  TypeInv' /\ WaitInv'
<1>1. TypeInv /\ WaitInv /\ LockInv
  BY DEF Inv
<1>2. /\ inst.st = "active" /\ run' = InstanceOf(w, run.susp) /\ recs' = w.recs /\ inst' = inst
      /\ calls' = [calls EXCEPT ![c] = Idle] /\ UNCHANGED <<up, ops, crashes>> /\ locked' = TRUE
  BY DEF Serve, Becomes, Accepted
<1>3. run.susp \in BOOLEAN
  BY <1>1 DEF TypeInv, InstanceOK
<1>4. CallsKept
  BY <1>1, <1>2 DEF CallsKept, TypeInv
<1> DEFINE S == Clients \ {c}
<1>5. S \in SUBSET Clients /\ \A d \in S : calls'[d] = calls[d]
  BY <1>1, <1>2 DEF TypeInv
<1>6. Good(w, {}, K(S)) /\ inst.st # "none"
  BY <1>2
<1> HIDE DEF S
<1> QED BY <1>1, <1>2, <1>3, <1>4, <1>5, <1>6, CopyKept

\* A token that waits for what caller c has read or claimed is the caller's.
LEMMA CallerFits ==
    ASSUME NEW c \in Clients, TypeInv, WaitInv, NEW t \in DOMAIN run.toks,
           run.toks[t].st \in Parked, run.toks[t].ref = calls[c].id
    PROVE  Fits(run.toks[t], t, calls[c].rec, Stays) /\ Placed(run.toks[t], inst.def, Stays)
  BY DEF WaitInv, Agree

\* A token that only the claim of caller c keeps awake is the caller's, and waits
\* for the job.
LEMMA Stranded ==
    ASSUME NEW c \in Clients, TypeInv, WaitInv, up, run.st = "active", NEW t \in DOMAIN run.toks,
           ~Awake(run.toks[t], recs, ClaimedJobs(Clients \ {c}), Stays)
    PROVE  /\ t = Tok(c) /\ run.toks[t].ref = calls[c].id
           /\ \/ run.toks[t].st = "retry" /\ calls[c].rec.kind \in {"async", "retry"}
              \/ /\ run.toks[t].st = "timer" /\ calls[c].rec.kind = "timer"
                 /\ calls[c].rec.el = run.toks[t].el
                 /\ Type(run.toks[t].el) \in {"catch", "receive"} /\ RootOf[run.toks[t].el] = inst.def
<1> DEFINE S == Clients \ {c}
<1>1. Awake(run.toks[t], recs, ClaimedJobs(Clients), Stays)
  BY DEF WaitInv
<1>2. /\ run.toks[t].ref \in ClaimedJobs(Clients) /\ run.toks[t].ref \notin ClaimedJobs(S)
      /\ run.toks[t].st = "retry" \/ (run.toks[t].st = "timer" /\ run.toks[t].el \in Stays)
  <2> DEFINE A == ClaimedJobs(Clients)
             B == ClaimedJobs(S)
  <2>1. Awake(run.toks[t], recs, A, Stays) /\ ~Awake(run.toks[t], recs, B, Stays)
    BY <1>1
  <2> HIDE DEF A, B
  <2>2. run.toks[t].ref \in A /\ run.toks[t].ref \notin B
        /\ (run.toks[t].st = "retry" \/ (run.toks[t].st = "timer" /\ run.toks[t].el \in Stays))
    BY <2>1 DEF Awake
  <2> QED BY <2>2 DEF A, B
<1>3. PICK d \in Clients : /\ calls[d].op = "trigger" /\ calls[d].rec.kind \in JobKinds
                           /\ calls[d].id = run.toks[t].ref
  BY <1>2 DEF ClaimedJobs
<1>4. d = c
  BY <1>2, <1>3 DEF ClaimedJobs
<1>5. run.toks[t].st \in Parked
  BY <1>2 DEF Parked
<1>6. Fits(run.toks[t], t, calls[c].rec, Stays) /\ Placed(run.toks[t], inst.def, Stays)
  BY <1>3, <1>4, <1>5, CallerFits
<1> QED BY <1>2, <1>3, <1>4, <1>6 DEF Fits, Placed, Tok

\* Without the claim of caller c only its token may be stranded.
LEMMA ServeWorld ==
    ASSUME NEW c \in Clients, Inv, up, run.st = "active"
    PROVE  /\ Good(World, {Tok(c)}, K(Clients \ {c}))
           /\ calls[c].rec.kind \in {"task", "external", "agent", "sub", "incident"}
              \/ (calls[c].rec.kind = "timer" /\ Type(calls[c].rec.el) \notin {"catch", "receive"})
              => Good(World, {}, K(Clients \ {c}))
<1> DEFINE S == Clients \ {c}
<1>0. TypeInv /\ WaitInv
  BY DEF Inv
<1>1. ASSUME NEW t \in DOMAIN run.toks,
             ~Awake(run.toks[t], recs, ClaimedJobs(S), Stays)
      PROVE  /\ t = Tok(c) /\ calls[c].rec.kind \in {"timer", "async", "retry"}
             /\ calls[c].rec.kind = "timer" => Type(calls[c].rec.el) \in {"catch", "receive"}
  BY <1>0, <1>1, Stranded
<1> HIDE DEF S
<1>2. \A t \in DOMAIN run.toks \ {Tok(c)} : Awake(run.toks[t], recs, ClaimedJobs(S), Stays)
  BY <1>1
<1>3. Good(World, {Tok(c)}, K(S))
  <2> DEFINE X == {Tok(c)}
  <2>1. \A t \in DOMAIN run.toks \ X : Awake(run.toks[t], recs, ClaimedJobs(S), Stays)
    BY <1>2
  <2> HIDE DEF X
  <2>2. Good(World, X, K(S))
    BY <1>0, <2>1, WorldGood
  <2> QED BY <2>2 DEF X
<1>4. ASSUME \/ calls[c].rec.kind \in {"task", "external", "agent", "sub", "incident"}
             \/ calls[c].rec.kind = "timer" /\ Type(calls[c].rec.el) \notin {"catch", "receive"}
      PROVE  Good(World, {}, K(S))
  <2>1. \A t \in DOMAIN run.toks \ {} : Awake(run.toks[t], recs, ClaimedJobs(S), Stays)
    BY <1>1, <1>4
  <2> QED BY <1>0, <2>1, WorldGood
<1> QED BY <1>3, <1>4 DEF S

\* The same when the caller's record is closed.
LEMMA ClosedGood ==
    ASSUME NEW c \in Clients, Inv, up, run.st = "active",
           calls[c].rec.kind \in {"task", "external", "agent", "incident"}
    PROVE  /\ Good(Closed(c), {Tok(c)}, K(Clients \ {c}))
           /\ calls[c].rec.kind = "incident" => Good(Closed(c), {}, K(Clients \ {c}))
           /\ Closed(c).toks = run.toks
<1> DEFINE W == World
           k == K(Clients \ {c})
           D == {calls[c].id}
<1>0. TypeInv /\ WaitInv
  BY DEF Inv
<1>1. Good(W, {}, k)
  BY ServeWorld
<1>2. W.toks = run.toks /\ IsWorld(W)
  BY WorldFields
<1>3. Closed(c) = [W EXCEPT !.recs = Without(@, D)]
  BY DEF Closed
<1>4. ASSUME NEW t \in DOMAIN W.toks, W.toks[t].st \in Parked, W.toks[t].ref \in D
      PROVE  t = Tok(c) /\ calls[c].rec.kind # "incident"
  <2>1. Fits(run.toks[t], t, calls[c].rec, Stays)
    BY <1>0, <1>2, <1>4, CallerFits
  <2> QED BY <1>2, <1>4, <2>1 DEF Fits, Tok, Parked
<1> HIDE DEF W, k, D
<1>5. Good([W EXCEPT !.recs = Without(@, D)], {Tok(c)}, k)
  <2> DEFINE Y == {Tok(c)}
  <2>1. \A t \in DOMAIN W.toks \ Y : t \notin {} /\
           (W.toks[t].st \in Parked /\ W.toks[t].ref \in DOMAIN W.recs => W.toks[t].ref \notin D)
    BY <1>4
  <2> HIDE DEF Y
  <2>2. Good([W EXCEPT !.recs = Without(@, D)], Y, k)
    BY <1>1, <2>1, DropRecsGood
  <2> QED BY <2>2 DEF Y
<1>6. ASSUME calls[c].rec.kind = "incident" PROVE Good([W EXCEPT !.recs = Without(@, D)], {}, k)
  <2>1. \A t \in DOMAIN W.toks \ {} : t \notin {} /\
           (W.toks[t].st \in Parked /\ W.toks[t].ref \in DOMAIN W.recs => W.toks[t].ref \notin D)
    BY <1>4, <1>6
  <2> QED BY <1>1, <2>1, DropRecsGood
<1>7. [W EXCEPT !.recs = Without(@, D)].toks = W.toks
  BY <1>2 DEF IsWorld
<1> QED BY <1>2, <1>3, <1>5, <1>6, <1>7 DEF k

\* What a caller finds when it gets the lock.
LEMMA ServeFinds ==
    ASSUME NEW c \in Clients, NEW kinds, NEW op, NEW w, Inv, Serve(c, kinds, op, w)
    PROVE  /\ up /\ ~locked /\ run = inst /\ run.st = "active" /\ Accepted(calls[c])
           /\ calls[c].rec.kind \in kinds /\ calls[c].op = op
  BY DEF Serve, Accepted, Inv, LockInv

\* Completions and failures of tasks, retries and incidents keep types and waits.
LEMMA TaskAnswerKept ==
    ASSUME NEW c \in Clients, NEW yes, Inv,
           Complete(c, yes) \/ CompleteAgentJob(c, yes) \/ FailWithError(c)
    PROVE  TypeInv' /\ WaitInv'
<1> DEFINE W == Closed(c)
           t == Tok(c)
           k == K(Clients \ {c})
<1>1. /\ up /\ run = inst /\ run.st = "active"
      /\ Accepted(calls[c]) /\ calls[c].rec.kind \in {"task", "external", "agent"}
  <2>1. CASE Complete(c, yes)
    BY <2>1, ServeFinds DEF Complete
  <2>2. CASE CompleteAgentJob(c, yes)
    BY <2>2, ServeFinds DEF CompleteAgentJob
  <2>3. CASE FailWithError(c)
    BY <2>3, ServeFinds DEF FailWithError
  <2> QED BY <2>1, <2>2, <2>3
<1>2. t \in DOMAIN run.toks
  BY <1>1 DEF Accepted, StillWaits, Tok
<1>3. Good(W, {t}, k) /\ W.toks = run.toks
  BY <1>1, ClosedGood
<1>4. \A kinds, op, w : Serve(c, kinds, op, w) /\ Good(w, {}, k) => TypeInv' /\ WaitInv'
  BY ServedKept
<1>5. {t} \subseteq {} \cup {t}
  OBVIOUS
<1> HIDE DEF W, t, k
<1>6. ASSUME Complete(c, yes) PROVE \E kinds, op : Serve(c, kinds, op, CompleteActivity(W, t, yes))
  BY <1>6 DEF Complete, W, t
<1>7. Good(CompleteActivity(W, t, yes), {}, k)
  BY <1>2, <1>3, <1>5, CompleteActivityGood
<1>8. ASSUME CompleteAgentJob(c, yes)
      PROVE  \E use \in 0..1, accepted \in BOOLEAN : \E kinds, op :
                 Serve(c, kinds, op, AgentResult(W, t, use, accepted, yes))
  BY <1>8 DEF CompleteAgentJob, W, t
<1>9. ASSUME NEW use \in 0..1, NEW accepted \in BOOLEAN
      PROVE  Good(AgentResult(W, t, use, accepted, yes), {}, k)
  <2>1. use \in Nat
    OBVIOUS
  <2> QED BY <1>2, <1>3, <1>5, <2>1, AgentResultGood
<1>10. ASSUME FailWithError(c) PROVE \E kinds, op : Serve(c, kinds, op, ThrowError(W, t))
  BY <1>10 DEF FailWithError, W, t
<1>11. Good(ThrowError(W, t), {}, k)
  BY <1>2, <1>3, <1>5, ThrowErrorGood
<1> QED BY <1>4, <1>6, <1>7, <1>8, <1>9, <1>10, <1>11

\* A job of an async continuation or a retry runs, and an incident is resolved.
LEMMA ResumeAnswerKept ==
    ASSUME NEW c \in Clients, Inv, RunJob(c) \/ ResolveIncident(c)
    PROVE  TypeInv' /\ WaitInv'
<1> DEFINE W == World
           C == Closed(c)
           t == Tok(c)
           k == K(Clients \ {c})
<1>0. "active" \in TokenStates \ Parked
  BY DEF TokenStates, Parked
<1>1. \A kinds, op, w : Serve(c, kinds, op, w) /\ Good(w, {}, k) => TypeInv' /\ WaitInv'
  BY ServedKept
<1>2. {t} \subseteq {} \cup {t} /\ {} \subseteq {} \cup {t}
  OBVIOUS
<1>3. CASE RunJob(c)
  <2>1. /\ up /\ run = inst /\ run.st = "active"
        /\ Accepted(calls[c]) /\ calls[c].rec.kind \in {"async", "retry"}
    BY <1>3, ServeFinds DEF RunJob
  <2>2. t \in DOMAIN run.toks
    BY <2>1 DEF Accepted, StillWaits, Tok
  <2>3. Good(W, {t}, k) /\ W.toks = run.toks
    BY <2>1, ServeWorld, WorldFields
  <2>4. \E kinds, op : Serve(c, kinds, op, Resumed(W, t, "active"))
    BY <1>3 DEF RunJob, Resumed
  <2> HIDE DEF W, t, k
  <2>5. Good(Resumed(W, t, "active"), {}, k)
    BY <1>0, <1>2, <2>2, <2>3, ResumeGood
  <2> QED BY <1>1, <2>4, <2>5
<1>4. CASE ResolveIncident(c)
  <2>1. up /\ run = inst /\ run.st = "active" /\ calls[c].rec.kind = "incident"
    BY <1>4, ServeFinds DEF ResolveIncident
  <2>2. Good(C, {}, k)
    BY <2>1, ClosedGood
  <2>3. \E kinds, op : \/ Serve(c, kinds, op, C)
                       \/ t \in DOMAIN C.toks /\ Serve(c, kinds, op, Resumed(C, t, "active"))
    BY <1>4 DEF ResolveIncident, Resumed
  <2> HIDE DEF C, t, k
  <2>4. ASSUME t \in DOMAIN C.toks PROVE Good(Resumed(C, t, "active"), {}, k)
    BY <1>0, <1>2, <2>2, <2>4, ResumeGood
  <2> QED BY <1>1, <2>2, <2>3, <2>4
<1> QED BY <1>3, <1>4

\* A timer that fires or a message that arrives keeps types and waits.
LEMMA TriggerKept ==
    ASSUME NEW c \in Clients, NEW yes, Inv, Trigger(c, yes)
    PROVE  TypeInv' /\ WaitInv'
<1> DEFINE W == World
           r == calls[c].rec
           i == calls[c].id
           k == K(Clients \ {c})
           v == EventTriggered(W, r, i, yes)
<1>0. TypeInv /\ WaitInv
  BY DEF Inv
<1>1. /\ up /\ run = inst /\ run.st = "active" /\ Accepted(calls[c])
      /\ r.kind \in {"timer", "sub"} /\ calls[c].op = "trigger"
  BY ServeFinds DEF Trigger
<1>2. Triggers(W, r)
  BY <1>1 DEF Accepted
<1>3. r \in Record /\ r.el \in Elements
  <2>1. calls[c] # Idle
    BY <1>1 DEF Idle
  <2> QED BY <1>0, <2>1 DEF TypeInv, IsCall, Record
<1>4. Good(W, {r.tok}, k)
  BY <1>1, ServeWorld DEF Tok
<1>5. Type(r.el) \in {"boundary", "start"} => Good(W, {}, k)
  BY <1>1, ServeWorld
<1>6. \E kinds, op : Serve(c, kinds, op, v)
  BY DEF Trigger
<1>7. ASSUME Good(v, {}, k) PROVE TypeInv' /\ WaitInv'
  BY <1>6, <1>7, ServedKept
<1>8. ASSUME NEW t \in DOMAIN W.toks, W.toks[t].ref = i, Type(r.el) = "start"
      PROVE  \/ W.toks[t].st \notin Parked
             \/ W.toks[t].st = "timer" /\ W.toks[t].el \notin k.stays
  <2>1. W.toks = run.toks /\ k.stays = Stays
    BY WorldFields DEF K
  <2>2. SUFFICES ASSUME run.toks[t].st \in Parked
                 PROVE  run.toks[t].st = "timer" /\ run.toks[t].el \notin Stays
    BY <2>1
  <2>3. Fits(run.toks[t], t, r, Stays) /\ Placed(run.toks[t], inst.def, Stays)
    BY <1>0, <1>8, <2>1, <2>2, CallerFits
  <2>4. run.toks[t].st = "timer"
    BY <1>1, <2>2, <2>3 DEF Fits, Parked
  <2> QED BY <1>8, <2>3, <2>4 DEF Fits, Placed
<1> HIDE DEF W, r, i, k
<1>9. CASE Type(r.el) = "boundary"
  <2>1. v = BoundaryTriggered(W, r.tok, r.el)
    BY <1>9 DEF EventTriggered
  <2>2. r.tok \in DOMAIN W.toks
    BY <1>2, <1>9 DEF Triggers
  <2>3. Good(BoundaryTriggered(W, r.tok, r.el), {}, k)
    BY <1>3, <1>5, <1>9, <2>2, BoundaryTriggeredGood
  <2> QED BY <1>7, <2>1, <2>3
<1>10. CASE Type(r.el) = "start"
  <2>1. v = EventSubprocessTriggered(W, r.tok, r.el, i)
    BY <1>10 DEF EventTriggered
  <2>2. r.tok \in DOMAIN W.toks \cup {0} /\ Node[r.el].in \in Elements
    BY <1>2, <1>10 DEF Triggers, Found, InEventSubprocess
  <2>3. Good(EventSubprocessTriggered(W, r.tok, r.el, i), {}, k)
    BY <1>3, <1>5, <1>8, <1>10, <2>2, EventSubprocessTriggeredGood
  <2> QED BY <1>7, <2>1, <2>3
<1>11. CASE Type(r.el) \notin {"boundary", "start"}
  <2>1. r.tok \in DOMAIN W.toks
    BY <1>2, <1>11 DEF Triggers
  <2>2. {r.tok} \subseteq {} \cup {r.tok}
    OBVIOUS
  <2>3. Good(EventTriggered(W, r, i, yes), {}, k)
    <3> DEFINE X == {r.tok}
    <3>1. Good(W, X, k) /\ X \subseteq {} \cup {r.tok}
      BY <1>4
    <3> HIDE DEF X
    <3> QED BY <1>3, <1>11, <2>1, <3>1, EventTriggeredGood
  <2> QED BY <1>7, <2>3
<1> QED BY <1>9, <1>10, <1>11

------------------------------------------------------------------------------
\* Operations that move no token.

\* Record a stands for what record b stands for.
Alike(a, b) == a.kind = b.kind /\ a.tok = b.tok /\ (b.el \in Stays => a.el = b.el)

\* Tokens and loops stay what they are, callers pick up records or go, and a
\* record was there before, is put back by a caller, or is new (and at most n).
Settles(n) ==
    /\ up' \in BOOLEAN /\ locked' \in BOOLEAN
    /\ InstanceOK(inst') /\ inst'.def = inst.def /\ inst'.st \in {inst.st, run.st}
    /\ inst'.toks \in {inst.toks, run.toks} /\ inst'.multi \in {inst.multi, run.multi}
    /\ InstanceOK(run') /\ run'.def = inst.def /\ run'.st \in {inst.st, run.st}
    /\ run'.toks \in {inst.toks, run.toks} /\ run'.multi \in {inst.multi, run.multi}
    /\ DOMAIN calls' = Clients
    /\ \A c \in Clients :
          \/ calls'[c] = calls[c]
          \/ calls'[c] = Idle
          \/ /\ IsCall(calls'[c]) /\ calls'[c].id \in DOMAIN recs
             /\ calls'[c].rec = recs[calls'[c].id]
    /\ Top <= n /\ RecsOK(recs', n)
    /\ \A i \in DOMAIN recs' :
          \/ i > Top
          \/ i \in DOMAIN recs /\ Alike(recs'[i], recs[i])
          \/ \E c \in Clients : i = calls[c].id /\ Alike(recs'[i], calls[c].rec)
    /\ \E p \in Processes : ops' \in 0..MaxOps[p]
    /\ crashes' \in 0..MaxCrashes

\* Such an operation keeps the types.
LEMMA SettledTyped ==
    ASSUME NEW n \in Nat, TypeInv, Settles(n), inst'.st # "none"
    PROVE  TypeInv'
<1>1. Top \in Nat /\ Below(Top) /\ Top <= n
  BY BelowTop DEF Settles
<1>2. /\ ToksOK(inst.toks, n) /\ ToksOK(run.toks, n)
      /\ LoopsOK(inst.multi, n) /\ LoopsOK(run.multi, n)
  BY <1>1, OKLarger DEF Below
<1>3. /\ ToksOK(inst'.toks, n) /\ ToksOK(run'.toks, n)
      /\ LoopsOK(inst'.multi, n) /\ LoopsOK(run'.multi, n)
  BY <1>2 DEF Settles
<1>4. ASSUME NEW c \in Clients
      PROVE  /\ calls'[c].id <= n /\ calls'[c].rec.tok <= n
             /\ calls'[c] = Idle \/ IsCall(calls'[c])
  <2>1. CASE calls'[c] = Idle
    BY <2>1 DEF Idle, NewRecord
  <2>2. CASE calls'[c] = calls[c] /\ calls[c] # Idle
    <3>1. IsCall(calls[c])
      BY <2>2 DEF TypeInv
    <3>2. calls[c].id \in Nat /\ calls[c].rec.tok \in Nat
      BY <3>1 DEF IsCall, Record
    <3>3. calls[c].id <= Top /\ calls[c].rec.tok <= Top
      BY <1>1 DEF Below
    <3> QED BY <1>1, <2>2, <3>1, <3>2, <3>3
  <2>3. CASE /\ IsCall(calls'[c]) /\ calls'[c].id \in DOMAIN recs
             /\ calls'[c].rec = recs[calls'[c].id]
    <3>1. calls'[c].id \in 1..Top /\ recs[calls'[c].id].tok <= Top
          /\ recs[calls'[c].id].tok \in Nat
      BY <1>1, <2>3 DEF Below, RecsOK, RecordOK, Record
    <3> QED BY <1>1, <2>3, <3>1
  <2> QED BY <1>4, <2>1, <2>2, <2>3 DEF Settles
<1>5. Below(n)'
  BY <1>3, <1>4 DEF Below, Settles
<1>6. InstanceOK(inst)' /\ InstanceOK(run)'
  BY DEF Settles, InstanceOK, IsRecord
<1> QED BY <1>4, <1>5, <1>6 DEF TypeInv, Settles

\* And the waits, if the tokens can still be woken.
LEMMA SettledLinked ==
    ASSUME NEW n \in Nat, TypeInv, WaitInv, Settles(n),
           up' /\ run'.st = "active" => \A t \in DOMAIN run'.toks :
               Awake(run'.toks[t], recs', ClaimedJobs(Clients)', Stays)
    PROVE  WaitInv'
<1>1. Stays' = Stays
  BY DEF Settles, Stays, Unmigrated
<1>2. ASSUME NEW toks, toks \in {inst.toks, run.toks}, NEW t \in DOMAIN toks, toks[t].st \in Parked
      PROVE  /\ toks[t].ref # 0
             /\ toks[t].ref \in DOMAIN recs' => Fits(toks[t], t, recs'[toks[t].ref], Stays)
             /\ \A c \in Clients : calls'[c].id = toks[t].ref => Fits(toks[t], t, calls'[c].rec, Stays)
             /\ Placed(toks[t], inst.def, Stays)
  <2> DEFINE i == toks[t].ref
  <2>1. /\ i # 0
        /\ i \in DOMAIN recs => Fits(toks[t], t, recs[i], Stays)
        /\ \A c \in Clients : calls[c].id = i => Fits(toks[t], t, calls[c].rec, Stays)
        /\ Placed(toks[t], inst.def, Stays)
    BY <1>2 DEF WaitInv, Agree
  <2>2. Top \in Nat /\ i \in 0..Top
    BY <1>2, RefsBelowTop
  <2> HIDE DEF i
  <2>3. ASSUME i \in DOMAIN recs' PROVE Fits(toks[t], t, recs'[i], Stays)
    <3>1. \/ i \in DOMAIN recs /\ Alike(recs'[i], recs[i])
          \/ \E c \in Clients : i = calls[c].id /\ Alike(recs'[i], calls[c].rec)
      BY <2>2, <2>3 DEF Settles
    <3>2. PICK r : Alike(recs'[i], r) /\ Fits(toks[t], t, r, Stays)
      BY <2>1, <3>1
    <3> QED BY <3>2 DEF Alike, Fits
  <2>4. ASSUME NEW c \in Clients, calls'[c].id = i PROVE Fits(toks[t], t, calls'[c].rec, Stays)
    <3>1. calls'[c] # Idle
      BY <2>1, <2>4 DEF Idle
    <3> QED BY <2>1, <2>4, <3>1 DEF Settles
  <2> QED BY <2>1, <2>3, <2>4 DEF i
<1>3. ASSUME NEW toks, toks \in {inst.toks, run.toks}
      PROVE  \A t \in DOMAIN toks : toks[t].st \in Parked =>
                 /\ toks[t].ref # 0
                 /\ toks[t].ref \in DOMAIN recs' => Fits(toks[t], t, recs'[toks[t].ref], Stays)
                 /\ \A c \in Clients : calls'[c].id = toks[t].ref =>
                       Fits(toks[t], t, calls'[c].rec, Stays)
                 /\ Placed(toks[t], inst.def, Stays)
  BY <1>2, <1>3
<1>4. Agree(inst.toks)'
  <2>1. inst'.toks \in {inst.toks, run.toks} /\ inst'.def = inst.def
    BY DEF Settles
  <2> QED BY <1>1, <1>3, <2>1 DEF Agree
<1>5. Agree(run.toks)'
  <2>1. run'.toks \in {inst.toks, run.toks} /\ inst'.def = inst.def
    BY DEF Settles
  <2> QED BY <1>1, <1>3, <2>1 DEF Agree
<1>6. run'.def = inst'.def
  BY DEF Settles
<1> QED BY <1>1, <1>4, <1>5, <1>6 DEF WaitInv

\* An operation that is asked for is counted.
LEMMA AskCounts ==
    ASSUME TypeInv, Ask
    PROVE  \E p \in Processes : ops' \in 0..MaxOps[p]
<1>1. inst.def \in Processes /\ MaxOps[inst.def] \in Nat
  BY EngineAssumption DEF TypeInv, InstanceOK
<1>2. PICK p \in Processes : ops \in 0..MaxOps[p]
  BY DEF TypeInv
<1>3. ops \in Nat /\ ops < MaxOps[inst.def] /\ ops' = ops + 1
  BY <1>2, EngineAssumption DEF Ask
<1> QED BY <1>1, <1>3

\* What waits for more records and more claims can still be woken.
LEMMA AwakeMore ==
    ASSUME NEW tok, NEW R, NEW Q, NEW A, NEW B, NEW U, Awake(tok, R, A, U),
           DOMAIN R \subseteq DOMAIN Q, A \subseteq B
    PROVE  Awake(tok, Q, B, U)
  BY DEF Awake

\* The record that a caller holds, with one retry less.
LEMMA LessRetries ==
    ASSUME NEW c \in Clients, TypeInv, calls[c] # Idle, calls[c].rec.left > 1
    PROVE  LET again == [calls[c].rec EXCEPT !.left = @ - 1]
           IN  /\ Alike(again, calls[c].rec) /\ calls[c].id \in 1..Top
               /\ RecsOK(With(recs, calls[c].id, again), Top)
               /\ \A i \in DOMAIN With(recs, calls[c].id, again) :
                     \/ i \in DOMAIN recs /\ Alike(With(recs, calls[c].id, again)[i], recs[i])
                     \/ i = calls[c].id /\ Alike(With(recs, calls[c].id, again)[i], calls[c].rec)
<1> DEFINE r == calls[c].rec
           j == calls[c].id
           again == [r EXCEPT !.left = @ - 1]
           new == With(recs, j, again)
<1>1. Top \in Nat /\ Below(Top)
  BY BelowTop
<1>2. IsCall(calls[c])
  BY DEF TypeInv
<1>3. r \in Record /\ j \in 1..Top /\ r.tok <= Top /\ r.left > 1
  BY <1>1, <1>2 DEF IsCall, Below
<1> HIDE DEF r, j
<1>4. r.left - 1 \in Nat
  BY <1>3 DEF Record
<1>5. again \in Record /\ again.tok = r.tok /\ again.kind = r.kind /\ again.el = r.el
  BY <1>3, <1>4 DEF Record
<1> HIDE DEF again
<1>6. RecordOK(again, Top) /\ Alike(again, r)
  BY <1>3, <1>5 DEF RecordOK, Alike
<1>7. /\ DOMAIN new = DOMAIN recs \cup {j} /\ new[j] = again
      /\ \A i \in DOMAIN recs \ {j} : new[i] = recs[i]
  BY DEF With
<1> HIDE DEF new
<1>8. RecsOK(recs, Top)
  BY <1>1 DEF Below
<1>9. RecsOK(new, Top)
  BY <1>3, <1>6, <1>7, <1>8 DEF RecsOK
<1>10. \A i \in DOMAIN new : \/ i \in DOMAIN recs /\ Alike(new[i], recs[i])
                             \/ i = j /\ Alike(new[i], r)
  BY <1>6, <1>7 DEF Alike
<1> QED BY <1>3, <1>6, <1>9, <1>10 DEF new, again, r, j

\* A failed task is handed out again, or becomes an incident.
LEMMA FailKept ==
    ASSUME NEW c \in Clients, Inv, Fail(c)
    PROVE  TypeInv' /\ WaitInv'
<1> DEFINE r == calls[c].rec
           j == calls[c].id
           w == [World EXCEPT !.recs = With(@, j, [r EXCEPT !.left = @ - 1])]
           k == K(Clients \ {c})
<1>0. TypeInv /\ WaitInv
  BY DEF Inv
<1>1. /\ up /\ run = inst /\ run.st = "active" /\ Accepted(calls[c])
      /\ r.kind \in {"external", "agent"} /\ calls[c].op = "fail"
  BY ServeFinds DEF Fail
<1>2. calls[c] # Idle
  BY <1>1 DEF Idle
<1>3. CASE ~(r.left > 1)
  <2>1. Serve(c, {"external", "agent"}, "fail", RaiseIncident(Closed(c), Tok(c)))
    BY <1>3 DEF Fail
  <2>2. Tok(c) \in DOMAIN run.toks
    BY <1>1 DEF Accepted, StillWaits, Tok
  <2>3. Good(Closed(c), {Tok(c)}, k) /\ Closed(c).toks = run.toks
    BY <1>1, ClosedGood
  <2>4. {Tok(c)} \subseteq {} \cup {Tok(c)}
    OBVIOUS
  <2>5. Good(RaiseIncident(Closed(c), Tok(c)), {}, k)
    <3> DEFINE C == Closed(c)
               t == Tok(c)
    <3>1. Good(C, {t}, k) /\ t \in DOMAIN C.toks /\ {t} \subseteq {} \cup {t}
      BY <2>2, <2>3
    <3> HIDE DEF C, t, k
    <3>2. Good(RaiseIncident(C, t), {}, k)
      BY <3>1, RaiseIncidentGood
    <3> QED BY <3>2 DEF C, t
  <2> QED BY <2>1, <2>5, ServedKept
<1>4. CASE r.left > 1
  <2>1. Serve(c, {"external", "agent"}, "fail", w)
    BY <1>4 DEF Fail
  <2>2. /\ run' = InstanceOf(w, run.susp) /\ recs' = w.recs /\ inst' = inst
        /\ calls' = [calls EXCEPT ![c] = Idle] /\ UNCHANGED <<up, ops, crashes>> /\ locked' = TRUE
    BY <2>1 DEF Serve, Becomes
  <2>3. /\ w.def = run.def /\ w.st = run.st /\ w.toks = run.toks /\ w.multi = run.multi
        /\ w.again = run.again /\ w.spent = run.spent
        /\ w.recs = With(recs, j, [r EXCEPT !.left = @ - 1])
    BY DEF World
  <2>4. IsRecord(run)
    BY <1>0 DEF TypeInv, InstanceOK
  <2>5. run' = run
    <3> HIDE DEF w
    <3> QED BY <2>2, <2>3, <2>4 DEF InstanceOf, IsRecord
  <2>6. recs' = With(recs, j, [r EXCEPT !.left = @ - 1])
    BY <2>2, <2>3
  <2>7. /\ RecsOK(recs', Top)
        /\ \A i \in DOMAIN recs' : \/ i \in DOMAIN recs /\ Alike(recs'[i], recs[i])
                                   \/ i = calls[c].id /\ Alike(recs'[i], calls[c].rec)
    BY <1>0, <1>2, <1>4, <2>6, LessRetries
  <2>8. Top \in Nat /\ Top <= Top
    BY <1>0, BelowTop
  <2>9. DOMAIN calls = Clients
    BY <1>0 DEF TypeInv
  <2>10. Settles(Top)
    <3> HIDE DEF w, r, j
    <3> QED BY <1>0, <1>1, <2>2, <2>5, <2>7, <2>8, <2>9 DEF Settles, TypeInv, WaitInv
  <2>11. ASSUME NEW t \in DOMAIN run.toks
         PROVE  Awake(run.toks[t], recs', ClaimedJobs(Clients)', Stays)
    <3>1. Awake(run.toks[t], recs, ClaimedJobs(Clients \ {c}), Stays)
      BY <1>0, <1>1, Stranded
    <3>2. DOMAIN recs \subseteq DOMAIN recs'
      BY <2>6 DEF With
    <3>3. ClaimedJobs(Clients \ {c}) \subseteq ClaimedJobs(Clients)'
      <4> DEFINE S == Clients \ {c}
      <4>1. S \in SUBSET Clients /\ \A d \in S : calls'[d] = calls[d]
        BY <2>2, <2>9
      <4> HIDE DEF S
      <4>2. ClaimedJobs(S) \subseteq ClaimedJobs(Clients)'
        BY <4>1, ClaimsKept
      <4> QED BY <4>2 DEF S
    <3> QED BY <3>1, <3>2, <3>3, AwakeMore
  <2>12. TypeInv'
    BY <1>0, <1>1, <2>2, <2>8, <2>10, SettledTyped
  <2>13. WaitInv'
    BY <1>0, <2>5, <2>8, <2>10, <2>11, SettledLinked
  <2> QED BY <2>12, <2>13
<1> QED BY <1>3, <1>4

\* The other callers keep their claims when caller c is done.
LEMMA OthersKeepClaims ==
    ASSUME NEW c \in Clients, TypeInv, calls' = [calls EXCEPT ![c] = Idle]
    PROVE  ClaimedJobs(Clients \ {c}) \subseteq ClaimedJobs(Clients)'
<1> DEFINE S == Clients \ {c}
<1>1. S \in SUBSET Clients /\ \A d \in S : calls'[d] = calls[d]
  BY DEF TypeInv
<1> HIDE DEF S
<1>2. ClaimedJobs(S) \subseteq ClaimedJobs(Clients)'
  BY <1>1, ClaimsKept
<1> QED BY <1>2 DEF S

\* The records are new, as before, or the one caller c puts back.
Comes(c) ==
    \A i \in DOMAIN recs' : \/ i > Top
                            \/ i \in DOMAIN recs /\ Alike(recs'[i], recs[i])
                            \/ i = calls[c].id /\ Alike(recs'[i], calls[c].rec)

\* A caller that changes nothing but records, and leaves.
LEMMA CallerLeaves ==
    ASSUME NEW c \in Clients, NEW n \in Nat, Inv, inst.st # "none",
           calls' = [calls EXCEPT ![c] = Idle],
           UNCHANGED <<up, inst, locked, run, ops, crashes>>,
           Top <= n, RecsOK(recs', n), Comes(c),
           up /\ run.st = "active" => \A t \in DOMAIN run.toks :
               Awake(run.toks[t], recs', ClaimedJobs(Clients \ {c}), Stays)
    PROVE  TypeInv' /\ WaitInv'
<1>0. TypeInv /\ WaitInv
  BY DEF Inv
<1>1. Settles(n)
  BY <1>0 DEF Settles, TypeInv, WaitInv, Comes
<1>2. TypeInv'
  BY <1>0, <1>1, SettledTyped
<1>3. ASSUME up' /\ run'.st = "active"
      PROVE  \A t \in DOMAIN run'.toks : Awake(run'.toks[t], recs', ClaimedJobs(Clients)', Stays)
  <2>1. ClaimedJobs(Clients \ {c}) \subseteq ClaimedJobs(Clients)'
    BY <1>0, OthersKeepClaims
  <2>2. \A t \in DOMAIN run.toks : Awake(run.toks[t], recs', ClaimedJobs(Clients \ {c}), Stays)
    BY <1>3
  <2>3. \A t \in DOMAIN run.toks : Awake(run.toks[t], recs', ClaimedJobs(Clients)', Stays)
    BY <2>1, <2>2, AwakeMore
  <2> QED BY <2>3
<1>4. WaitInv'
  BY <1>0, <1>1, <1>3, SettledLinked
<1> QED BY <1>2, <1>4

\* A job whose element is not found is put back or becomes an incident, and no
\* token waits for it at an element that migrations leave alone.
LEMMA RequeueKept ==
    ASSUME NEW c \in Clients, Inv, RequeueFailedJob(c)
    PROVE  TypeInv' /\ WaitInv'
<1> DEFINE r == calls[c].rec
           j == calls[c].id
           again == [r EXCEPT !.left = @ - 1]
           incident == NewRecord("incident", r.tok, r.el, 0)
<1>0. TypeInv /\ WaitInv /\ LockInv
  BY DEF Inv
<1>1. /\ up /\ ~locked /\ inst.st = "active" /\ r.kind \in {"timer", "sub"} /\ ~Found(World, r)
      /\ calls' = [calls EXCEPT ![c] = Idle] /\ UNCHANGED <<up, inst, locked, run, ops, crashes>>
  BY DEF RequeueFailedJob, Fails
<1>2. recs' = CASE r.kind = "sub" -> recs
                [] r.kind = "timer" /\ r.left > 1 -> With(recs, j, again)
                [] OTHER -> With(recs, Top + 1, incident)
  BY DEF RequeueFailedJob
<1>3. run = inst /\ run.st = "active" /\ inst.st # "none" /\ calls[c] # Idle
  BY <1>0, <1>1 DEF LockInv, Idle, NewRecord
<1>4. IsCall(calls[c])
  BY <1>0, <1>3 DEF TypeInv
<1>5. Top \in Nat /\ RecsOK(recs, Top) /\ r.tok \in 0..Top /\ r.el \in Elements
  BY <1>0, <1>4, BelowTop DEF Below, IsCall, Record
<1>6. ASSUME NEW t \in DOMAIN run.toks,
             ~Awake(run.toks[t], recs, ClaimedJobs(Clients \ {c}), Stays)
      PROVE  FALSE
  <2>1. /\ r.kind = "timer" /\ r.el = run.toks[t].el
        /\ Type(run.toks[t].el) \in {"catch", "receive"} /\ RootOf[run.toks[t].el] = inst.def
    BY <1>0, <1>1, <1>3, <1>6, Stranded
  <2>2. World.def = inst.def
    BY <1>3, WorldFields
  <2>3. Found(World, r)
    BY <2>1, <2>2 DEF Found
  <2> QED BY <1>1, <2>3
<1>7. DOMAIN recs \subseteq DOMAIN recs'
  BY <1>2 DEF With
<1>8. \A t \in DOMAIN run.toks : Awake(run.toks[t], recs', ClaimedJobs(Clients \ {c}), Stays)
  BY <1>6, <1>7, AwakeMore
<1>9. CASE r.kind = "sub"
  <2>1. recs' = recs
    BY <1>2, <1>9
  <2>2. Comes(c) /\ RecsOK(recs', Top) /\ Top <= Top
    BY <1>5, <2>1 DEF Comes, Alike
  <2> QED BY <1>1, <1>3, <1>5, <1>8, <2>2, CallerLeaves
<1>10. CASE r.kind = "timer" /\ r.left > 1
  <2>1. recs' = With(recs, j, again)
    BY <1>2, <1>10
  <2>2. /\ RecsOK(recs', Top)
        /\ \A i \in DOMAIN recs' : \/ i \in DOMAIN recs /\ Alike(recs'[i], recs[i])
                                   \/ i = calls[c].id /\ Alike(recs'[i], calls[c].rec)
    BY <1>0, <1>3, <1>10, <2>1, LessRetries
  <2>3. Comes(c) /\ Top <= Top
    BY <1>5, <2>2 DEF Comes
  <2> QED BY <1>1, <1>3, <1>5, <1>8, <2>2, <2>3, CallerLeaves
<1>11. CASE r.kind = "timer" /\ ~(r.left > 1)
  <2>1. recs' = With(recs, Top + 1, incident)
    BY <1>2, <1>11
  <2>2. RecordOK(incident, Top + 1)
    <3>1. "incident" \in RecordKinds /\ Top + 1 \in Nat /\ r.tok \in 0..(Top + 1) /\ 0 \in Nat
      BY <1>5 DEF RecordKinds
    <3> QED BY <1>5, <3>1, NewRecordOK
  <2> HIDE DEF r, j, again, incident
  <2>3. /\ DOMAIN recs' = DOMAIN recs \cup {Top + 1} /\ recs'[Top + 1] = incident
        /\ \A i \in DOMAIN recs \ {Top + 1} : recs'[i] = recs[i]
    BY <2>1 DEF With
  <2>4. RecsOK(recs, Top + 1)
    BY <1>5, OKLarger
  <2>5. RecsOK(recs', Top + 1)
    BY <1>5, <2>2, <2>3, <2>4 DEF RecsOK
  <2>6. Comes(c)
    BY <1>5, <2>3 DEF Comes, Alike
  <2>7. Top + 1 \in Nat /\ Top <= Top + 1
    BY <1>5
  <2> QED BY <1>1, <1>3, <1>8, <2>5, <2>6, <2>7, CallerLeaves
<1> QED BY <1>1, <1>9, <1>10, <1>11

\* A caller that is refused held nothing that a token still waits for.
LEMMA RefuseKept ==
    ASSUME NEW c \in Clients, Inv, Refuse(c)
    PROVE  TypeInv' /\ WaitInv'
<1> DEFINE r == calls[c].rec
           j == calls[c].id
<1>0. TypeInv /\ WaitInv /\ LockInv
  BY DEF Inv
<1>1. /\ up /\ ~locked /\ calls[c] # Idle /\ ~Accepted(calls[c]) /\ ~Fails(calls[c])
      /\ calls' = [calls EXCEPT ![c] = Idle] /\ UNCHANGED <<up, inst, locked, run, ops, crashes>>
      /\ recs' \in {recs, Without(recs, {j})} /\ (r.kind # "sub" => recs' = recs)
  BY DEF Refuse
<1>2. run = inst /\ inst.st # "none" /\ World.def = inst.def /\ World.toks = inst.toks
  BY <1>0, <1>1, WorldFields DEF LockInv, TypeInv
<1>3. Top \in Nat /\ RecsOK(recs, Top)
  BY <1>0, BelowTop DEF Below
<1>4. /\ DOMAIN recs' \subseteq DOMAIN recs /\ DOMAIN recs \ {j} \subseteq DOMAIN recs'
      /\ \A i \in DOMAIN recs' : recs'[i] = recs[i]
  BY <1>1 DEF Without
<1>5. RecsOK(recs', Top)
  BY <1>3, <1>4 DEF RecsOK
<1>6. ASSUME run.st = "active", NEW t \in DOMAIN run.toks
      PROVE  Awake(run.toks[t], recs, ClaimedJobs(Clients \ {c}), Stays)
  <2> SUFFICES ASSUME ~Awake(run.toks[t], recs, ClaimedJobs(Clients \ {c}), Stays) PROVE FALSE
    OBVIOUS
  <2>1. /\ t = r.tok /\ run.toks[t].ref = j
        /\ \/ run.toks[t].st = "retry" /\ r.kind \in {"async", "retry"}
           \/ /\ run.toks[t].st = "timer" /\ r.kind = "timer" /\ r.el = run.toks[t].el
              /\ Type(run.toks[t].el) \in {"catch", "receive"} /\ RootOf[run.toks[t].el] = inst.def
    BY <1>0, <1>1, <1>6, Stranded DEF Tok
  <2>2. CASE run.toks[t].st = "retry" /\ r.kind \in {"async", "retry"}
    <3>1. StillWaits(calls[c], {"retry"})
      BY <1>2, <1>6, <2>1, <2>2 DEF StillWaits
    <3> QED BY <1>1, <1>2, <1>6, <2>2, <3>1 DEF Accepted
  <2>3. CASE /\ run.toks[t].st = "timer" /\ r.kind = "timer" /\ r.el = run.toks[t].el
             /\ Type(run.toks[t].el) \in {"catch", "receive"} /\ RootOf[run.toks[t].el] = inst.def
    <3>1. Found(World, r)
      BY <1>2, <2>3 DEF Found
    <3>2. Triggers(World, r)
      BY <1>2, <1>6, <2>1, <2>3, <3>1 DEF Triggers
    <3> QED BY <1>1, <1>2, <1>6, <2>3, <3>2 DEF Accepted
  <2> QED BY <2>1, <2>2, <2>3
<1>7. ASSUME run.st = "active", NEW t \in DOMAIN run.toks
      PROVE  Awake(run.toks[t], recs', ClaimedJobs(Clients \ {c}), Stays)
  <2>1. Awake(run.toks[t], recs, ClaimedJobs(Clients \ {c}), Stays)
    BY <1>6, <1>7
  <2>2. CASE run.toks[t].st \notin Parked
    BY <2>2 DEF Awake, Parked
  <2>3. CASE run.toks[t].st \in Parked /\ run.toks[t].ref # j
    <3>1. run.toks[t].ref \in DOMAIN recs => run.toks[t].ref \in DOMAIN recs'
      BY <1>4, <2>3
    <3> QED BY <2>1, <3>1 DEF Awake
  <2>4. CASE run.toks[t].st \in Parked /\ run.toks[t].ref = j
    <3>1. Fits(run.toks[t], t, r, Stays)
      BY <1>0, <1>7, <2>4, CallerFits
    <3>2. r.kind # "sub"
      BY <2>4, <3>1 DEF Fits, Parked
    <3> QED BY <1>1, <2>1, <3>2
  <2> QED BY <2>2, <2>3, <2>4
<1>8. Comes(c) /\ Top <= Top
  BY <1>3, <1>4 DEF Comes, Alike
<1> HIDE DEF r, j
<1> QED BY <1>1, <1>2, <1>3, <1>5, <1>7, <1>8, CallerLeaves

\* A caller that begins takes no claim away.
LEMMA ClaimsGrow ==
    ASSUME NEW c \in Clients, NEW q, TypeInv, calls[c] = Idle, calls' = [calls EXCEPT ![c] = q]
    PROVE  ClaimedJobs(Clients) \subseteq ClaimedJobs(Clients)'
<1> DEFINE S == Clients \ {c}
<1>1. S \in SUBSET Clients /\ \A d \in S : calls'[d] = calls[d]
  BY DEF TypeInv
<1>2. ClaimedJobs(Clients) \subseteq ClaimedJobs(S)
  BY DEF ClaimedJobs, Idle
<1> HIDE DEF S
<1>3. ClaimedJobs(S) \subseteq ClaimedJobs(Clients)'
  BY <1>1, ClaimsKept
<1> QED BY <1>2, <1>3

\* A caller reads a record or claims a job.
LEMMA RequestKept ==
    ASSUME NEW c \in Clients, Inv, Request(c)
    PROVE  TypeInv' /\ WaitInv'
<1>0. TypeInv /\ WaitInv
  BY DEF Inv
<1>1. PICK i \in DOMAIN recs : (\E op \in Ops(recs[i].kind) : Read(c, i, op)) \/ ClaimJob(c, i)
  BY DEF Request
<1>2. Top \in Nat /\ RecsOK(recs, Top) /\ Top <= Top
  BY <1>0, BelowTop DEF Below
<1>3. i \in Nat \ {0} /\ recs[i] \in Record /\ inst.st # "none"
  BY <1>0, <1>1, <1>2 DEF RecsOK, RecordOK, TypeInv
<1>4. PICK op \in Ops(recs[i].kind) :
         /\ calls[c] = Idle /\ calls' = [calls EXCEPT ![c] = [op |-> op, id |-> i, rec |-> recs[i]]]
         /\ UNCHANGED <<up, inst, locked, run, crashes>> /\ Ask
         /\ \/ recs' = recs
            \/ recs' = Without(recs, {i}) /\ recs[i].kind \in JobKinds /\ op = "trigger"
  <2>1. CASE ClaimJob(c, i)
    <3>1. recs[i].kind \in JobKinds /\ "trigger" \in Ops(recs[i].kind)
      BY <2>1 DEF ClaimJob, JobKinds, Ops
    <3> QED BY <2>1, <3>1 DEF ClaimJob
  <2>2. CASE \E op \in Ops(recs[i].kind) : Read(c, i, op)
    BY <2>2 DEF Read
  <2> QED BY <1>1, <2>1, <2>2
<1> DEFINE q == [op |-> op, id |-> i, rec |-> recs[i]]
<1>5. IsCall(q) /\ q.id = i /\ q.rec = recs[i] /\ q.op = op
  BY <1>3, <1>4 DEF IsCall
<1>6. calls' = [calls EXCEPT ![c] = q]
  BY <1>4
<1> HIDE DEF q
<1>7. /\ DOMAIN recs' \subseteq DOMAIN recs /\ DOMAIN recs \ {i} \subseteq DOMAIN recs'
      /\ \A j \in DOMAIN recs' : recs'[j] = recs[j]
  BY <1>4 DEF Without
<1>8. RecsOK(recs', Top)
  BY <1>2, <1>7 DEF RecsOK
<1>9. \E p \in Processes : ops' \in 0..MaxOps[p]
  BY <1>0, <1>4, AskCounts
<1>10. ASSUME NEW d \in Clients
       PROVE  \/ calls'[d] = calls[d]
              \/ /\ IsCall(calls'[d]) /\ calls'[d].id \in DOMAIN recs
                 /\ calls'[d].rec = recs[calls'[d].id]
  BY <1>0, <1>1, <1>5, <1>6 DEF TypeInv
<1>11. Settles(Top)
  <2>1. \A j \in DOMAIN recs' : j \in DOMAIN recs /\ Alike(recs'[j], recs[j])
    BY <1>7 DEF Alike
  <2>2. DOMAIN calls' = Clients
    BY <1>0, <1>6 DEF TypeInv
  <2> QED BY <1>0, <1>2, <1>4, <1>8, <1>9, <1>10, <2>1, <2>2 DEF Settles, TypeInv, WaitInv
<1>12. TypeInv'
  BY <1>0, <1>2, <1>3, <1>4, <1>11, SettledTyped
<1>13. ClaimedJobs(Clients) \subseteq ClaimedJobs(Clients)'
  BY <1>0, <1>4, <1>6, ClaimsGrow
<1>14. ASSUME up, run.st = "active", NEW t \in DOMAIN run.toks
       PROVE  Awake(run.toks[t], recs', ClaimedJobs(Clients)', Stays)
  <2>1. Awake(run.toks[t], recs, ClaimedJobs(Clients), Stays)
    BY <1>0, <1>14 DEF WaitInv
  <2>2. CASE recs' = recs
    BY <1>13, <2>1, <2>2, AwakeMore
  <2>3. CASE recs[i].kind \in JobKinds /\ op = "trigger"
    <3>1. i \in ClaimedJobs(Clients)'
      <4>1. calls'[c] = q
        BY <1>0, <1>6 DEF TypeInv
      <4> QED BY <1>5, <2>3, <4>1 DEF ClaimedJobs
    <3>2. run.toks[t].st = "task" => run.toks[t].ref # i
      <4> SUFFICES ASSUME run.toks[t].st = "task", run.toks[t].ref = i PROVE FALSE
        OBVIOUS
      <4>1. Fits(run.toks[t], t, recs[i], Stays)
        BY <1>0, <1>1 DEF WaitInv, Agree, Parked
      <4> QED BY <2>3, <4>1 DEF Fits, JobKinds
    <3> DEFINE A == ClaimedJobs(Clients)
               B == ClaimedJobs(Clients)'
    <3>3. A \subseteq B /\ i \in B /\ Awake(run.toks[t], recs, A, Stays)
      BY <1>13, <2>1, <3>1
    <3> HIDE DEF A, B
    <3>4. Awake(run.toks[t], recs', B, Stays)
      BY <1>7, <3>2, <3>3 DEF Awake
    <3> QED BY <3>4 DEF B
  <2> QED BY <1>4, <2>2, <2>3
<1>15. WaitInv'
  BY <1>0, <1>2, <1>4, <1>11, <1>14, SettledLinked
<1> QED BY <1>12, <1>15

\* The drained copy is stored.
LEMMA PutKept ==
    ASSUME Inv, PutInstance
    PROVE  TypeInv' /\ WaitInv'
<1>0. TypeInv /\ WaitInv /\ LockInv
  BY DEF Inv
<1>1. locked /\ inst' = run /\ locked' = FALSE /\ UNCHANGED <<up, run, recs, calls, ops, crashes>>
  BY DEF PutInstance
<1>2. Top \in Nat /\ RecsOK(recs, Top) /\ Top <= Top
  BY <1>0, BelowTop DEF Below
<1>3. inst'.st # "none"
  BY <1>0, <1>1 DEF LockInv, TypeInv
<1>4. Settles(Top)
  BY <1>0, <1>1, <1>2 DEF Settles, TypeInv, WaitInv, Alike
<1>5. ClaimedJobs(Clients)' = ClaimedJobs(Clients)
  BY <1>1 DEF ClaimedJobs
<1>6. up' /\ run'.st = "active" => \A t \in DOMAIN run'.toks :
          Awake(run'.toks[t], recs', ClaimedJobs(Clients)', Stays)
  BY <1>0, <1>1, <1>5 DEF WaitInv
<1>7. TypeInv'
  BY <1>0, <1>2, <1>3, <1>4, SettledTyped
<1>8. WaitInv'
  BY <1>0, <1>2, <1>4, <1>6, SettledLinked
<1> QED BY <1>7, <1>8

\* An instance is suspended.
LEMMA SuspendKept ==
    ASSUME Inv, SuspendInstance
    PROVE  TypeInv' /\ WaitInv'
<1>0. TypeInv /\ WaitInv /\ LockInv
  BY DEF Inv
<1>1. /\ ~locked /\ inst.st = "active" /\ inst' = [inst EXCEPT !.susp = TRUE] /\ run' = inst' /\ Ask
      /\ UNCHANGED <<up, locked, recs, calls, crashes>>
  BY DEF SuspendInstance
<1>2. Top \in Nat /\ RecsOK(recs, Top) /\ Top <= Top
  BY <1>0, BelowTop DEF Below
<1>3. run = inst /\ IsRecord(inst)
  BY <1>0, <1>1 DEF LockInv
<1>4. /\ inst'.def = inst.def /\ inst'.st = inst.st /\ inst'.susp = TRUE /\ inst'.toks = inst.toks
      /\ inst'.multi = inst.multi /\ inst'.again = inst.again /\ inst'.spent = inst.spent
      /\ IsRecord(inst')
  BY <1>1, <1>3 DEF IsRecord
<1>5. InstanceOK(inst')
  BY <1>0, <1>4 DEF TypeInv, InstanceOK
<1>6. \E p \in Processes : ops' \in 0..MaxOps[p]
  BY <1>0, <1>1, AskCounts
<1>7. Settles(Top)
  BY <1>0, <1>1, <1>2, <1>4, <1>5, <1>6 DEF Settles, TypeInv, Alike
<1>8. ClaimedJobs(Clients)' = ClaimedJobs(Clients)
  BY <1>1 DEF ClaimedJobs
<1>9. up' /\ run'.st = "active" => \A t \in DOMAIN run'.toks :
          Awake(run'.toks[t], recs', ClaimedJobs(Clients)', Stays)
  BY <1>0, <1>1, <1>3, <1>4, <1>8 DEF WaitInv
<1>10. TypeInv'
  BY <1>0, <1>1, <1>2, <1>4, <1>7, SettledTyped
<1>11. WaitInv'
  BY <1>0, <1>2, <1>7, <1>9, SettledLinked
<1> QED BY <1>10, <1>11

\* An instance that has not been started.
LEMMA EmptyKept ==
    ASSUME Inv, inst.st = "none", inst' = inst, run' = inst, DOMAIN recs' = {},
           DOMAIN calls' = Clients, \A c \in Clients : calls'[c] = Idle,
           up' \in BOOLEAN, locked' \in BOOLEAN,
           \E p \in Processes : ops' \in 0..MaxOps[p], crashes' \in 0..MaxCrashes
    PROVE  TypeInv' /\ WaitInv'
<1>1. TypeInv
  BY DEF Inv
<1>2. /\ DOMAIN inst'.toks = {} /\ DOMAIN inst'.multi = {} /\ DOMAIN run'.toks = {}
      /\ DOMAIN run'.multi = {}
  BY <1>1 DEF TypeInv
<1>3. Below(0)'
  BY <1>2 DEF Below, ToksOK, LoopsOK, RecsOK, Idle, NewRecord
<1>4. InstanceOK(inst)' /\ InstanceOK(run)'
  BY <1>1 DEF TypeInv, InstanceOK, IsRecord
<1>5. TypeInv'
  BY <1>2, <1>3, <1>4 DEF TypeInv
<1>6. WaitInv'
  BY <1>2 DEF WaitInv, Agree
<1> QED BY <1>5, <1>6

\* The records that a migration carries over.
LEMMA CarriedRecs ==
    ASSUME NEW p \in Plans, NEW kinds, NEW n \in Nat, RecsOK(recs, n)
    PROVE  /\ DOMAIN Carried(p, kinds) = DOMAIN recs /\ RecsOK(Carried(p, kinds), n)
           /\ \A i \in DOMAIN recs : Alike(Carried(p, kinds)[i], recs[i])
<1> DEFINE new == Carried(p, kinds)
<1>1. DOMAIN new = DOMAIN recs
  BY DEF Carried
<1>2. ASSUME NEW i \in DOMAIN recs
      PROVE  RecordOK(new[i], n) /\ Alike(new[i], recs[i]) /\ i \in 1..n
  <2> DEFINE r == recs[i]
             e == MapID(p, recs[i].el)
             m == [r EXCEPT !.el = e]
  <2>1. r \in Record /\ r.tok <= n /\ i \in 1..n
    BY DEF RecsOK, RecordOK
  <2>2. e \in Elements /\ (r.el \in Stays => e = r.el)
    BY <2>1, EngineAssumption DEF MapID, Record, Stays, Unmigrated
  <2>3. new[i] \in {r, m}
    BY DEF Carried
  <2> HIDE DEF r, e, new
  <2>4. m \in Record /\ m.tok = r.tok /\ m.kind = r.kind /\ m.el = e
    BY <2>1, <2>2 DEF Record
  <2> HIDE DEF m
  <2>5. /\ new[i] \in Record /\ new[i].tok = r.tok /\ new[i].kind = r.kind
        /\ new[i].el \in {r.el, e}
    BY <2>1, <2>3, <2>4
  <2> QED BY <2>1, <2>2, <2>5 DEF RecordOK, Alike, r
<1> QED BY <1>1, <1>2 DEF RecsOK

\* A crash in or outside a migration: nothing runs, so nothing has to be awake.
LEMMA CrashKept ==
    ASSUME Inv, Crash \/ \E p \in Plans : MigrationCrash(p)
    PROVE  TypeInv' /\ WaitInv'
<1>0. TypeInv /\ WaitInv /\ LockInv
  BY DEF Inv
<1>1. /\ up' = FALSE /\ run' \in {run, inst} /\ crashes < MaxCrashes /\ crashes' = crashes + 1
      /\ calls' = [c \in Clients |-> Idle] /\ UNCHANGED <<inst, ops>> /\ locked' \in {locked, FALSE}
      /\ inst.st = "none" => Crash
  BY DEF Crash, MigrationCrash, Migrates
<1>2. Top \in Nat /\ RecsOK(recs, Top) /\ Top <= Top
  BY <1>0, BelowTop DEF Below
<1>3. crashes' \in 0..MaxCrashes
  BY <1>0, <1>1, EngineAssumption DEF TypeInv
<1>4. RecsOK(recs', Top) /\ \A i \in DOMAIN recs' : i \in DOMAIN recs /\ Alike(recs'[i], recs[i])
  <2>1. CASE Crash
    BY <1>2, <2>1 DEF Crash, Alike
  <2>2. ASSUME NEW p \in Plans, MigrationCrash(p)
        PROVE  RecsOK(recs', Top) /\ \A i \in DOMAIN recs' : i \in DOMAIN recs /\ Alike(recs'[i], recs[i])
    <3>1. PICK kinds : recs' = Carried(p, kinds)
      BY <2>2 DEF MigrationCrash
    <3> QED BY <1>2, <3>1, CarriedRecs
  <2> QED BY <2>1, <2>2
<1>5. CASE inst.st # "none"
  <2>1. Settles(Top)
    BY <1>0, <1>1, <1>2, <1>3, <1>4 DEF Settles, TypeInv, WaitInv
  <2>2. TypeInv'
    BY <1>0, <1>1, <1>2, <1>5, <2>1, SettledTyped
  <2>3. WaitInv'
    BY <1>0, <1>1, <1>2, <2>1, SettledLinked
  <2> QED BY <2>2, <2>3
<1>6. CASE inst.st = "none"
  <2>1. /\ run' = inst /\ DOMAIN recs' = {} /\ inst' = inst /\ locked' \in BOOLEAN
        /\ DOMAIN calls' = Clients /\ (\A c \in Clients : calls'[c] = Idle)
        /\ \E p \in Processes : ops' \in 0..MaxOps[p]
    BY <1>0, <1>1, <1>6 DEF Crash, TypeInv
  <2> QED BY <1>1, <1>3, <1>6, <2>1, EmptyKept
<1> QED BY <1>5, <1>6

------------------------------------------------------------------------------
\* The operations on the instance, its start and its recovery.

\* An instance is canceled or resumed, or gets variables.
LEMMA OperateKept ==
    ASSUME Inv, CancelInstance \/ ResumeInstance \/ SetVariables
    PROVE  TypeInv' /\ WaitInv'
<1>0. TypeInv /\ WaitInv /\ LockInv
  BY DEF Inv
<1>1. PICK w, susp : /\ Operate(w, susp) /\ susp \in {run.susp, FALSE}
                     /\ w \in {World, EndInstance(World, "terminated")}
  BY DEF CancelInstance, ResumeInstance, SetVariables
<1>2. /\ up /\ ~locked /\ inst.st = "active" /\ run' = InstanceOf(w, susp) /\ recs' = w.recs /\ Ask
      /\ inst' = inst /\ calls' = calls /\ UNCHANGED <<up, crashes>> /\ locked' = TRUE
  BY <1>1 DEF Operate
<1>3. run.st = "active" /\ susp \in BOOLEAN /\ inst.st # "none"
  BY <1>0, <1>1, <1>2 DEF LockInv, TypeInv, InstanceOK
<1>4. Good(World, {}, K(Clients))
  BY <1>0, <1>2, <1>3, StepWorldGood
<1>5. Good(EndInstance(World, "terminated"), {}, K(Clients))
  <2> DEFINE st == "terminated"
  <2>1. st \in {"completed", "terminated"}
    OBVIOUS
  <2> HIDE DEF st
  <2>2. Good(EndInstance(World, st), {}, K(Clients))
    BY <1>4, <2>1, EndInstanceGood
  <2> QED BY <2>2 DEF st
<1>6. Good(w, {}, K(Clients))
  BY <1>1, <1>4, <1>5
<1>7. \E p \in Processes : ops' \in 0..MaxOps[p]
  BY <1>0, <1>2, AskCounts
<1>8. CallsKept
  BY <1>0, <1>2, <1>7 DEF CallsKept, TypeInv
<1>9. Clients \in SUBSET Clients /\ \A c \in Clients : calls'[c] = calls[c]
  BY <1>2
<1> QED BY <1>0, <1>2, <1>3, <1>6, <1>8, <1>9, CopyKept

\* A migrated token has its type, and waits as it did.
LEMMA MappedToken ==
    ASSUME NEW p \in Plans, NEW tok, NEW n \in Nat, TokenOK(tok, n)
    PROVE  /\ TokenOK(Mapped(p, tok), n) /\ Mapped(p, tok).st = tok.st
           /\ Mapped(p, tok).ref = tok.ref /\ Mapped(p, tok).par = tok.par
           /\ Mapped(p, tok).el = MapID(p, tok.el)
<1> DEFINE s == tok.scope
           e == MapID(p, tok.el)
           z == [i \in DOMAIN s |-> [el |-> MapID(p, s[i].el), own |-> s[i].own]]
           new == [tok EXCEPT !.el = e, !.scope = z]
<1>1. tok \in Token /\ s \in Seq([el : Elements, own : Nat]) /\ \A i \in DOMAIN s : s[i].own <= n
  BY DEF TokenOK, ScopeOK, Scopes
<1>2. \A x \in Elements : MapID(p, x) \in Elements
  BY EngineAssumption DEF MapID
<1>3. e \in Elements
  BY <1>1, <1>2 DEF Token
<1>4. DOMAIN s = 1..Len(s) /\ Len(s) \in Nat
  BY <1>1, LenProperties
<1>5. ASSUME NEW i \in DOMAIN s
      PROVE  z[i] \in [el : Elements, own : Nat] /\ z[i].own <= n
  <2>1. s[i] \in [el : Elements, own : Nat] /\ s[i].own <= n
    <3>1. \A d \in DOMAIN s : s[d] \in [el : Elements, own : Nat]
      BY <1>1, LenProperties
    <3> QED BY <1>1, <1>5, <3>1
  <2>2. MapID(p, s[i].el) \in Elements
    BY <1>2, <2>1
  <2> QED BY <1>5, <2>1, <2>2
<1>6. DOMAIN z = DOMAIN s
  OBVIOUS
<1> HIDE DEF z
<1>7. z \in Seq([el : Elements, own : Nat])
  <2>1. z \in [1..Len(s) -> [el : Elements, own : Nat]]
    <3> DEFINE Pairs == [el : Elements, own : Nat]
    <3>1. z = [i \in DOMAIN z |-> z[i]]
      BY DEF z
    <3>2. DOMAIN z = 1..Len(s) /\ \A i \in DOMAIN z : z[i] \in Pairs
      BY <1>4, <1>5, <1>6
    <3> HIDE DEF Pairs
    <3>3. z \in [1..Len(s) -> Pairs]
      BY <3>1, <3>2
    <3> QED BY <3>3 DEF Pairs
  <2> DEFINE Pairs == [el : Elements, own : Nat]
             m == Len(s)
  <2>2. z \in [1..m -> Pairs] /\ m \in Nat
    BY <1>4, <2>1
  <2> HIDE DEF Pairs, m
  <2>3. z \in Seq(Pairs)
    BY <2>2
  <2> QED BY <2>3 DEF Pairs
<1>8. ScopeOK(z, n)
  BY <1>5, <1>6, <1>7 DEF ScopeOK, Scopes
<1>9. Mapped(p, tok) = new
  BY DEF Mapped, z
<1> HIDE DEF e
<1>10. new \in Token /\ new.st = tok.st /\ new.ref = tok.ref /\ new.par = tok.par /\ new.el = e
       /\ new.scope = z
  BY <1>1, <1>3, <1>7 DEF Token, Scopes
<1> HIDE DEF new
<1>11. TokenOK(new, n)
  BY <1>8, <1>10 DEF TokenOK
<1> QED BY <1>9, <1>10, <1>11 DEF e

\* A migration, during which a caller may begin.
Moves(p) ==
    /\ Migrates(p) /\ inst' = Migrated(p) /\ run' = inst'
    /\ recs' = Carried(p, {"task"} \cup EventWaits) /\ Ask
    /\ UNCHANGED <<up, locked, crashes>>
    /\ DOMAIN calls' = Clients
    /\ ClaimedJobs(Clients) \subseteq ClaimedJobs(Clients)'
    /\ \A c \in Clients : \/ calls'[c] = calls[c]
                         \/ /\ IsCall(calls'[c]) /\ calls'[c].id \in DOMAIN recs
                            /\ calls'[c].rec = recs[calls'[c].id]

\* It keeps types and waits.  Afterwards an element that a plan may rename is
\* nobody's concern: Stays is empty.
LEMMA MoveKept ==
    ASSUME NEW p \in Plans, Inv, Moves(p)
    PROVE  TypeInv' /\ WaitInv'
<1>0. TypeInv /\ WaitInv /\ LockInv
  BY DEF Inv
<1> DEFINE kinds == {"task"} \cup EventWaits
<1>1. /\ up /\ ~locked /\ inst.st = "active" /\ Migratable(p)
      /\ inst' = Migrated(p) /\ run' = inst' /\ recs' = Carried(p, kinds) /\ Ask
      /\ UNCHANGED <<up, locked, crashes>> /\ DOMAIN calls' = Clients
  BY DEF Moves, Migrates
<1> HIDE DEF kinds
<1>2. PICK n \in Nat : Below(n)
  BY <1>0 DEF TypeInv
<1>3. /\ DOMAIN recs' = DOMAIN recs /\ RecsOK(recs', n)
      /\ \A i \in DOMAIN recs : recs'[i].kind = recs[i].kind /\ recs'[i].tok = recs[i].tok
  <2>1. RecsOK(recs, n)
    BY <1>2 DEF Below
  <2>2. /\ DOMAIN Carried(p, kinds) = DOMAIN recs /\ RecsOK(Carried(p, kinds), n)
        /\ \A i \in DOMAIN recs : Alike(Carried(p, kinds)[i], recs[i])
    BY <1>2, <2>1, CarriedRecs
  <2> QED BY <1>1, <2>2 DEF Alike
<1>4. IsRecord(inst) /\ run = inst
  BY <1>0, <1>1 DEF LockInv
<1>5. /\ IsRecord(inst') /\ inst'.def = p.to /\ inst'.st = inst.st /\ inst'.susp = inst.susp
      /\ inst'.multi = inst.multi /\ inst'.again = inst.again /\ inst'.spent = inst.spent
      /\ inst'.toks = [t \in DOMAIN inst.toks |-> Mapped(p, inst.toks[t])]
  <2> DEFINE f == [t \in DOMAIN inst.toks |-> Mapped(p, inst.toks[t])]
             x == [inst EXCEPT !.def = p.to, !.toks = f]
  <2>1. inst' = x
    BY Zenon, <1>1 DEF Migrated
  <2> HIDE DEF f
  <2>2. /\ IsRecord(x) /\ x.def = p.to /\ x.st = inst.st /\ x.susp = inst.susp
        /\ x.multi = inst.multi /\ x.again = inst.again /\ x.spent = inst.spent /\ x.toks = f
    <3>1. DOMAIN inst = {"def", "st", "susp", "toks", "multi", "again", "spent"}
      BY <1>4 DEF IsRecord
    <3>2. /\ x.def = p.to /\ x.st = inst.st /\ x.susp = inst.susp
          /\ x.multi = inst.multi /\ x.again = inst.again /\ x.spent = inst.spent /\ x.toks = f
      BY <3>1
    <3>3. IsRecord(inst')
      BY <1>1, <1>4 DEF Migrated, IsRecord
    <3> QED BY <2>1, <3>2, <3>3
  <2> HIDE DEF x
  <2> QED BY <2>1, <2>2 DEF f
<1>6. InstanceOK(inst)' /\ InstanceOK(run)'
  BY <1>0, <1>1, <1>5, EngineAssumption DEF TypeInv, InstanceOK, IsRecord
<1>7. ASSUME NEW t \in DOMAIN inst.toks
      PROVE  /\ TokenOK(inst'.toks[t], n) /\ inst'.toks[t].st = inst.toks[t].st
             /\ inst'.toks[t].ref = inst.toks[t].ref /\ inst'.toks[t].par = inst.toks[t].par
             /\ BpmnType(inst'.toks[t].el) = BpmnType(inst.toks[t].el)
             /\ t \in 1..n /\ inst.toks[t].par # t
  <2>1. TokenOK(inst.toks[t], n) /\ t \in 1..n /\ inst.toks[t].par # t
    BY <1>2 DEF Below, ToksOK
  <2>2. inst'.toks[t] = Mapped(p, inst.toks[t])
    BY <1>5
  <2>3. BpmnType(MapID(p, inst.toks[t].el)) = BpmnType(inst.toks[t].el)
    BY <1>1 DEF Migratable
  <2> QED BY <1>2, <2>1, <2>2, <2>3, MappedToken
<1>8. DOMAIN inst'.toks = DOMAIN inst.toks
  BY <1>5
<1>9. ToksOK(inst'.toks, n)
  BY <1>7, <1>8 DEF ToksOK
<1>a. ASSUME NEW c \in Clients
      PROVE  /\ calls'[c] = Idle \/ IsCall(calls'[c])
             /\ calls'[c].id <= n /\ calls'[c].rec.tok <= n
  <2>1. CASE calls'[c] = calls[c]
    BY <1>0, <1>2, <2>1 DEF TypeInv, Below
  <2>2. CASE /\ IsCall(calls'[c]) /\ calls'[c].id \in DOMAIN recs
             /\ calls'[c].rec = recs[calls'[c].id]
    BY <1>2, <2>2 DEF Below, RecsOK, RecordOK
  <2> QED BY <2>1, <2>2 DEF Moves
<1>10. Below(n)'
  BY <1>1, <1>2, <1>3, <1>5, <1>9, <1>a DEF Below
<1>11. \E q \in Processes : ops' \in 0..MaxOps[q]
  BY <1>0, <1>1, AskCounts
<1>12. TypeInv'
  BY <1>0, <1>1, <1>2, <1>5, <1>6, <1>10, <1>11, <1>a DEF TypeInv
<1>13. Stays' = {}
  BY <1>5 DEF Stays, Unmigrated
<1>14. ASSUME NEW t \in DOMAIN inst.toks, inst.toks[t].st \in Parked
       PROVE  /\ inst'.toks[t].ref # 0
              /\ inst'.toks[t].ref \in DOMAIN recs' =>
                    Fits(inst'.toks[t], t, recs'[inst'.toks[t].ref], {})
              /\ \A c \in Clients : calls'[c].id = inst'.toks[t].ref =>
                    Fits(inst'.toks[t], t, calls'[c].rec, {})
              /\ Placed(inst'.toks[t], inst'.def, {})
  <2>1. /\ inst.toks[t].ref # 0
        /\ inst.toks[t].ref \in DOMAIN recs => Fits(inst.toks[t], t, recs[inst.toks[t].ref], Stays)
        /\ \A c \in Clients : calls[c].id = inst.toks[t].ref =>
              Fits(inst.toks[t], t, calls[c].rec, Stays)
        /\ Placed(inst.toks[t], inst.def, Stays)
    BY <1>0, <1>14 DEF WaitInv, Agree
  <2> DEFINE old == inst.toks[t]
             new == inst'.toks[t]
  <2>2. new.st = old.st /\ new.ref = old.ref /\ BpmnType(new.el) = BpmnType(old.el)
    BY <1>7
  <2>3. /\ old.ref # 0
        /\ old.ref \in DOMAIN recs => Fits(old, t, recs[old.ref], Stays)
        /\ \A c \in Clients : calls[c].id = old.ref => Fits(old, t, calls[c].rec, Stays)
        /\ Placed(old, inst.def, Stays)
    BY <2>1
  <2> HIDE DEF old, new
  <2>4. new.ref \in DOMAIN recs' => Fits(new, t, recs'[new.ref], {})
    BY <1>3, <2>2, <2>3 DEF Fits
  <2>5. ASSUME NEW c \in Clients, calls'[c].id = new.ref PROVE Fits(new, t, calls'[c].rec, {})
    <3>1. Fits(old, t, calls'[c].rec, Stays)
      BY <2>2, <2>3, <2>5 DEF Moves
    <3> QED BY <2>2, <3>1 DEF Fits
  <2>6. Placed(new, inst'.def, {})
    BY <2>2, <2>3 DEF Placed, BpmnType
  <2> QED BY <2>2, <2>3, <2>4, <2>5, <2>6 DEF new
<1>15. Agree(inst.toks)' /\ Agree(run.toks)'
  <2>1. Agree(inst.toks)'
    BY <1>7, <1>8, <1>13, <1>14 DEF Agree
  <2> QED BY <1>1, <2>1
<1>16. ASSUME NEW t \in DOMAIN inst.toks
       PROVE  Awake(inst'.toks[t], recs', ClaimedJobs(Clients)', {})
  <2>1. Awake(inst.toks[t], recs, ClaimedJobs(Clients), Stays)
    BY <1>0, <1>1, <1>4 DEF WaitInv
  <2> DEFINE A == ClaimedJobs(Clients)
             B == ClaimedJobs(Clients)'
  <2>2. A \subseteq B /\ Awake(inst.toks[t], recs, A, Stays)
    BY <2>1 DEF Moves
  <2> HIDE DEF A, B
  <2>3. Awake(inst'.toks[t], recs', B, {})
    BY <1>3, <1>7, <2>2 DEF Awake
  <2> QED BY <2>3 DEF B
<1>17. \A t \in DOMAIN run'.toks : Awake(run'.toks[t], recs', ClaimedJobs(Clients)', Stays')
  BY <1>1, <1>8, <1>13, <1>16
<1>18. run'.def = inst'.def
  BY <1>1
<1>19. WaitInv'
  BY <1>15, <1>17, <1>18 DEF WaitInv
<1> QED BY <1>12, <1>19

\* So it does when the scheduler claims a job that the migration then puts back.
LEMMA MigrateKept ==
    ASSUME NEW p \in Plans, Inv,
           MigrateInstance(p) \/ \E c \in Clients, i \in DOMAIN recs : MigrateClaimed(p, c, i)
    PROVE  TypeInv' /\ WaitInv'
<1>0. TypeInv
  BY DEF Inv
<1>1. CASE MigrateInstance(p)
  <2>1. ClaimedJobs(Clients)' = ClaimedJobs(Clients)
    BY <1>1 DEF MigrateInstance, ClaimedJobs
  <2>2. calls' = calls /\ DOMAIN calls = Clients
    BY <1>0, <1>1 DEF MigrateInstance, TypeInv
  <2>3. Moves(p)
    BY <1>1, <2>1, <2>2 DEF MigrateInstance, Moves
  <2> QED BY <2>3, MoveKept
<1>2. ASSUME NEW c \in Clients, NEW i \in DOMAIN recs, MigrateClaimed(p, c, i)
      PROVE  TypeInv' /\ WaitInv'
  <2> DEFINE q == [op |-> "trigger", id |-> i, rec |-> recs[i]]
  <2>1. calls[c] = Idle /\ calls' = [calls EXCEPT ![c] = q]
    BY <1>2 DEF MigrateClaimed
  <2>2. ClaimedJobs(Clients) \subseteq ClaimedJobs(Clients)'
    BY <1>0, <2>1, ClaimsGrow
  <2>3. "trigger" \in Ops(recs[i].kind)
    BY <1>2 DEF MigrateClaimed, Ops
  <2>4. i \in Nat \ {0} /\ recs[i] \in Record
    BY <1>0, <1>2 DEF TypeInv, Below, RecsOK, RecordOK
  <2>5. IsCall(q) /\ q.id = i /\ q.rec = recs[i]
    BY <2>3, <2>4 DEF IsCall
  <2> HIDE DEF q
  <2>6. DOMAIN calls' = Clients /\ calls'[c] = q /\ \A d \in Clients \ {c} : calls'[d] = calls[d]
    BY <1>0, <2>1 DEF TypeInv
  <2>7. Moves(p)
    BY <1>2, <2>2, <2>5, <2>6 DEF MigrateClaimed, Moves
  <2> QED BY <2>7, MoveKept
<1> QED BY <1>1, <1>2

\* reconcile leaves a world in which every token can be woken, whatever was lost.
LEMMA ReconcileGood ==
    ASSUME TypeInv, WaitInv, run.st # "none"
    PROVE  \E n \in Nat : Good([Reconcile(World) EXCEPT !.top = n], {}, K(Clients))
<1> DEFINE W == World
           lost == TaskLost(W)
           gone == JobLost(W)
           q == SetToSeq(lost)
           m == Cardinality(lost)
           top == W.top
           pos(t) == CHOOSE i \in DOMAIN q : q[i] = t
           id(t) == top + pos(t)
           news == [i \in {id(t) : t \in lost} |->
                       NewRecord("incident", q[i - top], W.toks[q[i - top]].el, 0)]
           fixed(t) == CASE t \in lost -> [W.toks[t] EXCEPT !.st = "incident", !.ref = id(t)]
                         [] t \in gone -> [W.toks[t] EXCEPT !.st = "active", !.ref = 0]
                         [] OTHER -> W.toks[t]
           toks == [t \in DOMAIN W.toks |-> fixed(t)]
           rs == Over(W.recs, news)
           v == [Reconcile(W) EXCEPT !.top = top + m]
           k == K(Clients)
<1>1. Typed(W) /\ W.toks = run.toks /\ W.recs = recs /\ W.def = run.def /\ top = Top
  BY WorldTyped, WorldFields
<1>2. top \in Nat /\ ToksOK(W.toks, top) /\ RecsOK(W.recs, top) /\ IsWorld(W)
  BY <1>1 DEF Typed
<1>3. /\ lost = {t \in DOMAIN W.toks : W.toks[t].st = "task" /\ W.toks[t].ref \notin DOMAIN W.recs}
      /\ gone = {t \in DOMAIN W.toks : W.toks[t].st \in {"timer", "retry"}
                                       /\ W.toks[t].ref \notin DOMAIN W.recs}
  BY DEF TaskLost, JobLost
<1>4. IsFiniteSet(lost)
  <2>1. lost \subseteq 1..top /\ IsFiniteSet(1..top)
    BY <1>2, <1>3, FS_Interval DEF ToksOK
  <2> HIDE DEF lost
  <2> QED BY <2>1, FS_Subset
<1>5. q \in [1..m -> lost] /\ m \in Nat
  <2> HIDE DEF lost
  <2> QED BY <1>4, SetToSeqLists
<1>6. \A t \in lost : \E i \in 1..m : q[i] = t
  <2> HIDE DEF lost
  <2> QED BY <1>4, SetToSeqOnto
<1>7. v = [W EXCEPT !.toks = toks, !.recs = rs, !.top = top + m]
  BY <1>2 DEF Reconcile, IsWorld
<1>8. k.base = W /\ k.claimed = ClaimedJobs(Clients) /\ k.stays = Stays
  BY DEF K
<1>9. DOMAIN toks = DOMAIN W.toks /\ \A t \in DOMAIN W.toks : toks[t] = fixed(t)
  OBVIOUS
<1> HIDE DEF v, k, W, lost, gone, q, m, toks
<1>10. ASSUME NEW t \in lost PROVE pos(t) \in 1..m /\ q[pos(t)] = t
  BY <1>5, <1>6, <1>10
<1> HIDE DEF pos
<1>11. ASSUME NEW t \in lost PROVE id(t) \in (top + 1)..(top + m) /\ q[id(t) - top] = t
  BY <1>2, <1>5, <1>10, <1>11
<1> HIDE DEF id
<1>12. ASSUME NEW i \in DOMAIN news
       PROVE  i \in (top + 1)..(top + m) /\ RecordOK(news[i], top + m)
  <2>1. PICK t \in lost : i = id(t)
    BY <1>12
  <2>2. i \in (top + 1)..(top + m) /\ q[i - top] = t
    BY <1>11, <2>1
  <2>3. t \in DOMAIN W.toks /\ t \in 1..top /\ W.toks[t] \in Token
    BY <1>2, <1>3, <2>1 DEF ToksOK, TokenOK
  <2>4. "incident" \in RecordKinds /\ top + m \in Nat /\ t \in 0..(top + m) /\ 0 \in Nat
        /\ W.toks[t].el \in Elements
    BY <1>2, <1>5, <2>3 DEF RecordKinds, Token
  <2>5. news[i] = NewRecord("incident", t, W.toks[t].el, 0)
    BY <1>12, <2>2
  <2>6. RecordOK(NewRecord("incident", t, W.toks[t].el, 0), top + m)
    BY <2>4, NewRecordOK
  <2> QED BY <2>2, <2>5, <2>6
<1> HIDE DEF news
<1>13. /\ DOMAIN rs = DOMAIN W.recs \cup DOMAIN news
       /\ \A i \in DOMAIN W.recs : rs[i] = W.recs[i]
       /\ \A i \in DOMAIN news \ DOMAIN W.recs : rs[i] = news[i]
  BY DEF Over
<1> HIDE DEF rs
<1>14. ToksOK(W.toks, top + m) /\ RecsOK(W.recs, top + m) /\ LoopsOK(W.multi, top + m)
  <2>1. top + m \in Nat /\ top <= top + m
    BY <1>2, <1>5
  <2> QED BY <1>1, <1>2, <2>1, OKLarger DEF Typed
<1>15. RecsOK(rs, top + m)
  BY <1>2, <1>5, <1>12, <1>13, <1>14 DEF RecsOK
<1>16. ASSUME NEW t \in DOMAIN W.toks
       PROVE  /\ TokenOK(toks[t], top + m) /\ toks[t].par = W.toks[t].par
              /\ t \in lost => toks[t].st = "incident"
              /\ t \in gone => toks[t].st = "active"
              /\ t \notin lost \cup gone => toks[t] = W.toks[t]
  <2>1. W.toks[t] \in Token /\ TokenOK(W.toks[t], top + m) /\ top + m \in Nat
    BY <1>2, <1>5, <1>14 DEF ToksOK, TokenOK
  <2>2. lost \cap gone = {}
    BY <1>3
  <2> DEFINE a == [W.toks[t] EXCEPT !.st = "incident", !.ref = id(t)]
             b == [W.toks[t] EXCEPT !.st = "active", !.ref = 0]
  <2>3. ASSUME t \in lost
        PROVE  a \in Token /\ a.st = "incident" /\ a.ref = id(t) /\ a.par = W.toks[t].par
               /\ a.scope = W.toks[t].scope /\ id(t) <= top + m
    <3>1. id(t) \in Nat /\ id(t) <= top + m
      BY <1>2, <1>5, <1>11, <2>3
    <3> DEFINE x == W.toks[t]
               y == id(t)
    <3>2. x \in Token /\ y \in Nat /\ "incident" \in TokenStates
      BY <2>1, <3>1 DEF TokenStates, WaitStates
    <3> HIDE DEF x, y
    <3>3. /\ [x EXCEPT !.st = "incident", !.ref = y] \in Token
          /\ [x EXCEPT !.st = "incident", !.ref = y].st = "incident"
          /\ [x EXCEPT !.st = "incident", !.ref = y].ref = y
          /\ [x EXCEPT !.st = "incident", !.ref = y].par = x.par
          /\ [x EXCEPT !.st = "incident", !.ref = y].scope = x.scope
      BY <3>2 DEF Token
    <3> QED BY <3>1, <3>3 DEF x, y
  <2>4. b \in Token /\ b.st = "active" /\ b.ref = 0 /\ b.par = W.toks[t].par
        /\ b.scope = W.toks[t].scope
    <3> DEFINE x == W.toks[t]
    <3>1. x \in Token /\ "active" \in TokenStates
      BY <2>1 DEF TokenStates, WaitStates
    <3> HIDE DEF x
    <3>2. /\ [x EXCEPT !.st = "active", !.ref = 0] \in Token
          /\ [x EXCEPT !.st = "active", !.ref = 0].st = "active"
          /\ [x EXCEPT !.st = "active", !.ref = 0].ref = 0
          /\ [x EXCEPT !.st = "active", !.ref = 0].par = x.par
          /\ [x EXCEPT !.st = "active", !.ref = 0].scope = x.scope
      BY <3>1 DEF Token
    <3> QED BY <3>2 DEF x
  <2>5. /\ t \in lost => toks[t] = a
        /\ t \in gone => toks[t] = b
        /\ t \notin lost \cup gone => toks[t] = W.toks[t]
    BY <1>9, <2>2
  <2> HIDE DEF a, b
  <2>6. CASE t \in lost
    BY <2>1, <2>2, <2>3, <2>5, <2>6 DEF TokenOK
  <2>7. CASE t \in gone
    BY <2>1, <2>2, <2>4, <2>5, <2>7 DEF TokenOK
  <2>8. CASE t \notin lost \cup gone
    BY <2>1, <2>5, <2>8
  <2> QED BY <2>6, <2>7, <2>8
<1>17. ToksOK(toks, top + m)
  BY <1>9, <1>14, <1>16 DEF ToksOK
<1>18. /\ IsWorld(v) /\ v.toks = toks /\ v.recs = rs /\ v.top = top + m /\ v.def = W.def
       /\ v.st = W.st /\ v.multi = W.multi /\ v.again = W.again /\ v.spent = W.spent
  BY <1>2, <1>7 DEF IsWorld
<1>19. Typed(v)
  BY <1>1, <1>2, <1>5, <1>14, <1>15, <1>17, <1>18 DEF Typed
<1>20. RecsKept(v, k)
  BY <1>2, <1>5, <1>8, <1>12, <1>13, <1>18 DEF RecsKept
<1>21. ASSUME NEW t \in DOMAIN v.toks
       PROVE  WaitKept(v, t, k) /\ Awake(v.toks[t], v.recs, k.claimed, k.stays)
  <2>0. t \in DOMAIN W.toks /\ v.toks[t] = toks[t]
    BY <1>9, <1>18, <1>21
  <2>1. CASE t \in lost \cup gone
    <3>1. v.toks[t].st \in {"incident", "active"}
      BY <1>16, <2>0, <2>1
    <3> QED BY <3>1 DEF WaitKept, Awake, Parked
  <2>2. CASE t \notin lost \cup gone
    <3>1. v.toks[t] = W.toks[t]
      BY <1>16, <2>0, <2>2
    <3>2. Awake(v.toks[t], v.recs, k.claimed, k.stays)
      <4>1. W.toks[t].st \in {"task", "timer", "retry"} => W.toks[t].ref \in DOMAIN W.recs
        BY <1>3, <2>0, <2>2
      <4> QED BY <1>13, <1>18, <3>1, <4>1 DEF Awake
    <3>3. ASSUME W.toks[t].st \in Parked
          PROVE  /\ W.toks[t].ref \in DOMAIN v.recs => Fits(W.toks[t], t, v.recs[W.toks[t].ref], Stays)
                 /\ Placed(W.toks[t], W.def, Stays)
      <4>1. /\ W.toks[t].ref \in DOMAIN W.recs => Fits(W.toks[t], t, W.recs[W.toks[t].ref], Stays)
            /\ Placed(W.toks[t], W.def, Stays)
        BY <1>1, <2>0, <3>3 DEF WaitInv, Agree
      <4>2. W.toks[t].ref \in 0..top
        BY <1>2, <2>0 DEF ToksOK, TokenOK, Token
      <4>3. W.toks[t].ref \notin DOMAIN news
        BY <1>2, <1>5, <1>12, <4>2
      <4> QED BY <1>13, <1>18, <4>1, <4>3
    <3>4. WaitKept(v, t, k)
      BY <1>8, <1>18, <2>0, <3>1, <3>3 DEF WaitKept, SameWait
    <3> QED BY <3>2, <3>4
  <2> QED BY <2>1, <2>2
<1>22. Linked(v, {}, k)
  <2>1. v.def = k.base.def /\ k.base.top \in Nat /\ k.base.top <= v.top
    BY <1>2, <1>5, <1>8, <1>18
  <2> QED BY <1>20, <1>21, <2>1 DEF Linked
<1>23. Good(v, {}, k) /\ top + m \in Nat
  BY <1>2, <1>5, <1>19, <1>22 DEF Good
<1> QED BY <1>23 DEF v, k, W

\* The process starts again.
LEMMA RestartKept ==
    ASSUME Inv, Restart
    PROVE  TypeInv' /\ WaitInv'
<1> DEFINE W == World
           changed == inst.st = "active" /\ TaskLost(W) \cup JobLost(W) # {}
           orphans == {i \in DOMAIN recs : recs[i].kind = "task" /\ inst.st # "active"}
           R == Reconcile(W)
<1>0. TypeInv /\ WaitInv /\ LockInv
  BY DEF Inv
<1>1. /\ ~up /\ up' = TRUE /\ locked' = changed /\ UNCHANGED <<inst, calls, ops, crashes>>
      /\ changed => Becomes(R)
      /\ ~changed => run' = run /\ recs' = Without(recs, orphans)
  BY DEF Restart
<1>2. run = inst /\ W.toks = run.toks /\ W.recs = recs
  BY <1>0, <1>1, WorldFields DEF LockInv
<1>3. CASE changed
  <2>1. PICK n \in Nat : Good([R EXCEPT !.top = n], {}, K(Clients))
    BY <1>0, <1>2, <1>3, ReconcileGood
  <2> DEFINE v == [R EXCEPT !.top = n]
  <2>2. /\ run' = InstanceOf(R, run.susp) /\ recs' = R.recs
    BY <1>1, <1>3 DEF Becomes
  <2> HIDE DEF R
  <2>3. IsWorld(v)
    BY <2>1 DEF Good, Typed
  <2>4. /\ v.def = R.def /\ v.st = R.st /\ v.toks = R.toks /\ v.multi = R.multi
        /\ v.again = R.again /\ v.spent = R.spent /\ v.recs = R.recs
    BY <2>3 DEF IsWorld
  <2>5. Good(v, {}, K(Clients))
    BY <2>1
  <2> HIDE DEF v
  <2>6. run' = InstanceOf(v, run.susp) /\ recs' = v.recs
    BY <2>2, <2>4 DEF InstanceOf
  <2>7. CallsKept
    BY <1>0, <1>1 DEF CallsKept, TypeInv
  <2>8. run.susp \in BOOLEAN /\ inst.st # "none" /\ inst' = inst
        /\ Clients \in SUBSET Clients /\ \A c \in Clients : calls'[c] = calls[c]
    BY <1>0, <1>1, <1>3 DEF TypeInv, InstanceOK
  <2> QED BY <1>0, <2>5, <2>6, <2>7, <2>8, CopyKept
<1>4. CASE ~changed /\ inst.st # "none"
  <2>1. Top \in Nat /\ RecsOK(recs, Top) /\ Top <= Top
    BY <1>0, BelowTop DEF Below
  <2>2. /\ run' = run /\ DOMAIN recs' \subseteq DOMAIN recs /\ \A i \in DOMAIN recs' : recs'[i] = recs[i]
        /\ inst.st = "active" => DOMAIN recs' = DOMAIN recs
    BY <1>1, <1>4 DEF Without
  <2>3. RecsOK(recs', Top)
    BY <2>1, <2>2 DEF RecsOK
  <2>4. Settles(Top)
    BY <1>0, <1>1, <2>1, <2>2, <2>3 DEF Settles, TypeInv, WaitInv, Alike
  <2>5. ASSUME run.st = "active", NEW t \in DOMAIN run.toks
        PROVE  Awake(run.toks[t], recs', ClaimedJobs(Clients)', Stays)
    <3>1. TaskLost(W) = {} /\ JobLost(W) = {}
      BY <1>2, <1>4, <2>5
    <3> HIDE DEF W
    <3>2. run.toks[t].st \in {"task", "timer", "retry"} => run.toks[t].ref \in DOMAIN recs
      BY <1>2, <2>5, <3>1 DEF TaskLost, JobLost
    <3> QED BY <1>2, <2>2, <2>5, <3>2 DEF Awake
  <2>6. TypeInv'
    BY <1>0, <1>1, <1>4, <2>1, <2>4, SettledTyped
  <2>7. WaitInv'
    BY <1>0, <2>1, <2>2, <2>4, <2>5, SettledLinked
  <2> QED BY <2>6, <2>7
<1>5. CASE ~changed /\ inst.st = "none"
  <2>1. /\ run' = inst /\ DOMAIN recs' = {} /\ inst' = inst /\ locked' \in BOOLEAN /\ up' \in BOOLEAN
        /\ DOMAIN calls' = Clients /\ (\A c \in Clients : calls'[c] = Idle)
        /\ (\E p \in Processes : ops' \in 0..MaxOps[p]) /\ crashes' \in 0..MaxCrashes
    BY <1>0, <1>1, <1>2, <1>5 DEF TypeInv, Without
  <2> QED BY <1>5, <2>1, EmptyKept
<1> QED BY <1>3, <1>4, <1>5

\* An instance is started: one token, and the waits of its event sub-processes.
LEMMA StartKept ==
    ASSUME Inv, NEW bad, StartInstance(bad)
    PROVE  TypeInv' /\ WaitInv'
<1>0. TypeInv /\ WaitInv /\ LockInv
  BY DEF Inv
<1>1. PICK s \in Starts(inst.def, {"none"}) :
         inst' = [inst EXCEPT !.st = "active", !.toks = [t \in {1} |-> NewToken(s, <<>>)]]
  BY DEF StartInstance
<1>2. /\ inst.st = "none" /\ locked' = TRUE /\ run' = inst' /\ UNCHANGED <<up, calls, ops, crashes>>
      /\ recs' = RegisterEventSubprocesses([World EXCEPT !.toks = inst'.toks, !.top = 1],
                                           inst.def, 0, bad).recs
  BY DEF StartInstance
<1>3. /\ ~locked /\ run = inst /\ IsRecord(inst) /\ DOMAIN inst.multi = {} /\ DOMAIN recs = {}
      /\ \A c \in Clients : calls[c] = Idle
  BY <1>0, <1>2 DEF LockInv, TypeInv
<1> DEFINE f == [t \in {1} |-> NewToken(s, <<>>)]
           b == [World EXCEPT !.toks = f, !.top = 1]
           b2 == [b EXCEPT !.st = "active"]
           E == EventStarts(inst.def, {"timer", "message"}) \ bad
           k == [base |-> b2, claimed |-> {}, stays |-> {}]
<1>4. s \in Elements /\ E \in SUBSET Elements
  BY EventsAreElements
<1>5. TokenOK(f[1], 1) /\ f[1].st = "active" /\ f[1].par = 0
  <2>1. ScopeOK(<<>>, 1)
    BY ScopesOK
  <2>2. TokenOK(NewToken(s, <<>>), 1) /\ NewToken(s, <<>>).st = "active" /\ NewToken(s, <<>>).par = 0
    BY <1>4, <2>1, NewTokenOK
  <2> QED BY <2>2
<1>6. DOMAIN f = {1}
  OBVIOUS
<1> HIDE DEF f
<1>7. /\ IsRecord(inst') /\ inst'.def = inst.def /\ inst'.st = "active" /\ inst'.susp = inst.susp
      /\ inst'.toks = f /\ inst'.multi = inst.multi /\ inst'.again = inst.again
      /\ inst'.spent = inst.spent
  BY <1>1, <1>3 DEF IsRecord, f
<1>8. /\ IsWorld(b2) /\ b2.def = inst.def /\ b2.st = "active" /\ b2.toks = f /\ b2.top = 1
      /\ b2.recs = recs /\ b2.multi = inst.multi /\ b2.again = inst.again /\ b2.spent = inst.spent
      /\ b.recs = recs /\ b.top = 1 /\ IsWorld(b)
  BY <1>3, WorldFields DEF IsWorld
<1>9. recs' = CreateEventWaits(b, 0, E).recs
  BY <1>2, <1>7 DEF RegisterEventSubprocesses
<1> HIDE DEF b, b2, E
<1>10. CreateEventWaits(b, 0, E).recs = CreateEventWaits(b2, 0, E).recs
  BY <1>8 DEF CreateEventWaits, IsWorld
<1>11. InstanceOK(inst)
  BY <1>0 DEF TypeInv
<1>12. Typed(b2)
  <2>1. ToksOK(f, 1)
    BY <1>5, <1>6 DEF ToksOK
  <2>2. RecsOK(recs, 1) /\ LoopsOK(inst.multi, 1)
    BY <1>3 DEF RecsOK, LoopsOK
  <2> QED BY <1>8, <1>11, <2>1, <2>2 DEF Typed, InstanceOK, RunStates
<1>13. k.base = b2
  OBVIOUS
<1> HIDE DEF k
<1>14. Good(b2, {}, k)
  <2>1. RecsKept(b2, k)
    BY <1>3, <1>8 DEF RecsKept
  <2>2. \A t \in DOMAIN b2.toks : b2.toks[t].st = "active"
    BY <1>5, <1>6, <1>8
  <2>3. \A t \in DOMAIN b2.toks : WaitKept(b2, t, k) /\ Awake(b2.toks[t], b2.recs, k.claimed, k.stays)
    BY <2>2 DEF WaitKept, Awake, Parked
  <2>4. b2.def = k.base.def /\ k.base.top \in Nat /\ k.base.top <= b2.top
    BY <1>8, <1>13
  <2> QED BY <1>12, <2>1, <2>3, <2>4 DEF Good, Linked
<1> DEFINE v == CreateEventWaits(b2, 0, E)
<1>15. 0 \in 0..b2.top
  BY <1>8
<1>16. Good(v, {}, k)
  <2> DEFINE zero == 0
  <2>1. zero \in 0..b2.top
    BY <1>15
  <2> HIDE DEF zero
  <2>2. Good(CreateEventWaits(b2, zero, E), {}, k)
    BY <1>4, <1>14, <2>1, CreateEventWaitsGood
  <2> QED BY <2>2 DEF zero
<1>17. v.toks = f /\ v.multi = inst.multi
  BY <1>8 DEF CreateEventWaits, IsWorld
<1>18. recs' = v.recs
  BY <1>9, <1>10
<1> HIDE DEF v
<1>19. PICK n \in Nat : ToksOK(f, n) /\ LoopsOK(inst.multi, n) /\ RecsOK(recs', n)
  BY <1>16, <1>17, <1>18 DEF Good, Typed
<1>20. Below(n)'
  <2>1. \A c \in Clients : calls'[c].id = 0 /\ calls'[c].rec.tok = 0
    BY <1>2, <1>3 DEF Idle, NewRecord
  <2> QED BY <1>2, <1>7, <1>19, <2>1 DEF Below
<1>21. InstanceOK(inst)' /\ InstanceOK(run)'
  BY <1>2, <1>7, <1>11 DEF InstanceOK, IsRecord, RunStates
<1>22. TypeInv'
  BY <1>0, <1>2, <1>7, <1>20, <1>21 DEF TypeInv
<1>23. WaitInv'
  <2>1. \A t \in DOMAIN f : f[t].st = "active"
    BY <1>5, <1>6
  <2>2. Agree(inst.toks)' /\ Agree(run.toks)'
    BY <1>2, <1>7, <2>1 DEF Agree, Parked
  <2>3. \A t \in DOMAIN run'.toks : Awake(run'.toks[t], recs', ClaimedJobs(Clients)', Stays')
    BY <1>2, <1>7, <2>1 DEF Awake
  <2> QED BY <1>2, <2>2, <2>3 DEF WaitInv
<1> QED BY <1>22, <1>23

------------------------------------------------------------------------------
\* The invariant and what follows from it.

\* Before the start there is nothing.
LEMMA InvInit == Init => Inv
<1> SUFFICES ASSUME Init PROVE Inv
  OBVIOUS
<1>1. PICK p \in Processes :
         inst = [def |-> p, st |-> "none", susp |-> FALSE, toks |-> NoTokens,
                 multi |-> NoLoops, again |-> FALSE, spent |-> 0]
  BY DEF Init
<1>2. /\ up = TRUE /\ locked = FALSE /\ run = inst /\ recs = [i \in {} |-> Idle.rec]
      /\ calls = [c \in Clients |-> Idle] /\ ops = 0 /\ crashes = 0
  BY DEF Init
<1>3. /\ DOMAIN inst.toks = {} /\ DOMAIN inst.multi = {} /\ DOMAIN recs = {}
      /\ DOMAIN calls = Clients /\ \A c \in Clients : calls[c] = Idle
  BY <1>1, <1>2 DEF NoTokens, NoLoops
<1>4. Below(0)
  <2>1. \A c \in Clients : calls[c].id = 0 /\ calls[c].rec.tok = 0
    BY <1>3 DEF Idle, NewRecord
  <2> QED BY <1>2, <1>3, <2>1 DEF Below, ToksOK, LoopsOK, RecsOK
<1>5. InstanceOK(inst) /\ InstanceOK(run)
  BY <1>1, <1>2 DEF InstanceOK, IsRecord
<1>6. 0 \in 0..MaxOps[p] /\ 0 \in 0..MaxCrashes
  BY EngineAssumption
<1>7. TypeInv
  <2>1. run.st = inst.st
    BY <1>2
  <2> QED BY <1>2, <1>3, <1>4, <1>5, <1>6, <2>1 DEF TypeInv
<1>8. WaitInv
  BY <1>1, <1>2, <1>3 DEF WaitInv, Agree
<1> QED BY <1>7, <1>8, LockInit DEF Inv

\* Whatever a caller waits for, its answer keeps types and waits.
LEMMA AnswerKept ==
    ASSUME NEW c \in Clients, Inv, Answer(c)
    PROVE  TypeInv' /\ WaitInv'
<1>1. ASSUME NEW yes, Complete(c, yes) \/ CompleteAgentJob(c, yes) \/ FailWithError(c)
      PROVE  TypeInv' /\ WaitInv'
  BY <1>1, TaskAnswerKept
<1>2. ASSUME NEW yes, Trigger(c, yes) PROVE TypeInv' /\ WaitInv'
  BY <1>2, TriggerKept
<1>3. ASSUME RunJob(c) \/ ResolveIncident(c) PROVE TypeInv' /\ WaitInv'
  BY <1>3, ResumeAnswerKept
<1> QED BY <1>1, <1>2, <1>3, FailKept, RequeueKept, RefuseKept DEF Answer

\* And so does an operation on the instance.
LEMMA ControlKept ==
    ASSUME Inv, Control
    PROVE  TypeInv' /\ WaitInv'
  BY OperateKept, SuspendKept, MigrateKept DEF Control

\* Every action keeps the invariant.
LEMMA InvStep == Inv /\ [Next]_vars => Inv'
<1> SUFFICES ASSUME Inv, [Next]_vars PROVE Inv'
  OBVIOUS
<1>1. LockInv'
  BY LockStep DEF Inv
<1>2. ASSUME UNCHANGED vars PROVE TypeInv' /\ WaitInv'
  <2>1. /\ up' = up /\ inst' = inst /\ locked' = locked /\ run' = run /\ recs' = recs
        /\ calls' = calls /\ ops' = ops /\ crashes' = crashes
    BY <1>2 DEF vars
  <2>2. TypeInv'
    BY <2>1 DEF Inv, TypeInv, InstanceOK, IsRecord, Below
  <2>3. Stays' = Stays /\ ClaimedJobs(Clients)' = ClaimedJobs(Clients)
    BY <2>1 DEF Stays, ClaimedJobs
  <2>4. WaitInv'
    BY <2>1, <2>3 DEF Inv, WaitInv, Agree
  <2> QED BY <2>2, <2>4
<1>3. ASSUME Next PROVE TypeInv' /\ WaitInv'
  <2>1. ASSUME NEW c \in Clients, Request(c) \/ Answer(c) PROVE TypeInv' /\ WaitInv'
    BY <2>1, RequestKept, AnswerKept
  <2>2. ASSUME Crash \/ \E p \in Plans : MigrationCrash(p) PROVE TypeInv' /\ WaitInv'
    BY <2>2, CrashKept
  <2> QED BY <1>3, <2>1, <2>2, StartKept, StepKept, PutKept, ControlKept, RestartKept DEF Next
<1> QED BY <1>1, <1>2, <1>3 DEF Inv

\* Lock, types and waits hold together, whatever the models, the plans, the
\* callers, the failures and the crashes.
THEOREM EngineInvariant == Spec => []Inv
  BY InvInit, InvStep, PTL DEF Spec

\* A well typed instance record.
LEMMA InstanceTyped ==
    ASSUME NEW x, NEW n \in Nat, InstanceOK(x), ToksOK(x.toks, n), LoopsOK(x.multi, n)
    PROVE  IsInstance(x)
<1>1. [def |-> x.def, st |-> x.st, susp |-> x.susp, again |-> x.again,
       spent |-> x.spent] \in Instances
  BY DEF InstanceOK, Instances, RunStates
<1>2. /\ DOMAIN x.toks \subseteq Nat \ {0} /\ \A t \in DOMAIN x.toks : x.toks[t] \in Token
      /\ \A t \in DOMAIN x.multi : t \in Nat \ {0} /\ x.multi[t] \in Loop
  BY DEF ToksOK, TokenOK, LoopsOK
<1> QED BY <1>1, <1>2 DEF IsInstance

\* The instance, the copy an operation works on, the side records and the calls
\* keep their types through every step of the token runtime (exec.go,
\* activity.go, events.go), every operation of the API, every job of the
\* scheduler, migrations, crashes and recovery.
THEOREM EngineTypeCorrect == Spec => []TypeOK
<1>1. ASSUME Inv PROVE TypeOK
  <2>1. PICK n \in Nat : Below(n)
    BY <1>1 DEF Inv, TypeInv
  <2>2. IsInstance(inst) /\ IsInstance(run)
    BY <1>1, <2>1, InstanceTyped DEF Inv, TypeInv, Below
  <2>3. DOMAIN recs \subseteq Nat \ {0} /\ \A i \in DOMAIN recs : recs[i] \in Record
    BY <2>1 DEF Below, RecsOK, RecordOK
  <2>4. \A c \in Clients : calls[c] = Idle \/
           /\ calls[c].op \in Ops(calls[c].rec.kind)
           /\ calls[c].id \in Nat \ {0}
           /\ calls[c].rec \in Record
    BY <1>1 DEF Inv, TypeInv, IsCall
  <2> QED BY <1>1, <2>2, <2>3, <2>4 DEF Inv, TypeInv, TypeOK
<1> QED BY <1>1, EngineInvariant, PTL

\* What a quiet instance's token waits for is there.
LEMMA AwakeWakes ==
    ASSUME Inv, Quiet, inst.st = "active", NEW t \in DOMAIN inst.toks,
           \/ inst.toks[t].st \in {"task", "retry"}
           \/ inst.toks[t].st = "timer" /\ Unmigrated(inst.toks[t].el, inst.def)
    PROVE  CanWake(t)
<1> DEFINE tok == inst.toks[t]
<1>0. TypeInv /\ WaitInv /\ up /\ run = inst
  BY DEF Inv, LockInv, Quiet
<1>1. Awake(tok, recs, ClaimedJobs(Clients), Stays)
  BY <1>0 DEF WaitInv
<1>2. tok \in Token
  BY <1>0 DEF TypeInv, Below, ToksOK, TokenOK
<1>3. tok.st = "timer" => tok.el \in Stays
  BY <1>2 DEF Stays, Token
<1>4. tok.ref \in DOMAIN recs => Fits(tok, t, recs[tok.ref], Stays)
  BY <1>0 DEF WaitInv, Agree, Parked
<1>5. CASE tok.st = "task"
  <2>1. Held(tok.ref, {"task"}, t)
    BY <1>1, <1>4, <1>5 DEF Awake, Fits, Held
  <2> QED BY <1>5, <2>1 DEF CanWake
<1>6. CASE tok.st \in {"timer", "retry"}
  <2>1. tok.ref \in DOMAIN recs \cup ClaimedJobs(Clients)
    BY <1>1, <1>3, <1>6 DEF Awake
  <2>2. ASSUME tok.ref \in DOMAIN recs PROVE Held(tok.ref, {"timer", "async", "retry"}, t)
    BY <1>4, <1>6, <2>2 DEF Fits, Held
  <2>3. ASSUME tok.ref \in ClaimedJobs(Clients) PROVE Claimed(tok.ref)
    BY <2>3 DEF ClaimedJobs, Claimed
  <2>4. Held(tok.ref, {"timer", "async", "retry"}, t) \/ Claimed(tok.ref)
    BY <2>1, <2>2, <2>3
  <2> QED BY <1>6, <2>4 DEF CanWake
<1> QED BY <1>5, <1>6

\* A crash, a claim, a failure or a race of callers at any point leaves no token
\* waiting for a user task, a timer or a retry that is gone (reconcile,
\* requeueFailedJob, dropTokenEventWaits).
THEOREM WaitsAreRecovered == Spec => []WaitsRecovered
<1>1. ASSUME Inv PROVE WaitsRecovered
  BY <1>1, AwakeWakes DEF WaitsRecovered
<1> QED BY <1>1, EngineInvariant, PTL
==============================================================================
