------------------------------- MODULE Engine --------------------------------
(***************************************************************************)
(* engine/engine.go, exec.go, scheduler.go: the life of one process        *)
(* instance.                                                               *)
(*                                                                         *)
(* Every operation loads the instance under its lock, changes the loaded   *)
(* copy, drains it (steps active tokens, lowest id first, until all wait), *)
(* writes the copy back once and releases the lock.  Side records are      *)
(* written as they change.  Callers read the record they act on, and the   *)
(* scheduler claims its job, before they get the lock; a crash keeps the   *)
(* stored instance and the side records and loses everything else.         *)
(***************************************************************************)
EXTENDS Interpreter

CONSTANTS
    Plans,          \* migration plans: the target process and the ActivityMap
    MaxItems,       \* bound: items of a multi-instance loop
    Clients,        \* callers of the engine's API and the scheduler
    MaxOps,         \* bound: operations that are asked for, per process
    MaxCrashes      \* bound: crashes

ASSUME EngineAssumption ==
    /\ MaxOps \in [Processes -> Nat] /\ MaxCrashes \in Nat /\ MaxItems \in Nat
    /\ \A p \in Plans : /\ p.to \in Processes
                       /\ DOMAIN p.map \subseteq Elements
                       /\ \A e \in DOMAIN p.map : p.map[e] \in Elements

VARIABLES
    up,         \* the process runs
    inst,       \* the stored instance record
    locked,     \* an operation holds the instance lock
    run,        \* the copy that operation works on; inst when there is none
    recs,       \* open side records, by id
    calls,      \* per client, the operation that waits for the lock
    ops,        \* operations asked for so far
    crashes     \* crashes so far

vars == <<up, inst, locked, run, recs, calls, ops, crashes>>

Idle == [op |-> "idle", id |-> 0, rec |-> NewRecord("incident", 0, "none", 0)]

\* What a client may do with a record of a kind it has read or claimed.
Ops(kind) ==
    CASE kind = "task" -> {"complete"}
      [] kind \in {"external", "agent"} -> {"complete", "fail", "error"}
      [] kind = "incident" -> {"resolve"}
      [] OTHER -> {"trigger"}

------------------------------------------------------------------------------
\* newID: ids grow, so a new one is larger than any that is still mentioned.
TokenIds(toks) ==
    DOMAIN toks \cup {toks[t].ref : t \in DOMAIN toks} \cup {toks[t].par : t \in DOMAIN toks}
                \cup UNION {{s.own : s \in ToSet(toks[t].scope)} : t \in DOMAIN toks}

Ids == {0} \cup TokenIds(inst.toks) \cup TokenIds(run.toks)
           \cup DOMAIN inst.multi \cup DOMAIN run.multi
           \cup DOMAIN recs \cup {recs[i].tok : i \in DOMAIN recs}
           \cup {calls[c].id : c \in Clients}
           \cup {calls[c].rec.tok : c \in Clients}

Top == 0 - Min({0 - i : i \in Ids})    \* Max(Ids), in the order TLC looks

World == [def |-> run.def, st |-> run.st, toks |-> run.toks, multi |-> run.multi,
          again |-> run.again, spent |-> run.spent, recs |-> recs, top |-> Top]

\* The instance record in a world.
InstanceOf(w, susp) ==
    [def |-> w.def, st |-> w.st, susp |-> susp, toks |-> w.toks, multi |-> w.multi,
     again |-> w.again, spent |-> w.spent]

Becomes(w) ==
    /\ run' = InstanceOf(w, run.susp)
    /\ recs' = w.recs

NoTokens == [t \in {} |-> NewToken("none", <<>>)]
NoLoops == [t \in {} |-> [total |-> 0, next |-> 0, done |-> 0]]

Init ==
    /\ up = TRUE
    /\ \E p \in Processes :
          inst = [def |-> p, st |-> "none", susp |-> FALSE, toks |-> NoTokens,
                  multi |-> NoLoops, again |-> FALSE, spent |-> 0]
    /\ locked = FALSE
    /\ run = inst
    /\ recs = [i \in {} |-> Idle.rec]
    /\ calls = [c \in Clients |-> Idle]
    /\ ops = 0
    /\ crashes = 0

\* startInstance: the record is stored before any record refers to it.
StartInstance(bad) ==
    /\ up /\ inst.st = "none"
    /\ \E s \in Starts(inst.def, {"none"}) :
          inst' = [inst EXCEPT !.st = "active", !.toks = [t \in {1} |-> NewToken(s, <<>>)]]
    /\ locked' = TRUE
    /\ run' = inst'
    /\ recs' = RegisterEventSubprocesses(
                    [World EXCEPT !.toks = inst'.toks, !.top = 1], inst.def, 0, bad).recs
    /\ UNCHANGED <<up, calls, ops, crashes>>

------------------------------------------------------------------------------
\* drain: one action per kind of element.

ActiveTokens == {t \in DOMAIN run.toks : run.toks[t].st = "active"}

Draining == up /\ locked /\ run.st = "active" /\ ~run.susp /\ ActiveTokens # {}

\* nextActive
Next1 == Min(ActiveTokens)

\* The next token starts a loop rather than running the activity.
Loops1 == Node[run.toks[Next1].el].multi # "none" /\ ~IsMIChild(World, Next1)

\* The next token to step is at a known element of one of these types.
At(types) ==
    /\ Draining
    /\ Known(World, Next1)
    /\ Type(run.toks[Next1].el) \in types
    /\ ~Loops1

Stepped(w) == Becomes(w) /\ UNCHANGED <<up, inst, locked, calls, ops, crashes>>

\* The outcomes of the conditions that the next step may evaluate: on the way
\* out of an element where a token is or will be.
Truths ==
    LET elements == {run.toks[t].el : t \in DOMAIN run.toks}
                    \cup {calls[c].rec.el : c \in {d \in Clients : calls[d] # Idle}}
        tested == {f \in UNION {Outgoing(e) : e \in elements} : Flow[f].when = "condition"}
        loops == IF \E e \in elements : Node[e].multi # "none"
                   THEN {{}, {-2}, {-1}, {0}} ELSE {{}}
    IN  {y \cup l : y \in SUBSET (tested \cup (IF tested = {} THEN {} ELSE {0})), l \in loops}

\* The timers of each process that have an expression for their time, and those
\* of them whose expression may fail to evaluate now.
DynamicTimers == [p \in Processes |-> {e \in Elements : Node[e].dynamic /\ RootOf[e] = p}]
Faults == SUBSET DynamicTimers[run.def]

\* Start, throw and boundary events are left at once.
StepEvent(yes) ==
    At({"start", "throw", "boundary"}) /\ Stepped(TakeOutgoing(World, Next1, yes))

StepEndEvent(yes) == At({"end"}) /\ Stepped(EndEvent(World, Next1, yes))

StepExclusiveGateway(yes) ==
    /\ At({"exclusive"})
    /\ Stepped(Follow(World, Next1, FirstFlow(run.toks[Next1].el, yes)))

StepParallelGateway == At({"parallel"}) /\ Stepped(ParallelGateway(World, Next1))

StepInclusiveGateway(yes) ==
    At({"inclusive"}) /\ Stepped(InclusiveGateway(World, Next1, yes))

StepEventBasedGateway(bad) ==
    At({"eventBased"}) /\ Stepped(EventBasedGateway(World, Next1, bad))

StepCatch(bad) == At({"catch"}) /\ Stepped(Await(World, Next1, bad))

StepReceiveTask(bad) == At({"receive"}) /\ Stepped(Await(Begin(World, Next1, bad), Next1, bad))

StepUserTask(bad) ==
    At({"user"}) /\ Stepped(AwaitWorker(Begin(World, Next1, bad), Next1, "task"))

StepExternalTask(bad) ==
    At({"external"}) /\ Stepped(AwaitWorker(Begin(World, Next1, bad), Next1, "external"))

\* agentTask, serviceTask: what may run inside the step.  An agent may not once
\* the instance's token budget is spent.
Runs1 == Type(run.toks[Next1].el) = "invoke" => run.spent < Budget

\* A synchronous activity succeeds, fails or throws a BPMN error.
StepServiceTask(yes, bad) ==
    At({"service"}) /\ Stepped(CompleteActivity(Begin(World, Next1, bad), Next1, yes))

\* An in-process agent answers and the guard accepts or rejects the result.
StepInvokeAgent(yes, bad) ==
    /\ At({"invoke"}) /\ Runs1
    /\ \E use \in 0..1, accepted \in BOOLEAN :
          Stepped(AgentResult(Begin(World, Next1, bad), Next1, use, accepted, yes))

StepServiceTaskFails(bad) ==
    /\ At({"service", "invoke"}) /\ Runs1
    /\ Stepped(HandleActivityFailure(Begin(World, Next1, bad), Next1))

StepServiceTaskThrows(bad) ==
    /\ At({"service", "invoke"}) /\ Runs1
    /\ Stepped(ThrowError(Begin(World, Next1, bad), Next1))

\* checkAgentBudget refuses an in-process agent.
StepOverBudget(bad) ==
    /\ At({"invoke"}) /\ ~Runs1
    /\ Stepped(RaiseIncident(Begin(World, Next1, bad), Next1))

StepAgentTask(bad) == At({"agent"}) /\ Stepped(AgentTask(Begin(World, Next1, bad), Next1))

\* The collection has n items, or does not evaluate to a list.
StepMultiInstance(yes, bad) ==
    /\ Draining /\ Known(World, Next1) /\ Loops1
    /\ \/ \E n \in 0..MaxItems : Stepped(StartMultiInstance(World, Next1, n, yes, bad))
       \/ Stepped(RaiseIncident(World, Next1))

StepSubProcess(bad) == At({"sub"}) /\ Stepped(EnterSubProcess(Begin(World, Next1, bad), Next1, bad))

\* applyInputs: an input mapping of the activity fails to evaluate.
StepInputFails ==
    /\ At(Activities)
    /\ Node[run.toks[Next1].el].inputs
    /\ Stepped(RaiseIncident(World, Next1))

StepUnknownElement ==
    /\ Draining
    /\ ~Known(World, Next1)
    /\ Stepped(RaiseIncident(World, Next1))

\* resume, startInstance: the drained copy is stored and the lock released.
PutInstance ==
    /\ up /\ locked
    /\ ~Draining
    /\ inst' = run
    /\ locked' = FALSE
    /\ UNCHANGED <<up, run, recs, calls, ops, crashes>>

------------------------------------------------------------------------------
\* Operations: first the read or the claim, then the work under the lock.

Ask == ops < MaxOps[inst.def] /\ ops' = ops + 1

\* GetTask, GetExternalTask, ListSubscriptions, GetIncident
Read(c, i, op) ==
    /\ up
    /\ calls[c] = Idle
    /\ recs[i].kind \in {"task", "external", "agent", "sub", "incident"}
    /\ op \in Ops(recs[i].kind)
    /\ calls' = [calls EXCEPT ![c] = [op |-> op, id |-> i, rec |-> recs[i]]]
    /\ Ask
    /\ UNCHANGED <<up, inst, locked, run, recs, crashes>>

\* DueJobs: a claimed job is deleted.
ClaimJob(c, i) ==
    /\ up
    /\ calls[c] = Idle
    /\ recs[i].kind \in {"timer", "async", "retry"}
    /\ calls' = [calls EXCEPT ![c] = [op |-> "trigger", id |-> i, rec |-> recs[i]]]
    /\ recs' = Without(recs, {i})
    /\ Ask
    /\ UNCHANGED <<up, inst, locked, run, crashes>>

\* The token still waits for the record the caller read.
StillWaits(q, states) ==
    /\ q.rec.tok \in DOMAIN inst.toks
    /\ inst.toks[q.rec.tok].st \in states
    /\ inst.toks[q.rec.tok].ref = q.id

\* The operation finds what it needs.
Accepted(q) ==
    /\ inst.st = "active"
    /\ CASE q.rec.kind = "task" -> StillWaits(q, {"task"})
         [] q.rec.kind \in {"external", "agent"} -> StillWaits(q, {q.rec.kind})
         [] q.rec.kind \in {"async", "retry"} -> StillWaits(q, {"retry"})
         [] q.rec.kind = "timer" -> Triggers(World, q.rec)
         [] q.rec.kind = "sub" -> q.id \in DOMAIN recs /\ Triggers(World, q.rec)
         [] OTHER -> TRUE

\* Client c's operation gets the lock and changes the instance.
Serve(c, kinds, op, w) ==
    /\ up /\ ~locked
    /\ calls[c].op = op
    /\ calls[c].rec.kind \in kinds
    /\ Accepted(calls[c])
    /\ locked' = TRUE
    /\ calls' = [calls EXCEPT ![c] = Idle]
    /\ Becomes(w)
    /\ UNCHANGED <<up, inst, ops, crashes>>

\* The world after the client's record is closed.
Closed(c) == [World EXCEPT !.recs = Without(@, {calls[c].id})]
Tok(c) == calls[c].rec.tok

\* CompleteTask, CompleteExternalTask
Complete(c, yes) ==
    Serve(c, {"task", "external"}, "complete", CompleteActivity(Closed(c), Tok(c), yes))

\* CompleteAgentJob
CompleteAgentJob(c, yes) ==
    \E use \in 0..1, accepted \in BOOLEAN :
        Serve(c, {"agent"}, "complete", AgentResult(Closed(c), Tok(c), use, accepted, yes))

\* FailExternalTask, FailAgentJob with an error code
FailWithError(c) == Serve(c, {"external", "agent"}, "error", ThrowError(Closed(c), Tok(c)))

\* Mutant: a task is handed out again however often it has failed.
FailForever(c) ==
    LET rec == calls[c].rec
    IN  Serve(c, {"external"}, "fail",
              [World EXCEPT !.recs = With(@, calls[c].id, [rec EXCEPT !.left = @ - 1])])

\* FailExternalTask, FailAgentJob: the record the worker read loses a retry, or
\* is closed.
Fail(c) ==
    LET rec == calls[c].rec
        again == [World EXCEPT !.recs = With(@, calls[c].id, [rec EXCEPT !.left = @ - 1])]
    IN  Serve(c, {"external", "agent"}, "fail",
              IF rec.left > 1 THEN again ELSE RaiseIncident(Closed(c), Tok(c)))

\* triggerSubscription, executeJob of a timer
Trigger(c, yes) ==
    Serve(c, {"timer", "sub"}, "trigger",
          EventTriggered(World, calls[c].rec, calls[c].id, yes))

\* executeJob of an async continuation or a retry
RunJob(c) ==
    Serve(c, {"async", "retry"}, "trigger",
          [World EXCEPT !.toks[Tok(c)].st = "active", !.toks[Tok(c)].ref = 0])

\* ResolveIncident
ResolveIncident(c) ==
    LET w == Closed(c)
        waits == Tok(c) \in DOMAIN w.toks /\ w.toks[Tok(c)].st \in WaitRetry
    IN  Serve(c, {"incident"}, "resolve",
              IF waits THEN [w EXCEPT !.toks[Tok(c)].st = "active", !.toks[Tok(c)].ref = 0]
              ELSE w)

\* eventTriggered returns an error: a migration has renamed the element.
Fails(q) ==
    /\ inst.st = "active"
    /\ q.rec.kind \in {"timer", "sub"}
    /\ q.rec.kind = "sub" => q.id \in DOMAIN recs
    /\ ~Found(World, q.rec)

\* requeueFailedJob: a timer is tried again, then becomes an incident.  A
\* subscription stays as it is.
RequeueFailedJob(c) ==
    LET q == calls[c]
        again == [q.rec EXCEPT !.left = @ - 1]
        incident == NewRecord("incident", q.rec.tok, q.rec.el, 0)
    IN  /\ up /\ ~locked
        /\ Fails(q)
        /\ calls' = [calls EXCEPT ![c] = Idle]
        /\ recs' = CASE q.rec.kind = "sub" -> recs
                     [] q.rec.kind = "timer" /\ q.rec.left > 1 -> With(recs, q.id, again)
                     [] OTHER -> With(recs, Top + 1, incident)
        /\ UNCHANGED <<up, inst, locked, run, ops, crashes>>

\* The operation finds its wait gone.  triggerSubscription deletes the orphan;
\* requeueFailedJob drops the job of an instance that has ended.
Refuse(c) ==
    LET q == calls[c]
        orphan == inst.st = "active" /\ q.rec.kind = "sub"
    IN  /\ up /\ ~locked
        /\ q # Idle
        /\ ~Accepted(q) /\ ~Fails(q)
        /\ calls' = [calls EXCEPT ![c] = Idle]
        /\ recs' = IF orphan THEN Without(recs, {q.id}) ELSE recs
        /\ UNCHANGED <<up, inst, locked, run, ops, crashes>>

\* Mutant: the instance may have ended.
OperateAlways(w, susp) ==
    /\ up /\ ~locked
    /\ locked' = TRUE
    /\ run' = InstanceOf(w, susp)
    /\ recs' = w.recs
    /\ Ask
    /\ UNCHANGED <<up, inst, calls, crashes>>

\* An operation on the instance itself.
Operate(w, susp) ==
    /\ up /\ ~locked
    /\ inst.st = "active"
    /\ locked' = TRUE
    /\ run' = InstanceOf(w, susp)
    /\ recs' = w.recs
    /\ Ask
    /\ UNCHANGED <<up, inst, calls, crashes>>

CancelInstance == Operate(EndInstance(World, "terminated"), run.susp)

SuspendInstance ==
    /\ up /\ ~locked
    /\ inst.st = "active" /\ ~inst.susp
    /\ inst' = [inst EXCEPT !.susp = TRUE]
    /\ run' = inst'
    /\ Ask
    /\ UNCHANGED <<up, locked, recs, calls, crashes>>

ResumeInstance == inst.susp /\ Operate(World, FALSE)

\* SetVariables changes no control state, but drains.
SetVariables == Operate(World, run.susp)

------------------------------------------------------------------------------
\* MigrateInstance: validated as a whole, then the side records are rewritten
\* one by one, and the instance last.

MapID(p, e) == IF e \in DOMAIN p.map THEN p.map[e] ELSE e

Mapped(p, tok) ==
    [tok EXCEPT !.el = MapID(p, @),
                !.scope = [i \in DOMAIN @ |-> [el |-> MapID(p, @[i].el), own |-> @[i].own]]]

Migrated(p) ==
    [inst EXCEPT !.def = p.to, !.toks = [t \in DOMAIN @ |-> Mapped(p, @[t])]]

\* Mutant: only the types are compared.
MigratableTypes(p) ==
    \A t \in DOMAIN inst.toks : Type(MapID(p, inst.toks[t].el)) = Type(inst.toks[t].el)

\* Element.Type, of which these four are finer cases.  (The scripts, decisions
\* and manual tasks among "service" have types of their own in the code.)
BpmnType(e) ==
    IF Type(e) \in {"external", "service", "agent", "invoke"} THEN "serviceTask" ELSE Type(e)

\* Every token lands on an element of the same type, through scopes that exist,
\* in a wait state the element supports.
Migratable(p) ==
    \A t \in DOMAIN inst.toks :
        LET to == MapID(p, inst.toks[t].el)
        IN  /\ Known([World EXCEPT !.def = p.to, !.toks = Migrated(p).toks], t)
            /\ BpmnType(to) = BpmnType(inst.toks[t].el)
            /\ inst.toks[t].st = "task" => Type(to) \in {"user", "agent", "invoke"}
            /\ inst.toks[t].st = "message" => Node[to].event = "message"
            /\ inst.toks[t].st = "multi" => Node[to].multi # "none"

\* The open records of these kinds carried over; external tasks and incidents
\* keep the old element.
Carried(p, kinds) ==
    [i \in DOMAIN recs |-> IF recs[i].kind \in kinds
                             THEN [recs[i] EXCEPT !.el = MapID(p, @)] ELSE recs[i]]

Migrates(p) == up /\ ~locked /\ inst.st = "active" /\ inst.def # p.to /\ Migratable(p)

MigrateInstance(p) ==
    /\ Migrates(p)
    /\ inst' = Migrated(p)
    /\ run' = inst'
    /\ recs' = Carried(p, {"task"} \cup EventWaits)
    /\ Ask
    /\ UNCHANGED <<up, locked, calls, crashes>>

\* The scheduler claims the job i after ListJobs and before PutJob, which puts
\* it back: the job is both claimed and stored.  (One job of a migration.)
MigrateClaimed(p, c, i) ==
    /\ Migrates(p)
    /\ calls[c] = Idle
    /\ recs[i].kind \in {"timer", "async", "retry"}
    /\ calls' = [calls EXCEPT ![c] = [op |-> "trigger", id |-> i, rec |-> recs[i]]]
    /\ inst' = Migrated(p)
    /\ run' = inst'
    /\ recs' = Carried(p, {"task"} \cup EventWaits)
    /\ Ask
    /\ UNCHANGED <<up, locked, crashes>>

\* The process dies in the middle: tasks, jobs and subscriptions go in turn.
MigrationCrash(p) ==
    /\ Migrates(p)
    /\ crashes < MaxCrashes
    /\ \E kinds \in {{"task"}, {"task"} \cup (EventWaits \ {"sub"}), {"task"} \cup EventWaits} :
          recs' = Carried(p, kinds)
    /\ up' = FALSE
    /\ calls' = [c \in Clients |-> Idle]
    /\ crashes' = crashes + 1
    /\ UNCHANGED <<inst, locked, run, ops>>

------------------------------------------------------------------------------
\* The process dies: the instance as last stored and the records survive.
Crash ==
    /\ up
    /\ crashes < MaxCrashes
    /\ up' = FALSE
    /\ locked' = FALSE
    /\ run' = inst
    /\ calls' = [c \in Clients |-> Idle]
    /\ crashes' = crashes + 1
    /\ UNCHANGED <<inst, recs, ops>>

\* Mutant: jobs of retries and async continuations are not looked at.
TimerLost(w) ==
    {t \in DOMAIN w.toks : w.toks[t].st = "timer" /\ w.toks[t].ref \notin DOMAIN w.recs}

\* Tokens whose task is finished, and tokens whose job is gone.
TaskLost(w) ==
    {t \in DOMAIN w.toks : w.toks[t].st = "task" /\ w.toks[t].ref \notin DOMAIN w.recs}
JobLost(w) ==
    {t \in DOMAIN w.toks : w.toks[t].st \in {"timer", "retry"}
                           /\ w.toks[t].ref \notin DOMAIN w.recs}

\* reconcile: a lost task becomes an incident, a lost job re-activates its
\* element.
Reconcile(w) ==
    LET lost == TaskLost(w)
        q == SetToSeq(lost)
        id(t) == w.top + (CHOOSE i \in DOMAIN q : q[i] = t)
        fixed(t) == CASE t \in lost -> [w.toks[t] EXCEPT !.st = "incident", !.ref = id(t)]
                      [] t \in JobLost(w) -> [w.toks[t] EXCEPT !.st = "active", !.ref = 0]
                      [] OTHER -> w.toks[t]
    IN  [w EXCEPT !.toks = [t \in DOMAIN @ |-> fixed(t)],
                  !.recs = Over(@, [i \in {id(t) : t \in lost} |->
                      NewRecord("incident", q[i - w.top], w.toks[q[i - w.top]].el, 0)])]

\* Start: reconcile drains an instance it changed, and cancels the open tasks
\* of one that has ended.
Restart ==
    LET changed == inst.st = "active" /\ TaskLost(World) \cup JobLost(World) # {}
        orphans == {i \in DOMAIN recs : recs[i].kind = "task" /\ inst.st # "active"}
    IN  /\ ~up
        /\ up' = TRUE
        /\ locked' = changed
        /\ IF changed THEN Becomes(Reconcile(World))
           ELSE run' = run /\ recs' = Without(recs, orphans)
        /\ UNCHANGED <<inst, calls, ops, crashes>>

------------------------------------------------------------------------------
Step ==
    \/ \E yes \in Truths :
          \/ StepEvent(yes)
          \/ StepEndEvent(yes)
          \/ StepExclusiveGateway(yes)
          \/ StepInclusiveGateway(yes)
          \/ \E bad \in Faults :
                \/ StepServiceTask(yes, bad)
                \/ StepInvokeAgent(yes, bad)
                \/ StepMultiInstance(yes, bad)
    \/ \E bad \in Faults :
          \/ StepEventBasedGateway(bad)
          \/ StepCatch(bad)
          \/ StepReceiveTask(bad)
          \/ StepUserTask(bad)
          \/ StepExternalTask(bad)
          \/ StepServiceTaskFails(bad)
          \/ StepServiceTaskThrows(bad)
          \/ StepOverBudget(bad)
          \/ StepAgentTask(bad)
          \/ StepSubProcess(bad)
    \/ StepParallelGateway
    \/ StepInputFails
    \/ StepUnknownElement

Request(c) ==
    \E i \in DOMAIN recs :
        \/ \E op \in Ops(recs[i].kind) : Read(c, i, op)
        \/ ClaimJob(c, i)

Answer(c) ==
    \/ \E yes \in Truths : Complete(c, yes) \/ Trigger(c, yes)
                           \/ CompleteAgentJob(c, yes)
    \/ FailWithError(c)
    \/ Fail(c)
    \/ RunJob(c)
    \/ ResolveIncident(c)
    \/ RequeueFailedJob(c)
    \/ Refuse(c)

Control ==
    \/ CancelInstance
    \/ SuspendInstance
    \/ ResumeInstance
    \/ SetVariables
    \/ \E p \in Plans :
          \/ MigrateInstance(p)
          \/ \E c \in Clients, i \in DOMAIN recs : MigrateClaimed(p, c, i)

Next ==
    \/ \E bad \in Faults : StartInstance(bad)
    \/ Step
    \/ PutInstance
    \/ \E c \in Clients : Request(c) \/ Answer(c)
    \/ Control
    \/ Crash
    \/ \E p \in Plans : MigrationCrash(p)
    \/ Restart

Spec == Init /\ [][Next]_vars

------------------------------------------------------------------------------
Instances ==
    [def : Processes,
     st : {"none", "active", "completed", "terminated"},
     susp : BOOLEAN,
     again : BOOLEAN,
     spent : Nat]

IsInstance(x) ==
    /\ [def |-> x.def, st |-> x.st, susp |-> x.susp, again |-> x.again,
        spent |-> x.spent] \in Instances
    /\ \A t \in DOMAIN x.multi : t \in Nat \ {0} /\ x.multi[t] \in Loop
    /\ DOMAIN x.toks \subseteq Nat \ {0}
    /\ \A t \in DOMAIN x.toks : x.toks[t] \in Token

\* Instance, working copy, records and requests have their types, whatever the
\* runtime makes of them; in particular no retry counter runs past its bound
\* (handleActivityFailure, FailExternalTask).
TypeOK ==
    /\ up \in BOOLEAN
    /\ IsInstance(inst)
    /\ locked \in BOOLEAN
    /\ IsInstance(run)
    /\ DOMAIN recs \subseteq Nat \ {0}
    /\ \A i \in DOMAIN recs : recs[i] \in Record
    /\ \A c \in Clients : calls[c] = Idle \/
           /\ calls[c].op \in Ops(calls[c].rec.kind)
           /\ calls[c].id \in Nat \ {0}
           /\ calls[c].rec \in Record
    /\ \E p \in Processes : ops \in 0..MaxOps[p]
    /\ crashes \in 0..MaxCrashes

Ended == inst.st \in {"completed", "terminated"}

\* Nothing runs: the stored instance is what there is.
Quiet == up /\ ~locked

\* Some client has claimed the job with this id.
Claimed(i) == \E c \in Clients : calls[c].id = i /\ calls[c].op = "trigger"

Held(i, kinds, t) == i \in DOMAIN recs /\ recs[i].kind \in kinds /\ recs[i].tok = t

\* Something can still wake the token.
CanWake(t) ==
    LET tok == inst.toks[t]
        waitFor(e) ==
            \/ \E i \in DOMAIN recs : Held(i, {"timer", "sub"}, t) /\ recs[i].el = e
            \/ \E c \in Clients : calls[c].rec.tok = t /\ calls[c].rec.el = e
    IN  CASE tok.st = "task" -> Held(tok.ref, {"task"}, t)
          [] tok.st \in {"external", "agent"} -> Held(tok.ref, {tok.st}, t)
          [] tok.st \in {"timer", "retry"} ->
                Held(tok.ref, {"timer", "async", "retry"}, t) \/ Claimed(tok.ref)
          [] tok.st = "message" -> Held(tok.ref, {"sub"}, t)
          [] tok.st = "incident" -> Held(tok.ref, {"incident"}, t)
          [] tok.st = "events" ->
                \A f \in Outgoing(tok.el) : waitFor(Flow[f].to)
          [] tok.st = "child" ->
                Inside([toks |-> inst.toks],
                       Append(tok.scope, [el |-> tok.el, own |-> t])) # {}
          [] tok.st = "multi" -> \E u \in DOMAIN inst.toks : inst.toks[u].par = t
          [] tok.st = "joining" ->
                \E u \in DOMAIN inst.toks : inst.toks[u].st # "joining"
          [] OTHER -> inst.susp

\* Ids a and b name one element, before and after a migration.
Same(a, b) == a = b \/ \E p \in Plans : MapID(p, a) = b

\* A wait registered for a token belongs to where the token is: on the
\* activity a boundary event watches, on the sub-process whose event
\* sub-process it starts, on the event-based gateway (also when another target's
\* timer has raised an incident there), or on the waiting element itself.
Belongs(i) ==
    LET e == recs[i].el
        tok == inst.toks[recs[i].tok]
    IN  /\ ~Ended
        /\ \/ recs[i].tok \in DOMAIN inst.toks
           \/ recs[i].tok = 0 /\ Type(e) = "start"
        /\ recs[i].tok # 0 =>
              CASE Type(e) = "boundary" -> Same(Node[e].at, tok.el)
                [] Type(e) = "start" -> tok.st = "child" /\ tok.el = Node[Node[e].in].in
                [] OTHER -> \/ Type(tok.el) = "eventBased"
                            \/ Same(e, tok.el) /\ tok.ref = i

------------------------------------------------------------------------------
\* Whatever interleaving of completions, failures, timers, messages and
\* operators' actions led here, a parked token has what will wake it: an open
\* task, a stored or claimed job, a subscription, an open incident, a token
\* inside its sub-process, a running iteration of its loop, or, at a join, a
\* token that still moves.  And an instance that has not ended has a token, if
\* no loop was started over (see LoopsAccounted).
\* (docs/architecture.md: never silent hangs.)
NoSilentHang ==
    Quiet /\ inst.st = "active" /\ crashes = 0 =>
        /\ \A t \in DOMAIN inst.toks : CanWake(t)
        /\ inst.again \/ inst.toks # NoTokens

\* No migration plan leads to the process def or renames the element e.
Unmigrated(e, def) == \A p \in Plans : p.to # def /\ e \notin DOMAIN p.map

\* A crash at any point (between a claim and its execution, between the change
\* of a side record and the stored instance) leaves no token waiting for a user
\* task, a timer or a retry that is gone: reconcile turns it into an incident or
\* runs its element again.  (A timer that a migration renames while it is
\* claimed, or renames alone because of a crash, is not found any more: it fails
\* until it is an incident, and its token waits on.)
WaitsRecovered ==
    Quiet /\ inst.st = "active" =>
        \A t \in DOMAIN inst.toks :
            \/ inst.toks[t].st \in {"task", "retry"}
            \/ inst.toks[t].st = "timer" /\ Unmigrated(inst.toks[t].el, inst.def)
            => CanWake(t)

\* Every open task, external task, timer and subscription belongs to a token
\* that is where the record says: interrupting, completing or killing a scope
\* leaves none behind, and an ended instance has none.  (A timer that was
\* claimed before a migration and put back after it keeps its old element, and
\* fails until it is an incident.)
NoOrphanRecords ==
    Quiet /\ inst.st # "none" /\ crashes = 0 =>
        \A i \in DOMAIN recs :
            /\ recs[i].kind \in {"task", "external", "agent", "timer", "sub"}
            /\ recs[i].kind = "timer" => Found(World, recs[i])
            => Belongs(i)

\* The token is in an event sub-process that a timer has started where it does
\* not belong.  The scheduler had claimed the timer when the owner of the scope
\* moved on, and eventSubprocessTriggered takes whatever element the owner is at
\* for the scope (events.go:116).
Stray(t) ==
    LET s == inst.toks[t].scope
    IN  \E k \in 2..Len(s) : /\ Starts(s[k].el, {"timer"}) # {}
                             /\ Node[s[k].el].byEvent
                             /\ Node[s[k].el].in # s[k - 1].el

\* A token inside a sub-process has its owner waiting there, level by level, so
\* that an event sub-process runs inside a scope that is still open.  Left out is
\* the token of a claimed timer that came after its scope was left (Stray).
ScopesOwned ==
    Quiet /\ crashes = 0 => \A t \in {u \in DOMAIN inst.toks : ~Stray(u)} :
        LET s == inst.toks[t].scope
        IN  \A k \in DOMAIN s :
               IF Node[s[k].el].byEvent THEN s[k].own = 0
               ELSE /\ s[k].own \in DOMAIN inst.toks
                    /\ inst.toks[s[k].own].st = "child"
                    /\ inst.toks[s[k].own].el = s[k].el
                    /\ inst.toks[s[k].own].scope = SubSeq(s, 1, k - 1)

\* However a completion, a timer and an error race for an activity, its branch
\* is continued once: no join ever holds two tokens of one branch.
NoDoubleArrival ==
    \A t, u \in DOMAIN run.toks :
        /\ run.toks[t].st = "joining" /\ run.toks[u].st = "joining"
        /\ run.toks[t].el = run.toks[u].el /\ run.toks[t].scope = run.toks[u].scope
        /\ run.toks[t].flow = run.toks[u].flow
        => t = u

\* A multi-instance loop and its iterations live and die together, whatever
\* boundary event, error, completion condition or failed expression ends it: an
\* iteration has its coordinator at the same place, and a coordinator that waits
\* has an iteration for every item still to be done (the next one, when the loop
\* is sequential).  A loop that is started over, after an incident on its
\* coordinator, runs beside what is left of the first round, and is left out.
LoopsAccounted ==
    Quiet /\ inst.st = "active" /\ ~inst.again =>
        LET kids(t) == {k \in DOMAIN inst.toks : inst.toks[k].par = t}
            open(t) == IF Node[inst.toks[t].el].multi = "sequential" THEN 1
                       ELSE inst.multi[t].total - inst.multi[t].done
        IN  /\ DOMAIN inst.multi \subseteq DOMAIN inst.toks
            /\ \A t \in DOMAIN inst.toks : inst.toks[t].par # 0 =>
                  /\ inst.toks[t].par \in DOMAIN inst.multi
                  /\ inst.toks[inst.toks[t].par].el = inst.toks[t].el
                  /\ inst.toks[inst.toks[t].par].scope = inst.toks[t].scope
            /\ \A t \in DOMAIN inst.toks : inst.toks[t].st = "multi" =>
                  Cardinality(kids(t)) >= open(t)

\* A migration puts no token where the new process has no such element or
\* scope, in particular none inside a sub-process that was renamed or is gone.
\* Nor does any other step, but for the claimed timer of an event sub-process
\* that comes after its scope was left (Stray).
TokensPlaced ==
    Quiet /\ inst.st = "active" /\ crashes = 0 =>
        \A t \in DOMAIN inst.toks : Known(World, t) \/ Stray(t)

\* An instance that has ended stays as it is, and late calls, jobs and messages
\* create no record for it.
EndIsFinal ==
    [][Ended => inst' = inst /\ DOMAIN recs' \subseteq DOMAIN recs]_vars

------------------------------------------------------------------------------
\* docs/bpmn-coverage.md of the inclusive gateway: a join fires when no other
\* token can still reach it.
InclusiveJoinFires ==
    Quiet /\ inst.st = "active" =>
        \A t \in DOMAIN inst.toks :
            inst.toks[t].st = "joining" /\ Type(inst.toks[t].el) = "inclusive"
                => ~InclusiveJoinReady(World, t)

\* docs/architecture.md of recovery: broken states become visible incidents,
\* never silent hangs.
NoSilentHangAfterCrash ==
    Quiet /\ inst.st = "active" => \A t \in DOMAIN inst.toks : CanWake(t)

\* docs/bpmn-coverage.md of resolving an incident: the element is activated again
\* with a fresh retry budget.
FreshRetries ==
    [][\A t \in DOMAIN run.toks \cap DOMAIN run'.toks :
          run.toks[t].st = "incident" /\ run'.toks[t].st = "active"
              => run'.toks[t].tries = 0]_vars
==============================================================================
