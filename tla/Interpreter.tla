----------------------------- MODULE Interpreter -----------------------------
(***************************************************************************)
(* engine/exec.go, activity.go, events.go: how one instance moves through  *)
(* its process model, as operators on a world                              *)
(*     [def, st, toks, multi, again, spent, recs, top]                     *)
(* (process, instance state, token map, running loops by the id of their   *)
(* coordinator, whether a running loop was started over, agent budget      *)
(* used, open side records, highest id in use).  The engine module turns   *)
(* them into actions.                                                      *)
(*                                                                         *)
(* Side records (user tasks, external tasks, jobs, subscriptions,          *)
(* incidents) are kept while they are open: a task that is completed or    *)
(* canceled, a deleted job and a resolved incident are absent.             *)
(*                                                                         *)
(* Variables are left out.  Which flow conditions hold is a parameter      *)
(* "yes", a set of flows; 0 \in yes says that a condition fails to         *)
(* evaluate, -1 \in yes that a multi-instance completion condition holds,  *)
(* -2 \in yes that a multi-instance output expression fails.  The timers    *)
(* whose time fails to evaluate are a parameter "bad", a set of elements.  *)
(***************************************************************************)
EXTENDS ProcessModel, Integers, SequencesExt

CONSTANTS
    Retries,    \* attempts an activity has: el.Retries, 3 unless modelled
    Budget      \* AgentGuard.MaxTokensPerInstance

ASSUME InterpreterAssumption ==
    /\ Retries \in Nat \ {0}
    /\ Budget \in Nat \ {0}
    /\ 0 \notin Flows

\* Token.State.  "retry" and "incident" are both TokenWaitRetry: WaitRef is a
\* job in the first case and an incident in the second.
WaitStates == {"task", "external", "agent", "timer", "message", "events", "retry",
               "incident", "child", "multi"}
TokenStates == WaitStates \cup {"active", "joining"}
WaitRetry == {"retry", "incident"}

\* A scope is the zipped ScopePath and ScopeOwners of a token; owner 0 is the
\* empty owner of an event sub-process.
Scopes == Seq([el : Elements, own : Nat])

\* MultiInstanceState
Loop == [total : Nat, next : Nat, done : Nat]

Token == [el : Elements,
          st : TokenStates,
          ref : Nat,            \* WaitRef, 0 when empty
          flow : Nat,           \* ArrivedFlow, 0 when none
          scope : Scopes,
          tries : Nat,          \* LocalVars["__attempts"]
          par : Nat,            \* Parent: the coordinator of an iteration, 0 for none
          mi : Elements \cup {"none"}]   \* LocalVars["__miChild"]

EventWaits == {"timer", "sub", "async", "retry"}    \* jobs and subscriptions
RecordKinds == EventWaits \cup {"task", "external", "agent", "incident"}

Record == [kind : RecordKinds,
           tok : Nat,           \* TokenID, 0 when empty
           el : Elements,
           left : Nat]          \* Retries of a task or job

NewToken(e, scope) ==
    [el |-> e, st |-> "active", ref |-> 0, flow |-> 0, scope |-> scope, tries |-> 0,
     par |-> 0, mi |-> "none"]

NewRecord(kind, t, e, left) == [kind |-> kind, tok |-> t, el |-> e, left |-> left]

Without(f, S) == [x \in DOMAIN f \ S |-> f[x]]
With(f, x, y) == [z \in DOMAIN f \cup {x} |-> IF z = x THEN y ELSE f[z]]
Over(f, g) == [x \in DOMAIN f \cup DOMAIN g |-> IF x \in DOMAIN f THEN f[x] ELSE g[x]]

------------------------------------------------------------------------------
\* Model resolution.

ContainerAt(w, s) == IF s = <<>> THEN w.def ELSE Last(s).el

\* containerAt finds a container for the path.
Resolves(w, s) ==
    \A i \in DOMAIN s :
        /\ Type(s[i].el) = "sub"
        /\ Node[s[i].el].in = ContainerAt(w, SubSeq(s, 1, i - 1))

\* element finds the token's element.
Known(w, t) ==
    /\ Resolves(w, w.toks[t].scope)
    /\ Node[w.toks[t].el].in = ContainerAt(w, w.toks[t].scope)

Inside(w, s) == {t \in DOMAIN w.toks : IsPrefix(s, w.toks[t].scope)}

------------------------------------------------------------------------------
\* Records, and the tokens that wait for them.

\* spawnToken
Spawn(w, tok) ==
    [w EXCEPT !.toks = With(@, w.top + 1, tok), !.top = @ + 1]

\* Put a record and park the token on it.
Park(w, t, st, rec) ==
    [w EXCEPT !.recs = With(@, w.top + 1, rec),
              !.toks[t].st = st,
              !.toks[t].ref = w.top + 1,
              !.top = @ + 1]

\* raiseIncident
RaiseIncident(w, t) ==
    Park(w, t, "incident", NewRecord("incident", t, w.toks[t].el, 0))

WaitKind(e) == IF Node[e].event = "timer" THEN "timer" ELSE "sub"

\* Job.Retries, 3 in the code; a subscription has none.
WaitRetries(e) == IF WaitKind(e) = "timer" THEN Retries ELSE 0

\* The records of the events that token t waits for.
CreateEventWaits(w, t, events) ==
    LET q == SetToSeq(events)
        ids == (w.top + 1)..(w.top + Len(q))
        wait(e) == NewRecord(WaitKind(e), t, e, WaitRetries(e))
    IN  [w EXCEPT !.recs = Over(@, [i \in ids |-> wait(q[i - w.top])]),
                  !.top = @ + Len(q)]

\* createEventWait without a WaitRef, for each of the events.  A timer that
\* fails raises an incident on the token, and the next event is registered: of
\* several incidents the token refers to the last.
RegisterWaits(w, t, events, bad) ==
    LET v == CreateEventWaits(w, t, events \ bad)
        n == v.top + Cardinality(events \cap bad)
        incident == NewRecord("incident", t, w.toks[t].el, 0)
    IN  IF events \cap bad = {} THEN v
        ELSE [v EXCEPT !.recs = Over(@, [i \in (v.top + 1)..n |-> incident]),
                       !.toks[t].st = "incident", !.toks[t].ref = n,
                       !.top = n]

\* registerEventSubprocesses: the owner is 0 for the process root.  A timer that
\* fails is logged and left out.
RegisterEventSubprocesses(w, c, owner, bad) ==
    CreateEventWaits(w, owner, EventStarts(c, {"timer", "message"}) \ bad)

\* dropTokenEventWaits, cancelBoundaries
DropTokenEventWaits(w, T) ==
    [w EXCEPT !.recs = Without(@, {i \in DOMAIN @ : @[i].tok \in T
                                                    /\ @[i].kind \in EventWaits})]

Discard(w, T) == [w EXCEPT !.toks = Without(@, T)]

\* The scope instance that t opens at its element.
InnerScope(w, t) == Append(w.toks[t].scope, [el |-> w.toks[t].el, own |-> t])

\* miCoordinatorFor finds the coordinator of a running loop for t.
HasCoordinator(w, t) ==
    /\ t \in DOMAIN w.toks
    /\ w.toks[t].par \in DOMAIN w.multi \cap DOMAIN w.toks

\* The iterations of the coordinators in T, with everything inside them.
Iterations(w, T) ==
    LET kids == {k \in DOMAIN w.toks : w.toks[k].par \in T}
        subs == {k \in kids : Known(w, k) /\ Type(w.toks[k].el) = "sub"}
    IN  kids \cup UNION {Inside(w, InnerScope(w, k)) : k \in subs}

\* The waits of the tokens in T go, and the loops of those in C.
DropWaits(w, T, C) ==
    LET held == {w.toks[t].ref : t \in {u \in T : w.toks[u].st \in {"task", "external", "agent"}}}
        v == DropTokenEventWaits(w, T)
    IN  [v EXCEPT !.recs = Without(@, held), !.multi = Without(@, C)]

\* Mutant: the iterations of a canceled loop go on.
CancelOwnWaits(w, T) == DropWaits(w, T, T)

\* cancelWaits, of all tokens in T: what they wait for, and their iterations.
CancelWaits(w, T) ==
    LET gone == Iterations(w, T \cap DOMAIN w.multi)
    IN  Discard(DropWaits(w, T \cup gone, T \cup gone), gone \ T)

\* Mutant: the tokens' waits are canceled, the tokens stay.
KillScopeKeepsTokens(w, s, exclude) ==
    CancelWaits(w, {t \in Inside(w, s) :
                        ~(/\ Len(w.toks[t].scope) > Len(s)
                          /\ w.toks[t].scope[Len(s) + 1].el = exclude)})

\* killScopeTokens: all tokens inside the scope but those in the excluded child
\* scope.
KillScopeTokens(w, s, exclude) ==
    LET inChild(t) == /\ Len(w.toks[t].scope) > Len(s)
                      /\ w.toks[t].scope[Len(s) + 1].el = exclude
        T == {t \in Inside(w, s) : ~inChild(t)}
    IN  Discard(CancelWaits(w, T), T)

\* completeInstance and terminate, with cleanupInstanceRecords: every record
\* but the incidents is canceled.
EndInstance(w, st) ==
    LET ended == Discard(w, DOMAIN w.toks)
    IN  [ended EXCEPT !.st = st,
                      !.recs = Without(@, {i \in DOMAIN @ : @[i].kind # "incident"})]

------------------------------------------------------------------------------
\* Sequence flows.

Default(e) == {f \in Outgoing(e) : Flow[f].when = "default"}
HoldingFlows(e, yes) ==
    {f \in Outgoing(e) : \/ Flow[f].when = "always"
                         \/ Flow[f].when = "condition" /\ f \in yes}

OrDefault(F, e) == IF F = {} THEN Default(e) ELSE F

\* The flows takeOutgoing and an inclusive fork follow; none raises an incident.
FlowsTaken(e, yes) ==
    LET fails == 0 \in yes /\ \E f \in Outgoing(e) : Flow[f].when = "condition"
    IN  IF fails THEN {} ELSE OrDefault(HoldingFlows(e, yes), e)

\* exclusiveGateway: the first that holds.
FirstFlow(e, yes) ==
    LET holding == HoldingFlows(e, yes)
        tested == Outgoing(e) \ Default(e)
        fails == 0 \in yes /\ tested # {} /\ Flow[Min(tested)].when = "condition"
    IN  IF fails THEN {}
        ELSE OrDefault(IF holding = {} THEN {} ELSE {Min(holding)}, e)

\* moveOver and maybeAsync: the token takes the first flow, siblings the others;
\* one that arrives at an async element waits for its job.
MoveOver(w, t, F) ==
    LET rank(f) == Cardinality({g \in F : g < f})
        id(f) == IF f = Min(F) THEN t ELSE w.top + rank(f)
        job(f) == w.top + Cardinality(F) + rank(f)
        async == {f \in F : Node[Flow[f].to].async}
        arrived(f) == [w.toks[t] EXCEPT !.el = Flow[f].to,
                                        !.flow = f,
                                        !.st = IF f \in async THEN "retry" ELSE "active",
                                        !.ref = IF f \in async THEN job(f) ELSE 0]
        by(i) == CHOOSE f \in F : id(f) = i
        due(i) == CHOOSE f \in async : job(f) = i
    IN  [w EXCEPT
          !.toks = Over([i \in {id(f) : f \in F} |-> arrived(by(i))], @),
          !.recs = Over(@, [i \in {job(f) : f \in async} |->
                            NewRecord("async", id(due(i)), Flow[due(i)].to, 0)]),
          !.top = @ + 2 * Cardinality(F)]

\* takeOutgoing, forkAll: no flow to take is an incident.
Follow(w, t, F) == IF F = {} THEN RaiseIncident(w, t) ELSE MoveOver(w, t, F)

TakeOutgoing(w, t, yes) == Follow(w, t, FlowsTaken(w.toks[t].el, yes))

\* completeActivity, of a token that is no multi-instance child.
LeaveActivity(w, t, yes) == TakeOutgoing(DropTokenEventWaits(w, {t}), t, yes)

------------------------------------------------------------------------------
\* Multi-instance loops.

\* isMIChild
IsMIChild(w, t) == w.toks[t].mi = w.toks[t].el

\* n calls of spawnMIChild
SpawnMIChildren(w, t, n) ==
    LET child == [NewToken(w.toks[t].el, w.toks[t].scope) EXCEPT !.par = t,
                                                                 !.mi = w.toks[t].el]
    IN  [w EXCEPT !.toks = Over(@, [i \in (w.top + 1)..(w.top + n) |-> child]),
                  !.top = @ + n]

\* startMultiInstance, over n items: the arriving token becomes the coordinator.
\* After an incident its loop may be running, and nobody cancels the iterations.
StartMultiInstance(w, t, n, yes, bad) ==
    LET e == w.toks[t].el
        first == IF Node[e].multi = "sequential" THEN 1 ELSE n
        v == [w EXCEPT !.again = @ \/ t \in DOMAIN w.multi]
        coordinator == [v EXCEPT !.toks[t].st = "multi", !.toks[t].ref = 0,
                                 !.multi = With(@, t, [total |-> n, next |-> first, done |-> 0])]
    IN  IF n = 0 THEN LeaveActivity(v, t, yes)
        ELSE SpawnMIChildren(RegisterWaits(coordinator, t, Awaited(e), bad), t, first)

\* finishMultiInstance: stragglers are canceled, the coordinator moves on.
FinishMultiInstance(w, p, yes) ==
    LeaveActivity([CancelWaits(w, {p}) EXCEPT !.toks[p].st = "active", !.toks[p].ref = 0],
                  p, yes)

\* miChildCompleted
MIChildCompleted(w, t, yes) ==
    LET p == w.toks[t].par
        gone == Discard(w, {t})
        v == [gone EXCEPT !.multi[p].done = @ + 1]
        loop == v.multi[p]
    IN  CASE p \notin DOMAIN w.toks -> gone
          [] p \in DOMAIN w.toks /\ -2 \in yes -> RaiseIncident(gone, p)
          [] p \in DOMAIN w.toks /\ -2 \notin yes /\ 0 \in yes -> RaiseIncident(v, p)
          [] p \in DOMAIN w.toks /\ yes \cap {-2, 0} = {}
                                 /\ (-1 \in yes \/ loop.done >= loop.total) ->
                FinishMultiInstance(v, p, yes)
          [] OTHER ->
                IF Node[w.toks[t].el].multi = "sequential" /\ loop.next < loop.total
                  THEN [SpawnMIChildren(v, p, 1) EXCEPT !.multi[p].next = @ + 1]
                  ELSE v

\* completeActivity
CompleteActivity(w, t, yes) ==
    IF w.toks[t].par \in DOMAIN w.multi /\ IsMIChild(w, t) THEN MIChildCompleted(w, t, yes)
    ELSE LeaveActivity(w, t, yes)

------------------------------------------------------------------------------
\* Scopes and end events.

\* checkScope would resume the scope's owner.
OwnerWaits(w, s) ==
    LET o == Last(s).own
    IN  /\ ~Node[Last(s).el].byEvent
        /\ o \in DOMAIN w.toks
        /\ w.toks[o].el = Last(s).el
        /\ w.toks[o].st = "child"

\* Mutant: an empty sub-process does not resume its owner.
CheckScopeLeavesOwner(w, s, yes) ==
    IF Inside(w, <<>>) = {} THEN EndInstance(w, "completed") ELSE w

\* checkScope: outward from s, to the first scope that still holds a token, has
\* a waiting owner, has no model, or is the instance.
CheckScope(w, s, yes) ==
    LET at(k) == SubSeq(s, 1, k)
        broken(k) == k > 0 /\ ~Resolves(w, at(k - 1))
        stops(k) == \/ k = 0
                    \/ Inside(w, at(k)) # {}
                    \/ broken(k)
                    \/ OwnerWaits(w, at(k))
        k0 == Max({k \in 0..Len(s) : stops(k)})
    IN  CASE Inside(w, at(k0)) # {} \/ broken(k0) -> w
          [] k0 = 0 -> EndInstance(w, "completed")
          [] OTHER -> LET own == Last(at(k0)).own
                      IN  CompleteActivity(DropTokenEventWaits(w, {own}), own, yes)

\* consume
Consume(w, t, yes) == CheckScope(Discard(w, {t}), w.toks[t].scope, yes)

\* A terminate end event ends the instance, or the enclosing sub-process.
TerminateEnd(w, t, yes) ==
    LET s == w.toks[t].scope
    IN  IF s = <<>> THEN EndInstance(w, "completed")
        ELSE CheckScope(KillScopeTokens(w, s, "none"), s, yes)

\* moveToBoundary
MoveToBoundary(w, t, b) ==
    [w EXCEPT !.toks[t].el = b, !.toks[t].st = "active",
              !.toks[t].ref = 0, !.toks[t].tries = 0, !.toks[t].mi = "none"]

\* propagateError, of an error thrown at e in scope s by token t, which is gone:
\* the innermost scope with a handler, an event sub-process before a boundary.
PropagateError(w, t, e, s) ==
    LET at(d) == SubSeq(s, 1, d)
        subs(d) == EventStarts(ContainerAt(w, at(d)), {"error"})
        bounds(d) == IF d = 0 THEN {} ELSE ErrorBoundaries(s[d].el)
        D == {d \in 0..Len(s) : Resolves(w, at(d)) /\ subs(d) \cup bounds(d) # {}}
        d0 == Max(D)
        start == CHOOSE x \in subs(d0) : TRUE
        b == CHOOSE x \in bounds(d0) : TRUE
        own == s[d0].own
        killed == KillScopeTokens(w, at(d0), "none")
        coord == killed.toks[own].par
        incident == [w EXCEPT !.recs = With(@, w.top + 1, NewRecord("incident", t, e, 0)),
                              !.top = @ + 1]
    IN  CASE D = {} -> EndInstance(incident, "terminated")
          [] D # {} /\ subs(d0) # {} ->
                Spawn(KillScopeTokens(w, at(d0), Node[start].in),
                      NewToken(start, Append(at(d0), [el |-> Node[start].in, own |-> 0])))
          [] D # {} /\ subs(d0) = {} /\ HasCoordinator(killed, own) ->
                MoveToBoundary(CancelWaits(killed, {coord}), coord, b)
          [] OTHER ->
                IF own \in DOMAIN killed.toks /\ killed.toks[own].el = s[d0].el
                  THEN [DropTokenEventWaits(killed, {own}) EXCEPT
                            !.toks[own].el = b, !.toks[own].st = "active",
                            !.toks[own].ref = 0]
                  ELSE Spawn(killed, NewToken(b, at(d0 - 1)))

\* throwError: an error boundary of the activity itself wins, and is taken by
\* the coordinator of a loop.
ThrowError(w, t) ==
    LET tok == w.toks[t]
        taker == IF HasCoordinator(w, t) THEN tok.par ELSE t
        own == ErrorBoundaries(tok.el)
    IN  IF own # {}
          THEN MoveToBoundary(CancelWaits(w, {taker}), taker, CHOOSE b \in own : TRUE)
          ELSE PropagateError(Discard(CancelWaits(w, {t}), {t}), t, tok.el, tok.scope)

\* endEvent
EndEvent(w, t, yes) ==
    LET tok == w.toks[t]
    IN  CASE Node[tok.el].event = "terminate" -> TerminateEnd(w, t, yes)
          [] Node[tok.el].event = "error" ->
                PropagateError(Discard(w, {t}), t, tok.el, tok.scope)
          [] OTHER -> Consume(w, t, yes)

------------------------------------------------------------------------------
\* Gateways.

\* Tokens that have joined at t's gateway in t's scope, t included.
Joined(w, t) ==
    {u \in DOMAIN w.toks : /\ w.toks[u].el = w.toks[t].el
                           /\ w.toks[u].scope = w.toks[t].scope
                           /\ w.toks[u].st = "joining" \/ u = t}

\* parallelJoinReady
ParallelJoinReady(w, t) ==
    Incoming(w.toks[t].el) \subseteq {w.toks[u].flow : u \in Joined(w, t)}

\* positionInScope, for a token inside t's scope
PositionInScope(w, u, t) ==
    LET s == w.toks[t].scope
    IN  IF w.toks[u].scope = s THEN w.toks[u].el ELSE w.toks[u].scope[Len(s) + 1].el

\* inclusiveJoinReady: no token elsewhere in the scope can still get here.
InclusiveJoinReady(w, t) ==
    \A u \in Inside(w, w.toks[t].scope) \ Joined(w, t) :
        ~CanReach(PositionInScope(w, u, t), w.toks[t].el)

Joining(w, t) == [w EXCEPT !.toks[t].st = "joining"]

\* mergeJoiningTokens: which token of each other incoming flow goes is up to
\* the iteration order of the token map; the oldest stands for any.
MergeJoining(w, t) ==
    LET of(f) == {u \in Joined(w, t) : w.toks[u].flow = f}
        others == {w.toks[u].flow : u \in Joined(w, t)} \ {w.toks[t].flow}
    IN  Discard(w, {Min(of(f)) : f \in others})

IsJoin(e) == Cardinality(Incoming(e)) > 1

ParallelGateway(w, t) ==
    LET e == w.toks[t].el
    IN  IF ~IsJoin(e) THEN Follow(w, t, Outgoing(e))
        ELSE IF ~ParallelJoinReady(w, t) THEN Joining(w, t)
        ELSE Follow(MergeJoining(w, t), t, Outgoing(e))

InclusiveGateway(w, t, yes) ==
    LET e == w.toks[t].el
    IN  IF ~IsJoin(e) THEN TakeOutgoing(w, t, yes)
        ELSE IF ~InclusiveJoinReady(w, t) THEN Joining(w, t)
        ELSE TakeOutgoing(Discard(w, Joined(w, t) \ {t}), t, yes)

\* eventBasedGateway: one wait per target.
EventBasedGateway(w, t, bad) ==
    LET targets == {Flow[f].to : f \in Outgoing(w.toks[t].el)}
    IN  RegisterWaits([w EXCEPT !.toks[t].st = "events", !.toks[t].ref = 0], t,
                      {e \in targets : Node[e].event \in {"timer", "message"}}, bad)

------------------------------------------------------------------------------
\* Activities.  activity() registers the boundary events each time it runs the
\* element, a retry included; those of a loop belong to its coordinator.

Begin(w, t, bad) ==
    IF IsMIChild(w, t) THEN w ELSE RegisterWaits(w, t, Awaited(w.toks[t].el), bad)

\* A catch event or receive task waits for its event.
Await(w, t, bad) ==
    LET e == w.toks[t].el
    IN  IF e \in bad THEN RaiseIncident(w, t)
        ELSE Park(w, t, IF Node[e].event = "timer" THEN "timer" ELSE "message",
                  NewRecord(WaitKind(e), t, e, WaitRetries(e)))

\* userTask, serviceTask with a topic, agentTask with a topic, createApprovalTask
AwaitWorker(w, t, kind) ==
    Park(w, t, kind, NewRecord(kind, t, w.toks[t].el, IF kind = "task" THEN 0 ELSE Retries))

\* handleActivityFailure, of an error that is no BPMN error
HandleActivityFailure(w, t) ==
    LET attempts == w.toks[t].tries + 1
    IN  IF attempts < Retries
          THEN Park([w EXCEPT !.toks[t].tries = attempts], t, "retry",
                    NewRecord("retry", t, w.toks[t].el, 0))
          ELSE RaiseIncident(w, t)

\* finishAgent: directly, or after a human has signed off.
FinishAgent(w, t, yes) ==
    IF Node[w.toks[t].el].approve THEN AwaitWorker(w, t, "task") ELSE CompleteActivity(w, t, yes)

\* recordAgentResult, chargeAgentUsage, reviewAgentResult: the use is charged
\* before the guard accepts or rejects the result.
AgentResult(w, t, use, accepted, yes) ==
    LET charged == [w EXCEPT !.spent = @ + use]
    IN  IF accepted THEN FinishAgent(charged, t, yes) ELSE HandleActivityFailure(charged, t)

\* checkAgentBudget and the rest of agentTask up to the invocation.
AgentTask(w, t) ==
    IF w.spent >= Budget THEN RaiseIncident(w, t) ELSE AwaitWorker(w, t, "agent")

\* enterSubProcess
EnterSubProcess(w, t, bad) ==
    LET e == w.toks[t].el
        start == Starts(e, {"none"})
        waiting == [w EXCEPT !.toks[t].st = "child", !.toks[t].ref = 0]
    IN  IF start = {} THEN RaiseIncident(w, t)
        ELSE Spawn(RegisterEventSubprocesses(waiting, e, t, bad),
                   NewToken(CHOOSE s \in start : TRUE, InnerScope(w, t)))

------------------------------------------------------------------------------
\* Triggers.

\* Mutant: only the boundary events are canceled.
CancelBoundariesOnly(w, t) == DropTokenEventWaits(w, {t})

\* cancelActivity: what the token waits for, its boundary events and, for a
\* sub-process, everything inside.
CancelActivity(w, t) ==
    LET v == CancelWaits(w, {t})
    IN  IF Known(w, t) /\ Type(w.toks[t].el) = "sub"
          THEN KillScopeTokens(v, InnerScope(w, t), "none") ELSE v

\* findEventSubprocess
InEventSubprocess(e) == Node[e].in \in Elements /\ Node[Node[e].in].byEvent

\* eventTriggered finds the element in the instance's process, a start event in
\* an event sub-process.
Found(w, rec) ==
    /\ RootOf[rec.el] = w.def
    /\ Type(rec.el) = "start" => InEventSubprocess(rec.el)

\* eventTriggered returns true for a wait rec.
Triggers(w, rec) ==
    Found(w, rec) /\
    CASE Type(rec.el) = "boundary" ->
            rec.tok \in DOMAIN w.toks /\ w.toks[rec.tok].el = Node[rec.el].at
      [] Type(rec.el) = "start" -> rec.tok \in DOMAIN w.toks \cup {0}
      [] OTHER ->
            /\ rec.tok \in DOMAIN w.toks
            /\ \/ w.toks[rec.tok].st = "events"
               \/ /\ w.toks[rec.tok].el = rec.el
                  /\ w.toks[rec.tok].st \in {"message", "timer"}

\* Mutant: the activity goes on beside its interrupting boundary event.
BoundaryNeverInterrupts(w, t, b) == Spawn(w, NewToken(b, w.toks[t].scope))

\* boundaryTriggered
BoundaryTriggered(w, t, b) ==
    IF Node[b].cancel THEN MoveToBoundary(CancelActivity(w, t), t, b)
    ELSE Spawn(w, NewToken(b, w.toks[t].scope))

\* eventSubprocessTriggered: the scope is where the owner token is now.  Of the
\* one-shot triggers only a subscription is removed; a job was claimed.
EventSubprocessTriggered(w, owner, start, id) ==
    LET s == IF owner = 0 THEN <<>>
             ELSE InnerScope(w, owner)
        es == Node[start].in
        v == IF Node[start].cancel
               THEN [KillScopeTokens(w, s, es) EXCEPT
                        !.recs = Without(@, {i \in DOMAIN @ \cap {id} : @[i].kind = "sub"})]
               ELSE w
    IN  Spawn(v, NewToken(start, Append(s, [el |-> es, own |-> 0])))

\* eventTriggered, given that it returns true
EventTriggered(w, rec, id, yes) ==
    LET t == rec.tok
        freed == [DropTokenEventWaits(w, {t}) EXCEPT !.toks[t].el = rec.el,
                                                     !.toks[t].st = "active",
                                                     !.toks[t].ref = 0]
    IN  CASE Type(rec.el) = "boundary" -> BoundaryTriggered(w, t, rec.el)
          [] Type(rec.el) = "start" -> EventSubprocessTriggered(w, t, rec.el, id)
          [] Type(rec.el) = "receive" /\ w.toks[t].st # "events" ->
                CompleteActivity(freed, t, yes)
          [] OTHER -> TakeOutgoing(freed, t, yes)
==============================================================================
