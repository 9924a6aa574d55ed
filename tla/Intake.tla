-------------------------------- MODULE Intake --------------------------------
(***************************************************************************)
(* How work gets into the engine: deployments that replace the start       *)
(* triggers of a process (engine/engine.go), timer starts (scheduler.go),  *)
(* messages and signals that resume waiting instances or start new ones,   *)
(* and the webhooks that deliver them behind an idempotency window         *)
(* (rest/webhook.go).                                                      *)
(*                                                                         *)
(* None of it runs under a lock: a deployment is a sequence of store       *)
(* operations, a delivery works on the subscriptions it listed, a timer    *)
(* start is claimed, run and rescheduled.  One process key is modelled; a  *)
(* start event is named by its kind.                                       *)
(***************************************************************************)
EXTENDS Integers, FiniteSets

CONSTANTS
    Clients,        \* callers of the API, and the scheduler
    Designs,        \* what may be deployed: sets of start events
    Waits,          \* subscriptions of instances: [id, token, kind, key, once]
    CorrKeys,       \* correlation keys a message may carry; Empty matches all
    Events,         \* events of a webhook's sender, with their idempotency keys
    Cycle,          \* repetitions of a timer start; -1 for ever
    DedupeLimit,    \* dedupeCache.limit
    MaxDeploys,     \* bound: deployments
    MaxSends,       \* bound: messages, signals and webhook requests
    MaxCrashes      \* bound: crashes

\* No correlation key, no event.
Empty == ""

ASSUME IntakeAssumption ==
    /\ \A d \in Designs : d \subseteq {"message", "signal", "timer"}
    /\ IsFiniteSet(Waits)
    /\ \A w \in Waits : w.kind \in {"message", "signal"} /\ w.once \in BOOLEAN
    /\ Empty \notin Events
    /\ Cycle \in Int /\ DedupeLimit \in Nat \ {0}
    /\ MaxDeploys \in Nat /\ MaxSends \in Nat /\ MaxCrashes \in Nat

VARIABLES
    defs,       \* the stored definitions: version and start events
    starts,     \* start subscriptions, with the deployment that made them
    timers,     \* timer-start jobs: deployment and repetitions left
    waits,      \* open subscriptions of instances
    seen,       \* the idempotency window: event -> is younger than dedupeCache.ttl
    req,        \* per client, its request
    deploys, sends, crashes,    \* so far
    woken,      \* ghost: how often each subscription of an instance was triggered
    delivered,  \* ghost: how often each event was delivered
    acked,      \* ghost: events whose sender was told 200
    excused     \* ghost: what happened that the properties except

vars == <<defs, starts, timers, waits, seen, req, deploys, sends, crashes,
          woken, delivered, acked, excused>>

Nobody == [op |-> "none", ver |-> 0, id |-> 0, left |-> {}, kind |-> "message", key |-> Empty,
           subs |-> {}, from |-> {}, count |-> 0, event |-> Empty, rep |-> 0]

Init ==
    /\ defs = {} /\ starts = {} /\ timers = {}
    /\ waits = Waits
    /\ seen = [e \in {} |-> TRUE]
    /\ req = [c \in Clients |-> Nobody]
    /\ deploys = 0 /\ sends = 0 /\ crashes = 0
    /\ woken = [w \in Waits |-> 0]
    /\ delivered = [e \in Events |-> 0]
    /\ acked = {}
    /\ excused = {}

Excuse(p, what) == excused' = IF p THEN excused \cup {what} ELSE excused

In(op) == {c \in Clients : req[c].op \in op}

Deploying == In({"put", "subs", "jobs", "add"})

\* What spoils the start triggers until a deployment replaces them.
Spoiled == excused \cap {"overlap", "crash", "refused"} # {}

------------------------------------------------------------------------------
\* DeployTenant.

Version == IF defs = {} THEN 0 ELSE CHOOSE v \in {d.ver : d \in defs} : \A d \in defs : d.ver <= v

\* LatestDefinitionForTenant: of several with the highest version, any.
Latest == {d \in defs : d.ver = Version}

deployVars == <<waits, seen, sends, crashes, woken, delivered, acked>>

\* The version is read.  A deployment beside no other is a new start for the
\* triggers, whatever became of them before...
Deploy(c, design) ==
    /\ req[c] = Nobody /\ deploys < MaxDeploys
    /\ deploys' = deploys + 1
    /\ req' = [req EXCEPT ![c] = [Nobody EXCEPT !.op = "put", !.ver = Version + 1,
                                                !.id = deploys + 1, !.left = design]]
    /\ excused' = IF Deploying = {} THEN excused \cap {"failed", "forgotten"}
                                    ELSE excused \cup {"overlap"}
    /\ UNCHANGED <<defs, starts, timers, deployVars>>

\* ... the definition stored...
PutDefinition(c) ==
    /\ req[c].op = "put"
    /\ defs' = defs \cup {[ver |-> req[c].ver, id |-> req[c].id, starts |-> req[c].left]}
    /\ req' = [req EXCEPT ![c].op = "subs"]
    /\ UNCHANGED <<starts, timers, deploys, excused, deployVars>>

\* ... older start subscriptions dropped...
DropStartSubscriptions(c) ==
    /\ req[c].op = "subs"
    /\ starts' = {}
    /\ req' = [req EXCEPT ![c].op = "jobs"]
    /\ UNCHANGED <<defs, timers, deploys, excused, deployVars>>

\* Mutant of DropStartJobs: the previous version's timers stay.
KeepStartJobs(c) ==
    /\ req[c].op = "jobs"
    /\ req' = [req EXCEPT ![c].op = "add"]
    /\ UNCHANGED <<defs, starts, timers, deploys, excused, deployVars>>

\* ... and timer-start jobs, but not one that the scheduler has claimed...
DropStartJobs(c) ==
    /\ req[c].op = "jobs"
    /\ timers' = {}
    /\ req' = [req EXCEPT ![c].op = "add"]
    /\ Excuse(In({"timer"}) # {}, "claimed")
    /\ UNCHANGED <<defs, starts, deploys, deployVars>>

\* ... and the new ones registered one by one.
RegisterStartTrigger(c) ==
    \E s \in req[c].left :
        /\ req[c].op = "add"
        /\ IF s = "timer"
             THEN timers' = timers \cup {[id |-> req[c].id, rep |-> Cycle]} /\ UNCHANGED starts
             ELSE starts' = starts \cup {[id |-> req[c].id, kind |-> s]} /\ UNCHANGED timers
        /\ req' = [req EXCEPT ![c].left = @ \ {s}]
        /\ UNCHANGED <<defs, deploys, excused, deployVars>>

\* A timer start's expression fails, or the store: the deployment is refused
\* where it is, with its definition stored.
DeployFails(c) ==
    /\ req[c].op \in {"subs", "jobs", "add"}
    /\ req[c].op = "add" => req[c].left # {}
    /\ req' = [req EXCEPT ![c] = Nobody]
    /\ Excuse(TRUE, "refused")
    /\ UNCHANGED <<defs, starts, timers, deploys, deployVars>>

Deployed(c) ==
    /\ req[c].op = "add" /\ req[c].left = {}
    /\ req' = [req EXCEPT ![c] = Nobody]
    /\ UNCHANGED <<defs, starts, timers, deploys, excused, deployVars>>

------------------------------------------------------------------------------
\* Timer starts: DueJobs takes the job out, executeJob runs it and puts the
\* next repetition back.

ClaimTimerStart(c) ==
    \E j \in timers :
        /\ req[c] = Nobody
        /\ timers' = timers \ {j}
        /\ req' = [req EXCEPT ![c] = [Nobody EXCEPT !.op = "timer", !.id = j.id, !.rep = j.rep]]
        /\ UNCHANGED <<defs, starts, deploys, excused, deployVars>>

\* Mutant of Repeats: once more than asked for.
RepeatsOnceMore(rep) == rep > 0 \/ rep = -1

\* executeJob puts the start job back.
Repeats(rep) == rep > 1 \/ rep = -1

ExecuteTimerStart(c) ==
    LET q == req[c] IN
    /\ q.op = "timer"
    /\ timers' = timers \cup (IF Repeats(q.rep)
                                THEN {[id |-> q.id, rep |-> IF q.rep > 0 THEN q.rep - 1 ELSE q.rep]}
                                ELSE {})
    /\ req' = [req EXCEPT ![c] = Nobody]
    /\ Excuse(~Repeats(q.rep), "ended")
    /\ UNCHANGED <<defs, starts, deploys, deployVars>>

------------------------------------------------------------------------------
\* CorrelateMessage, BroadcastSignal.

sendVars == <<defs, starts, timers, deploys, crashes>>

Matches(w, kind, key) == w.kind = kind /\ (kind = "signal" \/ key = Empty \/ w.key = key)

\* ListSubscriptions: everything after works on this list.
Listed(q) ==
    [q EXCEPT !.op = "trigger",
              !.subs = {w \in waits : Matches(w, q.kind, q.key)},
              !.from = {s \in starts : s.kind = q.kind}]

Send(c, kind, key) ==
    /\ req[c] = Nobody /\ sends < MaxSends
    /\ sends' = sends + 1
    /\ req' = [req EXCEPT ![c] = Listed([Nobody EXCEPT !.kind = kind, !.key = key])]
    /\ UNCHANGED <<waits, seen, woken, delivered, acked, excused, sendVars>>

\* Mutant of StillOpen: the listed subscription is not looked up again.
StillListed(w) == TRUE

\* triggerSubscription looks the subscription up again under the lock.
StillOpen(w) == w \in waits

\* What a wake-up closes: every subscription of a token that waits at a catch
\* event or an event-based gateway, or whose activity or scope is interrupted;
\* nothing for a non-interrupting boundary event or event sub-process.
Closed(w) == IF w.once THEN {v \in waits : v.token = w.token} ELSE {}

\* The instance takes the event, or it does not: it has ended or the store
\* fails, the subscription is an orphan and is deleted, or its run fails after
\* the subscriptions were closed.
TriggerSubscription(c) ==
    \E w \in req[c].subs :
        /\ req[c].op = "trigger"
        /\ \/ /\ StillOpen(w)
              /\ req' = [req EXCEPT ![c].subs = @ \ {w}, ![c].count = @ + 1]
              /\ woken' = [woken EXCEPT ![w] = @ + 1]
              /\ waits' = waits \ Closed(w)
           \/ /\ req' = [req EXCEPT ![c].subs = @ \ {w}]
              /\ woken' = woken
              /\ waits' \in {waits, waits \ {w}, waits \ Closed(w)}
        /\ UNCHANGED <<sends, seen, delivered, acked, excused, sendVars>>

\* A message starts instances only when it reached nobody, a signal always.
MayStart(q) == q.kind = "signal" \/ q.count = 0

\* startInstanceAt: in the latest definition, if that still has the start event.
\* A signal's starts and waits come in the order of the list, whatever that is;
\* a start that fails ends the delivery.
StartFromTrigger(c) ==
    /\ req[c].op = "trigger" /\ (req[c].kind = "signal" \/ req[c].subs = {})
    /\ MayStart(req[c])
    /\ \E s \in req[c].from :
          \/ /\ \E d \in Latest : s.kind \in d.starts
             /\ req' = [req EXCEPT ![c].from = @ \ {s}]
          \/ /\ \E d \in Latest : s.kind \notin d.starts
             /\ req' = [req EXCEPT ![c].op = "error"]
    /\ UNCHANGED <<waits, sends, seen, woken, delivered, acked, excused, sendVars>>

Sent(c) ==
    LET q == req[c] IN
    /\ q.op = "trigger" /\ q.subs = {} /\ (q.from = {} \/ ~MayStart(q))
    /\ req' = [req EXCEPT ![c] = Nobody]
    /\ IF q.event \in Events
         THEN /\ delivered' = [delivered EXCEPT ![q.event] = @ + 1]
              /\ acked' = acked \cup {q.event}
         ELSE UNCHANGED <<delivered, acked>>
    /\ UNCHANGED <<waits, sends, seen, woken, excused, sendVars>>

\* A start failed, an expression failed or the store did: the sender is told.
Refused(c) ==
    /\ req[c].op = "error"
    /\ req' = [req EXCEPT ![c] = Nobody]
    /\ Excuse(req[c].event \in Events, "failed")
    /\ UNCHANGED <<waits, sends, seen, woken, delivered, acked, sendVars>>

------------------------------------------------------------------------------
\* handleWebhookEvent: the event's key is remembered first, then the event is
\* delivered.  A sender repeats an event at will.

\* Mutant of InWindow: the key is the channel's name alone.
InWindowOfChannel(e) == \E x \in DOMAIN seen : seen[x]

\* remember's first test
InWindow(e) == e \in DOMAIN seen /\ seen[e]

\* remember: at the limit the expired entries go, and if none has, all do.
Swept ==
    LET fresh == {e \in DOMAIN seen : seen[e]}
    IN  IF Cardinality(DOMAIN seen) < DedupeLimit THEN DOMAIN seen
        ELSE IF Cardinality(fresh) < DedupeLimit THEN fresh ELSE {}

\* Mutant of Remember: nothing is recorded.
RememberNothing(e) == seen' = seen

\* The key is recorded, in what is left of the window.
Remember(e) == seen' = [x \in Swept \cup {e} |-> IF x = e THEN TRUE ELSE seen[x]]

Webhook(c, e) ==
    /\ req[c] = Nobody /\ sends < MaxSends
    /\ sends' = sends + 1
    /\ IF InWindow(e)
         THEN /\ acked' = acked \cup {e}
              /\ UNCHANGED <<seen, req, excused>>
         ELSE /\ Remember(e)
              /\ Excuse(e \in DOMAIN seen \/ DOMAIN seen \ Swept # {}, "forgotten")
              /\ req' = [req EXCEPT ![c] = [Nobody EXCEPT !.op = "event", !.event = e]]
              /\ UNCHANGED acked
    /\ UNCHANGED <<waits, woken, delivered, sendVars>>

\* The channel's expressions are evaluated, then the message is correlated.
WebhookDelivers(c) ==
    /\ req[c].op = "event"
    /\ \/ \E key \in CorrKeys : req' = [req EXCEPT ![c] = Listed([@ EXCEPT !.key = key])]
       \/ req' = [req EXCEPT ![c].op = "error"]
    /\ UNCHANGED <<waits, sends, seen, woken, delivered, acked, excused, sendVars>>

------------------------------------------------------------------------------
\* An entry of the window reaches its ttl.
Expire(e) ==
    /\ InWindow(e)
    /\ seen' = [seen EXCEPT ![e] = FALSE]
    /\ UNCHANGED <<waits, req, sends, woken, delivered, acked, excused, sendVars>>

\* The process dies and is restarted: the store stays, requests and the
\* window go.
Crash ==
    /\ crashes < MaxCrashes
    /\ crashes' = crashes + 1
    /\ excused' = excused \cup {"forgotten"}
                     \cup (IF Deploying # {} THEN {"crash"} ELSE {})
                     \cup (IF In({"timer"}) # {} THEN {"ended"} ELSE {})
                     \cup (IF \E c \in Clients : req[c].event \in Events THEN {"failed"} ELSE {})
    /\ req' = [c \in Clients |-> Nobody]
    /\ seen' = [e \in {} |-> TRUE]
    /\ UNCHANGED <<defs, starts, timers, waits, deploys, sends, woken, delivered, acked>>

Next ==
    \/ \E c \in Clients :
          \/ \E design \in Designs : Deploy(c, design)
          \/ PutDefinition(c) \/ DropStartSubscriptions(c) \/ DropStartJobs(c)
          \/ RegisterStartTrigger(c) \/ DeployFails(c) \/ Deployed(c)
          \/ ClaimTimerStart(c) \/ ExecuteTimerStart(c)
          \/ \E key \in CorrKeys : Send(c, "message", key)
          \/ Send(c, "signal", Empty)
          \/ TriggerSubscription(c) \/ StartFromTrigger(c) \/ Sent(c) \/ Refused(c)
          \/ \E e \in Events : Webhook(c, e)
          \/ WebhookDelivers(c)
    \/ \E e \in Events : Expire(e)
    \/ Crash

Spec == Init /\ [][Next]_vars

------------------------------------------------------------------------------
\* Every request and record has its type; a cycle never repeats more often than
\* it was asked to.
TypeOK ==
    /\ \A d \in defs : d.ver \in 1..MaxDeploys /\ d.starts \in Designs
    /\ \A s \in starts : s.kind \in {"message", "signal"} /\ s.id \in 1..MaxDeploys
    /\ \A j \in timers : j.id \in 1..MaxDeploys /\ (j.rep = Cycle \/ j.rep \in 1..Cycle)
    /\ waits \subseteq Waits /\ DOMAIN seen \subseteq Events
    /\ Cardinality(DOMAIN seen) <= DedupeLimit
    /\ \A c \in Clients : req[c].count \in 0..Cardinality(Waits)

\* Between deployments a process has the start subscriptions of its latest
\* version, one each, and its timer start until that has run out, in the store
\* or in the scheduler's hands, and no trigger of an older version, however
\* deliveries and timer starts ran beside the deployments.  Deployments that
\* overlapped, were cut short by a crash or refused (registerStartTriggers)
\* spoil the triggers until the next one that runs alone; a timer start that
\* was claimed while they were replaced puts itself back (executeJob), and one
\* that is claimed when the process dies is lost.
TriggersMatch ==
    Deploying = {} /\ ~Spoiled =>
        \A d \in Latest :
            /\ starts = {[id |-> d.id, kind |-> k] : k \in d.starts \ {"timer"}}
            /\ "claimed" \notin excused =>
                  /\ \A j \in timers : j.id = d.id /\ "timer" \in d.starts
                  /\ Cardinality(timers) + Cardinality(In({"timer"})) <= 1
                  /\ "timer" \in d.starts /\ "ended" \notin excused =>
                        timers \cup In({"timer"}) # {}

\* However many messages and signals found the same subscriptions in their lists
\* at the same time: a token that waits once, or whose activity is interrupted,
\* is woken by one of its subscriptions and by none of them twice; what does not
\* interrupt is triggered again, but at most once by each message or signal.
WokenOnce ==
    /\ \A v, w \in Waits :
          v.once /\ w.once /\ v.token = w.token /\ woken[v] > 0 /\ woken[w] > 0 =>
              v = w /\ woken[w] = 1
    /\ \A w \in Waits : woken[w] <= sends

\* Within its window a webhook event is delivered once, even if its sender
\* repeats it before the first delivery is done: unless the entry expired, the
\* full window was dropped, or the process restarted.
EventOnce ==
    "forgotten" \notin excused =>
        \A e \in Events :
            delivered[e] + Cardinality({c \in Clients : req[c].event = e}) <= 1

\* A sender that was told 200 has its event delivered, or a request that is
\* delivering it; unless the delivery failed after the key was remembered.
AckedIsDelivered ==
    "failed" \notin excused =>
        \A e \in acked : delivered[e] > 0 \/ \E c \in Clients : req[c].event = e
=============================================================================
