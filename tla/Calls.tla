-------------------------------- MODULE Calls ---------------------------------
(***************************************************************************)
(* Call activities: instances that start, await and cancel one another     *)
(* (engine/activity.go, exec.go, engine.go), and the retention sweep that  *)
(* removes ended instances beside them (engine/housekeeping.go).           *)
(*                                                                         *)
(* An operation changes one instance under its lock and stores it.  What   *)
(* it owes to other instances (start the child, cancel the children, tell  *)
(* the parent) are continuations that the same thread runs afterwards, in  *)
(* order and each with its own continuations first, holding no lock.  A    *)
(* crash loses them; reconcile repairs the waiting parents at the next     *)
(* start.                                                                  *)
(*                                                                         *)
(* An instance of depth 0 runs one user task.  One of depth d > 0 calls a  *)
(* process of depth d - 1, possibly again and again; an interrupting       *)
(* boundary event of the call leads to a user task.  The inside of an      *)
(* instance is the subject of module Engine.                               *)
(***************************************************************************)
EXTENDS Integers, Sequences, FiniteSets, SequencesExt

CONSTANTS
    Clients,        \* threads that call the engine's API
    MaxInst,        \* bound: instance ids
    MaxDepth,       \* bound: nesting of calls
    MaxCrashes,     \* bound: crashes
    BatchSize       \* HousekeepingPolicy.BatchSize

Boot == "boot"      \* the thread that runs Engine.Start

ASSUME CallsAssumption ==
    /\ MaxInst \in Nat \ {0} /\ MaxDepth \in Nat /\ MaxCrashes \in Nat
    /\ BatchSize \in Nat \ {0}
    /\ Boot \notin Clients

Threads == Clients \cup {Boot}

VARIABLES
    up,         \* the process runs
    inst,       \* the stored instances, by id
    next,       \* newID's counter
    todo,       \* per thread, the continuations it still has to run
    boot,       \* the active instances that reconcile has still to look at
    sweep,      \* the retention sweep: the state it lists next, its list, the one to purge
    early,      \* ghost: children whose start or cancellation came too late or was lost
    crashes     \* crashes so far

vars == <<up, inst, next, todo, boot, sweep, early, crashes>>

Ids == 1..MaxInst

Ended == {"completed", "terminated"}

Stored(i) == inst[i].st \in {"active"} \cup Ended

NotStored == [st |-> "none", parent |-> 0, depth |-> 0, tok |-> "none", ref |-> 0]

Cont(op, i, p, d) == [op |-> op, id |-> i, parent |-> p, depth |-> d]

Idle == [state |-> "completed", list |-> <<>>, purge |-> 0]

Other(st) == CHOOSE x \in Ended : x # st

Init ==
    /\ up = TRUE
    /\ inst = [i \in Ids |-> NotStored]
    /\ next = 1
    /\ todo = [c \in Threads |-> <<>>]
    /\ boot = <<>>
    /\ sweep = Idle
    /\ early = {}
    /\ crashes = 0

------------------------------------------------------------------------------
\* startInstance holds the instance lock from the first write to the second.
Locked(i) == \E c \in Threads : todo[c] # <<>> /\ Head(todo[c]) = Cont("drain", i, 0, 0)

\* The API is served once reconcile is done.
Free(c) == up /\ boot = <<>> /\ todo[Boot] = <<>> /\ c \in Clients /\ todo[c] = <<>>

\* A listing of the store, sorted by id.
Sorted(S) ==
    [k \in 1..Cardinality(S) |-> CHOOSE i \in S : Cardinality({j \in S : j < i}) = k - 1]

\* ListInstances(ParentID, InstanceActive)
ActiveChildren(i) == Sorted({j \in Ids : inst[j].parent = i /\ inst[j].st = "active"})

\* Thread c goes on with what the step owes, then with what it owed before.
Owes(c, conts, before) == todo' = [todo EXCEPT ![c] = conts \o before]

\* A pending start of instance i.
StartPending(i) ==
    \E c \in Threads : \E k \in DOMAIN todo[c] : todo[c][k].op = "start" /\ todo[c][k].id = i

\* notifyParent
NotifyParent(i) ==
    IF inst[i].parent = 0 THEN <<>> ELSE <<Cont("notify", i, inst[i].parent, 0)>>

\* Mutant of EndInstance: terminate without the loop over Tokens.
EndInstanceKeepsToken(c, i, st, before) ==
    /\ inst' = [inst EXCEPT ![i].st = st]
    /\ Owes(c, NotifyParent(i), before)
    /\ UNCHANGED <<next, early>>

\* completeInstance, terminate, cleanupInstanceRecords: the children that are
\* stored by now are cancelled, then the parent is told.
EndInstance(c, i, st, before) ==
    LET children == ActiveChildren(i) IN
    /\ inst' = [inst EXCEPT ![i].st = st, ![i].tok = "none", ![i].ref = 0]
    /\ Owes(c, [k \in DOMAIN children |-> Cont("cancel", children[k], 0, 0)]
               \o NotifyParent(i), before)
    /\ early' = IF inst[i].tok = "call" /\ StartPending(inst[i].ref)
                  THEN early \cup {inst[i].ref} ELSE early
    /\ UNCHANGED next

\* raiseIncident: the token waits for ResolveIncident.
Incident(c, i, before) ==
    /\ inst' = [inst EXCEPT ![i].tok = "incident", ![i].ref = 0]
    /\ Owes(c, <<>>, before)
    /\ UNCHANGED <<next, early>>

\* callActivity: the token waits for an id that nobody has stored yet.  The
\* process may be unknown or an input mapping may fail.
CallActivity(c, i, before) ==
    \/ /\ next <= MaxInst
       /\ inst' = [inst EXCEPT ![i].tok = "call", ![i].ref = next]
       /\ next' = next + 1
       /\ Owes(c, <<Cont("start", next, i, inst[i].depth - 1)>>, before)
       /\ UNCHANGED early
    \/ Incident(c, i, before)

\* completeActivity: the flow loops back to the call or ends the instance.
CompleteActivity(c, i, before) ==
    CallActivity(c, i, before) \/ EndInstance(c, i, "completed", before)

\* The instance is stored with an active token, and the lock is kept.
StartInstance(c, i, p, d, before) ==
    /\ inst' = [inst EXCEPT ![i] = [st |-> "active", parent |-> p, depth |-> d,
                                    tok |-> "start", ref |-> 0]]
    /\ Owes(c, <<Cont("drain", i, 0, 0)>>, before)

------------------------------------------------------------------------------
\* afterRun: thread c runs its next continuation.

Running(c, op) == up /\ todo[c] # <<>> /\ Head(todo[c]).op = op

Drop(c) == Owes(c, <<>>, Tail(todo[c])) /\ UNCHANGED <<inst, next, early>>

RunDrain(c) ==
    LET i == Head(todo[c]).id IN
    /\ Running(c, "drain")
    /\ \/ /\ inst[i].depth = 0
          /\ inst' = [inst EXCEPT ![i].tok = "task"]
          /\ Owes(c, <<>>, Tail(todo[c]))
          /\ UNCHANGED <<next, early>>
       \/ /\ inst[i].depth > 0
          /\ CallActivity(c, i, Tail(todo[c]))
    /\ UNCHANGED <<up, boot, sweep, crashes>>

\* startChildInstance
RunStart(c) ==
    LET k == Head(todo[c]) IN
    /\ Running(c, "start")
    /\ \/ /\ StartInstance(c, k.id, k.parent, k.depth, Tail(todo[c]))
          /\ UNCHANGED <<next, early>>
       \/ /\ Owes(c, <<Cont("fail", k.id, k.parent, 0)>>, Tail(todo[c]))
          /\ UNCHANGED <<inst, next, early>>
    /\ UNCHANGED <<up, boot, sweep, crashes>>

\* The parent still waits for this child.
Awaits(p, i) == inst[p].st = "active" /\ inst[p].tok = "call" /\ inst[p].ref = i

\* Mutant of RunFail: the error is only logged.
RunFailLogs(c) == Running(c, "fail") /\ Drop(c) /\ UNCHANGED <<up, boot, sweep, crashes>>

\* The child could not be started: the parent gets an incident.
RunFail(c) ==
    LET k == Head(todo[c]) IN
    /\ Running(c, "fail") /\ ~Locked(k.parent)
    /\ IF Awaits(k.parent, k.id) THEN Incident(c, k.parent, Tail(todo[c])) ELSE Drop(c)
    /\ UNCHANGED <<up, boot, sweep, crashes>>

\* The completion reaches the parent, or its output mapping fails.
RunNotify(c) ==
    LET k == Head(todo[c]) IN
    /\ Running(c, "notify") /\ ~Locked(k.parent)
    /\ \/ /\ Awaits(k.parent, k.id)
          /\ \/ CompleteActivity(c, k.parent, Tail(todo[c]))
             \/ Incident(c, k.parent, Tail(todo[c]))
       \/ ~Awaits(k.parent, k.id) /\ Drop(c)
    /\ UNCHANGED <<up, boot, sweep, crashes>>

\* CancelInstance fails on an instance that is not stored or has ended.
RunCancel(c) ==
    LET k == Head(todo[c]) IN
    /\ Running(c, "cancel") /\ ~Locked(k.id)
    /\ IF inst[k.id].st = "active"
         THEN EndInstance(c, k.id, "terminated", Tail(todo[c])) ELSE Drop(c)
    /\ UNCHANGED <<up, boot, sweep, crashes>>

------------------------------------------------------------------------------
\* The API.

Operable(c, i) == Free(c) /\ inst[i].st = "active" /\ ~Locked(i)

StartRoot(c, d) ==
    /\ Free(c) /\ next <= MaxInst
    /\ next' = next + 1
    /\ StartInstance(c, next, 0, d, <<>>)
    /\ UNCHANGED <<up, boot, sweep, early, crashes>>

CompleteTask(c, i) ==
    /\ Operable(c, i) /\ inst[i].tok = "task"
    /\ EndInstance(c, i, "completed", <<>>)
    /\ UNCHANGED <<up, boot, sweep, crashes>>

CancelInstance(c, i) ==
    /\ Operable(c, i)
    /\ EndInstance(c, i, "terminated", <<>>)
    /\ UNCHANGED <<up, boot, sweep, crashes>>

ResolveIncident(c, i) ==
    /\ Operable(c, i) /\ inst[i].tok = "incident"
    /\ CallActivity(c, i, <<>>)
    /\ UNCHANGED <<up, boot, sweep, crashes>>

\* Mutant of CancelChild: cancelWaits without its TokenWaitChild case.
CancelNothing(i) == <<>>

\* cancelWaits on TokenWaitChild: the child is cancelled afterwards.
CancelChild(i) == <<Cont("cancel", inst[i].ref, 0, 0)>>

\* boundaryTriggered, interrupting
BoundaryTriggered(c, i) ==
    /\ Operable(c, i) /\ inst[i].tok = "call"
    /\ inst' = [inst EXCEPT ![i].tok = "task", ![i].ref = 0]
    /\ Owes(c, CancelChild(i), <<>>)
    /\ early' = IF StartPending(inst[i].ref) THEN early \cup {inst[i].ref} ELSE early
    /\ UNCHANGED <<up, next, boot, sweep, crashes>>

------------------------------------------------------------------------------
\* RunHousekeeping: for each end state a listing, then one by one the look at
\* the parent and the purge.  Every ended instance is old enough.

Batch(st) ==
    LET found == Sorted({i \in Ids : inst[i].st = st})
    IN  SubSeq(found, 1, IF Len(found) > BatchSize THEN BatchSize ELSE Len(found))

\* ListInstances(State, Limit), first for the completed, then for the
\* terminated instances
SweepLists ==
    /\ up /\ boot = <<>> /\ todo[Boot] = <<>>
    /\ sweep.list = <<>> /\ sweep.purge = 0
    /\ sweep' = [state |-> Other(sweep.state), list |-> Batch(sweep.state), purge |-> 0]
    /\ UNCHANGED <<up, inst, next, todo, boot, early, crashes>>

\* Mutants of MayPurge: no look at the parent; every parent counts as live.
PurgeAlways(i) == TRUE

PurgeRoots(i) == inst[i].parent = 0

\* Never purge an instance a live parent still waits on.
MayPurge(i) == inst[i].parent = 0 \/ inst[inst[i].parent].st # "active"

SweepLooks ==
    /\ up /\ sweep.list # <<>> /\ sweep.purge = 0
    /\ sweep' = [sweep EXCEPT !.list = Tail(@),
                              !.purge = IF MayPurge(Head(sweep.list)) THEN Head(sweep.list) ELSE 0]
    /\ UNCHANGED <<up, inst, next, todo, boot, early, crashes>>

PurgeInstance ==
    /\ up /\ sweep.purge # 0
    /\ inst' = [inst EXCEPT ![sweep.purge] = [NotStored EXCEPT !.st = "gone"]]
    /\ sweep' = [sweep EXCEPT !.purge = 0]
    /\ UNCHANGED <<up, next, todo, boot, early, crashes>>

------------------------------------------------------------------------------
\* Death and recovery of the process.

Crash ==
    /\ up /\ crashes < MaxCrashes
    /\ crashes' = crashes + 1
    /\ up' = FALSE
    /\ early' = early \cup {i \in Ids : \E c \in Threads : \E k \in DOMAIN todo[c] :
                                todo[c][k].op = "cancel" /\ todo[c][k].id = i}
    /\ todo' = [c \in Threads |-> <<>>]
    /\ boot' = <<>>
    /\ sweep' = Idle
    /\ UNCHANGED <<inst, next>>

Start ==
    /\ ~up
    /\ up' = TRUE
    /\ boot' = Sorted({i \in Ids : inst[i].st = "active"})
    /\ UNCHANGED <<inst, next, todo, sweep, early, crashes>>

\* Mutant of Reconcile: only children that were never started are looked for.
ReconcileMissing ==
    LET i == Head(boot) IN
    /\ up /\ boot # <<>> /\ todo[Boot] = <<>>
    /\ boot' = Tail(boot)
    /\ IF inst[i].st = "active" /\ inst[i].tok = "call" /\ ~Stored(inst[i].ref)
         THEN Incident(Boot, i, <<>>) ELSE UNCHANGED <<inst, next, todo, early>>
    /\ UNCHANGED <<up, sweep, crashes>>

\* reconcile, for one instance: a child that was never stored becomes an
\* incident, the end of a child that did not get through is made up for.
Reconcile ==
    LET i == Head(boot)
        child == inst[inst[i].ref]
    IN
    /\ up /\ boot # <<>> /\ todo[Boot] = <<>>
    /\ boot' = Tail(boot)
    /\ \/ /\ inst[i].st = "active" /\ inst[i].tok = "call"
          /\ \/ ~Stored(inst[i].ref) /\ Incident(Boot, i, <<>>)
             \/ child.st \in Ended /\ CompleteActivity(Boot, i, <<>>)
             \/ child.st = "active" /\ UNCHANGED <<inst, next, todo, early>>
       \/ /\ ~(inst[i].st = "active" /\ inst[i].tok = "call")
          /\ UNCHANGED <<inst, next, todo, early>>
    /\ UNCHANGED <<up, sweep, crashes>>

------------------------------------------------------------------------------
Continue(c) == RunDrain(c) \/ RunStart(c) \/ RunFail(c) \/ RunNotify(c) \/ RunCancel(c)

Sweep == SweepLists \/ SweepLooks \/ PurgeInstance

Next ==
    \/ \E c \in Threads : Continue(c)
    \/ \E c \in Clients : \E d \in 0..MaxDepth : StartRoot(c, d)
    \/ \E c \in Clients : \E i \in Ids :
          \/ CompleteTask(c, i) \/ CancelInstance(c, i)
          \/ ResolveIncident(c, i) \/ BoundaryTriggered(c, i)
    \/ Sweep
    \/ Crash \/ Start \/ Reconcile

\* Threads run, the housekeeping ticker ticks and a dead process is restarted.
Fairness ==
    /\ \A c \in Threads : WF_vars(Continue(c))
    /\ WF_vars(Sweep)
    /\ WF_vars(Start) /\ WF_vars(Reconcile)

Spec == Init /\ [][Next]_vars /\ Fairness

------------------------------------------------------------------------------
\* Every piece of state has its type, and one thread at most holds a lock.
TypeOK ==
    /\ up \in BOOLEAN
    /\ \A i \in Ids :
          /\ inst[i].st \in {"none", "active", "gone"} \cup Ended
          /\ inst[i].parent \in 0..MaxInst /\ inst[i].ref \in 0..MaxInst
          /\ inst[i].depth \in 0..MaxDepth
          /\ inst[i].tok \in {"none", "start", "task", "call", "incident"}
          /\ inst[i].st = "active" <=> inst[i].tok # "none"
          /\ \A c, d \in Threads :
                /\ todo[c] # <<>> /\ Head(todo[c]) = Cont("drain", i, 0, 0)
                /\ todo[d] # <<>> /\ Head(todo[d]) = Cont("drain", i, 0, 0)
                => c = d
    /\ next \in 1..MaxInst + 1
    /\ crashes \in 0..MaxCrashes

Pending(op, i) ==
    \E c \in Threads : \E k \in DOMAIN todo[c] : todo[c][k].op = op /\ todo[c][k].id = i

\* A call activity's token never waits for an answer that nobody owes it: its
\* child runs, or a thread is still to start it or to report its start or end,
\* or the process is down or reconcile has still to look at the parent.  Covers
\* the hand-off of callActivity's continuation, startChildInstance's failure,
\* notifyParent, reconcile and the retention sweep.
CallHasAnswer ==
    \A i \in Ids : inst[i].st = "active" /\ inst[i].tok = "call" =>
        \/ inst[inst[i].ref].st = "active"
        \/ \E op \in {"start", "fail", "notify"} : Pending(op, inst[i].ref)
        \/ ~up
        \/ i \in ToSet(boot)

\* A running child that its parent no longer waits for is about to be
\* cancelled, unless its start was still to come when the parent gave it up or
\* a crash lost the cancellation (cleanupInstanceRecords, cancelWaits).
ChildrenCanceled ==
    \A i \in Ids : inst[i].st = "active" /\ inst[i].parent # 0 =>
        \/ Awaits(inst[i].parent, i)
        \/ Pending("cancel", i)
        \/ i \in early

\* The retention sweep never removes the record of a child that a running
\* parent waits for, whatever happens between its listing, its look at the
\* parent and the purge: reconcile needs the record to make up for a lost
\* notification.
PurgeSafe ==
    [][\A i, j \in Ids : Awaits(i, j) /\ inst[j].st \in Ended => inst'[j].st # "gone"]_vars

\* The instance waits for a child that does not run.
Unanswered(i) == inst[i].st = "active" /\ inst[i].tok = "call" /\ inst[inst[i].ref].st # "active"

\* A parent that waits for a child which has ended, or which was never stored,
\* is eventually told, or gets an incident, or the child does start; a crash
\* between the two instances' writes only delays it to reconcile.
CallAnswered ==
    \A i \in Ids : Unanswered(i) ~> ~Unanswered(i)

HasLiveParent(i) == inst[i].parent # 0 /\ inst[inst[i].parent].st = "active"

\* With a batch as large as the number of ended instances, each of them is
\* eventually purged unless its parent runs (RunHousekeeping).
PurgedEventually ==
    \A i \in Ids : inst[i].st \in Ended ~> (inst[i].st = "gone" \/ HasLiveParent(i))
=============================================================================
