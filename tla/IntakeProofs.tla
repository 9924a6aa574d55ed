----------------------------- MODULE IntakeProofs -----------------------------
(***************************************************************************)
(* Proofs about Intake: what holds of start triggers, deliveries and the   *)
(* idempotency window for every number of clients, designs, events and     *)
(* crashes.                                                                *)
(***************************************************************************)
EXTENDS Intake, TLAPS, FiniteSetTheorems

------------------------------------------------------------------------------
\* Types.

Kind == {"message", "signal"}
StartEvents == {"message", "signal", "timer"}
Op == {"none", "put", "subs", "jobs", "add", "timer", "trigger", "event", "error"}
StartRec == [id : 1..MaxDeploys, kind : Kind]

ReqType == [op : Op, ver : Nat, id : Nat, left : SUBSET StartEvents, kind : Kind,
            key : CorrKeys \cup {Empty}, subs : SUBSET Waits, from : SUBSET StartRec, count : Nat,
            event : Events \cup {Empty}, rep : Int]

\* A repetition that a timer start may carry.
RepOK(rep) == rep = Cycle \/ rep \in 1..Cycle

DefsOK ==
    /\ deploys \in 0..MaxDeploys
    /\ \A d \in defs : d.ver \in 1..deploys /\ d.starts \in Designs
    /\ starts \subseteq StartRec
    /\ \A j \in timers : j.id \in 1..MaxDeploys /\ j.rep \in Int /\ RepOK(j.rep)

\* A request, after n deployments.
RequestOK(q, n) ==
    /\ q.op = "put" => q.ver \in 1..n /\ q.left \in Designs
    /\ q.op \in {"put", "subs", "jobs", "add"} => q.id \in 1..n
    /\ q.op = "timer" => q.id \in 1..MaxDeploys
    /\ q.op = "timer" => RepOK(q.rep)
    /\ q.op = "event" => q.count = 0
    /\ q.op \notin {"event", "trigger", "error"} => q.event = Empty
    /\ q.count + Cardinality(q.subs) <= Cardinality(Waits)

WindowOK ==
    /\ DOMAIN seen \subseteq Events /\ IsFiniteSet(DOMAIN seen)
    /\ seen = [e \in DOMAIN seen |-> seen[e]]
    /\ Cardinality(DOMAIN seen) <= DedupeLimit

TypeInv ==
    /\ DefsOK
    /\ WindowOK
    /\ waits \subseteq Waits
    /\ woken \in [Waits -> Nat]
    /\ delivered \in [Events -> Nat]
    /\ acked \subseteq Events
    /\ req \in [Clients -> ReqType]
    /\ \A c \in Clients : RequestOK(req[c], deploys)

\* A client without a request is well typed whatever was deployed.
LEMMA NobodyTyped ==
    /\ Nobody \in ReqType /\ Nobody.op = "none" /\ Nobody.event = Empty /\ Nobody.subs = {}
    /\ Nobody.count = 0 /\ Cardinality(Nobody.subs) = 0
    /\ \A n \in Nat : RequestOK(Nobody, n)
<1>1. Nobody \in ReqType
  BY IntakeAssumption DEF Nobody, ReqType, Op, Kind
<1>2. /\ Nobody.op = "none" /\ Nobody.event = Empty /\ Nobody.subs = {} /\ Nobody.count = 0
  BY DEF Nobody
<1>3. Cardinality(Nobody.subs) = 0
  BY <1>2, FS_EmptySet
<1>4. Cardinality(Waits) \in Nat
  BY IntakeAssumption, FS_CardinalityType
<1> QED BY <1>1, <1>2, <1>3, <1>4 DEF RequestOK

\* The version that a deployment reads is the highest one stored.
LEMMA VersionIsLast ==
    ASSUME DefsOK
    PROVE  /\ Version \in 0..deploys
           /\ defs = {} => Version = 0
           /\ defs # {} => \E d \in defs : d.ver = Version
           /\ \A d \in defs : d.ver <= Version
<1>1. deploys \in Nat /\ \A d \in defs : d.ver \in 1..deploys
  BY IntakeAssumption DEF DefsOK
<1>2. CASE defs = {}
  BY <1>1, <1>2 DEF Version
<1>3. CASE defs # {}
  <2> DEFINE T == {m \in Nat : \E d \in defs : d.ver = deploys - m}
             R == OpToRel(<, Nat)
             V == {d.ver : d \in defs}
  <2>1. \A d \in defs : deploys - d.ver \in T
    BY <1>1
  <2>2. T # {} /\ T \subseteq Nat
    BY <1>3, <2>1
  <2>3. PICK x \in T : \A y \in T : ~ (<<y, x>> \in R)
    <3> HIDE DEF T, R
    <3> QED BY <2>2, NatLessThanWellFounded, WFMin DEF R
  <2>4. \A y \in T : ~(y < x)
    BY <2>2, <2>3 DEF OpToRel
  <2>5. PICK l \in defs : l.ver = deploys - x
    BY <2>3
  <2>6. ASSUME NEW d \in defs PROVE d.ver <= l.ver
    <3>1. ~(deploys - d.ver < x) /\ x \in Nat
      BY <2>1, <2>2, <2>4
    <3> QED BY <1>1, <2>5, <3>1
  <2>7. l.ver \in V /\ \A d \in defs : d.ver <= l.ver
    BY <2>5, <2>6
  <2>8. Version \in V /\ \A d \in defs : d.ver <= Version
    BY <1>3, <2>7 DEF Version
  <2> QED BY <1>1, <1>3, <2>8
<1> QED BY <1>2, <1>3

\* The empty store and the empty window are well typed.
LEMMA TypeInit == Init => TypeInv
<1> SUFFICES ASSUME Init PROVE TypeInv
  OBVIOUS
<1> USE DEF Init
<1>1. DefsOK
  BY IntakeAssumption DEF DefsOK
<1>2. WindowOK
  <2>1. DOMAIN seen = {}
    OBVIOUS
  <2>2. seen = [e \in DOMAIN seen |-> seen[e]]
    OBVIOUS
  <2> QED BY <2>1, <2>2, FS_EmptySet, IntakeAssumption DEF WindowOK
<1>3. req \in [Clients -> ReqType] /\ \A c \in Clients : RequestOK(req[c], deploys)
  BY NobodyTyped
<1> QED BY <1>1, <1>2, <1>3 DEF TypeInv

\* A step that gives one client a new request, after n deployments.
LEMMA RequestStep ==
    ASSUME TypeInv, NEW c \in Clients, NEW q \in ReqType, req' = [req EXCEPT ![c] = q],
           deploys' \in {deploys, deploys + 1}, RequestOK(q, deploys')
    PROVE  (req \in [Clients -> ReqType] /\ \A x \in Clients : RequestOK(req[x], deploys))'
<1>1. req' \in [Clients -> ReqType] /\ \A x \in Clients : req'[x] = IF x = c THEN q ELSE req[x]
  BY DEF TypeInv
<1>2. deploys \in Nat /\ \A x \in Clients : RequestOK(req[x], deploys)
  BY DEF TypeInv, DefsOK
<1>3. \A x \in Clients : RequestOK(req[x], deploys')
  BY <1>2 DEF RequestOK
<1> QED BY <1>1, <1>3

\* A list that shrinks by one subscription leaves room to count it.
LEMMA SubsShrink ==
    ASSUME NEW S \in SUBSET Waits, NEW w \in S
    PROVE  /\ Cardinality(S \ {w}) \in Nat
           /\ Cardinality(S) = Cardinality(S \ {w}) + 1
<1>1. IsFiniteSet(S)
  BY IntakeAssumption, FS_Subset
<1>2. IsFiniteSet(S \ {w}) /\ Cardinality(S \ {w}) = Cardinality(S) - 1
  BY <1>1, FS_RemoveElement
<1> QED BY <1>1, <1>2, FS_CardinalityType

\* A listed subscription is looked at once: it is still open, is counted and
\* closes its token's, or it is not counted.
LEMMA TriggerEffect ==
    ASSUME TypeInv, NEW c \in Clients, TriggerSubscription(c)
    PROVE  \E w \in req[c].subs, n \in {req[c].count, req[c].count + 1} :
              /\ req[c].op = "trigger"
              /\ req' = [req EXCEPT ![c].subs = @ \ {w}, ![c].count = n]
              /\ \/ /\ w \in waits /\ woken' = [woken EXCEPT ![w] = @ + 1]
                    /\ waits' = waits \ Closed(w)
                 \/ woken' = woken
              /\ woken' = woken \/ woken' = [woken EXCEPT ![w] = @ + 1]
              /\ waits' \subseteq waits
<1>1. req \in [Clients -> ReqType] /\ req[c] \in ReqType
  BY DEF TypeInv
<1>2. PICK w \in req[c].subs :
         /\ req[c].op = "trigger"
         /\ \/ /\ w \in waits
               /\ req' = [req EXCEPT ![c].subs = @ \ {w}, ![c].count = @ + 1]
               /\ woken' = [woken EXCEPT ![w] = @ + 1]
               /\ waits' = waits \ Closed(w)
            \/ /\ req' = [req EXCEPT ![c].subs = @ \ {w}]
               /\ woken' = woken
               /\ waits' \in {waits, waits \ {w}, waits \ Closed(w)}
  BY DEF TriggerSubscription, StillOpen
<1>3. waits' \subseteq waits
  BY <1>2
<1>4. CASE woken' = woken /\ req' = [req EXCEPT ![c].subs = @ \ {w}]
  <2>1. [req EXCEPT ![c].subs = @ \ {w}] = [req EXCEPT ![c].subs = @ \ {w}, ![c].count = req[c].count]
    BY <1>1 DEF ReqType
  <2> QED BY <1>2, <1>3, <1>4, <2>1
<1>5. CASE /\ w \in waits /\ woken' = [woken EXCEPT ![w] = @ + 1] /\ waits' = waits \ Closed(w)
           /\ req' = [req EXCEPT ![c].subs = @ \ {w}, ![c].count = @ + 1]
  BY <1>1, <1>2, <1>3, <1>5
<1> QED BY <1>2, <1>4, <1>5

\* What ListSubscriptions finds is a request that may trigger.
LEMMA ListedTyped ==
    ASSUME TypeInv, NEW q \in ReqType, q.count = 0, NEW n \in Nat
    PROVE  /\ Listed(q) \in ReqType /\ RequestOK(Listed(q), n)
           /\ Listed(q).event = q.event /\ Listed(q).op = "trigger"
<1> DEFINE S == {w \in waits : Matches(w, q.kind, q.key)}
           F == {s \in starts : s.kind = q.kind}
<1>1. S \subseteq Waits /\ F \subseteq StartRec
  BY DEF TypeInv, DefsOK
<1>2. Cardinality(S) <= Cardinality(Waits) /\ Cardinality(S) \in Nat
  BY <1>1, IntakeAssumption, FS_Subset, FS_CardinalityType
<1>3. Listed(q) = [q EXCEPT !.op = "trigger", !.subs = S, !.from = F]
  BY DEF Listed
<1> HIDE DEF S, F
<1>4. /\ Listed(q) \in ReqType /\ Listed(q).event = q.event /\ Listed(q).op = "trigger"
      /\ Listed(q).count = 0 /\ Listed(q).subs = S
  <2>1. "trigger" \in Op /\ S \in SUBSET Waits /\ F \in SUBSET StartRec
    BY <1>1 DEF Op
  <2> HIDE DEF Listed
  <2> QED BY <1>3, <2>1 DEF ReqType
<1> QED BY <1>2, <1>4 DEF RequestOK

\* remember leaves room for the new key.
LEMMA SweptFits ==
    ASSUME WindowOK
    PROVE  /\ Swept \subseteq DOMAIN seen /\ IsFiniteSet(Swept)
           /\ Cardinality(Swept) \in Nat /\ Cardinality(Swept) < DedupeLimit
<1> DEFINE fresh == {e \in DOMAIN seen : seen[e]}
<1>1. IsFiniteSet(DOMAIN seen) /\ fresh \subseteq DOMAIN seen
  BY DEF WindowOK
<1>2. Swept \subseteq DOMAIN seen /\ IsFiniteSet(Swept)
  BY <1>1, FS_Subset, FS_EmptySet DEF Swept
<1>3. Cardinality(Swept) < DedupeLimit
  <2> HIDE DEF fresh
  <2>1. \/ Cardinality(DOMAIN seen) < DedupeLimit /\ Swept = DOMAIN seen
        \/ Cardinality(fresh) < DedupeLimit /\ Swept = fresh
        \/ Swept = {}
    BY DEF Swept, fresh
  <2>2. Cardinality({}) < DedupeLimit
    BY IntakeAssumption, FS_EmptySet
  <2> QED BY <2>1, <2>2
<1> QED BY <1>2, <1>3, FS_CardinalityType

\* Remembering an event leaves room for it: the window sweeps, or starts over,
\* before it would outgrow its limit.
LEMMA RememberFits ==
    ASSUME WindowOK, NEW e \in Events, Remember(e)
    PROVE  WindowOK' /\ DOMAIN seen' = Swept \cup {e}
<1>1. DOMAIN seen' = Swept \cup {e} /\ seen' = [x \in DOMAIN seen' |-> seen'[x]]
  BY DEF Remember
<1>2. IsFiniteSet(Swept \cup {e}) /\ Cardinality(Swept \cup {e}) <= Cardinality(Swept) + 1
  <2>1. /\ IsFiniteSet(Swept \cup {e})
        /\ Cardinality(Swept \cup {e}) =
              IF e \in Swept THEN Cardinality(Swept) ELSE Cardinality(Swept) + 1
    BY SweptFits, FS_AddElement
  <2>2. Cardinality(Swept) \in Nat
    BY SweptFits
  <2> QED BY <2>1, <2>2
<1>3. Cardinality(Swept \cup {e}) <= DedupeLimit
  BY <1>2, SweptFits, FS_CardinalityType, IntakeAssumption
<1>4. DOMAIN seen' \subseteq Events
  BY <1>1, SweptFits DEF WindowOK
<1> QED BY <1>1, <1>2, <1>3, <1>4 DEF WindowOK

\* Every step keeps the types, one case per action.
LEMMA TypeStep == TypeInv /\ [Next]_vars => TypeInv'
<1> SUFFICES ASSUME TypeInv, [Next]_vars PROVE TypeInv'
  OBVIOUS
<1> USE DEF deployVars, sendVars, Excuse
<1>t. /\ req \in [Clients -> ReqType] /\ \A c \in Clients : RequestOK(req[c], deploys)
      /\ deploys \in Nat /\ MaxDeploys \in Nat /\ deploys <= MaxDeploys
      /\ DefsOK /\ WindowOK
  BY IntakeAssumption DEF TypeInv, DefsOK
<1> DEFINE Others == UNCHANGED <<waits, seen, woken, delivered, acked>>
<1>o. ASSUME Others, DefsOK', (req \in [Clients -> ReqType])',
             (\A x \in Clients : RequestOK(req[x], deploys))'
      PROVE  TypeInv'
  BY <1>o DEF TypeInv, WindowOK
<1>1. ASSUME NEW c \in Clients, NEW design \in Designs, Deploy(c, design) PROVE TypeInv'
  <2> DEFINE v == Version + 1
             n == deploys + 1
             q == [Nobody EXCEPT !.op = "put", !.ver = v, !.id = n, !.left = design]
  <2>1. /\ req' = [req EXCEPT ![c] = q] /\ deploys' = deploys + 1 /\ deploys < MaxDeploys
        /\ UNCHANGED <<defs, starts, timers>> /\ Others
    BY <1>1 DEF Deploy
  <2>2. v \in 1..n /\ n \in 1..n /\ v \in Nat /\ n \in Nat /\ deploys' = n
    BY <1>t, <2>1, VersionIsLast
  <2>3. design \in SUBSET StartEvents
    BY IntakeAssumption DEF StartEvents
  <2> HIDE DEF v, n
  <2>4. /\ q \in ReqType /\ q.op = "put" /\ q.ver = v /\ q.id = n
        /\ q.left = design /\ q.subs = {} /\ q.count = 0 /\ q.event = Empty
    BY <2>2, <2>3, NobodyTyped DEF ReqType, Op
  <2> HIDE DEF q
  <2>5. RequestOK(q, deploys')
    <3>1. 0 + Cardinality(q.subs) <= Cardinality(Waits)
      BY <2>4, IntakeAssumption, FS_EmptySet, FS_CardinalityType
    <3> QED BY <2>1, <2>2, <2>4, <3>1 DEF RequestOK
  <2>6. DefsOK'
    BY <1>t, <2>1 DEF DefsOK
  <2> QED BY <1>o, <2>1, <2>4, <2>5, <2>6, RequestStep
<1>2. ASSUME NEW c \in Clients, PutDefinition(c) PROVE TypeInv'
  <2> DEFINE q == [req[c] EXCEPT !.op = "subs"]
             d == [ver |-> req[c].ver, id |-> req[c].id, starts |-> req[c].left]
  <2>1. /\ req[c].op = "put" /\ req' = [req EXCEPT ![c] = q]
        /\ defs' = defs \cup {d} /\ UNCHANGED <<starts, timers, deploys>> /\ Others
    BY <1>2, <1>t DEF PutDefinition
  <2>2. /\ q \in ReqType /\ q.op = "subs" /\ q.id = req[c].id /\ q.count = req[c].count
        /\ q.subs = req[c].subs /\ q.event = req[c].event
    BY <1>t DEF ReqType, Op
  <2>3. RequestOK(q, deploys')
    <3> HIDE DEF q
    <3> QED BY <1>t, <2>1, <2>2 DEF RequestOK
  <2>4. d.ver \in 1..deploys /\ d.starts \in Designs
    BY <1>t, <2>1 DEF RequestOK
  <2>5. DefsOK'
    <3> HIDE DEF d
    <3> QED BY <1>t, <2>1, <2>4 DEF DefsOK
  <2> HIDE DEF q
  <2> QED BY <1>o, <2>1, <2>2, <2>3, <2>5, RequestStep
<1>3. ASSUME NEW c \in Clients, DropStartSubscriptions(c) \/ DropStartJobs(c) PROVE TypeInv'
  <2> DEFINE op == IF req[c].op = "subs" THEN "jobs" ELSE "add"
             q == [req[c] EXCEPT !.op = op]
  <2>1. /\ req[c].op \in {"subs", "jobs"} /\ req' = [req EXCEPT ![c] = q]
        /\ starts' \in {{}, starts} /\ timers' \in {{}, timers}
        /\ UNCHANGED <<defs, deploys>> /\ Others
    BY <1>3, <1>t DEF DropStartSubscriptions, DropStartJobs
  <2>2. op \in {"jobs", "add"}
    OBVIOUS
  <2> HIDE DEF op
  <2>3. /\ q \in ReqType /\ q.op = op /\ q.id = req[c].id /\ q.count = req[c].count
        /\ q.subs = req[c].subs /\ q.event = req[c].event
    BY <1>t, <2>2 DEF ReqType, Op
  <2> HIDE DEF q
  <2>4. RequestOK(q, deploys')
    BY <1>t, <2>1, <2>2, <2>3 DEF RequestOK
  <2>5. DefsOK'
    BY <1>t, <2>1 DEF DefsOK
  <2> QED BY <1>o, <2>1, <2>3, <2>4, <2>5, RequestStep
<1>4. ASSUME NEW c \in Clients, RegisterStartTrigger(c) PROVE TypeInv'
  <2>1. PICK s \in req[c].left :
           /\ req[c].op = "add"
           /\ \/ /\ timers' = timers \cup {[id |-> req[c].id, rep |-> Cycle]}
                 /\ UNCHANGED starts
              \/ /\ s # "timer" /\ UNCHANGED timers
                 /\ starts' = starts \cup {[id |-> req[c].id, kind |-> s]}
           /\ req' = [req EXCEPT ![c].left = @ \ {s}]
    BY <1>4 DEF RegisterStartTrigger
  <2>2. UNCHANGED <<defs, deploys>> /\ Others
    BY <1>4 DEF RegisterStartTrigger
  <2>3. s \in StartEvents /\ req[c].id \in 1..MaxDeploys
    BY <1>t, <2>1 DEF ReqType, RequestOK
  <2>4. DefsOK'
    <3>1. [id |-> req[c].id, kind |-> s] \in StartRec \/ s = "timer"
      BY <2>3 DEF StartRec, StartEvents, Kind
    <3>2. starts' \subseteq StartRec
      BY <1>t, <2>1, <3>1 DEF DefsOK
    <3>3. \A j \in timers' : j.id \in 1..MaxDeploys /\ j.rep \in Int /\ RepOK(j.rep)
      BY <1>t, <2>1, <2>3, IntakeAssumption DEF DefsOK, RepOK
    <3> QED BY <1>t, <2>2, <3>2, <3>3 DEF DefsOK
  <2> DEFINE q == [req[c] EXCEPT !.left = req[c].left \ {s}]
  <2>5. /\ q \in ReqType /\ q.op = req[c].op /\ q.id = req[c].id /\ q.count = req[c].count
        /\ q.subs = req[c].subs /\ q.event = req[c].event
    BY <1>t DEF ReqType
  <2>6. req' = [req EXCEPT ![c] = q]
    BY <1>t, <2>1
  <2> HIDE DEF q
  <2>7. RequestOK(q, deploys')
    BY <1>t, <2>1, <2>2, <2>5 DEF RequestOK
  <2> QED BY <1>o, <2>2, <2>4, <2>5, <2>6, <2>7, RequestStep
<1>5. ASSUME NEW c \in Clients, Deployed(c) \/ DeployFails(c) PROVE TypeInv'
  <2>1. req' = [req EXCEPT ![c] = Nobody] /\ UNCHANGED <<defs, starts, timers, deploys>> /\ Others
    BY <1>5 DEF Deployed, DeployFails
  <2>2. DefsOK'
    BY <1>t, <2>1 DEF DefsOK
  <2> QED BY <1>o, <1>t, <2>1, <2>2, NobodyTyped, RequestStep
<1>6. ASSUME NEW c \in Clients, ClaimTimerStart(c) PROVE TypeInv'
  <2>1. PICK j \in timers :
           /\ timers' = timers \ {j}
           /\ req' = [req EXCEPT ![c] = [Nobody EXCEPT !.op = "timer", !.id = j.id, !.rep = j.rep]]
    BY <1>6 DEF ClaimTimerStart
  <2>2. UNCHANGED <<defs, starts, deploys>> /\ Others
    BY <1>6 DEF ClaimTimerStart
  <2>3. j.id \in 1..MaxDeploys /\ j.rep \in Int /\ RepOK(j.rep)
    BY <1>t DEF DefsOK
  <2>4. DefsOK'
    BY <1>t, <2>1, <2>2 DEF DefsOK
  <2> DEFINE q == [Nobody EXCEPT !.op = "timer", !.id = j.id, !.rep = j.rep]
  <2>5. /\ q \in ReqType /\ q.op = "timer" /\ q.id = j.id /\ q.rep = j.rep /\ q.count = 0
        /\ q.subs = {} /\ q.event = Empty
    <3>1. j.id \in Nat
      BY <2>3, <1>t
    <3> QED BY <2>3, <3>1, NobodyTyped DEF ReqType, Op
  <2>6. req' = [req EXCEPT ![c] = q]
    BY <2>1
  <2> HIDE DEF q
  <2>7. RequestOK(q, deploys')
    <3>1. 0 + Cardinality(q.subs) <= Cardinality(Waits)
      BY <2>5, IntakeAssumption, FS_EmptySet, FS_CardinalityType
    <3> QED BY <2>3, <2>5, <3>1 DEF RequestOK
  <2> QED BY <1>o, <2>2, <2>4, <2>5, <2>6, <2>7, RequestStep
<1>7. ASSUME NEW c \in Clients, ExecuteTimerStart(c) PROVE TypeInv'
  <2> DEFINE n == IF req[c].rep > 0 THEN req[c].rep - 1 ELSE req[c].rep
             j == [id |-> req[c].id, rep |-> n]
  <2>1. /\ req[c].op = "timer"
        /\ timers' = timers \cup (IF Repeats(req[c].rep) THEN {j} ELSE {})
        /\ req' = [req EXCEPT ![c] = Nobody]
        /\ UNCHANGED <<defs, starts, deploys>> /\ Others
    BY <1>7 DEF ExecuteTimerStart
  <2>2. req[c].rep \in Int /\ req[c].id \in 1..MaxDeploys /\ RepOK(req[c].rep)
    BY <1>t, <2>1 DEF ReqType, RequestOK
  <2>3. Repeats(req[c].rep) => n \in Int /\ RepOK(n)
    BY <2>2, IntakeAssumption DEF Repeats, RepOK
  <2>4. \A k \in timers' : k.id \in 1..MaxDeploys /\ k.rep \in Int /\ RepOK(k.rep)
    <3>1. timers' = timers \/ (timers' = timers \cup {j} /\ n \in Int /\ RepOK(n))
      BY <2>1, <2>3
    <3>2. j.rep = n /\ j.id = req[c].id
      OBVIOUS
    <3> HIDE DEF n, j
    <3> QED BY <1>t, <2>2, <3>1, <3>2 DEF DefsOK
  <2>5. DefsOK'
    BY <1>t, <2>1, <2>4 DEF DefsOK
  <2> QED BY <1>o, <1>t, <2>1, <2>5, NobodyTyped, RequestStep
<1>8. ASSUME NEW c \in Clients, NEW kind \in Kind, NEW key \in CorrKeys \cup {Empty},
             Send(c, kind, key)
      PROVE  TypeInv'
  <2> DEFINE q == [Nobody EXCEPT !.kind = kind, !.key = key]
  <2>1. /\ req' = [req EXCEPT ![c] = Listed(q)]
        /\ UNCHANGED <<defs, starts, timers, deploys>> /\ Others
    BY <1>8 DEF Send
  <2>2. q \in ReqType /\ q.count = 0
    BY NobodyTyped DEF ReqType
  <2> HIDE DEF q
  <2>3. Listed(q) \in ReqType /\ RequestOK(Listed(q), deploys')
    BY <1>t, <2>1, <2>2, ListedTyped
  <2>4. DefsOK'
    BY <1>t, <2>1 DEF DefsOK
  <2> QED BY <1>o, <2>1, <2>3, <2>4, RequestStep
<1>9. ASSUME NEW c \in Clients, TriggerSubscription(c) PROVE TypeInv'
  <2>1. PICK w \in req[c].subs, n \in {req[c].count, req[c].count + 1} :
           /\ req[c].op = "trigger"
           /\ req' = [req EXCEPT ![c].subs = @ \ {w}, ![c].count = n]
           /\ woken' = woken \/ woken' = [woken EXCEPT ![w] = @ + 1]
           /\ waits' \subseteq waits
    BY <1>9, TriggerEffect
  <2>2. UNCHANGED <<defs, starts, timers, deploys, seen, delivered, acked>>
    BY <1>9 DEF TriggerSubscription
  <2> DEFINE q == [req[c] EXCEPT !.subs = req[c].subs \ {w}, !.count = n]
  <2>3. req' = [req EXCEPT ![c] = q]
    BY <1>t, <2>1
  <2>4. req[c].subs \in SUBSET Waits /\ req[c].count \in Nat
    BY <1>t DEF ReqType
  <2>5. n \in Nat /\ n <= req[c].count + 1
    BY <2>4
  <2>6. /\ q \in ReqType /\ q.op = req[c].op /\ q.count = n /\ q.subs = req[c].subs \ {w}
    BY <1>t, <2>4, <2>5 DEF ReqType
  <2> HIDE DEF q
  <2>7. RequestOK(q, deploys')
    <3>1. req[c].count + Cardinality(req[c].subs) <= Cardinality(Waits)
      BY <1>t DEF RequestOK
    <3>2. Cardinality(Waits) \in Nat
      BY IntakeAssumption, FS_CardinalityType
    <3>3. n + Cardinality(req[c].subs \ {w}) <= Cardinality(Waits)
      BY <2>1, <2>4, <2>5, <3>1, <3>2, SubsShrink
    <3> QED BY <2>1, <2>6, <3>3 DEF RequestOK
  <2>8. w \in Waits
    BY <2>1, <2>4
  <2>9. woken' \in [Waits -> Nat]
    BY <2>1, <2>8 DEF TypeInv
  <2>10. /\ (req \in [Clients -> ReqType])'
         /\ (\A x \in Clients : RequestOK(req[x], deploys))'
    BY <2>2, <2>3, <2>6, <2>7, RequestStep
  <2> QED BY <2>1, <2>2, <2>9, <2>10 DEF TypeInv, DefsOK, WindowOK
<1>10. ASSUME NEW c \in Clients, StartFromTrigger(c) PROVE TypeInv'
  <2>1. /\ req[c].op = "trigger"
        /\ UNCHANGED <<defs, starts, timers, deploys>> /\ Others
        /\ \/ \E s \in req[c].from : req' = [req EXCEPT ![c].from = @ \ {s}]
           \/ req' = [req EXCEPT ![c].op = "error"]
    BY <1>10 DEF StartFromTrigger
  <2>2. DefsOK'
    BY <1>t, <2>1 DEF DefsOK
  <2>3. ASSUME NEW s \in req[c].from, req' = [req EXCEPT ![c].from = @ \ {s}] PROVE TypeInv'
    <3> DEFINE q == [req[c] EXCEPT !.from = req[c].from \ {s}]
    <3>1. /\ q \in ReqType /\ q.op = req[c].op /\ q.count = req[c].count /\ q.subs = req[c].subs
          /\ req' = [req EXCEPT ![c] = q]
      BY <1>t, <2>3 DEF ReqType
    <3> HIDE DEF q
    <3>2. RequestOK(q, deploys')
      BY <1>t, <2>1, <3>1 DEF RequestOK
    <3> QED BY <1>o, <2>1, <2>2, <3>1, <3>2, RequestStep
  <2>4. CASE req' = [req EXCEPT ![c].op = "error"]
    <3> DEFINE q == [req[c] EXCEPT !.op = "error"]
    <3>1. /\ q \in ReqType /\ q.op = "error" /\ q.count = req[c].count /\ q.subs = req[c].subs
          /\ req' = [req EXCEPT ![c] = q]
      BY <1>t, <2>4 DEF ReqType, Op
    <3> HIDE DEF q
    <3>2. RequestOK(q, deploys')
      BY <1>t, <2>1, <3>1 DEF RequestOK
    <3> QED BY <1>o, <2>1, <2>2, <3>1, <3>2, RequestStep
  <2> QED BY <2>1, <2>3, <2>4
<1>11. ASSUME NEW c \in Clients, Sent(c) PROVE TypeInv'
  <2>1. /\ req' = [req EXCEPT ![c] = Nobody]
        /\ \/ /\ req[c].event \in Events
              /\ delivered' = [delivered EXCEPT ![req[c].event] = @ + 1]
              /\ acked' = acked \cup {req[c].event}
           \/ UNCHANGED <<delivered, acked>>
        /\ UNCHANGED <<defs, starts, timers, deploys, waits, seen, woken>>
    BY <1>11 DEF Sent
  <2>2. delivered' \in [Events -> Nat] /\ acked' \subseteq Events
    BY <2>1 DEF TypeInv
  <2>3. /\ (req \in [Clients -> ReqType])'
        /\ (\A x \in Clients : RequestOK(req[x], deploys))'
    BY <1>t, <2>1, NobodyTyped, RequestStep
  <2> QED BY <2>1, <2>2, <2>3 DEF TypeInv, DefsOK, WindowOK
<1>12. ASSUME NEW c \in Clients, Refused(c) PROVE TypeInv'
  <2>1. req' = [req EXCEPT ![c] = Nobody] /\ UNCHANGED <<defs, starts, timers, deploys>> /\ Others
    BY <1>12 DEF Refused
  <2>2. DefsOK'
    BY <1>t, <2>1 DEF DefsOK
  <2> QED BY <1>o, <1>t, <2>1, <2>2, NobodyTyped, RequestStep
<1>13. ASSUME NEW c \in Clients, NEW e \in Events, Webhook(c, e) PROVE TypeInv'
  <2>1. UNCHANGED <<defs, starts, timers, deploys, waits, woken, delivered>>
    BY <1>13 DEF Webhook
  <2>2. CASE InWindow(e)
    <3>1. acked' = acked \cup {e} /\ UNCHANGED <<seen, req>>
      BY <1>13, <2>2 DEF Webhook
    <3> QED BY <2>1, <3>1 DEF TypeInv, DefsOK, WindowOK
  <2>3. CASE ~InWindow(e)
    <3> DEFINE q == [Nobody EXCEPT !.op = "event", !.event = e]
    <3>1. Remember(e) /\ req' = [req EXCEPT ![c] = q] /\ UNCHANGED acked
      BY <1>13, <2>3 DEF Webhook
    <3>2. q \in ReqType /\ q.op = "event" /\ q.count = 0 /\ q.subs = {}
      BY NobodyTyped DEF ReqType, Op
    <3> HIDE DEF q
    <3>3. RequestOK(q, deploys')
      <4>1. 0 + Cardinality(q.subs) <= Cardinality(Waits)
        BY <3>2, IntakeAssumption, FS_EmptySet, FS_CardinalityType
      <4> QED BY <3>2, <4>1 DEF RequestOK
    <3>4. /\ (req \in [Clients -> ReqType])'
          /\ (\A x \in Clients : RequestOK(req[x], deploys))'
      BY <2>1, <3>1, <3>2, <3>3, RequestStep
    <3>5. WindowOK'
      BY <1>t, <3>1, RememberFits
    <3> QED BY <2>1, <3>1, <3>4, <3>5 DEF TypeInv, DefsOK
  <2> QED BY <2>2, <2>3
<1>14. ASSUME NEW c \in Clients, WebhookDelivers(c) PROVE TypeInv'
  <2>1. /\ req[c].op = "event"
        /\ UNCHANGED <<defs, starts, timers, deploys>> /\ Others
        /\ \/ \E key \in CorrKeys : req' = [req EXCEPT ![c] = Listed([req[c] EXCEPT !.key = key])]
           \/ req' = [req EXCEPT ![c].op = "error"]
    BY <1>14, <1>t DEF WebhookDelivers
  <2>2. DefsOK'
    BY <1>t, <2>1 DEF DefsOK
  <2>3. ASSUME NEW key \in CorrKeys, req' = [req EXCEPT ![c] = Listed([req[c] EXCEPT !.key = key])]
        PROVE  TypeInv'
    <3> DEFINE q == [req[c] EXCEPT !.key = key]
    <3>1. q \in ReqType /\ q.count = 0
      <4>1. req[c].count = 0
        BY <1>t, <2>1 DEF RequestOK
      <4> QED BY <1>t, <4>1 DEF ReqType
    <3>2. req' = [req EXCEPT ![c] = Listed(q)]
      BY <2>3
    <3> HIDE DEF q
    <3>3. Listed(q) \in ReqType /\ RequestOK(Listed(q), deploys')
      BY <1>t, <2>1, <3>1, ListedTyped
    <3> QED BY <1>o, <2>1, <2>2, <3>2, <3>3, RequestStep
  <2>4. CASE req' = [req EXCEPT ![c].op = "error"]
    <3> DEFINE q == [req[c] EXCEPT !.op = "error"]
    <3>1. /\ q \in ReqType /\ q.op = "error" /\ q.count = req[c].count /\ q.subs = req[c].subs
          /\ req' = [req EXCEPT ![c] = q]
      BY <1>t, <2>4 DEF ReqType, Op
    <3> HIDE DEF q
    <3>2. RequestOK(q, deploys')
      BY <1>t, <2>1, <3>1 DEF RequestOK
    <3> QED BY <1>o, <2>1, <2>2, <3>1, <3>2, RequestStep
  <2> QED BY <2>1, <2>3, <2>4
<1>15. ASSUME NEW e \in Events, Expire(e) PROVE TypeInv'
  <2>1. /\ seen' = [seen EXCEPT ![e] = FALSE]
        /\ UNCHANGED <<defs, starts, timers, deploys, waits, woken, delivered, acked, req>>
    BY <1>15 DEF Expire
  <2>2. DOMAIN seen' = DOMAIN seen /\ seen' = [x \in DOMAIN seen' |-> seen'[x]]
    BY <2>1
  <2>3. WindowOK'
    BY <1>t, <2>2 DEF WindowOK
  <2> QED BY <2>1, <2>3 DEF TypeInv, DefsOK
<1>16. CASE Crash
  <2>1. /\ req' = [c \in Clients |-> Nobody] /\ seen' = [e \in {} |-> TRUE]
        /\ UNCHANGED <<defs, starts, timers, waits, deploys, woken, delivered, acked>>
    BY <1>16 DEF Crash
  <2>2. DOMAIN seen' = {} /\ seen' = [x \in DOMAIN seen' |-> seen'[x]]
    BY <2>1
  <2>3. WindowOK'
    BY <2>2, FS_EmptySet, IntakeAssumption DEF WindowOK
  <2>4. /\ (req \in [Clients -> ReqType])'
        /\ (\A x \in Clients : RequestOK(req[x], deploys))'
    BY <1>t, <2>1, NobodyTyped
  <2> QED BY <2>1, <2>3, <2>4 DEF TypeInv, DefsOK
<1>17. CASE UNCHANGED vars
  BY <1>17 DEF vars, TypeInv, DefsOK, WindowOK
<1>18. {"message", "signal"} = Kind
  BY DEF Kind
<1> QED BY <1>1, <1>2, <1>3, <1>4, <1>5, <1>6, <1>7, <1>8, <1>9, <1>10, <1>11, <1>12, <1>13,
           <1>14, <1>15, <1>16, <1>17, <1>18 DEF Next

\* Records, requests and the idempotency window have their types for every
\* instance: the window never outgrows dedupeCache.limit, no timer start repeats
\* more often than its cycle, and no delivery counts more than there is.
THEOREM IntakeTypes == Spec => []TypeOK
<1>1. TypeInv => TypeOK
  <2> SUFFICES ASSUME TypeInv PROVE TypeOK
    OBVIOUS
  <2>1. \A d \in defs : d.ver \in 1..MaxDeploys /\ d.starts \in Designs
    BY IntakeAssumption DEF TypeInv, DefsOK
  <2>2. /\ \A s \in starts : s.kind \in {"message", "signal"} /\ s.id \in 1..MaxDeploys
        /\ \A j \in timers : j.id \in 1..MaxDeploys /\ (j.rep = Cycle \/ j.rep \in 1..Cycle)
    BY DEF TypeInv, DefsOK, StartRec, Kind, RepOK
  <2>3. ASSUME NEW c \in Clients PROVE req[c].count \in 0..Cardinality(Waits)
    <3>1. req[c].subs \subseteq Waits /\ req[c].count \in Nat
      BY DEF TypeInv, ReqType
    <3>2. Cardinality(req[c].subs) \in Nat /\ Cardinality(Waits) \in Nat
      BY <3>1, IntakeAssumption, FS_Subset, FS_CardinalityType
    <3>3. req[c].count + Cardinality(req[c].subs) <= Cardinality(Waits)
      BY DEF TypeInv, RequestOK
    <3> QED BY <3>1, <3>2, <3>3
  <2> QED BY <2>1, <2>2, <2>3 DEF TypeInv, WindowOK, TypeOK
<1> QED BY <1>1, TypeInit, TypeStep, PTL DEF Spec

------------------------------------------------------------------------------
\* Deliveries: a token that was woken has nothing open, and whoever may still
\* trigger a subscription is a message or signal that has not done so.

Pending(w) == {c \in Clients : req[c].op = "event" \/ w \in req[c].subs}

ClosedInv ==
    \A v, w \in Waits :
        v.once /\ w.once /\ v.token = w.token /\ woken[v] > 0 =>
            w \notin waits /\ (woken[w] > 0 => v = w /\ woken[w] = 1)

PendingInv ==
    /\ sends \in Nat
    /\ \A w \in Waits : IsFiniteSet(Pending(w)) /\ woken[w] + Cardinality(Pending(w)) <= sends

WokenInv == ClosedInv /\ PendingInv

\* The steps that neither bring nor trigger subscriptions.
NoSend ==
    \/ \E c \in Clients :
          \/ \E design \in Designs : Deploy(c, design)
          \/ PutDefinition(c) \/ DropStartSubscriptions(c) \/ DropStartJobs(c)
          \/ RegisterStartTrigger(c) \/ DeployFails(c) \/ Deployed(c)
          \/ ClaimTimerStart(c) \/ ExecuteTimerStart(c)
          \/ StartFromTrigger(c) \/ Sent(c) \/ Refused(c)
          \/ WebhookDelivers(c)
    \/ \E e \in Events : Expire(e)
    \/ Crash
    \/ UNCHANGED vars

\* They leave nobody with a subscription to trigger who had not.
LEMMA NoSendEffect ==
    ASSUME TypeInv, NoSend
    PROVE  /\ UNCHANGED <<waits, woken, sends>>
           /\ \A w \in Waits : Pending(w)' \subseteq Pending(w)
<1> USE DEF deployVars, sendVars
<1>1. UNCHANGED <<waits, woken, sends>>
  BY DEF NoSend, Deploy, PutDefinition, DropStartSubscriptions, DropStartJobs, RegisterStartTrigger,
         DeployFails, Deployed, ClaimTimerStart, ExecuteTimerStart, StartFromTrigger, Sent, Refused,
         WebhookDelivers, Expire, Crash, vars
<1>t. req \in [Clients -> ReqType]
  BY DEF TypeInv
<1> DEFINE Fewer == \A w \in Waits : Pending(w)' \subseteq Pending(w)
<1>2. ASSUME NEW c \in Clients, NEW q, req' = [req EXCEPT ![c] = q],
             \/ req[c].op = "event"
             \/ q.op # "event" /\ q.subs \subseteq req[c].subs
      PROVE  Fewer
  BY <1>2, <1>t DEF Pending
<1>3. ASSUME NEW c \in Clients, req' = [req EXCEPT ![c] = Nobody] PROVE Fewer
  BY <1>2, <1>3, NobodyTyped
<1>4. ASSUME NEW c \in Clients, NEW op, op # "event", req' = [req EXCEPT ![c].op = op] PROVE Fewer
  <2> DEFINE q == [req[c] EXCEPT !.op = op]
  <2>1. req' = [req EXCEPT ![c] = q] /\ q.op = op /\ q.subs = req[c].subs
    BY <1>t, <1>4 DEF ReqType
  <2> HIDE DEF q
  <2> QED BY <1>2, <1>4, <2>1
<1>5. ASSUME NEW c \in Clients, NEW design \in Designs, Deploy(c, design) PROVE Fewer
  <2> DEFINE q == [Nobody EXCEPT !.op = "put", !.ver = Version + 1, !.id = deploys + 1,
                                 !.left = design]
  <2>1. req[c] = Nobody /\ req' = [req EXCEPT ![c] = q]
    BY <1>5 DEF Deploy
  <2>2. q.op = "put" /\ q.subs = Nobody.subs
    BY DEF Nobody
  <2> HIDE DEF q
  <2> QED BY <1>2, <2>1, <2>2
<1>6. ASSUME NEW c \in Clients, RegisterStartTrigger(c) PROVE Fewer
  <2>1. PICK s \in req[c].left : req[c].op = "add" /\ req' = [req EXCEPT ![c].left = @ \ {s}]
    BY <1>6 DEF RegisterStartTrigger
  <2> DEFINE q == [req[c] EXCEPT !.left = req[c].left \ {s}]
  <2>2. req' = [req EXCEPT ![c] = q] /\ q.op = "add" /\ q.subs = req[c].subs
    BY <1>t, <2>1 DEF ReqType
  <2> HIDE DEF q
  <2> QED BY <1>2, <2>2
<1>7. ASSUME NEW c \in Clients, ClaimTimerStart(c) PROVE Fewer
  <2>1. PICK j \in timers :
           /\ req[c] = Nobody
           /\ req' = [req EXCEPT ![c] = [Nobody EXCEPT !.op = "timer", !.id = j.id, !.rep = j.rep]]
    BY <1>7 DEF ClaimTimerStart
  <2> DEFINE q == [Nobody EXCEPT !.op = "timer", !.id = j.id, !.rep = j.rep]
  <2>2. q.op = "timer" /\ q.subs = Nobody.subs /\ req' = [req EXCEPT ![c] = q]
    BY <2>1 DEF Nobody
  <2> HIDE DEF q
  <2> QED BY <1>2, <2>1, <2>2
<1>8. ASSUME NEW c \in Clients, StartFromTrigger(c) PROVE Fewer
  <2>1. /\ req[c].op = "trigger"
        /\ (\E s : req' = [req EXCEPT ![c].from = @ \ {s}]) \/ req' = [req EXCEPT ![c].op = "error"]
    BY <1>8 DEF StartFromTrigger
  <2>2. ASSUME NEW s, req' = [req EXCEPT ![c].from = @ \ {s}] PROVE Fewer
    <3> DEFINE q == [req[c] EXCEPT !.from = req[c].from \ {s}]
    <3>1. req' = [req EXCEPT ![c] = q] /\ q.op = "trigger" /\ q.subs = req[c].subs
      BY <1>t, <2>1, <2>2 DEF ReqType
    <3> HIDE DEF q
    <3> QED BY <1>2, <3>1
  <2> QED BY <1>4, <2>1, <2>2
<1>9. ASSUME NEW c \in Clients, WebhookDelivers(c) PROVE Fewer
  <2>1. req[c].op = "event" /\ \E q : req' = [req EXCEPT ![c] = q]
    BY <1>9 DEF WebhookDelivers
  <2> QED BY <1>2, <2>1
<1>10. ASSUME NEW c \in Clients,
              \/ PutDefinition(c) \/ DropStartSubscriptions(c) \/ DropStartJobs(c)
              \/ DeployFails(c) \/ Deployed(c) \/ ExecuteTimerStart(c) \/ Sent(c) \/ Refused(c)
       PROVE  Fewer
  BY <1>3, <1>4, <1>10 DEF PutDefinition, DropStartSubscriptions, DropStartJobs, DeployFails,
                           Deployed, ExecuteTimerStart, Sent, Refused
<1>11. CASE (\E e \in Events : Expire(e)) \/ UNCHANGED vars
  BY <1>11 DEF Expire, vars, Pending
<1>12. CASE Crash
  BY <1>12, NobodyTyped DEF Crash, Pending
<1>13. Fewer
  BY <1>5, <1>6, <1>7, <1>8, <1>9, <1>10, <1>11, <1>12 DEF NoSend
<1> QED BY <1>1, <1>13

\* A message, a signal or a webhook request is one more that may trigger.
LEMMA SendEffect ==
    ASSUME TypeInv, PendingInv, NEW c \in Clients,
           \/ \E key \in CorrKeys : Send(c, "message", key)
           \/ Send(c, "signal", Empty)
           \/ \E e \in Events : Webhook(c, e)
    PROVE  UNCHANGED <<waits, woken>> /\ PendingInv'
<1>1. UNCHANGED <<waits, woken>> /\ sends' = sends + 1
  BY DEF Send, Webhook
<1>2. req' = req \/ \E q : req' = [req EXCEPT ![c] = q]
  BY DEF Send, Webhook
<1>3. ASSUME NEW w \in Waits
      PROVE  IsFiniteSet(Pending(w)') /\ woken[w] + Cardinality(Pending(w)') <= sends + 1
  <2>1. Pending(w)' \subseteq Pending(w) \cup {c}
    BY <1>2 DEF Pending, TypeInv
  <2>2. IsFiniteSet(Pending(w)) /\ woken[w] + Cardinality(Pending(w)) <= sends
    BY DEF PendingInv
  <2>3. /\ IsFiniteSet(Pending(w) \cup {c})
        /\ Cardinality(Pending(w) \cup {c}) \in {Cardinality(Pending(w)), Cardinality(Pending(w)) + 1}
    BY <2>2, FS_AddElement
  <2>4. /\ IsFiniteSet(Pending(w)')
        /\ Cardinality(Pending(w)') <= Cardinality(Pending(w) \cup {c})
    BY <2>1, <2>3, FS_Subset
  <2>5. /\ Cardinality(Pending(w)) \in Nat /\ Cardinality(Pending(w)') \in Nat
        /\ Cardinality(Pending(w) \cup {c}) \in Nat
    BY <2>2, <2>3, <2>4, FS_CardinalityType
  <2>6. woken[w] \in Nat /\ sends \in Nat
    BY DEF TypeInv, PendingInv
  <2> QED BY <2>2, <2>3, <2>4, <2>5, <2>6
<1> QED BY <1>1, <1>3 DEF PendingInv

\* Who triggers a subscription is no longer among those that may.
LEMMA TriggerKeepsWoken ==
    ASSUME TypeInv, WokenInv, NEW c \in Clients, TriggerSubscription(c)
    PROVE  WokenInv'
<1>1. PICK w \in req[c].subs, n \in {req[c].count, req[c].count + 1} :
         /\ req' = [req EXCEPT ![c].subs = @ \ {w}, ![c].count = n]
         /\ \/ /\ w \in waits /\ woken' = [woken EXCEPT ![w] = @ + 1]
               /\ waits' = waits \ Closed(w)
            \/ woken' = woken
         /\ waits' \subseteq waits
         /\ req[c].op = "trigger"
  BY TriggerEffect
<1>2. /\ woken \in [Waits -> Nat] /\ w \in Waits /\ req \in [Clients -> ReqType]
      /\ waits \subseteq Waits
  BY DEF TypeInv, ReqType
<1>3. ClosedInv'
  <2>1. CASE woken' = woken
    BY <1>1, <2>1 DEF WokenInv, ClosedInv
  <2>2. CASE /\ w \in waits /\ woken' = [woken EXCEPT ![w] = @ + 1]
             /\ waits' = waits \ Closed(w)
    <3> SUFFICES ASSUME NEW u \in Waits, NEW v \in Waits, u.once, v.once, u.token = v.token,
                        woken'[u] > 0
                 PROVE  v \notin waits' /\ (woken'[v] > 0 => u = v /\ woken'[v] = 1)
      BY DEF ClosedInv
    <3>1. \A x \in Waits : woken'[x] = IF x = w THEN woken[w] + 1 ELSE woken[x]
      BY <1>2, <2>2
    <3>2. CASE w.once /\ w.token = u.token
      <4>1. \A x \in Waits : x.once /\ x.token = w.token => woken[x] = 0
        BY <1>2, <2>2, <3>2 DEF WokenInv, ClosedInv
      <4>2. v \notin waits'
        BY <2>2, <3>2 DEF Closed
      <4> QED BY <1>2, <3>1, <3>2, <4>1, <4>2
    <3>3. CASE ~(w.once /\ w.token = u.token)
      BY <1>1, <3>1, <3>3 DEF WokenInv, ClosedInv
    <3> QED BY <3>2, <3>3
  <2> QED BY <1>1, <2>1, <2>2
<1>4. PendingInv'
  <2>1. sends' = sends /\ sends \in Nat
    BY DEF TriggerSubscription, WokenInv, PendingInv
  <2>2. \A x \in Clients : /\ req'[x].op = req[x].op
                           /\ req'[x].subs = IF x = c THEN req[c].subs \ {w} ELSE req[x].subs
    BY <1>1, <1>2 DEF ReqType
  <2> SUFFICES ASSUME NEW v \in Waits
               PROVE  IsFiniteSet(Pending(v)') /\ woken'[v] + Cardinality(Pending(v)') <= sends
    BY <2>1 DEF PendingInv
  <2>3. IsFiniteSet(Pending(v)) /\ woken[v] + Cardinality(Pending(v)) <= sends
    BY DEF WokenInv, PendingInv
  <2>4. CASE v = w
    <3>1. Pending(v)' = Pending(v) \ {c} /\ c \in Pending(v)
      <4>1. req[c].op = "trigger" /\ v \in req[c].subs
        BY <1>1, <2>4
      <4> QED BY <2>2, <2>4, <4>1 DEF Pending
    <3>2. IsFiniteSet(Pending(v)') /\ Cardinality(Pending(v)') = Cardinality(Pending(v)) - 1
      BY <2>3, <3>1, FS_RemoveElement
    <3>3. Cardinality(Pending(v)) \in Nat /\ woken[v] \in Nat
      BY <1>2, <2>3, FS_CardinalityType
    <3>4. woken'[v] <= woken[v] + 1 /\ woken'[v] \in Nat
      BY <1>1, <1>2, <2>4
    <3> QED BY <2>1, <2>3, <3>2, <3>3, <3>4
  <2>5. CASE v # w
    <3>1. Pending(v)' = Pending(v) /\ woken'[v] = woken[v]
      BY <1>1, <1>2, <2>2, <2>5 DEF Pending
    <3> QED BY <2>3, <3>1
  <2> QED BY <2>4, <2>5
<1> QED BY <1>3, <1>4 DEF WokenInv

\* However many messages and signals have listed the same subscriptions, a token
\* that waits once is woken by one of them, once, and a subscription that stays
\* open is triggered at most once by each (triggerSubscription).
THEOREM InstancesWokenOnce == Spec => []WokenOnce
<1>1. Init => WokenInv
  <2> SUFFICES ASSUME Init PROVE WokenInv
    OBVIOUS
  <2>1. ASSUME NEW w \in Waits PROVE Pending(w) = {} /\ woken[w] = 0
    BY NobodyTyped DEF Init, Pending
  <2>2. IsFiniteSet({}) /\ Cardinality({}) = 0
    BY FS_EmptySet
  <2>3. ClosedInv
    BY <2>1 DEF ClosedInv
  <2>4. PendingInv
    <3>1. sends = 0
      BY DEF Init
    <3> QED BY <2>1, <2>2, <3>1 DEF PendingInv
  <2> QED BY <2>3, <2>4 DEF WokenInv
<1>2. TypeInv /\ WokenInv /\ [Next]_vars => WokenInv'
  <2> SUFFICES ASSUME TypeInv, WokenInv, [Next]_vars PROVE WokenInv'
    OBVIOUS
  <2>1. CASE NoSend
    <3>1. UNCHANGED <<waits, woken, sends>> /\ \A w \in Waits : Pending(w)' \subseteq Pending(w)
      BY <2>1, NoSendEffect
    <3>2. ClosedInv'
      BY <3>1 DEF WokenInv, ClosedInv
    <3>3. ASSUME NEW w \in Waits
          PROVE  IsFiniteSet(Pending(w)') /\ woken[w] + Cardinality(Pending(w)') <= sends
      <4>1. /\ IsFiniteSet(Pending(w)) /\ woken[w] + Cardinality(Pending(w)) <= sends
            /\ sends \in Nat /\ woken[w] \in Nat
        BY DEF WokenInv, PendingInv, TypeInv
      <4>2. IsFiniteSet(Pending(w)') /\ Cardinality(Pending(w)') <= Cardinality(Pending(w))
        BY <3>1, <4>1, FS_Subset
      <4>3. Cardinality(Pending(w)) \in Nat /\ Cardinality(Pending(w)') \in Nat
        BY <4>1, <4>2, FS_CardinalityType
      <4> QED BY <4>1, <4>2, <4>3
    <3>4. PendingInv'
      BY <3>1, <3>3 DEF WokenInv, PendingInv
    <3> QED BY <3>2, <3>4 DEF WokenInv
  <2>2. ASSUME NEW c \in Clients,
               \/ \E key \in CorrKeys : Send(c, "message", key)
               \/ Send(c, "signal", Empty)
               \/ \E e \in Events : Webhook(c, e)
        PROVE  WokenInv'
    <3>1. UNCHANGED <<waits, woken>> /\ PendingInv'
      BY <2>2, SendEffect DEF WokenInv
    <3> QED BY <3>1 DEF WokenInv, ClosedInv
  <2>3. ASSUME NEW c \in Clients, TriggerSubscription(c) PROVE WokenInv'
    BY <2>3, TriggerKeepsWoken
  <2> QED BY <2>1, <2>2, <2>3 DEF Next, NoSend
<1>3. TypeInv /\ WokenInv => WokenOnce
  <2> SUFFICES ASSUME TypeInv, WokenInv PROVE WokenOnce
    OBVIOUS
  <2>1. ASSUME NEW w \in Waits PROVE woken[w] <= sends
    <3>1. /\ IsFiniteSet(Pending(w)) /\ woken[w] + Cardinality(Pending(w)) <= sends
          /\ sends \in Nat /\ woken[w] \in Nat
      BY DEF WokenInv, PendingInv, TypeInv
    <3>2. Cardinality(Pending(w)) \in Nat
      BY <3>1, FS_CardinalityType
    <3> QED BY <3>1, <3>2
  <2> QED BY <2>1 DEF WokenInv, ClosedInv, WokenOnce
<1> QED BY <1>1, <1>2, <1>3, TypeInit, TypeStep, PTL DEF Spec

\* The window: an event in flight or delivered is in it, and in flight once.
EventInv ==
    "forgotten" \notin excused =>
        \A e \in Events :
            /\ delivered[e] <= 1
            /\ e \notin DOMAIN seen => delivered[e] = 0
            /\ \A c \in Clients : req[c].event = e =>
                  /\ e \in DOMAIN seen /\ delivered[e] = 0
                  /\ \A x \in Clients : req[x].event = e => x = c

\* An event that is remembered or acknowledged is in flight or delivered.
AckedInv ==
    "failed" \notin excused =>
        \A e \in DOMAIN seen \cup acked : delivered[e] > 0 \/ \E c \in Clients : req[c].event = e

\* The steps that neither begin nor end the delivery of an event.
Beside ==
    \/ \E c \in Clients :
          \/ \E design \in Designs : Deploy(c, design)
          \/ PutDefinition(c) \/ DropStartSubscriptions(c) \/ DropStartJobs(c)
          \/ RegisterStartTrigger(c) \/ DeployFails(c) \/ Deployed(c)
          \/ ClaimTimerStart(c) \/ ExecuteTimerStart(c)
          \/ \E key \in CorrKeys : Send(c, "message", key)
          \/ Send(c, "signal", Empty)
          \/ TriggerSubscription(c) \/ StartFromTrigger(c)
          \/ WebhookDelivers(c)
    \/ \E e \in Events : Expire(e)
    \/ UNCHANGED vars

\* Steps that are not about webhook events leave the window, the deliveries and the
\* events of the requests alone.
LEMMA BesideEffect ==
    ASSUME TypeInv, Beside
    PROVE  /\ UNCHANGED <<delivered, acked>>
           /\ DOMAIN seen' = DOMAIN seen
           /\ \A x \in Clients : req'[x].event = req[x].event
           /\ excused \cap {"failed", "forgotten"} \subseteq excused'
<1> USE DEF deployVars, sendVars, Excuse
<1>1. UNCHANGED <<delivered, acked>> /\ excused \cap {"failed", "forgotten"} \subseteq excused'
  BY DEF Beside, Deploy, PutDefinition, DropStartSubscriptions, DropStartJobs, RegisterStartTrigger,
         DeployFails, Deployed, ClaimTimerStart, ExecuteTimerStart, Send, TriggerSubscription, StartFromTrigger,
         WebhookDelivers, Expire, vars
<1>2. DOMAIN seen' = DOMAIN seen
  <2>1. UNCHANGED seen \/ \E e \in Events : seen' = [seen EXCEPT ![e] = FALSE]
    BY DEF Beside, Deploy, PutDefinition, DropStartSubscriptions, DropStartJobs,
           RegisterStartTrigger, DeployFails, Deployed, ClaimTimerStart, ExecuteTimerStart, Send,
           TriggerSubscription, StartFromTrigger, WebhookDelivers, Expire, vars
  <2> QED BY <2>1 DEF TypeInv, WindowOK
<1>t. /\ req \in [Clients -> ReqType] /\ deploys \in Nat
      /\ \A c \in Clients : RequestOK(req[c], deploys)
  BY DEF TypeInv, DefsOK
<1> DEFINE Kept == \A x \in Clients : req'[x].event = req[x].event
<1>3. ASSUME NEW c \in Clients, NEW q, req' = [req EXCEPT ![c] = q], q.event = req[c].event
      PROVE  Kept
  BY <1>3, <1>t
<1>4. ASSUME NEW c \in Clients, NEW design \in Designs, Deploy(c, design) PROVE Kept
  <2> DEFINE q == [Nobody EXCEPT !.op = "put", !.ver = Version + 1, !.id = deploys + 1,
                                 !.left = design]
  <2>1. req[c] = Nobody /\ req' = [req EXCEPT ![c] = q]
    BY <1>4 DEF Deploy
  <2>2. q.event = Nobody.event
    BY DEF Nobody
  <2> HIDE DEF q
  <2> QED BY <1>3, <2>1, <2>2
<1>5. ASSUME NEW c \in Clients, NEW op, req' = [req EXCEPT ![c].op = op] PROVE Kept
  BY <1>5, <1>t DEF ReqType
<1>6. ASSUME NEW c \in Clients, RegisterStartTrigger(c) PROVE Kept
  <2>1. PICK s \in req[c].left : req' = [req EXCEPT ![c].left = @ \ {s}]
    BY <1>6 DEF RegisterStartTrigger
  <2> QED BY <1>t, <2>1 DEF ReqType
<1>7. ASSUME NEW c \in Clients, DeployFails(c) \/ Deployed(c) \/ ExecuteTimerStart(c) PROVE Kept
  <2>1. req[c].op \in {"subs", "jobs", "add", "timer"} /\ req' = [req EXCEPT ![c] = Nobody]
    BY <1>7 DEF DeployFails, Deployed, ExecuteTimerStart
  <2>2. req[c].event = Empty
    BY <1>t, <2>1 DEF RequestOK
  <2> QED BY <1>3, <2>1, <2>2, NobodyTyped
<1>8. ASSUME NEW c \in Clients, ClaimTimerStart(c) PROVE Kept
  <2>1. PICK j \in timers :
           /\ req[c] = Nobody
           /\ req' = [req EXCEPT ![c] = [Nobody EXCEPT !.op = "timer", !.id = j.id, !.rep = j.rep]]
    BY <1>8 DEF ClaimTimerStart
  <2> DEFINE q == [Nobody EXCEPT !.op = "timer", !.id = j.id, !.rep = j.rep]
  <2>2. q.event = Nobody.event
    BY DEF Nobody
  <2> HIDE DEF q
  <2>3. req' = [req EXCEPT ![c] = q]
    BY <2>1 DEF q
  <2> QED BY <1>3, <2>1, <2>2, <2>3
<1>9. ASSUME NEW c \in Clients, NEW kind \in Kind, NEW key \in CorrKeys \cup {Empty},
             Send(c, kind, key)
      PROVE  Kept
  <2> DEFINE q == [Nobody EXCEPT !.kind = kind, !.key = key]
  <2>1. req[c] = Nobody /\ req' = [req EXCEPT ![c] = Listed(q)]
    BY <1>9 DEF Send
  <2>2. q \in ReqType /\ q.count = 0 /\ q.event = Empty
    BY NobodyTyped DEF ReqType
  <2> HIDE DEF q
  <2>3. Listed(q).event = Empty
    BY <2>2, ListedTyped
  <2> QED BY <1>3, <2>1, <2>3, NobodyTyped
<1>10. ASSUME NEW c \in Clients, TriggerSubscription(c) PROVE Kept
  <2>1. PICK w, n : req' = [req EXCEPT ![c].subs = @ \ {w}, ![c].count = n]
    BY <1>10, TriggerEffect
  <2> QED BY <1>t, <2>1 DEF ReqType
<1>11. ASSUME NEW c \in Clients, StartFromTrigger(c) PROVE Kept
  <2>1. (\E s : req' = [req EXCEPT ![c].from = @ \ {s}]) \/ req' = [req EXCEPT ![c].op = "error"]
    BY <1>11 DEF StartFromTrigger
  <2>2. ASSUME NEW s, req' = [req EXCEPT ![c].from = @ \ {s}] PROVE Kept
    BY <1>t, <2>2 DEF ReqType
  <2> QED BY <1>5, <2>1, <2>2
<1>12. ASSUME NEW c \in Clients, WebhookDelivers(c) PROVE Kept
  <2>1. /\ req[c].op = "event"
        /\ \/ \E key \in CorrKeys : req' = [req EXCEPT ![c] = Listed([req[c] EXCEPT !.key = key])]
           \/ req' = [req EXCEPT ![c].op = "error"]
    BY <1>12, <1>t DEF WebhookDelivers
  <2>2. ASSUME NEW key \in CorrKeys, req' = [req EXCEPT ![c] = Listed([req[c] EXCEPT !.key = key])]
        PROVE  Kept
    <3> DEFINE q == [req[c] EXCEPT !.key = key]
    <3>1. req[c].count = 0
      BY <1>t, <2>1 DEF RequestOK
    <3>2. q \in ReqType /\ q.count = 0 /\ q.event = req[c].event
      BY <1>t, <3>1 DEF ReqType
    <3>3. req' = [req EXCEPT ![c] = Listed(q)]
      BY <2>2
    <3> HIDE DEF q
    <3> QED BY <1>3, <1>t, <3>2, <3>3, ListedTyped
  <2> QED BY <1>5, <2>1, <2>2
<1>13. ASSUME NEW c \in Clients, PutDefinition(c) \/ DropStartSubscriptions(c) \/ DropStartJobs(c)
       PROVE  Kept
  BY <1>5, <1>13 DEF PutDefinition, DropStartSubscriptions, DropStartJobs
<1>14. CASE (\E e \in Events : Expire(e)) \/ UNCHANGED vars
  BY <1>14 DEF Expire, vars
<1>15. {"message", "signal"} = Kind
  BY DEF Kind
<1>16. Kept
  BY <1>4, <1>6, <1>7, <1>8, <1>9, <1>10, <1>11, <1>12, <1>13, <1>14, <1>15 DEF Beside
<1> QED BY <1>1, <1>2, <1>16

\* An event is acknowledged as a repetition, or its delivery begins.
LEMMA WebhookEffect ==
    ASSUME TypeInv, NEW c \in Clients, NEW e \in Events, Webhook(c, e)
    PROVE  /\ UNCHANGED delivered
           /\ \/ /\ e \in DOMAIN seen
                 /\ acked' = acked \cup {e}
                 /\ UNCHANGED <<seen, req, excused>>
              \/ /\ UNCHANGED acked
                 /\ DOMAIN seen' = Swept \cup {e} /\ Swept \subseteq DOMAIN seen
                 /\ req[c].event = Empty
                 /\ \A x \in Clients : req'[x].event = IF x = c THEN e ELSE req[x].event
                 /\ excused' = IF e \in DOMAIN seen \/ DOMAIN seen \ Swept # {}
                               THEN excused \cup {"forgotten"} ELSE excused
<1>1. UNCHANGED delivered /\ req[c] = Nobody
  BY DEF Webhook
<1>2. CASE InWindow(e)
  BY <1>1, <1>2 DEF Webhook, InWindow
<1>3. CASE ~InWindow(e)
  <2> DEFINE q == [Nobody EXCEPT !.op = "event", !.event = e]
  <2>1. /\ Remember(e) /\ req' = [req EXCEPT ![c] = q] /\ UNCHANGED acked
        /\ excused' = IF e \in DOMAIN seen \/ DOMAIN seen \ Swept # {}
                      THEN excused \cup {"forgotten"} ELSE excused
    BY <1>3 DEF Webhook, Excuse
  <2>2. q.event = e
    BY DEF Nobody
  <2> HIDE DEF q
  <2>3. DOMAIN seen' = Swept \cup {e} /\ Swept \subseteq DOMAIN seen
    BY <2>1, RememberFits, SweptFits DEF TypeInv
  <2>4. \A x \in Clients : req'[x].event = IF x = c THEN e ELSE req[x].event
    BY <2>1, <2>2 DEF TypeInv
  <2> QED BY <1>1, <2>1, <2>3, <2>4, NobodyTyped
<1> QED BY <1>2, <1>3

\* A delivery ends: done, and the sender is told so, or refused.
LEMMA EndEffect ==
    ASSUME TypeInv, NEW c \in Clients, Sent(c) \/ Refused(c)
    PROVE  /\ UNCHANGED seen
           /\ \A x \in Clients : req'[x].event = IF x = c THEN Empty ELSE req[x].event
           /\ \/ /\ UNCHANGED excused /\ req[c].event \in Events
                 /\ \A e \in Events : delivered'[e] = IF e = req[c].event THEN delivered[e] + 1
                                                      ELSE delivered[e]
                 /\ acked' = acked \cup {req[c].event}
              \/ /\ UNCHANGED <<delivered, acked, excused>> /\ req[c].event \notin Events
              \/ /\ UNCHANGED <<delivered, acked>>
                 /\ excused' = excused \cup {"failed"}
<1>1. UNCHANGED seen /\ req' = [req EXCEPT ![c] = Nobody]
  BY DEF Sent, Refused
<1>2. \A x \in Clients : req'[x].event = IF x = c THEN Empty ELSE req[x].event
  BY <1>1, NobodyTyped DEF TypeInv
<1>3. CASE Refused(c)
  BY <1>1, <1>2, <1>3 DEF Refused, Excuse
<1>4. CASE Sent(c) /\ req[c].event \notin Events
  BY <1>1, <1>2, <1>4 DEF Sent
<1>5. CASE Sent(c) /\ req[c].event \in Events
  <2>1. /\ delivered' = [delivered EXCEPT ![req[c].event] = @ + 1]
        /\ acked' = acked \cup {req[c].event} /\ UNCHANGED excused
    BY <1>5 DEF Sent
  <2>2. \A e \in Events : delivered'[e] = IF e = req[c].event THEN delivered[e] + 1
                                          ELSE delivered[e]
    BY <2>1 DEF TypeInv
  <2> QED BY <1>1, <1>2, <1>5, <2>1, <2>2
<1> QED BY <1>3, <1>4, <1>5

\* Every step is one of those, or the beginning or end of a delivery, or a crash.
LEMMA DeliverySteps ==
    ASSUME [Next]_vars
    PROVE  \/ Beside
           \/ \E c \in Clients : Sent(c) \/ Refused(c) \/ \E e \in Events : Webhook(c, e)
           \/ Crash
BY DEF Next, Beside

\* A delivered event stays in the window, and so is not delivered again.
LEMMA EventStep == TypeInv /\ EventInv /\ [Next]_vars => EventInv'
<1> SUFFICES ASSUME TypeInv, EventInv, [Next]_vars, "forgotten" \notin excused'
             PROVE  EventInv'
  BY DEF EventInv
<1>a. Empty \notin Events /\ delivered \in [Events -> Nat]
  BY IntakeAssumption DEF TypeInv
<1>1. CASE Beside
  BY <1>1, BesideEffect DEF EventInv
<1>2. ASSUME NEW c \in Clients, NEW e \in Events, Webhook(c, e) PROVE EventInv'
  <2>1. CASE UNCHANGED <<seen, req, excused, delivered>>
    BY <2>1 DEF EventInv
  <2>2. CASE /\ UNCHANGED delivered
             /\ DOMAIN seen' = Swept \cup {e} /\ Swept \subseteq DOMAIN seen
             /\ req[c].event = Empty
             /\ \A x \in Clients : req'[x].event = IF x = c THEN e ELSE req[x].event
             /\ excused' = IF e \in DOMAIN seen \/ DOMAIN seen \ Swept # {}
                           THEN excused \cup {"forgotten"} ELSE excused
    <3>1. e \notin DOMAIN seen /\ DOMAIN seen' = DOMAIN seen \cup {e} /\ "forgotten" \notin excused
      BY <2>2
    <3>2. delivered[e] = 0 /\ \A x \in Clients : req[x].event # e
      BY <3>1 DEF EventInv
    <3>3. ASSUME NEW f \in Events
          PROVE  /\ delivered[f] <= 1
                 /\ f \notin DOMAIN seen' => delivered[f] = 0
                 /\ \A x \in Clients : req'[x].event = f =>
                       /\ f \in DOMAIN seen' /\ delivered[f] = 0
                       /\ \A y \in Clients : req'[y].event = f => y = x
      <4>1. CASE f = e
        BY <2>2, <3>1, <3>2, <4>1
      <4>2. CASE f # e
        BY <2>2, <3>1, <4>2 DEF EventInv
      <4> QED BY <4>1, <4>2
    <3> QED BY <2>2, <3>3 DEF EventInv
  <2> QED BY <1>2, <2>1, <2>2, WebhookEffect
<1>3. ASSUME NEW c \in Clients, Sent(c) \/ Refused(c) PROVE EventInv'
  <2>1. /\ UNCHANGED seen /\ "forgotten" \notin excused
        /\ \A x \in Clients : req'[x].event = IF x = c THEN Empty ELSE req[x].event
        /\ \/ UNCHANGED delivered
           \/ /\ req[c].event \in Events
              /\ \A e \in Events : delivered'[e] = IF e = req[c].event THEN delivered[e] + 1
                                                   ELSE delivered[e]
    BY <1>3, EndEffect
  <2>2. CASE UNCHANGED delivered
    BY <1>a, <2>1, <2>2 DEF EventInv
  <2>3. CASE /\ req[c].event \in Events
             /\ \A e \in Events : delivered'[e] = IF e = req[c].event THEN delivered[e] + 1
                                                  ELSE delivered[e]
    <3>1. ASSUME NEW f \in Events
          PROVE  /\ delivered'[f] <= 1
                 /\ f \notin DOMAIN seen' => delivered'[f] = 0
                 /\ \A x \in Clients : req'[x].event = f =>
                       /\ f \in DOMAIN seen' /\ delivered'[f] = 0
                       /\ \A y \in Clients : req'[y].event = f => y = x
      <4>1. CASE f = req[c].event
        <5>1. delivered[f] = 0 /\ f \in DOMAIN seen /\ \A x \in Clients : req[x].event = f => x = c
          BY <2>1, <4>1 DEF EventInv
        <5>2. delivered'[f] = 1
          BY <2>3, <4>1, <5>1
        <5>3. \A x \in Clients : req'[x].event # f
          BY <1>a, <2>1, <5>1
        <5> QED BY <2>1, <5>1, <5>2, <5>3
      <4>2. CASE f # req[c].event
        BY <1>a, <2>1, <2>3, <4>2 DEF EventInv
      <4> QED BY <4>1, <4>2
    <3> QED BY <3>1 DEF EventInv
  <2> QED BY <2>1, <2>2, <2>3
<1>4. CASE Crash
  BY <1>4 DEF Crash
<1> QED BY <1>1, <1>2, <1>3, <1>4, DeliverySteps

\* As long as the window forgets nothing, a webhook event is delivered at most
\* once, repetitions that arrive during its delivery included.
THEOREM EventsDeliveredOnce == Spec => []EventOnce
<1>1. Init => EventInv
  BY NobodyTyped, IntakeAssumption DEF Init, EventInv
<1>2. TypeInv /\ EventInv => EventOnce
  <2> SUFFICES ASSUME TypeInv, EventInv, "forgotten" \notin excused, NEW e \in Events
               PROVE  delivered[e] + Cardinality({c \in Clients : req[c].event = e}) <= 1
    BY DEF EventOnce
  <2> DEFINE S == {c \in Clients : req[c].event = e}
  <2>1. CASE S = {}
    <3>1. Cardinality(S) = 0
      BY <2>1, FS_EmptySet
    <3>2. delivered[e] \in Nat /\ delivered[e] <= 1
      BY DEF TypeInv, EventInv
    <3> QED BY <3>1, <3>2
  <2>2. CASE S # {}
    <3>1. PICK c \in S : TRUE
      BY <2>2
    <3>2. S = {c} /\ delivered[e] = 0
      BY <3>1 DEF EventInv
    <3>3. Cardinality(S) = 1
      BY <3>2, FS_Singleton
    <3> QED BY <3>2, <3>3
  <2> QED BY <2>1, <2>2
<1> QED BY <1>1, <1>2, EventStep, TypeInit, TypeStep, PTL DEF Spec

\* A sender that was told 200, for the first request or for a repetition, has
\* its event delivered or being delivered, unless a delivery failed.
THEOREM AckedAreDelivered == Spec => []AckedIsDelivered
<1>1. Init => AckedInv
  BY DEF Init, AckedInv
<1>2. TypeInv /\ AckedInv /\ [Next]_vars => AckedInv'
  <2> SUFFICES ASSUME TypeInv, AckedInv, [Next]_vars, "failed" \notin excused'
               PROVE  AckedInv'
    BY DEF AckedInv
  <2>a. /\ Empty \notin Events /\ delivered \in [Events -> Nat] /\ acked \subseteq Events
        /\ DOMAIN seen \subseteq Events
    BY IntakeAssumption DEF TypeInv, WindowOK
  <2>1. CASE Beside
    BY <2>1, BesideEffect DEF AckedInv
  <2>2. ASSUME NEW c \in Clients, NEW e \in Events, Webhook(c, e) PROVE AckedInv'
    <3>1. CASE e \in DOMAIN seen /\ acked' = acked \cup {e} /\ UNCHANGED <<seen, req, excused, delivered>>
      BY <3>1 DEF AckedInv
    <3>2. CASE /\ UNCHANGED <<delivered, acked>>
               /\ DOMAIN seen' = Swept \cup {e} /\ Swept \subseteq DOMAIN seen
               /\ req[c].event = Empty
               /\ \A x \in Clients : req'[x].event = IF x = c THEN e ELSE req[x].event
               /\ excused \subseteq excused'
      <4> SUFFICES ASSUME NEW f \in DOMAIN seen' \cup acked'
                   PROVE  delivered'[f] > 0 \/ \E x \in Clients : req'[x].event = f
        BY DEF AckedInv
      <4>1. CASE f = e
        BY <3>2, <4>1
      <4>2. CASE f # e
        <5>1. f \in Events /\ (delivered[f] > 0 \/ \E x \in Clients : req[x].event = f)
          BY <2>a, <3>2, <4>2 DEF AckedInv
        <5> QED BY <2>a, <3>2, <5>1
      <4> QED BY <4>1, <4>2
    <3> QED BY <2>2, <3>1, <3>2, WebhookEffect
  <2>3. ASSUME NEW c \in Clients, Sent(c) \/ Refused(c) PROVE AckedInv'
    <3>1. /\ UNCHANGED <<seen, excused>>
          /\ \A x \in Clients : req'[x].event = IF x = c THEN Empty ELSE req[x].event
          /\ \/ UNCHANGED <<delivered, acked>> /\ req[c].event \notin Events
             \/ /\ req[c].event \in Events
                /\ \A e \in Events : delivered'[e] = IF e = req[c].event THEN delivered[e] + 1
                                                     ELSE delivered[e]
                /\ acked' = acked \cup {req[c].event}
      BY <2>3, EndEffect
    <3> SUFFICES ASSUME NEW f \in DOMAIN seen' \cup acked'
                 PROVE  delivered'[f] > 0 \/ \E x \in Clients : req'[x].event = f
      BY DEF AckedInv
    <3>2. f \in Events
      BY <2>a, <3>1
    <3>3. CASE f = req[c].event
      BY <2>a, <3>1, <3>2, <3>3
    <3>4. CASE f # req[c].event
      <4>1. /\ f \in DOMAIN seen \cup acked /\ delivered'[f] = delivered[f]
        BY <3>1, <3>2, <3>4
      <4>2. delivered[f] > 0 \/ \E x \in Clients : req[x].event = f
        BY <3>1, <4>1 DEF AckedInv
      <4> QED BY <3>1, <3>4, <4>1, <4>2
    <3> QED BY <3>3, <3>4
  <2>4. CASE Crash
    <3>1. /\ \A x \in Clients : req[x].event \notin Events
          /\ "failed" \notin excused /\ DOMAIN seen' = {} /\ UNCHANGED <<delivered, acked>>
      BY <2>4 DEF Crash
    <3> QED BY <2>a, <3>1 DEF AckedInv
  <2> QED BY <2>1, <2>2, <2>3, <2>4, DeliverySteps
<1>3. AckedInv => AckedIsDelivered
  BY DEF AckedInv, AckedIsDelivered
<1> QED BY <1>1, <1>2, <1>3, TypeInit, TypeStep, PTL DEF Spec

------------------------------------------------------------------------------
\* Start triggers.

OneTimer ==
    /\ \A j, k \in timers : j = k
    /\ \A c, x \in In({"timer"}) : c = x
    /\ timers = {} \/ In({"timer"}) = {}

\* One timer start at most, of that deployment; one, if it is among its start
\* events S and has not run out.
TimerOf(id, S) ==
    /\ OneTimer
    /\ \A j \in timers : j.id = id /\ "timer" \in S
    /\ \A c \in In({"timer"}) : req[c].id = id /\ "timer" \in S
    /\ "timer" \in S /\ "ended" \notin excused => timers # {} \/ In({"timer"}) # {}

\* The triggers of the latest definition, those in left aside, are there.
Registered(left) ==
    \A d \in Latest :
        /\ starts = {[id |-> d.id, kind |-> k] : k \in (d.starts \ left) \ {"timer"}}
        /\ "claimed" \notin excused => TimerOf(d.id, d.starts \ left)

\* The parts of the invariant: at most one deployment runs, and the latest
\* version is one, unless a deployment is about to store its own...
OneDeployment ==
    /\ \A c, x \in Deploying : c = x
    /\ In({"put"}) = {} => \A d, e \in Latest : d = e

\* ... which is the next version...
NextVersion == \A c \in In({"put"}) : req[c].ver = Version + 1

\* ... and afterwards the latest one, with the triggers to register.
OwnDefinition ==
    \A c \in In({"subs", "jobs", "add"}) :
        \E d \in Latest : /\ d.id = req[c].id /\ req[c].left \subseteq d.starts
                          /\ req[c].op # "add" => req[c].left = d.starts

\* The start subscriptions are dropped, and what is registered since is there.
Replacing ==
    /\ In({"jobs"}) # {} => starts = {}
    /\ \A c \in In({"add"}) : Registered(req[c].left)

\* No deployment runs.
Settled == Deploying = {} => Registered({})

TriggersInv ==
    ~Spoiled => OneDeployment /\ NextVersion /\ OwnDefinition /\ Replacing /\ Settled

\* The requests that deploy or run a timer start.
Busy == {"put", "subs", "jobs", "add", "timer"}

\* A step of another kind leaves the definitions and the triggers alone.
LEMMA IdleKeepsTriggers ==
    ASSUME OneDeployment, NextVersion, OwnDefinition, Replacing, Settled,
           UNCHANGED <<defs, starts, timers>>, excused \subseteq excused',
           \A c \in Clients : req[c].op \in Busy \/ req'[c].op \in Busy => req'[c] = req[c]
    PROVE  (OneDeployment /\ NextVersion /\ OwnDefinition /\ Replacing /\ Settled)'
<1> USE DEF Busy
<1>1. /\ In({"put"})' = In({"put"}) /\ In({"jobs"})' = In({"jobs"}) /\ In({"add"})' = In({"add"})
      /\ In({"timer"})' = In({"timer"}) /\ Deploying' = Deploying
      /\ In({"subs", "jobs", "add"})' = In({"subs", "jobs", "add"})
  BY DEF In, Deploying
<1>2. \A c \in In({"put", "subs", "jobs", "add", "timer"}) : req'[c] = req[c]
  BY DEF In
<1>3. Latest' = Latest /\ Version' = Version
  BY DEF Latest, Version
<1>4. ASSUME NEW l, Registered(l) PROVE Registered(l)'
  <2>1. ASSUME NEW id, NEW S, TimerOf(id, S) PROVE TimerOf(id, S)'
    BY <1>1, <1>2, <2>1 DEF TimerOf, OneTimer, In
  <2> QED BY <1>3, <1>4, <2>1 DEF Registered
<1>5. OneDeployment'
  BY <1>1, <1>3 DEF OneDeployment
<1>6. NextVersion'
  BY <1>1, <1>2, <1>3 DEF NextVersion, In
<1>7. OwnDefinition'
  BY <1>1, <1>2, <1>3 DEF OwnDefinition, In
<1>8. Replacing'
  <2>1. \A c \in In({"add"})' : Registered(req[c].left) /\ req'[c] = req[c]
    BY <1>1, <1>2 DEF Replacing, In
  <2> QED BY <1>1, <1>4, <2>1 DEF Replacing
<1>9. Settled'
  BY <1>1, <1>4 DEF Settled
<1> QED BY <1>5, <1>6, <1>7, <1>8, <1>9

\* A deployment beside no other reads the next version, whatever the triggers are.
LEMMA DeployKeepsTriggers ==
    ASSUME TypeInv, NEW c \in Clients, NEW design \in Designs, Deploy(c, design), Deploying = {}
    PROVE  (OneDeployment /\ NextVersion /\ OwnDefinition /\ Replacing /\ Settled)'
<1> DEFINE q == [Nobody EXCEPT !.op = "put", !.ver = Version + 1, !.id = deploys + 1,
                               !.left = design]
<1>1. req[c] = Nobody /\ req' = [req EXCEPT ![c] = q] /\ UNCHANGED <<defs, starts, timers>>
  BY DEF Deploy
<1>2. q.op = "put" /\ q.ver = Version + 1 /\ req[c].op = "none"
  BY <1>1 DEF Nobody
<1> HIDE DEF q
<1>3. \A x \in Clients : req'[x] = IF x = c THEN q ELSE req[x]
  BY <1>1 DEF TypeInv
<1>4. /\ In({"put"})' = {c} /\ In({"jobs"})' = {} /\ In({"add"})' = {} /\ Deploying' = {c}
      /\ In({"subs", "jobs", "add"})' = {}
  BY <1>2, <1>3 DEF In, Deploying
<1>5. Version' = Version
  BY <1>1 DEF Version
<1>6. OneDeployment' /\ NextVersion'
  BY <1>2, <1>3, <1>4, <1>5 DEF OneDeployment, NextVersion
<1> QED BY <1>4, <1>6 DEF OwnDefinition, Replacing, Settled

\* Where one deployment runs, a step of it leaves the other requests as they are.
LEMMA DeployerAlone ==
    ASSUME TypeInv, OneDeployment, NEW c \in Deploying, NEW q, q.op # "timer",
           req' = [req EXCEPT ![c] = q]
    PROVE  /\ \A x \in Clients : req'[x] = IF x = c THEN q ELSE req[x]
           /\ \A x \in Clients : x # c => req[x].op \notin {"put", "subs", "jobs", "add"}
           /\ In({"timer"})' = In({"timer"}) /\ \A x \in In({"timer"}) : req'[x] = req[x]
<1>1. c \in Clients /\ req[c].op \in {"put", "subs", "jobs", "add"}
  BY DEF Deploying, In
<1>2. \A x \in Clients : req'[x] = IF x = c THEN q ELSE req[x]
  BY <1>1 DEF TypeInv
<1>3. \A x \in Clients : x # c => req[x].op \notin {"put", "subs", "jobs", "add"}
  BY DEF OneDeployment, Deploying, In
<1>5. In({"timer"})' = In({"timer"}) /\ \A x \in In({"timer"}) : req'[x] = req[x]
  BY <1>1, <1>2 DEF In
<1> QED BY <1>2, <1>3, <1>5

\* Storing the definition makes it the latest one, with the old triggers still to
\* be replaced.
LEMMA PutKeepsTriggers ==
    ASSUME TypeInv, TypeInv', OneDeployment, NextVersion, OwnDefinition, Replacing, Settled,
           NEW c \in Clients, PutDefinition(c)
    PROVE  (OneDeployment /\ NextVersion /\ OwnDefinition /\ Replacing /\ Settled)'
<1> DEFINE q == [req[c] EXCEPT !.op = "subs"]
           new == [ver |-> req[c].ver, id |-> req[c].id, starts |-> req[c].left]
<1>1. req[c].op = "put" /\ req' = [req EXCEPT ![c] = q] /\ defs' = defs \cup {new}
  BY DEF PutDefinition, TypeInv
<1>2. q.op = "subs" /\ q.id = req[c].id /\ q.left = req[c].left
  BY DEF TypeInv, ReqType
<1>3. new.ver = Version + 1 /\ new.id = req[c].id /\ new.starts = req[c].left
  BY <1>1 DEF NextVersion, In
<1>4. c \in Deploying
  BY <1>1 DEF Deploying, In
<1> HIDE DEF q, new
<1>5. /\ \A x \in Clients : req'[x] = IF x = c THEN q ELSE req[x]
      /\ In({"put"})' = {} /\ In({"jobs"})' = {} /\ In({"add"})' = {} /\ Deploying' = {c}
      /\ In({"subs", "jobs", "add"})' = {c}
  <2>1. /\ \A x \in Clients : req'[x] = IF x = c THEN q ELSE req[x]
        /\ \A x \in Clients : x # c => req[x].op \notin {"put", "subs", "jobs", "add"}
        /\ In({"timer"})' = In({"timer"})
    <3>1. q.op # "timer"
      BY <1>2
    <3> QED BY <1>1, <1>4, <3>1, DeployerAlone
  <2> QED BY <1>2, <2>1 DEF Deploying, In
<1>6. Version \in Nat /\ \A d \in defs : d.ver \in Nat /\ d.ver <= Version
  BY VersionIsLast DEF TypeInv, DefsOK
<1>7. (\E d \in defs' : d.ver = Version') /\ \A d \in defs' : d.ver <= Version'
  <2>1. /\ new.ver \in {d.ver : d \in defs'} /\ defs' # {}
        /\ \A d \in defs' : d.ver <= new.ver
    BY <1>1, <1>3, <1>6
  <2>2. Version' \in {d.ver : d \in defs'} /\ \A d \in defs' : d.ver <= Version'
    BY <2>1 DEF Version
  <2> QED BY <2>2
<1>8. new \in Latest' /\ \A d \in Latest' : d = new
  <2>1. Version' \in Int
    BY <1>1, <1>3, <1>6, <1>7
  <2>2. Version' = new.ver
    BY <1>1, <1>3, <1>6, <1>7, <2>1
  <2>3. \A d \in defs : d.ver # new.ver
    BY <1>3, <1>6
  <2> QED BY <1>1, <2>2, <2>3 DEF Latest
<1>9. OneDeployment'
  BY <1>5, <1>8 DEF OneDeployment
<1>10. OwnDefinition'
  BY <1>2, <1>3, <1>5, <1>8 DEF OwnDefinition
<1> QED BY <1>5, <1>9, <1>10 DEF NextVersion, Replacing, Settled

\* Dropping the old start subscriptions keeps the invariant.
LEMMA DropSubsKeepsTriggers ==
    ASSUME TypeInv, OneDeployment, NextVersion, OwnDefinition, Replacing, Settled,
           NEW c \in Clients, DropStartSubscriptions(c)
    PROVE  (OneDeployment /\ NextVersion /\ OwnDefinition /\ Replacing /\ Settled)'
<1> DEFINE q == [req[c] EXCEPT !.op = "jobs"]
<1>1. /\ req[c].op = "subs" /\ req' = [req EXCEPT ![c] = q] /\ starts' = {}
      /\ UNCHANGED <<defs, timers>>
  BY DEF DropStartSubscriptions, TypeInv
<1>2. q.op = "jobs" /\ q.id = req[c].id /\ q.left = req[c].left
  BY DEF TypeInv, ReqType
<1>3. c \in Deploying /\ c \in In({"subs", "jobs", "add"})
  BY <1>1 DEF Deploying, In
<1> HIDE DEF q
<1>4. /\ \A x \in Clients : req'[x] = IF x = c THEN q ELSE req[x]
      /\ In({"put"})' = {} /\ In({"jobs"})' = {c} /\ In({"add"})' = {} /\ Deploying' = {c}
      /\ In({"subs", "jobs", "add"})' = {c}
  <2>1. /\ \A x \in Clients : req'[x] = IF x = c THEN q ELSE req[x]
        /\ \A x \in Clients : x # c => req[x].op \notin {"put", "subs", "jobs", "add"}
        /\ In({"timer"})' = In({"timer"})
    <3>1. q.op # "timer"
      BY <1>2
    <3> QED BY <1>1, <1>3, <3>1, DeployerAlone
  <2> QED BY <1>2, <2>1 DEF Deploying, In
<1>5. Latest' = Latest /\ Version' = Version
  BY <1>1 DEF Latest, Version
<1>6. OwnDefinition'
  BY <1>1, <1>2, <1>3, <1>4, <1>5 DEF OwnDefinition
<1>7. OneDeployment'
  <2>1. In({"put"}) = {}
    BY <1>1, <1>3 DEF OneDeployment, Deploying, In
  <2> QED BY <1>4, <1>5, <2>1 DEF OneDeployment
<1> QED BY <1>1, <1>4, <1>6, <1>7 DEF NextVersion, Replacing, Settled

\* Dropping the old timer starts keeps it; one that is in execution is noted.
LEMMA DropJobsKeepsTriggers ==
    ASSUME TypeInv, OneDeployment, NextVersion, OwnDefinition, Replacing, Settled,
           NEW c \in Clients, DropStartJobs(c)
    PROVE  (OneDeployment /\ NextVersion /\ OwnDefinition /\ Replacing /\ Settled)'
<1> DEFINE q == [req[c] EXCEPT !.op = "add"]
<1>1. /\ req[c].op = "jobs" /\ req' = [req EXCEPT ![c] = q] /\ timers' = {}
      /\ UNCHANGED <<defs, starts>>
  BY DEF DropStartJobs, TypeInv
<1>2. q.op = "add" /\ q.id = req[c].id /\ q.left = req[c].left
  BY DEF TypeInv, ReqType
<1>3. c \in Deploying /\ c \in In({"subs", "jobs", "add"}) /\ c \in In({"jobs"})
  BY <1>1 DEF Deploying, In
<1> HIDE DEF q
<1>4. /\ \A x \in Clients : req'[x] = IF x = c THEN q ELSE req[x]
      /\ In({"put"})' = {} /\ In({"jobs"})' = {} /\ In({"add"})' = {c} /\ Deploying' = {c}
      /\ In({"subs", "jobs", "add"})' = {c} /\ In({"timer"})' = In({"timer"})
  <2>1. /\ \A x \in Clients : req'[x] = IF x = c THEN q ELSE req[x]
        /\ \A x \in Clients : x # c => req[x].op \notin {"put", "subs", "jobs", "add"}
        /\ In({"timer"})' = In({"timer"})
    <3>1. q.op # "timer"
      BY <1>2
    <3> QED BY <1>1, <1>3, <3>1, DeployerAlone
  <2> QED BY <1>2, <2>1 DEF Deploying, In
<1>5. Latest' = Latest /\ Version' = Version
  BY <1>1 DEF Latest, Version
<1>6. PICK d \in Latest : d.id = req[c].id /\ req[c].left = d.starts
  BY <1>1, <1>3 DEF OwnDefinition
<1>7. OwnDefinition'
  BY <1>2, <1>4, <1>5, <1>6 DEF OwnDefinition
<1>p. In({"put"}) = {} /\ \A e, f \in Latest : e = f
  BY <1>1, <1>3 DEF OneDeployment, Deploying, In
<1>8. ASSUME NEW l, l = req[c].left PROVE Registered(l)'
  <2>1. "claimed" \notin excused' => In({"timer"})' = {}
    BY <1>4 DEF DropStartJobs, Excuse
  <2>2. \A e \in Latest' : e.starts \ l = {}
    BY <1>5, <1>6, <1>8, <1>p
  <2>3. starts' = {} /\ timers' = {}
    BY <1>1, <1>3 DEF Replacing
  <2>4. ASSUME NEW e \in Latest', "claimed" \notin excused' PROVE TimerOf(e.id, e.starts \ l)'
    BY <2>1, <2>2, <2>3, <2>4 DEF TimerOf, OneTimer
  <2> QED BY <2>2, <2>3, <2>4 DEF Registered
<1>9. OneDeployment'
  BY <1>4, <1>5, <1>p DEF OneDeployment
<1>10. Replacing'
  <2>1. \A x \in In({"add"})' : req'[x].left = req[c].left
    BY <1>2, <1>3, <1>4
  <2> QED BY <1>4, <1>8, <2>1 DEF Replacing
<1> QED BY <1>4, <1>7, <1>9, <1>10 DEF NextVersion, Settled

\* A trigger is registered: the subscription or the one timer start.
LEMMA RegisterKeepsTriggers ==
    ASSUME TypeInv, OneDeployment, NextVersion, OwnDefinition, Replacing, Settled,
           NEW c \in Clients, RegisterStartTrigger(c)
    PROVE  (OneDeployment /\ NextVersion /\ OwnDefinition /\ Replacing /\ Settled)'
<1>1. PICK s \in req[c].left :
         /\ req[c].op = "add"
         /\ IF s = "timer"
              THEN timers' = timers \cup {[id |-> req[c].id, rep |-> Cycle]} /\ UNCHANGED starts
              ELSE starts' = starts \cup {[id |-> req[c].id, kind |-> s]} /\ UNCHANGED timers
         /\ req' = [req EXCEPT ![c].left = @ \ {s}]
         /\ UNCHANGED <<defs, excused>>
  BY DEF RegisterStartTrigger
<1> DEFINE q == [req[c] EXCEPT !.left = req[c].left \ {s}]
<1>2. req' = [req EXCEPT ![c] = q]
  BY <1>1 DEF TypeInv
<1>3. q.op = "add" /\ q.id = req[c].id /\ q.left = req[c].left \ {s}
  BY <1>1 DEF TypeInv, ReqType
<1>4. c \in Deploying /\ c \in In({"subs", "jobs", "add"}) /\ c \in In({"add"})
  BY <1>1 DEF Deploying, In
<1> HIDE DEF q
<1>5. /\ \A x \in Clients : req'[x] = IF x = c THEN q ELSE req[x]
      /\ In({"put"})' = {} /\ In({"jobs"})' = {} /\ In({"add"})' = {c} /\ Deploying' = {c}
      /\ In({"subs", "jobs", "add"})' = {c}
      /\ In({"timer"})' = In({"timer"}) /\ \A x \in In({"timer"}) : req'[x] = req[x]
  <2>1. /\ \A x \in Clients : req'[x] = IF x = c THEN q ELSE req[x]
        /\ \A x \in Clients : x # c => req[x].op \notin {"put", "subs", "jobs", "add"}
        /\ In({"timer"})' = In({"timer"}) /\ \A x \in In({"timer"}) : req'[x] = req[x]
    BY <1>2, <1>3, <1>4, DeployerAlone
  <2> QED BY <1>3, <2>1 DEF Deploying, In
<1>6. Latest' = Latest /\ Version' = Version
  BY <1>1 DEF Latest, Version
<1>7. PICK d \in Latest : d.id = req[c].id /\ req[c].left \subseteq d.starts
  BY <1>4 DEF OwnDefinition
<1>8. In({"put"}) = {} /\ \A e \in Latest : e = d
  BY <1>1, <1>4, <1>7 DEF OneDeployment, Deploying, In
<1>9. Registered(req[c].left)
  BY <1>4 DEF Replacing
<1>10. OwnDefinition'
  BY <1>3, <1>5, <1>6, <1>7 DEF OwnDefinition
<1>11. ASSUME NEW l, l = req[c].left \ {s} PROVE Registered(l)'
  <2> DEFINE old == d.starts \ req[c].left
             new == d.starts \ l
  <2>1. /\ starts = {[id |-> d.id, kind |-> k] : k \in old \ {"timer"}}
        /\ "claimed" \notin excused => TimerOf(d.id, old)
    BY <1>7, <1>9 DEF Registered
  <2>2. new = old \cup {s} /\ s \notin old
    BY <1>1, <1>7, <1>11
  <2> HIDE DEF old
  <2>3. CASE s = "timer"
    <3> DEFINE j == [id |-> req[c].id, rep |-> Cycle]
    <3>1. timers' = timers \cup {j} /\ UNCHANGED starts /\ j.id = d.id
      BY <1>1, <1>7, <2>3
    <3> HIDE DEF j
    <3>2. new \ {"timer"} = old \ {"timer"}
      BY <2>2, <2>3
    <3>3. ASSUME "claimed" \notin excused' PROVE TimerOf(d.id, new)'
      <4>1. TimerOf(d.id, old)
        BY <1>1, <2>1, <3>3
      <4>2. timers = {} /\ In({"timer"}) = {}
        BY <2>2, <2>3, <4>1 DEF TimerOf
      <4>3. timers' = {j} /\ In({"timer"})' = {} /\ "timer" \in new
        BY <1>5, <2>2, <2>3, <3>1, <4>2
      <4> HIDE DEF new
      <4> QED BY <3>1, <4>3 DEF TimerOf, OneTimer
    <3> QED BY <1>6, <1>8, <2>1, <3>1, <3>2, <3>3 DEF Registered
  <2>4. CASE s # "timer"
    <3>1. starts' = starts \cup {[id |-> d.id, kind |-> s]} /\ UNCHANGED timers
      BY <1>1, <1>7, <2>4
    <3>2. new \ {"timer"} = (old \ {"timer"}) \cup {s} /\ ("timer" \in old <=> "timer" \in new)
      BY <2>2, <2>4
    <3> HIDE DEF new
    <3>3. starts' = {[id |-> d.id, kind |-> k] : k \in new \ {"timer"}}
      BY <2>1, <3>1, <3>2
    <3>4. ASSUME "claimed" \notin excused' PROVE TimerOf(d.id, new)'
      <4>1. TimerOf(d.id, old)
        BY <1>1, <2>1, <3>4
      <4> QED BY <1>1, <1>5, <3>1, <3>2, <4>1 DEF TimerOf, OneTimer
    <3> QED BY <1>6, <1>8, <3>3, <3>4 DEF Registered, new
  <2> QED BY <2>3, <2>4
<1>12. Replacing'
  <2>1. \A x \in In({"add"})' : req'[x].left = req[c].left \ {s}
    BY <1>3, <1>4, <1>5
  <2> QED BY <1>5, <1>11, <2>1 DEF Replacing
<1>13. OneDeployment'
  BY <1>5, <1>6, <1>8 DEF OneDeployment
<1> QED BY <1>5, <1>10, <1>12, <1>13 DEF NextVersion, Settled

\* A deployment ends when everything is registered.
LEMMA DeployedKeepsTriggers ==
    ASSUME TypeInv, OneDeployment, NextVersion, OwnDefinition, Replacing, Settled,
           NEW c \in Clients, Deployed(c)
    PROVE  (OneDeployment /\ NextVersion /\ OwnDefinition /\ Replacing /\ Settled)'
<1>1. /\ req[c].op = "add" /\ req[c].left = {} /\ req' = [req EXCEPT ![c] = Nobody]
      /\ UNCHANGED <<defs, starts, timers, excused>>
  BY DEF Deployed
<1>2. c \in Deploying /\ c \in In({"subs", "jobs", "add"}) /\ c \in In({"add"})
  BY <1>1 DEF Deploying, In
<1>3. /\ In({"put"})' = {} /\ In({"jobs"})' = {} /\ In({"add"})' = {} /\ Deploying' = {}
      /\ In({"subs", "jobs", "add"})' = {}
      /\ In({"timer"})' = In({"timer"}) /\ \A x \in In({"timer"}) : req'[x] = req[x]
  <2>1. /\ \A x \in Clients : req'[x] = IF x = c THEN Nobody ELSE req[x]
        /\ \A x \in Clients : x # c => req[x].op \notin {"put", "subs", "jobs", "add"}
        /\ In({"timer"})' = In({"timer"}) /\ \A x \in In({"timer"}) : req'[x] = req[x]
    BY <1>1, <1>2, NobodyTyped, DeployerAlone
  <2> QED BY <2>1, NobodyTyped DEF Deploying, In
<1>4. Latest' = Latest /\ Version' = Version
  BY <1>1 DEF Latest, Version
<1>5. Registered({})
  BY <1>1, <1>2 DEF Replacing
<1>6. Registered({})'
  <2>1. ASSUME NEW id, NEW S, TimerOf(id, S) PROVE TimerOf(id, S)'
    BY <1>1, <1>3, <2>1 DEF TimerOf, OneTimer
  <2> QED BY <1>1, <1>4, <1>5, <2>1 DEF Registered
<1>7. Settled'
  BY <1>6 DEF Settled
<1>8. OneDeployment'
  <2>1. In({"put"}) = {}
    BY <1>1, <1>2 DEF OneDeployment, Deploying, In
  <2> QED BY <1>3, <1>4, <2>1 DEF OneDeployment
<1> QED BY <1>3, <1>7, <1>8 DEF NextVersion, OwnDefinition, Replacing

\* The scheduler takes a timer start out and puts it back.
LEMMA TimerKeepsTriggers ==
    ASSUME TypeInv, OneDeployment, NextVersion, OwnDefinition, Replacing, Settled,
           NEW c \in Clients, ClaimTimerStart(c) \/ ExecuteTimerStart(c)
    PROVE  (OneDeployment /\ NextVersion /\ OwnDefinition /\ Replacing /\ Settled)'
<1>1. UNCHANGED <<defs, starts>> /\ excused \subseteq excused'
  BY DEF ClaimTimerStart, ExecuteTimerStart, Excuse
\* Either the one timer start goes to c, or it comes back from c or has run out.
<1>2. \/ /\ req[c].op = "none" /\ req'[c].op = "timer"
         /\ \E j \in timers : timers' = timers \ {j} /\ req'[c].id = j.id
      \/ /\ req[c].op = "timer" /\ req'[c].op = "none"
         /\ \/ timers' = timers /\ "ended" \in excused'
            \/ \E j : timers' = timers \cup {j} /\ j.id = req[c].id
  <2>1. CASE ClaimTimerStart(c)
    <3>1. PICK j \in timers :
             /\ req[c] = Nobody /\ timers' = timers \ {j}
             /\ req' = [req EXCEPT ![c] = [Nobody EXCEPT !.op = "timer", !.id = j.id, !.rep = j.rep]]
      BY <2>1 DEF ClaimTimerStart
    <3> DEFINE q == [Nobody EXCEPT !.op = "timer", !.id = j.id, !.rep = j.rep]
    <3>2. q.op = "timer" /\ q.id = j.id /\ req[c].op = "none"
      BY <3>1 DEF Nobody
    <3> HIDE DEF q
    <3>3. req'[c] = q
      BY <3>1 DEF TypeInv, q
    <3> QED BY <3>1, <3>2, <3>3
  <2>2. CASE ExecuteTimerStart(c)
    <3> DEFINE j == [id |-> req[c].id,
                     rep |-> IF req[c].rep > 0 THEN req[c].rep - 1 ELSE req[c].rep]
    <3>1. /\ req[c].op = "timer" /\ req' = [req EXCEPT ![c] = Nobody]
          /\ timers' = timers \cup (IF Repeats(req[c].rep) THEN {j} ELSE {})
          /\ ~Repeats(req[c].rep) => "ended" \in excused'
      BY <2>2 DEF ExecuteTimerStart, Excuse
    <3>2. req'[c].op = "none" /\ j.id = req[c].id
      BY <3>1, NobodyTyped DEF TypeInv
    <3> HIDE DEF j
    <3> QED BY <3>1, <3>2
  <2> QED BY <2>1, <2>2
<1>3. \A x \in Clients : x # c => req'[x] = req[x]
  BY DEF ClaimTimerStart, ExecuteTimerStart, TypeInv
<1>4. /\ In({"put"})' = In({"put"}) /\ In({"jobs"})' = In({"jobs"}) /\ In({"add"})' = In({"add"})
      /\ Deploying' = Deploying
      /\ In({"subs", "jobs", "add"})' = In({"subs", "jobs", "add"})
      /\ \A x \in Deploying : req'[x] = req[x]
  BY <1>2, <1>3 DEF In, Deploying
<1>5. Latest' = Latest /\ Version' = Version
  BY <1>1 DEF Latest, Version
<1>t. ASSUME NEW id, NEW S, TimerOf(id, S) PROVE TimerOf(id, S)'
  <2>1. CASE req[c].op = "none" /\ req'[c].op = "timer"
    <3>1. PICK j \in timers : timers' = timers \ {j} /\ req'[c].id = j.id
      BY <1>2, <2>1
    <3>2. timers = {j} /\ In({"timer"}) = {}
      BY <1>t, <3>1 DEF TimerOf, OneTimer
    <3>3. timers' = {} /\ In({"timer"})' = {c}
      BY <1>3, <2>1, <3>1, <3>2 DEF In
    <3>4. OneTimer'
      BY <3>3 DEF OneTimer
    <3> QED BY <1>t, <3>1, <3>2, <3>3, <3>4 DEF TimerOf
  <2>2. CASE req[c].op = "timer" /\ req'[c].op = "none"
    <3>1. c \in In({"timer"})
      BY <2>2 DEF In
    <3>2. timers = {} /\ In({"timer"}) = {c}
      BY <1>t, <3>1 DEF TimerOf, OneTimer
    <3>3. In({"timer"})' = {}
      BY <1>3, <2>2, <3>2 DEF In
    <3>4. \/ timers' = {} /\ "ended" \in excused'
          \/ \E j : timers' = {j} /\ j.id = req[c].id
      BY <1>2, <2>2, <3>2
    <3>5. OneTimer'
      BY <3>3, <3>4 DEF OneTimer
    <3> QED BY <1>t, <3>1, <3>3, <3>4, <3>5 DEF TimerOf
  <2> QED BY <1>2, <2>1, <2>2
<1>6. ASSUME NEW l, Registered(l) PROVE Registered(l)'
  BY <1>1, <1>5, <1>6, <1>t DEF Registered
<1>7. OneDeployment'
  BY <1>4, <1>5 DEF OneDeployment
<1>8. NextVersion'
  BY <1>4, <1>5 DEF NextVersion, In, Deploying
<1>9. OwnDefinition'
  BY <1>4, <1>5 DEF OwnDefinition, In, Deploying
<1>10. Replacing'
  <2>1. \A x \in In({"add"})' : Registered(req[x].left) /\ req'[x] = req[x]
    BY <1>4 DEF Replacing, In, Deploying
  <2> QED BY <1>1, <1>4, <1>6, <2>1 DEF Replacing
<1>11. Settled'
  BY <1>4, <1>6 DEF Settled
<1> QED BY <1>7, <1>8, <1>9, <1>10, <1>11

\* Deliveries touch neither definitions nor triggers.
Delivering ==
    \/ \E c \in Clients :
          \/ \E key \in CorrKeys : Send(c, "message", key)
          \/ Send(c, "signal", Empty)
          \/ TriggerSubscription(c) \/ StartFromTrigger(c) \/ Sent(c) \/ Refused(c)
          \/ \E e \in Events : Webhook(c, e)
          \/ WebhookDelivers(c)
    \/ \E e \in Events : Expire(e)
    \/ UNCHANGED vars

\* Deliveries touch neither definitions nor triggers nor deployments.
LEMMA DeliveringIsIdle ==
    ASSUME TypeInv, Delivering
    PROVE  /\ UNCHANGED <<defs, starts, timers>>
           /\ excused \subseteq excused'
           /\ \A x \in Clients : req[x].op \in Busy \/ req'[x].op \in Busy => req'[x] = req[x]
<1> USE DEF sendVars, Excuse
<1>1. UNCHANGED <<defs, starts, timers>> /\ excused \subseteq excused'
  BY DEF Delivering, Send, TriggerSubscription, StartFromTrigger, Sent, Refused, Webhook,
         WebhookDelivers, Expire, vars
<1>t. /\ req \in [Clients -> ReqType] /\ deploys \in Nat
      /\ \A c \in Clients : RequestOK(req[c], deploys)
  BY DEF TypeInv, DefsOK
<1> DEFINE Kept == \A x \in Clients : req[x].op \in Busy \/ req'[x].op \in Busy => req'[x] = req[x]
<1>2. ASSUME NEW c \in Clients, NEW q, req' = [req EXCEPT ![c] = q], q.op \notin Busy,
             req[c].op \notin Busy
      PROVE  Kept
  BY <1>2, <1>t
<1>3. Nobody.op \notin Busy /\ {"none", "trigger", "event", "error"} \cap Busy = {}
  BY NobodyTyped DEF Busy
<1>4. ASSUME NEW c \in Clients, NEW kind \in Kind, NEW key \in CorrKeys \cup {Empty},
             Send(c, kind, key)
      PROVE  Kept
  <2> DEFINE q == [Nobody EXCEPT !.kind = kind, !.key = key]
  <2>1. req[c] = Nobody /\ req' = [req EXCEPT ![c] = Listed(q)]
    BY <1>4 DEF Send
  <2>2. q \in ReqType /\ q.count = 0
    BY NobodyTyped DEF ReqType
  <2> HIDE DEF q
  <2>3. Listed(q).op = "trigger"
    BY <2>2, ListedTyped
  <2> QED BY <1>2, <1>3, <2>1, <2>3
<1>5. ASSUME NEW c \in Clients, TriggerSubscription(c) PROVE Kept
  <2>1. PICK w, n : req[c].op = "trigger" /\ req' = [req EXCEPT ![c].subs = @ \ {w}, ![c].count = n]
    BY <1>5, TriggerEffect
  <2>2. req'[c].op = "trigger" /\ \A x \in Clients : x # c => req'[x] = req[x]
    BY <1>t, <2>1 DEF ReqType
  <2> QED BY <1>3, <2>1, <2>2
<1>6. ASSUME NEW c \in Clients, req[c].op \notin Busy, req' = [req EXCEPT ![c].op = "error"]
      PROVE  Kept
  <2>1. req'[c].op = "error" /\ \A x \in Clients : x # c => req'[x] = req[x]
    BY <1>6, <1>t DEF ReqType
  <2> QED BY <1>3, <1>6, <2>1
<1>7. ASSUME NEW c \in Clients, StartFromTrigger(c) PROVE Kept
  <2>1. /\ req[c].op = "trigger"
        /\ (\E s : req' = [req EXCEPT ![c].from = @ \ {s}]) \/ req' = [req EXCEPT ![c].op = "error"]
    BY <1>7 DEF StartFromTrigger
  <2>2. ASSUME NEW s, req' = [req EXCEPT ![c].from = @ \ {s}] PROVE Kept
    <3>1. req'[c].op = "trigger" /\ \A x \in Clients : x # c => req'[x] = req[x]
      BY <1>t, <2>1, <2>2 DEF ReqType
    <3> QED BY <1>3, <2>1, <3>1
  <2> QED BY <1>3, <1>6, <2>1, <2>2
<1>8. ASSUME NEW c \in Clients, Sent(c) \/ Refused(c) PROVE Kept
  <2>1. req[c].op \in {"trigger", "error"} /\ req' = [req EXCEPT ![c] = Nobody]
    BY <1>8 DEF Sent, Refused
  <2> QED BY <1>2, <1>3, <2>1
<1>9. ASSUME NEW c \in Clients, NEW e \in Events, Webhook(c, e) PROVE Kept
  <2> DEFINE q == [Nobody EXCEPT !.op = "event", !.event = e]
  <2>1. req[c] = Nobody /\ (UNCHANGED req \/ req' = [req EXCEPT ![c] = q])
    BY <1>9 DEF Webhook
  <2>2. q.op = "event"
    BY DEF Nobody
  <2> HIDE DEF q
  <2> QED BY <1>2, <1>3, <2>1, <2>2
<1>10. ASSUME NEW c \in Clients, WebhookDelivers(c) PROVE Kept
  <2>1. /\ req[c].op = "event"
        /\ \/ \E key \in CorrKeys : req' = [req EXCEPT ![c] = Listed([req[c] EXCEPT !.key = key])]
           \/ req' = [req EXCEPT ![c].op = "error"]
    BY <1>10, <1>t DEF WebhookDelivers
  <2>2. ASSUME NEW key \in CorrKeys, req' = [req EXCEPT ![c] = Listed([req[c] EXCEPT !.key = key])]
        PROVE  Kept
    <3> DEFINE q == [req[c] EXCEPT !.key = key]
    <3>1. req[c].count = 0
      BY <1>t, <2>1 DEF RequestOK
    <3>2. q \in ReqType /\ q.count = 0
      BY <1>t, <3>1 DEF ReqType
    <3>3. req' = [req EXCEPT ![c] = Listed(q)]
      BY <2>2
    <3> HIDE DEF q
    <3>4. Listed(q).op = "trigger"
      BY <1>t, <3>2, ListedTyped
    <3> QED BY <1>2, <1>3, <2>1, <3>3, <3>4
  <2> QED BY <1>3, <1>6, <2>1, <2>2
<1>11. CASE (\E e \in Events : Expire(e)) \/ UNCHANGED vars
  BY <1>11 DEF Expire, vars
<1>12. {"message", "signal"} = Kind
  BY DEF Kind
<1>13. Kept
  BY <1>4, <1>5, <1>7, <1>8, <1>9, <1>10, <1>11, <1>12 DEF Delivering
<1> QED BY <1>1, <1>13

\* Every step keeps the invariant of the triggers.
LEMMA TriggersStep == TypeInv /\ TypeInv' /\ TriggersInv /\ [Next]_vars => TriggersInv'
<1> DEFINE Parts == OneDeployment /\ NextVersion /\ OwnDefinition /\ Replacing /\ Settled
<1> SUFFICES ASSUME TypeInv, TypeInv', TriggersInv, [Next]_vars, ~Spoiled' PROVE Parts'
  BY DEF TriggersInv
<1>1. ASSUME NEW c \in Clients, NEW design \in Designs, Deploy(c, design) PROVE Parts'
  <2>1. Deploying = {}
    BY <1>1 DEF Deploy, Spoiled
  <2> QED BY <1>1, <2>1, DeployKeepsTriggers
<1>2. ASSUME excused \subseteq excused'
      PROVE  OneDeployment /\ NextVersion /\ OwnDefinition /\ Replacing /\ Settled
  BY <1>2 DEF TriggersInv, Spoiled
<1>3. ASSUME NEW c \in Clients,
             \/ PutDefinition(c) \/ DropStartSubscriptions(c) \/ DropStartJobs(c)
             \/ RegisterStartTrigger(c) \/ Deployed(c) \/ ClaimTimerStart(c)
             \/ ExecuteTimerStart(c)
      PROVE  Parts'
  <2>1. excused \subseteq excused'
    BY <1>3 DEF PutDefinition, DropStartSubscriptions, DropStartJobs, RegisterStartTrigger,
                Deployed, ClaimTimerStart, ExecuteTimerStart, Excuse
  <2> QED BY <1>2, <1>3, <2>1, PutKeepsTriggers, DropSubsKeepsTriggers, DropJobsKeepsTriggers,
             RegisterKeepsTriggers, DeployedKeepsTriggers, TimerKeepsTriggers
<1>4. \A c \in Clients : ~DeployFails(c)
  BY DEF DeployFails, Excuse, Spoiled
<1>5. CASE Delivering
  BY <1>2, <1>5, DeliveringIsIdle, IdleKeepsTriggers
<1>6. CASE Crash
  <2>1. /\ Deploying = {} /\ UNCHANGED <<defs, starts, timers>>
        /\ req' = [c \in Clients |-> Nobody] /\ excused \subseteq excused'
        /\ In({"timer"}) # {} => "ended" \in excused'
    BY <1>6 DEF Crash, Spoiled
  <2>2. /\ Deploying' = {} /\ In({"put"})' = {} /\ In({"jobs"})' = {} /\ In({"add"})' = {}
        /\ In({"subs", "jobs", "add"})' = {} /\ In({"timer"})' = {}
    BY <2>1, NobodyTyped DEF Deploying, In
  <2>3. Registered({}) /\ In({"put"}) = {} /\ OneDeployment
    BY <1>2, <2>1 DEF Settled, Deploying, In
  <2>4. Latest' = Latest
    BY <2>1 DEF Latest, Version
  <2>5. Registered({})'
    <3>1. ASSUME NEW id, NEW S, TimerOf(id, S) PROVE TimerOf(id, S)'
      BY <2>1, <2>2, <3>1 DEF TimerOf, OneTimer
    <3> QED BY <2>1, <2>3, <2>4, <3>1 DEF Registered
  <2>6. OneDeployment'
    BY <2>2, <2>3, <2>4 DEF OneDeployment
  <2> QED BY <2>2, <2>5, <2>6 DEF NextVersion, OwnDefinition, Replacing, Settled
<1> QED BY <1>1, <1>3, <1>4, <1>5, <1>6 DEF Next, Delivering

\* Between deployments the start triggers are those of the latest version, its
\* timer start among them, in the store or in execution, until it has run out:
\* whatever deliveries, timer starts and restarts happened, and whatever earlier
\* deployments that overlapped, were cut short or refused had left, once one has
\* run alone.  A claimed timer start may put itself back behind its back.
THEOREM TriggersMatchLatest == Spec => []TriggersMatch
<1>1. Init => TriggersInv
  <2> SUFFICES ASSUME Init PROVE OneDeployment /\ NextVersion /\ OwnDefinition /\ Replacing /\ Settled
    BY DEF TriggersInv
  <2>1. defs = {} /\ starts = {} /\ timers = {} /\ \A c \in Clients : req[c].op = "none"
    BY NobodyTyped DEF Init
  <2>2. /\ Deploying = {} /\ In({"put"}) = {} /\ In({"subs", "jobs", "add"}) = {}
        /\ In({"jobs"}) = {} /\ In({"add"}) = {} /\ Latest = {}
    BY <2>1 DEF Deploying, In, Latest
  <2> QED BY <2>2 DEF OneDeployment, NextVersion, OwnDefinition, Replacing, Settled, Registered
<1>2. TriggersInv => TriggersMatch
  <2> SUFFICES ASSUME TriggersInv, Deploying = {}, ~Spoiled, NEW d \in Latest
               PROVE  /\ starts = {[id |-> d.id, kind |-> k] : k \in d.starts \ {"timer"}}
                      /\ "claimed" \notin excused =>
                            /\ \A j \in timers : j.id = d.id /\ "timer" \in d.starts
                            /\ Cardinality(timers) + Cardinality(In({"timer"})) <= 1
                            /\ "timer" \in d.starts /\ "ended" \notin excused =>
                                  timers \cup In({"timer"}) # {}
    BY DEF TriggersMatch
  <2>1. Registered({})
    BY DEF TriggersInv, Settled
  <2>2. d.starts \ {} = d.starts
    OBVIOUS
  <2>3. /\ starts = {[id |-> d.id, kind |-> k] : k \in d.starts \ {"timer"}}
        /\ "claimed" \notin excused => TimerOf(d.id, d.starts)
    BY <2>1, <2>2 DEF Registered
  <2>4. ASSUME NEW S, \A x, y \in S : x = y
        PROVE  /\ Cardinality(S) \in {0, 1}
               /\ S = {} => Cardinality(S) = 0
    <3>1. CASE S = {}
      BY <3>1, FS_EmptySet
    <3>2. CASE S # {}
      <4>0. PICK x : x \in S
        BY <3>2
      <4>1. S = {x}
        BY <2>4, <4>0, Zenon
      <4> QED BY <4>1, FS_Singleton
    <3> QED BY <3>1, <3>2
  <2>5. ASSUME "claimed" \notin excused
        PROVE  Cardinality(timers) + Cardinality(In({"timer"})) <= 1
    <3>1. OneTimer
      BY <2>3, <2>5 DEF TimerOf
    <3>2. /\ Cardinality(timers) \in {0, 1} /\ (timers = {} => Cardinality(timers) = 0)
      BY <2>4, <3>1 DEF OneTimer
    <3>3. /\ Cardinality(In({"timer"})) \in {0, 1}
          /\ In({"timer"}) = {} => Cardinality(In({"timer"})) = 0
      BY <2>4, <3>1 DEF OneTimer
    <3> QED BY <3>1, <3>2, <3>3 DEF OneTimer
  <2> QED BY <2>3, <2>5 DEF TimerOf
<1> QED BY <1>1, <1>2, TriggersStep, TypeInit, TypeStep, PTL DEF Spec
=============================================================================
