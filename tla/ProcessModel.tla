----------------------------- MODULE ProcessModel ----------------------------
(***************************************************************************)
(* bpmn/model.go: the parsed processes the engine interprets, as constants.*)
(*                                                                         *)
(* Elements of all processes share one name space (FindElement looks an    *)
(* element up by its id alone).  Flows are numbered in document order.     *)
(***************************************************************************)
EXTENDS Naturals, Sequences, FiniteSets

CONSTANTS
    Processes,  \* process ids, the root containers
    Elements,   \* element ids
    Node,       \* Node[e]: what the parser knows about element e
    Flows,      \* sequence flows
    Flow        \* Flow[f]: its ends and its condition

\* Element types.  "external" is a service task with a topic, "service" any
\* activity that runs synchronously inside the step (handler, expression,
\* script, decision, manual task); "agent" is an agent task with a topic and
\* "invoke" one with an in-process invoker.
Activities == {"user", "external", "service", "receive", "sub", "agent", "invoke"}
Types == Activities \cup
         {"start", "end", "exclusive", "parallel", "inclusive", "eventBased",
          "catch", "throw", "boundary"}

\* EventDefinition.Kind.  Signals are messages without a correlation key, and
\* every error handler matches the one error code there is.
EventKinds == {"none", "timer", "message", "error", "terminate"}

NodeRecord ==
    [type : Types,
     event : EventKinds,
     in : Processes \cup Elements,      \* the container that holds it
     at : Elements \cup {"none"},       \* AttachedTo, for a boundary event
     cancel : BOOLEAN,                  \* CancelActivity / isInterrupting
     async : BOOLEAN,                   \* Async
     byEvent : BOOLEAN,                 \* TriggeredByEvent
     multi : {"none", "parallel", "sequential"},    \* MultiInstance
     approve : BOOLEAN,                 \* Agent.HumanApproval
     inputs : BOOLEAN,                  \* Inputs: there are input mappings
     dynamic : BOOLEAN]                 \* the time of the timer is an expression

FlowRecord ==
    [from : Elements, to : Elements, when : {"always", "condition", "default"}]

ASSUME ProcessModelAssumption ==
    /\ Flows \subseteq Nat
    /\ IsFiniteSet(Flows) /\ IsFiniteSet(Elements)
    /\ "none" \notin Elements
    /\ Processes \cap Elements = {}
    /\ Node \in [Elements -> NodeRecord]
    /\ Flow \in [Flows -> FlowRecord]
    /\ \A e \in Elements : Node[e].type = "boundary" <=> Node[e].at # "none"
    /\ \A e \in Elements : Node[e].in \in Elements => Node[Node[e].in].type = "sub"

Type(e) == Node[e].type

\* Element.Outgoing and Element.Incoming
OutgoingFlows == [e \in Elements |-> {f \in Flows : Flow[f].from = e}]
IncomingFlows == [e \in Elements |-> {f \in Flows : Flow[f].to = e}]
Outgoing(e) == OutgoingFlows[e]
Incoming(e) == IncomingFlows[e]

\* Container.BoundaryEvents
BoundariesOf == [e \in Elements |-> {b \in Elements : Node[b].at = e}]
BoundaryEvents(e) == BoundariesOf[e]

\* The boundary events that are registered in advance: errors are routed when
\* they are thrown.
Awaited(e) == {b \in BoundaryEvents(e) : Node[b].event \in {"timer", "message"}}
ErrorBoundaries(e) == {b \in BoundaryEvents(e) : Node[b].event = "error"}

\* Container.StartEvents, by kind
Starts(c, kinds) ==
    {s \in Elements : Node[s].in = c /\ Type(s) = "start" /\ Node[s].event \in kinds}

\* The typed start events of the event sub-processes of container c.
EventStarts(c, kinds) ==
    {s \in Elements :
        /\ Type(s) = "start" /\ Node[s].event \in kinds
        /\ Node[s].in \in Elements
        /\ Node[Node[s].in].byEvent
        /\ Node[Node[s].in].in = c}

\* FindElement searches the tree of one process: this is the one e is found in.
RootOf[e \in Elements] ==
    IF Node[e].in \in Processes THEN Node[e].in ELSE RootOf[Node[e].in]

\* validateContainer, of the element e beside the others of its container.
ValidElement(e) ==
    LET out == Outgoing(e)
    IN  /\ Type(e) = "start" => Incoming(e) = {} /\ out # {}
        /\ Type(e) = "end" => out = {}
        /\ Type(e) = "boundary" =>
              /\ Type(Node[e].at) \in Activities
              /\ Node[Node[e].at].in = Node[e].in
              /\ out # {}
        /\ Type(e) = "eventBased" =>
              /\ Cardinality(out) >= 2
              /\ \A f \in out : Type(Flow[f].to) \in {"catch", "receive"}
        /\ Type(e) = "sub" =>
              IF Node[e].byEvent THEN Starts(e, EventKinds \ {"none"}) # {}
              ELSE Starts(e, {"none"}) # {}
        /\ out = {} => Type(e) \in {"end", "throw"} \/ Node[e].byEvent

\* Validate: what DeployTenant accepts.
ASSUME ValidModel ==
    /\ \A p \in Processes : Starts(p, EventKinds) # {}
    /\ \A e \in Elements : ValidElement(e)
    /\ \A f \in Flows : Node[Flow[f].from].in = Node[Flow[f].to].in

\* One round of canReach's search: along flows, and from an activity along the
\* flows of its boundary events.
Onward(S) ==
    S \cup {Flow[f].to : f \in {g \in Flows :
                \/ Flow[g].from \in S
                \/ Node[Flow[g].from].at \in S}}

\* canReach: the elements a token at e may still get to, e included.  Flows do
\* not leave a container, so its size is enough rounds.
Reachable ==
    [e \in Elements |->
        LET rounds == Cardinality({x \in Elements : Node[x].in = Node[e].in})
            reach[n \in 0..rounds] == IF n = 0 THEN {e} ELSE Onward(reach[n - 1])
        IN  reach[rounds]]

CanReach(from, to) == to \in Reachable[from]
==============================================================================
