------------------------------- MODULE MCIntake -------------------------------
\* Two clients; a process deployed with a message and a timer start or with a
\* signal start; one instance waits at an event-based gateway for a message or
\* a signal, and another has a non-interrupting boundary event for the message.
EXTENDS Intake, TLC

MCDesigns == {{"message", "timer"}, {"signal"}}

MCWaits ==
    {[id |-> 1, token |-> 1, kind |-> "message", key |-> "a", once |-> TRUE],
     [id |-> 2, token |-> 1, kind |-> "signal", key |-> "", once |-> TRUE],
     [id |-> 3, token |-> 2, kind |-> "message", key |-> "b", once |-> FALSE]}

\* Bound: requests of all kinds.
Bounded == deploys + sends <= 3

Symmetry == Permutations(Clients)
=============================================================================
