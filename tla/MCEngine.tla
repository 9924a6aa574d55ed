------------------------------ MODULE MCEngine -------------------------------
(***************************************************************************)
(* Small process models for Engine.                                        *)
(*                                                                         *)
(* review   a fork into a user task with an interrupting timer and an      *)
(*          external task with an error boundary, and a parallel join      *)
(* race     an event-based gateway in a loop with an async service task    *)
(* scopes   a sub-process with an error boundary and an interrupting       *)
(*          message event sub-process; an error event sub-process and a    *)
(*          non-interrupting message one at the root                       *)
(* choice   a conditional inclusive fork, a receive task with a            *)
(*          non-interrupting message boundary, an inclusive join           *)
(* early    an inclusive join of which one branch may end elsewhere        *)
(* loop     a parallel loop of external tasks with an interrupting timer   *)
(*          and an error boundary                                          *)
(* ballot   a sequential loop of sub-processes with a message boundary     *)
(* assist   an agent task with approval, then one run in the process       *)
(* order    a user task in an async sub-process with a timer, then a       *)
(*          message; order2 is its next version, with everything renamed   *)
(*          and without the message                                        *)
(* watch    a sub-process with a non-interrupting timer event sub-process, *)
(*          and a user task after it                                       *)
(***************************************************************************)
EXTENDS Engine

\* What each container holds.
Members ==
    [review |-> {"r_start", "fork", "approve", "late", "merge", "charge", "declined",
                 "join", "r_end", "stop"},
     race |-> {"e_start", "gate", "wake", "news", "poll", "guard", "pause", "again", "e_end"},
     scopes |-> {"s_start", "box", "broken", "s_end", "s_fail", "side", "rescue"},
     box |-> {"b_start", "work", "b_end", "abort"},
     abort |-> {"a_start", "a_end"},
     side |-> {"d_start", "d_ask", "d_end"},
     rescue |-> {"q_start", "q_end"},
     choice |-> {"c_start", "some", "left", "ping", "right", "all", "p_end", "c_end"},
     loop |-> {"l_start", "each", "l_late", "l_bad", "l_end"},
     ballot |-> {"v_start", "rounds", "v_stop", "v_end"},
     rounds |-> {"n_start", "vote", "n_end"},
     assist |-> {"g_start", "draft", "answer", "g_fix", "g_end"},
     order |-> {"o_start", "o_box", "o_late", "o_news", "o_end", "o_out"},
     o_box |-> {"i_start", "o_ask", "i_end"},
     order2 |-> {"o_start2", "o_box2", "o_late2", "o_end2", "o_out2"},
     o_box2 |-> {"i_start2", "o_ask2", "i_end2"},
     watch |-> {"h_start", "h_box", "h_next", "h_end"},
     h_box |-> {"h_in", "h_ask", "h_out", "h_side"},
     h_side |-> {"h_tick", "h_note", "h_done"},
     early |-> {"y_start", "y_fork", "y_left", "y_right", "y_xor", "y_join", "y_out", "y_end"}]

TypeOf ==
    [start |-> {"r_start", "e_start", "s_start", "b_start", "a_start", "d_start",
                "q_start", "c_start", "y_start", "l_start", "v_start", "n_start", "g_start",
                "o_start", "i_start", "o_start2", "i_start2", "h_start", "h_in", "h_tick"},
     end |-> {"r_end", "stop", "e_end", "s_end", "s_fail", "b_end", "a_end", "d_end",
              "q_end", "p_end", "c_end", "y_out", "y_end", "l_end", "v_end", "n_end",
              "g_end", "o_end", "o_out", "i_end", "o_end2", "o_out2", "i_end2",
              "h_end", "h_out", "h_done"},
     user |-> {"approve", "d_ask", "right", "y_left", "y_right", "vote", "o_ask",
               "o_ask2", "h_ask", "h_next", "h_note"},
     external |-> {"charge", "work", "each"},
     service |-> {"poll"},
     agent |-> {"draft"},
     invoke |-> {"answer"},
     receive |-> {"left"},
     sub |-> {"box", "abort", "side", "rescue", "rounds", "o_box", "o_box2", "h_box",
             "h_side"},
     catch |-> {"wake", "news", "pause", "o_news"},
     boundary |-> {"late", "declined", "guard", "broken", "ping", "l_late", "l_bad",
                   "v_stop", "g_fix", "o_late", "o_late2"},
     exclusive |-> {"merge", "again", "y_xor"},
     parallel |-> {"fork", "join"},
     inclusive |-> {"some", "all", "y_fork", "y_join"},
     eventBased |-> {"gate"}]

EventOf ==
    [timer |-> {"late", "wake", "guard", "pause", "l_late", "o_late", "o_late2",
               "h_tick"},
     message |-> {"news", "a_start", "d_start", "left", "ping", "v_stop", "o_news"},
     error |-> {"l_bad", "g_fix", "declined", "broken", "a_end", "s_fail", "q_start"},
     terminate |-> {"stop", "d_end"}]

AttachedTo == [late |-> "approve", declined |-> "charge", guard |-> "poll",
               broken |-> "box", ping |-> "left", l_late |-> "each", l_bad |-> "each",
               v_stop |-> "rounds", g_fix |-> "answer", o_late |-> "o_box",
               o_late2 |-> "o_box2"]

Interrupting == {"late", "declined", "guard", "broken", "a_start", "l_late", "l_bad",
                 "v_stop", "g_fix", "o_late", "o_late2"}
Looping == [each |-> "parallel", rounds |-> "sequential"]
Approved == {"draft"}
Async == {"poll", "o_box"}
WithInputs == {"box"}
Dynamic == {"o_late", "wake", "pause", "l_late", "h_tick"}
EventSubProcesses == {"abort", "side", "rescue", "h_side"}

AllFlows ==
    <<<<"r_start", "fork", "always">>, <<"fork", "approve", "always">>,
      <<"fork", "charge", "always">>, <<"approve", "merge", "always">>,
      <<"late", "merge", "always">>, <<"merge", "join", "always">>,
      <<"charge", "join", "always">>, <<"declined", "stop", "always">>,
      <<"join", "r_end", "always">>,

      <<"e_start", "gate", "always">>, <<"gate", "wake", "always">>,
      <<"gate", "news", "always">>, <<"wake", "poll", "always">>,
      <<"poll", "again", "always">>, <<"guard", "pause", "always">>,
      <<"pause", "again", "always">>, <<"again", "gate", "condition">>,
      <<"again", "e_end", "default">>, <<"news", "e_end", "always">>,

      <<"s_start", "box", "always">>, <<"b_start", "work", "always">>,
      <<"work", "b_end", "always">>, <<"a_start", "a_end", "always">>,
      <<"box", "s_end", "always">>, <<"broken", "s_fail", "always">>,
      <<"d_start", "d_ask", "always">>, <<"d_ask", "d_end", "always">>,
      <<"q_start", "q_end", "always">>,

      <<"c_start", "some", "always">>, <<"some", "left", "condition">>,
      <<"some", "right", "condition">>, <<"left", "all", "always">>,
      <<"right", "all", "always">>, <<"all", "c_end", "always">>,
      <<"ping", "p_end", "always">>,

      <<"y_start", "y_fork", "always">>, <<"y_fork", "y_left", "always">>,
      <<"y_fork", "y_right", "always">>, <<"y_left", "y_join", "always">>,
      <<"y_right", "y_xor", "always">>, <<"y_xor", "y_out", "condition">>,
      <<"y_xor", "y_join", "default">>, <<"y_join", "y_end", "always">>,

      <<"l_start", "each", "always">>, <<"each", "l_end", "always">>,
      <<"l_late", "l_end", "always">>, <<"l_bad", "l_end", "always">>,

      <<"v_start", "rounds", "always">>, <<"rounds", "v_end", "always">>,
      <<"v_stop", "v_end", "always">>, <<"n_start", "vote", "always">>,
      <<"vote", "n_end", "always">>,

      <<"g_start", "draft", "always">>, <<"draft", "answer", "always">>,
      <<"answer", "g_end", "always">>, <<"g_fix", "g_end", "always">>,

      <<"o_start", "o_box", "always">>, <<"o_box", "o_news", "always">>,
      <<"o_late", "o_out", "always">>, <<"o_news", "o_end", "always">>,
      <<"i_start", "o_ask", "always">>, <<"o_ask", "i_end", "always">>,
      <<"o_start2", "o_box2", "always">>, <<"o_box2", "o_end2", "always">>,
      <<"o_late2", "o_out2", "always">>,
      <<"i_start2", "o_ask2", "always">>, <<"o_ask2", "i_end2", "always">>,

      <<"h_start", "h_box", "always">>, <<"h_box", "h_next", "always">>,
      <<"h_next", "h_end", "always">>, <<"h_in", "h_ask", "always">>,
      <<"h_ask", "h_out", "always">>, <<"h_tick", "h_note", "always">>,
      <<"h_note", "h_done", "always">>>>

\* The part of the library that Processes picks.
Containers ==
    Processes \cup {c \in DOMAIN Members :
        \/ c \in {"box", "abort", "side", "rescue"} /\ "scopes" \in Processes
        \/ c = "rounds" /\ "ballot" \in Processes
        \/ c = "o_box" /\ "order" \in Processes
        \/ c = "o_box2" /\ "order2" \in Processes
        \/ c \in {"h_box", "h_side"} /\ "watch" \in Processes}
MCElements == UNION {Members[c] : c \in Containers}

Class(of, e) == IF \E k \in DOMAIN of : e \in of[k]
                  THEN CHOOSE k \in DOMAIN of : e \in of[k] ELSE "none"

MCNode ==
    [e \in MCElements |->
        [type |-> Class(TypeOf, e),
         event |-> Class(EventOf, e),
         in |-> Class(Members, e),
         at |-> IF e \in DOMAIN AttachedTo THEN AttachedTo[e] ELSE "none",
         cancel |-> e \in Interrupting,
         async |-> e \in Async,
         byEvent |-> e \in EventSubProcesses,
         multi |-> IF e \in DOMAIN Looping THEN Looping[e] ELSE "none",
         approve |-> e \in Approved,
         inputs |-> e \in WithInputs,
         dynamic |-> e \in Dynamic]]

\* The plan that moves order to order2.
MCPlans ==
    IF "order2" \notin Processes THEN {}
    ELSE {[to |-> "order2",
           map |-> [o_start |-> "o_start2", o_box |-> "o_box2", o_late |-> "o_late2",
                    i_start |-> "i_start2", o_ask |-> "o_ask2", i_end |-> "i_end2",
                    o_end |-> "o_end2", o_out |-> "o_out2"]]}

MCFlows == {f \in DOMAIN AllFlows : AllFlows[f][1] \in MCElements}
MCFlow == [f \in MCFlows |-> [from |-> AllFlows[f][1], to |-> AllFlows[f][2],
                              when |-> AllFlows[f][3]]]

\* The loops, the forks and the nested scopes have the most states.
MCMaxOps ==
    [p \in Processes |-> CASE p = "loop" -> 3
                        [] p \in {"scopes", "choice", "ballot", "assist"} -> 4
                        [] p \in {"order", "order2"} -> 6
                        [] OTHER -> 5]

Symmetry == Permutations(Clients)
==============================================================================
