---------------------------- MODULE DurableStore -----------------------------
(***************************************************************************)
(* What a crash-safe store promises its callers, record by record: an      *)
(* operation changes the record in memory and, before it returns, on       *)
(* durable storage; a crash keeps every record whose operations returned,  *)
(* and takes the old or the new value of one whose operation was still     *)
(* running.  A failed operation leaves its record in doubt until the next  *)
(* checkpoint.  "damaged" says that the promise is suspended.              *)
(***************************************************************************)
CONSTANTS Records, Contents

VARIABLES
    live,       \* the store is open
    state,      \* what callers read
    durable,    \* what a crash now would leave
    busy,       \* records with an operation running
    doubtful,   \* records whose operation failed
    damaged     \* durable storage no longer follows

dvars == <<live, state, durable, busy, doubtful, damaged>>

DInit ==
    /\ live = TRUE
    /\ state \in [Records -> Contents]
    /\ durable = state
    /\ busy = {}
    /\ doubtful = {}
    /\ damaged = FALSE

\* Durable storage moves to the running operation's value or stays.
MayBecome(r) ==
    {durable[r]} \cup (IF r \in busy THEN {state[r]} ELSE {})
                 \cup (IF r \in doubtful THEN Contents ELSE {})

Follows == durable' \in [Records -> Contents]
           /\ \A r \in Records : durable'[r] \in MayBecome(r)

\* An operation starts: callers see its effect at once.
Begin ==
    /\ live
    /\ busy' \in SUBSET Records
    /\ busy \subseteq busy'
    /\ state' \in [Records -> Contents]
    /\ \A r \in Records \ busy' : state'[r] = state[r]
    /\ UNCHANGED <<live, durable, doubtful, damaged>>

\* Operations progress and return: a record is settled only when durable
\* storage holds what callers see.
Commit ==
    /\ live
    /\ busy' \subseteq busy
    /\ doubtful' \subseteq busy \cup doubtful
    /\ damaged \/ Follows
    /\ damaged \/ \A r \in (busy \cup doubtful) \ (busy' \cup doubtful') :
                     durable'[r] = state[r]
    /\ UNCHANGED <<live, state, damaged>>

\* All settled records are on durable storage again.
Checkpoint ==
    /\ live
    /\ UNCHANGED <<live, state, busy>>
    /\ doubtful' = {}
    /\ \A r \in Records \ busy : durable'[r] = state[r]
    /\ damaged' = FALSE

Damage ==
    /\ damaged' = TRUE
    /\ UNCHANGED <<live, state>>
    /\ busy' \subseteq busy
    /\ doubtful' \subseteq busy \cup doubtful

Fall ==
    /\ live
    /\ live' = FALSE
    /\ busy' = {}
    /\ doubtful' = {}
    /\ IF damaged' THEN TRUE ELSE Follows
    /\ damaged => damaged'

Restart ==
    /\ ~live
    /\ live' = TRUE
    /\ state' = durable
    /\ UNCHANGED <<durable, busy, doubtful, damaged>>

DNext == Begin \/ Commit \/ Checkpoint \/ Damage \/ Fall \/ Restart

DSpec == DInit /\ [][DNext]_dvars
==============================================================================
