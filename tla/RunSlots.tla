------------------------------ MODULE RunSlots ------------------------------
(***************************************************************************)
(* What the run limit of RateLimiter promises: a user holds at most        *)
(* MaxActiveRuns slots, each taken by one run and given back by it.        *)
(***************************************************************************)
EXTENDS Naturals, FiniteSets

CONSTANTS Runs,          \* requests to POST /chat
          Users,
          Owner,         \* the user of each run
          MaxActiveRuns  \* max_active_runs_per_user

VARIABLE holders  \* the runs that hold a slot

SlotsOf(u) == { r \in holders : Owner[r] = u }

Init == holders = {}

Take(r) ==
  /\ r \notin holders
  /\ Cardinality(SlotsOf(Owner[r])) < MaxActiveRuns
  /\ holders' = holders \cup {r}

GiveBack(r) ==
  /\ r \in holders
  /\ holders' = holders \ {r}

Next == \E r \in Runs : Take(r) \/ GiveBack(r)

SafeSpec == Init /\ [][Next]_holders

\* A slot that is held is given back.
Spec == SafeSpec /\ \A r \in Runs : WF_holders(GiveBack(r))
=============================================================================
