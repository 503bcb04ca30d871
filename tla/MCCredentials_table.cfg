\* Three requests over one table: every interleaving of two refreshes and a
\* store, of two callbacks with one state, of two first stores.
CONSTANTS
  Requests = {r1, r2, r3}
  States = {s1}
  Conns = {k1, k2}
SPECIFICATION Spec
SYMMETRY Symmetry
INVARIANTS
  Sound
  ActiveTokenUsable
CHECK_DEADLOCK FALSE
