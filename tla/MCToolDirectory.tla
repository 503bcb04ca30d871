-------------------------- MODULE MCToolDirectory --------------------------
(* A small instance of ToolDirectory.                                      *)
EXTENDS ToolDirectory

CONSTANTS u1, u2, q1

ExposedTools ==
  [key \in Keys |-> IF key = Gateway
                    THEN [name |-> KnownName("get_club_by_name"), host |-> "gateway"]
                    ELSE [name |-> KnownName("add_comment"), host |-> "atlassian"]]

\* A table of CPython's dict takes 5 entries when it is made for up to 2,
\* 10 when for up to 5.  A table of 2, and then of 4, is the same on a
\* smaller scale.
UsablePlaces == [n \in 0 .. MaxClients |-> IF n <= 1 THEN 2 ELSE 4]

OnlyGateway == {Gateway}

\* One request connects and disconnects, the other one deletes; the two
\* integrations are alike, so that it may delete one of them is enough.
Sent ==
  [r \in Requests |-> IF r = q1 THEN {"enable", "disable"} \X Integrations
                             ELSE {<<"delete", 1>>}]

\* The first run may see the integration's tool and not the gateway's, the
\* second the other way round.
Callers ==
  [u \in ChatRuns |-> IF u = u1 THEN [workflow |-> "ticket_management", role |-> "operator"]
                            ELSE [workflow |-> "general", role |-> "admin"]]
=============================================================================
