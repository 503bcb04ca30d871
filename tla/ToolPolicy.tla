---------------------------- MODULE ToolPolicy -----------------------------
(***************************************************************************)
(* Which of the discovered tools a run shows to the model: the metadata    *)
(* tool_catalog.py gives a tool (from its registry of known tools, or from *)
(* the conventions of its name), the exposure policy of the workflow, and  *)
(* the allowlist of the user's role in mcp_config.py.                      *)
(*                                                                         *)
(* A name is one of the known tools, or is told apart by the verb it       *)
(* starts with, the words the conventions look for in it, and the roles    *)
(* whose allowlist names it.                                               *)
(*                                                                         *)
(* Two servers with tools of one name are left out: the filters would keep *)
(* the first of them.                                                      *)
(***************************************************************************)
EXTENDS Naturals

Workflows == {"general", "club_setup", "ticket_management", "admin"}
Providers == {"brs", "atlassian", "internal", "builtin"}
Hosts     == {"gateway", "atlassian", "other"}
Roles     == {"admin", "operator", "user", "pending"}

Verbs == {"read", "write", "drop", "other"}
Words == {"club", "ticket", "admin", "user"}

Meta(risk, provider, tags) ==
  [risk |-> risk, provider |-> provider, tags |-> tags]

\* Risk levels are numbered in the order of filter_by_risk: read, low,
\* medium and high write.
Known ==
  [create_club       |-> Meta(1, "brs", {"club_setup", "general"}),
   get_club_by_name  |-> Meta(0, "brs", {"club_setup", "general"}),
   get_club_config   |-> Meta(0, "brs", {"club_setup", "general"}),
   create_admin_user |-> Meta(2, "brs", {"club_setup", "admin"}),
   call_internal_api |-> Meta(2, "brs", {"admin"}),
   verify_club_setup |-> Meta(0, "brs", {"club_setup", "general"}),
   create_ticket     |-> Meta(1, "atlassian", {"ticket_management", "general"}),
   get_ticket_status |-> Meta(0, "atlassian", {"ticket_management", "general"}),
   add_comment       |-> Meta(1, "atlassian", {"ticket_management"}),
   get_current_time  |-> Meta(0, "builtin", {"general"})]

UserTools == {"get_club_by_name", "get_club_config", "verify_club_setup",
              "get_ticket_status"}
OperatorTools == UserTools \cup {"create_club", "create_admin_user",
                                 "call_internal_api", "create_ticket", "add_comment"}

RolesNaming(k) == {r \in {"operator"} : k \in OperatorTools} \cup {r \in {"user"} : k \in UserTools}

KnownName(k) == [id |-> k, verb |-> "other", words |-> {}, roles |-> RolesNaming(k)]

Names == {KnownName(k) : k \in DOMAIN Known}
         \cup [id : {"unknown"}, verb : Verbs, words : SUBSET Words,
               roles : {{}, {"operator"}, {"operator", "user"}}]

Tool == [name : Names, host : Hosts]

\* What the conventions make of a name and of its server's.
InferredRisk(name) ==
  CASE name.verb = "write" -> IF {"admin", "user"} \cap name.words # {} THEN 2 ELSE 1
    [] name.verb = "drop"  -> 3
    [] OTHER               -> 0

InferredProvider(host) ==
  IF host = "gateway" THEN "brs" ELSE IF host = "atlassian" THEN host ELSE "internal"

InferredTags(name) ==
  {"general"} \cup {w \in {"club_setup"} : "club" \in name.words}
              \cup {w \in {"ticket_management"} : "ticket" \in name.words}
              \cup {w \in {"admin"} : "admin" \in name.words}

\* What the catalog says of a tool.
Metadata(tool) ==
  IF tool.name.id # "unknown"
  THEN Known[tool.name.id]
  ELSE Meta(InferredRisk(tool.name), InferredProvider(tool.host), InferredTags(tool.name))

-----------------------------------------------------------------------------
(* The exposure policy of a workflow.                                      *)

MaxRisk(w) ==
  CASE w = "club_setup" -> 2 [] w = "admin" -> 3 [] OTHER -> 1

\* No provider means every provider.
AllowedProviders(w) ==
  CASE w = "club_setup"        -> {"brs", "builtin"}
    [] w = "ticket_management" -> {"atlassian", "builtin"}
    [] OTHER                   -> {}

\* The filters take a set of tools to the ones they keep.
ByWorkflow(w, tools) == {t \in tools : {w, "general"} \cap Metadata(t).tags # {}}
ByRisk(max, tools) == {t \in tools : Metadata(t).risk <= max}
ByProvider(providers, tools) == {t \in tools : Metadata(t).provider \in providers}

\* Slip: the policy's providers are forgotten.
ExposedByAnyone(w, tools) == ByRisk(MaxRisk(w), ByWorkflow(w, tools))

\* The tools a workflow exposes: each filter in turn, then the built-in
\* tools again.
Exposed(w, tools) ==
  LET safe == ByRisk(MaxRisk(w), ByWorkflow(w, tools))
      kept == IF AllowedProviders(w) = {} THEN safe
              ELSE ByProvider(AllowedProviders(w), safe)
  IN  kept \cup ByProvider({"builtin"}, tools)

\* The answer for one tool alone.
PolicyAllows(w, tool) ==
  LET m == Metadata(tool) IN
  /\ {w, "general"} \cap m.tags # {}
  /\ m.risk <= MaxRisk(w)
  /\ \/ AllowedProviders(w) = {}
     \/ m.provider \in AllowedProviders(w) \cup {"builtin"}

-----------------------------------------------------------------------------
(* The role of the user.                                                   *)

\* is_tool_allowed: the wildcard of an administrator, or the allowlist.
RoleAllows(role, name) == role = "admin" \/ role \in name.roles
=============================================================================
