--------------------------- MODULE ToolDirectory ---------------------------
(***************************************************************************)
(* The tool servers of the backend and the runs that use their tools: the  *)
(* tenant's integrations in the database (api/integrations.py), the        *)
(* clients TenantMCPConnectionManager connects, the global registry with   *)
(* its discovery cache (mcp_registry.py), the health checker               *)
(* (mcp_health.py), and what a chat run takes from them.                   *)
(*                                                                         *)
(* All of it runs in one event loop: a step is what happens between two    *)
(* awaits.  A request waits while a client connects or closes, a run waits *)
(* for the discovery lock and for each server it discovers.                *)
(*                                                                         *)
(* The registry is a dict from a server's name to its client, and a run    *)
(* iterates over it across awaits.  So the dict is CPython's: a table that *)
(* entries are put into one after the other, where deletions leave holes,  *)
(* and which an insertion replaces when it is full.                        *)
(*                                                                         *)
(* Its specification is DirectorySpec: the proofs about it stand beside    *)
(* those about RateLimiter, the other state that the runs of a process     *)
(* share.                                                                  *)
(***************************************************************************)
EXTENDS Naturals, Sequences, FiniteSets, ToolPolicy

CONSTANTS Integrations,  \* integrations of a tenant, numbered from 1
          Requests,      \* requests of the integration routes
          ChatRuns,      \* chat runs
          MaxClients,    \* bound: tenant clients created
          Sends,         \* bound: what each request may ask for
          Capacity,      \* entries that the table made for so many takes
          Reliable,      \* bound: servers that always list their tools
          Exposes,       \* the tool each server lists
          Caller         \* workflow and role of each run

\* A run is no None; the clients of the integrations at startup are counted.
ASSUME DirectoryAssumption ==
  /\ Integrations \subseteq Nat \ {0} /\ IsFiniteSet(Integrations)
  /\ MaxClients \in Nat /\ Cardinality(Integrations) <= MaxClients
  /\ Capacity \in [0 .. MaxClients -> Nat] /\ \A n \in 0 .. MaxClients : Capacity[n] > n
  /\ "none" \notin ChatRuns
  /\ Exposes \in [Integrations \cup {0} -> Tool]
  /\ Caller \in [ChatRuns -> [workflow : Workflows, role : Roles]]

VARIABLES integration,  \* rows of tenant_mcp_integrations
          entries,      \* registry.clients
          fill,         \* places of the dict's table that were used
          capacity,     \* places it has
          tracked,      \* manager.tenant_clients; 0 is no entry
          warm,         \* registered clients whose own cache holds their tools
          created,      \* tenant clients created
          cache,        \* _discovery_cache
          holder,       \* the run that holds _discovery_lock
          known,        \* servers registered with the health checker
          vouched,      \* those of them it has as healthy, with their tools
          request,      \* what each request is doing
          run           \* what each run is doing

table == <<entries, fill, capacity>>
servers == <<table, tracked, warm, created>>
discovery == <<cache, holder>>
health == <<known, vouched>>
directoryVars == <<integration, servers, discovery, health, request, run>>

None == "none"
\* The server of an integration is named after it; 0 is gateway-mcp.
Gateway == 0
Keys == Integrations \cup {Gateway}

\* The gateway's client is 1.  An entry of the dict is at a place of the table.
Clients == 1 .. MaxClients + 1
DictEntry == [key : Keys, client : Clients, at : Nat]

\* A catalog: the servers it discovered, those of them that listed tools, and
\* those whose entries got behind the iteration since the table was replaced.
Catalog == [servers : SUBSET Keys, tools : SUBSET Keys, missed : SUBSET Keys]
Empty == [servers |-> {}, tools |-> {}, missed |-> {}]

Request == [at : {"idle", "connecting", "disabling", "deleting"},
            of : Integrations \cup {0}, client : Clients \cup {0}]
Free == [at |-> "idle", of |-> 0, client |-> 0]

\* A run that builds the catalog has its place in the table, the server and
\* the client it asked, the number of entries still due, and the size the dict
\* had.
\* The last row of "at" is what became of the tool call of the run.
Run == [at : {"idle", "asking", "waiting", "building", "failed", "ready",
              "called", "refused"},
        place : Nat, key : Keys, asked : Clients \cup {0}, due : Nat, size : Nat,
        catalog : Catalog, offered : SUBSET Keys]
NewRun == [at |-> "idle", place |-> 0, key |-> Gateway, asked |-> 0, due |-> 0,
           size |-> 0, catalog |-> Empty, offered |-> {}]

Registered == {e.key : e \in entries}
InUse == {e.client : e \in entries}
ClientOf(key) == {e.client : e \in {x \in entries : x.key = key}}
Size == Cardinality(entries)

Exists(i) == integration[i] = "present"

-----------------------------------------------------------------------------
(* Startup: the manager connects the integrations enabled in the database, *)
(* an error of one leaves the others; then every server of the registry is *)
(* registered with the health checker, which has it as healthy if it       *)
(* listed tools.  No request is served before that.                        *)

\* The table of a dict with so many entries that never lost one: the smallest
\* that an insertion on the way made and that takes them.
Grown(n) ==
  {c \in {Capacity[k] : k \in 0 .. n - 1} :
     c >= n /\ \A k \in 0 .. n - 1 : Capacity[k] >= n => c <= Capacity[k]}

DirectoryInit ==
  \E present \in SUBSET Integrations :
  \E connected \in SUBSET present :
  \E up \in SUBSET (connected \cup {Gateway}) :
    LET order == CHOOSE s \in [1 .. Cardinality(connected) -> connected] :
                   \A a, b \in DOMAIN s : a # b => s[a] # s[b]
    IN
    /\ integration = [i \in Integrations |-> IF i \in present THEN "present" ELSE "absent"]
    /\ entries = {[key |-> Gateway, client |-> 1, at |-> 1]} \cup
         {[key |-> order[j], client |-> j + 1, at |-> j + 1] : j \in DOMAIN order}
    /\ fill = Len(order) + 1
    /\ capacity \in Grown(fill)
    /\ tracked = [i \in Integrations |->
         IF i \in connected THEN 1 + CHOOSE j \in DOMAIN order : order[j] = i ELSE 0]
    /\ warm = {e.client : e \in {x \in entries : x.key \in up}}
    /\ created = Cardinality(connected)
    /\ cache = <<>>
    /\ holder = None
    /\ known = Registered
    /\ vouched = up
    /\ request = [r \in Requests |-> Free]
    /\ run = [u \in ChatRuns |-> NewRun]

-----------------------------------------------------------------------------
(* The integration routes.  is_enabled is left out: after startup nothing  *)
(* reads it.  So are new names for an integration.                         *)

\* A new integration has no credentials yet: it is not connected.
Create(i) ==
  /\ integration[i] = "absent"
  /\ integration' = [integration EXCEPT ![i] = "present"]
  /\ UNCHANGED <<servers, discovery, health, request, run>>

Enable(r, i) ==
  /\ request[r].at = "idle" /\ Exists(i)
  /\ request' = [request EXCEPT ![r] = [at |-> "connecting", of |-> i, client |-> 0]]
  /\ UNCHANGED <<integration, servers, discovery, health, run>>

ConnectFails(r) ==
  /\ request[r].at = "connecting"
  /\ request' = [request EXCEPT ![r] = Free]
  /\ UNCHANGED <<integration, servers, discovery, health, run>>

\* Mutant: the first client of a name stays.
KeepsFirst(key, c) == entries

\* A name that is in the dict keeps its place and gets the client.
Replaced(key, c) == {IF e.key = key THEN [e EXCEPT !.client = c] ELSE e : e \in entries}

At(place, key, c) == [key |-> key, client |-> c, at |-> place]

\* In a new table the entries follow one another without holes.
Rank(e) == Cardinality({x \in entries : x.at <= e.at})
Compacted == {[e EXCEPT !.at = Rank(e)] : e \in entries}

\* clients[key] = c
Assign(key, c) ==
  \/ /\ key \in Registered
     /\ entries' = Replaced(key, c)
     /\ UNCHANGED <<fill, capacity>>
  \/ /\ key \notin Registered /\ fill < capacity
     /\ entries' = entries \cup {At(fill + 1, key, c)}
     /\ fill' = fill + 1
     /\ UNCHANGED capacity
  \/ /\ key \notin Registered /\ fill >= capacity
     /\ entries' = Compacted \cup {At(Size + 1, key, c)}
     /\ fill' = Size + 1
     /\ capacity' = Capacity[Size]

\* An iterator keeps its place in the table.  What a new table has moved up to
\* there, or takes in before it, the iterator misses.
Overtaken(place) ==
  {e.key : e \in {n \in entries' : n.at <= place /\ \A x \in entries : x.key = n.key => x.at > place}}

Iterating ==
  run' = [u \in ChatRuns |->
    IF run[u].at = "building"
    THEN [run[u] EXCEPT !.catalog.missed = @ \cup Overtaken(run[u].place)] ELSE run[u]]

\* Slip: the discovery cache is left to its TTL.
KeepsCache == cache

\* The discovery cache is dropped so that the next run sees the new client.
AfterRegister == <<>>

\* The client is up; only a JSON-RPC client has listed its tools by now.
\* That its health check failed does not matter.
Register(r) ==
  /\ request[r].at = "connecting" /\ created < MaxClients
  /\ created' = created + 1
  /\ LET c == created' + 1 IN
     /\ tracked' = [tracked EXCEPT ![request[r].of] = c]
     /\ Assign(request[r].of, c) /\ Iterating
     /\ LET kept == warm \ ClientOf(request[r].of) IN warm' \in {kept, kept \cup {c}}
  /\ cache' = AfterRegister
  /\ request' = [request EXCEPT ![r] = Free]
  /\ UNCHANGED <<integration, holder, health>>

\* disconnect_integration takes the tracked client before it closes it;
\* without one there is nothing to close.
Closing(r, i, op) ==
  IF tracked[i] = 0 THEN Free
  ELSE [at |-> op, of |-> i, client |-> tracked[i]]

Disable(r, i) ==
  /\ request[r].at = "idle" /\ Exists(i)
  /\ request' = [request EXCEPT ![r] = Closing(r, i, "disabling")]
  /\ UNCHANGED <<integration, servers, discovery, health, run>>

Delete(r, i) ==
  /\ request[r].at = "idle" /\ Exists(i)
  /\ request' = [request EXCEPT ![r] = Closing(r, i, "deleting")]
  /\ integration' = IF tracked[i] = 0
                    THEN [integration EXCEPT ![i] = "deleted"] ELSE integration
  /\ UNCHANGED <<servers, discovery, health, run>>

\* The entry with this client is deleted; its place stays used.
Without(c) == {e \in entries : e.client # c}

\* The client is closed.  When another request untracked the integration
\* meanwhile, the KeyError leaves the registry as it is.
Disconnected(r) ==
  /\ request[r].at \in {"disabling", "deleting"}
  /\ LET i == request[r].of IN
     /\ IF tracked[i] = 0
        THEN UNCHANGED <<tracked, entries, warm>>
        ELSE /\ tracked' = [tracked EXCEPT ![i] = 0]
             /\ entries' = Without(request[r].client)
             /\ warm' = warm \ {request[r].client}
     /\ integration' = IF request[r].at = "deleting"
                       THEN [integration EXCEPT ![i] = "deleted"] ELSE integration
  /\ request' = [request EXCEPT ![r] = Free]
  /\ UNCHANGED <<fill, capacity, created, discovery, health, run>>

-----------------------------------------------------------------------------
(* A chat run.                                                             *)

\* The chat endpoint refuses while a required server is not healthy.
Refuse(u) ==
  /\ run[u].at = "idle" /\ Gateway \notin vouched
  /\ run' = [run EXCEPT ![u].at = "failed"]
  /\ UNCHANGED <<integration, servers, discovery, health, request>>

\* Servers the health checker has not seen; it registers each once.
Unseen == Registered \ known

\* Those whose client holds tools become healthy.  This is their only check.
Chat(u) ==
  /\ run[u].at = "idle" /\ Gateway \in vouched
  /\ known' = known \cup Unseen
  /\ vouched' = vouched \cup {key \in Unseen : ClientOf(key) \subseteq warm}
  /\ run' = [run EXCEPT ![u].at = "asking"]
  /\ UNCHANGED <<integration, servers, discovery, request>>

\* The servers whose live client holds tools the role may use.
Available(role, holding) ==
  {key \in Registered : ClientOf(key) \subseteq holding /\ RoleAllows(role, Exposes[key].name)}

\* The tools shown to the model: those of the catalog the policy exposes,
\* of the available servers.
Offered(u, catalog, holding) ==
  LET shown == Exposed(Caller[u].workflow, {Exposes[key] : key \in catalog.tools})
  IN  {key \in catalog.tools \cap Available(Caller[u].role, holding) : Exposes[key] \in shown}

\* The run has its copy of the catalog; it never reads the servers in it.
Given(u, catalog, holding) ==
  [NewRun EXCEPT !.at = "ready", !.catalog.tools = catalog.tools,
                 !.offered = Offered(u, catalog, holding)]

\* A valid cache is copied without the lock, or once the lock is obtained.
Copy(u) ==
  /\ run[u].at = "asking" \/ (run[u].at = "waiting" /\ holder = None)
  /\ cache # <<>>
  /\ run' = [run EXCEPT ![u] = Given(u, cache[1], warm)]
  /\ UNCHANGED <<integration, servers, discovery, health, request>>

Queue(u) ==
  /\ run[u].at = "asking" /\ cache = <<>>
  /\ run' = [run EXCEPT ![u].at = "waiting"]
  /\ UNCHANGED <<integration, servers, discovery, health, request>>

\* The entries a dict iterator still finds after a place, and the first.
Later(place) == {e \in entries : e.at > place}
Following(place) == CHOOSE e \in Later(place) : \A x \in Later(place) : e.at <= x.at

\* The run asks the server of the next entry.
Asks(r, place) ==
  LET next == Following(place) IN
  [r EXCEPT !.at = "building", !.place = next.at, !.key = next.key,
            !.asked = next.client, !.due = @ - 1]

Build(u) ==
  /\ run[u].at = "waiting" /\ holder = None /\ cache = <<>>
  /\ holder' = u
  /\ run' = [run EXCEPT ![u] = Asks([NewRun EXCEPT !.due = Size, !.size = Size], 0)]
  /\ UNCHANGED <<integration, servers, cache, health, request>>

\* What the iterator raises an error for: the dict has another size, or
\* still has an entry after as many as it had.
Disturbed(u) ==
  \/ Size # run[u].size
  \/ Later(run[u].place) # {} /\ run[u].due = 0

\* The catalog with the answer of the server asked last, which may have left
\* the registry.
With(u, listed) ==
  [run[u].catalog EXCEPT
     !.servers = @ \cup {run[u].key},
     !.tools = IF listed THEN @ \cup {run[u].key} ELSE @]

\* Whether the server asked lists its tools.
Listings(u) ==
  IF run[u].at = "building" /\ run[u].key \in Reliable THEN {TRUE} ELSE BOOLEAN

\* A listing is kept by the client that was asked, of interest while the
\* client is in the registry.
Warmed(u, listed) ==
  IF listed THEN warm \cup ({run[u].asked} \cap InUse) ELSE warm

Discover(u, listed) ==
  /\ run[u].at = "building" /\ ~Disturbed(u) /\ Later(run[u].place) # {}
  /\ warm' = Warmed(u, listed)
  /\ run' = [run EXCEPT ![u] =
       Asks([@ EXCEPT !.catalog = With(u, listed)], run[u].place)]
  /\ UNCHANGED <<integration, table, tracked, created, discovery, health, request>>

\* The last server answered: the catalog becomes the cache.
Finish(u, listed) ==
  /\ run[u].at = "building" /\ ~Disturbed(u) /\ Later(run[u].place) = {}
  /\ warm' = Warmed(u, listed)
  /\ cache' = <<With(u, listed)>>
  /\ holder' = None
  /\ run' = [run EXCEPT ![u] = Given(u, With(u, listed), warm')]
  /\ UNCHANGED <<integration, table, tracked, created, health, request>>

\* Iterating over a dict that changed raises, which releases the lock and
\* ends the run.
KeepsLock == holder  \* slip: the error skips the release
LockAfterError == None

Break(u, listed) ==
  /\ run[u].at = "building" /\ Disturbed(u)
  /\ warm' = Warmed(u, listed)
  /\ holder' = LockAfterError
  /\ run' = [run EXCEPT ![u] = [NewRun EXCEPT !.at = "failed"]]
  /\ UNCHANGED <<integration, table, tracked, created, cache, health, request>>

\* The run is cancelled while it waits.
Cancel(u) ==
  /\ run[u].at \in {"waiting", "building"}
  /\ holder' = IF holder = u THEN None ELSE holder
  /\ run' = [run EXCEPT ![u] = [NewRun EXCEPT !.at = "failed"]]
  /\ UNCHANGED <<integration, servers, cache, health, request>>

\* The cache outlives its TTL.
Expire ==
  /\ cache # <<>>
  /\ cache' = <<>>
  /\ UNCHANGED <<integration, servers, holder, health, request, run>>

-----------------------------------------------------------------------------
(* One tool call of a run, its last step here.  The tool may be any the    *)
(* model names.                                                            *)

Answered(u, how) ==
  /\ run' = [run EXCEPT ![u] = [NewRun EXCEPT !.at = how]]
  /\ UNCHANGED <<integration, servers, discovery, health, request>>

\* The health gate: a read tool is skipped, a write tool ends the run.
Gated(u, key) == run[u].at = "ready" /\ key \notin vouched /\ Answered(u, "refused")

\* The run's own catalog outlived its TTL.
Stale(u, key) == run[u].at = "ready" /\ key \in vouched /\ Answered(u, "refused")

\* The catalog decides whether there is such a tool, the role whether it may
\* be used; the policy is not asked again.
Found(u, key) ==
  key \in run[u].catalog.tools /\ RoleAllows(Caller[u].role, Exposes[key].name)

\* execute_tool_with_catalog; the server may have left the registry.
Execute(u, key) ==
  /\ run[u].at = "ready" /\ key \in vouched
  /\ Answered(u, IF Found(u, key) /\ key \in Registered THEN "called" ELSE "refused")

-----------------------------------------------------------------------------
Routes ==
  \/ \E i \in Integrations : Create(i)
  \/ \E r \in Requests :
       \/ \E i \in Integrations :
            \/ <<"enable", i>> \in Sends[r] /\ created < MaxClients /\ Enable(r, i)
            \/ <<"disable", i>> \in Sends[r] /\ Disable(r, i)
            \/ <<"delete", i>> \in Sends[r] /\ Delete(r, i)
       \/ ConnectFails(r) \/ Register(r) \/ Disconnected(r)

\* What a run does to get its catalog.
Obtain(u) ==
  \/ Copy(u) \/ Queue(u) \/ Build(u)
  \/ \E listed \in Listings(u) : Discover(u, listed) \/ Finish(u, listed) \/ Break(u, listed)

Chats ==
  \E u \in ChatRuns :
    \/ Refuse(u) \/ Chat(u) \/ Obtain(u) \/ Cancel(u)
    \/ \E key \in Keys : Gated(u, key) \/ Stale(u, key) \/ Execute(u, key)

DirectoryNext == Routes \/ Chats \/ Expire

\* A server that does not answer is given up at the client's timeout, and the
\* event loop resumes what is ready: a run is not left waiting.
DirectorySpec == DirectoryInit /\ [][DirectoryNext]_directoryVars /\ \A u \in ChatRuns : WF_directoryVars(Obtain(u))

-----------------------------------------------------------------------------
(* Properties.                                                             *)

\* The state has the shape of the code's: a client is in the registry under
\* one name, and a tracked client is one that was created.
DirectoryTypeOK ==
  /\ integration \in [Integrations -> {"absent", "present", "deleted"}]
  /\ entries \subseteq DictEntry /\ fill \in Nat /\ capacity \in Nat
  /\ created \in 0 .. MaxClients
  /\ tracked \in [Integrations -> Clients \cup {0}] /\ warm \subseteq Clients
  /\ cache \in Seq(Catalog) /\ Len(cache) <= 1 /\ holder \in ChatRuns \cup {None}
  /\ known \subseteq Keys /\ vouched \subseteq known
  /\ request \in [Requests -> Request] /\ run \in [ChatRuns -> Run]
  /\ \A e, x \in entries : e # x => e.key # x.key /\ e.client # x.client /\ e.at # x.at
  /\ \A u \in ChatRuns : run[u].at = "building" <=> holder = u

\* A run started from the cache finds every server registered by now: the
\* cache is dropped when a client is registered, and a run that was building
\* a catalog then does not cache one without it.  The exception is a server
\* whose entry got behind the iteration since the dict's table was replaced.
CatalogCoversClients ==
  cache # <<>> => Registered \subseteq cache[1].servers \cup cache[1].missed

\* What the status route reports as connected, runs can reach: a tracked
\* client is in the registry, whatever requests connected and disconnected
\* the integration at once.
ConnectedIsReachable ==
  \A i \in Integrations : tracked[i] # 0 => tracked[i] \in InUse

\* The registry, its names and what the status route says of it agree.
DirectorySound == DirectoryTypeOK /\ ConnectedIsReachable

\* The two statements of the exposure policy agree: a tool that the filters
\* leave in a run's catalog is one the policy allows when asked about it alone.
OfferedIsAllowed ==
  \A u \in ChatRuns : \A key \in run[u].offered :
    PolicyAllows(Caller[u].workflow, Exposes[key])

\* A run that asks for a catalog gets one or fails: nobody keeps the lock.
RunsGetCatalog ==
  \A u \in ChatRuns : run[u].at = "asking" ~> run[u].at \notin {"asking", "waiting", "building"}

\* A tool shown to the model passes the health gate: a tenant's server is
\* registered as healthy with its tools before the run.
OfferedPassesGate ==
  \A u \in ChatRuns : run[u].at = "ready" => run[u].offered \subseteq vouched

\* The manager drops the cache "so the next agent run rebuilds the catalog
\* including this new client" (tenant_mcp_manager.py:247).  A run that is
\* building a catalog may cache one without it: a removal and an insertion
\* leave the dict's size as it was, so nothing is raised when the insertion
\* replaces the table and entries get behind the iteration.
NextRunSeesClients == cache # <<>> => Registered \subseteq cache[1].servers
=============================================================================
