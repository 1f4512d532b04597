------------------------------ MODULE McpManager ------------------------------
(***************************************************************************)
(* The manager of the MCP servers (internal/mcp/manager.go): it connects   *)
(* to all configured servers at once, gives every tool a qualified name,   *)
(* tells the permission gate which tools only read, and routes the calls.  *)
(*                                                                         *)
(* A name is a sequence of the parts that "__" separates, so that the      *)
(* qualified name of tool t of server s is s \o t.                         *)
(***************************************************************************)
EXTENDS Integers, Sequences, FiniteSets, SequencesExt

CONSTANTS
  ConfigLists,  \* lists of configured servers that are tried: each a sequence of
                \* [name, readOnly, tools]; a tool is [name, hint]
  Native,       \* names of the built-in tools
  Redundant,    \* redundantServers: left out when the context is small
  NoClient

\* A server with no client has none of the numbers.
ASSUME ManagerAssumption ==
  /\ \A list \in ConfigLists :
       list \in Seq([name : Seq(STRING), readOnly : BOOLEAN,
                     tools : Seq([name : Seq(STRING), hint : BOOLEAN])])
  /\ NoClient \notin Nat

VARIABLES
  configs,    \* the list this manager was started with
  results,    \* per server: "waiting", "failed" or "connected"
  clients,    \* server name -> index of the configuration it is connected to
  toolMap,    \* qualified name -> server name
  trust,      \* server name -> trusted as read-only
  mphase,     \* "new", "connecting", "started", "closed"
  shown,      \* definitions in the last request: [name, client, at], the tool
              \* being the client's at that place of its list
  routed      \* the last call: [name, client, tool, quiet], or NoClient

managerVars == <<configs, results, clients, toolMap, trust, mphase, shown, routed>>

Configured == {configs[i].name : i \in 1..Len(configs)}
Tools(i) == configs[i].tools
Qualified(server, tool) == server \o tool.name
IsMCPTool(q) == q \in DOMAIN toolMap
ServerNames == {s \in Configured : clients[s] # NoClient}

ManagerInit ==
  /\ configs = <<>> /\ results = <<>> /\ clients = <<>> /\ toolMap = <<>> /\ trust = <<>>
  /\ mphase = "new" /\ shown = {} /\ routed = NoClient

\* Start: the trust of a name is that of the last configuration that has it.
Start ==
  /\ mphase = "new" /\ mphase' = "connecting"
  /\ configs' \in ConfigLists
  /\ results' = [i \in 1..Len(configs') |-> "waiting"]
  /\ LET names == {configs'[i].name : i \in 1..Len(configs')}
         last(s) == CHOOSE i \in 1..Len(configs') :
                      /\ configs'[i].name = s
                      /\ \A j \in (i + 1)..Len(configs') : configs'[j].name # s
     IN /\ trust' = [s \in names |-> configs'[last(s)].readOnly]
        /\ clients' = [s \in names |-> NoClient]
  /\ UNCHANGED <<toolMap, shown, routed>>

\* One goroutine per server, in any order: NewClient connects or fails.
Connect(i) ==
  /\ mphase = "connecting" /\ results[i] = "waiting"
  /\ \E r \in {"failed", "connected"} : results' = [results EXCEPT ![i] = r]
  /\ UNCHANGED <<configs, clients, toolMap, trust, mphase, shown, routed>>

\* After wg.Wait, in the order of the configurations: the last one of a name
\* takes the table entry, and the last server of a qualified name takes its route.
Register ==
  /\ mphase = "connecting" /\ \A i \in 1..Len(configs) : results[i] # "waiting"
  /\ LET ok(s) == {i \in 1..Len(configs) : configs[i].name = s /\ results[i] = "connected"}
         names(i) == IF results[i] = "connected"
                     THEN {Qualified(configs[i].name, t) : t \in ToSet(Tools(i))} ELSE {}
         owners(q) == {i \in 1..Len(configs) : q \in names(i)}
         latest(S) == CHOOSE i \in S : \A j \in S : j <= i
     IN /\ clients' = [s \in Configured |-> IF ok(s) = {} THEN NoClient ELSE latest(ok(s))]
        /\ toolMap' = [q \in UNION {names(i) : i \in 1..Len(configs)} |->
                         configs[latest(owners(q))].name]
  /\ mphase' = "started"
  /\ UNCHANGED <<configs, results, trust, shown, routed>>

\* CompactToolDefinitions, of every connected server the tools that have no
\* built-in name; for ToolDefinitions nothing is left out.
Definition(s, k) == [name |-> Qualified(s, Tools(clients[s])[k]), client |-> clients[s], at |-> k]
Offered(s) == {k \in DOMAIN Tools(clients[s]) : Tools(clients[s])[k].name \notin Native}
Compact(large) ==
  UNION {{Definition(s, k) : k \in Offered(s)} : s \in {s \in ServerNames : large \/ s \notin Redundant}}
CompactToolDefinitions ==
  /\ mphase = "started"
  /\ \E large \in BOOLEAN : shown' = Compact(large)
  /\ UNCHANGED <<configs, results, clients, toolMap, trust, mphase, routed>>

\* IsReadOnlyTool: by the trust of its server or the hint of the first tool, and
\* never for a name that is not registered.
IsReadOnlyTool(q) ==
  /\ IsMCPTool(q)
  /\ LET s == toolMap[q] IN
     \/ trust[s]
     \/ /\ clients[s] # NoClient
        /\ \E k \in DOMAIN Tools(clients[s]) :
             /\ Qualified(s, Tools(clients[s])[k]) = q /\ Tools(clients[s])[k].hint
             /\ \A j \in 1..(k - 1) : Qualified(s, Tools(clients[s])[j]) # q

\* The name is cut at its last separator, which may be one of the tool's own.
Execute_LastPart(q) ==
  /\ mphase = "started" /\ IsMCPTool(q) /\ clients[toolMap[q]] # NoClient
  /\ routed' = [name |-> q, client |-> clients[toolMap[q]], tool |-> <<q[Len(q)]>>, quiet |-> IsReadOnlyTool(q)]
  /\ UNCHANGED <<configs, results, clients, toolMap, trust, mphase, shown>>

\* Execute: the server's own name for the tool is what follows the prefix.
Execute(q) ==
  /\ mphase = "started" /\ IsMCPTool(q) /\ clients[toolMap[q]] # NoClient
  /\ routed' = [name |-> q, client |-> clients[toolMap[q]],
                tool |-> SubSeq(q, Len(toolMap[q]) + 1, Len(q)), quiet |-> IsReadOnlyTool(q)]
  /\ UNCHANGED <<configs, results, clients, toolMap, trust, mphase, shown>>

\* Close, which only a headless run defers.
CloseManager ==
  /\ mphase = "started" /\ mphase' = "closed"
  /\ UNCHANGED <<configs, results, clients, toolMap, trust, shown, routed>>

ManagerNext ==
  \/ Start \/ Register \/ CompactToolDefinitions \/ CloseManager
  \/ \E i \in 1..Len(results) : Connect(i)
  \/ \E q \in DOMAIN toolMap : Execute(q)

-----------------------------------------------------------------------------
\* Two configurations of one name, or two servers whose names and tools meet in
\* one qualified name, are known to overwrite each other; so are two tools of one.
Distinct ==
  \A i, j \in 1..Len(configs) :
    /\ configs[i].name = configs[j].name => i = j
    /\ \A k \in DOMAIN Tools(i), l \in DOMAIN Tools(j) :
         Qualified(configs[i].name, Tools(i)[k]) = Qualified(configs[j].name, Tools(j)[l]) => i = j /\ k = l

\* A call reaches a tool its server has, under the name the model was shown for
\* that tool, also when servers failed or connected in another order; it goes
\* unasked only when that server is trusted or that tool says that it only
\* reads; and no connected server is without a route.
RouteIsOwn ==
  Distinct =>
    /\ routed # NoClient =>
         /\ \E t \in ToSet(Tools(routed.client)) :
              t.name = routed.tool /\ (routed.quiet => configs[routed.client].readOnly \/ t.hint)
         /\ \A d \in shown : d.name = routed.name =>
              d.client = routed.client /\ Tools(d.client)[d.at].name = routed.tool
    /\ \A d, e \in shown : d.name = e.name => d = e
    /\ \A d \in shown : IsMCPTool(d.name)
    /\ mphase = "started" => \A i \in 1..Len(configs) :
         (results[i] = "connected") = (configs[i].name \in ServerNames)
=============================================================================
