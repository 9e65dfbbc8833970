------------------------------ MODULE Routing ------------------------------
(***************************************************************************)
(* From a tool name to a server: the allowlist (mcp-proxy/allowlist.ts),   *)
(* the routes (mcp-proxy/server.ts) and the check of both tables at the    *)
(* start (server-config.ts).                                               *)
(*                                                                         *)
(* A tool name is a sequence of characters, a pattern the text before its  *)
(* trailing stars and their number, a route a pattern with the name of a   *)
(* server.  Routes come in the order of Object.entries.                    *)
(***************************************************************************)
EXTENDS Naturals, SequencesExt

Blank    == [text |-> <<>>, stars |-> 0]
NoServer == ""  \* undefined: `if (!serverName)` takes the empty name for it too

matchesPattern(tool, p) ==
  \/ p.stars = 0 /\ p # Blank /\ tool = p.text
  \/ p.stars = 1 /\ p.text = <<>>
  \/ p.stars > 0 /\ p.text # <<>> /\ IsPrefix(p.text, tool)

checkAllowlist(tool, patterns) ==
  tool # <<>> /\ \E p \in patterns : matchesPattern(tool, p)
-----------------------------------------------------------------------------
PatternLength(p) == Len(p.text) + p.stars

(* Mutant: longer patterns first, exact ones among them. *)
PrecedesByLength(routes, i, j) ==
  LET p == routes[i].pattern  q == routes[j].pattern IN
  PatternLength(p) > PatternLength(q) \/ (PatternLength(p) = PatternLength(q) /\ i < j)

(* Exact patterns first, then the longer pattern; Array.sort is stable. *)
Precedes(routes, i, j) ==
  LET p == routes[i].pattern  q == routes[j].pattern IN
  \/ p.stars = 0 /\ q.stars > 0
  \/ /\ (p.stars = 0) = (q.stars = 0)
     /\ \/ PatternLength(p) > PatternLength(q)
        \/ PatternLength(p) = PatternLength(q) /\ i < j

(* The routes by their rank, the number of those that come before. *)
Rank(routes, i) == Cardinality({j \in DOMAIN routes : Precedes(routes, j, i)})

sortRoutes(routes) ==
  [k \in DOMAIN routes |-> routes[CHOOSE i \in DOMAIN routes : Rank(routes, i) = k - 1]]

resolveRoute(tool, sorted) ==
  LET i == SelectInSeq(sorted, LAMBDA r : matchesPattern(tool, r.pattern)) IN
  IF i = 0 THEN NoServer ELSE sorted[i].server
-----------------------------------------------------------------------------
Names(defs) == {defs[i].name : i \in DOMAIN defs}

(* Mutant: a route may name any server. *)
AcceptsDangling(defs, routes) ==
  /\ (defs = <<>>) = (routes = <<>>)
  /\ \A i, j \in DOMAIN defs : defs[i].name = defs[j].name => i = j

(* Servers and routes come together, names are unique, and no route names a *)
(* server that is not there.  What createHttpBridge and                     *)
(* createCompositeTransport throw for is thereby ruled out.                 *)
validateServerConfig(defs, routes) ==
  /\ (defs = <<>>) = (routes = <<>>)
  /\ \A i, j \in DOMAIN defs : defs[i].name = defs[j].name => i = j
  /\ \A k \in DOMAIN routes : routes[k].server \in Names(defs)

Owned(defs, transport) == {defs[i].name : i \in {j \in DOMAIN defs : defs[j].transport = transport}}
=============================================================================
