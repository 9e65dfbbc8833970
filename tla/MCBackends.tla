----------------------------- MODULE MCBackends -----------------------------
(* Instances of Backends for TLC: two servers, one of each transport or     *)
(* both HTTP, with every pair of routes over patterns that overlap.         *)
EXTENDS Backends

Pattern(text, stars) == [text |-> text, stars |-> stars]
Route(p, server)     == [pattern |-> p, server |-> server]
Def(name, transport) == [name |-> name, transport |-> transport]

F == <<"f">>  FS == <<"f", "s">>

Patterns == {Blank, Pattern(<<>>, 1), Pattern(F, 1), Pattern(F, 2), Pattern(FS, 1), Pattern(FS, 0)}

Pairs == {q \in Patterns \X Patterns : q[1] # q[2]}

Config(defs, routes) == [defs |-> defs, routes |-> routes, allowed |-> {Pattern(F, 1), Blank}]

TwoServers == {<<Def("a", "stdio"), Def("b", "http")>>, <<Def("a", "http"), Def("b", "http")>>}

(* Each of the routes to a server of its own. *)
Overlapping ==
  {Config(d, <<Route(q[1], "a"), Route(q[2], "b")>>) : d \in TwoServers, q \in Pairs}

(* No backend, one, a route to nowhere, half a configuration, a name twice, *)
(* the empty name.                                                          *)
Simple ==
  LET a == <<Def("a", "stdio")>>  toA == <<Route(Pattern(F, 1), "a")>> IN
  {Config(<<>>, <<>>), Config(a, toA), Config(a, <<>>), Config(<<>>, toA),
   Config(a, <<Route(Pattern(F, 1), "d")>>),
   Config(<<Def("b", "http")>>, <<Route(Pattern(F, 1), "d")>>),
   Config(<<Def("a", "stdio"), Def("a", "http")>>, toA),
   Config(<<Def("", "http")>>, <<Route(Pattern(F, 1), "")>>)}

MCConfigs == Overlapping \cup Simple
MCTools   == {<<>>, F, FS, <<"x">>}
=============================================================================
