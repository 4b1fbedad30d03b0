------------------------------ MODULE MCModify ------------------------------
(* Instances of TopologyModify: a router r under QEMU, a host h of two        *)
(* replicas that may lose one, and a switch s that comes, goes and scales.   *)
EXTENDS TopologyModify, TLC

MCNodes == {"r", "h", "s"}
R    == <<"r", 0>>
H(i) == <<"h", i>>
S(i) == <<"s", i>>
\* rh, rs and hs join pods that run or come back, rh1, rs1 and hh a replica; h1s and s1h
\* are of a replica and the switch; dup claims the interface of r that rh has.
MCEnds == [rh  |-> {<<R, 1>>, <<H(0), 1>>},
           rs  |-> {<<R, 2>>, <<S(0), 1>>},
           hs  |-> {<<H(0), 2>>, <<S(0), 2>>},
           rh1 |-> {<<R, 3>>, <<H(1), 1>>},
           rs1 |-> {<<R, 4>>, <<S(1), 1>>},
           hh  |-> {<<H(0), 3>>, <<H(1), 4>>},
           h1s |-> {<<H(1), 2>>, <<S(0), 3>>},
           s1h |-> {<<S(1), 2>>, <<H(1), 3>>},
           dup |-> {<<R, 1>>, <<S(1), 3>>}]
MCLinks == {"rh", "rs", "hs", "rh1", "rs1", "hh", "h1s", "s1h"}
MCFile == [r |-> "f", h |-> "g", s |-> "f"]
MCStart == [replicas |-> [r |-> 1, h |-> 2, s |-> 1], links |-> {"rh", "rs", "rh1"}]

Ask(delete, delLinks, scale, add, addLinks) ==
  [delete |-> delete, delLinks |-> delLinks, scale |-> scale, add |-> add, links |-> addLinks,
   attr |-> addLinks]
MCRequests ==
  {Ask({}, {}, <<>>, {}, {"hs"}),                       \* a link between running pods
   Ask({}, {"rh"}, <<>>, {}, {}),                       \* a link goes
   Ask({"s"}, {}, <<>>, {}, {}),                        \* a node goes
   Ask({"s"}, {}, <<>>, {"s"}, {"rs", "hs"}),           \* a node is replaced
   Ask({}, {}, "h" :> 1, {}, {}),                       \* a replica goes
   Ask({"s"}, {}, "h" :> 1, {}, {}),                    \* a replica and a node go
   Ask({}, {}, "h" :> 2, {}, {"rh1", "hh"}),            \* it comes again
   Ask({}, {"rs"}, "h" :> 2, {}, {"rh1", "hs"}),        \* it comes again, with more sections
   Ask({}, {}, "h" :> 2, {"s"}, {"rh1", "rs"}),         \* a replica and a node come again
   Ask({}, {}, "s" :> 2, {}, {"rs1"})}                  \* another one comes
ScaleLinks == MCLinks \cup {"dup"}
ScaleRequests == {Ask({}, {}, "s" :> 2, {}, {"dup"})}
\* A replica's link to a pod that went, and one to a node the request adds.
AbsentRequests == {Ask({}, {}, "h" :> 1, {}, {}), Ask({}, {}, "s" :> 2, {}, {"s1h"})}
NewPeerRequests == {Ask({"s"}, {}, "h" :> 1, {}, {}), Ask({}, {}, "h" :> 2, {"s"}, {"h1s"})}
=============================================================================
