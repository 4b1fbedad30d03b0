---------------------------- MODULE MCPodRestart ----------------------------
(* A switch s between a host a and a guest g: a veth to the one, a tunnel to *)
(* the other, and a host uplink.                                            *)
EXTENDS PodRestart, TLC

CONSTANTS a, s, g, as, sg, up

MCPods  == {a, s, g}
MCRank  == (a :> 1) @@ (g :> 2) @@ (s :> 3)
MCType  == (a :> "host") @@ (s :> "switch") @@ (g :> "router")
MCEnds  == (as :> {a, s}) @@ (sg :> {s, g}) @@ (up :> {s})
MCOps   == (a :> {as}) @@ (s :> {as, sg, up}) @@ (g :> {sg})
MCBroken == {<<s, as>>, <<g, sg>>}
MCEdges == {a, g}
MCAll   == MCPods
=============================================================================
