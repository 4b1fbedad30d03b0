----------------------------- MODULE MCLinkMTU -----------------------------
(* A veth link between two pods on a worker whose tunnels carry less than the *)
(* platform's MTU, and a VXLAN link to a guest on another.                   *)
EXTENDS LinkMTU, TLC

CONSTANTS a, b, g, ab, bg, w1, w2

MCJoins  == (ab :> <<a, b>>) @@ (bg :> <<b, g>>)
MCWorker == (a :> w2) @@ (b :> w2) @@ (g :> w1)
MCCap    == (w1 :> 1500) @@ (w2 :> 1400)
MCGiven  == {{}, {[end |-> <<bg, 1>>, mtu |-> 1300]}}
MCNamed  == {<<bg, 2>>}
Symmetry == Permutations(Procs)
MCExtra  == {<<ab, 2>>, <<bg, 2>>}
=============================================================================
