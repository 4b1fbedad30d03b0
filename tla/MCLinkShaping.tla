--------------------------- MODULE MCLinkShaping ---------------------------
(* A link between a pod with tc and one without, and an uplink of the first. *)
EXTENDS LinkShaping, TLC

CONSTANTS a, b, ab, up, voice, bulk

MCJoins  == (ab :> <<a, b>>) @@ (up :> <<a>>)
MCImages == (a :> {TRUE}) @@ (b :> BOOLEAN)
MCToolPod == [t \in Tools |-> b]

Flat(q, given, pos) == [qdisc |-> q, given |-> given, pos |-> pos, link |-> 0, classes |-> <<>>]
Tree(rate, classes) ==
  [qdisc |-> "htb", given |-> {"rate"}, pos |-> {"rate"}, link |-> rate, classes |-> classes]
MCClass(rate, ceil, default, match, queue, shaping) ==
  [rate |-> rate, ceil |-> ceil, default |-> default, match |-> match,
   queue |-> queue, shaping |-> shaping]

\* Choices of delay, jitter and reorder above zero, the others absent, and all
\* three zero.
Probed == {"delay", "jitter", "reorder"}
Netems == {Flat("netem", pos, pos) : pos \in SUBSET Probed \ {{}, {"delay", "reorder"}}}
          \cup {Flat("netem", Probed, {})}
Odd == {Flat("netem", {"delay", "burst"}, {"delay", "burst"}),
        Flat("netem", {"gemodel", "loss"}, {"gemodel", "loss"}),
        Flat("netem", {"distribution", "delay", "jitter"}, {"delay", "jitter"}),
        Flat("tbf", {"rate"}, {"rate"}), Flat("tbf", {"rate", "loss"}, {"rate"})}
Slow == Flat("netem", {"delay"}, {"delay"})
Shaky == Flat("netem", {"distribution", "delay", "jitter"}, {"delay", "jitter"})
Trees == {Tree(4, <<MCClass(2, 0, FALSE, <<{voice}>>, "", Shaky), MCClass(2, 3, TRUE, <<>>, "sfq", None)>>),
          Tree(4, <<MCClass(1, 0, FALSE, <<{voice}>>, "", None),
                    MCClass(1, 0, FALSE, <<{voice, bulk}>>, "pfifo", None),
                    MCClass(1, 0, TRUE, <<>>, "", None)>>),
          Tree(4, <<MCClass(3, 0, FALSE, <<{voice}>>, "", None), MCClass(2, 0, TRUE, <<>>, "", None)>>),
          Tree(4, <<MCClass(1, 0, FALSE, <<{voice}>>, "", None)>>)}
MCEntries == Netems \cup Odd \cup Trees
MCNamed == {<<ab, 1>>, <<up, 1>>}
MCReverses == {Slow}
=============================================================================
