---------------------------- MODULE MCToolRuns ----------------------------
(* Small instances of ToolRuns: traces over topologies where two pods are  *)
(* joined by ways of different length, by one way, and by none; two tests  *)
(* toward one pod, whose managed ports may or may not be the same; two     *)
(* captures.                                                               *)
EXTENDS ToolRuns

CONSTANTS a, b, c1, d, e, r1, r2

Ask(k, s, t) == [kind |-> k, src |-> s, dest |-> t, rest |-> FALSE]
AskReport(k, s, t) == [kind |-> k, src |-> s, dest |-> t, rest |-> TRUE]

MCTopologies == {<<>>, << <<a, b>>, <<b, c1>> >>,
                 << <<a, b>>, <<a, c1>>, <<e, b>>, <<c1, d>>, <<d, e>> >>}

Both(x, y) == [r \in {r1, r2} |-> IF r = r1 THEN x ELSE y]

MCScenarios ==
  {[topology |-> T, asks |-> Both(Ask("trace", a, t), Ask("none", a, b))] :
      T \in MCTopologies, t \in {e, Outside}}
  \cup {[topology |-> <<>>, asks |-> Both(AskReport("trace", a, e), Ask("none", a, b))]}
  \cup {[topology |-> <<>>, asks |-> Both(Ask("iperf", a, b), x)] :
          x \in {Ask("iperf", a, b), AskReport("iperf", c1, b), Ask("iperf", a, Outside),
                 AskReport("iperf", a, a)}}
  \cup {[topology |-> <<>>, asks |-> Both(Ask("capture", a, b), Ask("capture", a, b))]}

=============================================================================
