--------------------------- MODULE NamespacePods ---------------------------
(***************************************************************************)
(* What the tools that run in pods have in common: tc and its toolbox       *)
(* (LinkShaping); traces, throughput tests and captures (ToolRuns).         *)
(***************************************************************************)
CONSTANTS
  Pods,    \* the pods of the namespace; a pod stands for its address too
  None,    \* no pod, no line of a program, no shaping, no record, no holder
  Faults   \* what may fail: for LinkShaping of {"tc", "pull", "look"}, a
           \* line, a toolbox or a look for one; for ToolRuns of {"exec", "slow", "kill"}

=============================================================================
