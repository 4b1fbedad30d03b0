------------------------------ MODULE ToolRuns ------------------------------
(***************************************************************************)
(* The tools that run a program in a pod and stream what it prints to the  *)
(* browser: path traces (helpers/trace.go, handlers/trace.go), throughput  *)
(* tests (helpers/iperf.go, handlers/iperf.go) and packet captures         *)
(* (handlers/capture.go).  Each is a handler, a goroutine that waits for   *)
(* the client to go, a pump that reads the pipe the exec writes, and a     *)
(* program in the pod that outlives the exec or not.                       *)
(*                                                                         *)
(* Where the program runs (toolbox or guest) is settled by ToolRunner,     *)
(* modelled in LinkShaping.                                                *)
(***************************************************************************)
EXTENDS NamespacePods, Integers, Sequences, FiniteSets, SequencesExt

CONSTANTS
  Runs,         \* requests
  Routers,      \* the pods that answer probes
  Scenarios,    \* [topology, asks]: a namespace's links <<pod, pod>>, in the order of
                \* its CRDs, and what each request asks for: [kind, src, dest, rest]
  Outside,      \* an address that belongs to no pod
  Ports,        \* iperfManagedPortFrom .. iperfManagedPortTo
  MaxConsecutiveTraceTimeouts,
  MaxTTL        \* hops a probe tries before it gives up

ASSUME ToolAssumption ==
  /\ MaxTTL \in Nat /\ MaxConsecutiveTraceTimeouts \in Nat \ {0}
  /\ Routers \subseteq Pods /\ None \notin Pods \cup {Outside} /\ Outside \notin Pods
  /\ \A s \in Scenarios :
       /\ s.topology \in Seq(Pods \X Pods)
       /\ s.asks \in [Runs -> [kind : {"trace", "iperf", "capture", "none"}, src : Pods,
                               dest : Pods \cup {Outside}, rest : BOOLEAN]]
  /\ IsFiniteSet(Pods) /\ Ports \subseteq Nat \ {0}

VARIABLES
  topology,   \* the namespace's links
  run,        \* run[r]: the request's handler, pump and pipe
  procs,      \* programs that run in pods: [run, role, pod, port]
  listens     \* of these, servers that listen

vars == <<topology, run, procs, listens>>

-----------------------------------------------------------------------------
(* Pure parts of a trace.                                                  *)

\* BuildPodAdjacency: each pod's neighbours in the order of the links.
Adjacency(L) ==
  [p \in Pods |-> FlattenSeq([i \in DOMAIN L |->
     (IF L[i][1] = p THEN <<L[i][2]>> ELSE <<>>) \o (IF L[i][2] = p THEN <<L[i][1]>> ELSE <<>>)])]

\* One neighbour in the loop of BFSPath; prev has the pods that were seen.
Visit(s, cur, nb, dst) ==
  IF s.found \/ nb \in DOMAIN s.prev THEN s
  ELSE [prev  |-> [p \in DOMAIN s.prev \cup {nb} |-> IF p = nb THEN cur ELSE s.prev[p]],
        queue |-> IF nb = dst THEN s.queue ELSE Append(s.queue, nb),
        found |-> nb = dst]

\* A queue served last in, first out.
TakeLast(q) == <<Last(q), Front(q)>>

\* queue[0] and queue[1:].
Take(q) == <<Head(q), Tail(q)>>

\* One round of that loop.
Round(A, dst, s) ==
  IF s.found \/ s.queue = <<>> THEN s
  ELSE LET t == Take(s.queue)
       IN FoldLeft(LAMBDA u, nb : Visit(u, t[1], nb, dst), [s EXCEPT !.queue = t[2]], A[t[1]])

\* All of its rounds: a pod is queued at most once.
Search(A, src, dst) ==
  LET after[n \in 0 .. Cardinality(Pods)] ==
        IF n = 0 THEN [prev |-> [p \in {src} |-> None], queue |-> <<src>>, found |-> FALSE]
        ELSE Round(A, dst, after[n - 1])
  IN after[Cardinality(Pods)]

\* The way back from dst along prev, turned round.
Back(prev, dst) ==
  LET up[i \in 0 .. Cardinality(Pods)] ==
        IF i = 0 THEN dst ELSE IF up[i - 1] = None THEN None ELSE prev[up[i - 1]]
      n == Cardinality({i \in DOMAIN up : up[i] # None})
  IN [i \in 1 .. n |-> up[n - i]]

\* BFSPath: <<>> stands for nil.
BFSPath(A, src, dst) ==
  IF src = dst THEN <<src>>
  ELSE LET s == Search(A, src, dst) IN IF s.found THEN Back(s.prev, dst) ELSE <<>>

\* The paths of each topology: the links do not change during a trace.
Paths ==
  [T \in {s.topology : s \in Scenarios} |->
     LET A == Adjacency(T) IN [p \in Pods |-> [q \in Pods |-> BFSPath(A, p, q)]]]

\* AnnotateTraceHop: a hop that the index resolves gets the path from the
\* previous resolved pod, or a tunnel where no links lead there.
AnnotateTraceHop(ip, prev, resolves) ==
  IF ~ resolves \/ ip \notin Pods THEN [kind |-> "external", node |-> None, segment |-> None, path |-> <<>>]
  ELSE LET p == Paths[topology][prev][ip]
       IN [kind |-> "l3", node |-> ip, segment |-> IF p # <<>> THEN "link" ELSE "tunnel",
           path |-> IF p # <<>> THEN p ELSE <<prev, ip>>]

\* What a probe prints of one TTL: no reply, or a reply and the ICMP
\* unreachable flag.
Lines == {[ip |-> None, flag |-> FALSE]} \cup [ip : Routers \cup {Outside}, flag : BOOLEAN]

\* An empty pipe holds none of them.
ASSUME LinesAssumption == None \notin Lines

\* Timeouts are counted over the whole trace.
HandledTotal(c, line) ==
  LET t == line.ip = None
      h == IF t THEN [kind |-> "timeout", node |-> None, segment |-> None, path |-> <<>>]
           ELSE AnnotateTraceHop(line.ip, c.prev, c.resolves)
  IN [c EXCEPT !.hops = Append(@, [line |-> line, hop |-> h]),
               !.consecutive = IF t THEN @ + 1 ELSE @,
               !.prev = IF h.kind = "l3" THEN h.node ELSE @,
               !.dropped = @ \/ line.flag,
               !.reached = @ \/ (~ t /\ line.ip = c.dest)]

\* The pump of RunTrace on one line.
Handled(c, line) ==
  LET t == line.ip = None
      h == IF t THEN [kind |-> "timeout", node |-> None, segment |-> None, path |-> <<>>]
           ELSE AnnotateTraceHop(line.ip, c.prev, c.resolves)
  IN [c EXCEPT !.hops = Append(@, [line |-> line, hop |-> h]),
               !.consecutive = IF t THEN @ + 1 ELSE 0,
               !.prev = IF h.kind = "l3" THEN h.node ELSE @,
               !.dropped = @ \/ line.flag,
               !.reached = @ \/ (~ t /\ line.ip = c.dest)]

\* It calls runCancel and returns: an explicit unreachable, or a black hole.
GivesUp(c) == c.dropped \/ c.consecutive >= MaxConsecutiveTraceTimeouts

-----------------------------------------------------------------------------
(* Requests.                                                               *)

Blank == [kind |-> "none", pc |-> "idle", src |-> None, dest |-> None, port |-> 0,
          rest |-> FALSE, closed |-> FALSE, ctx |-> FALSE, stop |-> FALSE, exec |-> FALSE, pump |-> FALSE,
          pipe |-> None, prev |-> None, resolves |-> TRUE, hops |-> <<>>, consecutive |-> 0,
          dropped |-> FALSE, reached |-> FALSE, metrics |-> FALSE, listened |-> FALSE,
          result |-> "none"]

\* A run that asks for this and has not begun.
Asked(q) == [Blank EXCEPT !.kind = q.kind, !.src = q.src, !.prev = q.src, !.dest = q.dest,
                          !.rest = q.rest]

Init ==
  /\ \E s \in Scenarios : /\ topology = s.topology
                         /\ run = [r \in Runs |-> Asked(s.asks[r])]
  /\ procs = {} /\ listens = {}

At(r, k, c)  == run[r].kind = k /\ run[r].pc = c
Proc(r, role, pod) == [run |-> r, role |-> role, pod |-> pod, port |-> run[r].port]
Mine(r, role) == {p \in procs : p.run = r /\ p.role = role}
Program(r)   == CASE run[r].kind = "trace" -> "probe" [] run[r].kind = "capture" -> "tshark"
                  [] OTHER -> "client"
\* The context is there; a REST test makes it once the ends are prepared.
Watched(r)   == run[r].pc \notin {"idle", "done", "index"} \cup (IF run[r].rest THEN {"prepare"} ELSE {})
Cancelled(r) == run[r].ctx \/ run[r].stop
End(r, res)  == run' = [run EXCEPT ![r].pc = "done", ![r].result = res]

\* TraceWebSocket up to ToolRunner: a source that is not L3-capable, or has no
\* runner, is refused.
TraceWebSocket(r) ==
  /\ At(r, "trace", "idle") /\ ~ run[r].rest
  /\ \/ run' = [run EXCEPT ![r].pc = "index"]
     \/ "exec" \in Faults /\ End(r, "error")
  /\ UNCHANGED <<topology, procs, listens>>

\* TraceReport: the same run over REST.  Nobody watches its client: only the
\* deadline ends it early.
TraceReport(r) ==
  /\ At(r, "trace", "idle") /\ run[r].rest
  /\ \/ run' = [run EXCEPT ![r].pc = "index"]
     \/ "exec" \in Faults /\ End(r, "error")
  /\ UNCHANGED <<topology, procs, listens>>

\* The index is built before the probe starts; when it cannot be, the hops
\* stay unresolved.
BuildTraceIPIndex(r) ==
  /\ At(r, "trace", "index")
  /\ \E ok \in {TRUE} \cup (IF "exec" \in Faults THEN {FALSE} ELSE {}) :
     \E m \in BOOLEAN : run' = [run EXCEPT ![r].resolves = ok, ![r].metrics = m,
                                            ![r].pc = IF m THEN "mtr" ELSE "stream"]
  /\ UNCHANGED <<topology, procs, listens>>

\* ExecStreamIntoContainer of a probe or of tshark, and its pump.
StartStream(r) ==
  /\ At(r, "trace", "stream") \/ At(r, "capture", "stream")
  /\ run' = [run EXCEPT ![r].pc = "streaming", ![r].exec = TRUE, ![r].pump = TRUE]
  /\ procs' = procs \cup {Proc(r, Program(r), run[r].src)}
  /\ UNCHANGED <<topology, listens>>

\* Metrics: one report of mtr, read whole; a cancelled one does not parse.
MtrReport(r) ==
  /\ At(r, "trace", "mtr")
  /\ \/ run' = [run EXCEPT ![r].pc = "hubs"]
     \/ ("exec" \in Faults \/ run[r].ctx) /\ End(r, "error")
  /\ UNCHANGED <<topology, procs, listens>>

\* The hubs in it, one after the other.
MtrHub(r) ==
  /\ At(r, "trace", "hubs") /\ Len(run[r].hops) < MaxTTL
  /\ \E l \in {l \in Lines : ~ l.flag} : run' = [run EXCEPT ![r] = Handled(@, l)]
  /\ UNCHANGED <<topology, procs, listens>>

\* Delivered when the last hub replied.
EndMtr(r) ==
  /\ At(r, "trace", "hubs")
  /\ End(r, IF run[r].hops # <<>> /\ Last(run[r].hops).line.ip # None THEN "delivered" ELSE "unreached")
  /\ UNCHANGED <<topology, procs, listens>>

\* The probe prints a line: the exec blocks until the pump reads it.
ProbeLine(r) ==
  /\ At(r, "trace", "streaming") /\ Mine(r, "probe") # {} /\ run[r].exec
  /\ run[r].pump /\ run[r].pipe = None
  /\ Len(run[r].hops) < MaxTTL /\ ~ run[r].reached
  /\ \E l \in Lines : run' = [run EXCEPT ![r].pipe = l]
  /\ UNCHANGED <<topology, procs, listens>>

\* The pump of RunTrace takes the line and emits the hop.
PumpHop(r) ==
  /\ At(r, "trace", "streaming") /\ run[r].pump /\ run[r].pipe # None
  /\ LET c == Handled([run[r] EXCEPT !.pipe = None], run[r].pipe) IN
     run' = [run EXCEPT ![r] = IF GivesUp(c) THEN [c EXCEPT !.stop = TRUE, !.pump = FALSE] ELSE c]
  /\ UNCHANGED <<topology, procs, listens>>

\* A captured packet, on its way to the browser; a client that is gone makes
\* the write fail, which cancels the capture.
PumpPacket(r) ==
  /\ At(r, "capture", "streaming") /\ Mine(r, "tshark") # {} /\ run[r].exec /\ run[r].pump
  /\ run[r].closed
  /\ run' = [run EXCEPT ![r].ctx = TRUE, ![r].pump = FALSE]
  /\ UNCHANGED <<topology, procs, listens>>

\* The pump reads the end of a pipe that the exec closed, or, in a capture,
\* the goroutine that saw the client go.
PumpEnds(r) ==
  /\ run[r].pc = "streaming" /\ run[r].pump /\ run[r].pipe = None
  /\ ~ run[r].exec \/ (run[r].kind = "capture" /\ run[r].stop)
  /\ run' = [run EXCEPT ![r].pump = FALSE]
  /\ UNCHANGED <<topology, procs, listens>>

\* The exec ends with its program only.
ExecEndsWithProgram(r) ==
  /\ run[r].pc = "streaming" /\ run[r].exec
  /\ Mine(r, Program(r)) = {} /\ run[r].pipe = None
  /\ run' = [run EXCEPT ![r].exec = FALSE]
  /\ UNCHANGED <<topology, procs, listens>>

\* ExecStreamIntoContainer returns: the program ended, or the context did.  A
\* line nobody read yet is then lost with the pipe.
ExecReturns(r) ==
  /\ run[r].pc = "streaming" /\ run[r].exec
  /\ Cancelled(r) \/ (Mine(r, Program(r)) = {} /\ run[r].pipe = None)
  /\ run' = [run EXCEPT ![r].exec = FALSE, ![r].pipe = None]
  /\ UNCHANGED <<topology, procs, listens>>

\* The exec fails with the context live: the handler reports the error once
\* the pump is through.
ExecFails(r) ==
  /\ "exec" \in Faults
  /\ run[r].pc = "streaming" /\ run[r].exec /\ ~ Cancelled(r) /\ run[r].pipe = None
  /\ run' = [run EXCEPT ![r].exec = FALSE, ![r].result = "error"]
  /\ procs' = procs \ Mine(r, Program(r)) /\ listens' = listens \cap procs'
  /\ UNCHANGED topology

\* RunTrace after streamDone.
EndTrace(r) ==
  /\ At(r, "trace", "streaming") /\ ~ run[r].exec /\ ~ run[r].pump
  /\ End(r, IF run[r].result = "error" /\ ~ Cancelled(r) THEN "error"
            ELSE IF run[r].dropped THEN "unreachable"
            ELSE IF run[r].reached THEN "delivered" ELSE "unreached")
  /\ UNCHANGED <<topology, procs, listens>>

-----------------------------------------------------------------------------
(* Captures.                                                               *)

\* CaptureWebSocket up to the exec.
CaptureRequest(r) ==
  /\ At(r, "capture", "idle")
  /\ \/ run' = [run EXCEPT ![r].pc = "stream"]
     \/ "exec" \in Faults /\ End(r, "error")
  /\ UNCHANGED <<topology, procs, listens>>

EndCapture(r) ==
  /\ At(r, "capture", "streaming") /\ ~ run[r].exec /\ ~ run[r].pump
  /\ run' = [run EXCEPT ![r].pc = "done", ![r].ctx = TRUE]
  /\ UNCHANGED <<topology, procs, listens>>

-----------------------------------------------------------------------------
(* Throughput tests.                                                       *)

\* resolveIperfRun: a server on the source itself, or a pod that cannot be
\* read, is refused.
ResolvesIperfRun(r) == run[r].dest # run[r].src

\* IperfWebSocket up to prepareIperf: its context and the goroutine that reads
\* the socket are there while the ends are prepared.
IperfWebSocket(r) ==
  /\ At(r, "iperf", "idle") /\ ~ run[r].rest
  /\ \/ ResolvesIperfRun(r) /\ run' = [run EXCEPT ![r].pc = "prepare"]
     \/ (~ ResolvesIperfRun(r) \/ "exec" \in Faults) /\ End(r, "error")
  /\ UNCHANGED <<topology, procs, listens>>

\* IperfReport: the same test over REST, which nobody watches.
IperfReport(r) ==
  /\ At(r, "iperf", "idle") /\ run[r].rest
  /\ \/ ResolvesIperfRun(r) /\ run' = [run EXCEPT ![r].pc = "prepare"]
     \/ (~ ResolvesIperfRun(r) \/ "exec" \in Faults) /\ End(r, "error")
  /\ UNCHANGED <<topology, procs, listens>>

\* prepareIperf: a runner for each end, and PickIperfPort for a managed server;
\* a client without one goes to IperfDefaultPort.
PrepareIperf(r) ==
  /\ At(r, "iperf", "prepare")
  /\ \/ run[r].dest \in Pods /\ \E p \in Ports :
          run' = [run EXCEPT ![r].pc = "server", ![r].port = p]
     \/ run[r].dest = Outside /\ run' = [run EXCEPT ![r].pc = "client"]
     \/ "exec" \in Faults /\ End(r, "error")
  /\ UNCHANGED <<topology, procs, listens>>

\* startIperfServer execs the server and waits for its first line.
StartIperfServer(r) ==
  /\ At(r, "iperf", "server")
  /\ procs' = procs \cup {Proc(r, "server", run[r].dest)}
  /\ run' = [run EXCEPT ![r].pc = "listen"]
  /\ UNCHANGED <<topology, listens>>

\* The first of its line, its exit, the timeout and the end of the context.
SeeListening(r) ==
  /\ At(r, "iperf", "listen") /\ run[r].listened
  /\ run' = [run EXCEPT ![r].pc = "client"]
  /\ UNCHANGED <<topology, procs, listens>>

ServerExited(r) ==
  /\ At(r, "iperf", "listen") /\ Mine(r, "server") = {}
  /\ End(r, "error")
  /\ UNCHANGED <<topology, procs, listens>>

ListenEnds(r) ==
  /\ At(r, "iperf", "listen") /\ ("slow" \in Faults \/ run[r].ctx)
  /\ End(r, "error")
  /\ UNCHANGED <<topology, procs, listens>>

\* ParseIperfEvent and the pump on the client's last event: an error wins over
\* any summary, and an end without totals says nothing.
ParseIperfEvent(c, event) ==
  IF ~ (c.exec /\ c.pump) THEN c
  ELSE [c EXCEPT !.result = CASE event = "error" -> "error"
                              [] event = "end" /\ @ # "error" -> "summary"
                              [] OTHER -> @]

\* RunIperf execs the client and pumps its events.
StartIperfClient(r) ==
  /\ At(r, "iperf", "client")
  /\ procs' = procs \cup {Proc(r, "client", run[r].src)}
  /\ run' = [run EXCEPT ![r].pc = "streaming", ![r].exec = TRUE, ![r].pump = TRUE]
  /\ UNCHANGED <<topology, listens>>

\* RunIperf once the client's exec and its pump are through: a cancelled run
\* goes on to kill what iperf3 leaves behind.
EndIperf(r) ==
  /\ At(r, "iperf", "streaming") /\ ~ run[r].exec /\ ~ run[r].pump
  /\ IF run[r].ctx THEN run' = [run EXCEPT ![r].pc = "killclient"]
     ELSE End(r, IF run[r].result = "summary" THEN "summary" ELSE "error")
  /\ UNCHANGED <<topology, procs, listens>>

\* killIperf: pkill by the start of the command line, port included; its error
\* is ignored.
Matching(r, role) ==
  {p \in procs : /\ p.role = role /\ p.port = run[r].port
                 /\ p.pod = IF role = "client" THEN run[r].src ELSE run[r].dest
                 /\ role = "client" => run[p.run].dest = run[r].dest}

KillNothing(r, role) == procs

KillIperf(r, role) == procs \ Matching(r, role)

KillClient(r) ==
  /\ At(r, "iperf", "killclient")
  /\ \E ok \in IF "kill" \in Faults THEN BOOLEAN ELSE {TRUE} :
       LET res == IF ok THEN "cancelled" ELSE "unkilled" IN
       /\ procs' = IF ok THEN KillIperf(r, "client") ELSE procs
       /\ run' = [run EXCEPT ![r].pc = IF run[r].port = 0 THEN "done" ELSE "killserver",
                             ![r].result = res]
  /\ listens' = listens \cap procs'
  /\ UNCHANGED topology

KillServer(r) ==
  /\ At(r, "iperf", "killserver")
  /\ \E ok \in IF "kill" \in Faults THEN BOOLEAN ELSE {TRUE} :
       /\ procs' = IF ok THEN KillIperf(r, "server") ELSE procs
       /\ End(r, IF ok THEN run[r].result ELSE "unkilled")
  /\ listens' = listens \cap procs'
  /\ UNCHANGED topology

-----------------------------------------------------------------------------
(* The client, the clock and the pods.                                     *)

\* The browser closes the socket, or stops answering pings.
ClientGone(r) ==
  /\ run[r].pc \notin {"idle", "done"} /\ ~ run[r].closed
  /\ run' = [run EXCEPT ![r].closed = TRUE]
  /\ UNCHANGED <<topology, procs, listens>>

\* The goroutine that reads the socket cancels the context, and a capture's
\* closes the pipe.
SeeGone(r) ==
  /\ Watched(r) /\ ~ run[r].rest /\ run[r].closed
  /\ ~ (run[r].ctx /\ (run[r].kind = "capture" => run[r].stop))
  /\ run' = [run EXCEPT ![r].ctx = TRUE, ![r].stop = @ \/ run[r].kind = "capture"]
  /\ UNCHANGED <<topology, procs, listens>>

\* A capture's keepalive: a ping that cannot be written cancels it.
PingFails(r) ==
  /\ Watched(r) /\ run[r].kind = "capture" /\ run[r].closed /\ ~ run[r].ctx
  /\ run' = [run EXCEPT ![r].ctx = TRUE]
  /\ UNCHANGED <<topology, procs, listens>>

\* context.WithTimeout of a trace and of a test.
Deadline(r) ==
  /\ Watched(r) /\ run[r].kind \in {"trace", "iperf"} /\ ~ run[r].ctx
  /\ run' = [run EXCEPT ![r].ctx = TRUE]
  /\ UNCHANGED <<topology, procs, listens>>

\* A probe ends by itself after the answer it wanted or its last hop; tshark
\* ends when its interface goes.
ProgramEnds(r) ==
  /\ run[r].pc = "streaming" /\ run[r].kind \in {"trace", "capture"} /\ run[r].pipe = None
  /\ Mine(r, Program(r)) # {}
  /\ run[r].kind = "trace" => run[r].reached \/ run[r].dropped \/ Len(run[r].hops) = MaxTTL
  /\ procs' = procs \ Mine(r, Program(r))
  /\ UNCHANGED <<topology, run, listens>>

\* The kubelet kills the program of an exec that is torn down; iperf3 ignores
\* the closed stream.
Killed(r) ==
  /\ Cancelled(r) /\ ~ run[r].exec /\ run[r].kind \in {"trace", "capture"}
  /\ Mine(r, Program(r)) # {}
  /\ procs' = procs \ Mine(r, Program(r))
  /\ UNCHANGED <<topology, run, listens>>

\* A server binds its port and says so, or exits when the port is taken.
ServerBinds(p) ==
  /\ p.role = "server" /\ p \notin listens
  /\ IF \E q \in listens : q.pod = p.pod /\ q.port = p.port
     THEN procs' = procs \ {p} /\ UNCHANGED <<listens, run>>
     ELSE /\ listens' = listens \cup {p}
          /\ run' = [run EXCEPT ![p.run].listened = @ \/ run[p.run].pc = "listen"]
          /\ UNCHANGED procs
  /\ UNCHANGED topology

\* BuildIperfServerCommand: the server serves one test and exits.
ServerLeaves(q) == {q}

\* A client runs its test against whatever listens there: both end.
ClientServed(p) ==
  /\ p.role = "client"
  /\ \E q \in listens : /\ q.pod = run[p.run].dest /\ q.port = p.port
                        /\ procs' = procs \ ({p} \cup ServerLeaves(q))
                        /\ listens' = listens \ ServerLeaves(q)
  /\ run' = [run EXCEPT ![p.run] = ParseIperfEvent(@, "end")]
  /\ UNCHANGED topology

\* A client that reaches no server, or that a server of the lab serves.
ClientUnserved(p) ==
  /\ p.role = "client"
  /\ procs' = procs \ {p}
  /\ \E event \in {"error", "bare end"} \cup (IF p.port = 0 THEN {"end"} ELSE {}) :
       run' = [run EXCEPT ![p.run] = ParseIperfEvent(@, event)]
  /\ UNCHANGED <<topology, listens>>

Handler(r) ==
  \/ PrepareIperf(r) \/ BuildTraceIPIndex(r) \/ StartStream(r) \/ MtrReport(r) \/ EndMtr(r) \/ PumpHop(r) \/ PumpPacket(r)
  \/ PumpEnds(r) \/ ExecReturns(r) \/ EndTrace(r) \/ EndCapture(r) \/ StartIperfServer(r)
  \/ SeeListening(r) \/ ServerExited(r) \/ ListenEnds(r) \/ StartIperfClient(r) \/ EndIperf(r)
  \/ KillClient(r) \/ KillServer(r) \/ SeeGone(r) \/ PingFails(r) \/ Deadline(r)

Next ==
  \/ \E r \in Runs :
       \/ TraceWebSocket(r) \/ TraceReport(r) \/ CaptureRequest(r)
       \/ IperfWebSocket(r) \/ IperfReport(r) \/ Handler(r)
       \/ ProbeLine(r) \/ MtrHub(r) \/ ExecFails(r) \/ ClientGone(r) \/ ProgramEnds(r) \/ Killed(r)
  \/ \E p \in procs : ServerBinds(p) \/ ClientServed(p) \/ ClientUnserved(p)

\* Handlers and goroutines run on, contexts expire, and the kubelet kills what
\* it is asked to kill; nothing is assumed of the programs.
Spec == Init /\ [][Next]_vars /\ \A r \in Runs : WF_vars(Handler(r)) /\ WF_vars(Killed(r))

-----------------------------------------------------------------------------
(* Properties.                                                             *)

\* The pods within n links of p.
Within(p, n) ==
  LET near[k \in 0 .. n] ==
        IF k = 0 THEN {p}
        ELSE LET N == near[k - 1]
             IN N \cup {q \in Pods : \E i \in DOMAIN topology : \E o \in N :
                            topology[i] \in {<<o, q>>, <<q, o>>}}
  IN near[n]

\* The pod a hop is drawn from: the last resolved one before it.
From(r, k) ==
  LET before == {i \in 1 .. k - 1 : run[r].hops[i].hop.kind = "l3"}
  IN IF before = {} THEN run[r].src
     ELSE run[r].hops[CHOOSE i \in before : \A j \in before : j <= i].hop.node

(* A resolved hop is drawn along links of the topology, from the previous  *)
(* resolved pod to this one, by a shortest way (BFSPath), and as a tunnel  *)
(* exactly when no links lead there.                                       *)
PathsReal ==
  \A r \in Runs : \A k \in DOMAIN run[r].hops :
    LET h == run[r].hops[k].hop
        p == From(r, k)
    IN h.kind = "l3" =>
         IF h.node \in Within(p, Cardinality(Pods))
         THEN /\ h.segment = "link" /\ Head(h.path) = p /\ Last(h.path) = h.node
              /\ \A i \in 1 .. Len(h.path) - 1 : h.path[i + 1] \in Within(h.path[i], 1) \ {h.path[i]}
              /\ p # h.node => h.node \notin Within(p, Len(h.path) - 2)
         ELSE h.segment = "tunnel" /\ h.path = <<p, h.node>>

\* The last n hops of a run had no reply.
Silent(r, n) ==
  LET hs == run[r].hops IN Len(hs) >= n /\ \A i \in Len(hs) - n + 1 .. Len(hs) : hs[i].line.ip = None

(* What a streamed trace answers follows from the hops it emitted, however *)
(* the exec, the pump and the two cancellations interleave: "unreachable"  *)
(* when the last hop, and no other, carries a flag; "delivered" when the   *)
(* destination answered; given up early only after                         *)
(* MaxConsecutiveTraceTimeouts silent hops in a row; and otherwise, with   *)
(* nobody cancelling, every hop the probe had to try was emitted.          *)
OutcomeTold ==
  \A r \in Runs :
    LET c == run[r] IN
    At(r, "trace", "done") /\ ~ c.metrics /\ c.result # "error" =>
      /\ c.result = "unreachable" <=> \E i \in DOMAIN c.hops : c.hops[i].line.flag
      /\ \A i \in DOMAIN c.hops : c.hops[i].line.flag => i = Len(c.hops)
      /\ c.result = "delivered" => \E i \in DOMAIN c.hops : c.hops[i].line.ip = c.dest
      /\ c.stop /\ ~ c.dropped => Silent(r, MaxConsecutiveTraceTimeouts)
      /\ c.result = "unreached" /\ ~ c.ctx /\ ~ c.stop =>
           /\ Len(c.hops) = MaxTTL
           /\ \A i \in DOMAIN c.hops : c.hops[i].line.ip # c.dest

(* A throughput test that ends with its summary, or whose cancellation got *)
(* as far as killing by name, leaves neither its client nor its server     *)
(* behind in the pods (RunIperf).                                          *)
NoLeftovers ==
  \A r \in Runs :
    run[r].kind = "iperf" /\ run[r].pc = "done" /\ run[r].result \in {"summary", "cancelled"} =>
      \A p \in procs : p.run # r

(* Every trace and every test ends, and every capture whose client is      *)
(* gone; the probe or tshark it ran is then gone from the pod too.         *)
RunsEnd ==
  \A r \in Runs :
    (run[r].pc # "idle" /\ (run[r].kind = "capture" => run[r].closed))
      ~> (run[r].pc = "done" /\ (run[r].kind # "iperf" => Mine(r, Program(r)) = {}))

(* Each program runs for the request that started it, in one of its two    *)
(* pods, and a pump never outlives its handler.                            *)
TypeOK ==
  /\ topology \in {s.topology : s \in Scenarios}
  /\ listens \subseteq procs
  /\ \A p \in procs : p.pod \in {run[p.run].src, run[p.run].dest} /\ p.port = run[p.run].port
  /\ \A r \in Runs : /\ Len(run[r].hops) <= MaxTTL /\ run[r].prev \in Pods
                     /\ run[r].pc \in {"idle", "done"} => ~ run[r].exec /\ ~ run[r].pump

(* RunIperf as a whole: programs belong to the requests that started them, *)
(* and a test that ended properly left none.                               *)
ProgramsAccounted == TypeOK /\ NoLeftovers

=============================================================================
