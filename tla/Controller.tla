------------------------------ MODULE Controller ------------------------------
(***************************************************************************)
(* The controller of the lab: the manifest, the processes it starts, and   *)
(* the operations on one process and on the whole cluster, which run       *)
(* concurrently in one event loop.  A step reaches from one await to the   *)
(* next.  What a process does once it runs is external.                    *)
(***************************************************************************)
EXTENDS Integers, Sequences, FiniteSets

CONSTANTS
  Meta,          \* the MetaStore processes
  Database,      \* the identifiers that database processes may get
  Founder,       \* the databases of the first cluster
  Call,          \* the operations that are ever begun
  Workload,      \* what they may be: <<call, operation, node or NoNode>>
  After,         \* <<b, c>>: c is begun when b has ended
  NoNode, NoCall,
  MaxLaunches,   \* bound: the processes that one node ever gets
  MaxFailures    \* bound: processes that exit and restarts of the controller

Node == Meta \cup Database
NodeOperation == {"resume", "pause", "kill"}

ASSUME NodeAssumption == Meta \cap Database = {} /\ Founder \subseteq Database /\ IsFiniteSet(Node)
ASSUME NoneAssumption == NoNode \notin Node /\ NoCall \notin Call
ASSUME CallAssumption == /\ Workload \subseteq Call \X (NodeOperation \cup {"start", "stop", "reset", "add"})
                                                    \X (Node \cup {NoNode})
                         /\ \A w \in Workload : w[2] \in NodeOperation <=> w[3] # NoNode
                         /\ After \subseteq Call \X Call
ASSUME BoundAssumption == MaxLaunches \in Nat \ {0} /\ MaxFailures \in Nat

VARIABLES
  nodes,       \* the manifest in memory: the nodes it lists and what they are
  saved,       \* the manifest on disk
  epoch,       \* how often the cluster was reset; a node's endpoint is of an epoch
  process,     \* per node: the processes it ever got
  tracked,     \* per node: the one in _processes, or 0
  paused,      \* _paused
  queue,       \* the tasks that await _lock, <<call, node>>; the first one holds it
  deployment,  \* the call that holds _deployment_lock
  task,        \* per call and node: how far the operation on the node is
  call,        \* per call: how far the operation on the cluster is
  admitted,    \* history: the databases that a segment's configuration named
  failures     \* the failures so far

manifest == <<nodes, saved, epoch>>
processes == <<process, tracked, paused>>
vars == <<manifest, processes, queue, deployment, task, call, admitted, failures>>
-----------------------------------------------------------------------------
Members(ns) == {n \in DOMAIN ns \cap Database : ns[n] = "member"}
Joining(ns) == {n \in DOMAIN ns \cap Database : ns[n] = "joining"}

Known(n) == n \in DOMAIN nodes
Active(n) == Known(n) /\ nodes[n] # "retired"

Held(n) == process[n][tracked[n]]
Running(n) == tracked[n] # 0 /\ Held(n).life \in {"up", "paused"}

\* A process answers at the node's endpoint; one that an earlier controller left may.
Answers(n) == \E i \in DOMAIN process[n] : process[n][i].life \in {"up", "orphan"} /\ process[n][i].epoch = epoch

\* A manifest of the MetaStore and the given databases.
Cluster(databases) == [n \in Meta \cup databases |-> "member"]

NoOperation == [op |-> "none", pc |-> "none", process |-> 0, epoch |-> 0]
Idle == [op |-> "none", pc |-> "idle", phase |-> "none", group |-> {}, members |-> {}, joining |-> {}, left |-> {}]

Init ==
  /\ nodes = Cluster(Founder)
  /\ saved = nodes
  /\ epoch = 0
  /\ process = [n \in Node |-> <<>>]
  /\ tracked = [n \in Node |-> 0]
  /\ paused = {}
  /\ queue = <<>>
  /\ deployment = NoCall
  /\ task = [c \in Call |-> [n \in Node |-> NoOperation]]
  /\ call = [c \in Call |-> Idle]
  /\ admitted = Founder
  /\ failures = 0
-----------------------------------------------------------------------------
(* The manifest.                                                           *)

Save(ns) == nodes' = ns /\ saved' = ns /\ epoch' = epoch

\* Faulty: the tombstone is kept in memory only.
RetireUnsaved(n) == nodes' = [nodes EXCEPT ![n] = "retired"] /\ UNCHANGED <<saved, epoch>>
Retire(n) == Save([nodes EXCEPT ![n] = "retired"])

\* Faulty: the node as it was before the join was awaited.
MarkJoinedAsItWas(n) == Save([nodes EXCEPT ![n] = "member"])
MarkJoined(n) == Save([nodes EXCEPT ![n] = IF @ = "joining" THEN "member" ELSE @])
-----------------------------------------------------------------------------
(* The operation on one node, by itself or as one of those gathered.       *)

\* The first one that awaits the lock.
Turn(c, n, op, pc) == task[c][n].op = op /\ task[c][n].pc = pc /\ Len(queue) > 0 /\ Head(queue) = <<c, n>>
To(c, n, pc) == task' = [task EXCEPT ![c][n].pc = pc]

\* What is looked up before the lock is awaited.
Accepts(op, n) == /\ IF op = "stop" THEN Known(n) ELSE Active(n)
                  /\ op = "kill" => n \in Database

\* The tasks of some nodes in the order in which gather() starts them, whichever it is.
InOrder(c, ns) ==
  LET rest[k \in 0..Cardinality(ns)] == IF k = 0 THEN ns ELSE rest[k - 1] \ {CHOOSE n \in rest[k - 1] : TRUE}
  IN  [k \in 1..Cardinality(ns) |-> <<c, CHOOSE n \in rest[k - 1] : TRUE>>]

\* The operation on some nodes begins, by the manifest as it is now: those accepted await the lock.
Enter(c, op, ns) ==
  /\ task' = [task EXCEPT ![c] = [n \in Node |->
                IF n \in ns THEN [op |-> op, pc |-> IF Accepts(op, n)' THEN "lock" ELSE "failed", process |-> 0, epoch |-> 0]
                ELSE @[n]]]
  /\ queue' = queue \o InOrder(c, {n \in ns : Accepts(op, n)'})

\* Nothing to do, a node that was removed meanwhile, or a launch with the endpoint as it is now.
Launching(c, n) ==
  task' = [task EXCEPT ![c][n].pc = IF Running(n) THEN "done" ELSE IF Active(n) THEN "launch" ELSE "failed",
                       ![c][n].epoch = epoch]

\* Faulty: _lock is not held over the launch.
StartUnlocked(c, n) ==
  /\ Turn(c, n, "start", "lock")
  /\ Len(process[n]) < MaxLaunches
  /\ Launching(c, n)
  /\ queue' = IF ~Running(n) /\ Active(n) THEN Append(Tail(queue), <<c, n>>) ELSE Tail(queue)
  /\ UNCHANGED <<manifest, processes, deployment, call, admitted, failures>>

\* start_node launches under the lock.
Start(c, n) ==
  /\ Turn(c, n, "start", "lock")
  /\ Running(n) \/ Len(process[n]) < MaxLaunches
  /\ Launching(c, n)
  /\ queue' = IF ~Running(n) /\ Active(n) THEN queue ELSE Tail(queue)
  /\ UNCHANGED <<manifest, processes, deployment, call, admitted, failures>>

New(c, n) == /\ process' = [process EXCEPT ![n] = Append(@, [life |-> "up", epoch |-> task[c][n].epoch])]
             /\ tracked' = [tracked EXCEPT ![n] = Len(process[n]) + 1]

\* Faulty: the mark of the process that was paused stays.
LaunchedStillMarked(c, n) ==
  /\ Turn(c, n, "start", "launch")
  /\ New(c, n)
  /\ queue' = Tail(queue)
  /\ To(c, n, "done")
  /\ UNCHANGED <<manifest, paused, deployment, call, admitted, failures>>

Launched(c, n) ==
  /\ Turn(c, n, "start", "launch")
  /\ New(c, n)
  /\ paused' = paused \ {n}
  /\ queue' = Tail(queue)
  /\ To(c, n, "done")
  /\ UNCHANGED <<manifest, deployment, call, admitted, failures>>

\* resume_node: a process that runs is continued, another one is started.
Resume(c, n) ==
  /\ Turn(c, n, "resume", "lock")
  /\ IF Running(n)
     THEN /\ To(c, n, "done")
          /\ queue' = Tail(queue)
          /\ process' = [process EXCEPT ![n][tracked[n]].life = IF n \in paused THEN "up" ELSE @]
          /\ paused' = paused \ {n}
     ELSE /\ task' = [task EXCEPT ![c][n].op = "start", ![c][n].pc = IF Active(n) THEN "lock" ELSE "failed"]
          /\ queue' = IF Active(n) THEN Append(Tail(queue), <<c, n>>) ELSE Tail(queue)
          /\ UNCHANGED <<process, paused>>
  /\ UNCHANGED <<manifest, tracked, deployment, call, admitted, failures>>

Pause(c, n) ==
  /\ Turn(c, n, "pause", "lock")
  /\ To(c, n, "done")
  /\ queue' = Tail(queue)
  /\ IF Running(n) /\ n \notin paused
     THEN process' = [process EXCEPT ![n][tracked[n]].life = "paused"] /\ paused' = paused \cup {n}
     ELSE UNCHANGED <<process, paused>>
  /\ UNCHANGED <<manifest, tracked, deployment, call, admitted, failures>>

\* The process has left _processes and is told to end.
Ended(c, n) == /\ process' = [process EXCEPT ![n][tracked[n]].life = "ending"]
               /\ task' = [task EXCEPT ![c][n].pc = "wait", ![c][n].process = tracked[n]]

\* What the manifest still lists is retired once the process is gone.
Gone(c, n) == IF Known(n) THEN Retire(n) /\ To(c, n, "done")
                          ELSE UNCHANGED manifest /\ To(c, n, "failed")

Kill(c, n) ==
  /\ Turn(c, n, "kill", "lock")
  /\ queue' = Tail(queue)
  /\ tracked' = [tracked EXCEPT ![n] = 0]
  /\ paused' = paused \ {n}
  /\ IF Running(n) THEN Ended(c, n) /\ UNCHANGED manifest
                   ELSE Gone(c, n) /\ UNCHANGED process
  /\ UNCHANGED <<deployment, call, admitted, failures>>

Stop(c, n) ==
  /\ Turn(c, n, "stop", "lock")
  /\ queue' = Tail(queue)
  /\ tracked' = [tracked EXCEPT ![n] = 0]
  /\ IF Running(n) THEN Ended(c, n) /\ paused' = paused \ {n}
                   ELSE To(c, n, "done") /\ UNCHANGED <<process, paused>>
  /\ UNCHANGED <<manifest, deployment, call, admitted, failures>>

\* Its process is gone: by itself, or killed after three seconds.
Waited(c, n) ==
  /\ task[c][n].pc = "wait" /\ process[n][task[c][n].process].life = "dead"
  /\ IF task[c][n].op = "kill" THEN Gone(c, n) ELSE To(c, n, "done") /\ UNCHANGED manifest
  /\ UNCHANGED <<processes, queue, deployment, call, admitted, failures>>

TaskStep(c, n) ==
  \/ Start(c, n) \/ Launched(c, n) \/ Resume(c, n)
  \/ Pause(c, n) \/ Kill(c, n) \/ Stop(c, n) \/ Waited(c, n)
-----------------------------------------------------------------------------
(* The operations on the cluster.  gather() raises the first failure and   *)
(* leaves the other tasks running.                                         *)

Calls(c, new) == call' = [call EXCEPT ![c] = new]
Gather(c, op, phase, ns, new) ==
  /\ Calls(c, [new EXCEPT !.pc = "gather", !.phase = phase, !.group = ns])
  /\ Enter(c, op, ns)

EndCall(c) ==
  /\ call' = [call EXCEPT ![c] = [Idle EXCEPT !.pc = "ended"]]
  /\ task' = [task EXCEPT ![c] = [n \in Node |-> IF @[n].pc \in {"done", "failed"} THEN NoOperation ELSE @[n]]]
  /\ deployment' = IF deployment = c THEN NoCall ELSE deployment

\* start_cluster of what a manifest lists: the MetaStore first.
StartCluster(c, op, ns) ==
  Gather(c, "start", "metas", Meta,
         [call[c] EXCEPT !.op = op, !.members = Members(ns), !.joining = Joining(ns)])

Begin(c) ==
  /\ call[c].pc = "idle"
  /\ UNCHANGED <<manifest, processes, deployment, admitted, failures>>
  /\ \A b \in Call : <<b, c>> \in After => call[b].pc = "ended"
  /\ \E w \in Workload :
       /\ w[1] = c
       /\ \/ w[2] \in NodeOperation /\ Gather(c, w[2], "node", {w[3]}, [call[c] EXCEPT !.op = w[2]])
          \/ w[2] = "start" /\ StartCluster(c, "start", nodes)
          \/ w[2] = "stop" /\ Gather(c, "stop", "stops", DOMAIN nodes, [call[c] EXCEPT !.op = "stop"])
          \/ /\ w[2] \in {"reset", "add"}
             /\ Calls(c, [call[c] EXCEPT !.op = w[2], !.pc = "deploy"])
             /\ UNCHANGED <<task, queue>>

Fresh == Database \ DOMAIN nodes
Listed(n) == [m \in DOMAIN nodes \cup {n} |-> IF m = n THEN "joining" ELSE nodes[m]]

\* Faulty: a join that is pending is not taken up again.
AddAnother(c) ==
  /\ call[c].pc = "deploy" /\ call[c].op # "reset" /\ deployment = NoCall
  /\ deployment' = c
  /\ Fresh # {}
  /\ LET n == CHOOSE m \in Fresh : TRUE
     IN  Save(Listed(n)) /\ Gather(c, "start", "joiner", {n}, call[c])
  /\ UNCHANGED <<processes, admitted, failures>>

\* add_database_node with the lock: the node whose join is pending, or a new one.
Add(c) ==
  /\ call[c].pc = "deploy" /\ call[c].op # "reset" /\ deployment = NoCall
  /\ deployment' = c
  /\ IF Joining(nodes) # {}
     THEN UNCHANGED manifest /\ Gather(c, "start", "joiner", Joining(nodes), call[c])
     ELSE /\ Fresh # {}
          /\ LET n == CHOOSE m \in Fresh : TRUE
             IN  Save(Listed(n)) /\ Gather(c, "start", "joiner", {n}, call[c])
  /\ UNCHANGED <<processes, admitted, failures>>

Reset(c) ==
  /\ call[c].pc = "deploy" /\ call[c].op = "reset" /\ deployment = NoCall
  /\ Cardinality(Fresh) >= Cardinality(Founder)
  /\ deployment' = c
  /\ UNCHANGED <<manifest, processes, admitted, failures>>
  /\ Gather(c, "stop", "stops", DOMAIN nodes,
            [call[c] EXCEPT !.members = CHOOSE S \in SUBSET Fresh : Cardinality(S) = Cardinality(Founder)])

Gathered(c, phase) ==
  /\ call[c].pc = "gather" /\ call[c].phase = phase
  /\ \A n \in call[c].group : task[c][n].pc = "done"

\* Faulty: the replacement keeps the node that was to join.
ReplacedButJoining(c) ==
  /\ Gathered(c, "stops") /\ call[c].op = "reset"
  /\ LET ns == [n \in Meta \cup call[c].members \cup Joining(nodes) |->
                  IF n \in Joining(nodes) THEN "joining" ELSE "member"]
     IN  nodes' = ns /\ saved' = ns /\ StartCluster(c, "reset", ns)
  /\ epoch' = epoch + 1
  /\ tracked' = [n \in Node |-> 0] /\ paused' = {}
  /\ admitted' = admitted \cup call[c].members
  /\ UNCHANGED <<process, deployment, failures>>

\* The files are deleted, the tables cleared and the new cluster started.
Replaced(c) ==
  /\ Gathered(c, "stops") /\ call[c].op = "reset"
  /\ LET ns == Cluster(call[c].members)
     IN  nodes' = ns /\ saved' = ns /\ StartCluster(c, "reset", ns)
  /\ epoch' = epoch + 1
  /\ tracked' = [n \in Node |-> 0] /\ paused' = {}
  /\ admitted' = admitted \cup call[c].members
  /\ UNCHANGED <<process, deployment, failures>>

\* wait_healthy polls what the gathered tasks have started.
Started(c) ==
  /\ \E phase \in {"metas", "members", "joiner"} : Gathered(c, phase)
  /\ Calls(c, [call[c] EXCEPT !.pc = "health", !.left = call[c].group])
  /\ UNCHANGED <<manifest, processes, queue, deployment, task, admitted, failures>>

Done(c) ==
  /\ Gathered(c, "node") \/ (Gathered(c, "stops") /\ call[c].op = "stop")
  /\ EndCall(c)
  /\ UNCHANGED <<manifest, processes, queue, admitted, failures>>

\* One round of the polls, which change nothing.
Healthy(c) ==
  /\ call[c].pc = "health"
  /\ LET healthy == {n \in call[c].left : Known(n) /\ Answers(n)}
     IN  healthy # {} /\ Calls(c, [call[c] EXCEPT !.left = @ \ healthy])
  /\ UNCHANGED <<manifest, processes, queue, deployment, task, admitted, failures>>

\* Every node has answered: then the databases, the node that is to join, or its admission.
AllHealthy(c) ==
  /\ call[c].pc = "health" /\ call[c].left = {}
  /\ UNCHANGED <<manifest, processes, admitted, failures>>
  /\ CASE call[c].phase = "metas" ->
            Gather(c, "start", "members", call[c].members, call[c]) /\ UNCHANGED deployment
       [] call[c].phase = "members" /\ call[c].joining # {} ->
            Calls(c, [call[c] EXCEPT !.pc = "deploy"]) /\ UNCHANGED <<task, queue, deployment>>
       [] call[c].phase = "members" /\ call[c].joining = {} -> EndCall(c) /\ UNCHANGED queue
       [] call[c].phase = "joiner" -> Calls(c, [call[c] EXCEPT !.pc = "join"]) /\ UNCHANGED <<task, queue, deployment>>

\* Faulty: an answer that refuses the node is not told from one that admits it.
JoinedUnchecked(c) ==
  /\ call[c].pc = "join"
  /\ \E n \in call[c].group : MarkJoined(n) /\ admitted' \in {admitted, admitted \cup {n}}
  /\ EndCall(c)
  /\ UNCHANGED <<processes, queue, failures>>

\* The node was admitted to the storage membership.
Joined(c) ==
  /\ call[c].pc = "join"
  /\ \E n \in call[c].group : MarkJoined(n) /\ admitted' = admitted \cup {n}
  /\ EndCall(c)
  /\ UNCHANGED <<processes, queue, failures>>

\* The first failure of those gathered, a node that never answers or is not listed, or an
\* admission that is refused or whose answer is lost.
Fails(c) ==
  /\ \/ /\ call[c].pc = "gather" /\ \E n \in call[c].group : task[c][n].pc = "failed"
        /\ UNCHANGED admitted
     \/ call[c].pc = "health" /\ call[c].left # {} /\ UNCHANGED admitted
     \/ call[c].pc = "join" /\ admitted' \in {admitted, admitted \cup call[c].group}
  /\ EndCall(c)
  /\ UNCHANGED <<manifest, processes, queue, failures>>

CallStep(c) ==
  \/ Add(c) \/ Reset(c) \/ Replaced(c) \/ Started(c) \/ Done(c)
  \/ Healthy(c) \/ AllHealthy(c) \/ Joined(c) \/ Fails(c)

Runs(c) == CallStep(c) \/ \E n \in Node : TaskStep(c, n)
-----------------------------------------------------------------------------
(* The processes and the controller's own restart.                         *)

\* A process that was told to end does; SIGKILL sees to it.
Ends ==
  /\ \E n \in Node : \E i \in DOMAIN process[n] :
       process[n][i].life = "ending" /\ process' = [process EXCEPT ![n][i].life = "dead"]
  /\ UNCHANGED <<manifest, tracked, paused, queue, deployment, task, call, admitted, failures>>

Exits ==
  /\ failures < MaxFailures
  /\ failures' = failures + 1
  /\ \E n \in Node : \E i \in DOMAIN process[n] :
       process[n][i].life \in {"up", "paused"} /\ process' = [process EXCEPT ![n][i].life = "dead"]
  /\ UNCHANGED <<manifest, tracked, paused, queue, deployment, task, call, admitted>>

\* The controller ends without stopping anything and starts from the saved manifest.
Restart ==
  /\ failures < MaxFailures
  /\ failures' = failures + 1
  /\ \E c \in Call : call[c].pc \notin {"idle", "ended"}
  /\ nodes' = saved
  /\ process' = [n \in Node |-> [i \in DOMAIN process[n] |->
                   [process[n][i] EXCEPT !.life = IF @ = "dead" THEN @ ELSE "orphan"]]]
  /\ tracked' = [n \in Node |-> 0] /\ paused' = {}
  /\ queue' = <<>> /\ deployment' = NoCall
  /\ task' = [c \in Call |-> [n \in Node |-> NoOperation]]
  /\ call' = [c \in Call |-> IF call[c].pc = "idle" THEN Idle ELSE [Idle EXCEPT !.pc = "ended"]]
  /\ UNCHANGED <<saved, epoch, admitted>>

Next ==
  \/ \E c \in Call : Begin(c) \/ Runs(c)
  \/ Ends \/ Exits \/ Restart

Spec == Init /\ [][Next]_vars
-----------------------------------------------------------------------------
TypeOK ==
  /\ \A ns \in {nodes, saved} : /\ Meta \subseteq DOMAIN ns /\ DOMAIN ns \subseteq Node
                                /\ \A n \in DOMAIN ns : ns[n] \in {"member", "joining", "retired"}
                                /\ \A m \in Meta : ns[m] = "member"
                                /\ Cardinality(Joining(ns)) <= 1
  /\ epoch \in Nat
  /\ process \in [Node -> Seq([life : {"up", "paused", "ending", "dead", "orphan"}, epoch : 0..epoch])]
  /\ \A n \in Node : tracked[n] \in 0..Len(process[n])
  /\ paused \subseteq Node
  /\ queue \in Seq(Call \X Node)
  /\ deployment \in Call \cup {NoCall}
  /\ task \in [Call -> [Node -> [op : NodeOperation \cup {"none", "start", "stop"},
                                 pc : {"none", "lock", "launch", "wait", "done", "failed"},
                                 process : Nat, epoch : 0..epoch]]]
  /\ \A c \in Call : /\ call[c].op \in NodeOperation \cup {"none", "start", "stop", "reset", "add"}
                     /\ call[c].pc \in {"idle", "gather", "deploy", "health", "join", "ended"}
                     /\ call[c].group \subseteq Node /\ call[c].left \subseteq call[c].group
  /\ admitted \subseteq Database
  /\ failures \in 0..MaxFailures

\* The marks in _paused are those of the processes that are stopped: a resume continues what
\* a pause stopped, whichever starts, kills, stops and exits come between.
PauseIsKnown == \A n \in Node : Running(n) => (Held(n).life = "paused" <=> n \in paused)

\* A process that the controller has started and that has not ended is the one it will stop
\* for the node, or one it is about to see end: none runs on with nobody to stop it.
LiveProcessesAreHeld ==
  \A n \in Node : \A i \in DOMAIN process[n] : process[n][i].life \in {"up", "paused", "ending"} =>
    tracked[n] = i \/ \E c \in Call : task[c][n].pc = "wait" /\ task[c][n].process = i

\* A database that the manifest lists as a member is one of the cluster's first ones or was
\* admitted to a segment, however the join was retried.
JoinedWereAdmitted == Members(nodes) \subseteq admitted

\* An identifier that was retired is a tombstone for good, whatever was under way when it was
\* retired and however the controller restarts: only a reset forgets it, with its cluster.
RetiredStayRetired ==
  [][\A n \in DOMAIN nodes : nodes[n] = "retired" =>
       IF n \in DOMAIN nodes' THEN nodes'[n] = "retired" ELSE epoch' # epoch]_vars

\* Once nothing is under way for a node that was removed, it has no process.
RemovedAreDown ==
  \A n \in Node : (~Active(n) /\ \A c \in Call : task[c][n].pc \in {"none", "done", "failed"}) =>
    \A i \in DOMAIN process[n] : process[n][i].life \notin {"up", "paused"}

\* A lock is held by who gets on, and given back: the deployment lock by an operation that is
\* under way and does not await it itself, the other by a task that has not failed or ended.
LocksAreReleased ==
  /\ deployment # NoCall => call[deployment].pc \in {"gather", "health", "join"}
  /\ \A i \in DOMAIN queue :
       task[queue[i][1]][queue[i][2]].pc \in (IF i = 1 THEN {"lock", "launch"} ELSE {"lock"})
=============================================================================
