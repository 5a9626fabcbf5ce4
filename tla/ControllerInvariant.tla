-------------------------- MODULE ControllerInvariant --------------------------
(***************************************************************************)
(* The inductive invariant of Controller: which tasks are under way for    *)
(* which calls, who waits for the locks, and what a reset has in hand.     *)
(***************************************************************************)
EXTENDS Controller

ClusterOperation == {"start", "stop", "reset", "add"}
Standing == {"member", "joining", "retired"}
Life == {"up", "paused", "ending", "dead", "orphan"}

\* A task that awaits the lock, a launch or the end of a process.
Pending == {"lock", "launch", "wait"}

ProcessRecord(e) == [life : Life, epoch : 0..e]

TaskRecord(e) ==
  [op : NodeOperation \cup {"none", "start", "stop"},
   pc : Pending \cup {"none", "done", "failed"}, process : Nat, epoch : 0..e]

CallRecord ==
  [op : NodeOperation \cup ClusterOperation \cup {"none"},
   pc : {"idle", "gather", "deploy", "health", "join", "ended"},
   phase : {"none", "node", "stops", "metas", "members", "joiner"},
   group : SUBSET Node, members : SUBSET Database, joining : SUBSET Database, left : SUBSET Node]

\* A manifest lists the MetaStore for good, and at most one node whose join is pending.
Manifest(ns) ==
  /\ ns \in [DOMAIN ns -> Standing]
  /\ Meta \subseteq DOMAIN ns /\ DOMAIN ns \subseteq Node
  /\ \A m \in Meta : ns[m] = "member"
  /\ \A a, b \in Joining(ns) : a = b

\* Types, and that the manifest on disk is the one in memory.
Types ==
  /\ Manifest(nodes) /\ saved = nodes
  /\ epoch \in Nat
  /\ process \in [Node -> Seq(ProcessRecord(epoch))]
  /\ tracked \in [Node -> Nat] /\ \A n \in Node : tracked[n] <= Len(process[n])
  /\ paused \subseteq Node
  /\ queue \in Seq(Call \X Node)
  /\ deployment \in Call \cup {NoCall}
  /\ task \in [Call -> [Node -> TaskRecord(epoch)]]
  /\ call \in [Call -> CallRecord]
  /\ admitted \subseteq Database
  /\ failures \in 0..MaxFailures

\* What a call has in hand in its phases.
CallInv(x) ==
  /\ x.left \subseteq x.group /\ (x.pc # "health" => x.left = {})
  /\ x.pc = "health" => x.phase \in {"metas", "members", "joiner"}
  /\ x.pc = "join" => x.phase = "joiner"
  /\ x.phase = "joiner" => x.group \subseteq Database

\* A task goes on only while its call gathers it, or when its call has failed; only
\* databases are killed.
TaskInv(t, x, n) ==
  /\ t.pc \in Pending => x.pc = "ended" \/ (x.pc = "gather" /\ n \in x.group)
  /\ t.op = "kill" /\ t.pc \in Pending => n \in Database

\* A task awaits the lock once, and only the first one is past it.
Waits(q, tasks) ==
  /\ \A i, j \in DOMAIN q : q[i] = q[j] => i = j
  /\ \A i \in DOMAIN q : tasks[q[i][1]][q[i][2]].pc \in (IF i = 1 THEN {"lock", "launch"} ELSE {"lock"})

QueueInv == Waits(queue, task)

\* A call that holds the deployment lock is under way and will not come back to await it.
Holding(x) ==
  /\ x.pc \in {"gather", "health", "join"}
  /\ x.phase \in {"metas", "members"} => x.joining = {}

DeploymentInv == deployment # NoCall => Holding(call[deployment])

\* A reset that stops the old cluster has the lock, and fresh identifiers for the new one.
Stopping(x) == x.op = "reset" /\ x.pc = "gather" /\ x.phase = "stops"

ResetInv ==
  \A c \in Call : Stopping(call[c]) => deployment = c /\ call[c].members \cap DOMAIN nodes = {}

ControllerInv ==
  /\ Types
  /\ \A c \in Call : CallInv(call[c]) /\ \A n \in Node : TaskInv(task[c][n], call[c], n)
  /\ QueueInv
  /\ DeploymentInv
  /\ ResetInv
  /\ PauseIsKnown
  /\ JoinedWereAdmitted

\* A task that launches has the lock, and the node has no running process meanwhile.
LaunchInv ==
  \A c \in Call, n \in Node : task[c][n].pc = "launch" =>
    Len(queue) > 0 /\ Head(queue) = <<c, n>> /\ ~Running(n)

Live == {"up", "paused", "ending"}
Awaited(tasks, n, i) == \E c \in Call : tasks[c][n].pc = "wait" /\ tasks[c][n].process = i

\* Of a node's processes ps the k-th is in _processes: it was not told to end, and a live one
\* is it or has a task that awaits its end.
HeldOf(ps, k, tasks, n) ==
  /\ k # 0 => ps[k].life \notin {"ending", "orphan"}
  /\ \A i \in DOMAIN ps : ps[i].life \in Live => k = i \/ Awaited(tasks, n, i)

HeldInv == LaunchInv /\ \A n \in Node : HeldOf(process[n], tracked[n], task, n)

\* When a reset clears the tables, nothing that they list is running.
ResetFindsAllDown == (\E c \in Call : Replaced(c)) => \A n \in Node : ~Running(n)
=============================================================================
