# A verification of delos-lab

delos-lab rebuilds, in Python, the layers of the Delos replicated database: a
replicated state machine (KV) on a virtual shared log, which is a chain of
Loglets, whose chain is kept by a Paxos MetaStore.  This directory holds TLA+
models of those layers, the TLC runs that check them on small instances, and
TLAPS proofs of the invariants that matter most.  Paths of the form `paxos/...`,
`native_loglet/...` and so on are below `src/src/delos_lab/`.

Modelled and checked: the **Paxos MetaStore**, one segment of the
**NativeLoglet**, the **VirtualLog** over Loglets and a MetaStore, the **KV
service** over a shared log, and the **Controller** that starts and stops the
processes.  Proved: all invariants of the MetaStore and that it
implements its abstract register, all invariants of the KV service and (two of them
where states are read whole) of the NativeLoglet, and all but one each of the VirtualLog
and the Controller.  The plan at the end says what is left.

    tlc -workers 2 -config MCPaxosRivals.cfg MCPaxosMetaStore.tla      # one run
    tlapm PaxosSafetyProofs.tla                                        # one module's proofs

## The system

| component | code | state it keeps | operations |
|---|---|---|---|
| Paxos acceptor | `metastore/paxos/acceptor.py`, `sqlite_storage.py` | per slot promise, accepted pair, decision; applied prefix, register, reserved round (durable); results of applied slots (memory) | `reserve_ballot`, `prepare`, `accept`, `decide`, restart |
| Paxos proposer | `metastore/paxos/proposer.py` | local variables of one call: slot, ballot, replies, value | `propose`: prepare, accept, learn, for slot after slot |
| MetaStore peer, client | `metastore/paxos/client.py` | none | `read` (a barrier through the log), `compare_and_set`; the client retries peers in order |
| NativeSequencer | `native_loglet/sequencer.py` | known tail, next position, position per command, pending entry (memory) | `append` with its commit rounds |
| LogServer | `native_loglet/server.py`, `sqlite_store.py` | entries, sealed flag, trim watermark per segment (durable); known tail (memory) | `put`, `repair`, `get`, `seal`, `prefix_trim`, `state`, `wait_for_tail` |
| NativeLogletClient | `native_loglet/client.py` | known tail, trimmed prefix (memory) | `seal`, `check_tail` (with repair of a sealed segment), `prefix_trim` |
| Sequencer registry | `native_loglet/sequencer_registry.py` | sequencers of this incarnation, one running append per segment | `append`, `observe`, `close` |
| Replacement, policy | `native_loglet/replacement.py`, `reconfiguration.py` | none | copy a sealed segment to other servers; choose a successor |
| VirtualLog | `virtual_log/core.py` | the cached versioned chain | `bootstrap`, `refresh`, `append`, `seal`, `check_tail`, `read_next`, `prefix_trim`, `reconfig_extend/truncate/modify` |
| KV service | `kv/service.py`, `materializer.py`, `sqlite_store.py`, `bootstrap.py` | values, requests with results, applied position (durable) | `submit`, `sync`, `get`, snapshot export and install |
| Converged runtime | `runtime/` | wiring of the above into one process | start-up, HTTP |
| Controller | `controller/process_manager.py`, `manifest.py` | manifest (durable), supervised processes | start, pause, kill, add, reset |
| Web console | `src/frontend/` | user interface only | - |

**How they interact.**  Everything is one asyncio process per node, and nodes
talk over HTTP with timeouts.  A proposer gathers answers of all acceptors; the
VirtualLog reads and swaps its chain at the MetaStore, appends through the
sequencer of the active segment (which gathers puts at all LogServers), and seals
and queries the LogServers itself; the KV materializer reads committed entries
from the VirtualLog and applies them to its store.

**What is hard.**  Every `await` is a point where other handlers of the process
run.  A caller that times out does not stop the handler at the other end, which
may run much later: requests are late, overtaken, repeated.  Gathers end with any
subset of answers.  Processes are killed and restart from SQLite with their
memory gone, and are paused (SIGSTOP) and resumed.  Retry loops with no bound
must end.  Decisions are made on states that were collected one by one.

**What makes each part correct.**  Acceptors never forget a promise or a vote,
one value is chosen per slot, replicas apply the same prefix, a chain version has
one winner, answers to callers are true.  In a Loglet, two servers never hold
different commands at a position; a tail that anyone takes for known is held by a
quorum; `check_tail` accounts for what was acknowledged or reported before; once a
sealed tail is told, nothing commits beyond it; what was trimmed stays away; every
append ends.  For the VirtualLog: segments of the chain are contiguous, an
acknowledged entry stays readable at its position, a successor starts at its
predecessor's sealed tail.  For the KV service: each replica applies the log's
commands once and in order, a repeated request returns the first result, and a
read observes every write acknowledged before it began.

## Modules

| module | what it models | theorems |
|---|---|---|
| `VersionRegister` | the register of `state_machine.py`: commands, results, replay of a batch of decided slots | `VersionRegisterProofs` |
| `PaxosMetaStore` | acceptors, proposers, the calls of a peer, the network, restarts | `PaxosSafetyProofs`, `PaxosLogProofs` |
| `PaxosInvariant` | the inductive invariants of `PaxosMetaStore`: `IInv` of the votes, `LogInv` of the log | |
| `MetaStoreSpec` | what the MetaStore promises: the abstract register, refined by `PaxosMetaStore` | |
| `NativeLoglet` | one segment: sequencer, LogServers, clients, the network, restarts | `NativeLogletProofs` |
| `NativeLogletInvariant` | the inductive invariants of `NativeLoglet`: `LogletInv` of positions, `TailsInv` of known tails, `ReportsInv` of reported tails | |
| `SharedLogSpec` | what the VirtualLog promises: one log whose positions keep their commands | |
| `VirtualLog` | the VirtualLog objects of several processes, over Loglets and a MetaStore that do what they promise, late or never; refines `SharedLogSpec` | `VirtualLogProofs`, `VirtualLogAnswerProofs` |
| `VirtualLogInvariant` | the inductive invariants of `VirtualLog`: `ChainsInv` of the segments, `AnswersInv` of what is kept and told, `MembersInv` of who stores the active segment, `SharedInv` of the segments as one log | |
| `KvReplication` | replicas of the KV service over one shared log: state machine, SQLite store, materializer, snapshots | `KvProofs` |
| `KvInvariant` | the inductive invariants of `KvReplication`: `KvInv` of stores and answers, `ReadsInv` of reads | |
| `Controller` | the manifest, the supervised processes, the operations on one node and on the cluster | `ControllerProofs` |
| `ControllerInvariant` | the inductive invariants `ControllerInv` and `HeldInv` of `Controller` | |
| `MCPaxosMetaStore`, `MCNativeLoglet`, `MCVirtualLog`, `MCKvReplication`, `MCController` | small instances for TLC | |

The layers are composed by what they promise.  `PaxosMetaStore` implements
`MetaStoreSpec`, and `VirtualLog` installs and reads versions as that register does
(with its answers late, since the client may be told an older version by a peer that
lags).  A Loglet in `VirtualLog` is what its interface promises, and
`VirtualLog` implements `SharedLogSpec`, whose `Add` and `Trim` are `Adds` and `Trims`
of `KvReplication`.

Definitions whose comment begins with "Faulty:" are not part of the models: each is
a plausible mistake in the definition below it, with which some property fails.

### PaxosMetaStore

| code | action |
|---|---|
| `PaxosAcceptor.prepare` / `accept` / `decide` | `HandlePrepare(m)` / `HandleAccept(m)` / `HandleDecide(m)`: read a request, save, answer if the caller still waits (`Deliver`) |
| `PaxosMetaStore.read`, `compare_and_set` begin | `Start(c, m)` |
| `propose`: `slot = last_applied + 1` | `TakeSlot(c)` |
| `reserve_ballot` and sending Prepare | `ReserveBallot(c)` |
| a gather returns, its outcomes | `AdoptDecision`, `SendAccept`, `Outvoted`, `AcceptedByQuorum`, `NoQuorum` |
| `_learn`: decide at the own member, tell the others | `Learn(c)` |
| the slot was won / lost / another slot | `Return(c)`, `NextSlot(c)`, `ConflictRaised(c)` |
| kill and restart of a member | `Restart(m)` |

A request stays in `msgs` for ever, so it may be handled at any time, or never; a
second handling of the same request is a duplicate.  A gather's outcome is decided
on any quorum of the replies that have come (`Arrived`).  `save` and the answer to
it are one step: a crash between the two is the same as the answer being lost,
which is allowed.  A ballot reservation is durable before Prepare is sent.
`votes` is a history variable: the model reads it only in properties.

### NativeLoglet

| code | action |
|---|---|
| `NativeSequencer.append` | `AppendAgain(k)` (the shortcut for a known position), `Append(k)` |
| one pass of `_commit`'s loop | `Round`, which sends the puts, then `Acknowledge`, `CommitPending`, `NotContiguous`, `SealedOut` or `Retry` |
| `append` cancelled | `Cancel` |
| `put` at a server: write, then read the state for the answer | `HandlePut(s)`, `AnswerPut(s)` |
| `seal`, `prefix_trim` at a server | `HandleSeal(s)`, `HandleTrim(s)` |
| `state` at a server | `ReadState(c, s)`, or `ReadRow(c, s)` and `ReadLast(c, s)` with other requests in between |
| the append's answer reaches the client | `AppendReturns(client)` |
| `seal`, `prefix_trim`, `check_tail` begin | `StartSeal`, `StartTrim`, `StartCheckTail` |
| and end | `EndSeal`, `SealFails`, `EndTrim`, `ReportOpenTail`, `GiveUp` |
| `check_tail` on mixed / sealed / unsettled states | `SealRest`, `StartRepair`, `AwaitProgress` then `Notified` |
| `_repair_through`, first and second pass | `ReadCopy(c, s)`, `RepairCopy(c, s)` |
| kill and restart of a server, or of the sequencer's node | `Restart(s)` |

Abstractions.  A write is one transaction of the store and one step.  Requests
that write (`put`, `seal`, `prefix_trim`) may be handled late and repeatedly;
late `state`, `get` and `repair` requests, whose caller has gone, are left out
(the first two only raise a server's known tail; a late repair writes what
another repair of the position would).  The repair's `get` and `repair` at a
server run in the order the code sends them, one server at a time.  A refused put
(`EntryConflict`, trimmed, a hole) counts for nothing in the sequencer, as in the
code.  A restart takes no time, and a restarted client is another `Client`.
Payloads are part of the command.  Reads that share the writer's SQLite
connection and see a transaction before its commit are not modelled.

### VirtualLog

| code | action |
|---|---|
| `bootstrap`, `seal`, `append` / `check_tail` / `prefix_trim`, `read_next`, `reconfig_modify`, `join_node` begin | `BeginBootstrap`, `BeginSeal`, `BeginOnActive`, `BeginRead`, `BeginModify`, `BeginJoin` |
| the active Loglet's answers to `append` | `AppendAnswered`, `AppendRefused` (sealed), `Unavailable` |
| `check_tail` of the active segment | `TailAnswered` |
| `_replace_unavailable`, `_roll_forward`, `reconfig_*`: take `_reconfigure_lock` | `TakeLock` |
| `refresh` answered, and what the operation makes of it | `RefreshedEmpty`, `Refreshed` |
| the grace period of an abandoned reconfiguration, a successor in the meantime | `GraceOver`, `SuccessorFound` |
| `seal` and `check_tail` of the Loglet to close | `SealAnswered`, `SealedTailAnswered` |
| `_install` answered, won or lost | `InstallAnswered` |
| `prefix_trim`: a segment of the chain, then the truncation | `TrimNext`, `Drop` |
| `read_next` in one segment after another | `ReadNext` |
| an exception or a cancellation at an await | `Raise` |
| a request takes effect, whenever it arrives | `Install`, `LogletAppends`, `LogletSeals`, `LogletTrims` |

A request is a member of `msgs` for ever: it may take effect after its caller gave up,
or never.  Each client has one cached snapshot and one lock, shared by its calls, and a
step reaches from one await to the next.  `asked` and `floor` of a call are history
that properties and the range of a refresh's answer use.

Abstractions.  A Loglet is what `virtual_log/loglet.py` promises: it appends a
command once, its tail is fixed once it is sealed, `check_tail` accounts for what was
appended.  Two majorities of LogServers can report different sealed tails (finding 6),
which this Loglet does not; but it does have what a late write leaves behind the tail of
a sealed segment, and a read there may be told of it (`Readable`).  The policies are
the lab's own: a successor is led by another eligible node, a join adds one.

### KvReplication

| code | action |
|---|---|
| `submit`, with the shortcut for a known request, and `get` begin | `BeginSubmit`, `BeginGet` |
| `DatabaseReplicaBootstrapper.run` | `BeginBootstrap`, `SyncRequired` |
| `append` answered | `AppendAnswered` |
| `sync`: the tail, and whether the store is behind | `TailAnswered` |
| `materialize_through`: the lock, the target | `TakeLock` |
| `read_next` | `ReadNext` |
| `SQLiteKvStore.apply`: up to the deletion of `kv_items`, up to the commit, the commit, the conflict | `ApplyBegins`, `ApplyWrites`, `ApplyCommits`, `ApplyRefused` |
| `get` reads the table | `GetAnswered` |
| `export_snapshot`, `install_snapshot` | `Exported`, `Installed` |
| cancellation or an unavailable log | `Raise` |
| kill and restart of a process | `Restart` |
| the log grows, is trimmed | `Adds`, `Trims` |

`store` is what is committed, `view` what the replica's only SQLite connection
shows, also to the coroutines that take no lock: inside of a transaction the two
differ, and a rollback makes them equal.  An append whose answer is lost may be
repeated in the next segment, so the log may hold a command more than once.
`states` is the history of what the log makes, entry by entry; `answers` what callers
were told; `undone` the calls during which a transaction that they may have seen was
rolled back.  A replica bootstraps once in a process, before it serves, as
`serve_db_peer` does.

### Controller

| code | action |
|---|---|
| `start_node`, its launch | `Start`, `Launched` |
| `resume_node`, `pause_node`, `kill_node`, `stop_node` | `Resume`, `Pause`, `Kill`, `Stop`, `Waited` |
| `start_cluster`, `stop_cluster`, `reset_cluster`, `add_database_node` | `Begin`, `StartCluster`, `Add`, `Reset` with `Replaced`, `Started`, `Done` |
| the wait for health, the admission of a joining node | `Healthy`, `AllHealthy`, `Joined`, `Fails` |
| a process ends, exits by itself; the controller restarts | `Ends`, `Exits`, `Restart` |

`queue` is the asyncio lock `_lock` with its waiters in order, `deployment` the holder
of `_deployment_lock`.  A process is one of a sequence of incarnations per node, which
tells the handle the controller holds from the processes that run.

## Runs

Deployments have three members, and so do the instances of the MetaStore and the
Loglet; a quorum is two, so two quorums can meet in a single member, which is where
such protocols fail.  `Link` bounds which requests ever arrive, to keep the instances
finite in practice; what a lost link excludes is lost messages made permanent, and the
links are chosen so that clients and proposers act through *different* majorities, the
hard case.

| run | question | instance | states |
|---|---|---|---|
| `paxos_rivals` | Do rival installations, late messages and restarts ever break the acceptors, the replicas or the answers?  Is `IInv` an invariant? | 2 compare-and-sets at 1 or 2 members, 2 slots, 2 ballots per slot | 132,801 |
| `paxos_register` | Does the log implement the abstract register (`ImplementsMetaStore`), are answers fresh, does every call end? | a read and an installation at 2 members, fairness of the proposers | 21,695 |
| `loglet_open` | Do copies agree under repeated rounds, late puts, a restart and cancelled appends?  Are known tails committed, do trimmed positions stay away?  Is `LogletInv` an invariant? | 2 commands, a `check_tail` or a trim, 1 restart | 370,689 |
| `loglet_sealed` | Do reported tails cover what was reported or committed, when seals, tail checks and an append race?  Does the append end? | 1 command, 2 calls through 2 majorities, states read in two queries, 1 restart, fairness | 227,673 |
| `virtual_log` | Does the chain of segments implement one shared log, whoever extends, modifies, joins, seals or trims it?  Does every operation end? | 2 clients, 5 calls, 6 segments, 2 attempts, 1 failure, stale refreshes, fairness | 147,377 |
| `kv` | Do replicas agree with the log, are answers the log's, reads fresh, and do calls end? | a serving and a joining replica, 3 calls, 1 repeated entry, 1 trim, 1 failure or restart, 2 snapshot attempts, fairness | 134,555 |
| `controller` | Are processes, marks, tombstones and locks kept in order when operations overlap? | 3 MetaStore nodes, 7 database identifiers, 4 calls, 2 launches per node, 1 exit or restart | 497,820 |
| `paxos_stale_read`, `loglet_contiguous`, `virtual_zombie`, `kv_dirty_read`, `controller_kill` | see Findings (violated) | 2 to 6 calls | - |

Why the bounds are enough to be of use:
- Paxos: two slots let a member lag, learn out of order and apply a batch; two ballots
  per slot let a rival outvote a proposer and a late Accept meet a higher promise.
- Loglet: two commands let a pending entry be committed on behalf of another append and
  positions be mixed up; one restart suffices to lose a known tail or the sequencer; two
  calls, each on its own majority, see different seals and tails.  `MaxBusy` bounds
  the client operations that run at once.
- VirtualLog: two clients race for version 0, for a successor, and between a trim and a
  reconfiguration; two attempts let one lose and find the winner's chain; `MaxSegment`
  cuts nothing off, for fewer segments are configured; one failure leaves a seal without a
  successor, which the other client then rolls forward.
- KV: one duplicate, one trim and one failure each meet every phase of the transaction;
  the second snapshot attempt is the one after `SyncRequired`; a request identifier
  with two bodies conflicts in the log.
- Controller: each operation overlaps the start of the cluster or another one;
  identifiers suffice for a reset in between; one exit or restart at any moment.

`CHECK_DEADLOCK FALSE` is set for all but the MetaStore because workloads are finite:
when the calls have ended, the model stops.  That calls *do* end is checked as a
property: `CallsEnd` and `AppendsEnd`, and for the Controller `LocksAreReleased`.

Properties worth a comment:
- `NoSafetyError`: none of the `PaxosSafetyError` conditions of the code is reachable.
- `ResultsAreKept`: a call finds the result of its slot although results live in memory.
- `AnswersAreFresh`: an answer is not behind what was reported before its call began,
  provided no other call sent an equal command.  Without the proviso it fails for
  reads (`ReadsAreFresh`), because barriers are equal values.
- `TailsCoverReports`: `check_tail` is at least what any append or `check_tail` had
  told before it began, whatever majorities are involved.
- `SealedTailsCoverCommits`: the boundary a reconfiguration uses is above every
  position that a quorum of puts commits, before or after.
- `DurableStateOnlyGrows` (both models): promises, votes, decisions, seals,
  watermarks and entries are not undone, by late requests or, in `PaxosMetaStore`, by restarts.
- `ImplementsSharedLog`: put together along the chains that were ever installed, the
  segments are one log in which a position never changes its command, and every answer
  to an append, a read or a trim is true of it.
- `OneOwnerPerPosition`: no two installed chains, of whatever version, send a written
  position to different places.
- `AcksAreKept`: an acknowledged command is found at its position through the newest
  chain, unless a trim asked for its removal.
- `StoresReplayLog`: two replicas at the same position are equal, because both are what
  the log makes; it speaks of stores that skipped no entry (see Not modelled).
- `GetsAreNotStale`: a `get` tells a value from a state of the log that has all that
  was acknowledged before it was called.  It excepts reads between the two statements of
  another coroutine's transaction, of which `GetsAreFresh` says the same and fails
  (finding 3), and calls that saw a transaction rolled back: `sync` reads
  `applied_position` on the connection of the writer, finds the store up to date, and
  reads the table after the rollback.
- `LiveProcessesAreHeld`: no process of the controller runs on with nobody to stop it.

## Fairness

- `PaxosMetaStore!FairSpec`: weak fairness of each call's proposer.  A gather ends
  by itself because every request has an HTTP timeout, with whatever answers came,
  so no fairness of the acceptors or of the network is assumed, and calls end by the
  bound on ballots per slot (`MaxBallotAttempts`, the code's `max_ballot_attempts`, 8
  there and 2 in the instance).
- `NativeLoglet!FairSpec`: weak fairness of the sequencer's gather and of each
  server's handling of puts, and *eventually* every retry has heard all servers
  (`<>[][Retry => RetryAfterAll]`).  This is the assumption under which
  `docs/learning-guide.md:133-136` states that an append is retried until a quorum
  commits or is sealed: servers come back.  Nothing is assumed of clients, which may
  seal one server and give up.

- `VirtualLog!FairSpec`: weak fairness of each call and of requests taking effect.
  Requests have timeouts, so an await ends with an answer or, by `Raise`, an exception;
  attempts are bounded in the code.  It is weak fairness of *some* request, not of each:
  a particular one may be lost.
- `KvReplication!FairSpec`: weak fairness of each call, and a command that is asked for
  gets into the log, which is `append`'s promise to a caller that is answered.
- `Controller`: none.  Whether a node becomes healthy is up to its process, so what is
  checked is that locks are held only by who can go on (`LocksAreReleased`).

## Proofs

All are checked by TLAPS from the `ASSUME`s of the modules alone: for Paxos and the
Loglet finite membership of at least three, a workload over the calls, finitely many
commands, which differ from "None"; for the VirtualLog a workload over calls, clients and
requests, and founders and eligible nodes that are nodes; for the KV service at least one
replica, a workload over calls, replicas and requests, and an `Absent` that is no value
and no result; for the Controller finitely many nodes, of which the MetaStore's are not
databases, and a workload over calls, operations and nodes.

**PaxosMetaStore**: `Spec => []TypeOK`, `[]NoSafetyError`, `[]Agreement`,
`[]DecisionsAreChosen`, for any number of members, calls, slots and ballots.  None
of these is inductive: an acceptor may answer a Prepare on which a proposer later
builds an Accept, so the proof needs to know what the messages and replies in
flight say of the acceptors.  `IInv` adds: an accepted pair is the last vote and
the promise covers it (`VotesInv`); a ballot is put to the vote with one value in one
slot (`OneRequestPerBallot`); ballots are reserved before they are used and by one
call only (`BallotsInv`); a value put to the vote is *safe*, that is at every lower
ballot a quorum has voted for it or will not vote at all (`RequestsAreSafe`); and
what a proposer holds in each phase (`ProposerInv`): promises stand, with the highest
vote below the ballot.  The main step shows that adopting the highest vote
of a quorum of promises yields a safe value; Agreement follows because two chosen
values would meet in a member of both quorums.  `PaxosSafetyProofs` proves types and the well-formedness of calls
first, then the rest with one lemma per action.

**NativeLoglet**: `Spec => []TypeOK`, `[]CopiesAgree`, for any members, clients,
workload, links, commands, restarts, torn reads and cancelled appends.  Agreement
of stored copies is not inductive either: a put that is still under way, or a copy
in the hands of a repairing client, could bring another command to a position.
`LogletInv` says that the sequencer gives positions away one by one and each once
(`PositionsInv`), that a round commits an entry with a position (`RoundInv`), and
that every copy, every put in `msgs` and every copy a repair has collected is at the
position given to its command (`EntriesInv`, `CallInv`).  Type correctness
carries weight here: a known tail is handed from answers to clients, requests,
servers and back to the sequencer, which sets its own from it, and must never pass the
positions there are; that needs a count of the positions given away.

**KvReplication**: `Spec => []StoresReplayLog`, `[]AnswersComeFromLog`, for any replicas,
joiners, calls, workload, keys, values and bounds.  Neither is inductive: a commit
copies the connection's view into the store, so one must know what the view is; the view
is what an entry makes of the store only if the store still is at the entry's
predecessor and nobody else is inside a transaction; and a snapshot is installed long
after it was exported.  `KvInv` says that the history `states` replays the log and every
row of `kv_applied_entries` is the result of its request (`StatesInv`); that stores *and*
snapshots in the hands of a bootstrap are what the log makes unless they skipped an entry
(`StoresInv`); that whoever waits or materializes aims at the entry of its own command and
is ahead of what is committed (`TargetsInv`); that the holder of the materializer's lock
is unique (`LockInv`); that the view is the committed store outside of a transaction,
and exactly what the entry makes inside (`ViewsInv`); and that a replica being
bootstrapped is neither serving nor used by another call (`PlacesInv`), without which a
snapshot could be installed over a transaction.  `KvProofs` has one lemma per action; the
heart is `AfterReplayed`, that applying the next entry to a store that replays the log
yields one that does, whether the request is new, repeated or refused.

**PaxosMetaStore, the log**: `[]ReplicasAgree`, `[]OneWinnerPerVersion`,
`[]AnswersAreFresh`, `[]ResultsAreKept`, `[]NoHoles` and `DurableStateOnlyGrows`.  `IInv`
speaks of each slot by itself; these are about the log.  `LogInv` says that a member's
register is the replay of its decided prefix, which ends at the first slot that it does
not know (`PrefixInv`); that a kept result is the outcome of an applied slot
(`ResultsInv`); that a call's slot follows its member's prefix, or is in it with a result
kept since (`SlotInv`); that what is put to the vote was sent by a client (`SentInv`);
that an answer is the outcome of the caller's command in a slot of some prefix
(`AnswerInv`); and, for a command that no other call sends, that some prefix had reached
the version reported before the call when the command was in none of its slots
(`FreshInv`).  The last is what makes freshness inductive: the command's slot can only be
a later one, and versions rise.  The properties then compare two members' prefixes, of
which one is a prefix of the other by Agreement.

**PaxosMetaStore, the register**: `ImplementsMetaStore`, that is `Spec` implies
`MetaStoreSpec`'s under the mapping that makes the history of what the *chosen* values of
the slots install, slot after slot, whether anybody has learnt them or not.  What is
installed is a recursive function of the slots; it exists, and is the same for equal logs,
by the same induction over sets (`InstallsExist`, `InstallsMeet`).  Only a vote chooses: an
accept request that was just sent has none yet (`SendAcceptChooses`).  A vote chooses at
most for its own slot, which by `NoHoles` is the first that nothing was chosen for
(`ChosenInOrder`), so its command is appended to the history or changes nothing
(`ChoiceInstalls`), and a client has sent it (`SentInv`): an `Install`, or a stutter.  An
answer is an `Answer`: the outcome of a slot in some member's prefix (`AnswerInv`), whose
registers are those of the history's prefixes (`ReplayInstalls`, `OutcomeIsTruthful`).
Every other step stutters.

**VersionRegister**: replaying any batch of commands passes through well-formed registers
(`ReplayType`), the same for equal logs and whether in one batch or several, with versions
that never go down.  A replay is a recursive function, and the induction theorems of the
library are out of the provers' reach; these are by induction over a *set* of numbers
(`SetInduction`, `StretchInduction`), which follows from the well-foundedness of `<`.

**VirtualLog**: `[]TypeOK`, `[]CachedIsInstalled`, `[]OneOwnerPerPosition`,
`[]TailsCoverAcks`, `[]AcksAreKept`, for any clients, calls, workload, policies, segments
and failures.  Chains are proposed long before they are installed, over a version that
may be outdated, by callers whose cache may have been taken back.  `ChainsInv` therefore
speaks of every segment ever installed: any two are one segment at one start, or one is
sealed and ends before the other begins (`SegmentsInv`); a proposal on its way keeps, closes
or reconfigures the segments of the version it names, and adds at most one that begins
behind a sealed active one (`ProposalsInv`); and whoever computes a proposal does so from a
snapshot that was installed, with a seal in hand where it closes (`CallsInv`).  When the
MetaStore accepts a proposal, the version it names is the newest, so its segments are
apart from all others: that is `OneOwnerPerPosition`.  An acknowledged command is in an
installed segment, which no install removes (`AcksInv`).  `AnswersInv` adds that chains
begin, and Loglets are trimmed, only where a `prefix_trim` asked for it (`HeadsInv`,
`TrimsInv`), and that what a `check_tail` must cover lies before the end of an installed
segment (`FloorsInv`): were it past the active one's, that segment would be closed.
`JoinsStay`, `ImplementsSharedLog` and `ZombiesStayHidden` cannot be proved for every
instance, for there are instances that violate them: two reconfigurations through one
client that overlap a join (finding 9), and reads behind the end of a segment (finding 2).
The next two paragraphs say which steps are to blame.

**VirtualLog, members**: `[]JoinsStay` under two hypotheses.  `JoinersEligible`: only nodes
that the manifest lists join, since the policy of a join keeps only those.
`[][SuccessorsFit]_vars`: a successor that was chosen has the listed members of the chain
that is cached when it is used; only finding 9's step is excluded, where the client's cache
moved between the choice and the use, so the theorem says that no other step drops a
node.  `MembersInv` says that every installed chain keeps the listed
members of all before it (`OrderInv`), that a proposal keeps those of the version it
names (`SuccessionInv`), that a call which reconfigures has not lost those of its snapshot
and has admitted the joiner (`Succeeds`), and that a confirmed join is in the version it was
confirmed with (`JoinedInv`).  The step that needs care is the answer of a join that
finds its node a member already: it confirms with a chain that somebody else installed.

**VirtualLog, the log**: `ImplementsSharedLog` and `[]ZombiesStayHidden` under the hypothesis
`[][CachesAdvance]_vars`: no client takes an older chain after a newer one.  The code does not
see to it: `_cached` is set to whatever an answer tells, which is the cause of finding 2, and
a `prefix_trim` that goes on with an older chain may end before all below its position is
removed.  The theorems say that this step is the only cause: late requests, races of
reconfigurations, stale answers that do not take a cache back, lost installations and
truncations beside reads all keep the log.
`SharedInv` says that installed segments leave no gap, since each begins at 0 or where a
sealed one with a smaller identifier ends, and that the active segment of a version is that
of every earlier one or behind it (`GaplessInv`); that only installed Loglets are written
and trimmed, and none beyond its tail (`UsedInv`, `Fits`); that a call's snapshot is one
that its client has cached by then (`LagsInv`, where the hypothesis is used); that a
`prefix_trim` stays below the end of the chain it goes through, and has removed everything
below its position when it truncates; that a read stays below it too, and has skipped only
what is removed (`Follower`); and that what callers were told is so (`Tells`).  The end of
the log is the end of the newest active segment.  Only there a Loglet can append
(`AppendImplements`: an `Add`); a Loglet's trim is a `Trim` or removes what others had
removed already (`TrimImplements`); an installed chain moves no end, because Loglets that no
chain has yet are empty (`InstallImplements`); an answer is an `Answer` (`CallImplements`); and
all else stutters.

**KvReplication, reads**: `[]GetsAreNotStale`, which `KvInv` does not imply: it knows what
the stores are, not which acknowledged commands a waiting call must have seen.
`FloorsInv` says that a `get`'s floor, the highest position acknowledged before it began,
is at most one past the entry that it waits for, and once it reads, at most one past the
entry that its replica's view has applied, unless a transaction that it saw was
rolled back.  The step that needs care is the end of a wait: the materializer has passed the
target, and a snapshot install, the only other way to move a store, happens only at
replicas that serve nobody.

**NativeLoglet, durable state**: `DurableStateOnlyGrows`.  A server's write is refused
below its watermark, and where it finds a copy it must agree with it; with `TrimmedInv`, that
nothing is left below the watermark, a trim removes exactly what it may.

**NativeLoglet, tails**: `[]KnownTailsAreCommitted` for any members, workload and bounds,
and, if no trim comes between the two queries of a server's state (`WholeReads`: states are
read whole, or no trim is asked for), `[]TailsCoverReports` and
`[]SealedTailsCoverCommits`.  A known tail stays true, since what a quorum covers (holds or
has trimmed) it covers for ever; but it travels, so `TailsInv` speaks of every tail that is
on its way: a server's, the sequencer's, in requests, answers and acknowledgements, and
those that a client has read or made of a repair (`ToldInv`, `CommitInv`, `HeardInv`).
Where a server tells of a tail or a client computes one, one must know that there is no
hole: behind a copy of its own, a server has every copy that no quorum has
(`ServersInv`), for it refuses a put after a hole unless the predecessor is known to be
committed, and a repair goes upward from a covered position.  `ReportsInv` adds two
things.  A quorum covers the last position reported before a `check_tail` began, and
each state that the call has read since shows it, so the tail made of a quorum of states
accounts for it (`FloorInv`).  And a sealed server never joins the storers of a round:
every position that is ever committed has a storer in the sealed quorum that was
read, which has shown it (`ClosedAt`, `Closed`, `ShownInv`).  Without `WholeReads` the
reports fail: a trim between the two queries hides what the first had not yet seen
(finding 7).

**Controller**: `[]TypeOK`, `[]PauseIsKnown`, `[]JoinedWereAdmitted`, `[]LocksAreReleased`
and `RetiredStayRetired`, for any nodes, calls and workload.  That locks are given back
needs to know what everybody who holds or awaits one is doing, and `gather` makes that
hard: it raises the first failure and leaves the other tasks running after their call has
ended.  `ControllerInv` says that a task goes on only while its call gathers it or after
that call has ended (`TaskInv`); that a task awaits `_lock` once, and that only the first
in the queue is past it (`QueueInv`); that the holder of `_deployment_lock` is under way
and, since a reset has just cleared the manifest, has no join to take up, for which it
would await its own lock (`DeploymentInv`); and that a reset that stops the old cluster
still has identifiers that no node has (`ResetInv`), since only under that lock are
nodes listed.  A gather's order is an arbitrary enumeration of its nodes (`InOrder`);
that it starts each once is again by induction over a set of numbers.
`LiveProcessesAreHeld` has a hypothesis, `[][ResetFindsAllDown]_vars`: when a reset
clears the tables, no process that they list is running.  Without it the property is
false, for a `resume` beside a reset starts a process after the reset has stopped it (see
*Not modelled*).  The theorem says that this is the only way: launches, kills, stops, exits
and restarts lose no process.  `HeldInv` is the invariant: who launches has the lock, and
nothing of the node runs meanwhile, so the record that a launch replaces is of a dead
process; and a process leaves `_processes` only with a task that awaits its end.

`IInv`, `LogletInv`, `KvInv`'s and `ChainsInv`'s conclusions are properties of runs;
`IInv` and `LogletInv` are invariants of `paxos_rivals` and `loglet_open` themselves, and
the others were checked on the same instances before they were proved, `TailsInv` and
`ReportsInv` on those of `loglet_open` and `loglet_sealed`, `HeldInv` also on one with a
`resume` beside a reset, `MembersInv` on ones where finding 9 is possible, and `SharedInv` on
ones where finding 2 is, where only steps that meet the hypothesis are taken.

*Only model-checked*: the liveness properties `CallsEnd` and `AppendsEnd` (the
prover handles neither fairness nor ENABLED); for the Loglet the two properties of reports
where a trim may come between the queries of a state; for the VirtualLog `JoinsStay` where
a client's cache moves between the choice of a successor and its use, and
`ImplementsSharedLog` where an answer takes it back, on an instance where neither does harm.

## Findings

Those with a run are violated properties of `PROJECT.json`; the others are found with
the configuration that is named, and left out of the runs.

1. *A failed assertion in the sequencer* (`loglet_contiguous`, `sequencer.py:89`).
   "sequencer committed prefix is not contiguous" is raised although nothing is
   wrong with the prefix.  A round is stored by a quorum but its answers are lost; a
   `check_tail` reports that copy as committed; the tail reaches a server with a later
   request, and the sequencer with the answer to the retried put.  The entry stays
   pending, so other appends raise as well until the segment is sealed.
2. *A read behind the end of a segment* (`virtual_zombie`, `core.py:69`).  The cached
   chain is set to whatever an answer tells, without a look at its version.  A late
   answer takes it back to a chain in which a sealed segment is still open, and a read
   finds there what an append left behind the end instead of the acknowledged command.
   `virtual_log` does not contain the case: it reads a position within the first
   segment only, and there no late answer does harm.  Where the cache never goes back, the
   property is proved (`ZombiesHidden`).
3. *A read inside another's transaction* (`kv_dirty_read`, `sqlite_store.py:306`).
   `apply` empties `kv_items` and fills it again; reads on the same connection take no
   lock and may find acknowledged keys absent.  The same connection lets `sync` see an
   `applied_position` that is then rolled back, after which its `get` may be stale.
4. *A killed node that runs on* (`controller_kill`, `process_manager.py:246`).  A
   `resume` between the end of a killed process and its retirement launches it again;
   the node is then retired while it runs, and nothing but a stop of all ends it.
5. *A read that is not a new slot* (`paxos_stale_read`, `proposer.py:151`).  Read
   barriers are equal values, so a proposer at a lagging member takes a slot decided for
   another read for its own and returns that older snapshot.
6. *An append acknowledged after the seal* (`sequencer.py:51`; `MCLogletLateAck.cfg`
   violates `SealedTailsCoverAcks`).  The shortcut for a repeated append answers from the
   known tail without asking a server.  With two sealed `check_tail`s through different
   majorities, one of which repaired an entry that the other never saw, an append is
   acknowledged beyond a reported sealed tail.
7. *A torn state* (`sqlite_store.py:200`; `MCLogletTornRead.cfg` violates
   `TailsCoverReports`).  `state()` reads the watermark and the last entry in two queries
   without the store's lock; a trim between them makes the local tail go back.
8. *An append that never ends* (`sequencer.py:74`; `MCLogletTrimmedUnder.cfg` violates
   `AppendsEnd`).  When the pending entry was stored, reported and trimmed while its
   answers were lost, every retry is refused as trimmed, which the loop counts as neither.
9. *A confirmed join undone* (`core.py:169`; `MCVirtualLogJoin.cfg` violates
   `JoinsStay`).  At one process an append's successor is chosen for the chain before a
   join, and installed over the chain that the same object cached after it: the joined
   node is not in the new active segment.

## Not modelled

The HTTP encoding, SQLite's table layout, the command lines, demonstrations, the
proxy, the collection of states for display and the web console hold no protocol of
their own.  What does, and is left out:
- *MetaStore client*: of its retries over peers, only their outcomes are in
  `VirtualLog`: an older version, a mismatch with the caller's own installation.
- *LogServer*: reads of a transaction not yet committed on the shared connection, the
  condition variable behind `wait_for_tail` (here a wake-up may come at any time), and
  the creation of a segment's row.
- *Sequencer registry*: its queue and its answers to callers of other commands.
- *NativeLoglet on VirtualLog*: the cache of runtimes per configuration.
- *Replacement*: the copying of a sealed segment to another server; only the
  `reconfig_modify` at its end is.
- *KV service*: invalid payloads, checksums, and two connections to one database file
  (SQLite's BUSY).  A serving replica that lags behind a trim skips what was removed
  (`NothingSkipped` fails): nothing in the runtime trims the log, and the properties
  speak of stores that skipped nothing.
- *Controller*: command lines, ports, log files, and a crash in the middle of a reset's
  file operations.  The instance has no `resume` while a reset runs: one that has passed
  its check before the reset clears the manifest starts a process of the old cluster,
  with which `LiveProcessesAreHeld` fails.

## Plan

In order of importance:

1. **LogServer store** and **sequencer registry**: uncommitted reads, `wait_for_tail`'s
   wake-ups, a failure handed to waiting callers; the retries of the **MetaStore client**.
2. **Membership change**: replacement of a server of a sealed segment.

Each gets a type invariant, a few properties aimed at the hazards listed for it in
`PROJECT.json`, and, where the argument is inductive and of use, a proof in a module
of its own.
