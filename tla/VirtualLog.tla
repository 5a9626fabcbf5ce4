------------------------------ MODULE VirtualLog ------------------------------
(***************************************************************************)
(* The log that clients see: a chain of segments, kept under a version in  *)
(* the MetaStore, each of them stored by a Loglet.  Every client (one      *)
(* VirtualLog object per process) works with the chain it cached; its      *)
(* operations run concurrently and an await is where one step ends.        *)
(* Loglets and MetaStore are here what they promise (virtual_log/loglet.py *)
(* and MetaStoreSpec): a request may take effect at any time after it was  *)
(* made, also when its caller has given up; a refresh may be late.         *)
(***************************************************************************)
EXTENDS Integers, Sequences, FiniteSets

CONSTANTS
  Client,        \* the VirtualLog objects, one per process
  Call,          \* the operations that clients ever begin
  Workload,      \* what they may begin: <<call, client, request>>
  Command,       \* the commands that are ever appended
  Node,          \* the storage nodes
  Founders,      \* the nodes that store the first segment
  Eligible,      \* the nodes that the manifest lists as active
  NoCall,        \* nobody holds the lock
  MaxAttempts,   \* max_reconfiguration_attempts, and max_attempts of join
  MaxSegment,    \* bound: the segments that are ever configured
  MaxFailures,   \* bound: exceptions and cancellations at an await
  StaleReads     \* whether a refresh may be told any older version, as a MetaStore
                 \* peer that lags does, or one current since it was asked

ASSUME SegmentAssumption == MaxSegment \in Nat
ASSUME NodeAssumption == Founders \subseteq Node /\ Founders # {} /\ Eligible \subseteq Node
ASSUME NoCallAssumption == NoCall \notin Call
ASSUME AttemptAssumption == MaxAttempts \in Nat \ {0} /\ MaxFailures \in Nat

Position == Nat
Segment == 1..MaxSegment
Open == -1       \* "virtual_stop=None"

\* The opaque configuration, as the NativeLoglet adapter reads it.
Config == [members : SUBSET Node, sequencer : Node]

Request ==
  [op : {"append"}, command : Command]
    \cup [op : {"bootstrap", "seal", "check_tail"}]
    \cup [op : {"trim"}, position : Position]
    \cup [op : {"read"}, from : Position, to : Position]
    \cup [op : {"join"}, node : Node]
    \cup [op : {"modify"}, segment : Segment, config : Config]

ASSUME WorkloadAssumption == Workload \subseteq Call \X Client \X Request

VARIABLES
  history,    \* the MetaStore: the chain installed as version v is history[v]
  log,        \* per Loglet: the commands it appended, in order
  sealed,     \* the Loglets that are sealed
  trimmed,    \* per Loglet: the local position below which entries are removed
  cached,     \* per client: the snapshot it works with
  lock,       \* per client: who holds its _reconfigure_lock
  call,       \* per call: how far its operation is
  msgs,       \* the requests to MetaStore and Loglets; never removed, so any may be late
  made,       \* the segment identifiers given so far (uuid4: never one twice)
  failures,   \* the exceptions so far
  answers     \* history: what callers were told

loglets == <<log, sealed, trimmed>>
vars == <<history, loglets, cached, lock, call, msgs, made, failures, answers>>
-----------------------------------------------------------------------------
(* Chains.                                                                 *)

SegmentOf(id, start, config) ==
  [id |-> id, start |-> start, stop |-> Open, config |-> config]

Active(chain) == chain[Len(chain)]
First(chain) == chain[1]

ValidChain(chain) ==
  /\ chain # <<>>
  /\ \A i, j \in DOMAIN chain : chain[i].id = chain[j].id => i = j
  /\ \A i \in 1..(Len(chain) - 1) : chain[i].stop # Open /\ chain[i + 1].start = chain[i].stop
  /\ Active(chain).stop = Open

Covers(segment, p) == segment.start <= p /\ (segment.stop = Open \/ p < segment.stop)

\* The chain whose active segment is closed at stop and has a successor.
Extended(chain, stop, id, config) ==
  [i \in 1..(Len(chain) + 1) |->
     IF i < Len(chain) THEN chain[i]
     ELSE IF i = Len(chain) THEN [chain[i] EXCEPT !.stop = stop]
     ELSE SegmentOf(id, stop, config)]

Larger(m, n) == IF m >= n THEN m ELSE n
Smaller(m, n) == IF m <= n THEN m ELSE n

Uninstalled == [version |-> 0, chain |-> <<>>]
Version(v) == [version |-> v, chain |-> IF v = 0 THEN <<>> ELSE history[v]]

AppendTo(id, command) == [type |-> "append", segment |-> id, command |-> command]
SealOf(id) == [type |-> "seal", segment |-> id]
TrimOf(id, target) == [type |-> "trim", segment |-> id, target |-> target]
InstallOf(expected, chain) == [type |-> "install", expected |-> expected, chain |-> chain]

Idle == [pc |-> "idle", client |-> CHOOSE k \in Client : TRUE, request |-> [op |-> "none"],
         attempt |-> 1, snapshot |-> Uninstalled, candidate |-> <<>>, why |-> "none",
         config |-> [members |-> {}, sequencer |-> CHOOSE n \in Node : TRUE],
         index |-> 1, asked |-> 0, floor |-> 0]

Init ==
  /\ history = <<>>
  /\ log = [s \in Segment |-> <<>>]
  /\ sealed = {}
  /\ trimmed = [s \in Segment |-> 0]
  /\ cached = [k \in Client |-> Uninstalled]
  /\ lock = [k \in Client |-> NoCall]
  /\ call = [c \in Call |-> Idle]
  /\ msgs = {}
  /\ made = 0
  /\ failures = 0
  /\ answers = {}
-----------------------------------------------------------------------------
(* MetaStore and Loglets: when requests take effect.                       *)

\* Faulty: installs over any version.
InstallOver(m) ==
  /\ m.type = "install"
  /\ m.chain \notin {history[v] : v \in DOMAIN history}
  /\ history' = Append(history, m.chain)
  /\ UNCHANGED <<loglets, cached, lock, call, msgs, made, failures, answers>>

Install(m) ==
  /\ m.type = "install" /\ m.expected = Len(history)
  /\ history' = Append(history, m.chain)
  /\ UNCHANGED <<loglets, cached, lock, call, msgs, made, failures, answers>>

\* A Loglet appends a command once, however often it is asked to.
LogletAppends(m) ==
  /\ m.type = "append" /\ m.segment \notin sealed
  /\ \A i \in DOMAIN log[m.segment] : log[m.segment][i] # m.command
  /\ log' = [log EXCEPT ![m.segment] = Append(@, m.command)]
  /\ UNCHANGED <<history, sealed, trimmed, cached, lock, call, msgs, made, failures, answers>>

LogletSeals(m) ==
  /\ m.type = "seal" /\ m.segment \notin sealed
  /\ sealed' = sealed \cup {m.segment}
  /\ UNCHANGED <<history, log, trimmed, cached, lock, call, msgs, made, failures, answers>>

LogletTrims(m) ==
  /\ m.type = "trim" /\ m.target > trimmed[m.segment]
  /\ trimmed' = [trimmed EXCEPT ![m.segment] = m.target]
  /\ UNCHANGED <<history, log, sealed, cached, lock, call, msgs, made, failures, answers>>
-----------------------------------------------------------------------------
(* The steps of a client's operations.                                     *)

Running(c) == call[c].pc \notin {"idle", "done", "failed"}
ClientOf(c) == call[c].client
Cached(c) == cached[ClientOf(c)]
Target(c) == Active(call[c].snapshot.chain)   \* the segment that the operation is about

\* Call c awaits the answer to the requests that it makes in this step.
Await(c, state, requests) ==
  /\ call' = [call EXCEPT ![c] = state]
  /\ msgs' = msgs \cup requests

Finish(c, told) ==
  /\ call' = [call EXCEPT ![c] = [Idle EXCEPT !.pc = "done", !.client = call[c].client,
                                              !.request = call[c].request]]
  /\ answers' = answers \cup told
  /\ UNCHANGED msgs

Fail(c) ==
  /\ call' = [call EXCEPT ![c] = [Idle EXCEPT !.pc = "failed", !.client = call[c].client,
                                              !.request = call[c].request]]
  /\ UNCHANGED <<msgs, answers>>

\* append and check_tail go to the active segment of the chain cached now.
Try(c, state, snapshot) ==
  /\ IF state.request.op = "append"
       THEN Await(c, [state EXCEPT !.pc = "append", !.snapshot = snapshot, !.why = "none"],
                  {AppendTo(Active(snapshot.chain).id, state.request.command)})
       ELSE Await(c, [state EXCEPT !.pc = "tail", !.snapshot = snapshot, !.why = "none"], {})
  /\ UNCHANGED answers

Retry(c, snapshot) == Try(c, [call[c] EXCEPT !.attempt = @ + 1], snapshot)

\* What was acknowledged before: a tail told later must cover it.
AckedTail ==
  LET acked == {a.position : a \in {b \in answers : b.kind = "append"}}
  IN  IF acked = {} THEN 0 ELSE 1 + CHOOSE p \in acked : \A q \in acked : q <= p

\* reconfig_extend: seals first.
Extend(c, state, snapshot, config) ==
  /\ Await(c, [state EXCEPT !.pc = "seal", !.snapshot = snapshot, !.config = config],
           {SealOf(Active(snapshot.chain).id)})
  /\ UNCHANGED answers

Propose(c, state, snapshot, chain) ==
  /\ ValidChain(chain)
  /\ Await(c, [state EXCEPT !.pc = "install", !.snapshot = snapshot, !.candidate = chain],
           {InstallOf(snapshot.version, chain)})
  /\ UNCHANGED answers

InitialConfig == [members |-> Founders, sequencer |-> CHOOSE n \in Founders : TRUE]

Modified(chain, i, config) == [chain EXCEPT ![i].config = config]

\* An operation starts; all but bootstrap and join need a chain that was cached before.
NewCall(k, request) ==
  [Idle EXCEPT !.client = k, !.request = request, !.floor = AckedTail, !.asked = Len(history)]

BeginBootstrap(c, k, request) ==
  /\ request.op = "bootstrap" /\ made < MaxSegment
  /\ made' = made + 1
  /\ Propose(c, NewCall(k, request), Uninstalled, <<SegmentOf(made + 1, 0, InitialConfig)>>)

BeginJoin(c, k, request) ==
  /\ request.op = "join"
  /\ Await(c, [NewCall(k, request) EXCEPT !.pc = "refresh"], {})
  /\ UNCHANGED <<made, answers>>

BeginSeal(c, k, request) ==
  /\ request.op = "seal" /\ cached[k].chain # <<>>
  /\ Extend(c, NewCall(k, request), cached[k], InitialConfig)
  /\ UNCHANGED made

BeginOnActive(c, k, request) ==
  /\ request.op \in {"append", "check_tail", "trim"} /\ cached[k].chain # <<>>
  /\ request.op = "trim" => request.position > First(cached[k].chain).start
  /\ Try(c, NewCall(k, request), cached[k])
  /\ UNCHANGED made

\* The KV service reads what lies below a tail that its client was told, or through its own append.
ToldTails(k) ==
  {a.position : a \in {b \in answers : b.kind = "tail" /\ b.client = k /\ ~b.sealed}}
    \cup {a.position + 1 : a \in {b \in answers : b.kind = "append" /\ b.client = k}}

BeginRead(c, k, request) ==
  /\ request.op = "read" /\ \E t \in ToldTails(k) : request.to <= t
  /\ Await(c, [NewCall(k, request) EXCEPT !.pc = "read", !.snapshot = cached[k]], {})
  /\ UNCHANGED <<made, answers>>

\* reconfig_modify: only a closed segment, and only to another configuration.
BeginModify(c, k, request) ==
  /\ request.op = "modify"
  /\ \E i \in 1..(Len(cached[k].chain) - 1) :
       /\ cached[k].chain[i].id = request.segment /\ cached[k].chain[i].config # request.config
       /\ Propose(c, NewCall(k, request), cached[k], Modified(cached[k].chain, i, request.config))
  /\ UNCHANGED made

Begin(c, k, request) ==
  /\ call[c].pc = "idle"
  /\ \/ BeginBootstrap(c, k, request)
     \/ BeginJoin(c, k, request)
     \/ BeginSeal(c, k, request)
     \/ BeginOnActive(c, k, request)
     \/ BeginRead(c, k, request)
     \/ BeginModify(c, k, request)
  /\ UNCHANGED <<history, loglets, cached, lock, failures>>

\* Faulty: nobody releases the lock.
UnlockedNever(c) == UNCHANGED lock

\* The lock is released however the call leaves it.
Unlocked(c) == lock' = [lock EXCEPT ![ClientOf(c)] = IF @ = c THEN NoCall ELSE @]

\* At an await: a Loglet without quorum, a MetaStore without quorum, the caller cancelled,
\* the process stopped.  The request may still take effect.
Raise(c) ==
  /\ Running(c) /\ failures < MaxFailures
  /\ failures' = failures + 1
  /\ Fail(c)
  /\ Unlocked(c)
  /\ UNCHANGED <<history, loglets, cached, made>>
-----------------------------------------------------------------------------
(* append and check_tail.                                                  *)

AppendAnswered(c) ==
  /\ call[c].pc = "append"
  /\ \E i \in DOMAIN log[Target(c).id] :
       /\ log[Target(c).id][i] = call[c].request.command
       /\ Finish(c, {[kind |-> "append", client |-> ClientOf(c), command |-> call[c].request.command,
                      position |-> Target(c).start + i - 1]})
  /\ UNCHANGED <<history, loglets, cached, lock, made, failures>>

\* The last attempt ends the call, others wait for the lock.
GoRecover(c, why) ==
  IF call[c].attempt = MaxAttempts
    THEN Fail(c)
    ELSE /\ Await(c, [call[c] EXCEPT !.pc = "lock", !.why = why], {})
         /\ UNCHANGED answers

\* LogletSealed, which also an append may get that did take effect.
AppendRefused(c) ==
  /\ call[c].pc = "append" /\ Target(c).id \in sealed
  /\ GoRecover(c, "sealed")
  /\ UNCHANGED <<history, loglets, cached, lock, made, failures>>

\* LogletUnavailable: the sequencer does not answer, or no longer owns the segment.
Unavailable(c) ==
  /\ call[c].pc \in {"append", "tail"} /\ failures < MaxFailures
  /\ failures' = failures + 1
  /\ GoRecover(c, "unavailable")
  /\ UNCHANGED <<history, loglets, cached, lock, made>>

\* What check_tail returns goes to its caller, or to the prefix_trim it is a part of.
TailReturned(c, tail, isSealed) ==
  IF call[c].request.op = "check_tail"
    THEN Finish(c, {[kind |-> "tail", client |-> ClientOf(c), position |-> tail, sealed |-> isSealed,
                      floor |-> call[c].floor]})
    ELSE IF call[c].request.position > tail
    THEN Fail(c)
    ELSE /\ Await(c, [call[c] EXCEPT !.pc = "trim", !.snapshot = Cached(c), !.index = 0,
                                     !.attempt = 1], {})
         /\ UNCHANGED answers

\* Faulty: the tail of a sealed segment is returned as the tail of the log.
TailReturnedSealed(c) ==
  /\ call[c].pc = "tail"
  /\ TailReturned(c, Target(c).start + Len(log[Target(c).id]), FALSE)
  /\ UNCHANGED <<history, loglets, cached, lock, made, failures>>

TailAnswered(c) ==
  /\ call[c].pc = "tail"
  /\ LET tail == Target(c).start + Len(log[Target(c).id])
     IN  IF Target(c).id \notin sealed
           THEN TailReturned(c, tail, FALSE)
           ELSE IF call[c].attempt = MaxAttempts
           THEN TailReturned(c, tail, TRUE)
           ELSE GoRecover(c, "sealed")
  /\ UNCHANGED <<history, loglets, cached, lock, made, failures>>
-----------------------------------------------------------------------------
(* _roll_forward, _replace_unavailable and reconfig_extend.                *)

StillActive(c, snapshot) == Active(snapshot.chain).id = Target(c).id

\* Inside the lock: whoever held it before may have replaced the segment already.
TakeLock(c) ==
  /\ call[c].pc = "lock" /\ lock[ClientOf(c)] = NoCall
  /\ IF StillActive(c, Cached(c))
       THEN /\ lock' = [lock EXCEPT ![ClientOf(c)] = c]
            /\ Await(c, [call[c] EXCEPT !.pc = "refresh", !.asked = Len(history)], {})
            /\ UNCHANGED answers
       ELSE /\ Retry(c, Cached(c))
            /\ UNCHANGED lock
  /\ UNCHANGED <<history, loglets, cached, made, failures>>

\* The versions that a refresh may be told.
Told(c) == (IF StaleReads THEN 0 ELSE call[c].asked)..Len(history)

Successors(config) ==
  {[config EXCEPT !.sequencer = n] : n \in config.members \ {config.sequencer}}

Joined(config, node) ==
  [members |-> (config.members \cap Eligible) \cup {node}, sequencer |-> node]

\* ChainUnavailable: the MetaStore knows of no chain.
RefreshedEmpty(c) ==
  /\ call[c].pc \in {"refresh", "grace"} /\ 0 \in Told(c)
  /\ Fail(c)
  /\ Unlocked(c)
  /\ UNCHANGED <<history, loglets, cached, made, failures>>

\* The answer to a refresh.
Refreshed(c) ==
  /\ call[c].pc = "refresh"
  /\ \E v \in Told(c) \ {0} :
       LET config == Active(history[v]).config
       IN
       /\ cached' = [cached EXCEPT ![ClientOf(c)] = Version(v)]
       /\ IF call[c].request.op = "join"
            THEN /\ IF call[c].request.node \in config.members
                      THEN Finish(c, {[kind |-> "join", node |-> call[c].request.node, version |-> v]})
                      ELSE Extend(c, call[c], Version(v), Joined(config, call[c].request.node))
                 /\ UNCHANGED lock
            ELSE IF ~StillActive(c, Version(v))
            THEN Retry(c, Version(v)) /\ Unlocked(c)
            ELSE /\ Await(c, [call[c] EXCEPT !.pc = IF call[c].why = "sealed" THEN "grace" ELSE "successor",
                                             !.config = config], {})
                 /\ UNCHANGED <<answers, lock>>
  /\ UNCHANGED <<history, loglets, made, failures>>

\* After the grace period: the answer to a second refresh.
GraceOver(c) ==
  /\ call[c].pc = "grace"
  /\ \E v \in Told(c) \ {0} :
       /\ cached' = [cached EXCEPT ![ClientOf(c)] = Version(v)]
       /\ IF StillActive(c, Version(v))
            THEN Extend(c, call[c], Version(v), Active(history[v]).config) /\ UNCHANGED lock
            ELSE Retry(c, Version(v)) /\ Unlocked(c)
  /\ UNCHANGED <<history, loglets, made, failures>>

\* The policy has found a live node; the chain cached may have changed meanwhile.
SuccessorFound(c) ==
  /\ call[c].pc = "successor"
  /\ \E config \in Successors(call[c].config) : Extend(c, call[c], Cached(c), config)
  /\ UNCHANGED <<history, loglets, cached, lock, made, failures>>

\* Faulty: does not await the seal.
SealNotAwaited(c) ==
  /\ call[c].pc = "seal"
  /\ IF call[c].request.op = "seal"
       THEN Finish(c, {})
       ELSE Await(c, [call[c] EXCEPT !.pc = "sealed_tail"], {}) /\ UNCHANGED answers
  /\ UNCHANGED <<history, loglets, cached, lock, made, failures>>

\* seal() ends here, reconfig_extend goes on to look for the tail.
SealAnswered(c) ==
  /\ call[c].pc = "seal" /\ Target(c).id \in sealed
  /\ IF call[c].request.op = "seal"
       THEN Finish(c, {})
       ELSE Await(c, [call[c] EXCEPT !.pc = "sealed_tail"], {}) /\ UNCHANGED answers
  /\ UNCHANGED <<history, loglets, cached, lock, made, failures>>

\* Faulty: installs over the newest version, whatever chain it has read.
ExtendCached(c) ==
  /\ call[c].pc = "sealed_tail" /\ made < MaxSegment
  /\ LET tail == Target(c).start + Len(log[Target(c).id])
     IN  Propose(c, call[c], [version |-> Len(history), chain |-> call[c].snapshot.chain],
                 Extended(call[c].snapshot.chain, tail, made + 1, call[c].config))
  /\ made' = made + 1
  /\ UNCHANGED <<history, loglets, cached, lock, failures>>

SealedTailAnswered(c) ==
  /\ call[c].pc = "sealed_tail" /\ made < MaxSegment
  /\ LET tail == Target(c).start + Len(log[Target(c).id])
     IN  Propose(c, call[c], call[c].snapshot,
                 Extended(call[c].snapshot.chain, tail, made + 1, call[c].config))
  /\ made' = made + 1
  /\ UNCHANGED <<history, loglets, cached, lock, failures>>
-----------------------------------------------------------------------------
(* prefix_trim, and the answer of the MetaStore to an installation.        *)

\* The loop of prefix_trim over reconfig_truncate, with the chain cached now.
Truncate(c, state, snapshot) ==
  LET chain == snapshot.chain
      size == First(chain).stop - First(chain).start
  IN  IF /\ state.attempt <= MaxAttempts
         /\ Len(chain) > 1 /\ First(chain).stop <= state.request.position
        THEN /\ Await(c, [state EXCEPT !.pc = "drop", !.snapshot = snapshot],
                      {TrimOf(First(chain).id, size)})
             /\ UNCHANGED answers
        ELSE Finish(c, {[kind |-> "trim", position |-> Larger(state.request.position, First(chain).start)]})

\* How many positions of a segment are below n, which it begins below.
TrimTarget(segment, n) ==
  (IF segment.stop = Open \/ n < segment.stop THEN n ELSE segment.stop) - segment.start

\* One segment of the snapshot after the other is trimmed, as far as the target reaches.
TrimNext(c) ==
  LET chain == call[c].snapshot.chain
      i == call[c].index
      n == call[c].request.position
  IN
  /\ call[c].pc = "trim"
  /\ i > 0 => trimmed[chain[i].id] >= TrimTarget(chain[i], n)
  /\ IF i < Len(chain) /\ chain[i + 1].start < n
       THEN /\ Await(c, [call[c] EXCEPT !.index = i + 1],
                     {TrimOf(chain[i + 1].id, TrimTarget(chain[i + 1], n))})
            /\ UNCHANGED answers
       ELSE Truncate(c, call[c], Cached(c))
  /\ UNCHANGED <<history, loglets, cached, lock, made, failures>>

\* The first segment is trimmed to its end and leaves the chain.
Drop(c) ==
  LET chain == call[c].snapshot.chain
  IN
  /\ call[c].pc = "drop"
  /\ trimmed[First(chain).id] >= First(chain).stop - First(chain).start
  /\ Propose(c, call[c], call[c].snapshot, Tail(chain))
  /\ UNCHANGED <<history, loglets, cached, lock, made, failures>>

\* After an installation, won or lost.
Proceed(c, snapshot, won) ==
  IF call[c].why # "none" THEN Retry(c, snapshot)
  ELSE
  CASE call[c].request.op = "trim" -> Truncate(c, [call[c] EXCEPT !.attempt = @ + 1], snapshot)
    [] call[c].request.op = "join" ->
         IF won THEN Finish(c, {[kind |-> "join", node |-> call[c].request.node, version |-> snapshot.version]})
         ELSE IF call[c].attempt = MaxAttempts THEN Fail(c)
         ELSE /\ Await(c, [call[c] EXCEPT !.pc = "refresh", !.attempt = @ + 1, !.asked = Len(history)], {})
              /\ UNCHANGED answers
    [] OTHER -> Finish(c, {})

\* Faulty: the loser of an installation keeps its own chain.
InstallAnsweredOwn(c) ==
  /\ call[c].pc = "install"
  /\ \E v \in (call[c].snapshot.version + 1)..Len(history) :
       LET mine == [version |-> v, chain |-> call[c].candidate]
       IN  /\ cached' = [cached EXCEPT ![ClientOf(c)] = mine]
           /\ Proceed(c, mine, TRUE)
  /\ Unlocked(c)
  /\ UNCHANGED <<history, loglets, made, failures>>

\* Faulty: takes the version it asked for as installed without the answer.
InstallAssumed(c) ==
  /\ call[c].pc = "install"
  /\ LET mine == [version |-> call[c].snapshot.version + 1, chain |-> call[c].candidate]
     IN  /\ cached' = [cached EXCEPT ![ClientOf(c)] = mine]
         /\ Proceed(c, mine, TRUE)
  /\ Unlocked(c)
  /\ UNCHANGED <<history, loglets, made, failures>>

\* Applied, or the version that the chain had instead.  A client that asked a second peer
\* because the first did not answer may be told of a mismatch with its own chain.
InstallAnswered(c) ==
  /\ call[c].pc = "install"
  /\ \E v \in (call[c].snapshot.version + 1)..Len(history) :
       /\ cached' = [cached EXCEPT ![ClientOf(c)] = Version(v)]
       /\ \E won \in {FALSE} \cup {v = call[c].snapshot.version + 1 /\ history[v] = call[c].candidate} :
            Proceed(c, Version(v), won)
  /\ Unlocked(c)
  /\ UNCHANGED <<history, loglets, made, failures>>
-----------------------------------------------------------------------------
(* read_next: the segments of the cached chain, one after the other.       *)

\* Faulty: reads a closed segment past its stop.
OpenRange(c, segment) ==
  LET from == Larger(call[c].request.from, segment.start)
  IN  (from - segment.start)..(call[c].request.to - segment.start - 1)

\* The local positions of the segment that the call asks for.
LocalRange(c, segment) ==
  LET from == Larger(call[c].request.from, segment.start)
      to == IF segment.stop = Open THEN call[c].request.to
            ELSE Smaller(call[c].request.to, segment.stop)
  IN  (from - segment.start)..(to - segment.start - 1)

\* What a Loglet may return for a local position: the entry, and behind the tail of a sealed
\* one what an append left on some server.
Readable(id, p) ==
  IF p < trimmed[id] THEN {}
  ELSE IF p < Len(log[id]) THEN {log[id][p + 1]}
  ELSE {m.command : m \in {n \in msgs : /\ n.type = "append" /\ n.segment = id /\ id \in sealed
                                        /\ p = Len(log[id])
                                        /\ \A i \in DOMAIN log[id] : log[id][i] # n.command}}

ReadNext(c) ==
  LET chain == call[c].snapshot.chain
      segment == chain[call[c].index]
      found == {p \in LocalRange(c, segment) : Readable(segment.id, p) # {}}
  IN
  /\ call[c].pc = "read"
  /\ IF call[c].index > Len(chain)
       THEN Finish(c, {})
       ELSE IF found = {}
       THEN Await(c, [call[c] EXCEPT !.index = @ + 1], {}) /\ UNCHANGED answers
       ELSE LET p == CHOOSE q \in found : \A r \in found : q <= r
            IN  \E k \in Readable(segment.id, p) :
                  Finish(c, {[kind |-> "read", from |-> call[c].request.from,
                              position |-> segment.start + p, command |-> k]})
  /\ UNCHANGED <<history, loglets, cached, lock, made, failures>>
-----------------------------------------------------------------------------
Step(c) ==
  \/ AppendAnswered(c) \/ AppendRefused(c) \/ TailAnswered(c)
  \/ TakeLock(c) \/ RefreshedEmpty(c) \/ Refreshed(c) \/ GraceOver(c) \/ SuccessorFound(c)
  \/ SealAnswered(c) \/ SealedTailAnswered(c) \/ InstallAnswered(c)
  \/ TrimNext(c) \/ Drop(c) \/ ReadNext(c)

Effect(m) == Install(m) \/ LogletAppends(m) \/ LogletSeals(m) \/ LogletTrims(m)

Next ==
  \/ \E w \in Workload : Begin(w[1], w[2], w[3])
  \/ \E c \in Call : Step(c) \/ Unavailable(c) \/ Raise(c)
  \/ \E m \in msgs : Effect(m)

Spec == Init /\ [][Next]_vars

\* Every request is handled and answered or the await raises; see the README.
FairSpec ==
  /\ Spec
  /\ \A c \in Call : WF_vars(Step(c))
  /\ WF_vars(\E m \in msgs : Effect(m))
-----------------------------------------------------------------------------
(* Types.                                                                  *)

SegmentRecord == [id : Segment, start : Nat, stop : Nat \cup {Open}, config : Config]
Chain == {chain \in Seq(SegmentRecord) : ValidChain(chain)}
Snapshot == [version : Nat, chain : Chain \cup {<<>>}]

Message ==
  [type : {"append"}, segment : Segment, command : Command]
    \cup [type : {"seal"}, segment : Segment]
    \cup [type : {"trim"}, segment : Segment, target : Nat]
    \cup [type : {"install"}, expected : Nat, chain : Chain]

TypeOK ==
  /\ \A v \in DOMAIN history : ValidChain(history[v])
  /\ \A v \in DOMAIN history : \A i \in DOMAIN history[v] : history[v][i] \in SegmentRecord
  /\ \A s \in Segment : \A i \in DOMAIN log[s] : log[s][i] \in Command
  /\ sealed \subseteq Segment
  /\ trimmed \in [Segment -> Nat]
  /\ \A k \in Client : cached[k].version \in 0..Len(history)
  /\ lock \in [Client -> Call \cup {NoCall}]
  /\ made \in 0..MaxSegment
  /\ failures \in 0..MaxFailures
-----------------------------------------------------------------------------
(* Properties.                                                             *)

\* The written positions of a segment: an open one has those of its Loglet.
Written(segment) ==
  segment.start..((IF segment.stop = Open THEN segment.start + Len(log[segment.id]) ELSE segment.stop) - 1)

Installed == UNION {{history[v][i] : i \in DOMAIN history[v]} : v \in DOMAIN history}

\* No two chains that were ever installed send a written position to different Loglets, or to
\* different places of one: core.py seals, then asks for the tail, then installs.
OneOwnerPerPosition ==
  \A s, t \in Installed :
    /\ s.id = t.id => s.start = t.start /\ (s.stop # Open /\ t.stop # Open => s.stop = t.stop)
    /\ s.id # t.id => Written(s) \cap Written(t) = {}

Trims == {call[c].request.position : c \in {d \in Call : call[d].pc # "idle" /\ call[d].request.op = "trim"}}

\* An acknowledged command stays readable, through the newest chain, at the position that its
\* caller was told, until a prefix_trim asks for its removal.
AcksAreKept ==
  \A a \in {b \in answers : b.kind = "append"} :
    \/ \E n \in Trims : a.position < n
    \/ \E i \in DOMAIN history[Len(history)] :
         LET segment == history[Len(history)][i]
         IN  /\ Covers(segment, a.position)
             /\ Readable(segment.id, a.position - segment.start) = {a.command}

\* check_tail never leaves out a command acknowledged before it was called, unless it says that
\* the segment is sealed.
TailsCoverAcks ==
  \A a \in {b \in answers : b.kind = "tail"} : a.sealed \/ a.position >= a.floor

\* What a client caches was installed: the loser of an installation adopts the winner's chain.
CachedIsInstalled ==
  \A k \in Client : cached[k] = Version(cached[k].version)

\* A node whose join was confirmed stores every later active segment.
JoinsStay ==
  \A a \in {b \in answers : b.kind = "join"} :
    \A v \in a.version..Len(history) : a.node \in Active(history[v]).config.members

\* Every operation that was begun ends, whoever holds the lock and however often it loses.
CallsEnd == <>[](\A c \in Call : ~Running(c))
-----------------------------------------------------------------------------
(* The segments, put together, are one shared log.                         *)

OwnerOf(p) == CHOOSE s \in Installed : p \in Written(s)
LogEnd == IF Installed = {} THEN 0
          ELSE LET ends == {s.start + Len(log[s.id]) : s \in Installed}
               IN  CHOOSE n \in ends : \A m \in ends : m <= n
Trimmed ==
  LET ends == {s.start + Smaller(trimmed[s.id], Len(log[s.id])) : s \in {t \in Installed : trimmed[t.id] > 0}}
  IN  IF ends = {} THEN 0 ELSE CHOOSE n \in ends : \A m \in ends : m <= n

\* What an append left behind the end of a sealed segment is not a part of the log: nobody
\* reads it.
ZombiesStayHidden ==
  \A a \in {b \in answers : b.kind = "read"} :
    /\ a.position < LogEnd
    /\ log[OwnerOf(a.position).id][a.position - OwnerOf(a.position).start + 1] = a.command

Shared == INSTANCE SharedLogSpec WITH
  log <- [n \in 1..LogEnd |-> log[OwnerOf(n - 1).id][n - OwnerOf(n - 1).start]],
  trimmed <- Trimmed,
  answers <- {a \in answers : a.kind \in {"append", "read", "trim"}}

ImplementsSharedLog == Shared!Spec
=============================================================================
