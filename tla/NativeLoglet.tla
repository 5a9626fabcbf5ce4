---------------------------- MODULE NativeLoglet ----------------------------
(***************************************************************************)
(* One segment of the log, stored by a fixed set of LogServers.  Its only  *)
(* sequencer gives commands their positions and retries the pending one    *)
(* until a quorum stores it or a quorum is sealed.  Clients seal the       *)
(* segment, look for its tail (repairing a sealed one) and trim its        *)
(* prefix.  Requests that write may be lost or arrive at any later time;   *)
(* a gather ends with any part of its replies.  A server that restarts has *)
(* forgotten its known tail; the sequencer's node takes the sequencer      *)
(* with it, because the next incarnation does not own the segment.         *)
(***************************************************************************)
EXTENDS Naturals, FiniteSets

CONSTANTS
  Server,          \* the LogServers that store the segment
  SequencerNode,   \* the one among them that runs its sequencer
  Client,          \* NativeLogletClient objects, one per node that uses the segment
  Call,            \* the operations that clients ever begin
  Workload,        \* the operations they may begin: <<call, client, operation>>
  Link,            \* bound: <<sender, server>> between which requests ever arrive
  Command,         \* the commands that are ever appended, payload included
  NoCommand,       \* "None" where a command or an entry is expected
  MaxBusy,         \* bound: client operations that run at once
  MaxCrashes,      \* bound: restarts of servers
  TornReads,       \* bound: whether requests run between the two queries of a state
  Cancellable      \* whether cancelling the caller cancels its append: the registry
                   \* shields it, a caller of the sequencer itself does not

ASSUME ServerAssumption ==
  IsFiniteSet(Server) /\ Cardinality(Server) >= 3 /\ SequencerNode \in Server
ASSUME ClientAssumption == Client # {}
ASSUME CommandAssumption == IsFiniteSet(Command) /\ NoCommand \notin Command
ASSUME WorkloadAssumption ==
  Workload \subseteq Call \X Client \X {"seal", "check_tail", "prefix_trim"}
ASSUME LinkAssumption == Link \subseteq (Client \cup {SequencerNode}) \X Server
ASSUME BoundAssumption == MaxBusy \in Nat /\ MaxCrashes \in Nat /\ {TornReads, Cancellable} \subseteq BOOLEAN

VARIABLES
  entries,       \* per server and position: the command stored           (durable)
  sealed,        \* the servers that are sealed                           (durable)
  trimmed,       \* per server: every position below it is removed        (durable)
  serverKnown,   \* per server: its lower bound of the global tail        (volatile)
  seq,           \* the sequencer
  stored,        \* servers that stored the put of this round, not yet replied
  clientKnown,   \* per client: its lower bound of the global tail
  clientTrim,    \* per client: the trimmed prefix it knows of
  call,          \* per call: how far its operation is
  msgs,          \* the writes requested; never removed, so any may be late
  crashes,       \* the restarts so far
  committed,     \* history: the positions that a commit round finished
  acks           \* the answers of append: command, position and the sequencer's tail

servers == <<entries, sealed, trimmed, serverKnown>>
sequencer == <<seq, stored, committed, acks>>
clients == <<clientKnown, clientTrim, call>>
vars == <<servers, sequencer, clients, msgs, crashes>>
-----------------------------------------------------------------------------
Position == 0..(Cardinality(Command) - 1)
Tail == 0..Cardinality(Command)

Quorum == {Q \in SUBSET Server : Cardinality(Q) >= Cardinality(Server) \div 2 + 1}

Highest(S) == CHOOSE n \in S : \A k \in S : k <= n
Lowest(S) == CHOOSE n \in S : \A k \in S : n <= k
Larger(m, n) == IF m >= n THEN m ELSE n

Froms(replies) == {r.from : r \in replies}
Tails(replies) == {r.tail : r \in replies}

NoRequest == [type |-> "none"]
NoResult == [kind |-> "none"]

Put(position, command, known) ==
  [type |-> "put", position |-> position, command |-> command, known |-> known]

Ack(command, position, known) ==
  [command |-> command, position |-> position, known |-> known]

NewCall(pc, op, client, floor) ==
  [pc |-> pc, op |-> op, client |-> client, floor |-> floor, asked |-> 0, rows |-> {},
   replies |-> {}, tail |-> 0, position |-> 0, nodes |-> {}, todo |-> {}, copies |-> {},
   result |-> NoResult]

Reaches(c, s) == <<call[c].client, s>> \in Link

Running(c) == call[c].pc \notin {"idle", "done", "failed"}

Init ==
  /\ entries = [s \in Server |-> [p \in Position |-> NoCommand]]
  /\ sealed = {}
  /\ trimmed = [s \in Server |-> 0]
  /\ serverKnown = [s \in Server |-> 0]
  /\ seq = [pc |-> "idle", tail |-> 0, next |-> 0, position |-> [k \in Command |-> Cardinality(Command)],
            pending |-> NoCommand, entry |-> NoCommand, caller |-> NoCommand,
            request |-> NoRequest, replies |-> {}]
  /\ stored = {}
  /\ clientKnown = [k \in Client |-> 0]
  /\ clientTrim = [k \in Client |-> 0]
  /\ call = [c \in Call |-> NewCall("idle", "none", CHOOSE k \in Client : TRUE, 0)]
  /\ msgs = {}
  /\ crashes = 0
  /\ committed = {}
  /\ acks = {}
-----------------------------------------------------------------------------
(* The sequencer.  It serves one append at a time, under its lock.         *)

\* The position of a command that has none yet.
Unassigned == Cardinality(Command)

Assigned(k) == seq.position[k] # Unassigned

\* Faulty: the position counts as given away only when it is committed.
RoundWithoutAdvance(sequencerState, k, p, caller) ==
  LET request == Put(p, k, sequencerState.tail)
  IN  /\ seq' = [sequencerState EXCEPT !.pc = "commit", !.position[k] = p,
                   !.next = IF p < sequencerState.tail THEN p + 1 ELSE @,
                   !.pending = k, !.entry = k, !.caller = caller,
                   !.request = request, !.replies = {}]
      /\ msgs' = msgs \cup {request}
      /\ stored' = {}

\* Faulty: a retry counts as a position given away.
RoundAdvancesAlways(sequencerState, k, p, caller) ==
  LET request == Put(p, k, sequencerState.tail)
  IN  /\ seq' = [sequencerState EXCEPT !.pc = "commit", !.position[k] = p,
                   !.next = @ + 1,
                   !.pending = k, !.entry = k, !.caller = caller,
                   !.request = request, !.replies = {}]
      /\ msgs' = msgs \cup {request}
      /\ stored' = {}

\* The sequencer goes on to commit command k, whose position is p, for caller.
Round(sequencerState, k, p, caller) ==
  LET request == Put(p, k, sequencerState.tail)
  IN  /\ seq' = [sequencerState EXCEPT !.pc = "commit", !.position[k] = p,
                   !.next = IF p = sequencerState.next THEN p + 1 ELSE @,
                   !.pending = k, !.entry = k, !.caller = caller,
                   !.request = request, !.replies = {}]
      /\ msgs' = msgs \cup {request}
      /\ stored' = {}

PositionFor(sequencerState, k) ==
  IF sequencerState.position[k] = Unassigned THEN sequencerState.next
  ELSE sequencerState.position[k]

\* append of a command whose position lies below the known tail.
AppendAgain(k) ==
  /\ seq.pc = "idle"
  /\ Assigned(k) /\ seq.position[k] < seq.tail
  /\ acks' = acks \cup {Ack(k, seq.position[k], seq.tail)}
  /\ UNCHANGED <<servers, seq, stored, committed, clients, msgs, crashes>>

\* append: first finish the pending entry of another command, if there is one.
Append(k) ==
  /\ seq.pc = "idle"
  /\ ~(Assigned(k) /\ seq.position[k] < seq.tail)
  /\ LET first == IF seq.pending = NoCommand THEN k ELSE seq.pending
     IN  Round(seq, first, PositionFor(seq, first), k)
  /\ UNCHANGED <<servers, committed, acks, clients, crashes>>

\* Faulty: every answer counts.
AnsweredIn(R) == Froms(R)

\* Which replies R arrived before the round's gather ended, and what the
\* sequencer learns from them of the global tail.
StoredIn(R) == {r.from : r \in {x \in R : x.kind = "stored"}}
SealedIn(R) == {r.from : r \in {x \in R : x.kind = "sealed"}}
TailAfter(R) == Highest({seq.tail} \cup Tails(R))

\* Faulty: takes the segment for sealed only when every server says so.
SealedByAll(R) == SealedIn(R) = Server

SealedByQuorum(R) == SealedIn(R) \in Quorum

Stop(tail) ==
  /\ seq' = [seq EXCEPT !.pc = "idle", !.tail = tail, !.entry = NoCommand,
               !.caller = NoCommand, !.request = NoRequest, !.replies = {}]
  /\ stored' = {}
  /\ UNCHANGED msgs

Contiguous(R) == seq.position[seq.entry] = TailAfter(R)

\* The round committed the caller's own entry: append returns.
Acknowledge == \E R \in SUBSET seq.replies :
  /\ seq.pc = "commit" /\ seq.entry = seq.caller
  /\ StoredIn(R) \in Quorum /\ Contiguous(R)
  /\ seq' = [seq EXCEPT !.pc = "idle", !.tail = TailAfter(R) + 1, !.pending = NoCommand,
               !.entry = NoCommand, !.caller = NoCommand, !.request = NoRequest, !.replies = {}]
  /\ stored' = {}
  /\ committed' = committed \cup {seq.position[seq.entry]}
  /\ acks' = acks \cup {Ack(seq.entry, seq.position[seq.entry], TailAfter(R) + 1)}
  /\ UNCHANGED <<servers, clients, msgs, crashes>>

\* The round committed the pending entry of an earlier append: the caller's is next.
CommitPending == \E R \in SUBSET seq.replies :
  /\ seq.pc = "commit" /\ seq.entry # seq.caller
  /\ StoredIn(R) \in Quorum /\ Contiguous(R)
  /\ Round([seq EXCEPT !.tail = TailAfter(R) + 1], seq.caller, PositionFor(seq, seq.caller),
           seq.caller)
  /\ committed' = committed \cup {seq.position[seq.entry]}
  /\ UNCHANGED <<servers, acks, clients, crashes>>

\* "committed prefix is not contiguous": append raises, the entry stays pending.
NotContiguous == \E R \in SUBSET seq.replies :
  /\ seq.pc = "commit" /\ StoredIn(R) \in Quorum /\ ~Contiguous(R)
  /\ Stop(TailAfter(R))
  /\ UNCHANGED <<servers, committed, acks, clients, crashes>>

\* A quorum is sealed: append raises, the entry stays pending.
SealedOut == \E R \in SUBSET seq.replies :
  /\ seq.pc = "commit" /\ StoredIn(R) \notin Quorum /\ SealedByQuorum(R)
  /\ Stop(TailAfter(R))
  /\ UNCHANGED <<servers, committed, acks, clients, crashes>>

\* The append is cancelled while its gather runs: the entry stays pending.
Cancel ==
  /\ Cancellable /\ seq.pc = "commit"
  /\ Stop(seq.tail)
  /\ UNCHANGED <<servers, committed, acks, clients, crashes>>

\* Neither quorum: the same position goes out again.
RetryAfter(R) ==
  /\ seq.pc = "commit" /\ StoredIn(R) \notin Quorum /\ ~SealedByQuorum(R)
  /\ Round([seq EXCEPT !.tail = TailAfter(R)], seq.entry, seq.position[seq.entry], seq.caller)
  /\ UNCHANGED <<servers, committed, acks, clients, crashes>>

Retry == \E R \in SUBSET seq.replies : RetryAfter(R)
-----------------------------------------------------------------------------
(* The LogServers.  A write is one transaction of the store.               *)

LocalTail(s, watermark) ==
  Highest({watermark} \cup {p + 1 : p \in {q \in Position : entries[s][q] # NoCommand}})

Observe(s, known) == serverKnown' = [serverKnown EXCEPT ![s] = Larger(@, known)]

\* Faulty: a late write may bring a trimmed position back.
FitsTrimmed(s, position, command) ==
  \/ entries[s][position] = command
  \/ /\ entries[s][position] = NoCommand
     /\ \A p \in Position : entries[s][p] # command

\* The store has the entry, or may write it as far as its other entries go.
Fits(s, position, command) ==
  /\ position >= trimmed[s]
  /\ \/ entries[s][position] = command
     \/ /\ entries[s][position] = NoCommand
        /\ \A p \in Position : entries[s][p] # command

\* A put is refused after a hole, unless the predecessor is known to be committed.
FollowsPredecessor(s, r) ==
  \/ entries[s][r.position] = r.command
  \/ r.position = 0
  \/ entries[s][r.position - 1] # NoCommand
  \/ Larger(serverKnown[s], r.known) > r.position - 1

\* Faulty: a sealed server takes puts.
AcceptsSealed(s, r) == Fits(s, r.position, r.command) /\ FollowsPredecessor(s, r)

Accepts(s, r) == s \notin sealed /\ Fits(s, r.position, r.command) /\ FollowsPredecessor(s, r)

Write(s, position, command) ==
  entries' = [entries EXCEPT ![s][position] = command]

\* The sequencer waits in this round for the answer of s to request r.
Awaited(s, r) ==
  seq.pc = "commit" /\ seq.request = r /\ s \notin Froms(seq.replies) \cup stored

\* A put is stored, sealed out or refused; a refusal counts for nothing.
HandlePut(s) == \E r \in msgs :
  /\ r.type = "put" /\ <<SequencerNode, s>> \in Link
  /\ Observe(s, r.known)
  /\ IF Accepts(s, r)
       THEN /\ Write(s, r.position, r.command)
            /\ stored' = IF Awaited(s, r) THEN stored \cup {s} ELSE stored
            /\ UNCHANGED seq
       ELSE /\ UNCHANGED <<entries, stored>>
            /\ seq' = [seq EXCEPT !.replies = IF Awaited(s, r)
                 THEN @ \cup {[from |-> s, kind |-> IF s \in sealed THEN "sealed" ELSE "refused",
                               tail |-> 0]}
                 ELSE @]
  /\ UNCHANGED <<sealed, trimmed, committed, acks, clients, msgs, crashes>>

\* The handler of a put reads the state that it answers with after the write.
AnswerPut(s) ==
  /\ s \in stored
  /\ stored' = stored \ {s}
  /\ seq' = [seq EXCEPT !.replies =
               @ \cup {[from |-> s, kind |-> "stored", tail |-> serverKnown[s]]}]
  /\ UNCHANGED <<servers, committed, acks, clients, msgs, crashes>>

\* The answer reaches call c if it still waits for it.
Answer(c, pc, known, reply) ==
  LET awaited == /\ call[c].pc = pc /\ call[c].asked = known
                 /\ reply.from \notin Froms(call[c].replies)
  IN  call' = [call EXCEPT ![c].replies = IF awaited THEN @ \cup {reply} ELSE @]

HandleSeal(s) == \E r \in msgs :
  /\ r.type = "seal" /\ Reaches(r.by, s)
  /\ sealed' = sealed \cup {s}
  /\ Observe(s, r.known)
  /\ Answer(r.by, "seal", r.known, [from |-> s, tail |-> Larger(serverKnown[s], r.known)])
  /\ UNCHANGED <<entries, trimmed, sequencer, clientKnown, clientTrim, msgs, crashes>>

HandleTrim(s) == \E r \in msgs :
  /\ r.type = "prefix_trim" /\ Reaches(r.by, s)
  /\ LET watermark == Larger(trimmed[s], r.position)
     IN  /\ trimmed' = [trimmed EXCEPT ![s] = watermark]
         /\ entries' = [entries EXCEPT ![s] =
                          [p \in Position |-> IF p < watermark THEN NoCommand ELSE entries[s][p]]]
         /\ Answer(r.by, "trim", r.position, [from |-> s, tail |-> watermark])
  /\ UNCHANGED <<sealed, serverKnown, sequencer, clientKnown, clientTrim, msgs, crashes>>

\* The server's process stops and starts again from its store.
Restart(s) ==
  /\ crashes < MaxCrashes
  /\ crashes' = crashes + 1
  /\ serverKnown' = [serverKnown EXCEPT ![s] = 0]
  /\ stored' = IF s = SequencerNode THEN {} ELSE stored \ {s}
  /\ seq' = IF s = SequencerNode
              THEN [seq EXCEPT !.pc = "gone", !.entry = NoCommand, !.caller = NoCommand,
                      !.request = NoRequest, !.replies = {}]
              ELSE seq
  /\ call' = [c \in Call |-> [call[c] EXCEPT !.rows = {r \in @ : r.from # s}]]
  /\ UNCHANGED <<entries, sealed, trimmed, committed, acks, clientKnown, clientTrim, msgs>>
-----------------------------------------------------------------------------
(* The clients' operations.                                                *)

Known(c) == clientKnown[call[c].client]

LearnTail(client, known) == clientKnown' = [clientKnown EXCEPT ![client] = Larger(@, known)]

SetKnown(c, known) == LearnTail(call[c].client, known)

KnownAfter(c, R) == Highest({Known(c)} \cup {r.known : r \in R})

\* The tails that callers were told of: a later check_tail must account for them.
Reported ==
  {0} \cup {a.position + 1 : a \in acks}
      \cup {call[c].result.tail : c \in {d \in Call : call[d].result.kind = "tail"}}

\* The answer of an append reaches the client that asked for it.
AppendReturns(client) == \E ack \in acks :
  /\ LearnTail(client, ack.known)
  /\ UNCHANGED <<servers, sequencer, clientTrim, call, msgs, crashes>>

Goto(c, state) == call' = [call EXCEPT ![c] = state]

\* The call starts to read the states, or reads them again.
Reading(state, known) ==
  [state EXCEPT !.pc = "state", !.asked = known, !.rows = {}, !.replies = {}, !.tail = 0]

MayStart(c) ==
  call[c].pc = "idle" /\ Cardinality({d \in Call : Running(d)}) < MaxBusy

StartSeal(c) == \E client \in Client :
  /\ MayStart(c) /\ <<c, client, "seal">> \in Workload
  /\ Goto(c, [NewCall("seal", "seal", client, 0) EXCEPT !.asked = clientKnown[client]])
  /\ msgs' = msgs \cup {[type |-> "seal", by |-> c, known |-> clientKnown[client]]}
  /\ UNCHANGED <<servers, sequencer, clientKnown, clientTrim, crashes>>

StartCheckTail(c) == \E client \in Client :
  /\ MayStart(c) /\ <<c, client, "check_tail">> \in Workload
  /\ Goto(c, Reading(NewCall("state", "check_tail", client, Highest(Reported)),
                     clientKnown[client]))
  /\ UNCHANGED <<servers, sequencer, clientKnown, clientTrim, msgs, crashes>>

\* The VirtualLog trims no further than a tail it has learned.
StartTrim(c) == \E client \in Client : \E position \in 1..clientKnown[client] :
  /\ MayStart(c) /\ <<c, client, "prefix_trim">> \in Workload
  /\ Goto(c, [NewCall("trim", "prefix_trim", client, 0) EXCEPT !.asked = position])
  /\ msgs' = msgs \cup {[type |-> "prefix_trim", by |-> c, position |-> position]}
  /\ UNCHANGED <<servers, sequencer, clientKnown, clientTrim, crashes>>

\* Too few answers, or an error from a server during the repair, end any call.
GiveUp(c) ==
  /\ Running(c)
  /\ Goto(c, NewCall("failed", call[c].op, call[c].client, 0))
  /\ UNCHANGED <<servers, sequencer, clientKnown, clientTrim, msgs, crashes>>

EndSeal(c) == \E R \in SUBSET call[c].replies :
  /\ call[c].pc = "seal" /\ Froms(R) \in Quorum
  /\ LET known == Highest({Known(c)} \cup Tails(R))
     IN  /\ SetKnown(c, known)
         /\ Goto(c, IF call[c].op = "seal"
                      THEN [NewCall("done", "seal", call[c].client, 0) EXCEPT
                              !.result = [kind |-> "sealed"]]
                      ELSE Reading(call[c], known))
  /\ UNCHANGED <<servers, sequencer, clientTrim, msgs, crashes>>

\* Too few servers took part in the seal: the call fails, but keeps what they knew.
SealFails(c) == \E R \in SUBSET call[c].replies :
  /\ call[c].pc = "seal" /\ Froms(R) \notin Quorum
  /\ SetKnown(c, Highest({Known(c)} \cup Tails(R)))
  /\ Goto(c, NewCall("failed", call[c].op, call[c].client, 0))
  /\ UNCHANGED <<servers, sequencer, clientTrim, msgs, crashes>>

EndTrim(c) == \E R \in SUBSET call[c].replies :
  /\ call[c].pc = "trim" /\ Froms(R) \in Quorum
  /\ clientTrim' = [clientTrim EXCEPT ![call[c].client] = Larger(@, Lowest(Tails(R)))]
  /\ Goto(c, [NewCall("done", "prefix_trim", call[c].client, 0) EXCEPT
                !.result = [kind |-> "trimmed"]])
  /\ UNCHANGED <<servers, sequencer, clientKnown, msgs, crashes>>

StateOf(s, row, known) ==
  [from |-> s, sealed |-> row.sealed, trimmed |-> row.trimmed,
   tail |-> LocalTail(s, row.trimmed), known |-> known]

RowOf(s) == [from |-> s, sealed |-> s \in sealed, trimmed |-> trimmed[s]]

Unread(c, s) ==
  call[c].pc = "state" /\ Reaches(c, s) /\ s \notin Froms(call[c].rows) \cup Froms(call[c].replies)

\* A server's state: the segment's row, then its last entry.
ReadState(c, s) ==
  /\ Unread(c, s)
  /\ Observe(s, call[c].asked)
  /\ Goto(c, [call[c] EXCEPT !.replies =
                @ \cup {StateOf(s, RowOf(s), Larger(serverKnown[s], call[c].asked))}])
  /\ UNCHANGED <<entries, sealed, trimmed, sequencer, clientKnown, clientTrim, msgs, crashes>>

\* The same in two queries, between which other requests run.
ReadRow(c, s) ==
  /\ TornReads /\ Unread(c, s)
  /\ Observe(s, call[c].asked)
  /\ Goto(c, [call[c] EXCEPT !.rows = @ \cup {RowOf(s)}])
  /\ UNCHANGED <<entries, sealed, trimmed, sequencer, clientKnown, clientTrim, msgs, crashes>>

ReadLast(c, s) == \E row \in call[c].rows :
  /\ call[c].pc = "state" /\ row.from = s
  /\ Goto(c, [call[c] EXCEPT !.rows = @ \ {row},
                             !.replies = @ \cup {StateOf(s, row, serverKnown[s])}])
  /\ UNCHANGED <<servers, sequencer, clientKnown, clientTrim, msgs, crashes>>

\* The states R were read; the client takes note of what they know.
StatesRead(c, R) ==
  /\ call[c].pc = "state" /\ R \subseteq call[c].replies /\ Froms(R) \in Quorum
  /\ clientTrim' = [clientTrim EXCEPT ![call[c].client] =
                      Highest({@} \cup {r.trimmed : r \in R})]

NodesSealed(R) == {r.from : r \in {x \in R : x.sealed}}

\* Some are sealed, some are not: seal the rest and look again.
SealRest(c) == \E R \in SUBSET call[c].replies :
  /\ StatesRead(c, R) /\ NodesSealed(R) \notin {{}, Froms(R)}
  /\ SetKnown(c, KnownAfter(c, R))
  /\ msgs' = msgs \cup {[type |-> "seal", by |-> c, known |-> KnownAfter(c, R)]}
  /\ Goto(c, [call[c] EXCEPT !.pc = "seal", !.asked = KnownAfter(c, R), !.rows = {},
                !.replies = {}])
  /\ UNCHANGED <<servers, sequencer, crashes>>

\* The call returns a tail.
TailResult(c, tail, isSealed) ==
  [NewCall("done", "check_tail", call[c].client, call[c].floor) EXCEPT
     !.result = [kind |-> "tail", tail |-> tail, sealed |-> isSealed]]

\* All are sealed: repair every position from the trimmed prefix to the highest tail.
StartRepair(c) == \E R \in SUBSET call[c].replies :
  /\ StatesRead(c, R) /\ NodesSealed(R) = Froms(R)
  /\ LET tail == Highest(Tails(R))
         first == clientTrim'[call[c].client]
     IN  IF first < tail
           THEN /\ SetKnown(c, KnownAfter(c, R))
                /\ Goto(c, [call[c] EXCEPT !.pc = "read", !.rows = {}, !.replies = {},
                              !.tail = tail, !.position = first, !.nodes = Froms(R),
                              !.todo = Froms(R)])
           ELSE /\ SetKnown(c, Larger(KnownAfter(c, R), tail))
                /\ Goto(c, TailResult(c, tail, TRUE))
  /\ UNCHANGED <<servers, sequencer, msgs, crashes>>

\* Faulty: takes the highest copy anywhere for committed.
SettledAnywhere(c, R, tail) == TRUE

\* The highest tail is the global one: nothing is there, or it is known, or a quorum has it.
Settled(c, R, tail) ==
  \/ tail = 0
  \/ KnownAfter(c, R) >= tail
  \/ Froms({r \in R : r.tail >= tail}) \in Quorum

ReportOpenTail(c) == \E R \in SUBSET call[c].replies :
  /\ StatesRead(c, R) /\ NodesSealed(R) = {}
  /\ Settled(c, R, Highest(Tails(R)))
  /\ SetKnown(c, Larger(KnownAfter(c, R), Highest(Tails(R))))
  /\ Goto(c, TailResult(c, Highest(Tails(R)), FALSE))
  /\ UNCHANGED <<servers, sequencer, msgs, crashes>>

\* Otherwise wait_for_tail at every server.
AwaitProgress(c) == \E R \in SUBSET call[c].replies :
  /\ StatesRead(c, R) /\ NodesSealed(R) = {}
  /\ ~Settled(c, R, Highest(Tails(R)))
  /\ SetKnown(c, KnownAfter(c, R))
  /\ Goto(c, [call[c] EXCEPT !.pc = "wait", !.asked = KnownAfter(c, R), !.rows = {},
                !.replies = R, !.tail = Highest(Tails(R))])
  /\ UNCHANGED <<servers, sequencer, msgs, crashes>>

\* A server at the highest tail is asked for the next position, any other to catch up.
Target(c, s) ==
  IF \E r \in call[c].replies : r.from = s /\ r.tail >= call[c].tail
    THEN call[c].tail + 1 ELSE call[c].tail

\* One server reaches its target or is sealed: look again.
Notified(c, s) ==
  /\ call[c].pc = "wait" /\ Reaches(c, s)
  /\ LocalTail(s, trimmed[s]) >= Target(c, s) \/ s \in sealed
  /\ LET known == Larger(serverKnown[s], call[c].asked)
     IN  /\ Observe(s, call[c].asked)
         /\ SetKnown(c, known)
         /\ Goto(c, Reading(call[c], Larger(Known(c), known)))
  /\ UNCHANGED <<entries, sealed, trimmed, sequencer, clientTrim, msgs, crashes>>

\* Repair of one position, first pass: collect the copies.
ReadCopy(c, s) ==
  /\ call[c].pc = "read" /\ s \in call[c].todo
  /\ Observe(s, Known(c))
  /\ LET copies == call[c].copies \cup ({entries[s][call[c].position]} \ {NoCommand})
     IN  IF call[c].todo # {s}
           THEN Goto(c, [call[c] EXCEPT !.todo = @ \ {s}, !.copies = copies])
           ELSE /\ Cardinality(copies) = 1
                /\ Goto(c, [call[c] EXCEPT !.pc = "repair", !.todo = call[c].nodes,
                              !.copies = copies])
  /\ UNCHANGED <<entries, sealed, trimmed, sequencer, clientKnown, clientTrim, msgs, crashes>>

\* Second pass: write the copy where there is none, sealed or not.
RepairCopy(c, s) == \E command \in call[c].copies :
  /\ call[c].pc = "repair" /\ s \in call[c].todo
  /\ Observe(s, Known(c))
  /\ IF entries[s][call[c].position] # NoCommand
       THEN UNCHANGED entries
       ELSE Fits(s, call[c].position, command) /\ Write(s, call[c].position, command)
  /\ IF call[c].todo # {s}
       THEN Goto(c, [call[c] EXCEPT !.todo = @ \ {s}]) /\ UNCHANGED clientKnown
       ELSE IF call[c].position + 1 < call[c].tail
         THEN /\ Goto(c, [call[c] EXCEPT !.pc = "read", !.position = @ + 1,
                            !.todo = call[c].nodes, !.copies = {}])
              /\ UNCHANGED clientKnown
         ELSE /\ Goto(c, TailResult(c, call[c].tail, TRUE))
              /\ SetKnown(c, call[c].tail)
  /\ UNCHANGED <<sealed, trimmed, sequencer, clientTrim, msgs, crashes>>
-----------------------------------------------------------------------------
Sequencer ==
  Acknowledge \/ CommitPending \/ NotContiguous \/ SealedOut \/ Retry

LogServer(s) ==
  HandlePut(s) \/ AnswerPut(s) \/ HandleSeal(s) \/ HandleTrim(s)

Operation(c) ==
  \/ EndSeal(c) \/ SealFails(c) \/ EndTrim(c) \/ SealRest(c) \/ StartRepair(c) \/ ReportOpenTail(c)
  \/ AwaitProgress(c)
  \/ \E s \in Server : ReadState(c, s) \/ ReadRow(c, s) \/ ReadLast(c, s)
                       \/ Notified(c, s) \/ ReadCopy(c, s) \/ RepairCopy(c, s)

Next ==
  \/ \E k \in Command : AppendAgain(k) \/ Append(k)
  \/ Sequencer \/ Cancel
  \/ \E s \in Server : LogServer(s) \/ Restart(s)
  \/ \E client \in Client : AppendReturns(client)
  \/ \E c \in Call : StartSeal(c) \/ StartCheckTail(c) \/ StartTrim(c) \/ GiveUp(c)
                     \/ Operation(c)

Spec == Init /\ [][Next]_vars

\* The round ends with the answers of all servers.
RetryAfterAll == Froms(seq.replies) = Server /\ RetryAfter(seq.replies)

\* Servers answer and gathers end; eventually a gather no longer times out on a server.
FairSpec ==
  /\ Spec
  /\ WF_vars(Sequencer)
  /\ \A s \in Server : WF_vars(HandlePut(s)) /\ WF_vars(AnswerPut(s))
  /\ <>[][Retry => RetryAfterAll]_vars
-----------------------------------------------------------------------------
(* Properties.                                                             *)

ServerAnswer == [from : Server, tail : Tail]

ServerState ==
  [from : Server, sealed : BOOLEAN, trimmed : Tail, tail : Tail, known : Tail]

CallResult ==
  {NoResult} \cup [kind : {"sealed", "trimmed"}] \cup [kind : {"tail"}, tail : Tail, sealed : BOOLEAN]

CallState ==
  [pc : {"idle", "state", "wait", "seal", "trim", "read", "repair", "done", "failed"},
   op : {"none", "seal", "check_tail", "prefix_trim"}, client : Client, floor : Tail,
   asked : Tail, rows : SUBSET [from : Server, sealed : BOOLEAN, trimmed : Tail],
   replies : SUBSET (ServerAnswer \cup ServerState), tail : Tail, position : Tail,
   nodes : SUBSET Server, todo : SUBSET Server, copies : SUBSET Command, result : CallResult]

PutRequest == [type : {"put"}, position : Position, command : Command, known : Tail]

SealRequest == [type : {"seal"}, by : Call, known : Tail]
TrimRequest == [type : {"prefix_trim"}, by : Call, position : Tail]

PutAnswer == [from : Server, kind : {"stored", "sealed", "refused"}, tail : Tail]

SequencerState ==
  [pc : {"idle", "commit", "gone"}, tail : Tail, next : Tail, position : [Command -> Tail],
   pending : Command \cup {NoCommand}, entry : Command \cup {NoCommand},
   caller : Command \cup {NoCommand}, request : PutRequest \cup {NoRequest},
   replies : SUBSET PutAnswer]

\* The variables stay in their types; every tail that is known, told or sent lies
\* within the positions that the sequencer has given away.
TypeOK ==
  /\ entries \in [Server -> [Position -> Command \cup {NoCommand}]]
  /\ sealed \subseteq Server
  /\ trimmed \in [Server -> Tail]
  /\ serverKnown \in [Server -> Tail]
  /\ seq \in SequencerState
  /\ stored \subseteq Server
  /\ clientKnown \in [Client -> Tail]
  /\ clientTrim \in [Client -> Tail]
  /\ call \in [Call -> CallState]
  /\ msgs \subseteq PutRequest \cup SealRequest \cup TrimRequest
  /\ crashes \in 0..MaxCrashes
  /\ committed \subseteq Position
  /\ acks \subseteq [command : Command, position : Position, known : Tail]

\* A server has the position's entry, or had it and trimmed it.
HasHeld(s, p) == trimmed[s] > p \/ entries[s][p] # NoCommand

HeldByQuorum(p) == {s \in Server : HasHeld(s, p)} \in Quorum

KnownTails ==
  {seq.tail} \cup {serverKnown[s] : s \in Server} \cup {clientKnown[k] : k \in Client}

\* A known tail is a lower bound of the global tail, whoever knows it and however it
\* got there: a quorum holds (or has trimmed) every position below it.
KnownTailsAreCommitted ==
  \A tail \in KnownTails, p \in Position : p < tail => HeldByQuorum(p)

\* Copies agree: no two servers, late puts and repairs included, hold different
\* commands at a position, and no command is at two positions.
CopiesAgree ==
  \A s, u \in Server, p, q \in Position :
    entries[s][p] # NoCommand /\ entries[u][q] # NoCommand
      => (p = q <=> entries[s][p] = entries[u][q])

ReportedTail(c) == call[c].result.kind = "tail"

\* check_tail accounts for every append and every tail that was reported before it
\* began, whatever quorum answers it.
TailsCoverReports ==
  \A c \in Call : ReportedTail(c) => call[c].result.tail >= call[c].floor

SealedTails == {call[c].result.tail : c \in {d \in Call : ReportedTail(d) /\ call[d].result.sealed}}

\* Once check_tail reports a sealed tail, no position at or above it is ever committed
\* by a quorum of puts, and none was: the boundary that a reconfiguration uses is safe.
SealedTailsCoverCommits ==
  \A tail \in SealedTails, p \in committed : p < tail

\* The same of every append that returned: the claim that no append succeeds beyond
\* the sealed tail.  It does not hold, see the README.
SealedTailsCoverAcks ==
  \A tail \in SealedTails, a \in acks : a.position < tail

\* The sequencer finds its committed prefix contiguous whenever a quorum has stored
\* the entry.  It does not hold, see the README.
CommitsAreContiguous ==
  seq.pc = "commit" =>
    \A R \in SUBSET seq.replies : StoredIn(R) \in Quorum => Contiguous(R)

\* What a server saved stays: it is not unsealed, its watermark does not fall, an entry
\* is neither changed nor lost but by the trim, and no late write brings a trimmed one
\* back.
DurableStateOnlyGrows ==
  [][/\ sealed \subseteq sealed'
     /\ \A s \in Server :
          /\ trimmed'[s] >= trimmed[s]
          /\ \A p \in Position :
               IF trimmed'[s] > p THEN entries'[s][p] = NoCommand
               ELSE entries[s][p] # NoCommand => entries'[s][p] = entries[s][p]]_vars

\* Every append ends, acknowledged or refused: the sequencer neither waits nor retries
\* for ever, although clients seal the segment under it.
AppendsEnd == seq.pc = "commit" ~> seq.pc # "commit"
=============================================================================
