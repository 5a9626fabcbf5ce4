------------------------- MODULE VirtualLogInvariant -------------------------
(***************************************************************************)
(* The inductive invariants of VirtualLog: ChainsInv is about the segments *)
(* of the chains, AnswersInv about what is kept and what callers were     *)
(* told, MembersInv about the nodes that store the active segment, and     *)
(* SharedInv about what all segments together are.                         *)
(***************************************************************************)
EXTENDS VirtualLog

Phases ==
  {"idle", "append", "tail", "lock", "refresh", "grace", "successor", "seal", "sealed_tail",
   "install", "trim", "drop", "read", "done", "failed"}

\* Operations on the active segment, and the phases of a call that works on a segment.
OnActive == {"append", "check_tail", "trim"}
Recovering == {"lock", "grace", "successor"}
OnSegment == {"append", "tail", "seal", "sealed_tail", "trim", "drop"} \cup Recovering

Causes == {"none", "sealed", "unavailable"}

ClientSnapshot == [version : Nat, chain : Seq(SegmentRecord)]

CallRecord ==
  [pc : Phases, client : Client \cup {Idle.client}, request : Request \cup {[op |-> "none"]},
   attempt : Nat, snapshot : ClientSnapshot, candidate : Seq(SegmentRecord),
   why : Causes, config : Config, index : Nat, asked : Nat, floor : Nat]

\* Types, which TypeOK says only in part.
Types ==
  /\ history \in Seq(Chain)
  /\ log \in [Segment -> Seq(Command)] /\ sealed \subseteq Segment /\ trimmed \in [Segment -> Nat]
  /\ cached \in [Client -> ClientSnapshot]
  /\ lock \in [Client -> Call \cup {NoCall}]
  /\ call \in [Call -> CallRecord]
  /\ msgs \subseteq Message
  /\ made \in 0..MaxSegment /\ failures \in 0..MaxFailures

Newest == history[Len(history)]

\* Where a segment ends, and that it is closed there.
End(s) == s.start + Len(log[s.id])
Closed(s) == s.id \in sealed /\ s.stop = End(s)

\* Segment s is complete and t begins behind it.
Before(s, t) == s.id \in sealed /\ End(s) <= t.start

\* Two records of one segment, or segments one after the other.
Apart(s, t) == IF s.id = t.id THEN s.start = t.start ELSE Before(s, t) \/ Before(t, s)

\* The segments that were ever installed are apart, and the newest active one is the last.
SegmentsInv ==
  /\ \A s \in Installed : s.id <= made /\ (s.stop # Open => Closed(s))
  /\ \A s, t \in Installed : Apart(s, t)
  /\ \A s \in Installed : s.id = Active(Newest).id \/ Before(s, Active(Newest))

\* A segment of version v, perhaps closed or with another configuration.
Kept(s, v) ==
  \E i \in DOMAIN history[v] :
    /\ s.id = history[v][i].id /\ s.start = history[v][i].start
    /\ s.stop = history[v][i].stop \/ Closed(s)

\* A new segment that succeeds the active one of version v.
Added(s, v) ==
  /\ Before(Active(history[v]), s)
  /\ \A u \in 1..v : \A i \in DOMAIN history[u] : history[u][i].id # s.id

\* A chain that is proposed over version v.
Derived(chain, v) ==
  /\ \A i \in 1..(Len(chain) - 1) : Kept(chain[i], v)
  /\ \/ Kept(Active(chain), v) /\ Active(chain).id = Active(history[v]).id
     \/ Added(Active(chain), v)

Proposal(m) ==
  /\ m.expected <= Len(history)
  /\ IF m.expected = 0 THEN Len(m.chain) = 1 /\ First(m.chain).start = 0
                       ELSE Derived(m.chain, m.expected)

ProposalsInv ==
  \A m \in msgs : m.type = "install" =>
    Proposal(m) /\ \A i \in DOMAIN m.chain : m.chain[i].id <= made

\* A snapshot that was installed.
Known(snapshot) == snapshot.version <= Len(history) /\ snapshot = Version(snapshot.version)

\* A call has what its next step uses.
Prepared(x) ==
  /\ Known(x.snapshot)
  /\ x.pc # "idle" => x.client \in Client /\ x.request \in Request
  /\ x.pc \in OnSegment => x.snapshot.version > 0
  /\ x.pc = "sealed_tail" => Active(x.snapshot.chain).id \in sealed
  /\ x.pc = "append" => x.request.op = "append"
  /\ x.pc = "tail" => x.request.op \in {"check_tail", "trim"}
  /\ x.pc \in {"trim", "drop"} => x.request.op = "trim"
  /\ x.pc \in Recovering \/ x.why # "none" => x.request.op \in OnActive
  /\ x.pc = "refresh" => \/ x.request.op = "join"
                         \/ x.request.op \in OnActive /\ x.snapshot.version > 0

CallsInv ==
  /\ \A k \in Client : Known(cached[k])
  /\ \A c \in Call : Prepared(call[c])
  /\ \A c \in Call : call[c].pc \in OnSegment => Cached(c).version > 0

\* An acknowledged command is in a segment, at the position that was told.
Holds(s, a) ==
  /\ a.position \in s.start..(End(s) - 1)
  /\ log[s.id][a.position - s.start + 1] = a.command

AcksInv == \A a \in answers : a.kind = "append" => \E s \in Installed : Holds(s, a)

ChainsInv == Types /\ SegmentsInv /\ ProposalsInv /\ CallsInv /\ AcksInv
-----------------------------------------------------------------------------
(* What callers were told.                                                 *)

\* A prefix_trim asked for the removal of everything below p.
Wanted(p) == p = 0 \/ \E n \in Trims : p <= n

\* A chain begins at 0 or where a prefix_trim allows it to.
HeadsInv ==
  /\ \A v \in DOMAIN history : Wanted(First(history[v]).start)
  /\ \A m \in msgs : m.type = "install" => Wanted(First(m.chain).start)
  /\ \A c \in Call : call[c].pc = "drop" =>
       /\ Len(call[c].snapshot.chain) > 1
       /\ First(call[c].snapshot.chain).stop <= call[c].request.position

\* A Loglet is trimmed no further than a prefix_trim allows it to.
WantedOf(id, n) == \E s \in Installed : s.id = id /\ Wanted(s.start + n)

TrimsInv ==
  /\ \A m \in msgs : m.type = "trim" => WantedOf(m.segment, m.target)
  /\ \A id \in Segment : trimmed[id] > 0 => WantedOf(id, trimmed[id])

FloorsInv == \A c \in Call : call[c].floor = 0 \/ \E s \in Installed : call[c].floor <= End(s)

AnswersInv == HeadsInv /\ TrimsInv /\ FloorsInv /\ TailsCoverAcks
-----------------------------------------------------------------------------
(* Who stores the active segment.                                          *)

Members(chain) == Active(chain).config.members

\* Whom a chain has as active members and the manifest still lists is among members.
Keeps(members, chain) == Members(chain) \cap Eligible \subseteq members

\* Installed in order, and proposed over a version, chains keep their active members.
OrderInv == \A v \in DOMAIN history : \A u \in 1..v : Keeps(Members(history[v]), history[u])

SuccessionInv ==
  \A m \in msgs : m.type = "install" /\ m.expected > 0 => Keeps(Members(m.chain), history[m.expected])

\* A call that reconfigures keeps the members of the chain it replaces, and adds one that joins.
Admits(x, members) == x.request.op = "join" => x.request.node \in members

Succeeds(x) ==
  /\ x.pc \in {"seal", "sealed_tail"} /\ x.request.op # "seal" =>
       Keeps(x.config.members, x.snapshot.chain) /\ Admits(x, x.config.members)
  /\ x.pc = "sealed_tail" => x.request.op # "seal"
  /\ x.pc = "install" => Admits(x, Members(x.candidate))
  /\ x.pc # "idle" => Admits(x, Eligible)

JoinedInv ==
  \A a \in answers : a.kind = "join" =>
    a.version \in DOMAIN history /\ a.node \in Members(history[a.version]) \cap Eligible

MembersInv == OrderInv /\ SuccessionInv /\ (\A c \in Call : Succeeds(call[c])) /\ JoinedInv

\* Only nodes that the manifest lists join, so that no later join leaves them out.
JoinersEligible == \A w \in Workload : w[3].op = "join" => w[3].node \in Eligible

\* The successor chosen for a chain still fits the chain that is cached when it is used.
SuccessorsFit == \A c \in Call : SuccessorFound(c) => Keeps(call[c].config.members, Cached(c).chain)
-----------------------------------------------------------------------------
(* All segments together: one shared log.                                  *)

\* Every installed segment begins where an earlier one ends.
Follows(s) ==
  s.start = 0 \/ \E t \in Installed : t.id < s.id /\ t.id \in sealed /\ End(t) = s.start

\* What is below p is trimmed.
Removed(p) ==
  p \in Nat /\ (p = 0 \/ \E s \in Installed : trimmed[s.id] > 0 /\ p <= s.start + trimmed[s.id])

\* From one version to the next, the active segment stays or is succeeded.
Succeeded(u, v) ==
  \/ Active(history[u]).id = Active(history[v]).id
  \/ Before(Active(history[u]), Active(history[v]))

GaplessInv ==
  /\ \A s \in Installed : Follows(s)
  /\ \A v \in DOMAIN history : Removed(First(history[v]).start)
  /\ \A v \in DOMAIN history : \A u \in 1..v : Succeeded(u, v)

\* Loglets are written once they are installed, and trimmed as far as they are written.
UsedInv ==
  \A id \in Segment : /\ log[id] # <<>> => \E s \in Installed : s.id = id
                     /\ trimmed[id] <= Len(log[id])

Fits(m) ==
  /\ m.type = "install" => /\ Removed(First(m.chain).start)
                           /\ \A i \in DOMAIN m.chain : Follows(m.chain[i])
  /\ m.type \in {"append", "trim"} => \E s \in Installed : s.id = m.segment
  /\ m.type = "trim" => m.target <= Len(log[m.segment])

\* A call works with a chain that its client has cached, now or before.
LagsInv ==
  \A c \in Call : call[c].pc # "idle" => call[c].snapshot.version <= cached[call[c].client].version

\* prefix_trim goes through the segments below its position, which is written.
Trimming(x) ==
  /\ x.request.position <= End(Active(x.snapshot.chain))
  /\ x.index > 0 => /\ x.index <= Len(x.snapshot.chain)
                    /\ x.snapshot.chain[x.index].start < x.request.position

\* read_next reads what is written, and skips only what is removed.
Skipped(from, to, p) == \A q \in from..(p - 1) : Removed(q + 1) \/ to <= q

Reading(x) ==
  /\ x.request.op = "read" /\ x.snapshot.version > 0 /\ x.request.to <= End(Active(x.snapshot.chain))
  /\ x.index > 0
  /\ x.index <= Len(x.snapshot.chain) =>
       Skipped(x.request.from, x.request.to, x.snapshot.chain[x.index].start)

Follower(x) ==
  /\ x.pc \in Recovering \cup {"refresh", "seal", "sealed_tail"} /\ x.request.op = "trim" => x.why # "none"
  /\ x.pc = "trim" => Trimming(x)
  /\ x.pc = "drop" => Removed(x.request.position)
  /\ x.pc = "install" /\ x.why = "none" /\ x.request.op = "trim" => Removed(x.request.position)
  /\ x.pc = "read" => Reading(x)

\* A chain that client k has cached, now or before, has n positions or more.
Reaches(k, n) ==
  /\ k \in Client /\ n \in Nat
  /\ \E v \in 1..cached[k].version : n <= End(Active(history[v]))

Tells(a) ==
  /\ a.kind = "append" => Reaches(a.client, a.position + 1)
  /\ a.kind = "tail" /\ ~a.sealed => Reaches(a.client, a.position)
  /\ a.kind = "read" => /\ a.from \in Nat /\ \E s \in Installed : Holds(s, a)
                        /\ \A p \in a.from..(a.position - 1) : Removed(p + 1)
  /\ a.kind = "trim" => Removed(a.position)

SharedInv ==
  /\ GaplessInv /\ UsedInv /\ LagsInv
  /\ \A m \in msgs : Fits(m)
  /\ \A c \in Call : Follower(call[c])
  /\ \A a \in answers : Tells(a)

\* No client takes an older chain after a newer one.
CachesAdvance == \A k \in Client : cached[k].version <= cached'[k].version
=============================================================================
