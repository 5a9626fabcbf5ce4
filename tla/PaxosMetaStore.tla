--------------------------- MODULE PaxosMetaStore ---------------------------
(***************************************************************************)
(* The replicated MetaStore: classic Paxos, one instance per slot, over a  *)
(* fixed membership.  Every member is an acceptor with durable state and   *)
(* serves calls (read, compare-and-set) by running the proposer; several   *)
(* calls run at a member at once.  Requests travel over HTTP: each may be  *)
(* lost, late or overtaken, and a handler runs to its end even when its    *)
(* caller has long given up.  Members crash and restart from their store.  *)
(***************************************************************************)
EXTENDS VersionRegister, FiniteSets, Sequences

CONSTANTS
  Member,              \* MetaStore peers; numbers, ordered as their node ids are
  Call,                \* the calls that clients ever make
  Workload,            \* the requests that clients may send: <<call, member, command>>
  Link,                \* bound: <<from, to>> members whose requests may arrive
  NoValue,             \* "None" where a command is expected
  MaxSlot,             \* bound: slots of the log
  MaxBallotAttempts    \* ballots a call tries for one slot before it gives up

ASSUME MemberAssumption ==
  Member \subseteq Nat /\ IsFiniteSet(Member) /\ Cardinality(Member) >= 3
ASSUME WorkloadAssumption == Workload \subseteq Call \X Member \X Command
ASSUME LinkAssumption == Link \subseteq Member \X Member
ASSUME NoValueAssumption == NoValue \notin Command
ASSUME BoundAssumption == MaxSlot \in Nat /\ MaxBallotAttempts \in Nat \ {0}

VARIABLES
  localRound,   \* per member: the last round it reserved           (durable)
  promised,     \* per member and slot: the promised ballot         (durable)
  accepted,     \* per member and slot: accepted ballot and command (durable)
  decided,      \* per member and slot: the decided command         (durable)
  lastApplied,  \* per member: the applied prefix                   (durable)
  register,     \* per member: the state machine's snapshot         (durable)
  results,      \* per member and slot: what applying it returned   (volatile)
  call,         \* per call: the proposer running it                (volatile)
  msgs,         \* the requests sent; never removed, so any may be late
  votes         \* history: <<member, slot, ballot, command>> accepted; no action reads it

durable == <<localRound, promised, accepted, decided, lastApplied, register, votes>>
vars == <<localRound, promised, accepted, decided, lastApplied, register, results,
          call, msgs, votes>>
-----------------------------------------------------------------------------
Slot == 1..MaxSlot

Ballot == [round : Nat \ {0}, node : Member]
\* The absent ballot is below every ballot, as "is None or ..." makes it.
NoBallot == [round |-> 0, node |-> 0]

Below(b, c) ==
  b.round < c.round \/ (b.round = c.round /\ b.node < c.node)

Nothing == [ballot |-> NoBallot, value |-> NoValue]
Vote == [ballot : Ballot, value : Command]

\* Faulty: two halves of an even membership, or a lone member of three, suffice.
QuorumOfHalf == {Q \in SUBSET Member : Cardinality(Q) >= Cardinality(Member) \div 2}

Quorum == {Q \in SUBSET Member : Cardinality(Q) >= Cardinality(Member) \div 2 + 1}

PrepareReply ==
  [from : Member, promised : BOOLEAN, highest : Ballot,
   accepted : Vote \cup {Nothing}, decided : Command \cup {NoValue}]
AcceptReply == [from : Member, accepted : BOOLEAN, highest : Ballot]

Message ==
  [type : {"prepare"}, from : Member, slot : Slot, ballot : Ballot]
    \cup [type : {"accept"}, from : Member, slot : Slot, ballot : Ballot, value : Command]
    \cup [type : {"decide"}, from : Member, slot : Slot, value : Command]

NoResult == [kind |-> "none"]

\* A call that has no proposal under way.  "floor" is history: see Start.
NewCall(pc, at, command, floor) ==
  [pc |-> pc, at |-> at, command |-> command, slot |-> 0, attempts |-> 0,
   observed |-> 0, ballot |-> NoBallot, replies |-> {}, selected |-> NoValue,
   result |-> NoResult, floor |-> floor]

Idle == NewCall("idle", 0, NoValue, 0)

Running(c) == call[c].pc \notin {"idle", "done", "failed"}

Members(replies) == {r.from : r \in replies}

Init ==
  /\ localRound = [m \in Member |-> 0]
  /\ promised = [m \in Member |-> [s \in Slot |-> NoBallot]]
  /\ accepted = [m \in Member |-> [s \in Slot |-> Nothing]]
  /\ decided = [m \in Member |-> [s \in Slot |-> NoValue]]
  /\ lastApplied = [m \in Member |-> 0]
  /\ register = [m \in Member |-> InitialSnapshot]
  /\ results = [m \in Member |-> [s \in Slot |-> NoResult]]
  /\ call = [c \in Call |-> Idle]
  /\ msgs = {}
  /\ votes = {}
-----------------------------------------------------------------------------
(* Acceptor handlers.  Each runs under the acceptor's lock and saves its   *)
(* state before it replies, so it is one step.                             *)

\* Faulty: an answer to Prepare that comes late is taken for an answer to Accept.
DeliverLate(c, phase, ballot, reply) ==
  LET awaited == call[c].ballot = ballot /\ reply.from \notin Members(call[c].replies)
  IN  call' = [call EXCEPT ![c].replies = IF awaited THEN @ \cup {reply} ELSE @]

\* The reply reaches call c if c still waits for it; a second copy is ignored.
\* Whether it arrives before c's gather ends is decided when the gather ends.
Deliver(c, phase, ballot, reply) ==
  LET awaited == /\ call[c].pc = phase
                 /\ call[c].ballot = ballot
                 /\ reply.from \notin Members(call[c].replies)
  IN  call' = [call EXCEPT ![c].replies = IF awaited THEN @ \cup {reply} ELSE @]

\* Only the call that reserved a ballot waits for replies to it.
ReplyTo(phase, ballot, reply) ==
  \/ \E c \in Call : call[c].ballot = ballot /\ Deliver(c, phase, ballot, reply)
  \/ (\A c \in Call : call[c].ballot # ballot) /\ UNCHANGED call

HandlePrepare(m) == \E r \in msgs :
  /\ r.type = "prepare" /\ <<r.from, m>> \in Link
  /\ LET rejected == Below(r.ballot, promised[m][r.slot])
     IN  /\ promised' = [promised EXCEPT ![m][r.slot] = IF rejected THEN @ ELSE r.ballot]
         /\ ReplyTo("prepare", r.ballot,
              [from |-> m, promised |-> ~rejected,
               highest |-> IF rejected THEN promised[m][r.slot] ELSE r.ballot,
               accepted |-> accepted[m][r.slot], decided |-> decided[m][r.slot]])
  /\ UNCHANGED <<localRound, accepted, decided, lastApplied, register, results, msgs, votes>>

\* "ballot was reused for another value": the handler raises, nothing is saved.
ReusedBallot(m, r) ==
  accepted[m][r.slot].ballot = r.ballot /\ accepted[m][r.slot].value # r.value

HandleAccept(m) == \E r \in msgs :
  /\ r.type = "accept" /\ <<r.from, m>> \in Link
  /\ ~ReusedBallot(m, r)
  /\ LET other == decided[m][r.slot] \notin {NoValue, r.value}
         rejected == other \/ Below(r.ballot, promised[m][r.slot])
         old == promised[m][r.slot]
     IN  /\ IF rejected
              THEN UNCHANGED <<promised, accepted, votes>>
              ELSE /\ promised' = [promised EXCEPT ![m][r.slot] = r.ballot]
                   /\ accepted' = [accepted EXCEPT ![m][r.slot] =
                                     [ballot |-> r.ballot, value |-> r.value]]
                   /\ votes' = votes \cup {<<m, r.slot, r.ballot, r.value>>}
         /\ ReplyTo("accept", r.ballot,
              [from |-> m, accepted |-> ~rejected,
               highest |-> IF rejected /\ old # NoBallot THEN old ELSE r.ballot])
  /\ UNCHANGED <<localRound, decided, lastApplied, register, results, msgs>>

\* "already decided a different value": the handler raises, nothing is saved.
ConflictingDecision(m, slot, value) == decided[m][slot] \notin {NoValue, value}

\* Record the decision and apply every decided slot that now follows the prefix.
Decide(m, slot, value) ==
  LET log == [decided[m] EXCEPT ![slot] = value]
      first == lastApplied[m]
  IN  IF decided[m][slot] # NoValue
        THEN UNCHANGED <<decided, lastApplied, register, results>>
        ELSE \E last \in first..MaxSlot :
               /\ \A s \in (first + 1)..last : log[s] # NoValue
               /\ last < MaxSlot => log[last + 1] = NoValue
               /\ decided' = [decided EXCEPT ![m] = log]
               /\ lastApplied' = [lastApplied EXCEPT ![m] = last]
               /\ LET reg == Replay(register[m], log, first, last)
                  IN  /\ register' = [register EXCEPT ![m] = reg[last]]
                      /\ results' = [results EXCEPT ![m] =
                           [s \in Slot |-> IF s \in (first + 1)..last
                                             THEN ResultOf(reg[s - 1], log[s])
                                             ELSE results[m][s]]]

HandleDecide(m) == \E r \in msgs :
  /\ r.type = "decide" /\ <<r.from, m>> \in Link
  /\ ~ConflictingDecision(m, r.slot, r.value)
  /\ Decide(m, r.slot, r.value)
  /\ UNCHANGED <<localRound, promised, accepted, call, msgs, votes>>
-----------------------------------------------------------------------------
(* The proposer of one call.  It awaits between these steps, and reads the *)
(* acceptor of its own member without the lock.                            *)

Goto(c, label) == call' = [call EXCEPT ![c].pc = label]

\* The call ends with an error; its proposer's state is gone.
Failed(c) == NewCall("failed", 0, call[c].command, 0)
Fail(c) == call' = [call EXCEPT ![c] = Failed(c)]

\* The versions that operations have reported to their clients so far.
Reported == {0} \cup {call[c].result.snapshot.version : c \in {d \in Call : call[d].pc = "done"}}

IsHighest(n, S) == n \in S /\ \A k \in S : k <= n

\* A client's request reaches member m.  floor is the highest version that any
\* operation had reported to its client before this one began.
Start(c, m) ==
  /\ call[c].pc = "idle"
  /\ \E command \in Command, floor \in Reported :
       /\ <<c, m, command>> \in Workload
       /\ IsHighest(floor, Reported)
       /\ call' = [call EXCEPT ![c] = NewCall("propose", m, command, floor)]
  /\ UNCHANGED <<durable, results, msgs>>

\* Faulty: keeps clear of the slots that this member has promised to anyone.
TakeUnpromisedSlot(c) ==
  /\ call[c].pc = "propose"
  /\ \E s \in Slot :
       /\ \A v \in 1..MaxSlot : (promised[call[c].at][v] = NoBallot) <=> v >= s
       /\ call' = [call EXCEPT ![c] = [call[c] EXCEPT !.pc = "reserve", !.slot = s,
                                         !.attempts = 0, !.observed = 0]]
  /\ UNCHANGED <<durable, results, msgs>>

\* Propose for the slot after the prefix that this member has applied.
TakeSlot(c) ==
  /\ call[c].pc = "propose"
  /\ lastApplied[call[c].at] < MaxSlot
  /\ call' = [call EXCEPT ![c] = [call[c] EXCEPT !.pc = "reserve", !.slot = lastApplied[call[c].at] + 1,
                                    !.attempts = 0, !.observed = 0]]
  /\ UNCHANGED <<durable, results, msgs>>

\* reserve_ballot, then the Prepare requests to every member.
ReserveBallot(c) ==
  LET m == call[c].at
      high == IF localRound[m] > call[c].observed THEN localRound[m] ELSE call[c].observed
      ballot == [round |-> high + 1, node |-> m]
  IN  /\ call[c].pc = "reserve"
      /\ call[c].attempts < MaxBallotAttempts
      /\ localRound' = [localRound EXCEPT ![m] = high + 1]
      /\ call' = [call EXCEPT ![c] = [call[c] EXCEPT !.pc = "prepare", !.ballot = ballot,
                                        !.attempts = @ + 1, !.replies = {}]]
      /\ msgs' = msgs \cup {[type |-> "prepare", from |-> m, slot |-> call[c].slot,
                             ballot |-> ballot]}
      /\ UNCHANGED <<promised, accepted, decided, lastApplied, register, results, votes>>

\* Faulty: a call that has used all its ballots never says so.
NoQuorumInGather(c) ==
  call[c].pc \in {"prepare", "accept"} /\ Fail(c) /\ UNCHANGED <<durable, results, msgs>>

\* The call gives up: no ballot left, or a gather that too few replies reached.
\* Any number of replies may be lost, so the second is possible in every gather.
NoQuorum(c) ==
  /\ \/ call[c].pc = "reserve" /\ call[c].attempts = MaxBallotAttempts
     \/ call[c].pc \in {"prepare", "accept"}
  /\ Fail(c)
  /\ UNCHANGED <<durable, results, msgs>>

\* The replies that arrived before the gather ended.
Arrived(c) == {R \in SUBSET call[c].replies : Members(R) \in Quorum}

\* The rounds that a call knows of after these replies; observed_round is the
\* highest of them.
RoundsSeen(c, R) == {call[c].observed} \cup {r.highest.round : r \in R}

Decisions(R) == {r.decided : r \in R} \ {NoValue}

\* A member reports the slot's decision: learn it instead of proposing.
\* (Two decisions raise PaxosSafetyError: see ConflictRaised.)
AdoptDecision(c) ==
  /\ call[c].pc = "prepare"
  /\ \E R \in Arrived(c), value \in Command :
       /\ Decisions(R) = {value}
       /\ call' = [call EXCEPT ![c] = [call[c] EXCEPT !.pc = "learn", !.selected = value,
                                         !.replies = {}]]
  /\ UNCHANGED <<durable, results, msgs>>

\* Faulty: proposes its own value whatever the promises report.
AdoptsNone(promises, own, value) == value = own

\* The value to propose: that of the highest accepted ballot among the
\* promises, or the caller's own when no promise carries one.
Adopts(promises, own, value) ==
  LET taken == {r \in promises : r.accepted # Nothing}
  IN  \/ taken = {} /\ value = own
      \/ \E r \in taken :
           /\ \A q \in taken : ~Below(r.accepted.ballot, q.accepted.ballot)
           /\ value = r.accepted.value

SendAccept(c) ==
  /\ call[c].pc = "prepare"
  /\ \E R \in Arrived(c), value \in Command : \E n \in RoundsSeen(c, R) :
       LET promises == {r \in R : r.promised}
       IN  /\ Decisions(R) = {}
           /\ IsHighest(n, RoundsSeen(c, R))
           /\ Members(promises) \in Quorum
           /\ Adopts(promises, call[c].command, value)
           /\ call' = [call EXCEPT ![c] = [call[c] EXCEPT !.pc = "accept", !.selected = value,
                                             !.observed = n, !.replies = {}]]
           /\ msgs' = msgs \cup {[type |-> "accept", from |-> call[c].at,
                                  slot |-> call[c].slot, ballot |-> call[c].ballot, value |-> value]}
  /\ UNCHANGED <<durable, results>>

\* Faulty: counts the replies to Accept, rejections among them.
AnsweredByQuorum(c) ==
  /\ call[c].pc = "accept"
  /\ Arrived(c) # {}
  /\ call' = [call EXCEPT ![c] = [call[c] EXCEPT !.pc = "learn", !.replies = {}]]
  /\ UNCHANGED <<durable, results, msgs>>

\* A quorum accepted: the value is chosen, and this member learns it next.
AcceptedByQuorum(c) ==
  /\ call[c].pc = "accept"
  /\ \E R \in Arrived(c) : Members({r \in R : r.accepted}) \in Quorum
  /\ call' = [call EXCEPT ![c] = [call[c] EXCEPT !.pc = "learn", !.replies = {}]]
  /\ UNCHANGED <<durable, results, msgs>>

\* Promises or acceptances fall short of a quorum: try a higher ballot.
Outvoted(c) ==
  /\ call[c].pc \in {"prepare", "accept"}
  /\ \E R \in Arrived(c) : \E n \in RoundsSeen(c, R) :
       /\ IsHighest(n, RoundsSeen(c, R))
       /\ IF call[c].pc = "prepare"
            THEN Decisions(R) = {} /\ Members({r \in R : r.promised}) \notin Quorum
            ELSE Members({r \in R : r.accepted}) \notin Quorum
       /\ call' = [call EXCEPT ![c] = [call[c] EXCEPT !.pc = "reserve", !.observed = n,
                                         !.replies = {}]]
  /\ UNCHANGED <<durable, results, msgs>>

\* _learn: the member's own acceptor decides first, then the peers are told.
Learn(c) ==
  LET m == call[c].at
  IN  /\ call[c].pc = "learn"
      /\ ~ConflictingDecision(m, call[c].slot, call[c].selected)
      /\ Decide(m, call[c].slot, call[c].selected)
      /\ msgs' = msgs \cup {[type |-> "decide", from |-> m, slot |-> call[c].slot,
                             value |-> call[c].selected]}
      /\ Goto(c, "learned")
      /\ UNCHANGED <<localRound, promised, accepted, votes>>

\* The slot went to this call's command, or to one equal to it: report what
\* applying that slot returned.
Return(c) ==
  /\ call[c].pc = "learned"
  /\ call[c].selected = call[c].command
  /\ results[call[c].at][call[c].slot] # NoResult
  /\ call' = [call EXCEPT ![c] = [call[c] EXCEPT !.pc = "done",
                                    !.result = results[call[c].at][call[c].slot]]]
  /\ UNCHANGED <<durable, results, msgs>>

\* The slot went to another command: propose again, for a later slot.
NextSlot(c) ==
  /\ call[c].pc = "learned"
  /\ call[c].selected # call[c].command
  /\ Goto(c, "propose")
  /\ UNCHANGED <<durable, results, msgs>>

\* A PaxosSafetyError ("conflicting decisions", "already decided a different
\* value") would end the call here.  No step is written for it: NoSafetyError says
\* that it does not happen.
ConflictRaised(c) ==
  \/ /\ call[c].pc = "prepare"
     /\ \E R \in Arrived(c) : Cardinality(Decisions(R)) > 1
  \/ /\ call[c].pc = "learn"
     /\ ConflictingDecision(call[c].at, call[c].slot, call[c].selected)

\* Faulty: the calls survive the restart, the results do not.
RestartKeepingCalls(m) ==
  /\ results' = [results EXCEPT ![m] = [s \in Slot |-> NoResult]]
  /\ UNCHANGED <<durable, call, msgs>>

\* Faulty: promises are not on disk.
RestartForgettingPromises(m) ==
  /\ promised' = [promised EXCEPT ![m] = [s \in Slot |-> NoBallot]]
  /\ call' = [c \in Call |-> IF Running(c) /\ call[c].at = m THEN Failed(c) ELSE call[c]]
  /\ UNCHANGED <<localRound, accepted, decided, lastApplied, register, votes, results, msgs>>

\* Member m stops and starts again from its store: the calls it was running
\* and the results of applied slots are gone.
Restart(m) ==
  /\ results' = [results EXCEPT ![m] = [s \in Slot |-> NoResult]]
  /\ call' = [c \in Call |-> IF Running(c) /\ call[c].at = m
                               THEN Failed(c) ELSE call[c]]
  /\ UNCHANGED <<durable, msgs>>
-----------------------------------------------------------------------------
Proposer(c) ==
  \/ TakeSlot(c) \/ ReserveBallot(c) \/ NoQuorum(c) \/ AdoptDecision(c)
  \/ SendAccept(c) \/ AcceptedByQuorum(c) \/ Outvoted(c) \/ Learn(c)
  \/ Return(c) \/ NextSlot(c)

Acceptor(m) == HandlePrepare(m) \/ HandleAccept(m) \/ HandleDecide(m)

Next ==
  \/ \E c \in Call : Proposer(c) \/ \E m \in Member : Start(c, m)
  \/ \E m \in Member : Acceptor(m) \/ Restart(m)

Spec == Init /\ [][Next]_vars

\* A proposer's task is scheduled until it ends: each gather ends when its last
\* request is answered, fails or times out.
FairSpec == Spec /\ \A c \in Call : WF_vars(Proposer(c))
-----------------------------------------------------------------------------
(* Properties.                                                             *)

VoteRequests(s) == {r \in msgs : r.type = "accept" /\ r.slot = s}

\* The members that accepted the request's value in its ballot.
Voters(r) == {m \in Member : <<m, r.slot, r.ballot, r.value>> \in votes}

\* A quorum accepted the value in one ballot of the slot.
Chosen(s, v) == \E r \in VoteRequests(s) : r.value = v /\ Voters(r) \in Quorum

CallState ==
  [pc : {"idle", "propose", "reserve", "prepare", "accept", "learn", "learned",
         "done", "failed"},
   at : Member \cup {0}, command : Command \cup {NoValue}, slot : 0..MaxSlot,
   attempts : Nat, observed : Nat, ballot : Ballot \cup {NoBallot},
   replies : SUBSET (PrepareReply \cup AcceptReply),
   selected : Command \cup {NoValue}, result : Result \cup {NoResult}, floor : Nat]

\* What a proposer has in hand in each of its phases.
WellFormed(c) ==
  /\ Running(c) => call[c].at \in Member /\ call[c].command \in Command
  /\ call[c].pc \in {"reserve", "prepare", "accept", "learn", "learned"}
       => call[c].slot \in Slot
  /\ call[c].pc \in {"prepare", "accept"} => call[c].ballot \in Ballot
  /\ call[c].pc = "prepare" => call[c].replies \subseteq PrepareReply
  /\ call[c].pc = "accept" => call[c].replies \subseteq AcceptReply
  /\ call[c].pc \in {"accept", "learn", "learned"} => call[c].selected \in Command
  /\ call[c].pc = "done" => call[c].result \in Result

\* The variables stay in their types (the pydantic models of types.py), and a
\* proposer has what its phase needs: a member, a slot, a ballot, replies of the
\* phase's kind, a selected command, a result.
TypeOK ==
  /\ localRound \in [Member -> Nat]
  /\ promised \in [Member -> [Slot -> Ballot \cup {NoBallot}]]
  /\ accepted \in [Member -> [Slot -> Vote \cup {Nothing}]]
  /\ decided \in [Member -> [Slot -> Command \cup {NoValue}]]
  /\ lastApplied \in [Member -> 0..MaxSlot]
  /\ register \in [Member -> Snapshot]
  /\ results \in [Member -> [Slot -> Result \cup {NoResult}]]
  /\ call \in [Call -> CallState]
  /\ \A c \in Call : WellFormed(c)
  /\ msgs \subseteq Message
  /\ votes \subseteq Member \X Slot \X Ballot \X Command

\* No PaxosSafetyError is ever raised: no ballot is reused for another value, and no
\* two decisions for a slot ever meet, whatever is late, lost or restarted.
NoSafetyError ==
  /\ \A c \in Call : ~ConflictRaised(c)
  /\ \A r \in msgs, m \in Member :
       /\ r.type = "accept" => ~ReusedBallot(m, r)
       /\ r.type = "decide" => ~ConflictingDecision(m, r.slot, r.value)

\* A call that won its slot finds the result of its slot (PaxosAcceptor.result never
\* raises KeyError), although results are kept in memory only.
ResultsAreKept ==
  \A c \in Call :
    call[c].pc = "learned" /\ call[c].selected = call[c].command
      => results[call[c].at][call[c].slot] # NoResult

\* Two members never record different decisions for a slot.
Agreement ==
  \A m, n \in Member, s \in Slot :
    decided[m][s] # NoValue /\ decided[n][s] # NoValue => decided[m][s] = decided[n][s]

\* A member acts on a decision (records it, or tells a peer) only when a quorum
\* durably holds it: a decision outlives the failure of any minority.
DecisionsAreChosen ==
  /\ \A m \in Member, s \in Slot : decided[m][s] # NoValue => Chosen(s, decided[m][s])
  /\ \A r \in msgs : r.type = "decide" => Chosen(r.slot, r.value)

\* Members that applied the same prefix hold the same register, across restarts
\* and whatever the order in which they learned the slots.
ReplicasAgree ==
  \A m, n \in Member : lastApplied[m] = lastApplied[n] => register[m] = register[n]

\* The log has no holes: a value is put to the vote in a slot only when every
\* earlier slot is decided somewhere.
NoHoles ==
  \A s \in Slot, v \in 1..MaxSlot :
    v < s /\ VoteRequests(s) # {} => \E m \in Member : decided[m][v] # NoValue

Done(c) == call[c].pc = "done"

\* Two compare-and-set calls are told that they installed the same version only
\* if they installed the same chain.
OneWinnerPerVersion ==
  \A c, d \in Call :
    /\ Done(c) /\ call[c].result.kind = "applied"
    /\ Done(d) /\ call[d].result.kind = "applied"
    /\ call[c].result.snapshot.version = call[d].result.snapshot.version
    => call[c].command.chain = call[d].command.chain

\* An answer accounts for everything that was reported before its call began,
\* provided no other call sent an equal command.
AnswersAreFresh ==
  \A c \in Call :
    Done(c) /\ (\A d \in Call \ {c} : call[d].command # call[c].command)
      => call[c].result.snapshot.version >= call[c].floor

\* A read accounts for every installation reported before it began: the claim that
\* it decides a barrier in a new slot.  It does not hold, see the README.
ReadsAreFresh ==
  \A c \in Call :
    Done(c) /\ call[c].result.kind = "snapshot"
      => call[c].result.snapshot.version >= call[c].floor

\* What a member saved stays: promises and the applied prefix only rise, a
\* decision and the register's version are never taken back, restarts included.
DurableStateOnlyGrows ==
  [][\A m \in Member :
       /\ lastApplied'[m] >= lastApplied[m] /\ register'[m].version >= register[m].version
       /\ \A s \in Slot :
            /\ ~Below(promised'[m][s], promised[m][s])
            /\ ~Below(accepted'[m][s].ballot, accepted[m][s].ballot)
            /\ decided[m][s] # NoValue => decided'[m][s] = decided[m][s]]_vars

\* Every call ends: rival proposers can outvote each other only MaxBallotAttempts
\* times per slot, and a slot lost to another command is a slot further on.
CallsEnd == \A c \in Call : Running(c) ~> ~Running(c)

\* The decided log, and the chains that its compare-and-set commands installed.
ChosenValue(s) ==
  LET values == {r.value : r \in {q \in VoteRequests(s) : Voters(q) \in Quorum}}
  IN  IF values = {} THEN NoValue ELSE CHOOSE v \in values : TRUE

Installed ==
  LET chains[s \in 0..MaxSlot] ==
        IF s = 0 THEN <<>>
        ELSE LET before == chains[s - 1]
                 value == ChosenValue(s)
             IN  IF value \in CompareAndSet /\ value.expected = Len(before)
                   THEN Append(before, value.chain) ELSE before
  IN  chains[MaxSlot]

MetaStore == INSTANCE MetaStoreSpec WITH
  history <- Installed,
  asked <- [c \in Call |-> call[c].command],
  answers <- [c \in Call |-> call[c].result]

\* The replicated log implements the register: a command takes effect at the
\* moment a quorum has accepted it, exactly once, and answers are truthful.
ImplementsMetaStore == MetaStore!Spec
=============================================================================
