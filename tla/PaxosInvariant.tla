--------------------------- MODULE PaxosInvariant ---------------------------
(***************************************************************************)
(* The inductive invariants of PaxosMetaStore.  IInv: what the votes, the  *)
(* messages and the proposers' replies say of each other, from which       *)
(* NoSafetyError, Agreement and DecisionsAreChosen follow.  LogInv: what   *)
(* replicas, results and calls say of the replicated log.                  *)
(***************************************************************************)
EXTENDS PaxosMetaStore

VotedFor(m, s, b, v) == <<m, s, b, v>> \in votes

\* Member m has promised ballot b or a higher one in slot s.
HasPromised(m, s, b) == ~Below(promised[m][s], b)

\* Member m did not vote in ballot b of slot s and never will.
ClosedTo(m, s, b) ==
  Below(b, promised[m][s]) /\ \A v \in Command : ~VotedFor(m, s, b, v)

\* No other value than v can have been chosen, or ever be, below ballot b.
SafeAt(s, b, v) ==
  \A r \in VoteRequests(s) : Below(r.ballot, b) =>
    \E Q \in Quorum : \A m \in Q : VotedFor(m, s, r.ballot, v) \/ ClosedTo(m, s, r.ballot)

\* An acceptor's accepted pair is its last vote, and it has promised no less.
VotesInv ==
  /\ \A m \in Member, s \in Slot :
       \/ accepted[m][s] = Nothing
       \/ /\ VotedFor(m, s, accepted[m][s].ballot, accepted[m][s].value)
          /\ HasPromised(m, s, accepted[m][s].ballot)
  /\ \A x \in votes :
       /\ ~Below(accepted[x[1]][x[2]].ballot, x[3])
       /\ \E r \in VoteRequests(x[2]) : r.ballot = x[3] /\ r.value = x[4]

\* A ballot is put to the vote for one value, in one slot.
OneRequestPerBallot ==
  \A r, q \in msgs :
    r.type = "accept" /\ q.type = "accept" /\ r.ballot = q.ballot
      => r.slot = q.slot /\ r.value = q.value

\* A value put to the vote was safe to vote for, and a quorum still keeps lower
\* ballots out.
RequestsAreSafe ==
  \A r \in msgs : r.type = "accept" =>
    /\ SafeAt(r.slot, r.ballot, r.value)
    /\ \E Q \in Quorum : \A m \in Q : HasPromised(m, r.slot, r.ballot)

\* A ballot that was never reserved is in no message, and no two calls share one.
BallotsInv ==
  /\ \A r \in msgs : r.type # "decide" => r.ballot.round <= localRound[r.ballot.node]
  /\ \A c \in Call : call[c].ballot # NoBallot =>
       /\ call[c].ballot.round <= localRound[call[c].ballot.node]
       /\ \A d \in Call : call[d].ballot = call[c].ballot => d = c

\* A reply to Prepare states a promise that still stands and the member's highest
\* vote below the ballot.
PromiseHolds(c, r) ==
  LET s == call[c].slot
      b == call[c].ballot
  IN  /\ r.decided # NoValue => Chosen(s, r.decided)
      /\ r.promised =>
           /\ HasPromised(r.from, s, b)
           /\ r.accepted # Nothing => VotedFor(r.from, s, r.accepted.ballot, r.accepted.value)
           /\ \A x \in votes : x[1] = r.from /\ x[2] = s /\ Below(x[3], b)
                                 => ~Below(r.accepted.ballot, x[3])

AcceptanceHolds(c, r) ==
  r.accepted => VotedFor(r.from, call[c].slot, call[c].ballot, call[c].selected)

\* What a proposer relies on in each of its phases.
ProposerInv(c) ==
  /\ call[c].pc = "prepare" =>
       /\ \A r \in msgs : r.type # "decide" /\ r.ballot = call[c].ballot
                            => r.type = "prepare" /\ r.slot = call[c].slot
       /\ \A r \in call[c].replies : PromiseHolds(c, r)
  /\ call[c].pc = "accept" =>
       /\ \E r \in VoteRequests(call[c].slot) :
            r.ballot = call[c].ballot /\ r.value = call[c].selected
       /\ \A r \in call[c].replies : AcceptanceHolds(c, r)
  /\ call[c].pc = "learn" => Chosen(call[c].slot, call[c].selected)

IInv ==
  /\ TypeOK
  /\ VotesInv
  /\ OneRequestPerBallot
  /\ RequestsAreSafe
  /\ BallotsInv
  /\ \A c \in Call : ProposerInv(c)
  /\ DecisionsAreChosen
-----------------------------------------------------------------------------
(* The replicated log: what the members' applied prefixes, the results of  *)
(* their slots and the calls say of each other.                            *)

\* The registers that member m has passed through.
Registers(m) == Replay(InitialSnapshot, decided[m], 0, lastApplied[m])

\* A member has applied the slots that it knows the decisions of, up to the first
\* that it does not, and its register is what they make.
PrefixInv ==
  \A m \in Member :
    /\ \A s \in 1..lastApplied[m] : decided[m][s] # NoValue
    /\ lastApplied[m] < MaxSlot => decided[m][lastApplied[m] + 1] = NoValue
    /\ register[m] = Registers(m)[lastApplied[m]]

\* The result that command s of the log has at a member that has applied it.
OutcomeAt(m, s) == ResultOf(Registers(m)[s - 1], decided[m][s])

\* A result that is kept is that of an applied slot.
ResultsInv ==
  \A m \in Member, s \in Slot :
    results[m][s] # NoResult => s <= lastApplied[m] /\ results[m][s] = OutcomeAt(m, s)

\* A call's slot follows the prefix of its member, or is in it since the call runs.
SlotInv(c) ==
  call[c].pc \in {"reserve", "prepare", "accept", "learn", "learned"} =>
    LET m == call[c].at
        s == call[c].slot
    IN  /\ s <= lastApplied[m] + 1
        /\ s <= lastApplied[m] => results[m][s] # NoResult
        /\ call[c].pc = "learned" => s <= lastApplied[m] /\ decided[m][s] = call[c].selected

\* What is put to the vote was sent by a client, and a call that has not begun sent none.
SentInv ==
  /\ \A c \in Call : call[c].pc = "idle" => call[c].command = NoValue
  /\ \A r \in msgs : r.type = "accept" => \E c \in Call : call[c].command = r.value

\* An answer is the outcome of the call's command in a slot that it won.
AnswerInv(c) ==
  Done(c) => \E m \in Member : \E s \in 1..lastApplied[m] :
    decided[m][s] = call[c].command /\ call[c].result = OutcomeAt(m, s)

\* No other call was sent an equal command.
Alone(c) == \A d \in Call \ {c} : call[d].command # call[c].command

\* Some member had passed the version that was reported before the call began when
\* the call's command was in no slot yet.
FreshInv(c) ==
  (Running(c) \/ Done(c)) /\ Alone(c) =>
    \E m \in Member : \E t \in 0..lastApplied[m] :
      /\ Registers(m)[t].version >= call[c].floor
      /\ \A s \in 1..t : decided[m][s] # call[c].command

LogInv ==
  /\ PrefixInv
  /\ ResultsInv
  /\ NoHoles
  /\ SentInv
  /\ \A c \in Call : SlotInv(c) /\ AnswerInv(c) /\ FreshInv(c)
=============================================================================
