-------------------------- MODULE PaxosSafetyProofs --------------------------
(***************************************************************************)
(* The types and the agreement of the replicated MetaStore, for any        *)
(* membership, workload, links and bounds: TypeOK is inductive, and so is  *)
(* IInv of PaxosInvariant, which implies NoSafetyError, Agreement and      *)
(* DecisionsAreChosen.                                                     *)
(***************************************************************************)
EXTENDS PaxosInvariant, VersionRegisterProofs, FiniteSetTheorems

-----------------------------------------------------------------------------
(* Types.                                                                  *)

\* The types of the variables that the acceptors save.
\* A member, a phase and a command are told apart from their absence.
LEMMA Absences ==
  /\ NoBallot \notin Ballot
  /\ NoResult \notin Result
  /\ \A r \in Result : r.snapshot.version \in Nat
BY DEF NoBallot, Ballot, NoResult, Result, Snapshot

\* What an acceptor holds for a slot.
LEMMA SlotType ==
  ASSUME TypeOK, NEW m \in Member, NEW s \in Slot
  PROVE  /\ promised[m][s] \in Ballot \cup {NoBallot}
         /\ accepted[m][s] \in Vote \cup {Nothing}
         /\ decided[m][s] \in Command \cup {NoValue}
         /\ results[m][s] \in Result \cup {NoResult}
BY DEF TypeOK

\* Replacing the state of one call keeps the calls well formed.
LEMMA CallUpdate ==
  ASSUME call \in [Call -> CallState], \A d \in Call : WellFormed(d),
         NEW c \in Call, NEW new \in CallState,
         call' = [call EXCEPT ![c] = new],
         WellFormed(c)'
  PROVE  call' \in [Call -> CallState] /\ (\A d \in Call : WellFormed(d))'
<1>1. \A d \in Call : d # c => call'[d] = call[d]
  OBVIOUS
<1>2. \A d \in Call : d # c => WellFormed(d)'
  BY <1>1 DEF WellFormed, Running
<1> QED BY <1>2

\* The types survive an acceptor's deciding a slot.
LEMMA DecideType ==
  ASSUME TypeOK, NEW m \in Member, NEW slot \in Slot, NEW value \in Command,
         Decide(m, slot, value)
  PROVE  /\ decided' \in [Member -> [Slot -> Command \cup {NoValue}]]
         /\ lastApplied' \in [Member -> 0..MaxSlot]
         /\ register' \in [Member -> Snapshot]
         /\ results' \in [Member -> [Slot -> Result \cup {NoResult}]]
<1> DEFINE log == [decided[m] EXCEPT ![slot] = value]
           first == lastApplied[m]
<1>1. CASE decided[m][slot] # NoValue
  BY <1>1 DEF Decide, TypeOK
<1>2. CASE decided[m][slot] = NoValue
  <2>1. PICK last \in first..MaxSlot :
          /\ \A s \in (first + 1)..last : log[s] # NoValue
          /\ decided' = [decided EXCEPT ![m] = log]
          /\ lastApplied' = [lastApplied EXCEPT ![m] = last]
          /\ register' = [register EXCEPT ![m] = Replay(register[m], log, first, last)[last]]
          /\ results' = [results EXCEPT ![m] =
               [s \in Slot |-> IF s \in (first + 1)..last
                                 THEN ResultOf(Replay(register[m], log, first, last)[s - 1], log[s])
                                 ELSE results[m][s]]]
    BY <1>2 DEF Decide
  <2>2. log \in [Slot -> Command \cup {NoValue}]
    BY DEF TypeOK
  <2>3. first \in Nat /\ last \in Nat /\ first <= last /\ last <= MaxSlot /\ register[m] \in Snapshot
    BY BoundAssumption DEF TypeOK
  <2>4. \A s \in (first + 1)..last : s \in Slot /\ log[s] \in Command
    <3> HIDE DEF log, first
    <3> QED BY <2>1, <2>2, <2>3, BoundAssumption DEF Slot
  <2> DEFINE reg == Replay(register[m], log, first, last)
  <2>5. reg \in [first..last -> Snapshot]
    <3> HIDE DEF log, first
    <3> QED BY <2>3, <2>4, ReplayType
  <2>6. reg[last] \in Snapshot /\ \A s \in (first + 1)..last : reg[s - 1] \in Snapshot
    <3> HIDE DEF log, first, reg
    <3> QED BY <2>3, <2>5
  <2>7. \A s \in (first + 1)..last : ResultOf(reg[s - 1], log[s]) \in Result
    <3> HIDE DEF log, first, reg
    <3> QED BY <2>4, <2>6, AppliedType
  <2> HIDE DEF log, first, reg
  <2>8. results' \in [Member -> [Slot -> Result \cup {NoResult}]]
    BY <2>1, <2>7 DEF TypeOK, reg
  <2> QED BY <2>1, <2>2, <2>3, <2>6, <2>8 DEF TypeOK, reg
<1> QED BY <1>1, <1>2

\* The types survive the delivery of a reply of the phase's kind.
LEMMA ReplyType ==
  ASSUME TypeOK, NEW b \in Ballot, NEW phase \in {"prepare", "accept"}, NEW reply,
         phase = "prepare" => reply \in PrepareReply,
         phase = "accept" => reply \in AcceptReply,
         ReplyTo(phase, b, reply)
  PROVE  call' \in [Call -> CallState] /\ (\A d \in Call : WellFormed(d))'
<1>1. CASE UNCHANGED call
  BY <1>1 DEF TypeOK, WellFormed, Running
<1>2. ASSUME NEW c \in Call, Deliver(c, phase, b, reply)
      PROVE  call' \in [Call -> CallState] /\ (\A d \in Call : WellFormed(d))'
  <2> DEFINE awaited == call[c].pc = phase /\ call[c].ballot = b
                          /\ reply.from \notin Members(call[c].replies)
             new == [call[c] EXCEPT !.replies = IF awaited THEN @ \cup {reply} ELSE @]
  <2>1. call' = [call EXCEPT ![c] = new]
    BY <1>2 DEF Deliver
  <2>2. call[c] \in CallState /\ WellFormed(c)
    BY DEF TypeOK
  <2>3. new \in CallState
    BY <2>2 DEF CallState
  <2>4. WellFormed(c)'
    <3>1. call'[c] = new
      BY <2>1 DEF TypeOK
    <3>2. CASE ~awaited
      BY <2>2, <3>1, <3>2 DEF WellFormed, Running, CallState
    <3>3. CASE awaited
      BY <2>2, <3>1, <3>3 DEF WellFormed, Running, CallState
    <3> QED BY <3>2, <3>3
  <2> HIDE DEF new
  <2> QED BY <2>1, <2>3, <2>4, CallUpdate DEF TypeOK
<1> QED BY <1>1, <1>2 DEF ReplyTo

\* A proposer's step, in terms of the new state of its call: what it must satisfy.
FitsPhase(new) ==
  /\ new.pc \notin {"idle", "done", "failed"} => new.at \in Member /\ new.command \in Command
  /\ new.pc \in {"reserve", "prepare", "accept", "learn", "learned"} => new.slot \in Slot
  /\ new.pc \in {"prepare", "accept"} => new.ballot \in Ballot
  /\ new.pc = "prepare" => new.replies \subseteq PrepareReply
  /\ new.pc = "accept" => new.replies \subseteq AcceptReply
  /\ new.pc \in {"accept", "learn", "learned"} => new.selected \in Command
  /\ new.pc = "done" => new.result \in Result

LEMMA CallStep ==
  ASSUME TypeOK, NEW c \in Call, NEW new \in CallState, FitsPhase(new),
         call' = [call EXCEPT ![c] = new]
  PROVE  call' \in [Call -> CallState] /\ (\A d \in Call : WellFormed(d))'
<1>1. call'[c] = new
  BY DEF TypeOK
<1>2. WellFormed(c)'
  BY <1>1 DEF WellFormed, Running, FitsPhase
<1> QED BY <1>2, CallUpdate DEF TypeOK

\* Rounds seen are naturals.
LEMMA RoundsType ==
  ASSUME TypeOK, NEW c \in Call, call[c].pc \in {"prepare", "accept"}, NEW R \in Arrived(c)
  PROVE  RoundsSeen(c, R) \subseteq Nat
<1>1. call[c] \in CallState /\ WellFormed(c)
  BY DEF TypeOK
<1>2. \A r \in R : r.highest \in Ballot
  BY <1>1 DEF WellFormed, Arrived, PrepareReply, AcceptReply
<1> QED BY <1>1, <1>2 DEF RoundsSeen, CallState, Ballot

LEMMA FailType ==
  ASSUME TypeOK, NEW c \in Call
  PROVE  Failed(c) \in CallState /\ FitsPhase(Failed(c))
<1>1. call[c].command \in Command \cup {NoValue}
  BY DEF TypeOK, CallState
<1>2. 0 \in 0..MaxSlot /\ 0 \in Nat
  BY BoundAssumption
<1>3. Failed(c) \in CallState
  BY <1>1, <1>2 DEF Failed, NewCall, CallState
<1>4. FitsPhase(Failed(c))
  BY DEF Failed, NewCall, FitsPhase
<1> QED BY <1>3, <1>4

\* The types survive every step of a proposer.
LEMMA ProposerType ==
  ASSUME TypeOK, NEW c \in Call, Proposer(c)
  PROVE  TypeOK'
<1>1. call[c] \in CallState /\ WellFormed(c)
  BY DEF TypeOK
<1>2. CASE TakeSlot(c)
  <2> DEFINE slot == lastApplied[call[c].at] + 1
             new == [call[c] EXCEPT !.pc = "reserve", !.slot = slot,
                       !.attempts = 0, !.observed = 0]
  <2>1. call[c].at \in Member /\ call[c].command \in Command
    BY <1>1, <1>2 DEF TakeSlot, WellFormed, Running
  <2>2. slot \in Slot /\ slot \in 0..MaxSlot
    BY <1>2, <2>1, BoundAssumption DEF TakeSlot, TypeOK, Slot
  <2>5. call' = [call EXCEPT ![c] = new]
    BY <1>2 DEF TakeSlot
  <2> HIDE DEF slot
  <2>3. new \in CallState
    BY <1>1, <2>2 DEF CallState
  <2>4. FitsPhase(new)
    BY <1>1, <2>1, <2>2 DEF CallState, FitsPhase
  <2> HIDE DEF new
  <2>6. call' \in [Call -> CallState] /\ (\A d \in Call : WellFormed(d))'
    BY <2>3, <2>4, <2>5, CallStep
  <2> QED BY <1>2, <2>6 DEF TakeSlot, TypeOK, durable
<1>3. CASE ReserveBallot(c)
  <2> DEFINE m == call[c].at
             high == IF localRound[m] > call[c].observed THEN localRound[m] ELSE call[c].observed
             ballot == [round |-> high + 1, node |-> m]
             attempts == call[c].attempts + 1
             new == [call[c] EXCEPT !.pc = "prepare", !.ballot = ballot,
                       !.attempts = attempts, !.replies = {}]
  <2>1. m \in Member /\ call[c].command \in Command /\ call[c].slot \in Slot
    BY <1>1, <1>3 DEF ReserveBallot, WellFormed, Running
  <2>2. high \in Nat
    BY <1>1, <2>1 DEF TypeOK, CallState
  <2>3. ballot \in Ballot
    BY <2>1, <2>2 DEF Ballot
  <2>4. new \in CallState /\ FitsPhase(new)
    <3>0. attempts \in Nat
      BY <1>1 DEF CallState
    <3> HIDE DEF ballot, attempts
    <3>1. new \in CallState
      BY <1>1, <2>3, <3>0 DEF CallState
    <3>2. FitsPhase(new)
      BY <1>1, <2>1, <2>3 DEF CallState, FitsPhase
    <3> QED BY <3>1, <3>2
  <2>5. /\ call' = [call EXCEPT ![c] = new]
        /\ localRound' = [localRound EXCEPT ![m] = high + 1]
        /\ msgs' = msgs \cup {[type |-> "prepare", from |-> m, slot |-> call[c].slot,
                               ballot |-> ballot]}
        /\ UNCHANGED <<promised, accepted, decided, lastApplied, register, results, votes>>
    BY <1>3 DEF ReserveBallot
  <2> HIDE DEF new, high, ballot, m
  <2>6. call' \in [Call -> CallState] /\ (\A d \in Call : WellFormed(d))'
    BY <2>4, <2>5, CallStep
  <2>7. msgs' \subseteq Message
    <3>1. [type |-> "prepare", from |-> m, slot |-> call[c].slot, ballot |-> ballot] \in Message
      BY <2>1, <2>3 DEF Message, m
    <3> QED BY <2>5, <3>1 DEF TypeOK
  <2>8. localRound' \in [Member -> Nat]
    BY <2>1, <2>2, <2>5 DEF TypeOK, m
  <2> QED BY <2>5, <2>6, <2>7, <2>8 DEF TypeOK
<1>4. CASE NoQuorum(c)
  <2>1. call' = [call EXCEPT ![c] = Failed(c)]
    BY <1>4 DEF NoQuorum, Fail
  <2>2. call' \in [Call -> CallState] /\ (\A d \in Call : WellFormed(d))'
    BY <2>1, FailType, CallStep
  <2> QED BY <1>4, <2>2 DEF NoQuorum, TypeOK, durable
<1>5. CASE AdoptDecision(c)
  <2>1. PICK value \in Command :
          call' = [call EXCEPT ![c] = [call[c] EXCEPT !.pc = "learn", !.selected = value,
                                         !.replies = {}]]
    BY <1>5 DEF AdoptDecision
  <2> DEFINE new == [call[c] EXCEPT !.pc = "learn", !.selected = value, !.replies = {}]
  <2>2. new \in CallState /\ FitsPhase(new)
    BY <1>1, <1>5 DEF AdoptDecision, WellFormed, Running, CallState, FitsPhase
  <2> HIDE DEF new
  <2>3. call' \in [Call -> CallState] /\ (\A d \in Call : WellFormed(d))'
    BY <2>1, <2>2, CallStep DEF new
  <2> QED BY <1>5, <2>3 DEF AdoptDecision, TypeOK, durable
<1>6. CASE SendAccept(c)
  <2>0. PICK R \in Arrived(c) : \E value \in Command, n \in RoundsSeen(c, R) :
          /\ call' = [call EXCEPT ![c] = [call[c] EXCEPT !.pc = "accept", !.selected = value,
                                            !.observed = n, !.replies = {}]]
          /\ msgs' = msgs \cup {[type |-> "accept", from |-> call[c].at,
                                 slot |-> call[c].slot, ballot |-> call[c].ballot,
                                 value |-> value]}
    BY <1>6 DEF SendAccept
  <2>1. PICK value \in Command, n \in RoundsSeen(c, R) :
          /\ call' = [call EXCEPT ![c] = [call[c] EXCEPT !.pc = "accept", !.selected = value,
                                            !.observed = n, !.replies = {}]]
          /\ msgs' = msgs \cup {[type |-> "accept", from |-> call[c].at,
                                 slot |-> call[c].slot, ballot |-> call[c].ballot,
                                 value |-> value]}
    BY <2>0
  <2> DEFINE new == [call[c] EXCEPT !.pc = "accept", !.selected = value, !.observed = n,
                       !.replies = {}]
  <2>2. n \in Nat
    BY <1>6, RoundsType DEF SendAccept
  <2>3. new \in CallState /\ FitsPhase(new)
    BY <1>1, <1>6, <2>2 DEF SendAccept, WellFormed, Running, CallState, FitsPhase
  <2>4. call[c].at \in Member /\ call[c].slot \in Slot /\ call[c].ballot \in Ballot
    BY <1>1, <1>6 DEF SendAccept, WellFormed, Running
  <2>5. msgs' \subseteq Message
    BY <2>1, <2>4 DEF Message, TypeOK
  <2> HIDE DEF new
  <2>6. call' \in [Call -> CallState] /\ (\A d \in Call : WellFormed(d))'
    BY <2>1, <2>3, CallStep DEF new
  <2> QED BY <1>6, <2>5, <2>6 DEF SendAccept, TypeOK, durable
<1>7. CASE AcceptedByQuorum(c)
  <2> DEFINE new == [call[c] EXCEPT !.pc = "learn", !.replies = {}]
  <2>1. call' = [call EXCEPT ![c] = new]
    BY <1>7 DEF AcceptedByQuorum
  <2>2. new \in CallState /\ FitsPhase(new)
    BY <1>1, <1>7 DEF AcceptedByQuorum, WellFormed, Running, CallState, FitsPhase
  <2> HIDE DEF new
  <2>3. call' \in [Call -> CallState] /\ (\A d \in Call : WellFormed(d))'
    BY <2>1, <2>2, CallStep
  <2> QED BY <1>7, <2>3 DEF AcceptedByQuorum, TypeOK, durable
<1>8. CASE Outvoted(c)
  <2>0. PICK R \in Arrived(c) : \E n \in RoundsSeen(c, R) :
          call' = [call EXCEPT ![c] = [call[c] EXCEPT !.pc = "reserve", !.observed = n,
                                         !.replies = {}]]
    BY <1>8 DEF Outvoted
  <2>1. PICK n \in RoundsSeen(c, R) :
          call' = [call EXCEPT ![c] = [call[c] EXCEPT !.pc = "reserve", !.observed = n,
                                         !.replies = {}]]
    BY <2>0
  <2> DEFINE new == [call[c] EXCEPT !.pc = "reserve", !.observed = n, !.replies = {}]
  <2>2. n \in Nat
    BY <1>8, RoundsType DEF Outvoted
  <2>3. new \in CallState /\ FitsPhase(new)
    BY <1>1, <1>8, <2>2 DEF Outvoted, WellFormed, Running, CallState, FitsPhase
  <2> HIDE DEF new
  <2>4. call' \in [Call -> CallState] /\ (\A d \in Call : WellFormed(d))'
    BY <2>1, <2>3, CallStep DEF new
  <2> QED BY <1>8, <2>4 DEF Outvoted, TypeOK, durable
<1>9. CASE Learn(c)
  <2> DEFINE m == call[c].at
             new == [call[c] EXCEPT !.pc = "learned"]
  <2>1. m \in Member /\ call[c].slot \in Slot /\ call[c].selected \in Command
    BY <1>1, <1>9 DEF Learn, WellFormed, Running
  <2>2. /\ decided' \in [Member -> [Slot -> Command \cup {NoValue}]]
        /\ lastApplied' \in [Member -> 0..MaxSlot]
        /\ register' \in [Member -> Snapshot]
        /\ results' \in [Member -> [Slot -> Result \cup {NoResult}]]
    BY <1>9, <2>1, DecideType DEF Learn
  <2>3. call' = [call EXCEPT ![c] = new]
    BY <1>9 DEF Learn, Goto
  <2>4. new \in CallState /\ FitsPhase(new)
    BY <1>1, <2>1, <1>9 DEF Learn, WellFormed, Running, CallState, FitsPhase
  <2>5. msgs' \subseteq Message
    BY <1>9, <2>1 DEF Learn, Message, TypeOK
  <2> HIDE DEF new, m
  <2>6. call' \in [Call -> CallState] /\ (\A d \in Call : WellFormed(d))'
    BY <2>3, <2>4, CallStep
  <2> QED BY <1>9, <2>2, <2>5, <2>6 DEF Learn, TypeOK
<1>10. CASE Return(c)
  <2> DEFINE result == results[call[c].at][call[c].slot]
             new == [call[c] EXCEPT !.pc = "done", !.result = result]
  <2>1. call' = [call EXCEPT ![c] = new]
    BY <1>10 DEF Return
  <2>2. call[c].at \in Member /\ call[c].slot \in Slot
    BY <1>1, <1>10 DEF Return, WellFormed, Running
  <2>3. result \in Result
    <3>1. result # NoResult
      BY <1>10 DEF Return
    <3> QED BY <2>2, <3>1, SlotType
  <2> HIDE DEF result
  <2>4. new \in CallState /\ FitsPhase(new)
    BY <1>1, <2>3 DEF CallState, FitsPhase
  <2> HIDE DEF new
  <2>5. call' \in [Call -> CallState] /\ (\A d \in Call : WellFormed(d))'
    BY <2>1, <2>4, CallStep
  <2> QED BY <1>10, <2>5 DEF Return, TypeOK, durable
<1>11. CASE NextSlot(c)
  <2> DEFINE new == [call[c] EXCEPT !.pc = "propose"]
  <2>1. call' = [call EXCEPT ![c] = new]
    BY <1>11 DEF NextSlot, Goto
  <2>2. new \in CallState /\ FitsPhase(new)
    BY <1>1, <1>11 DEF NextSlot, WellFormed, Running, CallState, FitsPhase
  <2> HIDE DEF new
  <2>3. call' \in [Call -> CallState] /\ (\A d \in Call : WellFormed(d))'
    BY <2>1, <2>2, CallStep
  <2> QED BY <1>11, <2>3 DEF NextSlot, TypeOK, durable
<1> QED BY <1>2, <1>3, <1>4, <1>5, <1>6, <1>7, <1>8, <1>9, <1>10, <1>11 DEF Proposer

\* The types survive the arrival of a client's request.
LEMMA StartType ==
  ASSUME TypeOK, NEW c \in Call, NEW m \in Member, Start(c, m)
  PROVE  TypeOK'
<1>1. PICK command \in Command, floor \in Reported :
        call' = [call EXCEPT ![c] = NewCall("propose", m, command, floor)]
  BY DEF Start
<1>2. floor \in Nat
  <2>1. \A d \in Call : call[d].pc = "done" => call[d].result \in Result
    BY DEF TypeOK, WellFormed
  <2> QED BY <2>1, Absences DEF Reported
<1> DEFINE new == NewCall("propose", m, command, floor)
<1>3. new \in CallState
  <2>1. 0 \in 0..MaxSlot /\ 0 \in Nat
    BY BoundAssumption
  <2> QED BY <1>2, <2>1 DEF NewCall, CallState
<1>4. FitsPhase(new)
  BY DEF NewCall, FitsPhase
<1> HIDE DEF new
<1>5. call' \in [Call -> CallState] /\ (\A d \in Call : WellFormed(d))'
  BY <1>1, <1>3, <1>4, CallStep DEF new
<1> QED BY <1>5 DEF Start, TypeOK, durable

\* The types survive a member's restart, which ends the calls it was running.
LEMMA RestartType ==
  ASSUME TypeOK, NEW m \in Member, Restart(m)
  PROVE  TypeOK'
<1>1. call' \in [Call -> CallState]
  BY FailType DEF Restart, TypeOK
<1>2. ASSUME NEW d \in Call PROVE WellFormed(d)'
  <2>1. CASE call'[d] = call[d]
    BY <2>1 DEF TypeOK, WellFormed, Running
  <2>2. CASE call'[d] = Failed(d)
    BY <2>2, FailType DEF WellFormed, Running, FitsPhase
  <2> QED BY <2>1, <2>2 DEF Restart
<1>3. results' \in [Member -> [Slot -> Result \cup {NoResult}]]
  BY DEF Restart, TypeOK
<1> QED BY <1>1, <1>2, <1>3 DEF Restart, TypeOK, durable

\* The types survive every handler of an acceptor.
LEMMA AcceptorType ==
  ASSUME TypeOK, NEW m \in Member, Acceptor(m)
  PROVE  TypeOK'
<1>1. CASE HandlePrepare(m)
  <2> DEFINE rejected(r) == Below(r.ballot, promised[m][r.slot])
             reply(r) == [from |-> m, promised |-> ~rejected(r),
                          highest |-> IF rejected(r) THEN promised[m][r.slot] ELSE r.ballot,
                          accepted |-> accepted[m][r.slot], decided |-> decided[m][r.slot]]
  <2>1. PICK r \in msgs :
          /\ r.type = "prepare"
          /\ promised' = [promised EXCEPT ![m][r.slot] = IF rejected(r) THEN @ ELSE r.ballot]
          /\ ReplyTo("prepare", r.ballot, reply(r))
    BY <1>1 DEF HandlePrepare
  <2>2. r.slot \in Slot /\ r.ballot \in Ballot
    BY <2>1 DEF TypeOK, Message
  <2>3. rejected(r) => promised[m][r.slot] \in Ballot
    <3>1. promised[m][r.slot] \in Ballot \cup {NoBallot}
      BY <2>2, SlotType
    <3>2. promised[m][r.slot] = NoBallot => ~rejected(r)
      BY <2>2 DEF Below, NoBallot, Ballot
    <3> QED BY <3>1, <3>2
  <2>4. reply(r) \in PrepareReply
    <3>1. accepted[m][r.slot] \in Vote \cup {Nothing}
      BY <2>2, SlotType
    <3>2. decided[m][r.slot] \in Command \cup {NoValue}
      BY <2>2, SlotType
    <3>3. (IF rejected(r) THEN promised[m][r.slot] ELSE r.ballot) \in Ballot
      BY <2>2, <2>3
    <3>4. (~rejected(r)) \in BOOLEAN
      OBVIOUS
    <3> HIDE DEF rejected
    <3> QED BY <3>1, <3>2, <3>3, <3>4 DEF PrepareReply
  <2>5. call' \in [Call -> CallState] /\ (\A d \in Call : WellFormed(d))'
    <3> HIDE DEF reply
    <3> QED BY <2>1, <2>2, <2>4, ReplyType
  <2>6. promised' \in [Member -> [Slot -> Ballot \cup {NoBallot}]]
    BY <2>1, <2>2 DEF TypeOK
  <2> QED BY <1>1, <2>5, <2>6 DEF HandlePrepare, TypeOK
<1>2. CASE HandleAccept(m)
  <2> DEFINE rejected(r) == decided[m][r.slot] \notin {NoValue, r.value}
                              \/ Below(r.ballot, promised[m][r.slot])
             reply(r) == [from |-> m, accepted |-> ~rejected(r),
                          highest |-> IF rejected(r) /\ promised[m][r.slot] # NoBallot
                                        THEN promised[m][r.slot] ELSE r.ballot]
  <2>1. PICK r \in msgs :
          /\ r.type = "accept"
          /\ \/ UNCHANGED <<promised, accepted, votes>>
             \/ /\ promised' = [promised EXCEPT ![m][r.slot] = r.ballot]
                /\ accepted' = [accepted EXCEPT ![m][r.slot] =
                                  [ballot |-> r.ballot, value |-> r.value]]
                /\ votes' = votes \cup {<<m, r.slot, r.ballot, r.value>>}
          /\ ReplyTo("accept", r.ballot, reply(r))
    BY <1>2 DEF HandleAccept
  <2>2. r.slot \in Slot /\ r.ballot \in Ballot /\ r.value \in Command
    BY <2>1 DEF TypeOK, Message
  <2>3. reply(r) \in AcceptReply
    <3>1. promised[m][r.slot] \in Ballot \cup {NoBallot}
      BY <2>2, SlotType
    <3>2. (~rejected(r)) \in BOOLEAN
      OBVIOUS
    <3>3. (IF rejected(r) /\ promised[m][r.slot] # NoBallot
             THEN promised[m][r.slot] ELSE r.ballot) \in Ballot
      BY <2>2, <3>1
    <3> HIDE DEF rejected
    <3> QED BY <3>2, <3>3 DEF AcceptReply
  <2>4. call' \in [Call -> CallState] /\ (\A d \in Call : WellFormed(d))'
    <3> HIDE DEF reply
    <3> QED BY <2>1, <2>2, <2>3, ReplyType
  <2>5. /\ promised' \in [Member -> [Slot -> Ballot \cup {NoBallot}]]
        /\ accepted' \in [Member -> [Slot -> Vote \cup {Nothing}]]
        /\ votes' \subseteq Member \X Slot \X Ballot \X Command
    <3>1. [ballot |-> r.ballot, value |-> r.value] \in Vote
      BY <2>2 DEF Vote
    <3>2. CASE UNCHANGED <<promised, accepted, votes>>
      BY <3>2 DEF TypeOK
    <3>3. CASE /\ promised' = [promised EXCEPT ![m][r.slot] = r.ballot]
               /\ accepted' = [accepted EXCEPT ![m][r.slot] =
                                 [ballot |-> r.ballot, value |-> r.value]]
               /\ votes' = votes \cup {<<m, r.slot, r.ballot, r.value>>}
      <4>1. promised' \in [Member -> [Slot -> Ballot \cup {NoBallot}]]
        BY <2>2, <3>3 DEF TypeOK
      <4>2. accepted' \in [Member -> [Slot -> Vote \cup {Nothing}]]
        BY <2>2, <3>1, <3>3 DEF TypeOK
      <4>3. votes' \subseteq Member \X Slot \X Ballot \X Command
        BY <2>2, <3>3 DEF TypeOK
      <4> QED BY <4>1, <4>2, <4>3
    <3> QED BY <2>1, <3>2, <3>3
  <2> QED BY <1>2, <2>4, <2>5 DEF HandleAccept, TypeOK
<1>3. CASE HandleDecide(m)
  <2>1. PICK r \in msgs : r.type = "decide" /\ Decide(m, r.slot, r.value)
    BY <1>3 DEF HandleDecide
  <2>2. r.slot \in Slot /\ r.value \in Command
    BY <2>1 DEF TypeOK, Message
  <2>3. /\ decided' \in [Member -> [Slot -> Command \cup {NoValue}]]
        /\ lastApplied' \in [Member -> 0..MaxSlot]
        /\ register' \in [Member -> Snapshot]
        /\ results' \in [Member -> [Slot -> Result \cup {NoResult}]]
    BY <2>1, <2>2, DecideType
  <2>4. (\A d \in Call : WellFormed(d))'
    BY <1>3 DEF HandleDecide, TypeOK, WellFormed, Running
  <2> QED BY <1>3, <2>3, <2>4 DEF HandleDecide, TypeOK
<1> QED BY <1>1, <1>2, <1>3 DEF Acceptor

\* The initial state is in its types.
LEMMA InitType == Init => TypeOK
<1> SUFFICES ASSUME Init PROVE TypeOK
  OBVIOUS
<1>1. 0 \in 0..MaxSlot /\ 0 \in Nat
  BY BoundAssumption
<1>2. Idle \in CallState
  BY <1>1 DEF Idle, NewCall, CallState
<1>3. \A c \in Call : WellFormed(c)
  BY DEF Init, Idle, NewCall, WellFormed, Running
<1>4. InitialSnapshot \in Snapshot
  BY DEF InitialSnapshot, Snapshot
<1> QED BY <1>1, <1>2, <1>3, <1>4 DEF Init, TypeOK

\* The types survive every step.
LEMMA NextType == TypeOK /\ [Next]_vars => TypeOK'
<1> SUFFICES ASSUME TypeOK, [Next]_vars PROVE TypeOK'
  OBVIOUS
<1>1. CASE UNCHANGED vars
  BY <1>1 DEF vars, TypeOK, WellFormed, Running
<1>2. CASE Next
  BY <1>2, ProposerType, StartType, AcceptorType, RestartType DEF Next
<1> QED BY <1>1, <1>2

\* Whatever the membership, the calls, the links and the bounds, the state of
\* PaxosMetaStore stays in its types and every proposer has what its phase needs.
THEOREM TypeCorrect == Spec => []TypeOK
<1> QED BY InitType, NextType, PTL DEF Spec

-----------------------------------------------------------------------------
(* Agreement.                                                              *)

\* Any two quorums share a member.
LEMMA QuorumsMeet ==
  ASSUME NEW P \in Quorum, NEW Q \in Quorum
  PROVE  \E m \in Member : m \in P /\ m \in Q
<1>1. /\ P \subseteq Member /\ Q \subseteq Member
      /\ IsFiniteSet(P) /\ IsFiniteSet(Q) /\ IsFiniteSet(Member)
  BY MemberAssumption, FS_Subset DEF Quorum
<1>2. Cardinality(P) \in Nat /\ Cardinality(Q) \in Nat /\ Cardinality(Member) \in Nat
  BY <1>1, FS_CardinalityType
<1>3. Cardinality(P) + Cardinality(Q) > Cardinality(Member)
  BY <1>2 DEF Quorum
<1>4. P \cap Q # {}
  BY <1>1, <1>3, FS_MajoritiesIntersect
<1> QED BY <1>1, <1>4

\* A quorum has a member, and a larger set of members is a quorum too.
LEMMA QuorumGrows ==
  ASSUME NEW P \in Quorum, NEW Q \in SUBSET Member, P \subseteq Q
  PROVE  Q \in Quorum
<1>1. IsFiniteSet(Q) /\ IsFiniteSet(P)
  BY MemberAssumption, FS_Subset
<1>2. Cardinality(P) <= Cardinality(Q)
  BY <1>1, FS_Subset
<1>3. Cardinality(P) \in Nat /\ Cardinality(Q) \in Nat /\ Cardinality(Member) \in Nat
  BY <1>1, MemberAssumption, FS_CardinalityType
<1> QED BY <1>2, <1>3 DEF Quorum

\* Ballots, the absent one included, are totally ordered, the absent one lowest.
LEMMA BallotOrder ==
  /\ \A b \in Ballot \cup {NoBallot} : ~Below(b, b)
  /\ \A b, c, d \in Ballot \cup {NoBallot} : Below(b, c) /\ Below(c, d) => Below(b, d)
  /\ \A b, c \in Ballot \cup {NoBallot} : Below(b, c) \/ Below(c, b) \/ b = c
  /\ \A b \in Ballot : Below(NoBallot, b)
<1>1. \A b \in Ballot \cup {NoBallot} : b.round \in Nat /\ b.node \in Nat
  <2>1. NoBallot.round = 0 /\ NoBallot.node = 0
    BY DEF NoBallot
  <2>2. \A b \in Ballot : b.round \in Nat /\ b.node \in Nat
    BY MemberAssumption DEF Ballot
  <2> QED BY <2>1, <2>2
<1>2. \A b, c \in Ballot \cup {NoBallot} : b.round = c.round /\ b.node = c.node => b = c
  BY DEF Ballot, NoBallot
<1>3. \A b \in Ballot : b.round > 0 /\ NoBallot.round = 0
  BY DEF Ballot, NoBallot
<1> QED BY <1>1, <1>2, <1>3 DEF Below

\* What no step takes back: votes and messages stay, promises only rise, and a new
\* vote is cast in a ballot no lower than the promise.
Grows ==
  /\ votes \subseteq votes' /\ msgs \subseteq msgs'
  /\ \A m \in Member, s \in Slot : ~Below(promised'[m][s], promised[m][s])
  /\ \A x \in votes' : x \in votes \/ ~Below(x[3], promised[x[1]][x[2]])

LEMMA PromiseType ==
  ASSUME TypeOK, NEW m \in Member, NEW s \in Slot
  PROVE  promised[m][s] \in Ballot \cup {NoBallot}
BY SlotType

LEMMA MessageType ==
  ASSUME TypeOK, NEW r \in msgs
  PROVE  /\ r.slot \in Slot /\ r.from \in Member
         /\ r.type # "decide" => r.ballot \in Ballot
         /\ r.type # "prepare" => r.value \in Command
         /\ r.type \in {"prepare", "accept", "decide"}
BY DEF TypeOK, Message

LEMMA VoteType ==
  ASSUME TypeOK, NEW x \in votes
  PROVE  x[1] \in Member /\ x[2] \in Slot /\ x[3] \in Ballot /\ x[4] \in Command
         /\ x = <<x[1], x[2], x[3], x[4]>>
BY DEF TypeOK

\* Promises keep standing.
LEMMA PromiseStands ==
  ASSUME TypeOK, TypeOK', Grows,
         NEW m \in Member, NEW s \in Slot, NEW b \in Ballot, HasPromised(m, s, b)
  PROVE  HasPromised(m, s, b)'
<1>1. promised[m][s] \in Ballot \cup {NoBallot} /\ promised'[m][s] \in Ballot \cup {NoBallot}
  BY PromiseType DEF TypeOK
<1>2. ~Below(promised'[m][s], promised[m][s]) /\ ~Below(promised[m][s], b)
  BY DEF Grows, HasPromised
<1> QED BY <1>1, <1>2, BallotOrder DEF HasPromised

\* A member closed to a ballot stays closed to it.
LEMMA ClosedStands ==
  ASSUME TypeOK, TypeOK', Grows,
         NEW m \in Member, NEW s \in Slot, NEW b \in Ballot, ClosedTo(m, s, b)
  PROVE  ClosedTo(m, s, b)'
<1>1. promised[m][s] \in Ballot \cup {NoBallot} /\ promised'[m][s] \in Ballot \cup {NoBallot}
  BY PromiseType DEF TypeOK
<1>2. Below(b, promised[m][s]) /\ \A v \in Command : ~VotedFor(m, s, b, v)
  BY DEF ClosedTo
<1>3. Below(b, promised'[m][s])
  BY <1>1, <1>2, BallotOrder DEF Grows
<1>4. \A v \in Command : <<m, s, b, v>> \notin votes'
  BY <1>2 DEF Grows, VotedFor
<1> QED BY <1>3, <1>4 DEF ClosedTo, VotedFor

\* What is chosen stays chosen.
LEMMA ChosenStands ==
  ASSUME TypeOK, TypeOK', Grows, NEW s \in Slot, NEW v, Chosen(s, v)
  PROVE  Chosen(s, v)'
<1>1. PICK r \in VoteRequests(s) : r.value = v /\ Voters(r) \in Quorum
  BY DEF Chosen
<1>2. r \in VoteRequests(s)'
  BY DEF VoteRequests, Grows
<1>3. Voters(r) \subseteq Voters(r)' /\ Voters(r)' \in SUBSET Member
  BY DEF Voters, Grows
<1>4. Voters(r)' \in Quorum
  BY <1>1, <1>3, QuorumGrows
<1> QED BY <1>1, <1>2, <1>4 DEF Chosen

\* What was safe to vote for stays safe while no request is added for the slot.
LEMMA SafeStands ==
  ASSUME TypeOK, TypeOK', Grows,
         NEW s \in Slot, NEW b \in Ballot, NEW v \in Command, SafeAt(s, b, v),
         VoteRequests(s)' = VoteRequests(s)
  PROVE  SafeAt(s, b, v)'
<1> SUFFICES ASSUME NEW r \in VoteRequests(s), Below(r.ballot, b)
             PROVE  \E Q \in Quorum : \A m \in Q :
                      VotedFor(m, s, r.ballot, v)' \/ ClosedTo(m, s, r.ballot)'
  BY DEF SafeAt
<1>1. PICK Q \in Quorum : \A m \in Q : VotedFor(m, s, r.ballot, v) \/ ClosedTo(m, s, r.ballot)
  BY DEF SafeAt
<1>2. r.ballot \in Ballot
  BY MessageType DEF VoteRequests
<1>3. \A m \in Q : m \in Member
  BY DEF Quorum
<1>4. \A m \in Q : VotedFor(m, s, r.ballot, v)' \/ ClosedTo(m, s, r.ballot)'
  BY <1>1, <1>2, <1>3, ClosedStands DEF VotedFor, Grows
<1> QED BY <1>4

\* A value that a quorum accepted is the only one that can be chosen in its slot.
LEMMA ChosenOnce ==
  ASSUME TypeOK, VotesInv, OneRequestPerBallot, RequestsAreSafe,
         NEW s \in Slot, NEW v \in Command, NEW w \in Command, Chosen(s, v), Chosen(s, w)
  PROVE  v = w
<1>1. PICK r \in VoteRequests(s) : r.value = v /\ Voters(r) \in Quorum
  BY DEF Chosen
<1>2. PICK q \in VoteRequests(s) : q.value = w /\ Voters(q) \in Quorum
  BY DEF Chosen
<1>3. r \in msgs /\ q \in msgs /\ r.type = "accept" /\ q.type = "accept" /\ r.slot = s /\ q.slot = s
  BY DEF VoteRequests
<1>4. r.ballot \in Ballot /\ q.ballot \in Ballot
  BY <1>3, MessageType
<1>5. ASSUME NEW x \in VoteRequests(s), NEW y \in VoteRequests(s), Voters(x) \in Quorum,
             x.ballot \in Ballot, y.value \in Command, Below(x.ballot, y.ballot),
             y \in msgs, y.type = "accept", y.slot = s, x \in msgs, x.type = "accept", x.slot = s
      PROVE  x.value = y.value
  <2>1. PICK Q \in Quorum : \A m \in Q : VotedFor(m, s, x.ballot, y.value) \/ ClosedTo(m, s, x.ballot)
    BY <1>5 DEF RequestsAreSafe, SafeAt
  <2>2. PICK m \in Member : m \in Q /\ m \in Voters(x)
    BY <1>5, QuorumsMeet
  <2>3. <<m, s, x.ballot, x.value>> \in votes /\ x.value \in Command
    BY <2>2, <1>5, MessageType DEF Voters
  <2>4. <<m, s, x.ballot, y.value>> \in votes
    BY <2>1, <2>2, <2>3 DEF ClosedTo, VotedFor
  <2>5. PICK z \in VoteRequests(s) : z.ballot = x.ballot /\ z.value = y.value
    BY <2>4 DEF VotesInv
  <2> QED BY <2>5, <1>5 DEF OneRequestPerBallot, VoteRequests
<1>6. CASE r.ballot = q.ballot
  BY <1>1, <1>2, <1>3, <1>6 DEF OneRequestPerBallot
<1>7. CASE Below(r.ballot, q.ballot)
  BY <1>1, <1>2, <1>3, <1>4, <1>5, <1>7
<1>8. CASE Below(q.ballot, r.ballot)
  BY <1>1, <1>2, <1>3, <1>4, <1>5, <1>8
<1> QED BY <1>4, <1>6, <1>7, <1>8, BallotOrder

\* Accept requests keep their guarantees through steps that add none.
LEMMA RequestsStand ==
  ASSUME TypeOK, TypeOK', Grows, OneRequestPerBallot, RequestsAreSafe,
         \A r \in msgs' : r \in msgs \/ r.type # "accept"
  PROVE  OneRequestPerBallot' /\ RequestsAreSafe'
<1>1. OneRequestPerBallot'
  BY DEF OneRequestPerBallot
<1>2. ASSUME NEW s \in Slot PROVE VoteRequests(s)' = VoteRequests(s)
  BY DEF VoteRequests, Grows
<1>3. ASSUME NEW r \in msgs', r.type = "accept"
      PROVE  /\ SafeAt(r.slot, r.ballot, r.value)'
             /\ \E Q \in Quorum : \A m \in Q : HasPromised(m, r.slot, r.ballot)'
  <2>1. r \in msgs
    BY <1>3
  <2>2. r.slot \in Slot /\ r.ballot \in Ballot /\ r.value \in Command
    BY <1>3, <2>1, MessageType
  <2>3. SafeAt(r.slot, r.ballot, r.value)
    BY <1>3, <2>1 DEF RequestsAreSafe
  <2>4. SafeAt(r.slot, r.ballot, r.value)'
    BY <1>2, <2>2, <2>3, SafeStands
  <2>5. PICK Q \in Quorum : \A m \in Q : HasPromised(m, r.slot, r.ballot)
    BY <1>3, <2>1 DEF RequestsAreSafe
  <2>6. \A m \in Q : HasPromised(m, r.slot, r.ballot)'
    BY <2>2, <2>5, PromiseStands DEF Quorum
  <2> QED BY <2>4, <2>6
<1> QED BY <1>1, <1>3 DEF RequestsAreSafe

\* Ballots stay reserved and unshared through steps that reserve none.
LEMMA BallotsStand ==
  ASSUME TypeOK, TypeOK', BallotsInv, localRound' = localRound,
         \A c \in Call : call'[c].ballot \in {call[c].ballot, NoBallot},
         \A r \in msgs' : \/ r \in msgs \/ r.type = "decide"
                          \/ \E c \in Call : call[c].ballot # NoBallot /\ r.ballot = call[c].ballot
  PROVE  BallotsInv'
<1>1. \A r \in msgs' : r.type # "decide" => r.ballot.round <= localRound[r.ballot.node]
  BY DEF BallotsInv
<1>2. \A c \in Call : call'[c].ballot # NoBallot =>
        /\ call'[c].ballot.round <= localRound[call'[c].ballot.node]
        /\ \A d \in Call : call'[d].ballot = call'[c].ballot => d = c
  BY DEF BallotsInv
<1> QED BY <1>1, <1>2 DEF BallotsInv

\* Decisions stay chosen when every new one is chosen.
LEMMA DecisionsStand ==
  ASSUME TypeOK, TypeOK', Grows, DecisionsAreChosen,
         \A m \in Member, s \in Slot :
           decided'[m][s] = decided[m][s] \/ Chosen(s, decided'[m][s]),
         \A r \in msgs' : r.type = "decide" => r \in msgs \/ Chosen(r.slot, r.value)
  PROVE  DecisionsAreChosen'
<1>1. ASSUME NEW m \in Member, NEW s \in Slot, NEW v, v = decided'[m][s], v # NoValue
      PROVE  Chosen(s, v)'
  <2>1. Chosen(s, v)
    BY <1>1 DEF DecisionsAreChosen
  <2> QED BY <2>1, ChosenStands
<1>2. ASSUME NEW r \in msgs', r.type = "decide"
      PROVE  Chosen(r.slot, r.value)'
  <2>1. Chosen(r.slot, r.value)
    BY <1>2 DEF DecisionsAreChosen
  <2>2. r.slot \in Slot
    BY <1>2 DEF TypeOK, Message
  <2> QED BY <2>1, <2>2, ChosenStands
<1>3. \A m \in Member, s \in Slot : decided'[m][s] # NoValue => Chosen(s, decided[m][s])'
  BY <1>1 DEF Chosen, VoteRequests, Voters
<1> QED BY <1>2, <1>3 DEF DecisionsAreChosen

\* What a reply to Prepare told its proposer stays true.
LEMMA PromiseReplyStands ==
  ASSUME TypeOK, TypeOK', Grows, NEW c \in Call, call[c].pc = "prepare",
         call'[c].slot = call[c].slot, call'[c].ballot = call[c].ballot,
         NEW r \in call[c].replies, PromiseHolds(c, r)
  PROVE  PromiseHolds(c, r)'
<1>0. PICK s, b : s = call[c].slot /\ b = call[c].ballot
  OBVIOUS
<1>1. s \in Slot /\ b \in Ballot /\ r \in PrepareReply
  BY <1>0 DEF TypeOK, WellFormed
<1>2. r.from \in Member /\ r.decided \in Command \cup {NoValue}
  BY <1>1 DEF PrepareReply
<1>3. r.decided # NoValue => Chosen(s, r.decided)'
  <2>1. r.decided # NoValue => Chosen(s, r.decided)
    BY <1>0 DEF PromiseHolds
  <2> QED BY <1>1, <1>2, <2>1, ChosenStands
<1>4. ASSUME r.promised
      PROVE  /\ HasPromised(r.from, s, b)'
             /\ r.accepted # Nothing => VotedFor(r.from, s, r.accepted.ballot, r.accepted.value)'
             /\ \A x \in votes' : x[1] = r.from /\ x[2] = s /\ Below(x[3], b)
                                    => ~Below(r.accepted.ballot, x[3])
  <2>1. HasPromised(r.from, s, b)
    BY <1>0, <1>4 DEF PromiseHolds
  <2>2. HasPromised(r.from, s, b)'
    BY <1>1, <1>2, <2>1, PromiseStands
  <2>3. r.accepted # Nothing => VotedFor(r.from, s, r.accepted.ballot, r.accepted.value)'
    BY <1>0, <1>4 DEF PromiseHolds, VotedFor, Grows
  <2>4. ASSUME NEW x \in votes', x[1] = r.from, x[2] = s, Below(x[3], b)
        PROVE  ~Below(r.accepted.ballot, x[3])
    <3>1. CASE x \in votes
      BY <1>0, <1>4, <2>4, <3>1 DEF PromiseHolds
    <3>2. CASE x \notin votes
      <4>1. ~Below(x[3], promised[r.from][s])
        BY <2>4, <3>2 DEF Grows
      <4>2. promised[r.from][s] \in Ballot \cup {NoBallot}
        BY <1>1, <1>2, PromiseType
      <4>3. x[3] \in Ballot
        BY DEF TypeOK
      <4>4. ~Below(promised[r.from][s], b)
        BY <2>1 DEF HasPromised
      <4> QED BY <1>1, <2>4, <4>1, <4>2, <4>3, <4>4, BallotOrder
    <3> QED BY <3>1, <3>2
  <2> QED BY <2>2, <2>3, <2>4
<1>5. r.decided # NoValue => Chosen(call[c].slot, r.decided)'
  BY <1>0, <1>3 DEF Chosen, VoteRequests
<1> QED BY <1>0, <1>4, <1>5 DEF PromiseHolds, HasPromised, VotedFor

\* A proposer that a step leaves in its phase keeps what it relies on, when every
\* new reply holds and no new request carries its ballot.
LEMMA ProposerStands ==
  ASSUME TypeOK, TypeOK', Grows, NEW c \in Call, ProposerInv(c),
         call'[c].pc = call[c].pc, call'[c].slot = call[c].slot,
         call'[c].ballot = call[c].ballot, call'[c].selected = call[c].selected,
         \A r \in msgs' : r \in msgs \/ r.type = "decide" \/ r.ballot # call[c].ballot,
         \A r \in call'[c].replies : r \in call[c].replies \/
           /\ call[c].pc = "prepare" => PromiseHolds(c, r)'
           /\ call[c].pc = "accept" => AcceptanceHolds(c, r)'
  PROVE  ProposerInv(c)'
<1>1. CASE call[c].pc = "prepare"
  <2>1. \A r \in msgs' : r.type # "decide" /\ r.ballot = call[c].ballot
                            => r.type = "prepare" /\ r.slot = call[c].slot
    BY <1>1 DEF ProposerInv
  <2>2. ASSUME NEW r \in call'[c].replies PROVE PromiseHolds(c, r)'
    <3>1. CASE r \in call[c].replies
      BY <1>1, <3>1, PromiseReplyStands DEF ProposerInv
    <3>2. CASE r \notin call[c].replies
      BY <1>1, <3>2
    <3> QED BY <3>1, <3>2
  <2> QED BY <1>1, <2>1, <2>2 DEF ProposerInv
<1>2. CASE call[c].pc = "accept"
  <2>1. \E r \in VoteRequests(call[c].slot)' :
          r.ballot = call[c].ballot /\ r.value = call[c].selected
    BY <1>2 DEF ProposerInv, VoteRequests, Grows
  <2>2. ASSUME NEW r \in call'[c].replies PROVE AcceptanceHolds(c, r)'
    <3>1. CASE r \in call[c].replies
      <4>1. AcceptanceHolds(c, r)
        BY <1>2, <3>1 DEF ProposerInv
      <4> QED BY <4>1 DEF AcceptanceHolds, VotedFor, Grows
    <3>2. CASE r \notin call[c].replies
      BY <1>2, <3>2
    <3> QED BY <3>1, <3>2
  <2> QED BY <1>2, <2>1, <2>2 DEF ProposerInv, VoteRequests
<1>3. CASE call[c].pc = "learn"
  <2>1. Chosen(call[c].slot, call[c].selected) /\ call[c].slot \in Slot
    BY <1>3 DEF ProposerInv, TypeOK, WellFormed
  <2>2. Chosen(call[c].slot, call[c].selected)'
    <3> DEFINE s == call[c].slot
               v == call[c].selected
    <3>1. s \in Slot /\ Chosen(s, v)
      BY <2>1
    <3>2. PICK r \in VoteRequests(s) : r.value = v /\ Voters(r) \in Quorum
      BY <3>1 DEF Chosen
    <3>3. r \in VoteRequests(s)' /\ Voters(r) \subseteq Voters(r)' /\ Voters(r)' \in SUBSET Member
      BY DEF VoteRequests, Voters, Grows
    <3>4. Voters(r)' \in Quorum
      BY <3>2, <3>3, QuorumGrows
    <3>5. s' = s /\ v' = v
      OBVIOUS
    <3> QED BY <3>2, <3>3, <3>4, <3>5 DEF Chosen, VoteRequests
  <2> QED BY <1>3, <2>2 DEF ProposerInv
<1> QED BY <1>1, <1>2, <1>3 DEF ProposerInv

\* A step that leaves acceptors and messages alone and takes one call to a phase
\* that waits for no replies.
LEMMA QuietStep ==
  ASSUME IInv, TypeOK', NEW c \in Call,
         UNCHANGED <<localRound, promised, accepted, decided, msgs, votes>>,
         \A d \in Call : d # c => call'[d] = call[d],
         call'[c].ballot \in {call[c].ballot, NoBallot},
         call'[c].pc \notin {"prepare", "accept"},
         call'[c].pc = "learn" => Chosen(call'[c].slot, call'[c].selected)
  PROVE  IInv'
<1>1. TypeOK /\ Grows
  BY PromiseType, BallotOrder DEF IInv, Grows
<1>2. VotesInv'
  BY DEF IInv, VotesInv, VotedFor, HasPromised, VoteRequests
<1>3. OneRequestPerBallot' /\ RequestsAreSafe'
  BY <1>1, RequestsStand DEF IInv
<1>4. BallotsInv'
  BY <1>1, BallotsStand DEF IInv
<1>5. ASSUME NEW d \in Call PROVE ProposerInv(d)'
  <2>1. CASE d = c
    BY <2>1 DEF ProposerInv, Chosen, VoteRequests, Voters
  <2>2. CASE d # c
    <3>1. ProposerInv(d) /\ call'[d] = call[d]
      BY <2>2 DEF IInv
    <3> QED BY <1>1, <3>1, ProposerStands
  <2> QED BY <2>1, <2>2
<1>6. DecisionsAreChosen'
  BY <1>1, DecisionsStand DEF IInv
<1> QED BY <1>2, <1>3, <1>4, <1>5, <1>6 DEF IInv

\* The proposer's steps that neither send nor decide anything.
LEMMA QuietProposerStep ==
  ASSUME IInv, TypeOK', NEW c \in Call,
         \/ TakeSlot(c) \/ NoQuorum(c) \/ Outvoted(c) \/ Return(c) \/ NextSlot(c)
         \/ AdoptDecision(c) \/ AcceptedByQuorum(c)
  PROVE  IInv'
<1>1. UNCHANGED <<localRound, promised, accepted, decided, msgs, votes>>
  BY DEF TakeSlot, NoQuorum, Outvoted, Return, NextSlot, AdoptDecision, AcceptedByQuorum, durable
<1>2. \A d \in Call : d # c => call'[d] = call[d]
  <2>1. ASSUME NEW new, call' = [call EXCEPT ![c] = new]
        PROVE  \A d \in Call : d # c => call'[d] = call[d]
    BY <2>1 DEF IInv, TypeOK
  <2>2. \E new : call' = [call EXCEPT ![c] = new]
    <3>1. CASE TakeSlot(c)
      BY <3>1 DEF TakeSlot
    <3>2. CASE NoQuorum(c)
      BY <3>2 DEF NoQuorum, Fail
    <3>3. CASE Outvoted(c)
      BY <3>3 DEF Outvoted
    <3>4. CASE Return(c)
      BY <3>4 DEF Return
    <3>5. CASE NextSlot(c)
      <4>1. call' = [call EXCEPT ![c] = [call[c] EXCEPT !.pc = "propose"]]
        BY <3>5 DEF NextSlot, Goto
      <4> QED BY <4>1
    <3>6. CASE AdoptDecision(c)
      BY <3>6 DEF AdoptDecision
    <3>7. CASE AcceptedByQuorum(c)
      BY <3>7 DEF AcceptedByQuorum
    <3> QED BY <3>1, <3>2, <3>3, <3>4, <3>5, <3>6, <3>7
  <2> QED BY <2>1, <2>2
<1>3. call \in [Call -> CallState] /\ call[c] \in CallState /\ WellFormed(c)
  BY DEF IInv, TypeOK
<1>4. CASE TakeSlot(c) \/ NoQuorum(c) \/ Outvoted(c) \/ Return(c) \/ NextSlot(c)
  <2>1. /\ call'[c].ballot \in {call[c].ballot, NoBallot}
        /\ call'[c].pc \in {"reserve", "failed", "done", "propose"}
    <3>1. CASE TakeSlot(c)
      BY <1>3, <3>1 DEF TakeSlot, CallState
    <3>2. CASE NoQuorum(c)
      BY <1>3, <3>2 DEF NoQuorum, Fail, Failed, NewCall
    <3>3. CASE Outvoted(c)
      <4>1. PICK R \in Arrived(c) : \E n \in RoundsSeen(c, R) :
              call' = [call EXCEPT ![c] = [call[c] EXCEPT !.pc = "reserve", !.observed = n,
                                             !.replies = {}]]
        BY <3>3 DEF Outvoted
      <4> QED BY <1>3, <4>1 DEF CallState
    <3>4. CASE Return(c)
      BY <1>3, <3>4 DEF Return, CallState
    <3>5. CASE NextSlot(c)
      BY <1>3, <3>5 DEF NextSlot, Goto, CallState
    <3> QED BY <1>4, <3>1, <3>2, <3>3, <3>4, <3>5
  <2> QED BY <1>1, <1>2, <2>1, QuietStep
<1>5. CASE AdoptDecision(c)
  <2>1. PICK R \in Arrived(c), value \in Command :
          /\ Decisions(R) = {value}
          /\ call' = [call EXCEPT ![c] = [call[c] EXCEPT !.pc = "learn", !.selected = value,
                                            !.replies = {}]]
    BY <1>5 DEF AdoptDecision
  <2>2. PICK r \in R : r.decided = value
    BY <2>1 DEF Decisions
  <2>3. value # NoValue /\ r \in call[c].replies /\ call[c].pc = "prepare"
    BY <1>5, NoValueAssumption DEF AdoptDecision, Arrived
  <2>4. Chosen(call[c].slot, value)
    BY <2>2, <2>3 DEF IInv, ProposerInv, PromiseHolds
  <2>5. /\ call'[c].ballot = call[c].ballot /\ call'[c].pc = "learn"
        /\ call'[c].slot = call[c].slot /\ call'[c].selected = value
    BY <1>3, <2>1 DEF CallState
  <2> QED BY <1>1, <1>2, <2>4, <2>5, QuietStep
<1>6. CASE AcceptedByQuorum(c)
  <2>1. PICK R \in Arrived(c) : Members({r \in R : r.accepted}) \in Quorum
    BY <1>6 DEF AcceptedByQuorum
  <2>2. call[c].pc = "accept" /\ R \subseteq call[c].replies
    BY <1>6 DEF AcceptedByQuorum, Arrived
  <2>3. PICK q \in VoteRequests(call[c].slot) :
          q.ballot = call[c].ballot /\ q.value = call[c].selected
    BY <2>2 DEF IInv, ProposerInv
  <2>4. \A m \in Members({r \in R : r.accepted}) :
          VotedFor(m, call[c].slot, call[c].ballot, call[c].selected)
    BY <2>2 DEF IInv, ProposerInv, AcceptanceHolds, Members
  <2>5. Members({r \in R : r.accepted}) \subseteq Voters(q) /\ Voters(q) \in SUBSET Member
    BY <2>1, <2>3, <2>4 DEF Voters, VotedFor, VoteRequests, Quorum
  <2>6. Voters(q) \in Quorum
    BY <2>1, <2>5, QuorumGrows
  <2>7. Chosen(call[c].slot, call[c].selected)
    BY <2>3, <2>6 DEF Chosen
  <2>8. /\ call'[c].ballot = call[c].ballot /\ call'[c].pc = "learn"
        /\ call'[c].slot = call[c].slot /\ call'[c].selected = call[c].selected
    BY <1>3, <1>6 DEF CallState, AcceptedByQuorum
  <2> QED BY <1>1, <1>2, <2>7, <2>8, QuietStep
<1> QED BY <1>4, <1>5, <1>6

\* A client's request arrives.
LEMMA StartStep ==
  ASSUME IInv, TypeOK', NEW c \in Call, NEW m \in Member, Start(c, m)
  PROVE  IInv'
<1>1. PICK command \in Command, floor \in Reported :
        call' = [call EXCEPT ![c] = NewCall("propose", m, command, floor)]
  BY DEF Start
<1>2. call \in [Call -> CallState]
  BY DEF IInv, TypeOK
<1>3. call'[c].ballot = NoBallot /\ call'[c].pc = "propose"
  BY <1>1, <1>2 DEF NewCall
<1>4. \A d \in Call : d # c => call'[d] = call[d]
  BY <1>1
<1>5. UNCHANGED <<localRound, promised, accepted, decided, msgs, votes>>
  BY DEF Start, durable
<1> QED BY <1>3, <1>4, <1>5, QuietStep

\* A member restarts: each of its calls fails.
LEMMA RestartStep ==
  ASSUME IInv, TypeOK', NEW m \in Member, Restart(m)
  PROVE  IInv'
<1>1. UNCHANGED <<localRound, promised, accepted, decided, msgs, votes>>
  BY DEF Restart, durable
<1>2. TypeOK /\ Grows
  BY <1>1, PromiseType, BallotOrder DEF IInv, Grows
<1>3. \A c \in Call : call'[c] \in {call[c], Failed(c)}
  BY DEF Restart
<1>4. \A c \in Call : Failed(c).pc = "failed" /\ Failed(c).ballot = NoBallot
  BY DEF Failed, NewCall
<1>5. VotesInv'
  BY <1>1 DEF IInv, VotesInv, VotedFor, HasPromised, VoteRequests
<1>6. OneRequestPerBallot' /\ RequestsAreSafe'
  BY <1>1, <1>2, RequestsStand DEF IInv
<1>7. BallotsInv'
  <2>1. \A c \in Call : call'[c].ballot \in {call[c].ballot, NoBallot}
    BY <1>3, <1>4
  <2> QED BY <1>1, <1>2, <2>1, BallotsStand DEF IInv
<1>8. ASSUME NEW c \in Call PROVE ProposerInv(c)'
  <2>1. CASE call'[c] = Failed(c)
    BY <2>1, <1>4 DEF ProposerInv
  <2>2. CASE call'[c] = call[c]
    <3>1. ProposerInv(c)
      BY DEF IInv
    <3> QED BY <1>1, <1>2, <2>2, <3>1, ProposerStands
  <2> QED BY <1>3, <2>1, <2>2
<1>9. DecisionsAreChosen'
  BY <1>1, <1>2, DecisionsStand DEF IInv
<1> QED BY <1>5, <1>6, <1>7, <1>8, <1>9 DEF IInv

\* A reply only adds itself to the replies of a call that waits for it.
LEMMA ReplyAdds ==
  ASSUME call \in [Call -> CallState], NEW phase, NEW b, NEW reply, ReplyTo(phase, b, reply),
         NEW c \in Call
  PROVE  /\ call'[c].pc = call[c].pc /\ call'[c].slot = call[c].slot
         /\ call'[c].ballot = call[c].ballot /\ call'[c].selected = call[c].selected
         /\ \A r \in call'[c].replies :
              \/ r \in call[c].replies
              \/ r = reply /\ call[c].pc = phase /\ call[c].ballot = b
<1>1. CASE UNCHANGED call
  BY <1>1
<1>2. ASSUME NEW d \in Call, Deliver(d, phase, b, reply)
      PROVE  \E R : /\ call' = [call EXCEPT ![d].replies = R]
                    /\ \/ R = call[d].replies
                       \/ /\ call[d].pc = phase /\ call[d].ballot = b
                          /\ R = call[d].replies \cup {reply}
  <2>1. CASE call[d].pc = phase /\ call[d].ballot = b /\ reply.from \notin Members(call[d].replies)
    BY <1>2, <2>1 DEF Deliver
  <2>2. CASE ~(call[d].pc = phase /\ call[d].ballot = b /\ reply.from \notin Members(call[d].replies))
    BY <1>2, <2>2 DEF Deliver
  <2> QED BY <2>1, <2>2
<1>3. ASSUME NEW d \in Call, NEW R, call' = [call EXCEPT ![d].replies = R],
             \/ R = call[d].replies
             \/ call[d].pc = phase /\ call[d].ballot = b /\ R = call[d].replies \cup {reply}
      PROVE  /\ call'[c].pc = call[c].pc /\ call'[c].slot = call[c].slot
             /\ call'[c].ballot = call[c].ballot /\ call'[c].selected = call[c].selected
             /\ \A r \in call'[c].replies :
                  \/ r \in call[c].replies
                  \/ r = reply /\ call[c].pc = phase /\ call[c].ballot = b
  BY <1>3 DEF CallState
<1> QED BY <1>1, <1>2, <1>3 DEF ReplyTo

\* An acceptor answers a Prepare request.
LEMMA HandlePrepareStep ==
  ASSUME IInv, TypeOK', NEW m \in Member, HandlePrepare(m)
  PROVE  IInv'
<1> DEFINE Answer(r) ==
      [from |-> m, promised |-> ~Below(r.ballot, promised[m][r.slot]),
       highest |-> IF Below(r.ballot, promised[m][r.slot]) THEN promised[m][r.slot] ELSE r.ballot,
       accepted |-> accepted[m][r.slot], decided |-> decided[m][r.slot]]
<1>1. PICK r \in msgs :
        /\ r.type = "prepare"
        /\ promised' = [promised EXCEPT ![m][r.slot] =
             IF Below(r.ballot, promised[m][r.slot]) THEN promised[m][r.slot] ELSE r.ballot]
        /\ ReplyTo("prepare", r.ballot, Answer(r))
  BY DEF HandlePrepare
<1>2. UNCHANGED <<localRound, accepted, decided, msgs, votes>>
  BY DEF HandlePrepare
<1>3. TypeOK /\ call \in [Call -> CallState]
  BY DEF IInv, TypeOK
<1>4. r.slot \in Slot /\ r.ballot \in Ballot
  BY <1>1, <1>3, MessageType
<1>5. \A n \in Member, s \in Slot : promised'[n][s] =
        IF n = m /\ s = r.slot /\ ~Below(r.ballot, promised[m][r.slot]) THEN r.ballot
        ELSE promised[n][s]
  BY <1>1, <1>3, <1>4 DEF TypeOK
<1>6. Grows
  BY <1>2, <1>3, <1>5, PromiseType, BallotOrder DEF Grows
<1>7. VotesInv'
  <2>1. \A n \in Member, s \in Slot : accepted[n][s] \in Vote \cup {Nothing}
    BY <1>3, SlotType
  <2>2. ASSUME NEW n \in Member, NEW s \in Slot, accepted[n][s] # Nothing
        PROVE  /\ VotedFor(n, s, accepted[n][s].ballot, accepted[n][s].value)
               /\ HasPromised(n, s, accepted[n][s].ballot)'
    <3>1. accepted[n][s].ballot \in Ballot
      BY <2>1, <2>2 DEF Vote
    <3> QED BY <1>3, <1>6, <2>2, <3>1, PromiseStands, <1>2 DEF IInv, VotesInv, HasPromised
  <2>3. \A x \in votes :
          /\ ~Below(accepted[x[1]][x[2]].ballot, x[3])
          /\ \E q \in VoteRequests(x[2]) : q.ballot = x[3] /\ q.value = x[4]
    BY DEF IInv, VotesInv
  <2> QED BY <1>2, <2>2, <2>3 DEF VotesInv, VotedFor, HasPromised, VoteRequests
<1>8. OneRequestPerBallot' /\ RequestsAreSafe'
  BY <1>2, <1>3, <1>6, RequestsStand DEF IInv
<1>9. BallotsInv'
  BY <1>1, <1>2, <1>3, ReplyAdds, BallotsStand DEF IInv
<1>10. ASSUME NEW c \in Call, call[c].pc = "prepare", call[c].ballot = r.ballot,
              NEW reply, reply = Answer(r)
       PROVE  PromiseHolds(c, reply)'
  <2>1. call[c].slot = r.slot /\ call'[c].slot = r.slot /\ call'[c].ballot = r.ballot
    <3>1. call'[c].slot = call[c].slot /\ call'[c].ballot = call[c].ballot
      BY <1>1, <1>3, ReplyAdds
    <3> QED BY <1>1, <1>10, <3>1 DEF IInv, ProposerInv
  <2>2. PICK s, b, d, a : s = r.slot /\ b = r.ballot /\ d = decided[m][s] /\ a = accepted[m][s]
    OBVIOUS
  <2>3. d # NoValue => Chosen(s, d)'
    <3>1. d # NoValue => Chosen(s, d)
      BY <2>2, <1>4 DEF IInv, DecisionsAreChosen
    <3> QED BY <1>3, <1>4, <1>6, <2>2, <3>1, ChosenStands
  <2>4. reply.promised => HasPromised(m, s, b)'
    BY <1>3, <1>4, <1>5, <1>10, <2>2, BallotOrder DEF HasPromised
  <2>5. a # Nothing => VotedFor(m, s, a.ballot, a.value)
    BY <1>4, <2>2 DEF IInv, VotesInv
  <2>6. \A x \in votes : x[1] = m /\ x[2] = s => ~Below(a.ballot, x[3])
    BY <2>2 DEF IInv, VotesInv
  <2>7. reply.from = m /\ reply.accepted = a /\ reply.decided = d
    BY <1>10, <2>2
  <2> QED
    BY <1>2, <2>1, <2>2, <2>3, <2>4, <2>5, <2>6, <2>7
       DEF PromiseHolds, HasPromised, VotedFor, Chosen, VoteRequests, Voters
<1>11. ASSUME NEW c \in Call PROVE ProposerInv(c)'
  <2>1. ProposerInv(c)
    BY DEF IInv
  <2>2. \A reply \in call'[c].replies : reply \in call[c].replies \/
          /\ call[c].pc = "prepare" => PromiseHolds(c, reply)'
          /\ call[c].pc = "accept" => AcceptanceHolds(c, reply)'
    BY <1>1, <1>3, <1>10, ReplyAdds
  <2>3. /\ call'[c].pc = call[c].pc /\ call'[c].slot = call[c].slot
        /\ call'[c].ballot = call[c].ballot /\ call'[c].selected = call[c].selected
    BY <1>1, <1>3, ReplyAdds
  <2> QED BY <1>2, <1>3, <1>6, <2>1, <2>2, <2>3, ProposerStands
<1>12. DecisionsAreChosen'
  BY <1>2, <1>3, <1>6, DecisionsStand DEF IInv
<1> QED BY <1>7, <1>8, <1>9, <1>11, <1>12 DEF IInv

\* An acceptor answers an Accept request.
LEMMA HandleAcceptStep ==
  ASSUME IInv, TypeOK', NEW m \in Member, HandleAccept(m)
  PROVE  IInv'
<1> DEFINE Rejects(r) == \/ decided[m][r.slot] \notin {NoValue, r.value}
                         \/ Below(r.ballot, promised[m][r.slot])
           Answer(r) == [from |-> m, accepted |-> ~Rejects(r),
                         highest |-> IF Rejects(r) /\ promised[m][r.slot] # NoBallot
                                       THEN promised[m][r.slot] ELSE r.ballot]
           Voted(r) == [ballot |-> r.ballot, value |-> r.value]
<1>1. PICK r \in msgs :
        /\ r.type = "accept"
        /\ IF Rejects(r)
             THEN UNCHANGED <<promised, accepted, votes>>
             ELSE /\ promised' = [promised EXCEPT ![m][r.slot] = r.ballot]
                  /\ accepted' = [accepted EXCEPT ![m][r.slot] = Voted(r)]
                  /\ votes' = votes \cup {<<m, r.slot, r.ballot, r.value>>}
        /\ ReplyTo("accept", r.ballot, Answer(r))
  BY DEF HandleAccept
<1>2. UNCHANGED <<localRound, decided, msgs>>
  BY DEF HandleAccept
<1>3. TypeOK /\ call \in [Call -> CallState]
  BY DEF IInv, TypeOK
<1>4. r.slot \in Slot /\ r.ballot \in Ballot /\ r.value \in Command
  BY <1>1, <1>3, MessageType
<1>5. /\ \A n \in Member, s \in Slot : promised'[n][s] =
           IF n = m /\ s = r.slot /\ ~Rejects(r) THEN r.ballot ELSE promised[n][s]
      /\ \A n \in Member, s \in Slot : accepted'[n][s] =
           IF n = m /\ s = r.slot /\ ~Rejects(r) THEN Voted(r) ELSE accepted[n][s]
  BY <1>1, <1>3, <1>4 DEF TypeOK
<1>6. /\ votes \subseteq votes'
      /\ \A x \in votes' : x \in votes \/ (x = <<m, r.slot, r.ballot, r.value>> /\ ~Rejects(r))
  BY <1>1
<1>7. Grows
  BY <1>2, <1>3, <1>4, <1>5, <1>6, PromiseType, BallotOrder DEF Grows
<1>8. VotesInv'
  <2>1. \A n \in Member, s \in Slot : accepted[n][s] \in Vote \cup {Nothing}
    BY <1>3, SlotType
  <2>2. ASSUME NEW n \in Member, NEW s \in Slot, accepted[n][s] # Nothing
        PROVE  /\ VotedFor(n, s, accepted[n][s].ballot, accepted[n][s].value)
               /\ accepted[n][s].ballot \in Ballot
               /\ HasPromised(n, s, accepted[n][s].ballot)
    BY <2>1, <2>2 DEF IInv, VotesInv, Vote
  <2>3. ASSUME NEW n \in Member, NEW s \in Slot, accepted'[n][s] # Nothing
        PROVE  /\ VotedFor(n, s, accepted[n][s].ballot, accepted[n][s].value)'
               /\ HasPromised(n, s, accepted[n][s].ballot)'
    <3>1. CASE n = m /\ s = r.slot /\ ~Rejects(r)
      <4>1. accepted'[n][s].ballot = r.ballot /\ accepted'[n][s].value = r.value
        BY <1>5, <3>1
      <4>2. promised'[n][s] = r.ballot
        BY <1>5, <3>1
      <4>3. <<m, r.slot, r.ballot, r.value>> \in votes'
        BY <1>1, <3>1
      <4> QED BY <1>4, <3>1, <4>1, <4>2, <4>3, BallotOrder DEF VotedFor, HasPromised
    <3>2. CASE ~(n = m /\ s = r.slot /\ ~Rejects(r))
      <4>1. accepted'[n][s] = accepted[n][s]
        BY <1>5, <3>2
      <4>2. PICK a : a = accepted[n][s]
        OBVIOUS
      <4>3. VotedFor(n, s, a.ballot, a.value) /\ a.ballot \in Ballot /\ HasPromised(n, s, a.ballot)
        BY <2>2, <2>3, <4>1, <4>2
      <4>4. HasPromised(n, s, a.ballot)'
        BY <1>3, <1>7, <4>3, PromiseStands
      <4> QED BY <1>6, <4>1, <4>2, <4>3, <4>4 DEF VotedFor, HasPromised
    <3> QED BY <3>1, <3>2
  <2>4. ASSUME NEW x \in votes'
        PROVE  /\ ~Below(accepted'[x[1]][x[2]].ballot, x[3])
               /\ \E q \in VoteRequests(x[2])' : q.ballot = x[3] /\ q.value = x[4]
    <3>1. CASE x \in votes
      <4>1. x[1] \in Member /\ x[2] \in Slot /\ x[3] \in Ballot
        BY <1>3, <3>1, VoteType
      <4>2. /\ ~Below(accepted[x[1]][x[2]].ballot, x[3])
            /\ \E q \in VoteRequests(x[2]) : q.ballot = x[3] /\ q.value = x[4]
        BY <3>1 DEF IInv, VotesInv
      <4>3. CASE ~(x[1] = m /\ x[2] = r.slot /\ ~Rejects(r))
        BY <1>2, <1>5, <4>1, <4>2, <4>3 DEF VoteRequests
      <4>4. CASE x[1] = m /\ x[2] = r.slot /\ ~Rejects(r)
        <5>1. accepted[m][r.slot] # Nothing
          BY <4>1, <4>2, <4>4, BallotOrder DEF Nothing
        <5>2. PICK b, p : b = accepted[m][r.slot].ballot /\ p = promised[m][r.slot]
          OBVIOUS
        <5>3. b \in Ballot /\ p \in Ballot \cup {NoBallot} /\ ~Below(p, b)
          BY <1>3, <1>4, <2>2, <5>1, <5>2, PromiseType DEF HasPromised
        <5>4. ~Below(b, x[3]) /\ ~Below(r.ballot, p)
          BY <4>2, <4>4, <5>2
        <5>5. ~Below(r.ballot, x[3])
          BY <1>4, <4>1, <5>3, <5>4, BallotOrder
        <5> QED BY <1>2, <1>4, <1>5, <4>2, <4>4, <5>5 DEF VoteRequests
      <4> QED BY <4>3, <4>4
    <3>2. CASE x = <<m, r.slot, r.ballot, r.value>> /\ ~Rejects(r)
      <4>1. accepted'[x[1]][x[2]].ballot = r.ballot /\ x[3] = r.ballot
        BY <1>4, <1>5, <3>2
      <4>2. r \in VoteRequests(x[2])' /\ r.ballot = x[3] /\ r.value = x[4]
        BY <1>1, <1>2, <3>2 DEF VoteRequests
      <4> QED BY <1>4, <4>1, <4>2, BallotOrder
    <3> QED BY <1>6, <3>1, <3>2
  <2> QED BY <2>3, <2>4 DEF VotesInv
<1>9. OneRequestPerBallot' /\ RequestsAreSafe'
  BY <1>2, <1>3, <1>7, RequestsStand DEF IInv
<1>10. BallotsInv'
  BY <1>1, <1>2, <1>3, ReplyAdds, BallotsStand DEF IInv
<1>11. ASSUME NEW c \in Call, call[c].pc = "accept", call[c].ballot = r.ballot,
              NEW reply, reply = Answer(r)
       PROVE  AcceptanceHolds(c, reply)'
  <2>1. PICK q \in VoteRequests(call[c].slot) : q.ballot = r.ballot /\ q.value = call[c].selected
    BY <1>11 DEF IInv, ProposerInv
  <2>2. call[c].slot = r.slot /\ call[c].selected = r.value
    BY <1>1, <2>1 DEF IInv, OneRequestPerBallot, VoteRequests
  <2>3. /\ call'[c].slot = call[c].slot /\ call'[c].ballot = call[c].ballot
        /\ call'[c].selected = call[c].selected
    BY <1>1, <1>3, ReplyAdds
  <2>4. reply.from = m /\ (reply.accepted => <<m, r.slot, r.ballot, r.value>> \in votes')
    BY <1>1, <1>11
  <2> QED BY <1>11, <2>2, <2>3, <2>4 DEF AcceptanceHolds, VotedFor
<1>12. ASSUME NEW c \in Call PROVE ProposerInv(c)'
  <2>1. ProposerInv(c)
    BY DEF IInv
  <2>2. \A reply \in call'[c].replies : reply \in call[c].replies \/
          /\ call[c].pc = "prepare" => PromiseHolds(c, reply)'
          /\ call[c].pc = "accept" => AcceptanceHolds(c, reply)'
    BY <1>1, <1>3, <1>11, ReplyAdds
  <2>3. /\ call'[c].pc = call[c].pc /\ call'[c].slot = call[c].slot
        /\ call'[c].ballot = call[c].ballot /\ call'[c].selected = call[c].selected
    BY <1>1, <1>3, ReplyAdds
  <2> QED BY <1>2, <1>3, <1>7, <2>1, <2>2, <2>3, ProposerStands
<1>13. DecisionsAreChosen'
  BY <1>2, <1>3, <1>7, DecisionsStand DEF IInv
<1> QED BY <1>8, <1>9, <1>10, <1>12, <1>13 DEF IInv

\* Recording a decision touches the recorded slot alone.
LEMMA DecideRecords ==
  ASSUME TypeOK, NEW m \in Member, NEW s \in Slot, NEW v, Decide(m, s, v)
  PROVE  \A n \in Member, t \in Slot :
           decided'[n][t] = decided[n][t] \/ (n = m /\ t = s /\ decided'[n][t] = v)
<1>1. CASE decided' = decided
  BY <1>1
<1>2. CASE decided' = [decided EXCEPT ![m] = [decided[m] EXCEPT ![s] = v]]
  BY <1>2 DEF TypeOK
<1> QED BY <1>1, <1>2 DEF Decide

\* A step that records a chosen value, tells the peers of it or does not, and lets
\* at most the call that learned it go on.
LEMMA DecideStep ==
  ASSUME IInv, TypeOK', NEW m \in Member, NEW s \in Slot, NEW v, Chosen(s, v), Decide(m, s, v),
         UNCHANGED <<localRound, promised, accepted, votes>>,
         msgs \subseteq msgs',
         \A r \in msgs' : r \in msgs \/ (r.type = "decide" /\ r.slot = s /\ r.value = v),
         \A d \in Call : \/ call'[d] = call[d]
                         \/ call'[d].pc = "learned" /\ call'[d].ballot = call[d].ballot
  PROVE  IInv'
<1>1. TypeOK /\ Grows
  BY PromiseType, BallotOrder DEF IInv, Grows
<1>2. VotesInv'
  BY DEF IInv, VotesInv, VotedFor, HasPromised, VoteRequests
<1>3. OneRequestPerBallot' /\ RequestsAreSafe'
  BY <1>1, RequestsStand DEF IInv
<1>4. BallotsInv'
  BY <1>1, BallotsStand DEF IInv
<1>5. ASSUME NEW d \in Call PROVE ProposerInv(d)'
  <2>1. CASE call'[d] = call[d]
    <3>1. ProposerInv(d)
      BY DEF IInv
    <3> QED BY <1>1, <2>1, <3>1, ProposerStands
  <2>2. CASE call'[d].pc = "learned"
    BY <2>2 DEF ProposerInv
  <2> QED BY <2>1, <2>2
<1>6. DecisionsAreChosen'
  <2>1. \A n \in Member, t \in Slot : decided'[n][t] = decided[n][t] \/ Chosen(t, decided'[n][t])
    BY <1>1, DecideRecords
  <2> QED BY <1>1, <2>1, DecisionsStand DEF IInv
<1> QED BY <1>2, <1>3, <1>4, <1>5, <1>6 DEF IInv

LEMMA HandleDecideStep ==
  ASSUME IInv, TypeOK', NEW m \in Member, HandleDecide(m)
  PROVE  IInv'
<1>1. PICK r \in msgs : r.type = "decide" /\ Decide(m, r.slot, r.value)
  BY DEF HandleDecide
<1>2. r.slot \in Slot /\ Chosen(r.slot, r.value)
  BY <1>1, MessageType DEF IInv, DecisionsAreChosen
<1>3. UNCHANGED <<localRound, promised, accepted, call, msgs, votes>>
  BY DEF HandleDecide
<1> QED BY <1>1, <1>2, <1>3, DecideStep

LEMMA LearnStep ==
  ASSUME IInv, TypeOK', NEW c \in Call, Learn(c)
  PROVE  IInv'
<1>1. PICK m, s, v : m = call[c].at /\ s = call[c].slot /\ v = call[c].selected
  OBVIOUS
<1>2. call[c].pc = "learn" /\ call \in [Call -> CallState] /\ WellFormed(c) /\ ProposerInv(c)
  BY DEF Learn, IInv, TypeOK
<1>3. m \in Member /\ s \in Slot /\ Chosen(s, v)
  BY <1>1, <1>2 DEF WellFormed, Running, ProposerInv
<1>4. Decide(m, s, v) /\ UNCHANGED <<localRound, promised, accepted, votes>>
  BY <1>1 DEF Learn
<1>5. msgs' = msgs \cup {[type |-> "decide", from |-> m, slot |-> s, value |-> v]}
  BY <1>1 DEF Learn
<1>6. \A d \in Call : \/ call'[d] = call[d]
                      \/ call'[d].pc = "learned" /\ call'[d].ballot = call[d].ballot
  BY <1>2 DEF Learn, Goto, CallState
<1> QED BY <1>3, <1>4, <1>5, <1>6, DecideStep

\* The next ballot of a member was never reserved before.
LEMMA ReserveBallotStep ==
  ASSUME IInv, TypeOK', NEW c \in Call, ReserveBallot(c)
  PROVE  IInv'
<1>1. PICK m, s, ballot :
        /\ m = call[c].at /\ s = call[c].slot
        /\ ballot = [round |-> (IF localRound[m] > call[c].observed
                                  THEN localRound[m] ELSE call[c].observed) + 1, node |-> m]
  OBVIOUS
<1>2. TypeOK /\ call \in [Call -> CallState] /\ WellFormed(c) /\ call[c].pc = "reserve"
  BY DEF IInv, TypeOK, ReserveBallot
<1>3. m \in Member /\ s \in Slot /\ call[c].observed \in Nat /\ localRound \in [Member -> Nat]
  BY <1>1, <1>2 DEF WellFormed, Running, CallState, TypeOK
<1>4. /\ ballot.node = m /\ ballot.round \in Nat /\ ballot.round > localRound[m]
      /\ ballot \in Ballot /\ ballot # NoBallot
  BY <1>1, <1>3, MemberAssumption DEF Ballot, NoBallot
<1>5. localRound' = [localRound EXCEPT ![m] = ballot.round]
  BY <1>1 DEF ReserveBallot
<1>6. call' = [call EXCEPT ![c] = [call[c] EXCEPT !.pc = "prepare", !.ballot = ballot,
                                      !.attempts = call[c].attempts + 1, !.replies = {}]]
  BY <1>1 DEF ReserveBallot
<1>7. msgs' = msgs \cup {[type |-> "prepare", from |-> m, slot |-> s, ballot |-> ballot]}
  BY <1>1 DEF ReserveBallot
<1>8. UNCHANGED <<promised, accepted, decided, votes>>
  BY DEF ReserveBallot
<1>9. Grows
  BY <1>2, <1>7, <1>8, PromiseType, BallotOrder DEF Grows
<1>10. /\ call'[c].pc = "prepare" /\ call'[c].ballot = ballot
       /\ call'[c].slot = s /\ call'[c].replies = {}
       /\ \A d \in Call : d # c => call'[d] = call[d]
  BY <1>1, <1>2, <1>6 DEF CallState
<1>11. \A n \in Member : localRound[n] \in Nat /\ localRound'[n] \in Nat
                         /\ localRound[n] <= localRound'[n]
  BY <1>3, <1>4, <1>5
<1>12. ASSUME NEW b \in Ballot, b.round <= localRound[b.node]
       PROVE  b # ballot /\ b.round <= localRound'[b.node]
  <2>1. b.node \in Member /\ b.round \in Nat
    BY DEF Ballot
  <2> QED BY <1>4, <1>11, <1>12, <2>1
<1>13. \A r \in msgs : r.type # "decide" =>
         r.ballot \in Ballot /\ r.ballot.round <= localRound[r.ballot.node]
  BY <1>2, MessageType DEF IInv, BallotsInv
<1>14. \A d \in Call : call[d].ballot # NoBallot =>
         call[d].ballot \in Ballot /\ call[d].ballot.round <= localRound[call[d].ballot.node]
  BY <1>2 DEF IInv, BallotsInv, CallState
<1>15. VotesInv'
  BY <1>7, <1>8 DEF IInv, VotesInv, VotedFor, HasPromised, VoteRequests
<1>16. OneRequestPerBallot' /\ RequestsAreSafe'
  BY <1>2, <1>7, <1>9, RequestsStand DEF IInv
<1>17. BallotsInv'
  <2>1. ASSUME NEW r \in msgs', r.type # "decide"
        PROVE  r.ballot.round <= localRound'[r.ballot.node]
    <3>1. CASE r \in msgs
      BY <1>12, <1>13, <2>1, <3>1
    <3>2. CASE r.ballot = ballot
      BY <1>3, <1>4, <1>5, <3>2
    <3> QED BY <1>7, <2>1, <3>1, <3>2
  <2>2. ASSUME NEW d \in Call, call'[d].ballot # NoBallot
        PROVE  /\ call'[d].ballot.round <= localRound'[call'[d].ballot.node]
               /\ \A e \in Call : call'[e].ballot = call'[d].ballot => e = d
    <3>1. CASE d = c
      BY <1>3, <1>4, <1>5, <1>10, <1>12, <1>14, <3>1
    <3>2. CASE d # c
      BY <1>4, <1>10, <1>12, <1>14, <2>2, <3>2 DEF IInv, BallotsInv
    <3> QED BY <3>1, <3>2
  <2> QED BY <2>1, <2>2 DEF BallotsInv
<1>18. ASSUME NEW d \in Call PROVE ProposerInv(d)'
  <2>1. CASE d = c
    <3>1. ASSUME NEW r \in msgs', r.type # "decide", r.ballot = ballot
          PROVE  r.type = "prepare" /\ r.slot = s
      BY <1>7, <1>12, <1>13, <3>1
    <3> QED BY <1>10, <2>1, <3>1 DEF ProposerInv
  <2>2. CASE d # c
    <3>1. ProposerInv(d) /\ call'[d] = call[d]
      BY <1>10, <2>2 DEF IInv
    <3>2. call[d].ballot # ballot
      BY <1>4, <1>12, <1>14
    <3>3. \A r \in msgs' : r \in msgs \/ r.type = "decide" \/ r.ballot # call[d].ballot
      BY <1>7, <3>2
    <3> QED BY <1>2, <1>9, <3>1, <3>3, ProposerStands
  <2> QED BY <2>1, <2>2
<1>19. DecisionsAreChosen'
  BY <1>2, <1>7, <1>8, <1>9, DecisionsStand DEF IInv
<1> QED BY <1>15, <1>16, <1>17, <1>18, <1>19 DEF IInv

\* The value that a proposer picks from a quorum of promises is safe to vote for.
LEMMA AdoptedIsSafe ==
  ASSUME IInv, NEW c \in Call, call[c].pc = "prepare",
         NEW P \in SUBSET call[c].replies, \A r \in P : r.promised, Members(P) \in Quorum,
         NEW value \in Command, Adopts(P, call[c].command, value)
  PROVE  /\ SafeAt(call[c].slot, call[c].ballot, value)
         /\ \A m \in Members(P) : HasPromised(m, call[c].slot, call[c].ballot)
<1>1. PICK s, B : s = call[c].slot /\ B = call[c].ballot
  OBVIOUS
<1>2. TypeOK /\ s \in Slot /\ B \in Ballot /\ P \subseteq PrepareReply
  BY <1>1 DEF IInv, TypeOK, WellFormed
<1>3. \A r \in P : /\ r.from \in Member /\ r.accepted \in Vote \cup {Nothing}
                   /\ r.accepted.ballot \in Ballot \cup {NoBallot}
  BY <1>2 DEF PrepareReply, Vote, Nothing
<1>4. \A r \in P :
        /\ HasPromised(r.from, s, B)
        /\ r.accepted # Nothing => VotedFor(r.from, s, r.accepted.ballot, r.accepted.value)
        /\ \A x \in votes : x[1] = r.from /\ x[2] = s /\ Below(x[3], B)
                              => ~Below(r.accepted.ballot, x[3])
  BY <1>1 DEF IInv, ProposerInv, PromiseHolds
<1>5. ASSUME NEW r \in P, NEW b \in Ballot, Below(b, B), Below(r.accepted.ballot, b)
      PROVE  ClosedTo(r.from, s, b)
  <2>1. promised[r.from][s] \in Ballot \cup {NoBallot} /\ ~Below(promised[r.from][s], B)
    BY <1>2, <1>3, <1>4, PromiseType DEF HasPromised
  <2>2. Below(b, promised[r.from][s])
    BY <1>2, <1>5, <2>1, BallotOrder
  <2>3. ASSUME NEW v \in Command, VotedFor(r.from, s, b, v) PROVE FALSE
    BY <1>4, <1>5, <2>3 DEF VotedFor
  <2> QED BY <2>2, <2>3 DEF ClosedTo
<1>6. ASSUME NEW r \in VoteRequests(s), Below(r.ballot, B)
      PROVE  \E Q \in Quorum : \A m \in Q : VotedFor(m, s, r.ballot, value) \/ ClosedTo(m, s, r.ballot)
  <2>1. r.ballot \in Ballot /\ r \in msgs /\ r.type = "accept" /\ r.slot = s
    BY <1>2, MessageType DEF VoteRequests
  <2>2. CASE \A q \in P : q.accepted = Nothing
    <3>1. \A q \in P : ClosedTo(q.from, s, r.ballot)
      BY <1>5, <1>6, <2>1, <2>2, BallotOrder DEF Nothing
    <3> QED BY <3>1 DEF Members
  <2>3. ASSUME NEW t \in P, t.accepted # Nothing, value = t.accepted.value,
               \A q \in P : q.accepted # Nothing => ~Below(t.accepted.ballot, q.accepted.ballot)
        PROVE  \E Q \in Quorum : \A m \in Q :
                 VotedFor(m, s, r.ballot, value) \/ ClosedTo(m, s, r.ballot)
    <3>1. PICK top : top = t.accepted.ballot
      OBVIOUS
    <3>2. top \in Ballot /\ VotedFor(t.from, s, top, value)
      BY <1>3, <1>4, <2>3, <3>1 DEF Vote
    <3>3. PICK q0 \in VoteRequests(s) : q0.ballot = top /\ q0.value = value
      BY <3>2 DEF IInv, VotesInv, VotedFor
    <3>4. \A q \in P : ~Below(top, q.accepted.ballot)
      BY <1>2, <2>3, <3>1, <3>2, BallotOrder DEF Nothing
    <3>5. CASE Below(r.ballot, top)
      BY <3>3, <3>5 DEF IInv, RequestsAreSafe, SafeAt, VoteRequests
    <3>6. CASE Below(top, r.ballot)
      <4>1. \A q \in P : Below(q.accepted.ballot, r.ballot)
        BY <1>3, <2>1, <3>2, <3>4, <3>6, BallotOrder
      <4> QED BY <1>5, <1>6, <2>1, <4>1 DEF Members
    <3>7. CASE r.ballot = top
      <4>1. ASSUME NEW q \in P
            PROVE  VotedFor(q.from, s, top, value) \/ ClosedTo(q.from, s, top)
        <5>1. CASE \E v \in Command : VotedFor(q.from, s, top, v)
          <6>1. PICK v \in Command : VotedFor(q.from, s, top, v)
            BY <5>1
          <6>2. PICK z \in VoteRequests(s) : z.ballot = top /\ z.value = v
            BY <6>1 DEF IInv, VotesInv, VotedFor
          <6>3. v = value
            BY <3>3, <6>2 DEF IInv, OneRequestPerBallot, VoteRequests
          <6> QED BY <6>1, <6>3
        <5>2. CASE \A v \in Command : ~VotedFor(q.from, s, top, v)
          <6>1. promised[q.from][s] \in Ballot \cup {NoBallot} /\ ~Below(promised[q.from][s], B)
            BY <1>2, <1>3, <1>4, PromiseType DEF HasPromised
          <6>2. Below(top, promised[q.from][s])
            BY <1>2, <1>6, <3>2, <3>7, <6>1, BallotOrder
          <6> QED BY <5>2, <6>2 DEF ClosedTo
        <5> QED BY <5>1, <5>2
      <4> QED BY <3>7, <4>1 DEF Members
    <3> QED BY <2>1, <3>2, <3>5, <3>6, <3>7, BallotOrder
  <2> QED BY <2>2, <2>3 DEF Adopts
<1> QED BY <1>1, <1>4, <1>6 DEF SafeAt, Members

\* A proposer puts a value to the vote.
LEMMA SendAcceptStep ==
  ASSUME IInv, TypeOK', NEW c \in Call, SendAccept(c)
  PROVE  IInv'
<1>1. PICK R \in Arrived(c), value \in Command : \E n \in RoundsSeen(c, R) :
        /\ Members({r \in R : r.promised}) \in Quorum
        /\ Adopts({r \in R : r.promised}, call[c].command, value)
        /\ call' = [call EXCEPT ![c] = [call[c] EXCEPT !.pc = "accept", !.selected = value,
                                          !.observed = n, !.replies = {}]]
        /\ msgs' = msgs \cup {[type |-> "accept", from |-> call[c].at,
                               slot |-> call[c].slot, ballot |-> call[c].ballot, value |-> value]}
  BY DEF SendAccept
<1>2. PICK s, B, P : s = call[c].slot /\ B = call[c].ballot /\ P = {r \in R : r.promised}
  OBVIOUS
<1>3. PICK request :
        /\ request = [type |-> "accept", from |-> call[c].at, slot |-> s, ballot |-> B,
                      value |-> value]
        /\ msgs' = msgs \cup {request}
  BY <1>1, <1>2
<1>4. request.type = "accept" /\ request.slot = s /\ request.ballot = B /\ request.value = value
  BY <1>3
<1>5. UNCHANGED <<localRound, promised, accepted, decided, votes>> /\ call[c].pc = "prepare"
  BY DEF SendAccept, durable
<1>6. TypeOK /\ call \in [Call -> CallState] /\ WellFormed(c) /\ ProposerInv(c)
  BY DEF IInv, TypeOK
<1>7. s \in Slot /\ B \in Ballot /\ B # NoBallot
  BY <1>2, <1>5, <1>6 DEF WellFormed, Ballot, NoBallot
<1>8. /\ call'[c].pc = "accept" /\ call'[c].slot = s /\ call'[c].ballot = B
      /\ call'[c].selected = value /\ call'[c].replies = {}
      /\ \A d \in Call : d # c => call'[d] = call[d]
  BY <1>1, <1>2, <1>6 DEF CallState
<1>9. Grows
  BY <1>3, <1>5, <1>6, PromiseType, BallotOrder DEF Grows
<1>10. SafeAt(s, B, value) /\ \A m \in Members(P) : HasPromised(m, s, B)
  <2>1. P \in SUBSET call[c].replies /\ \A r \in P : r.promised
    BY <1>2 DEF Arrived
  <2> QED BY <1>1, <1>2, <1>5, <2>1, AdoptedIsSafe
\* No vote was ever cast in this ballot: nothing asked for one.
<1>11. \A r \in msgs : r.type = "accept" => r.ballot # B
  BY <1>2, <1>5, <1>6 DEF ProposerInv
<1>12. \A m \in Member, t \in Slot, v \in Command : ~VotedFor(m, t, B, v)
  BY <1>11 DEF IInv, VotesInv, VotedFor, VoteRequests
<1>13. VotesInv'
  BY <1>3, <1>5 DEF IInv, VotesInv, VotedFor, HasPromised, VoteRequests
<1>14. OneRequestPerBallot'
  BY <1>3, <1>4, <1>11 DEF IInv, OneRequestPerBallot
<1>15. RequestsAreSafe'
  <2>1. ASSUME NEW t \in Slot, NEW b \in Ballot, NEW v \in Command, SafeAt(t, b, v),
               \E Q \in Quorum : \A m \in Q : HasPromised(m, t, b)
        PROVE  SafeAt(t, b, v)'
    <3> SUFFICES ASSUME NEW r \in VoteRequests(t)', Below(r.ballot, b)
                 PROVE  \E Q \in Quorum : \A m \in Q :
                          VotedFor(m, t, r.ballot, v)' \/ ClosedTo(m, t, r.ballot)'
      BY DEF SafeAt
    <3>1. CASE r \in VoteRequests(t)
      <4>1. PICK Q \in Quorum : \A m \in Q : VotedFor(m, t, r.ballot, v) \/ ClosedTo(m, t, r.ballot)
        BY <2>1, <3>1 DEF SafeAt
      <4> QED BY <1>5, <4>1 DEF VotedFor, ClosedTo
    <3>2. CASE r = request
      <4>1. PICK Q \in Quorum : \A m \in Q : HasPromised(m, t, b)
        BY <2>1
      <4>2. ASSUME NEW m \in Q PROVE ClosedTo(m, t, B)'
        <5>1. promised[m][t] \in Ballot \cup {NoBallot} /\ ~Below(promised[m][t], b) /\ m \in Member
          BY <1>6, <4>1, PromiseType DEF HasPromised, Quorum
        <5>2. Below(B, promised[m][t])
          BY <1>4, <1>7, <3>2, <5>1, BallotOrder
        <5> QED BY <1>5, <1>12, <5>1, <5>2 DEF ClosedTo, VotedFor
      <4> QED BY <1>4, <3>2, <4>2
    <3> QED BY <1>3, <3>1, <3>2 DEF VoteRequests
  <2>2. ASSUME NEW r \in msgs', r.type = "accept"
        PROVE  /\ SafeAt(r.slot, r.ballot, r.value)
               /\ \E Q \in Quorum : \A m \in Q : HasPromised(m, r.slot, r.ballot)
               /\ r.slot \in Slot /\ r.ballot \in Ballot /\ r.value \in Command
    <3>1. CASE r \in msgs
      BY <1>6, <2>2, <3>1, MessageType DEF IInv, RequestsAreSafe
    <3>2. CASE r = request
      BY <1>1, <1>2, <1>4, <1>7, <1>10, <3>2
    <3> QED BY <1>3, <3>1, <3>2
  <2>3. \A r \in msgs' : r.type = "accept" => SafeAt(r.slot, r.ballot, r.value)'
    BY <2>1, <2>2
  <2>4. \A r \in msgs' : r.type = "accept" =>
          \E Q \in Quorum : \A m \in Q : HasPromised(m, r.slot, r.ballot)'
    BY <1>5, <2>2 DEF HasPromised
  <2> QED BY <2>3, <2>4 DEF RequestsAreSafe
<1>16. BallotsInv'
  <2>1. \A d \in Call : call'[d].ballot = call[d].ballot
    BY <1>2, <1>8
  <2> QED BY <1>2, <1>3, <1>4, <1>5, <1>6, <1>7, <2>1, BallotsStand DEF IInv
<1>17. ASSUME NEW d \in Call PROVE ProposerInv(d)'
  <2>1. CASE d = c
    BY <1>3, <1>4, <1>8, <2>1 DEF ProposerInv, VoteRequests
  <2>2. CASE d # c
    <3>1. ProposerInv(d) /\ call'[d] = call[d]
      BY <1>8, <2>2 DEF IInv
    <3>2. call[d].ballot # B
      BY <1>2, <1>7, <2>2 DEF IInv, BallotsInv
    <3>3. \A r \in msgs' : r \in msgs \/ r.type = "decide" \/ r.ballot # call[d].ballot
      BY <1>3, <1>4, <3>2
    <3> QED BY <1>6, <1>9, <3>1, <3>3, ProposerStands
  <2> QED BY <2>1, <2>2
<1>18. DecisionsAreChosen'
  BY <1>3, <1>4, <1>5, <1>6, <1>9, DecisionsStand DEF IInv
<1> QED BY <1>13, <1>14, <1>15, <1>16, <1>17, <1>18 DEF IInv

LEMMA InitInv == Init => IInv
<1> SUFFICES ASSUME Init PROVE IInv
  OBVIOUS
<1>1. TypeOK
  BY InitType
<1>2. VotesInv
  BY DEF Init, VotesInv
<1>3. OneRequestPerBallot /\ RequestsAreSafe
  BY DEF Init, OneRequestPerBallot, RequestsAreSafe
<1>4. \A c \in Call : call[c].ballot = NoBallot /\ call[c].pc = "idle"
  BY DEF Init, Idle, NewCall
<1>5. BallotsInv /\ \A c \in Call : ProposerInv(c)
  BY <1>4 DEF Init, BallotsInv, ProposerInv
<1>6. DecisionsAreChosen
  BY DEF Init, DecisionsAreChosen
<1> QED BY <1>1, <1>2, <1>3, <1>5, <1>6 DEF IInv

LEMMA NextInv == IInv /\ [Next]_vars => IInv'
<1> SUFFICES ASSUME IInv, [Next]_vars PROVE IInv'
  OBVIOUS
<1>1. TypeOK'
  BY NextType DEF IInv
<1>2. CASE UNCHANGED vars
  <2>1. VotesInv' /\ OneRequestPerBallot' /\ BallotsInv'
    BY <1>2 DEF vars, IInv, VotesInv, VotedFor, HasPromised, OneRequestPerBallot,
       BallotsInv, VoteRequests
  <2>2. RequestsAreSafe'
    BY <1>2 DEF vars, IInv, RequestsAreSafe, SafeAt, VotedFor, ClosedTo, HasPromised, VoteRequests
  <2>3. DecisionsAreChosen'
    <3>1. decided' = decided /\ msgs' = msgs /\ votes' = votes
      BY <1>2 DEF vars
    <3>2. \A s, v : Chosen(s, v)' = Chosen(s, v)
      BY <3>1 DEF Chosen, Voters, VoteRequests
    <3>3. DecisionsAreChosen
      BY DEF IInv
    <3> QED BY <3>1, <3>2, <3>3 DEF DecisionsAreChosen
  <2>4. ASSUME NEW c \in Call PROVE ProposerInv(c)'
    <3>1. TypeOK /\ Grows
      BY <1>2, PromiseType, BallotOrder DEF vars, IInv, Grows
    <3>2. ProposerInv(c) /\ call' = call /\ msgs' = msgs
      BY <1>2 DEF vars, IInv
    <3> QED BY <1>1, <3>1, <3>2, ProposerStands
  <2> QED BY <1>1, <2>1, <2>2, <2>3, <2>4 DEF IInv
<1>3. ASSUME NEW c \in Call, Proposer(c) PROVE IInv'
  BY <1>1, <1>3, QuietProposerStep, ReserveBallotStep, SendAcceptStep, LearnStep DEF Proposer
<1>4. ASSUME NEW m \in Member, Acceptor(m) PROVE IInv'
  BY <1>1, <1>4, HandlePrepareStep, HandleAcceptStep, HandleDecideStep DEF Acceptor
<1> QED BY <1>1, <1>2, <1>3, <1>4, StartStep, RestartStep DEF Next

\* The inductive invariant holds in every reachable state.
THEOREM InvariantHolds == Spec => []IInv
<1> QED BY InitInv, NextInv, PTL DEF Spec

\* A decision that any member acts on is durably held by a quorum (DecisionsAreChosen:
\* acceptor.accept saves before it replies, proposer._decide_slot counts a quorum).
THEOREM DecisionsChosen == Spec => []DecisionsAreChosen
<1>1. IInv => DecisionsAreChosen
  BY DEF IInv
<1> QED BY <1>1, InvariantHolds, PTL

LEMMA AgreementFollows == IInv => Agreement
<1> SUFFICES ASSUME IInv, NEW m \in Member, NEW n \in Member, NEW s \in Slot,
                    decided[m][s] # NoValue, decided[n][s] # NoValue
             PROVE  decided[m][s] = decided[n][s]
  BY DEF Agreement
<1>1. decided[m][s] \in Command /\ decided[n][s] \in Command
  BY SlotType DEF IInv, TypeOK
<1>2. Chosen(s, decided[m][s]) /\ Chosen(s, decided[n][s])
  BY DEF IInv, DecisionsAreChosen
<1> QED BY <1>1, <1>2, ChosenOnce DEF IInv

LEMMA NoErrorFollows == IInv => NoSafetyError
<1> SUFFICES ASSUME IInv PROVE NoSafetyError
  OBVIOUS
<1>1. TypeOK
  BY DEF IInv
<1>2. ASSUME NEW s \in Slot, NEW m \in Member, NEW v \in Command, Chosen(s, v)
      PROVE  ~ConflictingDecision(m, s, v)
  <2>1. decided[m][s] = NoValue \/ (decided[m][s] \in Command /\ Chosen(s, decided[m][s]))
    BY <1>1, SlotType DEF IInv, DecisionsAreChosen
  <2> QED BY <1>2, <2>1, ChosenOnce DEF ConflictingDecision, IInv
<1>3. ASSUME NEW c \in Call PROVE ~ConflictRaised(c)
  <2>0. call[c] \in CallState /\ WellFormed(c) /\ ProposerInv(c)
    BY DEF IInv, TypeOK
  <2>1. ASSUME call[c].pc = "prepare", NEW R \in Arrived(c) PROVE ~(Cardinality(Decisions(R)) > 1)
    <3>1. \A r \in R : r.decided # NoValue => r.decided \in Command /\ Chosen(call[c].slot, r.decided)
      BY <2>0, <2>1 DEF Arrived, WellFormed, PrepareReply, ProposerInv, PromiseHolds
    <3>2. call[c].slot \in Slot
      BY <2>0, <2>1 DEF WellFormed
    <3>3. \A v, w \in Decisions(R) : v = w
      BY <3>1, <3>2, ChosenOnce DEF Decisions, IInv
    <3>4. CASE Decisions(R) = {}
      BY <3>4, FS_EmptySet
    <3>5. CASE Decisions(R) # {}
      <4>1. PICK v : Decisions(R) = {v}
        BY <3>3, <3>5
      <4>2. Cardinality(Decisions(R)) = 1
        BY <4>1, FS_Singleton
      <4> QED BY <4>2
    <3> QED BY <3>4, <3>5
  <2>2. ASSUME call[c].pc = "learn"
        PROVE  ~ConflictingDecision(call[c].at, call[c].slot, call[c].selected)
    BY <1>2, <2>0, <2>2 DEF WellFormed, Running, ProposerInv
  <2> QED BY <2>1, <2>2 DEF ConflictRaised
<1>4. ASSUME NEW r \in msgs, NEW m \in Member, r.type = "accept" PROVE ~ReusedBallot(m, r)
  <2>1. r.slot \in Slot /\ r.ballot \in Ballot
    BY <1>1, <1>4, MessageType
  <2>2. ASSUME accepted[m][r.slot].ballot = r.ballot PROVE accepted[m][r.slot].value = r.value
    <3>1. accepted[m][r.slot] # Nothing
      BY <2>1, <2>2 DEF Nothing, NoBallot, Ballot
    <3>2. VotedFor(m, r.slot, r.ballot, accepted[m][r.slot].value)
      BY <2>1, <2>2, <3>1 DEF IInv, VotesInv
    <3>3. PICK q \in VoteRequests(r.slot) : q.ballot = r.ballot /\ q.value = accepted[m][r.slot].value
      BY <3>2 DEF IInv, VotesInv, VotedFor
    <3> QED BY <1>4, <3>3 DEF IInv, OneRequestPerBallot, VoteRequests
  <2> QED BY <2>2 DEF ReusedBallot
<1>5. ASSUME NEW r \in msgs, NEW m \in Member, r.type = "decide"
      PROVE  ~ConflictingDecision(m, r.slot, r.value)
  BY <1>1, <1>2, <1>5, MessageType DEF IInv, DecisionsAreChosen
<1> QED BY <1>3, <1>4, <1>5 DEF NoSafetyError

\* No PaxosSafetyError is ever raised, in acceptor.accept, acceptor.decide or
\* proposer._decide_slot (NoSafetyError).
THEOREM NoErrorRaised == Spec => []NoSafetyError
<1> QED BY NoErrorFollows, InvariantHolds, PTL

\* Two members never record different decisions for a slot (Agreement:
\* acceptor.decide at any two members).
THEOREM MembersAgree == Spec => []Agreement
<1> QED BY AgreementFollows, InvariantHolds, PTL
=============================================================================
