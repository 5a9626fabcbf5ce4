------------------------- MODULE NativeLogletProofs -------------------------
(***************************************************************************)
(* Types, agreement of copies, durability, known tails and reported tails  *)
(* of NativeLoglet, for any members, clients, workload, links, commands    *)
(* and bounds; reported tails, where no trim runs between the two queries  *)
(* of a state.                                                             *)
(***************************************************************************)
EXTENDS NativeLogletInvariant, FiniteSetTheorems, WellFoundedInduction, TLAPS

-----------------------------------------------------------------------------
(* Tails and their extremes.                                               *)

LEMMA CommandCount == Cardinality(Command) \in Nat
BY CommandAssumption, FS_CardinalityType

\* A nonempty set of numbers has a lowest one.
LEMMA LowestExists ==
  ASSUME NEW S \in SUBSET Nat, S # {}
  PROVE  \E n \in S : \A k \in S : n <= k
<1>1. PICK n \in S : \A k \in S : ~ (<<k, n>> \in OpToRel(<, Nat))
  BY NatLessThanWellFounded, WFMin
<1>2. \A k \in S : ~ (k < n)
  BY <1>1 DEF OpToRel
<1> QED BY <1>2

\* A nonempty set of numbers up to a bound has a highest one.
LEMMA HighestExists ==
  ASSUME NEW N \in Nat, NEW S \in SUBSET (0..N), S # {}
  PROVE  \E n \in S : \A k \in S : k <= n
<1> DEFINE T == {N - k : k \in S}
<1>1. T \in SUBSET Nat /\ T # {}
  <2>1. \A k \in S : N - k \in Nat
    OBVIOUS
  <2> QED BY <2>1
<1>2. PICK m \in T : \A k \in T : m <= k
  BY <1>1, LowestExists
<1>3. PICK n \in S : m = N - n
  OBVIOUS
<1>4. \A k \in S : N - n <= N - k
  BY <1>2, <1>3
<1>5. \A k \in S : k <= n
  BY <1>4
<1> QED BY <1>5

LEMMA HighestTail ==
  ASSUME NEW S \in SUBSET Tail, S # {}
  PROVE  Highest(S) \in S /\ Highest(S) \in Tail /\ \A k \in S : k <= Highest(S)
BY CommandCount, HighestExists DEF Highest, Tail

LEMMA LowestTail ==
  ASSUME NEW S \in SUBSET Tail, S # {}
  PROVE  Lowest(S) \in Tail
<1>1. S \in SUBSET Nat
  BY CommandCount DEF Tail
<1> QED BY <1>1, LowestExists DEF Lowest

LEMMA LargerTail ==
  ASSUME NEW m \in Tail, NEW n \in Tail
  PROVE  Larger(m, n) \in Tail
BY DEF Larger

LEMMA PositionTail == Position \subseteq Tail /\ \A p \in Position : p + 1 \in Tail
BY CommandCount DEF Position, Tail

LEMMA LocalTailType ==
  ASSUME TypeOK, NEW s \in Server, NEW w \in Tail
  PROVE  LocalTail(s, w) \in Tail
<1> DEFINE S == {w} \cup {p + 1 : p \in {q \in Position : entries[s][q] # NoCommand}}
<1>1. S \in SUBSET Tail /\ S # {}
  BY PositionTail
<1> QED BY <1>1, HighestTail DEF LocalTail
-----------------------------------------------------------------------------
(* The parts of the invariant that a step leaves alone.                    *)

\* What has a position keeps it while the sequencer's positions only grow.
LEMMA PlacedKept ==
  ASSUME \A k \in Given : seq'.position[k] = seq.position[k]
  PROVE  Given \subseteq Given'
BY DEF Given, Assigned

\* Steps that leave the positions alone.
LEMMA SamePositions ==
  ASSUME seq'.position = seq.position, seq'.next = seq.next
  PROVE  /\ Given' = Given
         /\ PositionsInv => PositionsInv'
<1>1. Given' = Given
  BY DEF Given, Assigned
<1> QED BY <1>1 DEF PositionsInv

\* Calls that a step leaves alone keep what they know.
LEMMA CallKept ==
  ASSUME NEW c \in Call, CallInv(call[c]), call'[c] = call[c],
         Given \subseteq Given', \A k \in Given : seq'.position[k] = seq.position[k]
  PROVE  CallInv(call[c])'
BY DEF CallInv, Placed

\* A step of one call.
LEMMA CallStep ==
  ASSUME TypeOK, NEW c \in Call, NEW state \in CallState, Goto(c, state)
  PROVE  /\ call' \in [Call -> CallState]
         /\ call'[c] = state
         /\ \A d \in Call \ {c} : call'[d] = call[d]
BY DEF TypeOK, Goto

\* The state of a call with the fields that a step sets.
LEMMA NewCallType ==
  ASSUME NEW pc \in {"idle", "state", "wait", "seal", "trim", "read", "repair", "done", "failed"},
         NEW op \in {"none", "seal", "check_tail", "prefix_trim"},
         NEW client \in Client, NEW floor \in Tail
  PROVE  NewCall(pc, op, client, floor) \in CallState
BY CommandCount DEF NewCall, CallState, CallResult, Tail
-----------------------------------------------------------------------------
(* The sequencer.                                                          *)

LEMMA GivenIsFinite == IsFiniteSet(Given) /\ Cardinality(Given) \in Nat
BY CommandAssumption, FS_Subset, FS_CardinalityType DEF Given

\* A command without a position gets one within the bounds.
LEMMA NextIsFree ==
  ASSUME TypeOK, PositionsInv, NEW k \in Command, k \notin Given
  PROVE  /\ seq.next \in Position
         /\ Cardinality(Given \cup {k}) = seq.next + 1
<1>1. Cardinality(Given \cup {k}) = Cardinality(Given) + 1
  BY GivenIsFinite, FS_AddElement
<1>2. Given \cup {k} \subseteq Command
  BY DEF Given
<1>3. Cardinality(Given \cup {k}) <= Cardinality(Command)
  BY <1>2, CommandAssumption, FS_Subset
<1> QED BY <1>1, <1>3, GivenIsFinite, CommandCount DEF PositionsInv, Position

LEMMA GivenPosition ==
  ASSUME TypeOK, NEW k \in Given
  PROVE  seq.position[k] \in Position
BY CommandCount DEF TypeOK, SequencerState, Given, Assigned, Unassigned, Position, Tail

\* A round keeps the positions in order, and its request is at its place.
LEMMA RoundStep ==
  ASSUME LogletInv, NEW k \in Command, NEW caller \in Command,
         NEW tail \in Tail,
         Round([seq EXCEPT !.tail = tail], k, PositionFor(seq, k), caller),
         UNCHANGED <<entries, call>>
  PROVE  /\ seq' \in SequencerState
         /\ msgs' \subseteq PutRequest \cup SealRequest \cup TrimRequest
         /\ stored' \subseteq Server
         /\ PositionsInv' /\ RoundInv' /\ EntriesInv'
         /\ \A c \in Call : CallInv(call[c])'
<1> DEFINE p == PositionFor(seq, k)
           request == Put(p, k, tail)
<1>1. /\ seq \in SequencerState
      /\ seq.position \in [Command -> Tail] /\ seq.next \in Tail
  BY DEF LogletInv, TypeOK, SequencerState
<1>2. p \in Position
  <2>1. CASE k \in Given
    BY <2>1, GivenPosition DEF LogletInv, PositionFor, Given, Assigned
  <2>2. CASE k \notin Given
    BY <2>2, NextIsFree DEF LogletInv, PositionFor, Given, Assigned
  <2> QED BY <2>1, <2>2
<1>3. p \in Tail /\ p + 1 \in Tail /\ p # Unassigned
  BY <1>2, PositionTail, CommandCount DEF Position, Unassigned
<1>4. /\ seq'.position = [seq.position EXCEPT ![k] = p]
      /\ seq'.next = IF p = seq.next THEN p + 1 ELSE seq.next
      /\ seq'.entry = k /\ seq'.caller = caller /\ seq'.pc = "commit"
      /\ msgs' = msgs \cup {request}
      /\ stored' = {}
  BY <1>1 DEF Round, SequencerState
<1>5. request \in PutRequest
  BY <1>2 DEF Put, PutRequest
<1>6. seq' \in SequencerState
  BY <1>1, <1>3, <1>5 DEF Round, SequencerState
<1>7. msgs' \subseteq PutRequest \cup SealRequest \cup TrimRequest
  BY <1>4, <1>5 DEF LogletInv, TypeOK
<1>8. Given' = Given \cup {k}
  BY <1>1, <1>3, <1>4 DEF Given, Assigned
<1>9. \A l \in Given : seq'.position[l] = seq.position[l]
  BY <1>1, <1>4 DEF PositionFor, Given, Assigned
<1>10. PositionsInv'
  <2>1. CASE k \in Given
    <3>1. p = seq.position[k] /\ p < seq.next
      BY <2>1 DEF LogletInv, PositionsInv, PositionFor, Given, Assigned
    <3>2. Given' = Given /\ seq'.next = seq.next
      BY <1>1, <1>4, <1>8, <2>1, <3>1, CommandCount DEF Tail
    <3> QED BY <3>2, <1>9 DEF LogletInv, PositionsInv
  <2>2. CASE k \notin Given
    <3>1. p = seq.next /\ seq'.next = seq.next + 1 /\ seq'.position[k] = p
      BY <2>2, <1>1, <1>4 DEF PositionFor, Given, Assigned
    <3>2. seq'.next = Cardinality(Given')
      BY <3>1, <2>2, <1>8, NextIsFree DEF LogletInv
    <3>3. \A l \in Given' : seq'.position[l] < seq'.next
      BY <3>1, <1>1, <1>3, <1>8, <1>9, CommandCount DEF LogletInv, PositionsInv, Tail, Given
    <3>4. \A l, m \in Given' : seq'.position[l] = seq'.position[m] => l = m
      BY <3>1, <1>1, <1>3, <1>8, <1>9, CommandCount DEF LogletInv, PositionsInv, Tail, Given
    <3> QED BY <3>2, <3>3, <3>4 DEF PositionsInv
  <2> QED BY <2>1, <2>2
<1>11. Given \subseteq Given'
  BY <1>8
<1>12. k \in Given' /\ seq'.position[k] = p
  BY <1>1, <1>4, <1>8
<1>13. EntriesInv'
  <2>1. (\A s \in Server, q \in Position : entries[s][q] # NoCommand => Placed(entries[s][q], q))'
    BY <1>9, <1>11 DEF LogletInv, EntriesInv, Placed
  <2>2. (\A r \in msgs : r.type = "put" => Placed(r.command, r.position))'
    BY <1>4, <1>9, <1>11, <1>12 DEF LogletInv, EntriesInv, Put, Placed
  <2> QED BY <2>1, <2>2 DEF EntriesInv
<1>14. RoundInv'
  BY <1>4, <1>8 DEF RoundInv
<1>15. \A c \in Call : CallInv(call[c])'
  BY <1>9, <1>11, CallKept DEF LogletInv
<1> QED BY <1>4, <1>6, <1>7, <1>10, <1>13, <1>14, <1>15
LEMMA TailAfterType ==
  ASSUME TypeOK, NEW R \in SUBSET seq.replies
  PROVE  TailAfter(R) \in Tail
<1>1. {seq.tail} \cup Tails(R) \in SUBSET Tail
  BY DEF TypeOK, SequencerState, PutAnswer, Tails
<1> QED BY <1>1, HighestTail DEF TailAfter

\* Steps that change neither positions nor what is stored or on its way.
LEMMA SamePlaces ==
  ASSUME LogletInv, seq'.position = seq.position, seq'.next = seq.next,
         UNCHANGED <<entries, msgs, call>>
  PROVE  /\ Given' = Given
         /\ PositionsInv' /\ EntriesInv'
         /\ \A c \in Call : CallInv(call[c])'
<1>1. Given' = Given /\ PositionsInv'
  BY SamePositions DEF LogletInv
<1>2. EntriesInv'
  BY <1>1 DEF LogletInv, EntriesInv, Placed
<1>3. \A c \in Call : CallInv(call[c])'
  BY <1>1, CallKept DEF LogletInv
<1> QED BY <1>1, <1>2, <1>3

LEMMA AppendAgainStep ==
  ASSUME LogletInv, NEW k \in Command, AppendAgain(k)
  PROVE  LogletInv'
<1>1. UNCHANGED <<entries, seq, msgs, call>>
  BY DEF AppendAgain, servers, clients
<1>2. k \in Given
  BY DEF AppendAgain, Given
<1>3. Ack(k, seq.position[k], seq.tail) \in [command : Command, position : Position, known : Tail]
  BY <1>2, GivenPosition DEF LogletInv, TypeOK, SequencerState, Ack
<1>4. TypeOK'
  BY <1>3 DEF LogletInv, TypeOK, AppendAgain, servers, clients
<1>5. RoundInv'
  BY <1>1, SamePlaces DEF LogletInv, RoundInv
<1> QED BY <1>1, <1>4, <1>5, SamePlaces DEF LogletInv

LEMMA AppendStep ==
  ASSUME LogletInv, NEW k \in Command, Append(k)
  PROVE  LogletInv'
<1> DEFINE first == IF seq.pending = NoCommand THEN k ELSE seq.pending
<1>1. first \in Command
  BY DEF LogletInv, TypeOK, SequencerState
<1>2. seq = [seq EXCEPT !.tail = seq.tail] /\ seq.tail \in Tail
  BY DEF LogletInv, TypeOK, SequencerState
<1>3. Round([seq EXCEPT !.tail = seq.tail], first, PositionFor(seq, first), k)
  BY <1>2 DEF Append
<1>4. UNCHANGED <<servers, committed, acks, clients, crashes>>
  BY DEF Append
<1>5. /\ seq' \in SequencerState
      /\ msgs' \subseteq PutRequest \cup SealRequest \cup TrimRequest
      /\ stored' \subseteq Server
      /\ PositionsInv' /\ RoundInv' /\ EntriesInv'
      /\ \A c \in Call : CallInv(call[c])'
  <2>1. UNCHANGED <<entries, call>>
    BY <1>4 DEF servers, clients
  <2> HIDE DEF first
  <2> QED BY <1>1, <1>2, <1>3, <2>1, RoundStep
<1>6. TypeOK'
  BY <1>4, <1>5 DEF LogletInv, TypeOK, servers, clients
<1> QED BY <1>5, <1>6 DEF LogletInv

\* What a round that ends relies on.
LEMMA RoundEnd ==
  ASSUME LogletInv, seq.pc = "commit"
  PROVE  /\ seq.entry \in Command /\ seq.entry \in Given /\ seq.caller \in Command
         /\ seq.position[seq.entry] \in Position
         /\ seq.position[seq.entry] + 1 \in Tail
         /\ PositionFor(seq, seq.entry) = seq.position[seq.entry]
<1>1. seq.entry \in Given /\ seq.caller \in Command
  BY DEF LogletInv, RoundInv
<1> QED BY <1>1, GivenPosition, PositionTail DEF LogletInv, Given, Assigned, PositionFor

LEMMA AcknowledgeStep ==
  ASSUME LogletInv, Acknowledge
  PROVE  LogletInv'
<1> PICK R \in SUBSET seq.replies :
      /\ seq.pc = "commit" /\ seq.entry = seq.caller
      /\ StoredIn(R) \in Quorum /\ Contiguous(R)
      /\ seq' = [seq EXCEPT !.pc = "idle", !.tail = TailAfter(R) + 1, !.pending = NoCommand,
                   !.entry = NoCommand, !.caller = NoCommand, !.request = NoRequest, !.replies = {}]
      /\ stored' = {}
      /\ committed' = committed \cup {seq.position[seq.entry]}
      /\ acks' = acks \cup {Ack(seq.entry, seq.position[seq.entry], TailAfter(R) + 1)}
      /\ UNCHANGED <<servers, clients, msgs, crashes>>
  BY DEF Acknowledge
<1>1. TailAfter(R) + 1 \in Tail
  BY RoundEnd DEF Contiguous
<1>2. /\ seq' \in SequencerState
      /\ seq'.position = seq.position /\ seq'.next = seq.next /\ seq'.pc = "idle"
  BY <1>1 DEF LogletInv, TypeOK, SequencerState
<1>3. Ack(seq.entry, seq.position[seq.entry], TailAfter(R) + 1)
        \in [command : Command, position : Position, known : Tail]
  BY <1>1, RoundEnd DEF Ack
<1>4. TypeOK'
  BY <1>2, <1>3, RoundEnd DEF LogletInv, TypeOK, servers, clients
<1>5. RoundInv'
  BY <1>2 DEF RoundInv
<1>6. UNCHANGED <<entries, msgs, call>>
  BY DEF servers, clients
<1> QED BY <1>2, <1>4, <1>5, <1>6, SamePlaces DEF LogletInv

LEMMA CommitPendingStep ==
  ASSUME LogletInv, CommitPending
  PROVE  LogletInv'
<1> PICK R \in SUBSET seq.replies :
      /\ seq.pc = "commit" /\ Contiguous(R)
      /\ Round([seq EXCEPT !.tail = TailAfter(R) + 1], seq.caller, PositionFor(seq, seq.caller),
               seq.caller)
      /\ committed' = committed \cup {seq.position[seq.entry]}
      /\ UNCHANGED <<servers, acks, clients, crashes>>
  BY DEF CommitPending
<1>1. TailAfter(R) + 1 \in Tail /\ seq.caller \in Command
  BY RoundEnd DEF Contiguous
<1>2. UNCHANGED <<entries, call>>
  BY DEF servers, clients
<1>3. /\ seq' \in SequencerState
      /\ msgs' \subseteq PutRequest \cup SealRequest \cup TrimRequest
      /\ stored' \subseteq Server
      /\ PositionsInv' /\ RoundInv' /\ EntriesInv'
      /\ \A c \in Call : CallInv(call[c])'
  BY <1>1, <1>2, RoundStep
<1>4. TypeOK'
  BY <1>3, RoundEnd DEF LogletInv, TypeOK, servers, clients
<1> QED BY <1>3, <1>4 DEF LogletInv

\* The steps that end a round without a commit.
LEMMA StopStep ==
  ASSUME LogletInv, NEW tail \in Tail, Stop(tail),
         UNCHANGED <<servers, committed, acks, clients, crashes>>
  PROVE  LogletInv'
<1>1. /\ seq' \in SequencerState
      /\ seq'.position = seq.position /\ seq'.next = seq.next /\ seq'.pc = "idle"
      /\ stored' = {} /\ msgs' = msgs
  BY DEF LogletInv, TypeOK, SequencerState, Stop
<1>2. TypeOK'
  BY <1>1 DEF LogletInv, TypeOK, servers, clients
<1>3. RoundInv'
  BY <1>1 DEF RoundInv
<1>4. UNCHANGED <<entries, msgs, call>>
  BY <1>1 DEF servers, clients
<1> QED BY <1>1, <1>2, <1>3, <1>4, SamePlaces DEF LogletInv

LEMMA RetryStep ==
  ASSUME LogletInv, Retry
  PROVE  LogletInv'
<1> PICK R \in SUBSET seq.replies : RetryAfter(R)
  BY DEF Retry
<1>1. /\ seq.pc = "commit"
      /\ Round([seq EXCEPT !.tail = TailAfter(R)], seq.entry, seq.position[seq.entry], seq.caller)
      /\ UNCHANGED <<servers, committed, acks, clients, crashes>>
  BY DEF RetryAfter
<1>2. TailAfter(R) \in Tail
  BY TailAfterType DEF LogletInv
<1>3. UNCHANGED <<entries, call>>
  BY <1>1 DEF servers, clients
<1>4. /\ seq' \in SequencerState
      /\ msgs' \subseteq PutRequest \cup SealRequest \cup TrimRequest
      /\ stored' \subseteq Server
      /\ PositionsInv' /\ RoundInv' /\ EntriesInv'
      /\ \A c \in Call : CallInv(call[c])'
  BY <1>1, <1>2, <1>3, RoundEnd, RoundStep
<1>5. TypeOK'
  BY <1>1, <1>4 DEF LogletInv, TypeOK, servers, clients
<1> QED BY <1>4, <1>5 DEF LogletInv

LEMMA SequencerStep ==
  ASSUME LogletInv, Sequencer \/ Cancel
  PROVE  LogletInv'
<1>1. CASE NotContiguous
  BY <1>1, TailAfterType, StopStep DEF NotContiguous, LogletInv
<1>2. CASE SealedOut
  BY <1>2, TailAfterType, StopStep DEF SealedOut, LogletInv
<1>3. CASE Cancel
  BY <1>3, StopStep DEF Cancel, LogletInv, TypeOK, SequencerState
<1> QED BY <1>1, <1>2, <1>3, AcknowledgeStep, CommitPendingStep, RetryStep DEF Sequencer
-----------------------------------------------------------------------------
(* The LogServers.                                                         *)

LEMMA ObserveType ==
  ASSUME TypeOK, NEW s \in Server, NEW known \in Tail, Observe(s, known)
  PROVE  serverKnown' \in [Server -> Tail]
BY LargerTail DEF TypeOK, Observe

\* Entries that a step leaves alone, removes, or writes at their place.
LEMMA EntriesKept ==
  ASSUME LogletInv, seq'.position = seq.position, seq'.next = seq.next,
         \A r \in msgs' : r.type = "put" => r \in msgs,
         \A s \in Server, p \in Position :
           \/ entries'[s][p] \in {entries[s][p], NoCommand}
           \/ Placed(entries'[s][p], p)
  PROVE  /\ Given' = Given
         /\ PositionsInv' /\ EntriesInv'
<1>1. Given' = Given /\ PositionsInv'
  BY SamePositions DEF LogletInv
<1>2. (\A s \in Server, p \in Position : entries[s][p] # NoCommand => Placed(entries[s][p], p))'
  BY <1>1 DEF LogletInv, EntriesInv, Placed
<1>3. (\A r \in msgs : r.type = "put" => Placed(r.command, r.position))'
  BY <1>1 DEF LogletInv, EntriesInv, Placed
<1> QED BY <1>1, <1>2, <1>3 DEF EntriesInv

\* A write puts its command at one position of one server.
LEMMA WriteStep ==
  ASSUME TypeOK, NEW s \in Server, NEW q \in Position, NEW command \in Command,
         Write(s, q, command)
  PROVE  /\ entries' \in [Server -> [Position -> Command \cup {NoCommand}]]
         /\ \A u \in Server, p \in Position :
              \/ entries'[u][p] = entries[u][p]
              \/ p = q /\ entries'[u][p] = command
BY DEF TypeOK, Write

LEMMA HandlePutStep ==
  ASSUME LogletInv, NEW s \in Server, HandlePut(s)
  PROVE  LogletInv'
<1> PICK r \in msgs :
      /\ r.type = "put"
      /\ Observe(s, r.known)
      /\ IF Accepts(s, r)
           THEN /\ Write(s, r.position, r.command)
                /\ stored' = IF Awaited(s, r) THEN stored \cup {s} ELSE stored
                /\ UNCHANGED seq
           ELSE /\ UNCHANGED <<entries, stored>>
                /\ seq' = [seq EXCEPT !.replies = IF Awaited(s, r)
                     THEN @ \cup {[from |-> s, kind |-> IF s \in sealed THEN "sealed" ELSE "refused",
                                   tail |-> 0]}
                     ELSE @]
      /\ UNCHANGED <<sealed, trimmed, committed, acks, clients, msgs, crashes>>
  BY DEF HandlePut
<1>1. r \in PutRequest
  BY DEF LogletInv, TypeOK, SealRequest, TrimRequest
<1>2. serverKnown' \in [Server -> Tail]
  BY <1>1, ObserveType DEF LogletInv, PutRequest
<1>3. /\ entries' \in [Server -> [Position -> Command \cup {NoCommand}]]
      /\ \A u \in Server, p \in Position :
           \/ entries'[u][p] = entries[u][p]
           \/ p = r.position /\ entries'[u][p] = r.command
  <2>1. CASE Accepts(s, r)
    BY <2>1, <1>1, WriteStep DEF LogletInv, PutRequest
  <2>2. CASE ~Accepts(s, r)
    BY <2>2 DEF LogletInv, TypeOK
  <2> QED BY <2>1, <2>2
<1>4. stored' \subseteq Server
  BY DEF LogletInv, TypeOK
<1>5. /\ seq' \in SequencerState
      /\ seq'.position = seq.position /\ seq'.next = seq.next
      /\ seq'.pc = seq.pc /\ seq'.entry = seq.entry /\ seq'.caller = seq.caller
  <2>1. CASE Accepts(s, r)
    BY <2>1 DEF LogletInv, TypeOK
  <2>2. CASE ~Accepts(s, r)
    <3> DEFINE answer == [from |-> s, kind |-> IF s \in sealed THEN "sealed" ELSE "refused",
                          tail |-> 0]
               heard == IF Awaited(s, r) THEN seq.replies \cup {answer} ELSE seq.replies
    <3>1. answer \in PutAnswer
      BY CommandCount DEF PutAnswer, Tail
    <3>2. seq' = [seq EXCEPT !.replies = heard]
      BY <2>2
    <3>3. seq \in SequencerState
      BY DEF LogletInv, TypeOK
    <3>4. heard \in SUBSET PutAnswer
      BY <3>1, <3>3 DEF SequencerState
    <3> HIDE DEF heard
    <3> QED BY <3>2, <3>3, <3>4 DEF SequencerState
  <2> QED BY <2>1, <2>2
<1>6. TypeOK'
  BY <1>2, <1>3, <1>4, <1>5 DEF LogletInv, TypeOK, clients
<1>7. Placed(r.command, r.position)
  BY DEF LogletInv, EntriesInv
<1>8. Given' = Given /\ PositionsInv' /\ EntriesInv'
  BY <1>3, <1>5, <1>7, EntriesKept
<1>9. RoundInv'
  BY <1>5, <1>8 DEF LogletInv, RoundInv
<1>10. \A c \in Call : CallInv(call[c])'
  BY <1>5, <1>8, CallKept DEF LogletInv, clients
<1> QED BY <1>6, <1>8, <1>9, <1>10 DEF LogletInv

LEMMA AnswerPutStep ==
  ASSUME LogletInv, NEW s \in Server, AnswerPut(s)
  PROVE  LogletInv'
<1>1. [from |-> s, kind |-> "stored", tail |-> serverKnown[s]] \in PutAnswer
  BY DEF LogletInv, TypeOK, PutAnswer
<1>2. /\ seq' \in SequencerState
      /\ seq'.position = seq.position /\ seq'.next = seq.next
      /\ seq'.pc = seq.pc /\ seq'.entry = seq.entry /\ seq'.caller = seq.caller
  BY <1>1 DEF LogletInv, TypeOK, SequencerState, AnswerPut
<1>3. TypeOK'
  BY <1>2 DEF LogletInv, TypeOK, AnswerPut, servers, clients
<1>4. UNCHANGED <<entries, msgs, call>>
  BY DEF AnswerPut, servers, clients
<1>5. Given' = Given /\ PositionsInv' /\ EntriesInv' /\ \A c \in Call : CallInv(call[c])'
  BY <1>2, <1>4, SamePlaces
<1>6. RoundInv'
  BY <1>2, <1>5 DEF LogletInv, RoundInv
<1> QED BY <1>3, <1>5, <1>6 DEF LogletInv

\* What an answer changes.
LEMMA AnswerEffect ==
  ASSUME LogletInv, NEW c \in Call, NEW pc \in {"seal", "trim"}, NEW known,
         NEW reply \in ServerAnswer, Answer(c, pc, known, reply)
  PROVE  /\ call' \in [Call -> CallState]
         /\ \A d \in Call \ {c} : call'[d] = call[d]
         /\ \/ call'[c] = call[c]
            \/ /\ call[c].pc = pc
               /\ call'[c] = [call[c] EXCEPT !.replies = @ \cup {reply}]
<1> DEFINE awaited == /\ call[c].pc = pc /\ call[c].asked = known
                      /\ reply.from \notin Froms(call[c].replies)
           heard == IF awaited THEN call[c].replies \cup {reply} ELSE call[c].replies
           answered == [call[c] EXCEPT !.replies = heard]
<1>1. call' = [call EXCEPT ![c] = answered]
  BY DEF Answer
<1>2. call[c] \in CallState /\ call \in [Call -> CallState]
  BY DEF LogletInv, TypeOK
<1>3. heard \in SUBSET (ServerAnswer \cup ServerState)
  BY <1>2 DEF CallState
<1>4. answered \in CallState
  BY <1>2, <1>3 DEF CallState
<1>5. ~awaited => answered = call[c]
  BY <1>2 DEF CallState
<1>6. awaited => call[c].pc = pc /\ answered = [call[c] EXCEPT !.replies = @ \cup {reply}]
  OBVIOUS
<1> HIDE DEF answered, awaited
<1> QED BY <1>1, <1>2, <1>4, <1>5, <1>6

\* A call takes note of a server's answer to its seal or trim.
LEMMA AnswerStep ==
  ASSUME LogletInv, NEW c \in Call, NEW pc \in {"seal", "trim"}, NEW known,
         NEW reply \in ServerAnswer, Answer(c, pc, known, reply), UNCHANGED seq
  PROVE  /\ call' \in [Call -> CallState]
         /\ \A d \in Call : CallInv(call[d])'
<1>1. /\ call' \in [Call -> CallState]
      /\ \A d \in Call \ {c} : call'[d] = call[d]
      /\ \/ call'[c] = call[c]
         \/ /\ call[c].pc = pc
            /\ call'[c] = [call[c] EXCEPT !.replies = @ \cup {reply}]
  BY AnswerEffect
<1>2. Given' = Given
  BY DEF Given, Assigned
<1>3. CallInv(call[c])'
  <2>1. CASE call'[c] = call[c]
    BY <2>1, <1>2, CallKept DEF LogletInv
  <2>2. CASE call[c].pc = pc /\ call'[c] = [call[c] EXCEPT !.replies = @ \cup {reply}]
    <3>1. /\ call'[c].pc = call[c].pc /\ call'[c].position = call[c].position
          /\ call'[c].tail = call[c].tail /\ call'[c].copies = call[c].copies
      BY <2>2 DEF LogletInv, TypeOK, CallState
    <3> QED BY <2>2, <3>1, <1>2 DEF LogletInv, CallInv, Placed
  <2> QED BY <1>1, <2>1, <2>2
<1> QED BY <1>1, <1>2, <1>3, CallKept DEF LogletInv

LEMMA HandleSealStep ==
  ASSUME LogletInv, NEW s \in Server, HandleSeal(s)
  PROVE  LogletInv'
<1> PICK r \in msgs :
      /\ r.type = "seal"
      /\ sealed' = sealed \cup {s}
      /\ Observe(s, r.known)
      /\ Answer(r.by, "seal", r.known, [from |-> s, tail |-> Larger(serverKnown[s], r.known)])
      /\ UNCHANGED <<entries, trimmed, sequencer, clientKnown, clientTrim, msgs, crashes>>
  BY DEF HandleSeal
<1>1. r.by \in Call /\ r.known \in Tail
  BY DEF LogletInv, TypeOK, PutRequest, SealRequest, TrimRequest
<1>2. serverKnown' \in [Server -> Tail]
  BY <1>1, ObserveType DEF LogletInv
<1>3. [from |-> s, tail |-> Larger(serverKnown[s], r.known)] \in ServerAnswer
  BY <1>1, LargerTail DEF LogletInv, TypeOK, ServerAnswer
<1>4. seq' = seq
  BY DEF sequencer
<1>5. call' \in [Call -> CallState] /\ \A d \in Call : CallInv(call[d])'
  BY <1>1, <1>3, <1>4, AnswerStep
<1>6. TypeOK'
  BY <1>2, <1>5 DEF LogletInv, TypeOK, sequencer
<1>7. Given' = Given /\ PositionsInv' /\ EntriesInv'
  BY <1>4, EntriesKept DEF LogletInv, TypeOK
<1>8. RoundInv'
  BY <1>4, <1>7 DEF LogletInv, RoundInv
<1> QED BY <1>5, <1>6, <1>7, <1>8 DEF LogletInv

LEMMA HandleTrimStep ==
  ASSUME LogletInv, NEW s \in Server, HandleTrim(s)
  PROVE  LogletInv'
<1> PICK r \in msgs :
      /\ r.type = "prefix_trim"
      /\ LET watermark == Larger(trimmed[s], r.position)
         IN  /\ trimmed' = [trimmed EXCEPT ![s] = watermark]
             /\ entries' = [entries EXCEPT ![s] =
                  [p \in Position |-> IF p < watermark THEN NoCommand ELSE entries[s][p]]]
             /\ Answer(r.by, "trim", r.position, [from |-> s, tail |-> watermark])
      /\ UNCHANGED <<sealed, serverKnown, sequencer, clientKnown, clientTrim, msgs, crashes>>
  BY DEF HandleTrim
<1> DEFINE watermark == Larger(trimmed[s], r.position)
<1>1. r.by \in Call /\ r.position \in Tail
  BY DEF LogletInv, TypeOK, PutRequest, SealRequest, TrimRequest
<1>2. watermark \in Tail
  BY <1>1, LargerTail DEF LogletInv, TypeOK
<1>3. [from |-> s, tail |-> watermark] \in ServerAnswer
  BY <1>2 DEF ServerAnswer
<1>4. seq' = seq
  BY DEF sequencer
<1>5. call' \in [Call -> CallState] /\ \A d \in Call : CallInv(call[d])'
  BY <1>1, <1>3, <1>4, AnswerStep
<1>6. /\ trimmed' \in [Server -> Tail]
      /\ entries' \in [Server -> [Position -> Command \cup {NoCommand}]]
      /\ \A u \in Server, p \in Position : entries'[u][p] \in {entries[u][p], NoCommand}
  BY <1>2 DEF LogletInv, TypeOK
<1>7. TypeOK'
  BY <1>5, <1>6 DEF LogletInv, TypeOK, sequencer
<1>8. Given' = Given /\ PositionsInv' /\ EntriesInv'
  BY <1>4, <1>6, EntriesKept
<1>9. RoundInv'
  BY <1>4, <1>8 DEF LogletInv, RoundInv
<1> QED BY <1>5, <1>7, <1>8, <1>9 DEF LogletInv

LEMMA RestartStep ==
  ASSUME LogletInv, NEW s \in Server, Restart(s)
  PROVE  LogletInv'
<1>1. /\ seq' \in SequencerState
      /\ seq'.position = seq.position /\ seq'.next = seq.next
      /\ seq'.pc = "commit" => seq' = seq
  BY DEF LogletInv, TypeOK, SequencerState, Restart
<1>2. /\ call' \in [Call -> CallState]
      /\ \A c \in Call : call'[c] = [call[c] EXCEPT !.rows = {r \in @ : r.from # s}]
  <2>1. call' = [c \in Call |-> [call[c] EXCEPT !.rows = {r \in @ : r.from # s}]]
    BY DEF Restart
  <2>2. ASSUME NEW c \in Call
        PROVE  [call[c] EXCEPT !.rows = {r \in @ : r.from # s}] \in CallState
    <3> DEFINE rows == {r \in call[c].rows : r.from # s}
    <3>1. call[c] \in CallState
      BY DEF LogletInv, TypeOK
    <3>2. rows \in SUBSET [from : Server, sealed : BOOLEAN, trimmed : Tail]
      BY <3>1 DEF CallState
    <3>3. [call[c] EXCEPT !.rows = rows] \in CallState
      <4> HIDE DEF rows
      <4> QED BY <3>1, <3>2 DEF CallState
    <3> QED BY <3>3
  <2> QED BY <2>1, <2>2
<1>3. serverKnown' \in [Server -> Tail] /\ stored' \subseteq Server /\ crashes' \in 0..MaxCrashes
  BY CommandCount, BoundAssumption DEF LogletInv, TypeOK, Restart, Tail
<1>4. TypeOK'
  BY <1>1, <1>2, <1>3 DEF LogletInv, TypeOK, Restart
<1>5. Given' = Given /\ PositionsInv' /\ EntriesInv'
  BY <1>1, EntriesKept DEF Restart
<1>6. RoundInv'
  BY <1>1, <1>5 DEF LogletInv, RoundInv
<1>7. ASSUME NEW c \in Call PROVE CallInv(call[c])'
  <2>1. /\ call'[c].pc = call[c].pc /\ call'[c].position = call[c].position
        /\ call'[c].tail = call[c].tail /\ call'[c].copies = call[c].copies
        /\ call'[c].replies = call[c].replies
    BY <1>2 DEF LogletInv, TypeOK, CallState
  <2> QED BY <2>1, <1>1, <1>5 DEF LogletInv, CallInv, Placed
<1> QED BY <1>4, <1>5, <1>6, <1>7 DEF LogletInv
-----------------------------------------------------------------------------
(* The clients.                                                            *)

LEMMA QuorumNonempty ==
  ASSUME NEW Q \in Quorum
  PROVE  Q # {}
<1>1. Cardinality(Server) \in Nat
  BY ServerAssumption, FS_CardinalityType
<1>2. Cardinality(Server) \div 2 + 1 > 0
  BY <1>1
<1>3. Cardinality({}) = 0
  BY FS_EmptySet
<1>4. Cardinality(Q) >= Cardinality(Server) \div 2 + 1
  BY DEF Quorum
<1> QED BY <1>1, <1>2, <1>3, <1>4

\* A step of one call keeps the invariant if the call's new state is coherent and
\* the step writes copies only at their place.
LEMMA ClientStep ==
  ASSUME LogletInv, NEW c \in Call, NEW state \in CallState, CallInv(state), Goto(c, state),
         UNCHANGED <<sealed, trimmed, sequencer, crashes>>,
         serverKnown' \in [Server -> Tail],
         clientKnown' \in [Client -> Tail],
         clientTrim' \in [Client -> Tail],
         msgs' \subseteq msgs \cup SealRequest \cup TrimRequest,
         entries' \in [Server -> [Position -> Command \cup {NoCommand}]],
         \A s \in Server, p \in Position :
           entries'[s][p] = entries[s][p] \/ Placed(entries'[s][p], p)
  PROVE  LogletInv'
<1>1. UNCHANGED <<seq, stored, committed, acks>>
  BY DEF sequencer
<1>2. /\ call' \in [Call -> CallState]
      /\ call'[c] = state
      /\ \A d \in Call \ {c} : call'[d] = call[d]
  BY CallStep DEF LogletInv
<1>3. TypeOK'
  BY <1>1, <1>2 DEF LogletInv, TypeOK
<1>4. \A r \in msgs' : r.type = "put" => r \in msgs
  BY DEF SealRequest, TrimRequest
<1>5. Given' = Given /\ PositionsInv' /\ EntriesInv'
  BY <1>1, <1>4, EntriesKept
<1>6. RoundInv'
  BY <1>1, <1>5 DEF LogletInv, RoundInv
<1>7. ASSUME NEW d \in Call PROVE CallInv(call[d])'
  <2>1. CASE d = c
    BY <2>1, <1>1, <1>2, <1>5 DEF CallInv, Placed
  <2>2. CASE d # c
    BY <2>2, <1>1, <1>2, <1>5, CallKept DEF LogletInv
  <2> QED BY <2>1, <2>2
<1> QED BY <1>3, <1>5, <1>6, <1>7 DEF LogletInv

\* The same for a step that touches no server.
LEMMA LocalStep ==
  ASSUME LogletInv, NEW c \in Call, NEW state \in CallState, CallInv(state), Goto(c, state),
         UNCHANGED <<servers, sequencer, crashes>>,
         clientKnown' \in [Client -> Tail],
         clientTrim' \in [Client -> Tail],
         msgs' \subseteq msgs \cup SealRequest \cup TrimRequest
  PROVE  LogletInv'
<1>1. UNCHANGED <<entries, sealed, trimmed, serverKnown>>
  BY DEF servers
<1>2. serverKnown \in [Server -> Tail] /\ entries \in [Server -> [Position -> Command \cup {NoCommand}]]
  BY DEF LogletInv, TypeOK
<1> QED BY <1>1, <1>2, ClientStep

\* What the invariant says of one call.
LEMMA CallType ==
  ASSUME LogletInv, NEW c \in Call
  PROVE  call[c] \in CallState /\ CallInv(call[c]) /\ call[c].client \in Client /\ Known(c) \in Tail
<1>1. call[c] \in CallState /\ CallInv(call[c]) /\ clientKnown \in [Client -> Tail]
  BY DEF LogletInv, TypeOK
<1>2. call[c].client \in Client
  BY <1>1 DEF CallState
<1> QED BY <1>1, <1>2 DEF Known

LEMMA LearnType ==
  ASSUME LogletInv, NEW client \in Client, NEW known \in Tail, LearnTail(client, known)
  PROVE  clientKnown' \in [Client -> Tail]
BY LargerTail DEF LogletInv, TypeOK, LearnTail

LEMMA SetKnownType ==
  ASSUME LogletInv, NEW c \in Call, NEW known \in Tail, SetKnown(c, known)
  PROVE  clientKnown' \in [Client -> Tail]
BY CallType, LearnType DEF SetKnown

LEMMA AppendReturnsStep ==
  ASSUME LogletInv, NEW client \in Client, AppendReturns(client)
  PROVE  LogletInv'
<1> PICK ack \in acks :
      /\ LearnTail(client, ack.known)
      /\ UNCHANGED <<servers, sequencer, clientTrim, call, msgs, crashes>>
  BY DEF AppendReturns
<1>1. ack.known \in Tail
  BY DEF LogletInv, TypeOK
<1>2. clientKnown' \in [Client -> Tail]
  BY <1>1, LearnType
<1>3. TypeOK'
  BY <1>2 DEF LogletInv, TypeOK, servers, sequencer
<1>4. UNCHANGED <<entries, seq, msgs, call>>
  BY DEF servers, sequencer
<1>5. Given' = Given /\ PositionsInv' /\ EntriesInv' /\ \A c \in Call : CallInv(call[c])'
  BY <1>4, SamePlaces
<1>6. RoundInv'
  BY <1>4, <1>5 DEF LogletInv, RoundInv
<1> QED BY <1>3, <1>5, <1>6 DEF LogletInv

\* The tails that callers were told of are tails.
LEMMA ReportedTails ==
  ASSUME TypeOK
  PROVE  Reported \in SUBSET Tail /\ Reported # {}
<1>1. 0 \in Tail
  BY CommandCount DEF Tail
<1>2. \A a \in acks : a.position + 1 \in Tail
  BY PositionTail DEF TypeOK
<1>3. \A d \in Call : call[d].result.kind = "tail" => call[d].result.tail \in Tail
  <2>1. \A d \in Call : call[d].result \in CallResult
    BY DEF TypeOK, CallState
  <2>2. \A r \in CallResult : r.kind = "tail" => r.tail \in Tail
    BY DEF CallResult, NoResult
  <2> QED BY <2>1, <2>2
<1> QED BY <1>1, <1>2, <1>3 DEF Reported

LEMMA ReportedType ==
  ASSUME TypeOK
  PROVE  Highest(Reported) \in Tail
BY ReportedTails, HighestTail

\* A call that starts or ends holds no copies and no states.
LEMMA NewCallInv ==
  ASSUME NEW pc \in {"seal", "trim", "done", "failed"}, NEW op, NEW client, NEW floor
  PROVE  CallInv(NewCall(pc, op, client, floor))
BY DEF CallInv, NewCall

\* A call goes on, or begins, to read the states.
LEMMA ReadingType ==
  ASSUME NEW state \in CallState, NEW known \in Tail, state.copies = {}
  PROVE  Reading(state, known) \in CallState /\ CallInv(Reading(state, known))
<1>1. Reading(state, known) \in CallState
  <2> DEFINE a == [state EXCEPT !.pc = "state", !.asked = known]
             b == [a EXCEPT !.rows = {}, !.replies = {}]
  <2>1. a \in CallState
    BY DEF CallState
  <2>2. b \in CallState
    <3> HIDE DEF a
    <3> QED BY <2>1 DEF CallState
  <2>3. [b EXCEPT !.tail = 0] \in CallState
    <3>1. 0 \in Tail
      BY CommandCount DEF Tail
    <3> HIDE DEF b
    <3> QED BY <2>2, <3>1 DEF CallState
  <2>4. Reading(state, known) = [b EXCEPT !.tail = 0]
    BY DEF Reading, CallState
  <2> QED BY <2>3, <2>4
<1>2. /\ Reading(state, known).pc = "state" /\ Reading(state, known).replies = {}
      /\ Reading(state, known).copies = {}
  BY DEF Reading, CallState
<1> QED BY <1>1, <1>2 DEF CallInv

LEMMA StartSealStep ==
  ASSUME LogletInv, NEW c \in Call, StartSeal(c)
  PROVE  LogletInv'
<1> PICK client \in Client :
      /\ Goto(c, [NewCall("seal", "seal", client, 0) EXCEPT !.asked = clientKnown[client]])
      /\ msgs' = msgs \cup {[type |-> "seal", by |-> c, known |-> clientKnown[client]]}
      /\ UNCHANGED <<servers, sequencer, clientKnown, clientTrim, crashes>>
  BY DEF StartSeal
<1> DEFINE new == NewCall("seal", "seal", client, 0)
           state == [new EXCEPT !.asked = clientKnown[client]]
<1>1. clientKnown[client] \in Tail /\ 0 \in Tail
  BY CommandCount DEF LogletInv, TypeOK, Tail
<1>2. new \in CallState
  BY <1>1, NewCallType
<1>3. state \in CallState
  <2> HIDE DEF new
  <2> QED BY <1>1, <1>2 DEF CallState
<1>4. CallInv(state)
  BY DEF CallInv, NewCall
<1>5. [type |-> "seal", by |-> c, known |-> clientKnown[client]] \in SealRequest
  BY <1>1 DEF SealRequest
<1>6. clientKnown \in [Client -> Tail] /\ clientTrim \in [Client -> Tail]
  BY DEF LogletInv, TypeOK
<1> HIDE DEF state
<1> QED BY <1>3, <1>4, <1>5, <1>6, LocalStep DEF state

LEMMA StartCheckTailStep ==
  ASSUME LogletInv, NEW c \in Call, StartCheckTail(c)
  PROVE  LogletInv'
<1> PICK client \in Client :
      /\ Goto(c, Reading(NewCall("state", "check_tail", client, Highest(Reported)),
                         clientKnown[client]))
      /\ UNCHANGED <<servers, sequencer, clientKnown, clientTrim, msgs, crashes>>
  BY DEF StartCheckTail
<1> DEFINE new == NewCall("state", "check_tail", client, Highest(Reported))
<1>1. clientKnown[client] \in Tail
  BY DEF LogletInv, TypeOK
<1>2. new \in CallState
  BY ReportedType, NewCallType DEF LogletInv
<1>3. new.copies = {}
  BY DEF NewCall
<1>4. Reading(new, clientKnown[client]) \in CallState /\ CallInv(Reading(new, clientKnown[client]))
  BY <1>1, <1>2, <1>3, ReadingType
<1>5. clientKnown \in [Client -> Tail] /\ clientTrim \in [Client -> Tail]
  BY DEF LogletInv, TypeOK
<1> QED BY <1>4, <1>5, LocalStep

LEMMA StartTrimStep ==
  ASSUME LogletInv, NEW c \in Call, StartTrim(c)
  PROVE  LogletInv'
<1> PICK client \in Client : \E position \in 1..clientKnown[client] :
      /\ Goto(c, [NewCall("trim", "prefix_trim", client, 0) EXCEPT !.asked = position])
      /\ msgs' = msgs \cup {[type |-> "prefix_trim", by |-> c, position |-> position]}
      /\ UNCHANGED <<servers, sequencer, clientKnown, clientTrim, crashes>>
  BY DEF StartTrim
<1> PICK position \in 1..clientKnown[client] :
      /\ Goto(c, [NewCall("trim", "prefix_trim", client, 0) EXCEPT !.asked = position])
      /\ msgs' = msgs \cup {[type |-> "prefix_trim", by |-> c, position |-> position]}
      /\ UNCHANGED <<servers, sequencer, clientKnown, clientTrim, crashes>>
  OBVIOUS
<1> DEFINE new == NewCall("trim", "prefix_trim", client, 0)
           state == [new EXCEPT !.asked = position]
<1>1. position \in Tail /\ 0 \in Tail
  <2>1. clientKnown[client] \in Tail
    BY DEF LogletInv, TypeOK
  <2> QED BY <2>1, CommandCount DEF Tail
<1>2. new \in CallState
  BY <1>1, NewCallType
<1>3. state \in CallState
  <2> HIDE DEF new
  <2> QED BY <1>1, <1>2 DEF CallState
<1>4. CallInv(state)
  BY DEF CallInv, NewCall
<1>5. [type |-> "prefix_trim", by |-> c, position |-> position] \in TrimRequest
  BY <1>1 DEF TrimRequest
<1>6. clientKnown \in [Client -> Tail] /\ clientTrim \in [Client -> Tail]
  BY DEF LogletInv, TypeOK
<1> HIDE DEF state
<1> QED BY <1>3, <1>4, <1>5, <1>6, LocalStep DEF state

\* The call of an operation that failed.
LEMMA FailedType ==
  ASSUME LogletInv, NEW c \in Call
  PROVE  /\ NewCall("failed", call[c].op, call[c].client, 0) \in CallState
         /\ CallInv(NewCall("failed", call[c].op, call[c].client, 0))
<1>1. call[c].op \in {"none", "seal", "check_tail", "prefix_trim"} /\ call[c].client \in Client
  BY CallType DEF CallState
<1>2. 0 \in Tail
  BY CommandCount DEF Tail
<1> QED BY <1>1, <1>2, NewCallType, NewCallInv

LEMMA GiveUpStep ==
  ASSUME LogletInv, NEW c \in Call, GiveUp(c)
  PROVE  LogletInv'
<1>1. clientKnown \in [Client -> Tail] /\ clientTrim \in [Client -> Tail]
  BY DEF LogletInv, TypeOK
<1> QED BY <1>1, FailedType, LocalStep DEF GiveUp

\* What the answers to a seal or a trim tell.
LEMMA AnswerTails ==
  ASSUME LogletInv, NEW c \in Call, NEW R \in SUBSET call[c].replies
  PROVE  /\ Tails(R) \in SUBSET Tail
         /\ Highest({Known(c)} \cup Tails(R)) \in Tail
<1>1. \A r \in R : r.tail \in Tail
  BY CallType DEF CallState, ServerAnswer, ServerState
<1>2. Tails(R) \in SUBSET Tail
  BY <1>1 DEF Tails
<1> QED BY <1>2, CallType, HighestTail

\* A call that ends with a result.
LEMMA DoneType ==
  ASSUME NEW op \in {"none", "seal", "check_tail", "prefix_trim"}, NEW client \in Client,
         NEW floor \in Tail, NEW result \in CallResult
  PROVE  /\ [NewCall("done", op, client, floor) EXCEPT !.result = result] \in CallState
         /\ CallInv([NewCall("done", op, client, floor) EXCEPT !.result = result])
<1> DEFINE new == NewCall("done", op, client, floor)
<1>1. new \in CallState
  BY NewCallType
<1>2. [new EXCEPT !.result = result] \in CallState
  <2> HIDE DEF new
  <2> QED BY <1>1 DEF CallState
<1>3. CallInv([new EXCEPT !.result = result])
  BY DEF CallInv, NewCall
<1> QED BY <1>2, <1>3

LEMMA EndSealStep ==
  ASSUME LogletInv, NEW c \in Call, EndSeal(c)
  PROVE  LogletInv'
<1> PICK R \in SUBSET call[c].replies :
      /\ call[c].pc = "seal"
      /\ SetKnown(c, Highest({Known(c)} \cup Tails(R)))
      /\ Goto(c, IF call[c].op = "seal"
                   THEN [NewCall("done", "seal", call[c].client, 0) EXCEPT
                           !.result = [kind |-> "sealed"]]
                   ELSE Reading(call[c], Highest({Known(c)} \cup Tails(R))))
      /\ UNCHANGED <<servers, sequencer, clientTrim, msgs, crashes>>
  BY DEF EndSeal
<1> DEFINE known == Highest({Known(c)} \cup Tails(R))
           done == [NewCall("done", "seal", call[c].client, 0) EXCEPT !.result = [kind |-> "sealed"]]
<1>1. known \in Tail
  BY AnswerTails
<1>2. clientKnown' \in [Client -> Tail]
  BY <1>1, SetKnownType
<1>3. clientTrim' \in [Client -> Tail]
  BY DEF LogletInv, TypeOK
<1>4. [kind |-> "sealed"] \in CallResult /\ 0 \in Tail
  BY CommandCount DEF CallResult, Tail
<1>5. done \in CallState /\ CallInv(done)
  BY <1>4, CallType, DoneType
<1>6. Reading(call[c], known) \in CallState /\ CallInv(Reading(call[c], known))
  <2>1. call[c].copies = {}
    BY CallType DEF CallInv
  <2> QED BY <2>1, <1>1, CallType, ReadingType
<1> HIDE DEF done, known
<1> QED BY <1>2, <1>3, <1>5, <1>6, LocalStep DEF done, known

LEMMA SealFailsStep ==
  ASSUME LogletInv, NEW c \in Call, SealFails(c)
  PROVE  LogletInv'
<1> PICK R \in SUBSET call[c].replies :
      /\ SetKnown(c, Highest({Known(c)} \cup Tails(R)))
      /\ Goto(c, NewCall("failed", call[c].op, call[c].client, 0))
      /\ UNCHANGED <<servers, sequencer, clientTrim, msgs, crashes>>
  BY DEF SealFails
<1>1. clientKnown' \in [Client -> Tail]
  BY AnswerTails, SetKnownType
<1>2. clientTrim' \in [Client -> Tail]
  BY DEF LogletInv, TypeOK
<1> QED BY <1>1, <1>2, FailedType, LocalStep

LEMMA EndTrimStep ==
  ASSUME LogletInv, NEW c \in Call, EndTrim(c)
  PROVE  LogletInv'
<1> PICK R \in SUBSET call[c].replies :
      /\ Froms(R) \in Quorum
      /\ clientTrim' = [clientTrim EXCEPT ![call[c].client] = Larger(@, Lowest(Tails(R)))]
      /\ Goto(c, [NewCall("done", "prefix_trim", call[c].client, 0) EXCEPT
                    !.result = [kind |-> "trimmed"]])
      /\ UNCHANGED <<servers, sequencer, clientKnown, msgs, crashes>>
  BY DEF EndTrim
<1>1. Tails(R) \in SUBSET Tail /\ Tails(R) # {}
  BY AnswerTails, QuorumNonempty DEF Froms, Tails
<1>2. Lowest(Tails(R)) \in Tail
  BY <1>1, LowestTail
<1>3. clientTrim' \in [Client -> Tail] /\ clientKnown' \in [Client -> Tail]
  BY <1>2, CallType, LargerTail DEF LogletInv, TypeOK
<1>4. [kind |-> "trimmed"] \in CallResult /\ 0 \in Tail
  BY CommandCount DEF CallResult, Tail
<1>5. call[c].client \in Client
  BY CallType
<1> QED BY <1>3, <1>4, <1>5, DoneType, LocalStep
\* What a query of the segment's row returns, and the state made of it.
LEMMA StateType ==
  ASSUME TypeOK, NEW s \in Server, NEW known \in Tail,
         NEW row \in [from : Server, sealed : BOOLEAN, trimmed : Tail]
  PROVE  StateOf(s, row, known) \in ServerState
BY LocalTailType DEF StateOf, ServerState

LEMMA RowType ==
  ASSUME TypeOK, NEW s \in Server
  PROVE  RowOf(s) \in [from : Server, sealed : BOOLEAN, trimmed : Tail]
BY DEF RowOf, TypeOK

\* A call that is asking for states, with one more row or state.
LEMMA AskingType ==
  ASSUME LogletInv, NEW c \in Call, call[c].pc = "state",
         NEW rows \in SUBSET [from : Server, sealed : BOOLEAN, trimmed : Tail],
         NEW replies \in SUBSET ServerState
  PROVE  /\ [call[c] EXCEPT !.rows = rows, !.replies = replies] \in CallState
         /\ CallInv([call[c] EXCEPT !.rows = rows, !.replies = replies])
<1>1. call[c] \in CallState /\ CallInv(call[c])
  BY CallType
<1>2. [call[c] EXCEPT !.rows = rows, !.replies = replies] \in CallState
  BY <1>1 DEF CallState
<1>3. CallInv([call[c] EXCEPT !.rows = rows, !.replies = replies])
  BY <1>1 DEF CallInv, CallState
<1> QED BY <1>2, <1>3

LEMMA AskingParts ==
  ASSUME LogletInv, NEW c \in Call, call[c].pc = "state"
  PROVE  /\ call[c].rows \in SUBSET [from : Server, sealed : BOOLEAN, trimmed : Tail]
         /\ call[c].replies \in SUBSET ServerState
         /\ call[c].asked \in Tail
BY CallType DEF CallState, CallInv

LEMMA ReadStateStep ==
  ASSUME LogletInv, NEW c \in Call, NEW s \in Server, ReadState(c, s)
  PROVE  LogletInv'
<1> DEFINE known == Larger(serverKnown[s], call[c].asked)
           replies == call[c].replies \cup {StateOf(s, RowOf(s), known)}
           state == [call[c] EXCEPT !.rows = call[c].rows, !.replies = replies]
<1>1. call[c].pc = "state" /\ TypeOK /\ call[c] \in CallState
  BY CallType DEF ReadState, Unread, LogletInv
<1>2. call[c].asked \in Tail /\ known \in Tail
  BY <1>1, AskingParts, LargerTail DEF TypeOK
<1>3. replies \in SUBSET ServerState
  BY <1>1, <1>2, RowType, StateType, AskingParts
<1>4. state \in CallState /\ CallInv(state)
  BY <1>1, <1>3, AskingType, AskingParts
<1>5. state = [call[c] EXCEPT !.replies = @ \cup {StateOf(s, RowOf(s), known)}]
  BY <1>1 DEF CallState
<1>6. Goto(c, state)
  BY <1>5 DEF ReadState
<1>7. serverKnown' \in [Server -> Tail]
  BY <1>1, <1>2, ObserveType DEF ReadState
<1>8. UNCHANGED <<entries, sealed, trimmed, sequencer, clientKnown, clientTrim, msgs, crashes>>
  BY DEF ReadState
<1>9. clientKnown' \in [Client -> Tail] /\ clientTrim' \in [Client -> Tail]
      /\ entries' \in [Server -> [Position -> Command \cup {NoCommand}]]
  BY <1>1, <1>8 DEF TypeOK
<1> HIDE DEF state
<1> QED BY <1>4, <1>6, <1>7, <1>8, <1>9, ClientStep

LEMMA ReadRowStep ==
  ASSUME LogletInv, NEW c \in Call, NEW s \in Server, ReadRow(c, s)
  PROVE  LogletInv'
<1> DEFINE rows == call[c].rows \cup {RowOf(s)}
           state == [call[c] EXCEPT !.rows = rows, !.replies = call[c].replies]
<1>1. call[c].pc = "state" /\ TypeOK /\ call[c] \in CallState
  BY CallType DEF ReadRow, Unread, LogletInv
<1>2. call[c].asked \in Tail
  BY <1>1, AskingParts
<1>3. rows \in SUBSET [from : Server, sealed : BOOLEAN, trimmed : Tail]
  BY <1>1, RowType, AskingParts
<1>4. state \in CallState /\ CallInv(state)
  BY <1>1, <1>3, AskingType, AskingParts
<1>5. state = [call[c] EXCEPT !.rows = @ \cup {RowOf(s)}]
  BY <1>1 DEF CallState
<1>6. Goto(c, state)
  BY <1>5 DEF ReadRow
<1>7. serverKnown' \in [Server -> Tail]
  BY <1>1, <1>2, ObserveType DEF ReadRow
<1>8. UNCHANGED <<entries, sealed, trimmed, sequencer, clientKnown, clientTrim, msgs, crashes>>
  BY DEF ReadRow
<1>9. clientKnown' \in [Client -> Tail] /\ clientTrim' \in [Client -> Tail]
      /\ entries' \in [Server -> [Position -> Command \cup {NoCommand}]]
  BY <1>1, <1>8 DEF TypeOK
<1> HIDE DEF state
<1> QED BY <1>4, <1>6, <1>7, <1>8, <1>9, ClientStep

LEMMA ReadLastStep ==
  ASSUME LogletInv, NEW c \in Call, NEW s \in Server, ReadLast(c, s)
  PROVE  LogletInv'
<1> PICK row \in call[c].rows :
      /\ call[c].pc = "state" /\ row.from = s
      /\ Goto(c, [call[c] EXCEPT !.rows = @ \ {row},
                                 !.replies = @ \cup {StateOf(s, row, serverKnown[s])}])
      /\ UNCHANGED <<servers, sequencer, clientKnown, clientTrim, msgs, crashes>>
  BY DEF ReadLast
<1> DEFINE rows == call[c].rows \ {row}
           replies == call[c].replies \cup {StateOf(s, row, serverKnown[s])}
           state == [call[c] EXCEPT !.rows = rows, !.replies = replies]
<1>1. TypeOK /\ call[c] \in CallState
  BY CallType DEF LogletInv
<1>2. serverKnown[s] \in Tail
  BY <1>1 DEF TypeOK
<1>3. rows \in SUBSET [from : Server, sealed : BOOLEAN, trimmed : Tail]
      /\ replies \in SUBSET ServerState
  BY <1>1, <1>2, StateType, AskingParts
<1>4. state \in CallState /\ CallInv(state)
  BY <1>3, AskingType
<1>5. Goto(c, state)
  BY <1>1 DEF CallState
<1>6. clientKnown' \in [Client -> Tail] /\ clientTrim' \in [Client -> Tail]
  BY <1>1 DEF TypeOK
<1> HIDE DEF state
<1> QED BY <1>4, <1>5, <1>6, LocalStep

\* What a client makes of the states of a quorum.
LEMMA StatesReadType ==
  ASSUME LogletInv, NEW c \in Call, NEW R \in SUBSET call[c].replies, StatesRead(c, R)
  PROVE  /\ clientTrim' \in [Client -> Tail]
         /\ clientTrim'[call[c].client] \in Tail
         /\ KnownAfter(c, R) \in Tail
         /\ Highest(Tails(R)) \in Tail
         /\ Froms(R) \in SUBSET Server
<1>1. R \in SUBSET ServerState
  BY AskingParts DEF StatesRead
<1>2. R # {}
  BY QuorumNonempty DEF StatesRead, Froms
<1>3. clientTrim \in [Client -> Tail] /\ clientTrim[call[c].client] \in Tail
      /\ call[c].client \in Client /\ Known(c) \in Tail
  BY CallType DEF LogletInv, TypeOK
<1>4. {clientTrim[call[c].client]} \cup {r.trimmed : r \in R} \in SUBSET Tail
  BY <1>1, <1>3 DEF ServerState
<1>5. Highest({clientTrim[call[c].client]} \cup {r.trimmed : r \in R}) \in Tail
  BY <1>4, HighestTail
<1>6. clientTrim' \in [Client -> Tail] /\ clientTrim'[call[c].client] \in Tail
  BY <1>3, <1>5 DEF StatesRead
<1>7. {Known(c)} \cup {r.known : r \in R} \in SUBSET Tail
  BY <1>1, <1>3 DEF ServerState
<1>8. KnownAfter(c, R) \in Tail
  BY <1>7, HighestTail DEF KnownAfter
<1>9. Tails(R) \in SUBSET Tail /\ Tails(R) # {}
  BY <1>1, <1>2 DEF ServerState, Tails
<1>10. Highest(Tails(R)) \in Tail
  BY <1>9, HighestTail
<1>11. Froms(R) \in SUBSET Server
  BY <1>1 DEF ServerState, Froms
<1> QED BY <1>6, <1>8, <1>10, <1>11
LEMMA SealRestStep ==
  ASSUME LogletInv, NEW c \in Call, SealRest(c)
  PROVE  LogletInv'
<1> PICK R \in SUBSET call[c].replies :
      /\ StatesRead(c, R)
      /\ SetKnown(c, KnownAfter(c, R))
      /\ msgs' = msgs \cup {[type |-> "seal", by |-> c, known |-> KnownAfter(c, R)]}
      /\ Goto(c, [call[c] EXCEPT !.pc = "seal", !.asked = KnownAfter(c, R), !.rows = {},
                    !.replies = {}])
      /\ UNCHANGED <<servers, sequencer, crashes>>
  BY DEF SealRest
<1> DEFINE known == KnownAfter(c, R)
           a == [call[c] EXCEPT !.pc = "seal", !.asked = known]
           state == [a EXCEPT !.rows = {}, !.replies = {}]
<1>1. known \in Tail /\ clientTrim' \in [Client -> Tail]
  BY StatesReadType
<1>2. clientKnown' \in [Client -> Tail]
  BY <1>1, SetKnownType
<1>3. [type |-> "seal", by |-> c, known |-> known] \in SealRequest
  BY <1>1 DEF SealRequest
<1>4. call[c] \in CallState /\ call[c].copies = {} /\ call[c].pc = "state"
  BY CallType DEF CallInv, StatesRead
<1> HIDE DEF known
<1>5. a \in CallState /\ a.pc = "seal" /\ a.copies = {}
  BY <1>1, <1>4 DEF CallState
<1>6. state \in CallState /\ state.pc = "seal" /\ state.copies = {}
  <2> HIDE DEF a
  <2> QED BY <1>5 DEF CallState
<1>7. CallInv(state)
  <2> HIDE DEF state
  <2> QED BY <1>6 DEF CallInv
<1>8. Goto(c, state)
  <2>1. state = [call[c] EXCEPT !.pc = "seal", !.asked = known, !.rows = {}, !.replies = {}]
    BY <1>4 DEF CallState
  <2> QED BY <2>1 DEF known
<1> HIDE DEF state
<1> QED BY <1>1, <1>2, <1>3, <1>6, <1>7, <1>8, LocalStep DEF known

\* A call that reports a tail.
LEMMA TailResultType ==
  ASSUME LogletInv, NEW c \in Call, NEW tail \in Tail, NEW isSealed \in BOOLEAN
  PROVE  TailResult(c, tail, isSealed) \in CallState /\ CallInv(TailResult(c, tail, isSealed))
<1>1. call[c].client \in Client /\ call[c].floor \in Tail
  BY CallType DEF CallState
<1>2. [kind |-> "tail", tail |-> tail, sealed |-> isSealed] \in CallResult
  BY DEF CallResult
<1> QED BY <1>1, <1>2, DoneType DEF TailResult

\* The repair of a position starts.
LEMMA RepairingType ==
  ASSUME LogletInv, NEW c \in Call, call[c].copies = {},
         NEW tail \in Tail, NEW position \in Tail, position < tail, NEW nodes \in SUBSET Server,
         NEW state,
         state = [call[c] EXCEPT !.pc = "read", !.rows = {}, !.replies = {}, !.tail = tail,
                    !.position = position, !.nodes = nodes, !.todo = nodes]
  PROVE  state \in CallState /\ CallInv(state)
<1> DEFINE a == [call[c] EXCEPT !.pc = "read", !.rows = {}, !.replies = {}]
           b == [a EXCEPT !.tail = tail, !.position = position]
           d == [b EXCEPT !.nodes = nodes, !.todo = nodes]
<1>1. call[c] \in CallState
  BY CallType
<1>2. a \in CallState /\ a.pc = "read" /\ a.copies = {}
  BY <1>1 DEF CallState
<1>3. /\ b \in CallState /\ b.pc = "read" /\ b.copies = {}
      /\ b.position = position /\ b.tail = tail
  <2> HIDE DEF a
  <2> QED BY <1>2 DEF CallState
<1>4. /\ d \in CallState /\ d.pc = "read" /\ d.copies = {}
      /\ d.position = position /\ d.tail = tail
  <2> HIDE DEF b
  <2> QED BY <1>3 DEF CallState
<1>5. state = d
  BY <1>1 DEF CallState
<1> HIDE DEF d
<1> QED BY <1>4, <1>5 DEF CallInv

LEMMA StartRepairStep ==
  ASSUME LogletInv, NEW c \in Call, StartRepair(c)
  PROVE  LogletInv'
<1> PICK R \in SUBSET call[c].replies :
      /\ StatesRead(c, R)
      /\ LET tail == Highest(Tails(R))
             first == clientTrim'[call[c].client]
         IN  IF first < tail
               THEN /\ SetKnown(c, KnownAfter(c, R))
                    /\ Goto(c, [call[c] EXCEPT !.pc = "read", !.rows = {}, !.replies = {},
                                  !.tail = tail, !.position = first, !.nodes = Froms(R),
                                  !.todo = Froms(R)])
               ELSE /\ SetKnown(c, Larger(KnownAfter(c, R), tail))
                    /\ Goto(c, TailResult(c, tail, TRUE))
      /\ UNCHANGED <<servers, sequencer, msgs, crashes>>
  BY DEF StartRepair
<1> DEFINE tail == Highest(Tails(R))
           first == clientTrim'[call[c].client]
<1>1. /\ tail \in Tail /\ first \in Tail /\ clientTrim' \in [Client -> Tail]
      /\ KnownAfter(c, R) \in Tail /\ Froms(R) \in SUBSET Server
  BY StatesReadType
<1>2. call[c].copies = {}
  BY CallType DEF CallInv, StatesRead
<1>3. CASE first < tail
  <2> DEFINE state == [call[c] EXCEPT !.pc = "read", !.rows = {}, !.replies = {},
                         !.tail = tail, !.position = first, !.nodes = Froms(R), !.todo = Froms(R)]
  <2>1. Goto(c, state) /\ SetKnown(c, KnownAfter(c, R))
    BY <1>3
  <2>2. clientKnown' \in [Client -> Tail]
    BY <2>1, <1>1, SetKnownType
  <2> HIDE DEF tail, first
  <2>3. state \in CallState /\ CallInv(state)
    BY <1>1, <1>2, <1>3, RepairingType
  <2> HIDE DEF state
  <2> QED BY <1>1, <2>1, <2>2, <2>3, LocalStep
<1>4. CASE ~(first < tail)
  <2>1. Goto(c, TailResult(c, tail, TRUE)) /\ SetKnown(c, Larger(KnownAfter(c, R), tail))
    BY <1>4
  <2> HIDE DEF tail, first
  <2>2. clientKnown' \in [Client -> Tail]
    BY <2>1, <1>1, LargerTail, SetKnownType
  <2>3. TailResult(c, tail, TRUE) \in CallState /\ CallInv(TailResult(c, tail, TRUE))
    BY <1>1, TailResultType
  <2> QED BY <1>1, <2>1, <2>2, <2>3, LocalStep
<1> QED BY <1>3, <1>4

LEMMA ReportOpenTailStep ==
  ASSUME LogletInv, NEW c \in Call, ReportOpenTail(c)
  PROVE  LogletInv'
<1> PICK R \in SUBSET call[c].replies :
      /\ StatesRead(c, R)
      /\ SetKnown(c, Larger(KnownAfter(c, R), Highest(Tails(R))))
      /\ Goto(c, TailResult(c, Highest(Tails(R)), FALSE))
      /\ UNCHANGED <<servers, sequencer, msgs, crashes>>
  BY DEF ReportOpenTail
<1> DEFINE tail == Highest(Tails(R))
<1>1. tail \in Tail /\ clientTrim' \in [Client -> Tail] /\ KnownAfter(c, R) \in Tail
  BY StatesReadType
<1>2. clientKnown' \in [Client -> Tail]
  BY <1>1, LargerTail, SetKnownType
<1>3. TailResult(c, tail, FALSE) \in CallState /\ CallInv(TailResult(c, tail, FALSE))
  BY <1>1, TailResultType
<1> QED BY <1>1, <1>2, <1>3, LocalStep

LEMMA AwaitProgressStep ==
  ASSUME LogletInv, NEW c \in Call, AwaitProgress(c)
  PROVE  LogletInv'
<1> PICK R \in SUBSET call[c].replies :
      /\ StatesRead(c, R)
      /\ SetKnown(c, KnownAfter(c, R))
      /\ Goto(c, [call[c] EXCEPT !.pc = "wait", !.asked = KnownAfter(c, R), !.rows = {},
                    !.replies = R, !.tail = Highest(Tails(R))])
      /\ UNCHANGED <<servers, sequencer, msgs, crashes>>
  BY DEF AwaitProgress
<1> DEFINE known == KnownAfter(c, R)
           tail == Highest(Tails(R))
           a == [call[c] EXCEPT !.pc = "wait", !.asked = known]
           b == [a EXCEPT !.rows = {}, !.replies = R]
           state == [b EXCEPT !.tail = tail]
<1>1. known \in Tail /\ tail \in Tail /\ clientTrim' \in [Client -> Tail]
  BY StatesReadType
<1>2. clientKnown' \in [Client -> Tail]
  BY <1>1, SetKnownType
<1>3. call[c] \in CallState /\ call[c].copies = {}
  BY CallType DEF CallInv, StatesRead
<1>4. R \in SUBSET (ServerAnswer \cup ServerState)
  BY <1>3 DEF CallState
<1>5. Goto(c, state)
  BY <1>3 DEF CallState
<1> HIDE DEF known, tail
<1>6. a \in CallState /\ a.pc = "wait" /\ a.copies = {}
  BY <1>1, <1>3 DEF CallState
<1>7. b \in CallState /\ b.pc = "wait" /\ b.copies = {}
  <2> HIDE DEF a
  <2> QED BY <1>4, <1>6 DEF CallState
<1>8. state \in CallState /\ state.pc = "wait" /\ state.copies = {}
  <2> HIDE DEF b
  <2> QED BY <1>1, <1>7 DEF CallState
<1> HIDE DEF state
<1>9. CallInv(state)
  BY <1>8 DEF CallInv
<1> QED BY <1>1, <1>2, <1>5, <1>8, <1>9, LocalStep

LEMMA NotifiedStep ==
  ASSUME LogletInv, NEW c \in Call, NEW s \in Server, Notified(c, s)
  PROVE  LogletInv'
<1> DEFINE known == Larger(serverKnown[s], call[c].asked)
           state == Reading(call[c], Larger(Known(c), known))
<1>1. TypeOK /\ call[c] \in CallState /\ Known(c) \in Tail
  BY CallType DEF LogletInv
<1>2. call[c].asked \in Tail /\ known \in Tail
  BY <1>1, LargerTail DEF TypeOK, CallState
<1>3. serverKnown' \in [Server -> Tail]
  BY <1>1, <1>2, ObserveType DEF Notified
<1>4. clientKnown' \in [Client -> Tail]
  BY <1>2, SetKnownType DEF Notified
<1>5. call[c].copies = {}
  BY CallType DEF CallInv, Notified
<1>6. Goto(c, state)
  BY DEF Notified
<1>7. Larger(Known(c), known) \in Tail
  BY <1>1, <1>2, LargerTail
<1> HIDE DEF known
<1>8. state \in CallState /\ CallInv(state)
  BY <1>1, <1>5, <1>7, ReadingType
<1>9. UNCHANGED <<entries, sealed, trimmed, sequencer, clientTrim, msgs, crashes>>
  BY DEF Notified
<1>10. clientTrim' \in [Client -> Tail]
       /\ entries' \in [Server -> [Position -> Command \cup {NoCommand}]]
  BY <1>1, <1>9 DEF TypeOK
<1> HIDE DEF state
<1> QED BY <1>3, <1>4, <1>6, <1>8, <1>9, <1>10, ClientStep
\* What a call that repairs knows of itself.
LEMMA RepairParts ==
  ASSUME LogletInv, NEW c \in Call, call[c].pc \in {"read", "repair"}
  PROVE  /\ call[c].position \in Position /\ call[c].tail \in Tail
         /\ call[c].nodes \in SUBSET Server /\ call[c].todo \in SUBSET Server
         /\ \A k \in call[c].copies : k \in Command /\ Placed(k, call[c].position)
<1>1. call[c] \in CallState /\ CallInv(call[c])
  BY CallType
<1>2. /\ call[c].position \in Tail /\ call[c].tail \in Tail
      /\ call[c].nodes \in SUBSET Server /\ call[c].todo \in SUBSET Server
      /\ call[c].copies \in SUBSET Command
  BY <1>1 DEF CallState
<1>3. call[c].position < call[c].tail /\ \A k \in call[c].copies : Placed(k, call[c].position)
  BY <1>1 DEF CallInv
<1>4. call[c].position \in Position
  BY <1>2, <1>3, CommandCount DEF Position, Tail
<1> QED BY <1>2, <1>3, <1>4

\* A call that goes on with the repair of the same position.
LEMMA CopyingType ==
  ASSUME LogletInv, NEW c \in Call, call[c].pc \in {"read", "repair"},
         NEW pc \in {"read", "repair"}, NEW todo \in SUBSET Server,
         NEW copies \in SUBSET Command, \A k \in copies : Placed(k, call[c].position)
  PROVE  /\ [call[c] EXCEPT !.pc = pc, !.todo = todo, !.copies = copies] \in CallState
         /\ CallInv([call[c] EXCEPT !.pc = pc, !.todo = todo, !.copies = copies])
<1> DEFINE state == [call[c] EXCEPT !.pc = pc, !.todo = todo, !.copies = copies]
<1>1. call[c] \in CallState /\ CallInv(call[c])
  BY CallType
<1>2. state \in CallState
  BY <1>1 DEF CallState
<1>3. /\ state.pc = pc /\ state.copies = copies
      /\ state.position = call[c].position /\ state.tail = call[c].tail
  BY <1>1 DEF CallState
<1>4. call[c].position < call[c].tail
  BY <1>1 DEF CallInv
<1>5. CallInv(state)
  <2> HIDE DEF state
  <2> QED BY <1>3, <1>4 DEF CallInv
<1> QED BY <1>2, <1>5

LEMMA ReadCopyStep ==
  ASSUME LogletInv, NEW c \in Call, NEW s \in Server, ReadCopy(c, s)
  PROVE  LogletInv'
<1> DEFINE position == call[c].position
           copies == call[c].copies \cup ({entries[s][position]} \ {NoCommand})
           next == [call[c] EXCEPT !.pc = "read", !.todo = call[c].todo \ {s}, !.copies = copies]
           last == [call[c] EXCEPT !.pc = "repair", !.todo = call[c].nodes, !.copies = copies]
<1>1. TypeOK /\ call[c] \in CallState /\ call[c].pc = "read" /\ Known(c) \in Tail
  BY CallType DEF LogletInv, ReadCopy
<1>2. /\ position \in Position /\ call[c].nodes \in SUBSET Server /\ call[c].todo \in SUBSET Server
      /\ \A k \in call[c].copies : k \in Command /\ Placed(k, position)
  BY <1>1, RepairParts
<1>3. \A k \in copies : k \in Command /\ Placed(k, position)
  <2>1. entries[s][position] \in Command \cup {NoCommand}
    BY <1>1, <1>2 DEF TypeOK
  <2>2. entries[s][position] # NoCommand => Placed(entries[s][position], position)
    BY <1>2 DEF LogletInv, EntriesInv
  <2> QED BY <1>2, <2>1, <2>2
<1>4. serverKnown' \in [Server -> Tail]
  BY <1>1, ObserveType DEF ReadCopy
<1>5. UNCHANGED <<entries, sealed, trimmed, sequencer, clientKnown, clientTrim, msgs, crashes>>
  BY DEF ReadCopy
<1>6. clientKnown' \in [Client -> Tail] /\ clientTrim' \in [Client -> Tail]
      /\ entries' \in [Server -> [Position -> Command \cup {NoCommand}]]
  BY <1>1, <1>5 DEF TypeOK
<1>7. CASE call[c].todo # {s}
  <2>1. next = [call[c] EXCEPT !.todo = @ \ {s}, !.copies = copies]
    BY <1>1 DEF CallState
  <2>2. Goto(c, next)
    BY <1>7, <2>1 DEF ReadCopy
  <2> HIDE DEF copies
  <2>3. next \in CallState /\ CallInv(next)
    BY <1>1, <1>2, <1>3, CopyingType
  <2> HIDE DEF next
  <2> QED BY <1>4, <1>5, <1>6, <2>2, <2>3, ClientStep
<1>8. CASE call[c].todo = {s}
  <2>1. Goto(c, last)
    BY <1>8 DEF ReadCopy
  <2> HIDE DEF copies
  <2>2. last \in CallState /\ CallInv(last)
    BY <1>1, <1>2, <1>3, CopyingType
  <2> HIDE DEF last
  <2> QED BY <1>4, <1>5, <1>6, <2>1, <2>2, ClientStep
<1> QED BY <1>7, <1>8

\* The repair goes on with the next position.
LEMMA NextCopyType ==
  ASSUME LogletInv, NEW c \in Call, call[c].pc \in {"read", "repair"},
         call[c].position + 1 < call[c].tail,
         NEW state,
         state = [call[c] EXCEPT !.pc = "read", !.position = @ + 1, !.todo = call[c].nodes,
                    !.copies = {}]
  PROVE  state \in CallState /\ CallInv(state)
<1> DEFINE position == call[c].position + 1
           a == [call[c] EXCEPT !.pc = "read", !.position = position]
           b == [a EXCEPT !.todo = call[c].nodes, !.copies = {}]
<1>1. call[c] \in CallState /\ call[c].nodes \in SUBSET Server
  BY CallType, RepairParts
<1>2. position \in Tail
  BY RepairParts, CommandCount DEF Position, Tail
<1>3. a \in CallState /\ a.pc = "read" /\ a.position = position /\ a.tail = call[c].tail
  <2> HIDE DEF position
  <2> QED BY <1>1, <1>2 DEF CallState
<1>4. /\ b \in CallState /\ b.pc = "read" /\ b.position = position /\ b.tail = call[c].tail
      /\ b.copies = {}
  <2> HIDE DEF a
  <2> QED BY <1>1, <1>3 DEF CallState
<1>5. state = b
  BY <1>1 DEF CallState
<1> HIDE DEF b
<1> QED BY <1>4, <1>5 DEF CallInv

LEMMA RepairCopyStep ==
  ASSUME LogletInv, NEW c \in Call, NEW s \in Server, RepairCopy(c, s)
  PROVE  LogletInv'
<1> DEFINE position == call[c].position
           again == [call[c] EXCEPT !.pc = "repair", !.todo = call[c].todo \ {s},
                       !.copies = call[c].copies]
           next == [call[c] EXCEPT !.pc = "read", !.position = @ + 1, !.todo = call[c].nodes,
                      !.copies = {}]
<1>1. TypeOK /\ call[c] \in CallState /\ call[c].pc = "repair" /\ Known(c) \in Tail
  BY CallType DEF LogletInv, RepairCopy
<1>2. /\ position \in Position /\ call[c].tail \in Tail /\ call[c].todo \in SUBSET Server
      /\ \A k \in call[c].copies : k \in Command /\ Placed(k, position)
  BY <1>1, RepairParts
<1>3. serverKnown' \in [Server -> Tail]
  BY <1>1, ObserveType DEF RepairCopy
<1>4. UNCHANGED <<sealed, trimmed, sequencer, clientTrim, msgs, crashes>>
  BY DEF RepairCopy
<1>5. PICK command \in call[c].copies : entries' = entries \/ Write(s, position, command)
  BY DEF RepairCopy
<1>6. /\ entries' \in [Server -> [Position -> Command \cup {NoCommand}]]
      /\ \A u \in Server, p \in Position :
           entries'[u][p] = entries[u][p] \/ Placed(entries'[u][p], p)
  <2>1. command \in Command /\ Placed(command, position)
    BY <1>2, <1>5
  <2>2. CASE entries' = entries
    BY <1>1, <2>2 DEF TypeOK
  <2>3. CASE Write(s, position, command)
    <3>1. /\ entries' \in [Server -> [Position -> Command \cup {NoCommand}]]
          /\ \A u \in Server, p \in Position :
               \/ entries'[u][p] = entries[u][p]
               \/ p = position /\ entries'[u][p] = command
      BY <1>1, <1>2, <2>1, <2>3, WriteStep
    <3> QED BY <2>1, <3>1
  <2> QED BY <1>5, <2>2, <2>3
<1>7. clientTrim' \in [Client -> Tail] /\ clientKnown \in [Client -> Tail]
  BY <1>1, <1>4 DEF TypeOK
<1>8. CASE call[c].todo # {s}
  <2>1. again = [call[c] EXCEPT !.todo = @ \ {s}]
    BY <1>1 DEF CallState
  <2>2. Goto(c, again) /\ UNCHANGED clientKnown
    BY <1>8, <2>1 DEF RepairCopy
  <2>3. again \in CallState /\ CallInv(again)
    BY <1>1, <1>2, CopyingType
  <2> HIDE DEF again
  <2> QED BY <1>3, <1>4, <1>6, <1>7, <2>2, <2>3, ClientStep
<1>9. CASE call[c].todo = {s} /\ position + 1 < call[c].tail
  <2>1. Goto(c, next) /\ UNCHANGED clientKnown
    BY <1>9 DEF RepairCopy
  <2>2. next \in CallState /\ CallInv(next)
    BY <1>1, <1>9, NextCopyType
  <2> HIDE DEF next
  <2> QED BY <1>3, <1>4, <1>6, <1>7, <2>1, <2>2, ClientStep
<1>10. CASE call[c].todo = {s} /\ ~(position + 1 < call[c].tail)
  <2>1. Goto(c, TailResult(c, call[c].tail, TRUE)) /\ SetKnown(c, call[c].tail)
    BY <1>10 DEF RepairCopy
  <2>2. clientKnown' \in [Client -> Tail]
    BY <1>2, <2>1, SetKnownType
  <2>3. /\ TailResult(c, call[c].tail, TRUE) \in CallState
        /\ CallInv(TailResult(c, call[c].tail, TRUE))
    BY <1>2, TailResultType
  <2> QED BY <1>3, <1>4, <1>6, <1>7, <2>1, <2>2, <2>3, ClientStep
<1> QED BY <1>8, <1>9, <1>10

LEMMA OperationStep ==
  ASSUME LogletInv, NEW c \in Call, Operation(c)
  PROVE  LogletInv'
BY EndSealStep, SealFailsStep, EndTrimStep, SealRestStep, StartRepairStep, ReportOpenTailStep,
   AwaitProgressStep, ReadStateStep, ReadRowStep, ReadLastStep, NotifiedStep, ReadCopyStep,
   RepairCopyStep DEF Operation
-----------------------------------------------------------------------------
(* The invariant of the specification.                                     *)

LEMMA InitInv ==
  ASSUME Init
  PROVE  LogletInv
<1>1. 0 \in Tail /\ Unassigned \in Tail
  BY CommandCount DEF Tail, Unassigned
<1>2. Given = {}
  BY DEF Init, Given, Assigned, Unassigned
<1>3. PositionsInv /\ RoundInv /\ EntriesInv
  BY <1>2, FS_EmptySet DEF Init, PositionsInv, RoundInv, EntriesInv
<1> DEFINE new == NewCall("idle", "none", CHOOSE k \in Client : TRUE, 0)
<1>4. new \in CallState /\ CallInv(new)
  <2>1. (CHOOSE k \in Client : TRUE) \in Client
    BY ClientAssumption
  <2>2. new \in CallState
    BY <1>1, <2>1, NewCallType
  <2>3. CallInv(new)
    BY DEF CallInv, NewCall
  <2> QED BY <2>2, <2>3
<1>5. call = [c \in Call |-> new]
  BY DEF Init
<1>6. seq \in SequencerState
  BY <1>1, CommandCount DEF Init, SequencerState, Unassigned
<1> HIDE DEF new
<1>7. TypeOK
  BY <1>1, <1>4, <1>5, <1>6, BoundAssumption DEF Init, TypeOK
<1>8. \A c \in Call : CallInv(call[c])
  BY <1>4, <1>5
<1> QED BY <1>3, <1>7, <1>8 DEF LogletInv

LEMMA StutterStep ==
  ASSUME LogletInv, UNCHANGED vars
  PROVE  LogletInv'
<1>1. UNCHANGED <<entries, seq, msgs, call>> /\ TypeOK'
  BY DEF LogletInv, TypeOK, vars, servers, sequencer, clients
<1>2. Given' = Given /\ PositionsInv' /\ EntriesInv' /\ \A c \in Call : CallInv(call[c])'
  BY <1>1, SamePlaces
<1>3. RoundInv'
  BY <1>1, <1>2 DEF LogletInv, RoundInv
<1> QED BY <1>1, <1>2, <1>3 DEF LogletInv

LEMMA NextStep ==
  ASSUME LogletInv, [Next]_vars
  PROVE  LogletInv'
<1>1. CASE \E k \in Command : AppendAgain(k) \/ Append(k)
  BY <1>1, AppendAgainStep, AppendStep
<1>2. CASE Sequencer \/ Cancel
  BY <1>2, SequencerStep
<1>3. CASE \E s \in Server : LogServer(s) \/ Restart(s)
  BY <1>3, HandlePutStep, AnswerPutStep, HandleSealStep, HandleTrimStep, RestartStep
     DEF LogServer
<1>4. CASE \E client \in Client : AppendReturns(client)
  BY <1>4, AppendReturnsStep
<1>5. CASE \E c \in Call : \/ StartSeal(c) \/ StartCheckTail(c) \/ StartTrim(c) \/ GiveUp(c)
                           \/ Operation(c)
  BY <1>5, StartSealStep, StartCheckTailStep, StartTrimStep, GiveUpStep, OperationStep
<1>6. CASE UNCHANGED vars
  BY <1>6, StutterStep
<1> QED BY <1>1, <1>2, <1>3, <1>4, <1>5, <1>6 DEF Next

\* The inductive invariant holds of every behaviour: what is stored, on its way or
\* collected by a repair is at the place that the sequencer gave its command.
THEOREM InvariantHolds == Spec => []LogletInv
<1>1. Init => LogletInv
  BY InitInv
<1>2. LogletInv /\ [Next]_vars => LogletInv'
  BY NextStep
<1> QED BY <1>1, <1>2, PTL DEF Spec

\* The state has its types: every tail that anyone knows lies within the positions
\* that the sequencer has commands for.
THEOREM TypeCorrect == Spec => []TypeOK
<1>1. LogletInv => TypeOK
  BY DEF LogletInv
<1> QED BY <1>1, InvariantHolds, PTL

\* Copies agree: late puts, repairs, restarts and trims never leave different commands
\* at one position on two servers, nor one command at two positions.
THEOREM CopiesAgreeAlways == Spec => []CopiesAgree
<1>1. LogletInv => CopiesAgree
  <2> SUFFICES ASSUME LogletInv, NEW s \in Server, NEW u \in Server,
                      NEW p \in Position, NEW q \in Position,
                      entries[s][p] # NoCommand, entries[u][q] # NoCommand
               PROVE  p = q <=> entries[s][p] = entries[u][q]
    BY DEF CopiesAgree
  <2>1. Placed(entries[s][p], p) /\ Placed(entries[u][q], q)
    BY DEF LogletInv, EntriesInv
  <2>2. p = q => entries[s][p] = entries[u][q]
    BY <2>1 DEF Placed, LogletInv, PositionsInv
  <2>3. entries[s][p] = entries[u][q] => p = q
    BY <2>1 DEF Placed
  <2> QED BY <2>2, <2>3
<1> QED BY <1>1, InvariantHolds, PTL

\* What DurableStateOnlyGrows says of a step.
Grows ==
  /\ sealed \subseteq sealed'
  /\ \A s \in Server :
       /\ trimmed'[s] >= trimmed[s]
       /\ \A p \in Position :
            IF trimmed'[s] > p THEN entries'[s][p] = NoCommand
            ELSE entries[s][p] # NoCommand => entries'[s][p] = entries[s][p]

LEMMA DurableKept ==
  ASSUME LogletInv, TrimmedInv, UNCHANGED <<entries, sealed, trimmed>>
  PROVE  TrimmedInv' /\ Grows
<1>1. \A s \in Server : trimmed[s] \in Nat
  BY CommandCount DEF LogletInv, TypeOK, Tail
<1> QED BY <1>1 DEF TrimmedInv, Grows

\* A write goes to a position that is free, or holds the command already.
LEMMA WriteGrows ==
  ASSUME LogletInv, TrimmedInv, NEW s \in Server, NEW q \in Position, NEW k \in Command,
         Fits(s, q, k), Write(s, q, k), UNCHANGED <<sealed, trimmed>>
  PROVE  TrimmedInv' /\ Grows
<1>1. \A u \in Server : trimmed[u] \in Nat
  BY CommandCount DEF LogletInv, TypeOK, Tail
<1>2. \A u \in Server, p \in Position :
        entries'[u][p] = entries[u][p]
          \/ (u = s /\ p = q /\ entries'[u][p] = k /\ entries[u][p] \in {k, NoCommand})
  BY DEF LogletInv, TypeOK, Write, Fits
<1>3. q \in Nat /\ ~(trimmed[s] > q)
  BY <1>1 DEF Fits, Position
<1> QED BY <1>1, <1>2, <1>3 DEF TrimmedInv, Grows

LEMMA HandlePutGrows ==
  ASSUME LogletInv, TrimmedInv, NEW s \in Server, HandlePut(s)
  PROVE  TrimmedInv' /\ Grows
<1>1. PICK r \in msgs :
        /\ r.type = "put"
        /\ entries' = entries \/ (Fits(s, r.position, r.command) /\ Write(s, r.position, r.command))
        /\ UNCHANGED <<sealed, trimmed>>
  BY DEF HandlePut, Accepts
<1>2. r.position \in Position /\ r.command \in Command
  BY <1>1 DEF LogletInv, TypeOK, PutRequest, SealRequest, TrimRequest
<1> QED BY <1>1, <1>2, DurableKept, WriteGrows

LEMMA RepairCopyGrows ==
  ASSUME LogletInv, TrimmedInv, NEW c \in Call, NEW s \in Server, RepairCopy(c, s)
  PROVE  TrimmedInv' /\ Grows
<1>1. PICK k \in call[c].copies :
        /\ \/ entries' = entries
           \/ Fits(s, call[c].position, k) /\ Write(s, call[c].position, k)
        /\ UNCHANGED <<sealed, trimmed>>
  BY DEF RepairCopy
<1>2. call[c].position \in Position /\ k \in Command
  BY CallType, RepairParts DEF LogletInv, RepairCopy
<1> QED BY <1>1, <1>2, DurableKept, WriteGrows

LEMMA HandleSealGrows ==
  ASSUME LogletInv, TrimmedInv, NEW s \in Server, HandleSeal(s)
  PROVE  TrimmedInv' /\ Grows
<1>1. sealed \subseteq sealed' /\ UNCHANGED <<entries, trimmed>>
  BY DEF HandleSeal
<1>2. \A u \in Server : trimmed[u] \in Nat
  BY CommandCount DEF LogletInv, TypeOK, Tail
<1> QED BY <1>1, <1>2 DEF TrimmedInv, Grows

LEMMA HandleTrimGrows ==
  ASSUME LogletInv, TrimmedInv, NEW s \in Server, HandleTrim(s)
  PROVE  TrimmedInv' /\ Grows
<1>1. PICK r \in msgs :
        /\ r.type = "prefix_trim"
        /\ LET watermark == Larger(trimmed[s], r.position)
           IN  /\ trimmed' = [trimmed EXCEPT ![s] = watermark]
               /\ entries' = [entries EXCEPT ![s] =
                    [p \in Position |-> IF p < watermark THEN NoCommand ELSE entries[s][p]]]
        /\ UNCHANGED sealed
  BY DEF HandleTrim
<1>2. \A u \in Server : trimmed[u] \in Nat
  BY CommandCount DEF LogletInv, TypeOK, Tail
<1>3. r.position \in Nat
  BY <1>1, CommandCount DEF LogletInv, TypeOK, PutRequest, SealRequest, TrimRequest, Tail
<1> DEFINE watermark == Larger(trimmed[s], r.position)
<1>4. watermark \in Nat /\ watermark >= trimmed[s]
  BY <1>2, <1>3 DEF Larger
<1>5. /\ trimmed'[s] = watermark
      /\ \A p \in Position : entries'[s][p] = IF p < watermark THEN NoCommand ELSE entries[s][p]
      /\ \A u \in Server \ {s} : trimmed'[u] = trimmed[u] /\ entries'[u] = entries[u]
  BY <1>1 DEF LogletInv, TypeOK
<1>6. \A p \in Position : p \in Nat
  BY DEF Position
<1> HIDE DEF watermark
<1> QED BY <1>1, <1>2, <1>4, <1>5, <1>6 DEF TrimmedInv, Grows

\* Only a put, a repair, a seal and a trim change what a server saved.
LEMMA OthersKeep ==
  ASSUME [Next]_vars,
         ~ \E s \in Server : HandlePut(s) \/ HandleSeal(s) \/ HandleTrim(s),
         ~ \E c \in Call, s \in Server : RepairCopy(c, s)
  PROVE  UNCHANGED <<entries, sealed, trimmed>>
<1>1. CASE \E k \in Command : AppendAgain(k) \/ Append(k)
  BY <1>1 DEF AppendAgain, Append, servers
<1>2. CASE Sequencer \/ Cancel
  BY <1>2 DEF Sequencer, Cancel, Acknowledge, CommitPending, NotContiguous, SealedOut, Retry,
     RetryAfter, servers
<1>3. CASE \E s \in Server : LogServer(s) \/ Restart(s)
  BY <1>3 DEF LogServer, AnswerPut, Restart, servers
<1>4. CASE \E client \in Client : AppendReturns(client)
  BY <1>4 DEF AppendReturns, servers
<1>5. CASE \E c \in Call : StartSeal(c) \/ StartCheckTail(c) \/ StartTrim(c) \/ GiveUp(c)
  BY <1>5 DEF StartSeal, StartCheckTail, StartTrim, GiveUp, servers
<1>6. CASE \E c \in Call : Operation(c)
  <2> PICK c \in Call : Operation(c)
    BY <1>6
  <2>1. CASE EndSeal(c) \/ SealFails(c) \/ EndTrim(c) \/ SealRest(c)
    BY <2>1 DEF EndSeal, SealFails, EndTrim, SealRest, servers
  <2>2. CASE StartRepair(c)
    BY <2>2 DEF StartRepair, servers
  <2>3. CASE ReportOpenTail(c) \/ AwaitProgress(c)
    BY <2>3 DEF ReportOpenTail, AwaitProgress, servers
  <2>4. CASE \E s \in Server : ReadState(c, s) \/ ReadRow(c, s) \/ ReadLast(c, s)
    BY <2>4 DEF ReadState, ReadRow, ReadLast, servers
  <2>5. CASE \E s \in Server : Notified(c, s) \/ ReadCopy(c, s) \/ RepairCopy(c, s)
    BY <2>5 DEF Notified, ReadCopy
  <2> QED BY <2>1, <2>2, <2>3, <2>4, <2>5 DEF Operation
<1>7. CASE UNCHANGED vars
  BY <1>7 DEF vars, servers
<1> QED BY <1>1, <1>2, <1>3, <1>4, <1>5, <1>6, <1>7 DEF Next

LEMMA GrowsStep ==
  ASSUME LogletInv, TrimmedInv, [Next]_vars
  PROVE  TrimmedInv' /\ Grows
BY OthersKeep, DurableKept, HandlePutGrows, HandleSealGrows, HandleTrimGrows, RepairCopyGrows

\* What a server saved stays, but for the trim: no late put, repair, restart or retry
\* unseals a server, lowers its watermark, changes an entry or brings a trimmed one back.
THEOREM DurableStateGrows == Spec => DurableStateOnlyGrows
<1>1. Init => TrimmedInv
  BY CommandCount DEF Init, TrimmedInv, Position
<1>2. LogletInv /\ TrimmedInv /\ [Next]_vars => TrimmedInv'
  BY GrowsStep
<1>3. LogletInv /\ TrimmedInv /\ [Next]_vars => [Grows]_vars
  BY GrowsStep
<1>4. [][Grows]_vars => DurableStateOnlyGrows
  BY PTL DEF DurableStateOnlyGrows, Grows
<1> QED BY <1>1, <1>2, <1>3, <1>4, InvariantHolds, PTL DEF Spec
-----------------------------------------------------------------------------
(* Quorums and what holdings cover.                                        *)

\* Two quorums have a server in common.
LEMMA QuorumsMeet ==
  ASSUME NEW P \in Quorum, NEW Q \in Quorum
  PROVE  \E s \in Server : s \in P /\ s \in Q
<1>1. /\ P \subseteq Server /\ Q \subseteq Server
      /\ IsFiniteSet(P) /\ IsFiniteSet(Q) /\ IsFiniteSet(Server)
  BY ServerAssumption, FS_Subset DEF Quorum
<1>2. Cardinality(P) \in Nat /\ Cardinality(Q) \in Nat /\ Cardinality(Server) \in Nat
  BY <1>1, FS_CardinalityType
<1>3. Cardinality(P) + Cardinality(Q) > Cardinality(Server)
  BY <1>2 DEF Quorum
<1>4. P \cap Q # {}
  BY <1>1, <1>3, FS_MajoritiesIntersect
<1> QED BY <1>1, <1>4

\* A larger set of servers than a quorum is a quorum too.
LEMMA QuorumGrows ==
  ASSUME NEW P \in Quorum, NEW Q \in SUBSET Server, P \subseteq Q
  PROVE  Q \in Quorum
<1>1. IsFiniteSet(Q) /\ IsFiniteSet(P)
  BY ServerAssumption, FS_Subset
<1>2. Cardinality(P) <= Cardinality(Q)
  BY <1>1, FS_Subset
<1>3. Cardinality(P) \in Nat /\ Cardinality(Q) \in Nat /\ Cardinality(Server) \in Nat
  BY <1>1, ServerAssumption, FS_CardinalityType
<1> QED BY <1>2, <1>3 DEF Quorum

\* What is covered or backed stays so while holdings grow.
LEMMA CoversGrow ==
  ASSUME NEW h, NEW g, \A s \in Server : h[s] \subseteq g[s], NEW tail
  PROVE  /\ Covers(h, tail) => Covers(g, tail)
         /\ \A s \in Server : Backs(h, s, tail) => Backs(g, s, tail)
<1>1. \A p \in Position : Holders(h, p) \subseteq Holders(g, p) /\ Holders(g, p) \in SUBSET Server
  BY DEF Holders
<1>2. \A p \in Position : Holders(h, p) \in Quorum => Holders(g, p) \in Quorum
  BY <1>1, QuorumGrows
<1> QED BY <1>2 DEF Covers, Backs

\* Nothing lies below the first position.
LEMMA CoversZero == ASSUME NEW h PROVE Covers(h, 0)
BY DEF Covers, Position

\* The larger of two covered tails is covered.
LEMMA CoversLarger ==
  ASSUME NEW h, NEW m, NEW n, Covers(h, m), Covers(h, n)
  PROVE  Covers(h, Larger(m, n))
BY DEF Larger

\* A lower tail than a covered one is covered.
LEMMA CoversLower ==
  ASSUME NEW h, NEW m \in Tail, NEW n \in Tail, m <= n, Covers(h, n)
  PROVE  Covers(h, m)
BY CommandCount DEF Covers, Position, Tail

\* The highest of some covered tails is covered.
LEMMA CoversHighest ==
  ASSUME NEW h, NEW S \in SUBSET Tail, S # {}, \A n \in S : Covers(h, n)
  PROVE  Covers(h, Highest(S))
BY HighestTail

\* The next tail is covered when a quorum holds its position.
LEMMA CoversNext ==
  ASSUME NEW h, NEW p \in Position, Covers(h, p), NEW Q \in Quorum, \A s \in Q : p \in h[s]
  PROVE  Covers(h, p + 1)
<1>1. Q \subseteq Holders(h, p) /\ Holders(h, p) \in SUBSET Server
  BY DEF Holders, Quorum
<1>2. Holders(h, p) \in Quorum
  BY <1>1, QuorumGrows
<1>3. \A q \in Position : q < p + 1 => q < p \/ q = p
  BY DEF Position
<1> QED BY <1>2, <1>3 DEF Covers

\* A tail is covered when each server of a quorum backs it.
LEMMA CoversBacked ==
  ASSUME NEW h, NEW tail, NEW Q \in Quorum, \A s \in Q : Backs(h, s, tail)
  PROVE  Covers(h, tail)
<1>1. SUFFICES ASSUME NEW p \in Position, p < tail PROVE Holders(h, p) \in Quorum
  BY DEF Covers
<1>2. CASE \A s \in Q : p \in h[s]
  <2>1. Q \subseteq Holders(h, p) /\ Holders(h, p) \in SUBSET Server
    BY <1>2 DEF Holders, Quorum
  <2> QED BY <2>1, QuorumGrows
<1>3. CASE ~ \A s \in Q : p \in h[s]
  BY <1>1, <1>3 DEF Backs
<1> QED BY <1>2, <1>3

\* What a call has heard stays true while holdings grow.
LEMMA HeardGrows ==
  ASSUME NEW h, NEW g, \A s \in Server : h[s] \subseteq g[s], NEW x \in CallState,
         CallInv(x), HeardInv(h, x)
  PROVE  HeardInv(g, x)
<1>1. x.replies \subseteq ServerAnswer \cup ServerState /\ x.nodes \subseteq Server
  BY DEF CallState
<1>2. x.pc = "state" => \A r \in x.replies : r.from \in Server
  BY <1>1 DEF CallInv, ServerState
<1>3. \A t : Covers(h, t) => Covers(g, t)
  BY CoversGrow
<1>4. \A s \in Server : \A t : Backs(h, s, t) => Backs(g, s, t)
  BY CoversGrow
<1>5. x.pc = "state" => \A r \in x.replies :
        Covers(g, r.known) /\ Covers(g, r.trimmed) /\ Backs(g, r.from, r.tail)
  BY <1>2, <1>3, <1>4 DEF HeardInv
<1>6. x.pc = "repair" => \A s \in x.nodes \ x.todo : x.position \in g[s]
  BY <1>1 DEF HeardInv
<1> QED BY <1>3, <1>5, <1>6 DEF HeardInv
-----------------------------------------------------------------------------
(* Holdings grow.                                                          *)

Grown == \A s \in Server : Holdings[s] \subseteq Holdings'[s]

LEMMA HoldingsAre ==
  \A s \in Server : \A p \in Position : p \in Holdings[s] <=> trimmed[s] > p \/ entries[s][p] # NoCommand
BY DEF Holdings, HasHeld

\* What a server saves, it holds from then on.
LEMMA HoldingsGrow ==
  ASSUME LogletInv, LogletInv', Grows
  PROVE  Grown
<1> SUFFICES ASSUME NEW s \in Server, NEW p \in Position, HasHeld(s, p)
             PROVE  HasHeld(s, p)'
  BY DEF Grown, Holdings
<1>1. trimmed[s] \in Nat /\ trimmed'[s] \in Nat /\ p \in Nat
  BY CommandCount DEF LogletInv, TypeOK, Tail, Position
<1> QED BY <1>1 DEF Grows, HasHeld

\* A step keeps the invariant if what becomes known is covered.
LEMMA TailsMove ==
  ASSUME LogletInv, LogletInv', TailsInv, Grown, CommitInv',
         \A s \in Server : serverKnown'[s] = serverKnown[s] \/ Covers(Holdings', serverKnown'[s]),
         \A s \in Server : trimmed'[s] = trimmed[s] \/ Covers(Holdings', trimmed'[s]),
         \A s \in Server, p \in Position :
           entries'[s][p] # NoCommand => entries'[s][p] = entries[s][p] \/ Backs(Holdings', s, p),
         \A k \in Client : clientKnown'[k] = clientKnown[k] \/ Covers(Holdings', clientKnown'[k]),
         \A k \in Client : clientTrim'[k] = clientTrim[k] \/ Covers(Holdings', clientTrim'[k]),
         \A r \in msgs' : r \in msgs \/ Covers(Holdings', Told(r)),
         \A a \in acks' : a \in acks \/ (Covers(Holdings', a.known) /\ a.position < a.known),
         \A c \in Call : call'[c] = call[c] \/ HeardInv(Holdings', call'[c])
  PROVE  TailsInv'
<1>1. \A t : Covers(Holdings, t) => Covers(Holdings', t)
  BY CoversGrow DEF Grown
<1>2. \A s \in Server : \A t : Backs(Holdings, s, t) => Backs(Holdings', s, t)
  BY CoversGrow DEF Grown
<1>3. ServersInv'
  BY <1>1, <1>2 DEF TailsInv, ServersInv
<1>4. ToldInv'
  BY <1>1 DEF TailsInv, ToldInv, Told
<1>5. ASSUME NEW c \in Call PROVE HeardInv(Holdings', call'[c])
  <2>1. call[c] \in CallState /\ CallInv(call[c]) /\ HeardInv(Holdings, call[c])
    BY DEF LogletInv, TypeOK, TailsInv
  <2> QED BY <2>1, HeardGrows DEF Grown
<1> QED BY <1>3, <1>4, <1>5 DEF TailsInv

\* A step that leaves the sequencer alone.
LEMMA CommitStays ==
  ASSUME TailsInv, LogletInv, Grown, UNCHANGED <<seq, stored>>
  PROVE  CommitInv'
<1>1. \A t : Covers(Holdings, t) => Covers(Holdings', t)
  BY CoversGrow DEF Grown
<1>2. Storers' = Storers /\ Storers \subseteq Server
  BY DEF Storers, StoredIn, LogletInv, TypeOK, SequencerState, PutAnswer
<1> QED BY <1>1, <1>2 DEF TailsInv, CommitInv, Grown
-----------------------------------------------------------------------------
(* The sequencer's tails.                                                  *)

\* A step of the sequencer only.
LEMMA SequencerTails ==
  ASSUME LogletInv, LogletInv', TailsInv, Grown, CommitInv', UNCHANGED <<servers, clients>>,
         \A r \in msgs' : r \in msgs \/ Covers(Holdings', Told(r)),
         \A a \in acks' : a \in acks \/ (Covers(Holdings', a.known) /\ a.position < a.known)
  PROVE  TailsInv'
<1>1. UNCHANGED <<serverKnown, trimmed, entries, clientKnown, clientTrim, call>>
  BY DEF servers, clients
<1> QED BY <1>1, TailsMove

\* A round tells of a tail that is committed, and begins with nobody who stored its put.
LEMMA RoundTails ==
  ASSUME LogletInv, LogletInv', TailsInv, Grown, NEW k \in Command, NEW caller \in Command,
         NEW tail \in Tail, Covers(Holdings, tail),
         Round([seq EXCEPT !.tail = tail], k, PositionFor(seq, k), caller),
         UNCHANGED <<servers, clients, acks>>
  PROVE  TailsInv'
<1> DEFINE p == PositionFor(seq, k)
           request == Put(p, k, tail)
<1>1. seq \in SequencerState /\ seq.position \in [Command -> Tail]
  BY DEF LogletInv, TypeOK, SequencerState
<1>2. /\ seq'.position[k] = p /\ seq'.entry = k /\ seq'.tail = tail
      /\ seq'.request = request /\ seq'.replies = {} /\ stored' = {}
      /\ msgs' = msgs \cup {request}
  BY <1>1 DEF Round, SequencerState
<1>3. Covers(Holdings', tail)
  BY CoversGrow DEF Grown
<1>4. request.type = "put" /\ request.position = p /\ Told(request) = tail
  BY DEF Put, Told
<1>5. Storers' = {}
  BY <1>2 DEF Storers, StoredIn
<1> HIDE DEF request, p
<1>6. CommitInv'
  BY <1>2, <1>3, <1>4, <1>5 DEF CommitInv
<1>7. \A r \in msgs' : r \in msgs \/ Covers(Holdings', Told(r))
  BY <1>2, <1>3, <1>4
<1> QED BY <1>6, <1>7, SequencerTails

\* The sequencer stops and takes note of a tail.
LEMMA StopTails ==
  ASSUME LogletInv, LogletInv', TailsInv, Grown, NEW tail \in Tail, Covers(Holdings, tail),
         Stop(tail), UNCHANGED <<servers, clients, acks>>
  PROVE  TailsInv'
<1>1. seq'.pc = "idle" /\ seq'.tail = tail /\ seq'.replies = {} /\ msgs' = msgs
  BY DEF LogletInv, TypeOK, SequencerState, Stop
<1>2. Covers(Holdings', tail)
  BY CoversGrow DEF Grown
<1>3. CommitInv'
  BY <1>1, <1>2 DEF CommitInv
<1> QED BY <1>1, <1>3, SequencerTails

\* What the sequencer learns of a round's replies is committed.
LEMMA TailAfterCovered ==
  ASSUME LogletInv, TailsInv, NEW R \in SUBSET seq.replies
  PROVE  TailAfter(R) \in Tail /\ Covers(Holdings, TailAfter(R))
<1>1. {seq.tail} \cup Tails(R) \in SUBSET Tail
  BY DEF LogletInv, TypeOK, SequencerState, PutAnswer, Tails
<1>2. \A n \in {seq.tail} \cup Tails(R) : Covers(Holdings, n)
  BY DEF TailsInv, CommitInv, Tails
<1> QED BY <1>1, <1>2, CoversHighest, TailAfterType DEF TailAfter, LogletInv

\* An entry that a quorum stored at the committed tail is committed.
LEMMA CommittedCovered ==
  ASSUME LogletInv, TailsInv, NEW R \in SUBSET seq.replies, seq.pc = "commit",
         StoredIn(R) \in Quorum, Contiguous(R)
  PROVE  /\ TailAfter(R) + 1 \in Tail /\ Covers(Holdings, TailAfter(R) + 1)
         /\ seq.position[seq.entry] = TailAfter(R)
<1>1. seq.position[seq.entry] = TailAfter(R) /\ TailAfter(R) \in Position /\ TailAfter(R) + 1 \in Tail
  BY RoundEnd DEF Contiguous
<1>2. StoredIn(R) \subseteq Storers
  BY DEF StoredIn, Storers
<1>3. \A s \in StoredIn(R) : TailAfter(R) \in Holdings[s]
  BY <1>1, <1>2 DEF TailsInv, CommitInv
<1> QED BY <1>1, <1>3, TailAfterCovered, CoversNext

LEMMA AppendAgainTails ==
  ASSUME LogletInv, LogletInv', TailsInv, Grown, NEW k \in Command, AppendAgain(k)
  PROVE  TailsInv'
<1>1. UNCHANGED <<servers, clients, seq, stored, msgs>> /\ seq.position[k] < seq.tail
  BY DEF AppendAgain
<1>2. acks' = acks \cup {Ack(k, seq.position[k], seq.tail)}
  BY DEF AppendAgain
<1>3. Covers(Holdings', seq.tail)
  BY CoversGrow DEF Grown, TailsInv, CommitInv
<1>4. \A a \in acks' : a \in acks \/ (Covers(Holdings', a.known) /\ a.position < a.known)
  BY <1>1, <1>2, <1>3 DEF Ack
<1> QED BY <1>1, <1>4, CommitStays, SequencerTails

LEMMA AppendTails ==
  ASSUME LogletInv, LogletInv', TailsInv, Grown, NEW k \in Command, Append(k)
  PROVE  TailsInv'
<1> DEFINE first == IF seq.pending = NoCommand THEN k ELSE seq.pending
<1>1. first \in Command
  BY DEF LogletInv, TypeOK, SequencerState
<1>2. seq = [seq EXCEPT !.tail = seq.tail] /\ seq.tail \in Tail
  BY DEF LogletInv, TypeOK, SequencerState
<1>3. Round([seq EXCEPT !.tail = seq.tail], first, PositionFor(seq, first), k)
  BY <1>2 DEF Append
<1>4. UNCHANGED <<servers, clients, acks>>
  BY DEF Append
<1>5. Covers(Holdings, seq.tail)
  BY DEF TailsInv, CommitInv
<1> HIDE DEF first
<1> QED BY <1>1, <1>2, <1>3, <1>4, <1>5, RoundTails

LEMMA AcknowledgeTails ==
  ASSUME LogletInv, LogletInv', TailsInv, Grown, Acknowledge
  PROVE  TailsInv'
<1> PICK R \in SUBSET seq.replies :
      /\ seq.pc = "commit"
      /\ StoredIn(R) \in Quorum /\ Contiguous(R)
      /\ seq' = [seq EXCEPT !.pc = "idle", !.tail = TailAfter(R) + 1, !.pending = NoCommand,
                   !.entry = NoCommand, !.caller = NoCommand, !.request = NoRequest, !.replies = {}]
      /\ acks' = acks \cup {Ack(seq.entry, seq.position[seq.entry], TailAfter(R) + 1)}
      /\ UNCHANGED <<servers, clients, msgs>>
  BY DEF Acknowledge
<1> DEFINE tail == TailAfter(R)
<1>1. Covers(Holdings, tail + 1) /\ seq.position[seq.entry] = tail /\ tail \in Tail
  BY CommittedCovered, TailAfterCovered
<1>2. Covers(Holdings', tail + 1)
  BY <1>1, CoversGrow DEF Grown
<1>3. seq'.pc = "idle" /\ seq'.tail = tail + 1 /\ seq'.replies = {}
  BY DEF LogletInv, TypeOK, SequencerState
<1>4. CommitInv'
  BY <1>2, <1>3 DEF CommitInv
<1>5. \A a \in acks' : a \in acks \/ (Covers(Holdings', a.known) /\ a.position < a.known)
  <2>1. tail < tail + 1
    BY <1>1, CommandCount DEF Tail
  <2>2. ASSUME NEW a \in acks', a \notin acks PROVE a.known = tail + 1 /\ a.position = tail
    BY <1>1, <2>2 DEF Ack
  <2> HIDE DEF tail
  <2> QED BY <1>2, <2>1, <2>2
<1> QED BY <1>4, <1>5, SequencerTails

LEMMA CommitPendingTails ==
  ASSUME LogletInv, LogletInv', TailsInv, Grown, CommitPending
  PROVE  TailsInv'
<1> PICK R \in SUBSET seq.replies :
      /\ seq.pc = "commit" /\ StoredIn(R) \in Quorum /\ Contiguous(R)
      /\ Round([seq EXCEPT !.tail = TailAfter(R) + 1], seq.caller, PositionFor(seq, seq.caller),
               seq.caller)
      /\ UNCHANGED <<servers, acks, clients>>
  BY DEF CommitPending
<1>1. TailAfter(R) + 1 \in Tail /\ Covers(Holdings, TailAfter(R) + 1) /\ seq.caller \in Command
  BY CommittedCovered, RoundEnd
<1> QED BY <1>1, RoundTails

LEMMA RetryTails ==
  ASSUME LogletInv, LogletInv', TailsInv, Grown, Retry
  PROVE  TailsInv'
<1> PICK R \in SUBSET seq.replies : RetryAfter(R)
  BY DEF Retry
<1>1. /\ seq.pc = "commit"
      /\ Round([seq EXCEPT !.tail = TailAfter(R)], seq.entry, seq.position[seq.entry], seq.caller)
      /\ UNCHANGED <<servers, acks, clients>>
  BY DEF RetryAfter
<1>2. TailAfter(R) \in Tail /\ Covers(Holdings, TailAfter(R))
  BY TailAfterCovered
<1> QED BY <1>1, <1>2, RoundEnd, RoundTails

LEMMA SequencerStepTails ==
  ASSUME LogletInv, LogletInv', TailsInv, Grown, Sequencer \/ Cancel
  PROVE  TailsInv'
<1>1. CASE NotContiguous
  BY <1>1, TailAfterCovered, StopTails DEF NotContiguous
<1>2. CASE SealedOut
  BY <1>2, TailAfterCovered, StopTails DEF SealedOut
<1>3. CASE Cancel
  <2>1. seq.tail \in Tail /\ Covers(Holdings, seq.tail)
    BY DEF LogletInv, TypeOK, SequencerState, TailsInv, CommitInv
  <2> QED BY <1>3, <2>1, StopTails DEF Cancel
<1> QED BY <1>1, <1>2, <1>3, AcknowledgeTails, CommitPendingTails, RetryTails DEF Sequencer
-----------------------------------------------------------------------------
(* The LogServers' tails.                                                  *)

\* A call hears an answer whose tail is committed.
LEMMA AnswerHeard ==
  ASSUME LogletInv, TailsInv, Grown, NEW c \in Call, NEW pc \in {"seal", "trim"}, NEW known,
         NEW reply \in ServerAnswer, Answer(c, pc, known, reply), Covers(Holdings', reply.tail)
  PROVE  \A d \in Call : call'[d] = call[d] \/ HeardInv(Holdings', call'[d])
<1>1. call[c] \in CallState /\ HeardInv(Holdings', call[c])
  <2>1. call[c] \in CallState /\ CallInv(call[c]) /\ HeardInv(Holdings, call[c])
    BY DEF LogletInv, TypeOK, TailsInv
  <2> QED BY <2>1, HeardGrows DEF Grown
<1>2. ASSUME call[c].pc = pc, call'[c] = [call[c] EXCEPT !.replies = @ \cup {reply}]
      PROVE  HeardInv(Holdings', call'[c])
  <2>1. /\ call'[c].pc = pc /\ call'[c].asked = call[c].asked /\ call'[c].rows = call[c].rows
        /\ call'[c].replies = call[c].replies \cup {reply} /\ call'[c].result = call[c].result
    BY <1>1, <1>2 DEF CallState
  <2>2. \A r \in call'[c].replies : Covers(Holdings', r.tail)
    BY <1>1, <1>2, <2>1 DEF HeardInv
  <2> QED BY <1>1, <2>1, <2>2 DEF HeardInv
<1> QED BY <1>2, AnswerEffect

\* A server takes note of a tail that is committed.
LEMMA ObserveTails ==
  ASSUME LogletInv, TailsInv, Grown, NEW s \in Server, NEW known \in Tail,
         Covers(Holdings, known), Observe(s, known)
  PROVE  /\ \A u \in Server : serverKnown'[u] = serverKnown[u] \/ Covers(Holdings', serverKnown'[u])
         /\ Covers(Holdings', Larger(serverKnown[s], known))
<1>1. Covers(Holdings, Larger(serverKnown[s], known))
  BY CoversLarger DEF TailsInv, ServersInv
<1>2. Covers(Holdings', Larger(serverKnown[s], known))
  BY <1>1, CoversGrow DEF Grown
<1>3. \A u \in Server : serverKnown'[u] = IF u = s THEN Larger(serverKnown[s], known) ELSE serverKnown[u]
  BY DEF Observe, LogletInv, TypeOK
<1> QED BY <1>2, <1>3

\* What is before a position that a put may be written to is committed or on the server.
LEMMA PredecessorBacked ==
  ASSUME LogletInv, TailsInv, NEW s \in Server, NEW r \in PutRequest, Covers(Holdings, r.known),
         FollowsPredecessor(s, r)
  PROVE  Backs(Holdings, s, r.position)
<1>1. /\ r.position \in Position /\ r.command \in Command /\ r.known \in Tail
      /\ serverKnown[s] \in Tail
  BY DEF PutRequest, LogletInv, TypeOK
<1>2. r.position \in Nat /\ Position \subseteq Nat
  BY <1>1 DEF Position
<1>3. CASE entries[s][r.position] = r.command
  <2>1. r.command # NoCommand
    BY <1>1, CommandAssumption
  <2> QED BY <1>1, <1>3, <2>1 DEF TailsInv, ServersInv
<1>4. CASE r.position = 0
  BY <1>2, <1>4 DEF Backs
<1>5. CASE r.position # 0 /\ entries[s][r.position - 1] # NoCommand
  <2> DEFINE p == r.position - 1
  <2>1. p \in Position /\ \A q \in Position : q < r.position => q < p \/ q = p
    BY <1>1, <1>2, <1>5, CommandCount DEF Position
  <2>2. Backs(Holdings, s, p)
    BY <1>5, <2>1 DEF TailsInv, ServersInv
  <2>3. p \in Holdings[s]
    BY <1>5, <2>1, HoldingsAre
  <2> QED BY <2>1, <2>2, <2>3 DEF Backs
<1>6. CASE Larger(serverKnown[s], r.known) > r.position - 1
  <2>0. Covers(Holdings, serverKnown[s])
    BY DEF TailsInv, ServersInv
  <2>1. Covers(Holdings, Larger(serverKnown[s], r.known)) /\ Larger(serverKnown[s], r.known) \in Nat
    <3>1. Covers(Holdings, Larger(serverKnown[s], r.known))
      BY <2>0, CoversLarger
    <3>2. Tail \subseteq Nat
      BY CommandCount DEF Tail
    <3> QED BY <1>1, <3>1, <3>2, LargerTail
  <2>2. \A q \in Position : q < r.position => q < Larger(serverKnown[s], r.known)
    BY <1>2, <1>6, <2>1
  <2> QED BY <2>1, <2>2 DEF Covers, Backs
<1> QED BY <1>3, <1>4, <1>5, <1>6 DEF FollowsPredecessor

LEMMA HandlePutTails ==
  ASSUME LogletInv, LogletInv', TailsInv, Grown, NEW s \in Server, HandlePut(s)
  PROVE  TailsInv'
<1> PICK r \in msgs :
      /\ r.type = "put"
      /\ Observe(s, r.known)
      /\ IF Accepts(s, r)
           THEN /\ Write(s, r.position, r.command)
                /\ stored' = IF Awaited(s, r) THEN stored \cup {s} ELSE stored
                /\ UNCHANGED seq
           ELSE /\ UNCHANGED <<entries, stored>>
                /\ seq' = [seq EXCEPT !.replies = IF Awaited(s, r)
                     THEN @ \cup {[from |-> s, kind |-> IF s \in sealed THEN "sealed" ELSE "refused",
                                   tail |-> 0]}
                     ELSE @]
      /\ UNCHANGED <<sealed, trimmed, committed, acks, clients, msgs, crashes>>
  BY DEF HandlePut
<1>1. r \in PutRequest
  BY DEF LogletInv, TypeOK, SealRequest, TrimRequest
<1>2. /\ r.known \in Tail /\ Covers(Holdings, r.known)
      /\ r.position \in Position /\ r.command \in Command /\ r.command # NoCommand
  BY <1>1, CommandAssumption DEF PutRequest, TailsInv, ToldInv, Told
<1>3. \A u \in Server : serverKnown'[u] = serverKnown[u] \/ Covers(Holdings', serverKnown'[u])
  BY <1>2, ObserveTails
<1>4. ASSUME Accepts(s, r)
      PROVE  /\ \A u \in Server, p \in Position :
                  entries'[u][p] = entries[u][p] \/ Backs(Holdings', u, p)
             /\ r.position \in Holdings'[s]
  <2>1. /\ \A u \in Server, p \in Position :
             \/ entries'[u][p] = entries[u][p]
             \/ u = s /\ p = r.position
        /\ entries'[s][r.position] = r.command
    BY <1>2, <1>4 DEF Write, LogletInv, TypeOK
  <2>2. Backs(Holdings', s, r.position)
    BY <1>1, <1>2, <1>4, PredecessorBacked, CoversGrow DEF Accepts, Grown
  <2>3. HasHeld(s, r.position)'
    BY <1>2, <2>1 DEF HasHeld
  <2> QED BY <1>2, <2>1, <2>2, <2>3 DEF Holdings
<1>5. CommitInv'
  <2>0. \A t : Covers(Holdings, t) => Covers(Holdings', t)
    BY CoversGrow DEF Grown
  <2>1. CASE Accepts(s, r)
    <3>1. seq' = seq /\ stored' = IF Awaited(s, r) THEN stored \cup {s} ELSE stored
      BY <2>1
    <3>2. \A u \in Storers' : u \in Storers \/ (u = s /\ seq.request = r)
      BY <3>1 DEF Storers, Awaited
    <3>3. Storers \subseteq Server
      BY DEF Storers, StoredIn, LogletInv, TypeOK, SequencerState, PutAnswer
    <3> QED BY <2>0, <3>1, <3>2, <3>3, <1>4, <2>1 DEF TailsInv, CommitInv, Grown
  <2>2. CASE ~Accepts(s, r)
    <3> DEFINE answer == [from |-> s, kind |-> IF s \in sealed THEN "sealed" ELSE "refused", tail |-> 0]
               heard == IF Awaited(s, r) THEN seq.replies \cup {answer} ELSE seq.replies
    <3>1. seq' = [seq EXCEPT !.replies = heard] /\ stored' = stored
      BY <2>2
    <3>2. \A a \in heard : a \in seq.replies \/ (a.kind # "stored" /\ a.tail = 0)
      OBVIOUS
    <3>3. heard \subseteq seq.replies \cup {answer} /\ seq.replies \subseteq heard
      OBVIOUS
    <3> HIDE DEF heard
    <3>4. /\ seq'.pc = seq.pc /\ seq'.tail = seq.tail /\ seq'.request = seq.request
          /\ seq'.position = seq.position /\ seq'.entry = seq.entry /\ seq'.replies = heard
      BY <3>1 DEF LogletInv, TypeOK, SequencerState
    <3>5. Storers' = Storers
      <4>1. \A a : a \in heard /\ a.kind = "stored" <=> a \in seq.replies /\ a.kind = "stored"
        BY <3>2, <3>3
      <4>2. {x \in heard : x.kind = "stored"} = {x \in seq.replies : x.kind = "stored"}
        BY <4>1
      <4> QED BY <3>1, <3>4, <4>2 DEF Storers, StoredIn
    <3>6. Storers \subseteq Server
      BY DEF Storers, StoredIn, LogletInv, TypeOK, SequencerState, PutAnswer
    <3>7. \A a \in seq'.replies : Covers(Holdings', a.tail)
      BY <2>0, <3>2, <3>4, CoversZero DEF TailsInv, CommitInv
    <3> QED BY <2>0, <3>4, <3>5, <3>6, <3>7 DEF TailsInv, CommitInv, Grown
  <2> QED BY <2>1, <2>2
<1>6. \A u \in Server, p \in Position :
        entries'[u][p] # NoCommand => entries'[u][p] = entries[u][p] \/ Backs(Holdings', u, p)
  BY <1>4
<1>7. UNCHANGED <<trimmed, clientKnown, clientTrim, msgs, acks, call>>
  BY DEF clients
<1> QED BY <1>3, <1>5, <1>6, <1>7, TailsMove

LEMMA AnswerPutTails ==
  ASSUME LogletInv, LogletInv', TailsInv, Grown, NEW s \in Server, AnswerPut(s)
  PROVE  TailsInv'
<1> DEFINE answer == [from |-> s, kind |-> "stored", tail |-> serverKnown[s]]
<1>0. \A t : Covers(Holdings, t) => Covers(Holdings', t)
  BY CoversGrow DEF Grown
<1>1. /\ stored' = stored \ {s} /\ s \in stored
      /\ seq' = [seq EXCEPT !.replies = @ \cup {answer}]
      /\ UNCHANGED <<servers, committed, acks, clients, msgs, crashes>>
  BY DEF AnswerPut
<1>2. answer.kind = "stored" /\ answer.from = s /\ answer.tail = serverKnown[s]
  OBVIOUS
<1> HIDE DEF answer
<1>3. /\ seq'.pc = seq.pc /\ seq'.tail = seq.tail /\ seq'.request = seq.request
      /\ seq'.position = seq.position /\ seq'.entry = seq.entry /\ seq'.replies = seq.replies \cup {answer}
  BY <1>1 DEF LogletInv, TypeOK, SequencerState
<1>4. Storers' \subseteq Storers
  BY <1>1, <1>2, <1>3 DEF Storers, StoredIn
<1>5. Storers \subseteq Server
  BY DEF Storers, StoredIn, LogletInv, TypeOK, SequencerState, PutAnswer
<1>6. \A a \in seq'.replies : Covers(Holdings', a.tail)
  BY <1>0, <1>2, <1>3 DEF TailsInv, CommitInv, ServersInv
<1>7. CommitInv'
  BY <1>0, <1>3, <1>4, <1>5, <1>6 DEF TailsInv, CommitInv, Grown
<1> QED BY <1>1, <1>7, SequencerTails

LEMMA HandleSealTails ==
  ASSUME LogletInv, LogletInv', TailsInv, Grown, NEW s \in Server, HandleSeal(s)
  PROVE  TailsInv'
<1> PICK r \in msgs :
      /\ r.type = "seal"
      /\ Observe(s, r.known)
      /\ Answer(r.by, "seal", r.known, [from |-> s, tail |-> Larger(serverKnown[s], r.known)])
      /\ UNCHANGED <<entries, trimmed, sequencer, clientKnown, clientTrim, msgs, crashes>>
  BY DEF HandleSeal
<1>1. r.by \in Call /\ r.known \in Tail
  BY DEF LogletInv, TypeOK, PutRequest, SealRequest, TrimRequest
<1>2. Covers(Holdings, r.known)
  BY DEF TailsInv, ToldInv, Told
<1> DEFINE tail == Larger(serverKnown[s], r.known)
<1>3. /\ \A u \in Server : serverKnown'[u] = serverKnown[u] \/ Covers(Holdings', serverKnown'[u])
      /\ Covers(Holdings', tail)
  BY <1>1, <1>2, ObserveTails
<1>4. tail \in Tail
  BY <1>1, LargerTail DEF LogletInv, TypeOK
<1> HIDE DEF tail
<1>5. [from |-> s, tail |-> tail] \in ServerAnswer /\ Answer(r.by, "seal", r.known, [from |-> s, tail |-> tail])
  BY <1>4 DEF ServerAnswer, tail
<1>6. \A d \in Call : call'[d] = call[d] \/ HeardInv(Holdings', call'[d])
  BY <1>1, <1>3, <1>5, AnswerHeard
<1>7. UNCHANGED <<seq, stored, acks>>
  BY DEF sequencer
<1>8. CommitInv'
  BY <1>7, CommitStays
<1> QED BY <1>3, <1>6, <1>7, <1>8, TailsMove

LEMMA HandleTrimTails ==
  ASSUME LogletInv, LogletInv', TailsInv, Grown, NEW s \in Server, HandleTrim(s)
  PROVE  TailsInv'
<1> PICK r \in msgs :
      /\ r.type = "prefix_trim"
      /\ LET watermark == Larger(trimmed[s], r.position)
         IN  /\ trimmed' = [trimmed EXCEPT ![s] = watermark]
             /\ entries' = [entries EXCEPT ![s] =
                  [p \in Position |-> IF p < watermark THEN NoCommand ELSE entries[s][p]]]
             /\ Answer(r.by, "trim", r.position, [from |-> s, tail |-> watermark])
      /\ UNCHANGED <<sealed, serverKnown, sequencer, clientKnown, clientTrim, msgs, crashes>>
  BY DEF HandleTrim
<1> DEFINE watermark == Larger(trimmed[s], r.position)
<1>1. r.by \in Call /\ r.position \in Tail
  BY DEF LogletInv, TypeOK, PutRequest, SealRequest, TrimRequest
<1>2. watermark \in Tail
  BY <1>1, LargerTail DEF LogletInv, TypeOK
<1>3. Covers(Holdings, r.position)
  BY DEF TailsInv, ToldInv, Told
<1>4. Covers(Holdings', watermark)
  BY <1>3, CoversLarger, CoversGrow DEF TailsInv, ServersInv, Grown
<1>5. [from |-> s, tail |-> watermark] \in ServerAnswer
  BY <1>2 DEF ServerAnswer
<1>6. \A d \in Call : call'[d] = call[d] \/ HeardInv(Holdings', call'[d])
  BY <1>1, <1>4, <1>5, AnswerHeard
<1>7. \A u \in Server : trimmed'[u] = trimmed[u] \/ Covers(Holdings', trimmed'[u])
  BY <1>4 DEF LogletInv, TypeOK
<1>8. \A u \in Server, p \in Position : entries'[u][p] # NoCommand => entries'[u][p] = entries[u][p]
  BY DEF LogletInv, TypeOK
<1>9. UNCHANGED <<seq, stored, acks>>
  BY DEF sequencer
<1>10. CommitInv'
  BY <1>9, CommitStays
<1> QED BY <1>6, <1>7, <1>8, <1>9, <1>10, TailsMove

LEMMA RestartTails ==
  ASSUME LogletInv, LogletInv', TailsInv, Grown, NEW s \in Server, Restart(s)
  PROVE  TailsInv'
<1>0. \A t : Covers(Holdings, t) => Covers(Holdings', t)
  BY CoversGrow DEF Grown
<1>1. \A u \in Server : serverKnown'[u] = serverKnown[u] \/ Covers(Holdings', serverKnown'[u])
  BY CoversZero DEF Restart, LogletInv, TypeOK
<1>2. CommitInv'
  <2>1. /\ seq'.tail = seq.tail /\ seq'.replies \subseteq seq.replies
        /\ seq'.pc = "commit" => seq' = seq /\ stored' \subseteq stored
    BY DEF Restart, LogletInv, TypeOK, SequencerState
  <2>2. seq'.pc = "commit" => Storers' \subseteq Storers
    BY <2>1 DEF Storers
  <2>3. Storers \subseteq Server
    BY DEF Storers, StoredIn, LogletInv, TypeOK, SequencerState, PutAnswer
  <2> QED BY <1>0, <2>1, <2>2, <2>3 DEF TailsInv, CommitInv, Grown
<1>3. ASSUME NEW c \in Call PROVE HeardInv(Holdings', call'[c])
  <2>1. /\ call'[c].pc = call[c].pc /\ call'[c].asked = call[c].asked /\ call'[c].rows \subseteq call[c].rows
        /\ call'[c].replies = call[c].replies /\ call'[c].nodes = call[c].nodes
        /\ call'[c].todo = call[c].todo /\ call'[c].position = call[c].position
        /\ call'[c].result = call[c].result
    BY DEF Restart, LogletInv, TypeOK, CallState
  <2>2. call[c] \in CallState /\ CallInv(call[c]) /\ HeardInv(Holdings, call[c])
    BY DEF LogletInv, TypeOK, TailsInv
  <2>3. HeardInv(Holdings', call[c])
    BY <2>2, HeardGrows DEF Grown
  <2> QED BY <2>1, <2>3 DEF HeardInv
<1>4. UNCHANGED <<trimmed, entries, clientKnown, clientTrim, msgs, acks>>
  BY DEF Restart
<1> QED BY <1>1, <1>2, <1>3, <1>4, TailsMove
-----------------------------------------------------------------------------
(* The clients' tails.                                                     *)

\* What a call has heard is true after the step as well.
LEMMA HeardStill ==
  ASSUME LogletInv, TailsInv, Grown, NEW c \in Call
  PROVE  HeardInv(Holdings', call[c])
<1>1. call[c] \in CallState /\ CallInv(call[c]) /\ HeardInv(Holdings, call[c])
  BY DEF LogletInv, TypeOK, TailsInv
<1> QED BY <1>1, HeardGrows DEF Grown

\* A step of one call.
LEMMA ClientTails ==
  ASSUME LogletInv, LogletInv', TailsInv, Grown, NEW c \in Call, NEW state, Goto(c, state),
         HeardInv(Holdings', state), UNCHANGED <<trimmed, sequencer>>,
         \A s \in Server : serverKnown'[s] = serverKnown[s] \/ Covers(Holdings', serverKnown'[s]),
         \A s \in Server, p \in Position :
           entries'[s][p] # NoCommand => entries'[s][p] = entries[s][p] \/ Backs(Holdings', s, p),
         \A k \in Client : clientKnown'[k] = clientKnown[k] \/ Covers(Holdings', clientKnown'[k]),
         \A k \in Client : clientTrim'[k] = clientTrim[k] \/ Covers(Holdings', clientTrim'[k]),
         \A r \in msgs' : r \in msgs \/ Covers(Holdings', Told(r))
  PROVE  TailsInv'
<1>1. UNCHANGED <<seq, stored, acks>>
  BY DEF sequencer
<1>2. CommitInv'
  BY <1>1, CommitStays
<1>3. \A d \in Call : call'[d] = call[d] \/ HeardInv(Holdings', call'[d])
  BY DEF Goto, LogletInv, TypeOK
<1> QED BY <1>1, <1>2, <1>3, TailsMove

\* The same for a step that touches no server.
LEMMA LocalTails ==
  ASSUME LogletInv, LogletInv', TailsInv, Grown, NEW c \in Call, NEW state, Goto(c, state),
         HeardInv(Holdings', state), UNCHANGED <<servers, sequencer>>,
         \A k \in Client : clientKnown'[k] = clientKnown[k] \/ Covers(Holdings', clientKnown'[k]),
         \A k \in Client : clientTrim'[k] = clientTrim[k] \/ Covers(Holdings', clientTrim'[k]),
         \A r \in msgs' : r \in msgs \/ Covers(Holdings', Told(r))
  PROVE  TailsInv'
<1>1. UNCHANGED <<entries, trimmed, serverKnown>>
  BY DEF servers
<1> QED BY <1>1, ClientTails

\* A client takes note of a tail that is committed.
LEMMA LearnTails ==
  ASSUME LogletInv, TailsInv, Grown, NEW client \in Client, NEW known, Covers(Holdings', known),
         LearnTail(client, known)
  PROVE  \A k \in Client : clientKnown'[k] = clientKnown[k] \/ Covers(Holdings', clientKnown'[k])
<1>1. Covers(Holdings', clientKnown[client])
  BY CoversGrow DEF Grown, TailsInv, ToldInv
<1>2. Covers(Holdings', Larger(clientKnown[client], known))
  BY <1>1, CoversLarger
<1>3. \A k \in Client : clientKnown'[k] = IF k = client THEN Larger(clientKnown[client], known) ELSE clientKnown[k]
  BY DEF LearnTail, LogletInv, TypeOK
<1> QED BY <1>2, <1>3

\* A call that has heard nothing yet.
LEMMA HeardNothing ==
  ASSUME NEW h, NEW pc \in {"state", "seal", "trim", "done", "failed"}, NEW op, NEW client, NEW floor
  PROVE  HeardInv(h, NewCall(pc, op, client, floor))
BY CoversZero DEF HeardInv, NewCall, NoResult

\* A call that goes on to read states.
LEMMA HeardReading ==
  ASSUME NEW h, NEW state \in CallState, NEW known, HeardInv(h, state), Covers(h, known)
  PROVE  HeardInv(h, Reading(state, known))
<1>1. LET x == Reading(state, known)
      IN  x.pc = "state" /\ x.asked = known /\ x.rows = {} /\ x.replies = {} /\ x.result = state.result
  BY DEF Reading, CallState
<1> QED BY <1>1 DEF HeardInv

\* A call that reports a tail.
LEMMA HeardResult ==
  ASSUME NEW h, NEW c, NEW tail, NEW isSealed, Covers(h, tail)
  PROVE  HeardInv(h, TailResult(c, tail, isSealed))
<1> DEFINE x == TailResult(c, tail, isSealed)
<1>1. x.pc = "done" /\ x.asked = 0 /\ x.rows = {} /\ x.result.tail = tail
  BY DEF TailResult, NewCall
<1> HIDE DEF x
<1>2. HeardInv(h, x)
  BY <1>1, CoversZero DEF HeardInv
<1> QED BY <1>2 DEF x

LEMMA AppendReturnsTails ==
  ASSUME LogletInv, LogletInv', TailsInv, Grown, NEW client \in Client, AppendReturns(client)
  PROVE  TailsInv'
<1> PICK ack \in acks :
      /\ LearnTail(client, ack.known)
      /\ UNCHANGED <<servers, sequencer, clientTrim, call, msgs, crashes>>
  BY DEF AppendReturns
<1>1. Covers(Holdings', ack.known)
  BY CoversGrow DEF Grown, TailsInv, ToldInv
<1>2. \A k \in Client : clientKnown'[k] = clientKnown[k] \/ Covers(Holdings', clientKnown'[k])
  BY <1>1, LearnTails
<1>3. UNCHANGED <<seq, stored, acks, entries, trimmed, serverKnown>>
  BY DEF sequencer, servers
<1> QED BY <1>2, <1>3, CommitStays, TailsMove

LEMMA StartSealTails ==
  ASSUME LogletInv, LogletInv', TailsInv, Grown, NEW c \in Call, StartSeal(c)
  PROVE  TailsInv'
<1> PICK client \in Client :
      /\ Goto(c, [NewCall("seal", "seal", client, 0) EXCEPT !.asked = clientKnown[client]])
      /\ msgs' = msgs \cup {[type |-> "seal", by |-> c, known |-> clientKnown[client]]}
      /\ UNCHANGED <<servers, sequencer, clientKnown, clientTrim, crashes>>
  BY DEF StartSeal
<1> DEFINE state == [NewCall("seal", "seal", client, 0) EXCEPT !.asked = clientKnown[client]]
<1>1. Covers(Holdings', clientKnown[client])
  BY CoversGrow DEF Grown, TailsInv, ToldInv
<1>2. HeardInv(Holdings', state)
  BY <1>1 DEF HeardInv, NewCall, NoResult
<1>3. \A r \in msgs' : r \in msgs \/ Covers(Holdings', Told(r))
  BY <1>1 DEF Told
<1> HIDE DEF state
<1> QED BY <1>2, <1>3, LocalTails DEF state

LEMMA StartCheckTailTails ==
  ASSUME LogletInv, LogletInv', TailsInv, Grown, NEW c \in Call, StartCheckTail(c)
  PROVE  TailsInv'
<1> PICK client \in Client :
      /\ Goto(c, Reading(NewCall("state", "check_tail", client, Highest(Reported)),
                         clientKnown[client]))
      /\ UNCHANGED <<servers, sequencer, clientKnown, clientTrim, msgs, crashes>>
  BY DEF StartCheckTail
<1> DEFINE new == NewCall("state", "check_tail", client, Highest(Reported))
<1>1. Covers(Holdings', clientKnown[client])
  BY CoversGrow DEF Grown, TailsInv, ToldInv
<1>2. new \in CallState
  BY ReportedType, NewCallType DEF LogletInv
<1>3. HeardInv(Holdings', new)
  BY HeardNothing
<1> HIDE DEF new
<1>4. HeardInv(Holdings', Reading(new, clientKnown[client]))
  BY <1>1, <1>2, <1>3, HeardReading
<1>5. Goto(c, Reading(new, clientKnown[client]))
  BY DEF new
<1> QED BY <1>4, <1>5, LocalTails

LEMMA StartTrimTails ==
  ASSUME LogletInv, LogletInv', TailsInv, Grown, NEW c \in Call, StartTrim(c)
  PROVE  TailsInv'
<1> PICK client \in Client : \E position \in 1..clientKnown[client] :
      /\ Goto(c, [NewCall("trim", "prefix_trim", client, 0) EXCEPT !.asked = position])
      /\ msgs' = msgs \cup {[type |-> "prefix_trim", by |-> c, position |-> position]}
      /\ UNCHANGED <<servers, sequencer, clientKnown, clientTrim, crashes>>
  BY DEF StartTrim
<1> PICK position \in 1..clientKnown[client] :
      /\ Goto(c, [NewCall("trim", "prefix_trim", client, 0) EXCEPT !.asked = position])
      /\ msgs' = msgs \cup {[type |-> "prefix_trim", by |-> c, position |-> position]}
      /\ UNCHANGED <<servers, sequencer, clientKnown, clientTrim, crashes>>
  OBVIOUS
<1> DEFINE state == [NewCall("trim", "prefix_trim", client, 0) EXCEPT !.asked = position]
<1>1. Covers(Holdings', clientKnown[client])
  BY CoversGrow DEF Grown, TailsInv, ToldInv
<1>2. clientKnown[client] \in Tail /\ position \in Tail /\ position <= clientKnown[client]
  <2>1. clientKnown[client] \in Tail
    BY DEF LogletInv, TypeOK
  <2> QED BY <2>1, CommandCount DEF Tail
<1>3. Covers(Holdings', position)
  BY <1>1, <1>2, CoversLower
<1>4. HeardInv(Holdings', state)
  BY <1>3 DEF HeardInv, NewCall, NoResult
<1>5. \A r \in msgs' : r \in msgs \/ Covers(Holdings', Told(r))
  BY <1>3 DEF Told
<1> HIDE DEF state
<1> QED BY <1>4, <1>5, LocalTails DEF state

LEMMA GiveUpTails ==
  ASSUME LogletInv, LogletInv', TailsInv, Grown, NEW c \in Call, GiveUp(c)
  PROVE  TailsInv'
<1> DEFINE state == NewCall("failed", call[c].op, call[c].client, 0)
<1>1. HeardInv(Holdings', state)
  BY HeardNothing
<1>2. Goto(c, state) /\ UNCHANGED <<servers, sequencer, clientKnown, clientTrim, msgs>>
  BY DEF GiveUp
<1> HIDE DEF state
<1> QED BY <1>1, <1>2, LocalTails

\* What the answers to a seal or a trim tell is committed.
LEMMA AnswersCovered ==
  ASSUME LogletInv, TailsInv, Grown, NEW c \in Call, call[c].pc \in {"seal", "trim"},
         NEW R \in SUBSET call[c].replies
  PROVE  /\ Covers(Holdings', Highest({Known(c)} \cup Tails(R)))
         /\ R # {} => Covers(Holdings', Lowest(Tails(R)))
<1>1. {Known(c)} \cup Tails(R) \in SUBSET Tail
  BY AnswerTails, CallType
<1>2. \A r \in call[c].replies : Covers(Holdings', r.tail)
  BY HeardStill DEF HeardInv
<1>3. Covers(Holdings', Known(c))
  BY CallType, CoversGrow DEF Grown, TailsInv, ToldInv, Known
<1>4. \A n \in {Known(c)} \cup Tails(R) : Covers(Holdings', n)
  BY <1>2, <1>3 DEF Tails
<1>5. Covers(Holdings', Highest({Known(c)} \cup Tails(R)))
  BY <1>1, <1>4, CoversHighest
<1>6. ASSUME R # {} PROVE Covers(Holdings', Lowest(Tails(R)))
  <2>1. Tails(R) \in SUBSET Nat /\ Tails(R) # {}
    BY <1>1, <1>6, CommandCount DEF Tails, Tail
  <2>2. Lowest(Tails(R)) \in Tails(R)
    BY <2>1, LowestExists DEF Lowest
  <2> QED BY <1>4, <2>2
<1> QED BY <1>5, <1>6

LEMMA EndSealTails ==
  ASSUME LogletInv, LogletInv', TailsInv, Grown, NEW c \in Call, EndSeal(c)
  PROVE  TailsInv'
<1> PICK R \in SUBSET call[c].replies :
      /\ call[c].pc = "seal"
      /\ SetKnown(c, Highest({Known(c)} \cup Tails(R)))
      /\ Goto(c, IF call[c].op = "seal"
                   THEN [NewCall("done", "seal", call[c].client, 0) EXCEPT
                           !.result = [kind |-> "sealed"]]
                   ELSE Reading(call[c], Highest({Known(c)} \cup Tails(R))))
      /\ UNCHANGED <<servers, sequencer, clientTrim, msgs, crashes>>
  BY DEF EndSeal
<1> DEFINE known == Highest({Known(c)} \cup Tails(R))
           done == [NewCall("done", "seal", call[c].client, 0) EXCEPT !.result = [kind |-> "sealed"]]
           state == IF call[c].op = "seal" THEN done ELSE Reading(call[c], known)
<1>1. Covers(Holdings', known)
  BY AnswersCovered
<1>2. \A k \in Client : clientKnown'[k] = clientKnown[k] \/ Covers(Holdings', clientKnown'[k])
  BY <1>1, CallType, LearnTails DEF SetKnown
<1>3. HeardInv(Holdings', done)
  BY CoversZero DEF HeardInv, NewCall
<1> HIDE DEF known, done
<1>4. HeardInv(Holdings', Reading(call[c], known))
  BY <1>1, CallType, HeardStill, HeardReading
<1>5. HeardInv(Holdings', state) /\ Goto(c, state)
  BY <1>3, <1>4 DEF known, done
<1> HIDE DEF state
<1> QED BY <1>2, <1>5, LocalTails

LEMMA SealFailsTails ==
  ASSUME LogletInv, LogletInv', TailsInv, Grown, NEW c \in Call, SealFails(c)
  PROVE  TailsInv'
<1> DEFINE state == NewCall("failed", call[c].op, call[c].client, 0)
<1> PICK R \in SUBSET call[c].replies :
      /\ call[c].pc = "seal"
      /\ SetKnown(c, Highest({Known(c)} \cup Tails(R)))
      /\ Goto(c, state)
      /\ UNCHANGED <<servers, sequencer, clientTrim, msgs, crashes>>
  BY DEF SealFails
<1>1. HeardInv(Holdings', state)
  BY HeardNothing
<1>2. Covers(Holdings', Highest({Known(c)} \cup Tails(R)))
  BY AnswersCovered
<1>3. \A k \in Client : clientKnown'[k] = clientKnown[k] \/ Covers(Holdings', clientKnown'[k])
  BY <1>2, CallType, LearnTails DEF SetKnown
<1> HIDE DEF state
<1> QED BY <1>1, <1>3, LocalTails

LEMMA EndTrimTails ==
  ASSUME LogletInv, LogletInv', TailsInv, Grown, NEW c \in Call, EndTrim(c)
  PROVE  TailsInv'
<1> DEFINE state == [NewCall("done", "prefix_trim", call[c].client, 0) EXCEPT
                       !.result = [kind |-> "trimmed"]]
<1> PICK R \in SUBSET call[c].replies :
      /\ call[c].pc = "trim" /\ Froms(R) \in Quorum
      /\ clientTrim' = [clientTrim EXCEPT ![call[c].client] = Larger(@, Lowest(Tails(R)))]
      /\ Goto(c, state)
      /\ UNCHANGED <<servers, sequencer, clientKnown, msgs, crashes>>
  BY DEF EndTrim
<1>1. HeardInv(Holdings', state)
  BY CoversZero DEF HeardInv, NewCall
<1>2. R # {}
  BY QuorumNonempty DEF Froms
<1>3. Covers(Holdings', Lowest(Tails(R)))
  BY <1>2, AnswersCovered
<1>4. \A k \in Client : Covers(Holdings', clientTrim[k])
  BY CoversGrow DEF Grown, TailsInv, ToldInv
<1>5. Covers(Holdings', Larger(clientTrim[call[c].client], Lowest(Tails(R))))
  BY <1>3, <1>4, CallType, CoversLarger
<1>6. \A k \in Client : clientTrim'[k] = clientTrim[k] \/ Covers(Holdings', clientTrim'[k])
  BY <1>5, CallType DEF LogletInv, TypeOK
<1> HIDE DEF state
<1> QED BY <1>1, <1>6, LocalTails
-----------------------------------------------------------------------------
(* The states that a check_tail reads, and its repair.                     *)

\* A server backs the tail of its own state.
LEMMA LocalTailBacked ==
  ASSUME LogletInv, TailsInv, NEW s \in Server, NEW w \in Tail, Covers(Holdings, w)
  PROVE  Backs(Holdings, s, LocalTail(s, w))
<1> DEFINE S == {w} \cup {p + 1 : p \in {q \in Position : entries[s][q] # NoCommand}}
<1>1. S \in SUBSET Tail /\ S # {}
  BY PositionTail
<1>2. LocalTail(s, w) \in S
  BY <1>1, HighestTail DEF LocalTail
<1>3. CASE LocalTail(s, w) = w
  BY <1>3 DEF Covers, Backs
<1>4. ASSUME NEW p \in Position, entries[s][p] # NoCommand PROVE Backs(Holdings, s, p + 1)
  <2>1. \A q \in Position : q < p + 1 => q < p \/ q = p
    BY DEF Position
  <2>2. Backs(Holdings, s, p)
    BY <1>4 DEF TailsInv, ServersInv
  <2>3. p \in Holdings[s]
    BY <1>4, HoldingsAre
  <2> QED BY <2>1, <2>2, <2>3 DEF Backs
<1> QED BY <1>2, <1>3, <1>4

\* What a state says of its server is true of what is held.
LEMMA StateHeard ==
  ASSUME LogletInv, TailsInv, Grown, NEW s \in Server, NEW known, Covers(Holdings', known), NEW row,
         row.trimmed \in Tail, Covers(Holdings, row.trimmed)
  PROVE  LET r == StateOf(s, row, known)
         IN  Covers(Holdings', r.known) /\ Covers(Holdings', r.trimmed) /\ Backs(Holdings', r.from, r.tail)
<1>1. Covers(Holdings', row.trimmed) /\ Backs(Holdings', s, LocalTail(s, row.trimmed))
  BY LocalTailBacked, CoversGrow DEF Grown
<1> QED BY <1>1 DEF StateOf

\* A call that is asking hears one more state, or row.
LEMMA HeardAsking ==
  ASSUME NEW h, NEW x \in CallState, x.pc = "state", HeardInv(h, x), NEW rows, NEW replies,
         \A row \in rows : row \in x.rows \/ Covers(h, row.trimmed),
         \A r \in replies :
           \/ r \in x.replies
           \/ Covers(h, r.known) /\ Covers(h, r.trimmed) /\ Backs(h, r.from, r.tail)
  PROVE  HeardInv(h, [x EXCEPT !.rows = rows, !.replies = replies])
<1> DEFINE y == [x EXCEPT !.rows = rows, !.replies = replies]
<1>1. y.pc = "state" /\ y.rows = rows /\ y.replies = replies /\ y.asked = x.asked /\ y.result = x.result
  BY DEF CallState
<1> HIDE DEF y
<1>2. HeardInv(h, y)
  BY <1>1 DEF HeardInv
<1> QED BY <1>2 DEF y

LEMMA ReadStateTails ==
  ASSUME LogletInv, LogletInv', TailsInv, Grown, NEW c \in Call, NEW s \in Server, ReadState(c, s)
  PROVE  TailsInv'
<1> DEFINE known == Larger(serverKnown[s], call[c].asked)
           new == StateOf(s, RowOf(s), known)
           replies == call[c].replies \cup {new}
           state == [call[c] EXCEPT !.rows = call[c].rows, !.replies = replies]
<1>1. call[c] \in CallState /\ call[c].pc = "state" /\ call[c].asked \in Tail
  BY CallType, AskingParts DEF ReadState, Unread
<1>2. Covers(Holdings, call[c].asked) /\ Observe(s, call[c].asked)
  BY DEF TailsInv, HeardInv, ReadState
<1>3. /\ \A u \in Server : serverKnown'[u] = serverKnown[u] \/ Covers(Holdings', serverKnown'[u])
      /\ Covers(Holdings', known)
  BY <1>1, <1>2, ObserveTails
<1>4. RowOf(s).trimmed = trimmed[s] /\ trimmed[s] \in Tail /\ Covers(Holdings, trimmed[s])
  BY DEF RowOf, LogletInv, TypeOK, TailsInv, ServersInv
<1> HIDE DEF known
<1>5. /\ Covers(Holdings', new.known) /\ Covers(Holdings', new.trimmed)
      /\ Backs(Holdings', new.from, new.tail)
  BY <1>3, <1>4, StateHeard
<1>6. state = [call[c] EXCEPT !.replies = @ \cup {new}]
  BY <1>1 DEF CallState
<1>7. Goto(c, state) /\ UNCHANGED <<entries, trimmed, sequencer, clientKnown, clientTrim, msgs>>
  BY <1>6 DEF ReadState, known
<1> HIDE DEF new
<1>8. HeardInv(Holdings', state)
  BY <1>1, <1>5, HeardStill, HeardAsking
<1> HIDE DEF state
<1> QED BY <1>3, <1>7, <1>8, ClientTails

LEMMA ReadRowTails ==
  ASSUME LogletInv, LogletInv', TailsInv, Grown, NEW c \in Call, NEW s \in Server, ReadRow(c, s)
  PROVE  TailsInv'
<1> DEFINE rows == call[c].rows \cup {RowOf(s)}
           state == [call[c] EXCEPT !.rows = rows, !.replies = call[c].replies]
<1>1. call[c] \in CallState /\ call[c].pc = "state" /\ call[c].asked \in Tail
  BY CallType, AskingParts DEF ReadRow, Unread
<1>2. Covers(Holdings, call[c].asked) /\ Observe(s, call[c].asked)
  BY DEF TailsInv, HeardInv, ReadRow
<1>3. \A u \in Server : serverKnown'[u] = serverKnown[u] \/ Covers(Holdings', serverKnown'[u])
  BY <1>1, <1>2, ObserveTails
<1>4. Covers(Holdings', RowOf(s).trimmed)
  BY CoversGrow DEF Grown, RowOf, TailsInv, ServersInv
<1>5. state = [call[c] EXCEPT !.rows = @ \cup {RowOf(s)}]
  BY <1>1 DEF CallState
<1>6. Goto(c, state) /\ UNCHANGED <<entries, trimmed, sequencer, clientKnown, clientTrim, msgs>>
  BY <1>5 DEF ReadRow
<1>7. \A row \in rows : row \in call[c].rows \/ Covers(Holdings', row.trimmed)
  BY <1>4
<1> HIDE DEF rows
<1>8. HeardInv(Holdings', state)
  BY <1>1, <1>7, HeardStill, HeardAsking
<1> HIDE DEF state
<1> QED BY <1>3, <1>6, <1>8, ClientTails

LEMMA ReadLastTails ==
  ASSUME LogletInv, LogletInv', TailsInv, Grown, NEW c \in Call, NEW s \in Server, ReadLast(c, s)
  PROVE  TailsInv'
<1> PICK row \in call[c].rows :
      /\ call[c].pc = "state" /\ row.from = s
      /\ Goto(c, [call[c] EXCEPT !.rows = @ \ {row},
                                 !.replies = @ \cup {StateOf(s, row, serverKnown[s])}])
      /\ UNCHANGED <<servers, sequencer, clientKnown, clientTrim, msgs, crashes>>
  BY DEF ReadLast
<1> DEFINE new == StateOf(s, row, serverKnown[s])
           rows == call[c].rows \ {row}
           replies == call[c].replies \cup {new}
           state == [call[c] EXCEPT !.rows = rows, !.replies = replies]
<1>1. call[c] \in CallState /\ row.trimmed \in Tail
  BY CallType, AskingParts
<1>2. Covers(Holdings, row.trimmed) /\ Covers(Holdings', serverKnown[s])
  BY CoversGrow DEF Grown, TailsInv, HeardInv, ServersInv
<1>3. /\ Covers(Holdings', new.known) /\ Covers(Holdings', new.trimmed)
      /\ Backs(Holdings', new.from, new.tail)
  BY <1>1, <1>2, StateHeard
<1>4. Goto(c, state)
  BY <1>1 DEF CallState
<1> HIDE DEF new
<1>5. HeardInv(Holdings', state)
  BY <1>1, <1>3, HeardStill, HeardAsking
<1> HIDE DEF state
<1> QED BY <1>4, <1>5, LocalTails

\* What a client makes of the states of a quorum is committed.
LEMMA StatesReadTails ==
  ASSUME LogletInv, TailsInv, Grown, NEW c \in Call, NEW R \in SUBSET call[c].replies,
         StatesRead(c, R)
  PROVE  /\ Covers(Holdings', KnownAfter(c, R))
         /\ \A k \in Client : clientTrim'[k] = clientTrim[k] \/ Covers(Holdings', clientTrim'[k])
         /\ Covers(Holdings', clientTrim'[call[c].client])
         /\ \A r \in R : r.from \in Server /\ r.tail \in Tail /\ Backs(Holdings', r.from, r.tail)
<1>1. call[c].pc = "state" /\ R \in SUBSET ServerState /\ call[c].client \in Client
  BY AskingParts, CallType DEF StatesRead
<1>2. \A r \in R : /\ Covers(Holdings', r.known) /\ Covers(Holdings', r.trimmed)
                   /\ Backs(Holdings', r.from, r.tail)
  BY <1>1, HeardStill DEF HeardInv
<1>3. \A k \in Client : Covers(Holdings', clientKnown[k]) /\ Covers(Holdings', clientTrim[k])
  BY CoversGrow DEF Grown, TailsInv, ToldInv
<1>4. Known(c) \in Tail /\ clientTrim[call[c].client] \in Tail
  BY <1>1, CallType DEF LogletInv, TypeOK
<1>5. {Known(c)} \cup {r.known : r \in R} \in SUBSET Tail
  BY <1>1, <1>4 DEF ServerState
<1>6. \A n \in {Known(c)} \cup {r.known : r \in R} : Covers(Holdings', n)
  BY <1>1, <1>2, <1>3 DEF Known
<1>7. Covers(Holdings', KnownAfter(c, R))
  BY <1>5, <1>6, CoversHighest DEF KnownAfter
<1> DEFINE T == {clientTrim[call[c].client]} \cup {r.trimmed : r \in R}
<1>8. T \in SUBSET Tail
  BY <1>1, <1>4 DEF ServerState
<1>9. \A n \in T : Covers(Holdings', n)
  BY <1>1, <1>2, <1>3
<1>10. Covers(Holdings', Highest(T))
  BY <1>8, <1>9, CoversHighest
<1>11. clientTrim' = [clientTrim EXCEPT ![call[c].client] = Highest(T)]
  BY DEF StatesRead
<1> HIDE DEF T
<1>12. /\ \A k \in Client : clientTrim'[k] = clientTrim[k] \/ Covers(Holdings', clientTrim'[k])
       /\ Covers(Holdings', clientTrim'[call[c].client])
  BY <1>1, <1>10, <1>11 DEF LogletInv, TypeOK
<1> QED BY <1>1, <1>2, <1>7, <1>12 DEF ServerState

LEMMA SealRestTails ==
  ASSUME LogletInv, LogletInv', TailsInv, Grown, NEW c \in Call, SealRest(c)
  PROVE  TailsInv'
<1> PICK R \in SUBSET call[c].replies :
      /\ StatesRead(c, R)
      /\ SetKnown(c, KnownAfter(c, R))
      /\ msgs' = msgs \cup {[type |-> "seal", by |-> c, known |-> KnownAfter(c, R)]}
      /\ Goto(c, [call[c] EXCEPT !.pc = "seal", !.asked = KnownAfter(c, R), !.rows = {},
                    !.replies = {}])
      /\ UNCHANGED <<servers, sequencer, crashes>>
  BY DEF SealRest
<1> DEFINE known == KnownAfter(c, R)
           state == [call[c] EXCEPT !.pc = "seal", !.asked = known, !.rows = {}, !.replies = {}]
<1>1. /\ Covers(Holdings', known)
      /\ \A k \in Client : clientTrim'[k] = clientTrim[k] \/ Covers(Holdings', clientTrim'[k])
  BY StatesReadTails
<1>2. \A k \in Client : clientKnown'[k] = clientKnown[k] \/ Covers(Holdings', clientKnown'[k])
  BY <1>1, CallType, LearnTails DEF SetKnown
<1> HIDE DEF known
<1>3. \A r \in msgs' : r \in msgs \/ Covers(Holdings', Told(r))
  BY <1>1 DEF Told, known
<1>4. /\ state.pc = "seal" /\ state.asked = known /\ state.rows = {} /\ state.replies = {}
      /\ state.result = call[c].result
  BY CallType DEF CallState
<1>5. Goto(c, state)
  BY DEF known
<1> HIDE DEF state
<1>6. HeardInv(Holdings', state)
  BY <1>1, <1>4, HeardStill DEF HeardInv
<1> QED BY <1>1, <1>2, <1>3, <1>5, <1>6, LocalTails

\* A tail that all states of a quorum reach is committed.
LEMMA TailReached ==
  ASSUME LogletInv, TailsInv, Grown, NEW c \in Call, NEW R \in SUBSET call[c].replies,
         StatesRead(c, R), NEW tail \in Tail, Froms({r \in R : r.tail >= tail}) \in Quorum
  PROVE  Covers(Holdings', tail)
<1>1. \A r \in R : r.from \in Server /\ r.tail \in Tail /\ Backs(Holdings', r.from, r.tail)
  BY StatesReadTails
<1>2. \A r \in R : r.tail >= tail => \A p \in Position : p < tail => p < r.tail
  BY <1>1, CommandCount DEF Tail, Position
<1>3. \A s \in Froms({r \in R : r.tail >= tail}) : Backs(Holdings', s, tail)
  BY <1>1, <1>2 DEF Froms, Backs
<1> QED BY <1>3, CoversBacked

LEMMA StartRepairTails ==
  ASSUME LogletInv, LogletInv', TailsInv, Grown, NEW c \in Call, StartRepair(c)
  PROVE  TailsInv'
<1> PICK R \in SUBSET call[c].replies :
      /\ StatesRead(c, R)
      /\ LET tail == Highest(Tails(R))
             first == clientTrim'[call[c].client]
         IN  IF first < tail
               THEN /\ SetKnown(c, KnownAfter(c, R))
                    /\ Goto(c, [call[c] EXCEPT !.pc = "read", !.rows = {}, !.replies = {},
                                  !.tail = tail, !.position = first, !.nodes = Froms(R),
                                  !.todo = Froms(R)])
               ELSE /\ SetKnown(c, Larger(KnownAfter(c, R), tail))
                    /\ Goto(c, TailResult(c, tail, TRUE))
      /\ UNCHANGED <<servers, sequencer, msgs, crashes>>
  BY DEF StartRepair
<1> DEFINE tail == Highest(Tails(R))
           first == clientTrim'[call[c].client]
<1>1. /\ tail \in Tail /\ first \in Tail /\ KnownAfter(c, R) \in Tail
      /\ Covers(Holdings', KnownAfter(c, R)) /\ Covers(Holdings', first)
      /\ \A k \in Client : clientTrim'[k] = clientTrim[k] \/ Covers(Holdings', clientTrim'[k])
      /\ call[c] \in CallState /\ Froms(R) \in Quorum
  BY StatesReadType, StatesReadTails, CallType DEF StatesRead
<1>2. CASE first < tail
  <2> DEFINE state == [call[c] EXCEPT !.pc = "read", !.rows = {}, !.replies = {},
                         !.tail = tail, !.position = first, !.nodes = Froms(R), !.todo = Froms(R)]
  <2>1. Goto(c, state) /\ SetKnown(c, KnownAfter(c, R))
    BY <1>2
  <2>2. \A k \in Client : clientKnown'[k] = clientKnown[k] \/ Covers(Holdings', clientKnown'[k])
    BY <1>1, <2>1, CallType, LearnTails DEF SetKnown
  <2> HIDE DEF tail, first
  <2>3. /\ state.pc = "read" /\ state.asked = call[c].asked /\ state.rows = {}
        /\ state.result = call[c].result /\ state.nodes = Froms(R) /\ state.position = first
    BY <1>1 DEF CallState
  <2> HIDE DEF state
  <2>4. HeardInv(Holdings', state)
    BY <1>1, <2>3, HeardStill DEF HeardInv
  <2> QED BY <1>1, <2>1, <2>2, <2>4, LocalTails
<1>3. CASE ~(first < tail)
  <2>1. Goto(c, TailResult(c, tail, TRUE)) /\ SetKnown(c, Larger(KnownAfter(c, R), tail))
    BY <1>3
  <2> HIDE DEF tail, first
  <2>2. Covers(Holdings', tail)
    <3>1. tail <= first
      BY <1>1, <1>3, CommandCount DEF Tail
    <3> QED BY <1>1, <3>1, CoversLower
  <2>3. Covers(Holdings', Larger(KnownAfter(c, R), tail))
    BY <1>1, <2>2, CoversLarger
  <2>4. \A k \in Client : clientKnown'[k] = clientKnown[k] \/ Covers(Holdings', clientKnown'[k])
    BY <2>1, <2>3, CallType, LearnTails DEF SetKnown
  <2>5. HeardInv(Holdings', TailResult(c, tail, TRUE))
    BY <2>2, HeardResult
  <2> QED BY <1>1, <2>1, <2>4, <2>5, LocalTails
<1> QED BY <1>2, <1>3

LEMMA ReportOpenTailTails ==
  ASSUME LogletInv, LogletInv', TailsInv, Grown, NEW c \in Call, ReportOpenTail(c)
  PROVE  TailsInv'
<1> PICK R \in SUBSET call[c].replies :
      /\ StatesRead(c, R) /\ Settled(c, R, Highest(Tails(R)))
      /\ SetKnown(c, Larger(KnownAfter(c, R), Highest(Tails(R))))
      /\ Goto(c, TailResult(c, Highest(Tails(R)), FALSE))
      /\ UNCHANGED <<servers, sequencer, msgs, crashes>>
  BY DEF ReportOpenTail
<1> DEFINE tail == Highest(Tails(R))
<1>1. /\ tail \in Tail /\ KnownAfter(c, R) \in Tail /\ Covers(Holdings', KnownAfter(c, R))
      /\ \A k \in Client : clientTrim'[k] = clientTrim[k] \/ Covers(Holdings', clientTrim'[k])
  BY StatesReadType, StatesReadTails
<1>2. Goto(c, TailResult(c, tail, FALSE)) /\ SetKnown(c, Larger(KnownAfter(c, R), tail)) /\ Settled(c, R, tail)
  OBVIOUS
<1> HIDE DEF tail
<1>3. Covers(Holdings', tail)
  <2>1. CASE tail = 0
    BY <2>1, CoversZero
  <2>2. CASE KnownAfter(c, R) >= tail
    <3>1. tail <= KnownAfter(c, R)
      BY <1>1, <2>2, CommandCount DEF Tail
    <3> QED BY <1>1, <3>1, CoversLower
  <2> QED BY <1>1, <1>2, <2>1, <2>2, TailReached DEF Settled
<1>4. Covers(Holdings', Larger(KnownAfter(c, R), tail))
  BY <1>1, <1>3, CoversLarger
<1>5. \A k \in Client : clientKnown'[k] = clientKnown[k] \/ Covers(Holdings', clientKnown'[k])
  BY <1>2, <1>4, CallType, LearnTails DEF SetKnown
<1>6. HeardInv(Holdings', TailResult(c, tail, FALSE))
  BY <1>3, HeardResult
<1> QED BY <1>1, <1>2, <1>5, <1>6, LocalTails

LEMMA AwaitProgressTails ==
  ASSUME LogletInv, LogletInv', TailsInv, Grown, NEW c \in Call, AwaitProgress(c)
  PROVE  TailsInv'
<1> PICK R \in SUBSET call[c].replies :
      /\ StatesRead(c, R)
      /\ SetKnown(c, KnownAfter(c, R))
      /\ Goto(c, [call[c] EXCEPT !.pc = "wait", !.asked = KnownAfter(c, R), !.rows = {},
                    !.replies = R, !.tail = Highest(Tails(R))])
      /\ UNCHANGED <<servers, sequencer, msgs, crashes>>
  BY DEF AwaitProgress
<1> DEFINE known == KnownAfter(c, R)
           state == [call[c] EXCEPT !.pc = "wait", !.asked = known, !.rows = {},
                       !.replies = R, !.tail = Highest(Tails(R))]
<1>1. /\ Covers(Holdings', known)
      /\ \A k \in Client : clientTrim'[k] = clientTrim[k] \/ Covers(Holdings', clientTrim'[k])
  BY StatesReadTails
<1>2. \A k \in Client : clientKnown'[k] = clientKnown[k] \/ Covers(Holdings', clientKnown'[k])
  BY <1>1, CallType, LearnTails DEF SetKnown
<1> HIDE DEF known
<1>3. state.pc = "wait" /\ state.asked = known /\ state.rows = {} /\ state.result = call[c].result
  BY CallType DEF CallState
<1>4. Goto(c, state)
  BY DEF known
<1> HIDE DEF state
<1>5. HeardInv(Holdings', state)
  BY <1>1, <1>3, HeardStill DEF HeardInv
<1> QED BY <1>1, <1>2, <1>4, <1>5, LocalTails

LEMMA NotifiedTails ==
  ASSUME LogletInv, LogletInv', TailsInv, Grown, NEW c \in Call, NEW s \in Server, Notified(c, s)
  PROVE  TailsInv'
<1> DEFINE known == Larger(serverKnown[s], call[c].asked)
           state == Reading(call[c], Larger(Known(c), known))
<1>1. /\ Observe(s, call[c].asked) /\ SetKnown(c, known) /\ Goto(c, state)
      /\ UNCHANGED <<entries, trimmed, sequencer, clientTrim, msgs>>
  BY DEF Notified
<1>2. call[c].asked \in Tail /\ Covers(Holdings, call[c].asked) /\ call[c] \in CallState
  BY CallType DEF CallState, TailsInv, HeardInv
<1>3. /\ \A u \in Server : serverKnown'[u] = serverKnown[u] \/ Covers(Holdings', serverKnown'[u])
      /\ Covers(Holdings', known)
  BY <1>1, <1>2, ObserveTails
<1>4. \A k \in Client : clientKnown'[k] = clientKnown[k] \/ Covers(Holdings', clientKnown'[k])
  BY <1>1, <1>3, CallType, LearnTails DEF SetKnown
<1> HIDE DEF known
<1>5. Covers(Holdings', Known(c))
  <2>1. Covers(Holdings, Known(c))
    BY CallType DEF TailsInv, ToldInv, Known
  <2> QED BY <2>1, CoversGrow DEF Grown
<1>6. Covers(Holdings', Larger(Known(c), known))
  BY <1>3, <1>5, CoversLarger
<1>7. HeardInv(Holdings', state)
  BY <1>2, <1>6, HeardStill, HeardReading
<1> HIDE DEF state
<1> QED BY <1>1, <1>3, <1>4, <1>7, ClientTails

LEMMA ReadCopyTails ==
  ASSUME LogletInv, LogletInv', TailsInv, Grown, NEW c \in Call, NEW s \in Server, ReadCopy(c, s)
  PROVE  TailsInv'
<1> DEFINE copies == call[c].copies \cup ({entries[s][call[c].position]} \ {NoCommand})
           next == [call[c] EXCEPT !.todo = @ \ {s}, !.copies = copies]
           last == [call[c] EXCEPT !.pc = "repair", !.todo = call[c].nodes, !.copies = copies]
           state == IF call[c].todo # {s} THEN next ELSE last
<1>1. /\ call[c].pc = "read" /\ Observe(s, Known(c)) /\ Goto(c, state)
      /\ UNCHANGED <<entries, trimmed, sequencer, clientKnown, clientTrim, msgs>>
  BY DEF ReadCopy
<1>2. call[c] \in CallState /\ Known(c) \in Tail /\ Covers(Holdings, Known(c))
  BY CallType DEF TailsInv, ToldInv, Known
<1>3. \A u \in Server : serverKnown'[u] = serverKnown[u] \/ Covers(Holdings', serverKnown'[u])
  BY <1>1, <1>2, ObserveTails
<1> HIDE DEF copies
<1>4. /\ state.pc \in {"read", "repair"} /\ state.asked = call[c].asked /\ state.rows = call[c].rows
      /\ state.nodes = call[c].nodes /\ state.position = call[c].position
      /\ state.result = call[c].result /\ (state.pc = "repair" => state.todo = state.nodes)
  BY <1>1, <1>2 DEF CallState
<1> HIDE DEF state
<1>5. HeardInv(Holdings', state)
  BY <1>1, <1>4, HeardStill DEF HeardInv
<1> QED BY <1>1, <1>3, <1>5, ClientTails

LEMMA RepairCopyTails ==
  ASSUME LogletInv, LogletInv', TailsInv, Grown, NEW c \in Call, NEW s \in Server, RepairCopy(c, s)
  PROVE  TailsInv'
<1> DEFINE position == call[c].position
           again == [call[c] EXCEPT !.todo = @ \ {s}]
           next == [call[c] EXCEPT !.pc = "read", !.position = @ + 1, !.todo = call[c].nodes,
                      !.copies = {}]
<1>1. /\ call[c].pc = "repair" /\ s \in call[c].todo /\ Observe(s, Known(c))
      /\ UNCHANGED <<sealed, trimmed, sequencer, clientTrim, msgs, crashes>>
  BY DEF RepairCopy
<1>2. /\ call[c] \in CallState /\ Known(c) \in Tail /\ Covers(Holdings, Known(c))
      /\ position \in Position /\ call[c].tail \in Tail
      /\ call[c].nodes \in SUBSET Server
  BY <1>1, CallType, RepairParts DEF TailsInv, ToldInv, Known
<1>3. \A u \in Server : serverKnown'[u] = serverKnown[u] \/ Covers(Holdings', serverKnown'[u])
  BY <1>1, <1>2, ObserveTails
<1>4. HeardInv(Holdings', call[c]) /\ call[c].nodes \in Quorum /\ Covers(Holdings', position)
  BY <1>1, HeardStill DEF HeardInv
<1>5. PICK command \in call[c].copies :
        \/ entries[s][position] # NoCommand /\ UNCHANGED entries
        \/ Write(s, position, command)
  BY DEF RepairCopy
<1>6. command \in Command /\ command # NoCommand
  BY <1>1, <1>5, RepairParts, CommandAssumption
<1>7. /\ \A u \in Server, p \in Position : entries'[u][p] = entries[u][p] \/ p = position
      /\ entries'[s][position] # NoCommand
  <2>1. CASE Write(s, position, command)
    <3> HIDE DEF position
    <3> QED BY <1>2, <1>6, <2>1 DEF Write, LogletInv, TypeOK
  <2> QED BY <1>5, <2>1
<1>8. \A u \in Server, p \in Position :
        entries'[u][p] # NoCommand => entries'[u][p] = entries[u][p] \/ Backs(Holdings', u, p)
  BY <1>4, <1>7 DEF Covers, Backs
<1>9. position \in Holdings'[s]
  BY <1>2, <1>7 DEF Holdings, HasHeld
<1>10. CASE call[c].todo # {s}
  <2>1. Goto(c, again) /\ UNCHANGED clientKnown
    BY <1>10 DEF RepairCopy
  <2>2. /\ again.pc = "repair" /\ again.asked = call[c].asked /\ again.rows = call[c].rows
        /\ again.nodes = call[c].nodes /\ again.position = position
        /\ again.todo = call[c].todo \ {s} /\ again.result = call[c].result
    BY <1>1, <1>2 DEF CallState
  <2> HIDE DEF again
  <2>3. HeardInv(Holdings', again)
    BY <1>1, <1>4, <1>9, <2>2 DEF HeardInv
  <2> QED BY <1>1, <1>3, <1>8, <2>1, <2>3, ClientTails
<1>11. ASSUME call[c].todo = {s} PROVE Covers(Holdings', position + 1)
  <2>1. \A u \in call[c].nodes : position \in Holdings'[u]
    BY <1>1, <1>4, <1>9, <1>11 DEF HeardInv
  <2> QED BY <1>2, <1>4, <2>1, CoversNext
<1>12. CASE call[c].todo = {s} /\ position + 1 < call[c].tail
  <2>1. Goto(c, next) /\ UNCHANGED clientKnown
    BY <1>12 DEF RepairCopy
  <2>2. /\ next.pc = "read" /\ next.asked = call[c].asked /\ next.rows = call[c].rows
        /\ next.nodes = call[c].nodes /\ next.position = position + 1 /\ next.result = call[c].result
    BY <1>1, <1>2 DEF CallState
  <2> HIDE DEF next
  <2>3. HeardInv(Holdings', next)
    BY <1>4, <1>11, <1>12, <2>2 DEF HeardInv
  <2> QED BY <1>1, <1>3, <1>8, <2>1, <2>3, ClientTails
<1>13. CASE call[c].todo = {s} /\ ~(position + 1 < call[c].tail)
  <2>1. Goto(c, TailResult(c, call[c].tail, TRUE)) /\ SetKnown(c, call[c].tail)
    BY <1>13 DEF RepairCopy
  <2>2. Covers(Holdings', call[c].tail)
    <3>1. position + 1 \in Tail /\ call[c].tail <= position + 1
      <4> DEFINE tail == call[c].tail
      <4>1. tail \in Nat /\ ~(position + 1 < tail) /\ position \in Nat
        BY <1>2, <1>13, CommandCount DEF Tail, Position
      <4> HIDE DEF position, tail
      <4>2. tail <= position + 1
        BY <4>1
      <4> QED BY <1>2, <4>2, PositionTail DEF tail
    <3> QED BY <1>2, <1>11, <1>13, <3>1, CoversLower
  <2>3. \A k \in Client : clientKnown'[k] = clientKnown[k] \/ Covers(Holdings', clientKnown'[k])
    BY <2>1, <2>2, CallType, LearnTails DEF SetKnown
  <2>4. HeardInv(Holdings', TailResult(c, call[c].tail, TRUE))
    BY <2>2, HeardResult
  <2> QED BY <1>1, <1>3, <1>8, <2>1, <2>3, <2>4, ClientTails
<1> QED BY <1>10, <1>12, <1>13
-----------------------------------------------------------------------------
(* What is known of the tail, in every behaviour.                          *)

LEMMA InitTails ==
  ASSUME Init
  PROVE  TailsInv
<1>1. ServersInv
  BY CoversZero DEF Init, ServersInv
<1>2. ToldInv
  BY CoversZero DEF Init, ToldInv
<1>3. CommitInv
  BY CoversZero DEF Init, CommitInv
<1> DEFINE new == NewCall("idle", "none", CHOOSE k \in Client : TRUE, 0)
<1>4. HeardInv(Holdings, new)
  BY CoversZero DEF HeardInv, NewCall, NoResult
<1>5. call = [c \in Call |-> new]
  BY DEF Init
<1> HIDE DEF new
<1> QED BY <1>1, <1>2, <1>3, <1>4, <1>5 DEF TailsInv

LEMMA StutterTails ==
  ASSUME LogletInv, LogletInv', TailsInv, Grown, UNCHANGED vars
  PROVE  TailsInv'
<1>1. UNCHANGED <<seq, stored, acks, entries, trimmed, serverKnown, clientKnown, clientTrim, msgs, call>>
  BY DEF vars, servers, sequencer, clients
<1> QED BY <1>1, CommitStays, TailsMove

LEMMA OperationTails ==
  ASSUME LogletInv, LogletInv', TailsInv, Grown, NEW c \in Call, Operation(c)
  PROVE  TailsInv'
BY EndSealTails, SealFailsTails, EndTrimTails, SealRestTails, StartRepairTails,
   ReportOpenTailTails, AwaitProgressTails, ReadStateTails, ReadRowTails, ReadLastTails,
   NotifiedTails, ReadCopyTails, RepairCopyTails DEF Operation

LEMMA NextTails ==
  ASSUME LogletInv, TrimmedInv, TailsInv, [Next]_vars
  PROVE  TailsInv'
<1>1. LogletInv' /\ Grown
  BY NextStep, GrowsStep, HoldingsGrow
<1>2. CASE \E k \in Command : AppendAgain(k) \/ Append(k)
  BY <1>1, <1>2, AppendAgainTails, AppendTails
<1>3. CASE Sequencer \/ Cancel
  BY <1>1, <1>3, SequencerStepTails
<1>4. CASE \E s \in Server : LogServer(s) \/ Restart(s)
  BY <1>1, <1>4, HandlePutTails, AnswerPutTails, HandleSealTails, HandleTrimTails, RestartTails
     DEF LogServer
<1>5. CASE \E client \in Client : AppendReturns(client)
  BY <1>1, <1>5, AppendReturnsTails
<1>6. CASE \E c \in Call : \/ StartSeal(c) \/ StartCheckTail(c) \/ StartTrim(c) \/ GiveUp(c)
                           \/ Operation(c)
  BY <1>1, <1>6, StartSealTails, StartCheckTailTails, StartTrimTails, GiveUpTails, OperationTails
<1>7. CASE UNCHANGED vars
  BY <1>1, <1>7, StutterTails
<1> QED BY <1>2, <1>3, <1>4, <1>5, <1>6, <1>7 DEF Next

\* Every tail that anyone knows, has been told, is on its way to tell or has made of a
\* repair is committed, in every behaviour.
THEOREM TailsInvariant == Spec => [](LogletInv /\ TrimmedInv /\ TailsInv)
<1>1. Init => LogletInv /\ TrimmedInv /\ TailsInv
  <2>1. Init => TrimmedInv
    BY CommandCount DEF Init, TrimmedInv, Position
  <2> QED BY <2>1, InitInv, InitTails
<1>2. LogletInv /\ TrimmedInv /\ TailsInv /\ [Next]_vars => (LogletInv /\ TrimmedInv /\ TailsInv)'
  BY NextStep, GrowsStep, NextTails
<1> QED BY <1>1, <1>2, PTL DEF Spec

\* A known tail is a lower bound of the global tail, whoever knows it and however it got
\* there: acknowledgements, late puts, seals, repairs, restarts and trims included, a
\* quorum holds, or has trimmed, every position below it.
THEOREM KnownTailsCommitted == Spec => []KnownTailsAreCommitted
<1>1. TailsInv => KnownTailsAreCommitted
  <2>1. \A p \in Position : HeldByQuorum(p) <=> Holders(Holdings, p) \in Quorum
    BY DEF HeldByQuorum, Holders, Holdings
  <2>2. TailsInv => \A tail \in KnownTails : Covers(Holdings, tail)
    BY DEF TailsInv, ServersInv, ToldInv, CommitInv, KnownTails
  <2> QED BY <2>1, <2>2 DEF Covers, KnownTailsAreCommitted
<1> QED BY <1>1, TailsInvariant, PTL
-----------------------------------------------------------------------------
(* What a reported tail accounts for.                                      *)

\* What is closed stays closed, and what a step commits is below every closed tail.
Closes ==
  /\ sealed \subseteq sealed'
  /\ \A s \in Server, tail \in Tail : ClosedAt(s, tail) => ClosedAt(s, tail)'
  /\ \A p \in committed' : p \in committed \/
       \E P \in Quorum :
         \A s \in P : p \in Holdings'[s] /\ \A tail \in Tail : ClosedAt(s, tail) => p < tail

\* A step that does not commit.
LEMMA NothingCloses ==
  ASSUME UNCHANGED <<sealed, seq, stored, committed>>
  PROVE  Closes
<1>1. Storers' = Storers
  BY DEF Storers
<1> QED BY <1>1 DEF Closes, ClosedAt

\* What a call has been shown stays so while holdings grow and its rows become fewer.
LEMMA FloorKept ==
  ASSUME NEW h, NEW g, \A s \in Server : h[s] \subseteq g[s], NEW x, NEW y, FloorInv(h, x),
         y.pc = x.pc, y.floor = x.floor, y.tail = x.tail, y.result = x.result,
         y.pc = "state" => y.replies = x.replies
  PROVE  FloorInv(g, y)
<1>1. PICK Q \in Quorum :
        /\ x.floor > 0 => \A s \in Q : x.floor - 1 \in h[s]
        /\ x.pc = "state" => \A r \in x.replies : r.from \in Q => r.tail >= x.floor
  BY DEF FloorInv
<1>2. x.floor > 0 => \A s \in Q : x.floor - 1 \in g[s]
  BY <1>1 DEF Quorum
<1> QED BY <1>1, <1>2 DEF FloorInv

LEMMA ShownKept ==
  ASSUME NEW h, NEW g, \A s \in Server : h[s] \subseteq g[s], NEW x, NEW y, ShownInv(h, x),
         y.pc = x.pc, y.tail = x.tail, y.result = x.result, y.rows \subseteq x.rows,
         y.pc = "state" => y.replies = x.replies
  PROVE  ShownInv(g, y)
<1>1. ASSUME y.pc = "state", NEW p \in committed
      PROVE  \E P \in Quorum :
               /\ \A s \in P : p \in g[s]
               /\ \A r \in y.replies : r.sealed /\ r.from \in P => p < r.tail
  <2>1. PICK P \in Quorum :
          /\ \A s \in P : p \in h[s]
          /\ \A r \in x.replies : r.sealed /\ r.from \in P => p < r.tail
    BY <1>1 DEF ShownInv
  <2> QED BY <1>1, <2>1 DEF Quorum
<1> QED BY <1>1 DEF ShownInv

LEMMA ReportsMove ==
  ASSUME LogletInv, LogletInv', ReportsInv, Grown, StatesWhole', Closes,
         \A c \in Call : FloorInv(Holdings', call'[c]) /\ ShownInv(Holdings', call'[c])
  PROVE  ReportsInv'
<1>1. \A p \in committed' : Holders(Holdings', p) \in Quorum
  <2>1. ASSUME NEW p \in committed PROVE Holders(Holdings', p) \in Quorum
    <3>1. Holders(Holdings, p) \in Quorum /\ Holders(Holdings, p) \subseteq Holders(Holdings', p)
          /\ Holders(Holdings', p) \in SUBSET Server
      BY DEF ReportsInv, Holders, Grown
    <3> QED BY <3>1, QuorumGrows
  <2>2. ASSUME NEW p \in committed', NEW P \in Quorum, \A s \in P : p \in Holdings'[s]
        PROVE  Holders(Holdings', p) \in Quorum
    <3>1. P \subseteq Holders(Holdings', p) /\ Holders(Holdings', p) \in SUBSET Server
      BY <2>2 DEF Holders, Quorum
    <3> QED BY <3>1, QuorumGrows
  <2> QED BY <2>1, <2>2 DEF Closes
<1>2. ASSUME NEW tail \in Tail, Closed(tail) PROVE Closed(tail)'
  <2>1. PICK Q \in Quorum : \A s \in Q : ClosedAt(s, tail)
    BY <1>2 DEF Closed
  <2>2. \A s \in Q : s \in Server
    BY DEF Quorum
  <2>3. \A s \in Q : ClosedAt(s, tail)'
    BY <2>1, <2>2 DEF Closes
  <2>4. ASSUME NEW p \in committed' PROVE p < tail
    <3>1. CASE p \in committed
      BY <1>2, <3>1 DEF Closed
    <3>2. CASE p \notin committed
      <4>1. PICK P \in Quorum : \A s \in P : \A t \in Tail : ClosedAt(s, t) => p < t
        BY <3>2 DEF Closes
      <4>2. PICK s \in Server : s \in P /\ s \in Q
        BY QuorumsMeet
      <4> QED BY <2>1, <4>1, <4>2
    <3> QED BY <3>1, <3>2
  <2> QED BY <2>3, <2>4 DEF Closed
<1>3. ASSUME NEW c \in Call PROVE ShownInv(Holdings, call[c])'
  <2> DEFINE x == call'[c]
  <2>1. /\ ShownInv(Holdings', x) /\ x.tail \in Tail
        /\ x.rows \subseteq [from : Server, sealed : BOOLEAN, trimmed : Tail]
    BY DEF LogletInv, TypeOK, CallState
  <2>2. x.pc = "state" => \A r \in x.replies : r.from \in Server /\ r.tail \in Tail
    BY DEF LogletInv, TypeOK, CallInv, ServerState
  <2>3. x.result.kind = "tail" => x.result.tail \in Tail
    <3>1. x.result \in CallResult
      BY DEF LogletInv, TypeOK, CallState
    <3> QED BY <3>1 DEF CallResult, NoResult
  <2> HIDE DEF x
  <2>4. \A row \in x.rows : row.sealed => row.from \in sealed'
    BY <2>1 DEF ShownInv, Closes
  <2>5. x.pc = "state" => \A r \in x.replies : r.sealed => ClosedAt(r.from, r.tail) /\ ClosedAt(r.from, r.tail)'
    BY <2>1, <2>2 DEF ShownInv, Closes
  <2>6. ASSUME x.pc = "state", NEW p \in committed'
        PROVE  \E P \in Quorum :
                 /\ \A s \in P : p \in Holdings'[s]
                 /\ \A r \in x.replies : r.sealed /\ r.from \in P => p < r.tail
    <3>1. CASE p \in committed
      BY <2>1, <2>6, <3>1 DEF ShownInv
    <3>2. CASE p \notin committed
      <4>1. PICK P \in Quorum : \A s \in P : p \in Holdings'[s] /\ \A t \in Tail : ClosedAt(s, t) => p < t
        BY <3>2 DEF Closes
      <4>2. \A r \in x.replies : r.sealed /\ r.from \in P => p < r.tail
        BY <2>2, <2>5, <2>6, <4>1
      <4> QED BY <4>1, <4>2
    <3> QED BY <3>1, <3>2
  <2>7. ASSUME x.pc \in {"read", "repair"} PROVE Closed(call[c].tail)'
    <3>1. PICK tail \in Tail : tail = call'[c].tail
      BY <2>1 DEF x
    <3>2. Closed(tail)'
      BY <1>2, <2>1, <2>7, <3>1 DEF ShownInv, x
    <3> QED BY <3>1, <3>2 DEF Closed, ClosedAt
  <2>8. ASSUME x.result.kind = "tail", x.result.sealed PROVE Closed(call[c].result.tail)'
    <3>1. PICK tail \in Tail : tail = call'[c].result.tail
      BY <2>3, <2>8 DEF x
    <3>2. Closed(tail)'
      BY <1>2, <2>1, <2>8, <3>1 DEF ShownInv, x
    <3> QED BY <3>1, <3>2 DEF Closed, ClosedAt
  <2>9. x.pc = "state" => \A r \in x.replies : r.sealed => ClosedAt(r.from, r.tail)'
    BY <2>5
  <2> QED BY <2>4, <2>6, <2>7, <2>8, <2>9 DEF ShownInv, x
<1> QED BY <1>1, <1>3 DEF ReportsInv

\* A call hears no state in a step: it keeps what it was shown.
HearsNoState(c) ==
  /\ call'[c].pc = call[c].pc /\ call'[c].floor = call[c].floor /\ call'[c].tail = call[c].tail
  /\ call'[c].result = call[c].result /\ call'[c].rows \subseteq call[c].rows
  /\ call'[c].pc = "state" => call'[c].replies = call[c].replies

\* A step after which no call has heard one more state.
LEMMA ReportsStay ==
  ASSUME LogletInv, LogletInv', ReportsInv, Grown, StatesWhole', Closes,
         \A c \in Call : HearsNoState(c)
  PROVE  ReportsInv'
<1>1. ASSUME NEW c \in Call PROVE FloorInv(Holdings', call'[c]) /\ ShownInv(Holdings', call'[c])
  <2>1. FloorInv(Holdings, call[c]) /\ ShownInv(Holdings, call[c])
    BY DEF ReportsInv
  <2>2. HearsNoState(c)
    OBVIOUS
  <2>3. FloorInv(Holdings', call'[c])
    BY <2>1, <2>2, FloorKept DEF Grown, HearsNoState
  <2>4. ShownInv(Holdings', call'[c])
    BY <2>1, <2>2, ShownKept DEF Grown, HearsNoState
  <2> QED BY <2>3, <2>4
<1> QED BY <1>1, ReportsMove

\* A step of one call.
LEMMA ReportsLocal ==
  ASSUME LogletInv, LogletInv', ReportsInv, Grown, NEW c \in Call, NEW state, Goto(c, state),
         FloorInv(Holdings', state), ShownInv(Holdings', state), StatesWhole',
         UNCHANGED <<sealed, sequencer>>
  PROVE  ReportsInv'
<1>1. Closes
  BY NothingCloses DEF sequencer
<1>2. ASSUME NEW d \in Call PROVE FloorInv(Holdings', call'[d]) /\ ShownInv(Holdings', call'[d])
  <2>1. call' = [call EXCEPT ![c] = state] /\ call \in [Call -> CallState]
    BY DEF Goto, LogletInv, TypeOK
  <2>2. CASE d = c
    BY <2>1, <2>2
  <2>3. CASE d # c
    <3>1. call'[d] = call[d]
      BY <2>1, <2>3
    <3>2. FloorInv(Holdings, call[d]) /\ ShownInv(Holdings, call[d])
      BY DEF ReportsInv
    <3>3. FloorInv(Holdings', call[d]) /\ ShownInv(Holdings', call[d])
      BY <3>2, FloorKept, ShownKept DEF Grown
    <3> QED BY <3>1, <3>3
  <2> QED BY <2>2, <2>3
<1> QED BY <1>1, <1>2, ReportsMove
-----------------------------------------------------------------------------
(* The steps of the sequencer and of the LogServers.                       *)

\* A step that trims nothing, asks for no trim and reads no row.
LEMMA WholeStays ==
  ASSUME ReportsInv, UNCHANGED trimmed, \A r \in msgs' : r \in msgs \/ r.type # "prefix_trim",
         \A c \in Call : HearsNoState(c)
  PROVE  StatesWhole'
BY DEF ReportsInv, StatesWhole, HearsNoState

\* A server that has stored the put of this round was not sealed when it did.
LEMMA StorersClose ==
  ASSUME sealed \subseteq sealed', UNCHANGED committed,
         seq'.pc = "commit" => /\ seq.pc = "commit" /\ seq'.request = seq.request
                               /\ \A u \in Storers' : u \in Storers \/ u \notin sealed
  PROVE  Closes
BY DEF Closes, ClosedAt

\* A round ends: whoever is sealed has stored nothing of the next one.
LEMMA RoundCloses ==
  ASSUME UNCHANGED sealed, seq'.pc = "commit" => Storers' = {},
         \A p \in committed' : p \in committed \/
           \E P \in Quorum :
         \A s \in P : p \in Holdings'[s] /\ \A tail \in Tail : ClosedAt(s, tail) => p < tail
  PROVE  Closes
BY DEF Closes, ClosedAt

\* What a round commits is below the tail of every server that stored it and is closed.
LEMMA CommitCloses ==
  ASSUME LogletInv, TailsInv, Grown, NEW R \in SUBSET seq.replies, seq.pc = "commit",
         StoredIn(R) \in Quorum, committed' = committed \cup {seq.position[seq.entry]}
  PROVE  \A p \in committed' : p \in committed \/
           \E P \in Quorum :
         \A s \in P : p \in Holdings'[s] /\ \A tail \in Tail : ClosedAt(s, tail) => p < tail
<1> DEFINE p == seq.position[seq.entry]
<1>1. seq.request.position = p /\ \A s \in Storers : p \in Holdings[s]
  BY DEF TailsInv, CommitInv
<1>2. StoredIn(R) \subseteq Storers /\ StoredIn(R) \subseteq Server
  BY DEF StoredIn, Storers, Quorum
<1>3. \A s \in StoredIn(R) : p \in Holdings'[s] /\ \A tail \in Tail : ClosedAt(s, tail) => p < tail
  BY <1>1, <1>2 DEF Grown, ClosedAt
<1> HIDE DEF p
<1> QED BY <1>3 DEF p

\* A step of the sequencer that ends a round or begins one.
LEMMA SequencerReports ==
  ASSUME LogletInv, LogletInv', TailsInv, ReportsInv, Grown, UNCHANGED <<servers, clients>>,
         \A r \in msgs' : r \in msgs \/ r.type # "prefix_trim", Closes
  PROVE  ReportsInv'
<1>1. UNCHANGED <<trimmed, call>>
  BY DEF servers, clients
<1>2. \A c \in Call : HearsNoState(c)
  BY <1>1 DEF HearsNoState
<1> QED BY <1>1, <1>2, WholeStays, ReportsStay

LEMMA RoundReports ==
  ASSUME LogletInv, LogletInv', TailsInv, ReportsInv, Grown, NEW state \in SequencerState,
         NEW k \in Command, NEW p \in Position, NEW caller, Round(state, k, p, caller),
         UNCHANGED <<servers, clients>>,
         \A q \in committed' : q \in committed \/
           \E P \in Quorum : \A s \in P : q \in Holdings'[s] /\ \A tail \in Tail : ClosedAt(s, tail) => q < tail
  PROVE  ReportsInv'
<1>1. seq'.replies = {} /\ stored' = {} /\ msgs' = msgs \cup {Put(p, k, state.tail)}
  BY DEF Round, SequencerState
<1>2. \A r \in msgs' : r \in msgs \/ r.type # "prefix_trim"
  BY <1>1 DEF Put
<1>3. Storers' = {}
  BY <1>1 DEF Storers, StoredIn
<1>4. Closes
  BY <1>3, RoundCloses DEF servers
<1> QED BY <1>2, <1>4, SequencerReports

LEMMA StopReports ==
  ASSUME LogletInv, LogletInv', TailsInv, ReportsInv, Grown, NEW tail, Stop(tail),
         UNCHANGED <<servers, clients, committed>>
  PROVE  ReportsInv'
<1>1. seq'.pc = "idle" /\ msgs' = msgs
  BY DEF LogletInv, TypeOK, SequencerState, Stop
<1>2. Closes
  BY <1>1, RoundCloses DEF servers
<1> QED BY <1>1, <1>2, SequencerReports

LEMMA AppendAgainReports ==
  ASSUME LogletInv, LogletInv', TailsInv, ReportsInv, Grown, NEW k \in Command, AppendAgain(k)
  PROVE  ReportsInv'
<1>1. UNCHANGED <<servers, clients, seq, stored, committed, msgs>>
  BY DEF AppendAgain
<1>2. Closes
  BY <1>1, NothingCloses DEF servers
<1> QED BY <1>1, <1>2, SequencerReports

\* A round that the sequencer begins is for a position within the bounds.
LEMMA PositionForPosition ==
  ASSUME LogletInv, NEW k \in Command
  PROVE  PositionFor(seq, k) \in Position
<1>1. CASE k \in Given
  BY <1>1, GivenPosition DEF LogletInv, PositionFor, Given, Assigned
<1>2. CASE k \notin Given
  BY <1>2, NextIsFree DEF LogletInv, PositionFor, Given, Assigned
<1> QED BY <1>1, <1>2

LEMMA AppendReports ==
  ASSUME LogletInv, LogletInv', TailsInv, ReportsInv, Grown, NEW k \in Command, Append(k)
  PROVE  ReportsInv'
<1> DEFINE first == IF seq.pending = NoCommand THEN k ELSE seq.pending
<1>1. first \in Command /\ seq \in SequencerState
  BY DEF LogletInv, TypeOK, SequencerState
<1>2. Round(seq, first, PositionFor(seq, first), k) /\ UNCHANGED <<servers, clients, committed>>
  BY DEF Append
<1> HIDE DEF first
<1> QED BY <1>1, <1>2, PositionForPosition, RoundReports

LEMMA AcknowledgeReports ==
  ASSUME LogletInv, LogletInv', TailsInv, ReportsInv, Grown, Acknowledge
  PROVE  ReportsInv'
<1> PICK R \in SUBSET seq.replies :
      /\ seq.pc = "commit" /\ StoredIn(R) \in Quorum
      /\ seq' = [seq EXCEPT !.pc = "idle", !.tail = TailAfter(R) + 1, !.pending = NoCommand,
                   !.entry = NoCommand, !.caller = NoCommand, !.request = NoRequest, !.replies = {}]
      /\ committed' = committed \cup {seq.position[seq.entry]}
      /\ UNCHANGED <<servers, clients, msgs>>
  BY DEF Acknowledge
<1>1. seq'.pc = "idle"
  BY DEF LogletInv, TypeOK, SequencerState
<1>2. Closes
  BY <1>1, CommitCloses, RoundCloses DEF servers
<1> QED BY <1>2, SequencerReports

LEMMA CommitPendingReports ==
  ASSUME LogletInv, LogletInv', TailsInv, ReportsInv, Grown, CommitPending
  PROVE  ReportsInv'
<1> PICK R \in SUBSET seq.replies :
      /\ seq.pc = "commit" /\ StoredIn(R) \in Quorum /\ Contiguous(R)
      /\ Round([seq EXCEPT !.tail = TailAfter(R) + 1], seq.caller, PositionFor(seq, seq.caller),
               seq.caller)
      /\ committed' = committed \cup {seq.position[seq.entry]}
      /\ UNCHANGED <<servers, clients>>
  BY DEF CommitPending
<1>1. TailAfter(R) + 1 \in Tail /\ seq.caller \in Command
  BY CommittedCovered, RoundEnd
<1>2. [seq EXCEPT !.tail = TailAfter(R) + 1] \in SequencerState
  BY <1>1 DEF LogletInv, TypeOK, SequencerState
<1> QED BY <1>1, <1>2, PositionForPosition, CommitCloses, RoundReports

LEMMA RetryReports ==
  ASSUME LogletInv, LogletInv', TailsInv, ReportsInv, Grown, Retry
  PROVE  ReportsInv'
<1> PICK R \in SUBSET seq.replies : RetryAfter(R)
  BY DEF Retry
<1>1. /\ seq.pc = "commit"
      /\ Round([seq EXCEPT !.tail = TailAfter(R)], seq.entry, seq.position[seq.entry], seq.caller)
      /\ UNCHANGED <<servers, clients, committed>>
  BY DEF RetryAfter
<1>2. TailAfter(R) \in Tail /\ seq.entry \in Given /\ seq.entry \in Command
  BY <1>1, TailAfterCovered DEF LogletInv, RoundInv, Given
<1>3. [seq EXCEPT !.tail = TailAfter(R)] \in SequencerState
  BY <1>2 DEF LogletInv, TypeOK, SequencerState
<1>4. seq.position[seq.entry] \in Position
  BY <1>2, GivenPosition DEF LogletInv
<1> QED BY <1>1, <1>2, <1>3, <1>4, RoundReports

LEMMA SequencerStepReports ==
  ASSUME LogletInv, LogletInv', TailsInv, ReportsInv, Grown, Sequencer \/ Cancel
  PROVE  ReportsInv'
<1>1. CASE NotContiguous
  BY <1>1, StopReports DEF NotContiguous
<1>2. CASE SealedOut
  BY <1>2, StopReports DEF SealedOut
<1>3. CASE Cancel
  BY <1>3, StopReports DEF Cancel
<1> QED BY <1>1, <1>2, <1>3, AcknowledgeReports, CommitPendingReports, RetryReports DEF Sequencer

LEMMA HandlePutReports ==
  ASSUME LogletInv, LogletInv', TailsInv, ReportsInv, Grown, NEW s \in Server, HandlePut(s)
  PROVE  ReportsInv'
<1> PICK r \in msgs :
      /\ IF Accepts(s, r)
           THEN /\ stored' = IF Awaited(s, r) THEN stored \cup {s} ELSE stored
                /\ UNCHANGED seq
           ELSE /\ UNCHANGED <<entries, stored>>
                /\ seq' = [seq EXCEPT !.replies = IF Awaited(s, r)
                     THEN @ \cup {[from |-> s, kind |-> IF s \in sealed THEN "sealed" ELSE "refused",
                                   tail |-> 0]}
                     ELSE @]
      /\ UNCHANGED <<sealed, trimmed, committed, acks, clients, msgs, crashes>>
  BY DEF HandlePut
<1>1. Closes
  <2>1. CASE Accepts(s, r)
    <3>1. \A u \in Storers' : u \in Storers \/ u \notin sealed
      BY <2>1 DEF Storers, Accepts
    <3> QED BY <2>1, <3>1, StorersClose
  <2>2. CASE ~Accepts(s, r)
    <3> DEFINE answer == [from |-> s, kind |-> IF s \in sealed THEN "sealed" ELSE "refused", tail |-> 0]
               heard == IF Awaited(s, r) THEN seq.replies \cup {answer} ELSE seq.replies
    <3>1. seq' = [seq EXCEPT !.replies = heard] /\ stored' = stored
      BY <2>2
    <3>2. \A a \in heard : a.kind = "stored" => a \in seq.replies
      OBVIOUS
    <3> HIDE DEF heard
    <3>3. seq'.pc = seq.pc /\ seq'.request = seq.request /\ seq'.replies = heard
      BY <3>1 DEF LogletInv, TypeOK, SequencerState
    <3>4. Storers' \subseteq Storers
      BY <3>1, <3>2, <3>3 DEF Storers, StoredIn
    <3> QED BY <3>3, <3>4, StorersClose
  <2> QED BY <2>1, <2>2
<1>2. \A c \in Call : HearsNoState(c)
  BY DEF HearsNoState, clients
<1> QED BY <1>1, <1>2, WholeStays, ReportsStay

LEMMA AnswerPutReports ==
  ASSUME LogletInv, LogletInv', TailsInv, ReportsInv, Grown, NEW s \in Server, AnswerPut(s)
  PROVE  ReportsInv'
<1> DEFINE answer == [from |-> s, kind |-> "stored", tail |-> serverKnown[s]]
<1>1. /\ stored' = stored \ {s} /\ s \in stored
      /\ seq' = [seq EXCEPT !.replies = @ \cup {answer}]
      /\ UNCHANGED <<servers, committed, clients, msgs>>
  BY DEF AnswerPut
<1>2. answer.from = s
  OBVIOUS
<1> HIDE DEF answer
<1>3. seq'.pc = seq.pc /\ seq'.request = seq.request /\ seq'.replies = seq.replies \cup {answer}
  BY <1>1 DEF LogletInv, TypeOK, SequencerState
<1>4. Storers' \subseteq Storers
  BY <1>1, <1>2, <1>3 DEF Storers, StoredIn
<1>5. Closes
  BY <1>1, <1>3, <1>4, StorersClose DEF servers
<1> QED BY <1>1, <1>5, SequencerReports

\* An answer to a seal or a trim is no state.
LEMMA AnswerHearsNoState ==
  ASSUME LogletInv, NEW c \in Call, NEW pc \in {"seal", "trim"}, NEW known,
         NEW reply \in ServerAnswer, Answer(c, pc, known, reply)
  PROVE  \A d \in Call : HearsNoState(d)
<1>1. call[c] \in CallState
  BY DEF LogletInv, TypeOK
<1>2. \A d \in Call : call'[d] = call[d] => HearsNoState(d)
  BY DEF HearsNoState
<1>3. ASSUME call[c].pc = pc, call'[c] = [call[c] EXCEPT !.replies = @ \cup {reply}]
      PROVE  HearsNoState(c)
  <2>1. /\ call'[c].pc = pc /\ call'[c].floor = call[c].floor /\ call'[c].rows = call[c].rows
        /\ call'[c].tail = call[c].tail /\ call'[c].result = call[c].result
    BY <1>1, <1>3 DEF CallState
  <2> QED BY <1>3, <2>1 DEF HearsNoState
<1> QED BY <1>2, <1>3, AnswerEffect

LEMMA HandleSealReports ==
  ASSUME LogletInv, LogletInv', TailsInv, ReportsInv, Grown, NEW s \in Server, HandleSeal(s)
  PROVE  ReportsInv'
<1> PICK r \in msgs :
      /\ r.type = "seal"
      /\ sealed' = sealed \cup {s}
      /\ Answer(r.by, "seal", r.known, [from |-> s, tail |-> Larger(serverKnown[s], r.known)])
      /\ UNCHANGED <<entries, trimmed, sequencer, clientKnown, clientTrim, msgs, crashes>>
  BY DEF HandleSeal
<1>1. r.by \in Call /\ r.known \in Tail
  BY DEF LogletInv, TypeOK, PutRequest, SealRequest, TrimRequest
<1>2. [from |-> s, tail |-> Larger(serverKnown[s], r.known)] \in ServerAnswer
  BY <1>1, LargerTail DEF ServerAnswer, LogletInv, TypeOK
<1>3. \A c \in Call : HearsNoState(c)
  BY <1>1, <1>2, AnswerHearsNoState
<1>4. Closes
  <2>1. UNCHANGED <<seq, stored, committed>>
    BY DEF sequencer
  <2>2. Storers' = Storers
    BY <2>1 DEF Storers
  <2> QED BY <2>1, <2>2, StorersClose
<1> QED BY <1>3, <1>4, WholeStays, ReportsStay

\* A trim that runs while states are read in two queries was asked for by nobody.
LEMMA HandleTrimReports ==
  ASSUME LogletInv, LogletInv', TailsInv, ReportsInv, Grown, NEW s \in Server, HandleTrim(s)
  PROVE  ReportsInv'
<1> PICK r \in msgs :
      /\ r.type = "prefix_trim"
      /\ Answer(r.by, "trim", r.position, [from |-> s, tail |-> Larger(trimmed[s], r.position)])
      /\ UNCHANGED <<sealed, serverKnown, sequencer, clientKnown, clientTrim, msgs, crashes>>
  BY DEF HandleTrim
<1>1. r.by \in Call /\ r.position \in Tail
  BY DEF LogletInv, TypeOK, PutRequest, SealRequest, TrimRequest
<1>2. [from |-> s, tail |-> Larger(trimmed[s], r.position)] \in ServerAnswer
  BY <1>1, LargerTail DEF ServerAnswer, LogletInv, TypeOK
<1>3. \A c \in Call : HearsNoState(c)
  BY <1>1, <1>2, AnswerHearsNoState
<1>4. Closes
  BY NothingCloses DEF sequencer
<1>5. StatesWhole'
  <2>1. ~TornReads
    BY DEF ReportsInv, StatesWhole
  <2> QED BY <1>3, <2>1 DEF ReportsInv, StatesWhole, HearsNoState
<1> QED BY <1>3, <1>4, <1>5, ReportsStay

LEMMA RestartReports ==
  ASSUME LogletInv, LogletInv', TailsInv, ReportsInv, Grown, NEW s \in Server, Restart(s)
  PROVE  ReportsInv'
<1>1. \A c \in Call : HearsNoState(c)
  BY DEF Restart, LogletInv, TypeOK, CallState, HearsNoState
<1>2. Closes
  <2>1. seq'.pc = "commit" => seq' = seq /\ stored' \subseteq stored
    BY DEF Restart, LogletInv, TypeOK, SequencerState
  <2>2. seq'.pc = "commit" => Storers' \subseteq Storers
    BY <2>1 DEF Storers
  <2>3. UNCHANGED <<sealed, committed>>
    BY DEF Restart
  <2> QED BY <2>1, <2>2, <2>3, StorersClose
<1>3. UNCHANGED <<trimmed, msgs>>
  BY DEF Restart
<1> QED BY <1>1, <1>2, <1>3, WholeStays, ReportsStay
-----------------------------------------------------------------------------
(* The steps of the clients.                                               *)

LEMMA ServersAreQuorum == Server \in Quorum
<1>1. Cardinality(Server) \in Nat /\ Cardinality(Server) >= 3
  BY ServerAssumption, FS_CardinalityType
<1>2. Cardinality(Server) >= Cardinality(Server) \div 2 + 1
  BY <1>1
<1> QED BY <1>2 DEF Quorum

\* What a call has been shown is so after the step as well.
LEMMA ShownStill ==
  ASSUME ReportsInv, Grown, NEW c \in Call
  PROVE  FloorInv(Holdings', call[c]) /\ ShownInv(Holdings', call[c])
BY FloorKept, ShownKept DEF ReportsInv, Grown

\* What is committed is held by a quorum.
LEMMA CommittedHeld ==
  ASSUME ReportsInv, Grown
  PROVE  \A p \in committed : \E P \in Quorum : \A s \in P : p \in Holdings'[s]
<1> SUFFICES ASSUME NEW p \in committed
             PROVE  \E P \in Quorum : \A s \in P : p \in Holdings'[s]
  OBVIOUS
<1>1. Holders(Holdings, p) \in Quorum
  BY DEF ReportsInv
<1>2. \A s \in Holders(Holdings, p) : p \in Holdings'[s]
  BY DEF Holders, Grown
<1> QED BY <1>1, <1>2

\* A step of one call that trims nothing, asks for no trim and reads no row.
LEMMA LocalReports ==
  ASSUME LogletInv, LogletInv', ReportsInv, Grown, NEW c \in Call, NEW state, Goto(c, state),
         FloorInv(Holdings', state), ShownInv(Holdings', state), state.rows \subseteq call[c].rows,
         UNCHANGED <<sealed, trimmed, sequencer>>,
         \A r \in msgs' : r \in msgs \/ r.type # "prefix_trim"
  PROVE  ReportsInv'
<1>1. \A d \in Call : call'[d].rows \subseteq call[d].rows
  BY DEF Goto, LogletInv, TypeOK
<1>2. StatesWhole'
  BY <1>1 DEF ReportsInv, StatesWhole
<1> QED BY <1>2, ReportsLocal

\* A call that neither reads states nor repairs nor reports.
LEMMA QuietShown ==
  ASSUME NEW h, NEW x, x.pc \notin {"state", "read", "repair"}, x.rows = {},
         x.result.kind # "tail", x.floor = 0
  PROVE  FloorInv(h, x) /\ ShownInv(h, x)
BY ServersAreQuorum DEF FloorInv, ShownInv

\* A call that begins to read the states, for a floor that a quorum holds.
LEMMA ReadingShown ==
  ASSUME NEW h, NEW x \in CallState, NEW known,
         x.result.kind = "tail" => x.result.tail >= x.floor,
         x.result.kind = "tail" /\ x.result.sealed => Closed(x.result.tail),
         NEW Q \in Quorum, x.floor > 0 => \A s \in Q : x.floor - 1 \in h[s],
         \A p \in committed : \E P \in Quorum : \A s \in P : p \in h[s]
  PROVE  FloorInv(h, Reading(x, known)) /\ ShownInv(h, Reading(x, known))
<1> DEFINE y == Reading(x, known)
<1>1. y.pc = "state" /\ y.rows = {} /\ y.replies = {} /\ y.result = x.result /\ y.floor = x.floor
  BY DEF Reading, CallState
<1> HIDE DEF y
<1>2. FloorInv(h, y)
  BY <1>1 DEF FloorInv
<1>3. ShownInv(h, y)
  BY <1>1 DEF ShownInv
<1> QED BY <1>2, <1>3 DEF y

\* A call that reports a tail.
LEMMA ResultShown ==
  ASSUME NEW h, NEW c, FloorInv(h, call[c]), NEW tail, NEW isSealed, tail >= call[c].floor,
         isSealed => Closed(tail)
  PROVE  FloorInv(h, TailResult(c, tail, isSealed)) /\ ShownInv(h, TailResult(c, tail, isSealed))
<1> DEFINE y == TailResult(c, tail, isSealed)
<1>1. y.pc = "done" /\ y.rows = {} /\ y.floor = call[c].floor
  BY DEF TailResult, NewCall
<1>2. y.result.tail = tail /\ y.result.sealed = isSealed
  BY DEF TailResult, NewCall
<1> HIDE DEF y
<1>3. FloorInv(h, y)
  BY <1>1, <1>2 DEF FloorInv
<1>4. ShownInv(h, y)
  BY <1>1, <1>2 DEF ShownInv
<1> QED BY <1>3, <1>4 DEF y

LEMMA AppendReturnsReports ==
  ASSUME LogletInv, LogletInv', TailsInv, ReportsInv, Grown, NEW client \in Client,
         AppendReturns(client)
  PROVE  ReportsInv'
<1>1. UNCHANGED <<servers, sequencer, call, msgs>>
  BY DEF AppendReturns
<1>2. \A c \in Call : HearsNoState(c)
  BY <1>1 DEF HearsNoState
<1>3. Closes
  BY <1>1, NothingCloses DEF servers, sequencer
<1> QED BY <1>1, <1>2, <1>3, WholeStays, ReportsStay DEF servers

LEMMA StartSealReports ==
  ASSUME LogletInv, LogletInv', TailsInv, ReportsInv, Grown, NEW c \in Call, StartSeal(c)
  PROVE  ReportsInv'
<1> PICK client \in Client :
      /\ Goto(c, [NewCall("seal", "seal", client, 0) EXCEPT !.asked = clientKnown[client]])
      /\ msgs' = msgs \cup {[type |-> "seal", by |-> c, known |-> clientKnown[client]]}
      /\ UNCHANGED <<servers, sequencer, clientKnown, clientTrim, crashes>>
  BY DEF StartSeal
<1> DEFINE state == [NewCall("seal", "seal", client, 0) EXCEPT !.asked = clientKnown[client]]
<1>1. state.pc = "seal" /\ state.rows = {} /\ state.result.kind # "tail" /\ state.floor = 0
  BY DEF NewCall, NoResult
<1>2. Goto(c, state)
  OBVIOUS
<1> HIDE DEF state
<1>3. FloorInv(Holdings', state) /\ ShownInv(Holdings', state)
  BY <1>1, QuietShown
<1>4. \A r \in msgs' : r \in msgs \/ r.type # "prefix_trim"
  OBVIOUS
<1> QED BY <1>1, <1>2, <1>3, <1>4, LocalReports DEF servers

\* A quorum holds the last position below what callers were told of.
LEMMA ReportedHeld ==
  ASSUME LogletInv, TailsInv
  PROVE  \E Q \in Quorum : Highest(Reported) > 0 => \A s \in Q : Highest(Reported) - 1 \in Holdings[s]
<1> DEFINE floor == Highest(Reported)
<1>1. floor \in Reported /\ floor \in Tail
  BY ReportedTails, HighestTail DEF LogletInv
<1>2. CASE floor = 0
  BY <1>2, ServersAreQuorum
<1>3. CASE floor # 0
  <2>1. floor - 1 \in Position
    BY <1>1, <1>3, CommandCount DEF Tail, Position
  <2>2. \E tail \in Tail : Covers(Holdings, tail) /\ floor - 1 < tail
    <3>1. CASE \E a \in acks : floor = a.position + 1
      <4>1. PICK a \in acks : floor = a.position + 1
        BY <3>1
      <4>2. Covers(Holdings, a.known) /\ a.position < a.known /\ a.known \in Tail /\ a.position \in Nat
        BY DEF TailsInv, ToldInv, LogletInv, TypeOK, Position
      <4> HIDE DEF floor
      <4>3. floor - 1 = a.position
        BY <4>1, <4>2
      <4> QED BY <4>2, <4>3
    <3>2. CASE \E d \in Call : call[d].result.kind = "tail" /\ floor = call[d].result.tail
      <4>1. Covers(Holdings, floor)
        BY <3>2 DEF TailsInv, HeardInv
      <4>2. floor - 1 < floor
        BY <1>1, CommandCount DEF Tail
      <4> QED BY <1>1, <4>1, <4>2
    <3> QED BY <1>1, <1>3, <3>1, <3>2 DEF Reported
  <2>3. Holders(Holdings, floor - 1) \in Quorum
    BY <2>1, <2>2 DEF Covers
  <2>4. \A s \in Holders(Holdings, floor - 1) : floor - 1 \in Holdings[s]
    BY DEF Holders
  <2> QED BY <2>3, <2>4
<1> QED BY <1>2, <1>3

LEMMA StartCheckTailReports ==
  ASSUME LogletInv, LogletInv', TailsInv, ReportsInv, Grown, NEW c \in Call, StartCheckTail(c)
  PROVE  ReportsInv'
<1> PICK client \in Client :
      /\ Goto(c, Reading(NewCall("state", "check_tail", client, Highest(Reported)),
                         clientKnown[client]))
      /\ UNCHANGED <<servers, sequencer, clientKnown, clientTrim, msgs, crashes>>
  BY DEF StartCheckTail
<1> DEFINE new == NewCall("state", "check_tail", client, Highest(Reported))
           state == Reading(new, clientKnown[client])
<1>1. new \in CallState
  BY ReportedType, NewCallType DEF LogletInv
<1>2. new.floor = Highest(Reported) /\ new.result.kind # "tail"
  BY DEF NewCall, NoResult
<1>3. state.rows = {} /\ Goto(c, state)
  BY DEF Reading, NewCall
<1>4. PICK Q \in Quorum : Highest(Reported) > 0 => \A s \in Q : Highest(Reported) - 1 \in Holdings'[s]
  BY ReportedHeld DEF Grown, Quorum
<1> HIDE DEF new
<1>5. FloorInv(Holdings', state) /\ ShownInv(Holdings', state)
  BY <1>1, <1>2, <1>4, CommittedHeld, ReadingShown
<1> HIDE DEF state
<1> QED BY <1>3, <1>5, LocalReports DEF servers

\* Nobody asks for a trim where states are read in two queries.
LEMMA StartTrimReports ==
  ASSUME WholeReads, LogletInv, LogletInv', TailsInv, ReportsInv, Grown, NEW c \in Call, StartTrim(c)
  PROVE  ReportsInv'
<1> PICK client \in Client : \E position \in 1..clientKnown[client] :
      /\ <<c, client, "prefix_trim">> \in Workload
      /\ Goto(c, [NewCall("trim", "prefix_trim", client, 0) EXCEPT !.asked = position])
      /\ UNCHANGED <<servers, sequencer, clientKnown, clientTrim, crashes>>
  BY DEF StartTrim
<1> PICK position \in 1..clientKnown[client] :
      Goto(c, [NewCall("trim", "prefix_trim", client, 0) EXCEPT !.asked = position])
  OBVIOUS
<1> DEFINE state == [NewCall("trim", "prefix_trim", client, 0) EXCEPT !.asked = position]
<1>1. state.pc = "trim" /\ state.rows = {} /\ state.result.kind # "tail" /\ state.floor = 0
  BY DEF NewCall, NoResult
<1>2. Goto(c, state)
  OBVIOUS
<1> HIDE DEF state
<1>3. FloorInv(Holdings', state) /\ ShownInv(Holdings', state)
  BY <1>1, QuietShown
<1>4. ~TornReads
  BY DEF WholeReads
<1>5. StatesWhole'
  BY <1>1, <1>2, <1>4 DEF ReportsInv, StatesWhole, Goto, LogletInv, TypeOK
<1> QED BY <1>2, <1>3, <1>5, ReportsLocal DEF servers

LEMMA GiveUpReports ==
  ASSUME LogletInv, LogletInv', TailsInv, ReportsInv, Grown, NEW c \in Call, GiveUp(c)
  PROVE  ReportsInv'
<1> DEFINE state == NewCall("failed", call[c].op, call[c].client, 0)
<1>1. state.pc = "failed" /\ state.rows = {} /\ state.result.kind # "tail" /\ state.floor = 0
  BY DEF NewCall, NoResult
<1>2. Goto(c, state) /\ UNCHANGED <<servers, sequencer, msgs>>
  BY DEF GiveUp
<1> HIDE DEF state
<1>3. FloorInv(Holdings', state) /\ ShownInv(Holdings', state)
  BY <1>1, QuietShown
<1> QED BY <1>1, <1>2, <1>3, LocalReports DEF servers

\* A call that asks again has the same floor.
LEMMA ReadAgainShown ==
  ASSUME LogletInv, ReportsInv, Grown, NEW c \in Call, NEW known
  PROVE  /\ FloorInv(Holdings', Reading(call[c], known)) /\ ShownInv(Holdings', Reading(call[c], known))
         /\ Reading(call[c], known).rows = {}
<1>1. call[c] \in CallState
  BY DEF LogletInv, TypeOK
<1>2. PICK Q \in Quorum : call[c].floor > 0 => \A s \in Q : call[c].floor - 1 \in Holdings'[s]
  BY ShownStill DEF FloorInv
<1>3. FloorInv(Holdings', Reading(call[c], known)) /\ ShownInv(Holdings', Reading(call[c], known))
  <2>1. FloorInv(Holdings', call[c]) /\ ShownInv(Holdings', call[c])
    BY ShownStill
  <2>2. /\ call[c].result.kind = "tail" => call[c].result.tail >= call[c].floor
        /\ call[c].result.kind = "tail" /\ call[c].result.sealed => Closed(call[c].result.tail)
    BY <2>1 DEF FloorInv, ShownInv
  <2> QED BY <1>1, <1>2, <2>2, CommittedHeld, ReadingShown
<1>4. Reading(call[c], known).rows = {}
  BY <1>1 DEF Reading, CallState
<1> QED BY <1>3, <1>4

\* What a seal or a trim was answered is no report.
LEMMA EndSealReports ==
  ASSUME LogletInv, LogletInv', TailsInv, ReportsInv, Grown, NEW c \in Call, EndSeal(c)
  PROVE  ReportsInv'
<1> PICK R \in SUBSET call[c].replies :
      /\ Goto(c, IF call[c].op = "seal"
                   THEN [NewCall("done", "seal", call[c].client, 0) EXCEPT
                           !.result = [kind |-> "sealed"]]
                   ELSE Reading(call[c], Highest({Known(c)} \cup Tails(R))))
      /\ UNCHANGED <<servers, sequencer, clientTrim, msgs, crashes>>
  BY DEF EndSeal
<1> DEFINE known == Highest({Known(c)} \cup Tails(R))
           done == [NewCall("done", "seal", call[c].client, 0) EXCEPT !.result = [kind |-> "sealed"]]
           state == IF call[c].op = "seal" THEN done ELSE Reading(call[c], known)
<1>1. done.pc = "done" /\ done.rows = {} /\ done.result.kind # "tail" /\ done.floor = 0
  BY DEF NewCall
<1>2. Goto(c, state)
  OBVIOUS
<1> HIDE DEF known, done
<1>3. FloorInv(Holdings', done) /\ ShownInv(Holdings', done)
  BY <1>1, QuietShown
<1>4. FloorInv(Holdings', state) /\ ShownInv(Holdings', state) /\ state.rows = {}
  BY <1>1, <1>3, ReadAgainShown
<1> HIDE DEF state
<1> QED BY <1>2, <1>4, LocalReports DEF servers

LEMMA SealFailsReports ==
  ASSUME LogletInv, LogletInv', TailsInv, ReportsInv, Grown, NEW c \in Call, SealFails(c)
  PROVE  ReportsInv'
<1> DEFINE state == NewCall("failed", call[c].op, call[c].client, 0)
<1>1. state.pc = "failed" /\ state.rows = {} /\ state.result.kind # "tail" /\ state.floor = 0
  BY DEF NewCall, NoResult
<1>2. Goto(c, state) /\ UNCHANGED <<servers, sequencer, msgs>>
  BY DEF SealFails
<1> HIDE DEF state
<1>3. FloorInv(Holdings', state) /\ ShownInv(Holdings', state)
  BY <1>1, QuietShown
<1> QED BY <1>1, <1>2, <1>3, LocalReports DEF servers

LEMMA EndTrimReports ==
  ASSUME LogletInv, LogletInv', TailsInv, ReportsInv, Grown, NEW c \in Call, EndTrim(c)
  PROVE  ReportsInv'
<1> DEFINE state == [NewCall("done", "prefix_trim", call[c].client, 0) EXCEPT
                       !.result = [kind |-> "trimmed"]]
<1>1. state.pc = "done" /\ state.rows = {} /\ state.result.kind # "tail" /\ state.floor = 0
  BY DEF NewCall
<1>2. Goto(c, state) /\ UNCHANGED <<servers, sequencer, msgs>>
  BY DEF EndTrim
<1> HIDE DEF state
<1>3. FloorInv(Holdings', state) /\ ShownInv(Holdings', state)
  BY <1>1, QuietShown
<1> QED BY <1>1, <1>2, <1>3, LocalReports DEF servers

\* What a server holds lies below the tail of its state.
LEMMA HeldBelowTail ==
  ASSUME LogletInv, NEW s \in Server, NEW p \in Holdings[s], NEW w \in Tail, w >= trimmed[s]
  PROVE  p < LocalTail(s, w)
<1> DEFINE S == {w} \cup {q + 1 : q \in {q \in Position : entries[s][q] # NoCommand}}
<1>1. S \in SUBSET Tail /\ S # {}
  BY PositionTail
<1>2. LocalTail(s, w) \in Tail /\ \A n \in S : n <= LocalTail(s, w)
  BY <1>1, HighestTail DEF LocalTail
<1>3. p \in Position /\ (trimmed[s] > p \/ entries[s][p] # NoCommand)
  BY DEF Holdings, HasHeld
<1>4. p \in Nat /\ LocalTail(s, w) \in Nat /\ w \in Nat /\ trimmed[s] \in Nat
  BY <1>2, <1>3, CommandCount DEF Position, Tail, LogletInv, TypeOK
<1>5. w <= LocalTail(s, w)
  BY <1>2
<1>6. entries[s][p] # NoCommand => p + 1 <= LocalTail(s, w)
  BY <1>2, <1>3
<1> QED BY <1>3, <1>4, <1>5, <1>6

\* The state of a server accounts for all that the server holds, and is closed if sealed.
LEMMA StateShown ==
  ASSUME LogletInv, TailsInv, NEW s \in Server, NEW known, NEW row, row.trimmed \in Tail,
         row.trimmed >= trimmed[s], row.sealed => s \in sealed
  PROVE  LET r == StateOf(s, row, known)
         IN  /\ r.from = s /\ r.tail \in Tail
             /\ r.sealed => ClosedAt(r.from, r.tail)
             /\ \A p \in Holdings[s] : p < r.tail
<1> DEFINE tail == LocalTail(s, row.trimmed)
<1>1. \A p \in Holdings[s] : p < tail
  BY HeldBelowTail
<1>2. tail \in Tail
  BY LocalTailType DEF LogletInv
<1> HIDE DEF tail
<1>3. row.sealed => ClosedAt(s, tail)
  BY <1>1 DEF ClosedAt, TailsInv, CommitInv
<1> QED BY <1>1, <1>2, <1>3 DEF StateOf, tail

\* A call that asks for states hears one more.
LEMMA StateHeardShown ==
  ASSUME LogletInv, ReportsInv, NEW c \in Call, call[c].pc = "state", NEW new, NEW rows,
         new.from \in Server, new.tail \in Tail, new.sealed => ClosedAt(new.from, new.tail),
         \A p \in Holdings[new.from] : p < new.tail, rows \subseteq call[c].rows,
         NEW state, state = [call[c] EXCEPT !.rows = rows, !.replies = call[c].replies \cup {new}]
  PROVE  FloorInv(Holdings, state) /\ ShownInv(Holdings, state)
<1>1. /\ call[c] \in CallState /\ FloorInv(Holdings, call[c]) /\ ShownInv(Holdings, call[c])
      /\ call[c].floor \in Tail
  BY DEF LogletInv, TypeOK, ReportsInv, CallState
<1>2. /\ state.pc = "state" /\ state.rows = rows /\ state.replies = call[c].replies \cup {new}
      /\ state.floor = call[c].floor /\ state.tail = call[c].tail /\ state.result = call[c].result
  BY <1>1 DEF CallState
<1>3. FloorInv(Holdings, state)
  <2>1. PICK Q \in Quorum :
          /\ call[c].floor > 0 => \A s \in Q : call[c].floor - 1 \in Holdings[s]
          /\ \A r \in call[c].replies : r.from \in Q => r.tail >= call[c].floor
    BY <1>1 DEF FloorInv
  <2>2. new.from \in Q => new.tail >= call[c].floor
    <3>1. new.tail \in Nat /\ call[c].floor \in Nat
      BY <1>1, CommandCount DEF Tail
    <3>2. ASSUME new.from \in Q, call[c].floor > 0 PROVE call[c].floor - 1 < new.tail
      BY <2>1, <3>2
    <3> QED BY <3>1, <3>2
  <2> QED BY <1>1, <1>2, <2>1, <2>2 DEF FloorInv
<1>4. ASSUME NEW p \in committed
      PROVE  \E P \in Quorum :
               /\ \A s \in P : p \in Holdings[s]
               /\ \A r \in state.replies : r.sealed /\ r.from \in P => p < r.tail
  <2>1. PICK P \in Quorum :
          /\ \A s \in P : p \in Holdings[s]
          /\ \A r \in call[c].replies : r.sealed /\ r.from \in P => p < r.tail
    BY <1>1 DEF ShownInv
  <2> QED BY <1>2, <2>1
<1>5. ShownInv(Holdings, state)
  BY <1>1, <1>2, <1>4 DEF ShownInv
<1> QED BY <1>3, <1>5

LEMMA ReadStateReports ==
  ASSUME LogletInv, LogletInv', TailsInv, ReportsInv, Grown, NEW c \in Call, NEW s \in Server,
         ReadState(c, s)
  PROVE  ReportsInv'
<1> DEFINE new == StateOf(s, RowOf(s), Larger(serverKnown[s], call[c].asked))
           state == [call[c] EXCEPT !.rows = call[c].rows, !.replies = call[c].replies \cup {new}]
<1>1. call[c] \in CallState /\ call[c].pc = "state"
  BY CallType DEF ReadState, Unread
<1>2. UNCHANGED <<entries, sealed, trimmed, sequencer, clientKnown, clientTrim, msgs>>
  BY DEF ReadState
<1>3. RowOf(s).trimmed \in Tail /\ RowOf(s).trimmed >= trimmed[s] /\ (RowOf(s).sealed => s \in sealed)
  <2>1. trimmed[s] \in Tail /\ trimmed[s] \in Nat
    BY CommandCount DEF LogletInv, TypeOK, Tail
  <2>2. RowOf(s).trimmed = trimmed[s] /\ (RowOf(s).sealed <=> s \in sealed)
    BY DEF RowOf
  <2>3. trimmed[s] >= trimmed[s]
    BY <2>1
  <2> QED BY <2>1, <2>2, <2>3
<1>4. /\ new.from = s /\ new.tail \in Tail /\ (new.sealed => ClosedAt(new.from, new.tail))
      /\ \A p \in Holdings[s] : p < new.tail
  BY <1>3, StateShown
<1>5. Goto(c, state)
  <2>1. state = [call[c] EXCEPT !.replies = @ \cup {new}]
    BY <1>1 DEF CallState
  <2> QED BY <2>1 DEF ReadState
<1> HIDE DEF new
<1>6. FloorInv(Holdings, state) /\ ShownInv(Holdings, state)
  BY <1>1, <1>4, StateHeardShown
<1>7. Holdings' = Holdings
  BY <1>2 DEF Holdings, HasHeld
<1>8. state.rows \subseteq call[c].rows
  BY <1>1 DEF CallState
<1> HIDE DEF state
<1> QED BY <1>2, <1>5, <1>6, <1>7, <1>8, LocalReports

LEMMA ReadRowReports ==
  ASSUME LogletInv, LogletInv', TailsInv, ReportsInv, Grown, NEW c \in Call, NEW s \in Server,
         ReadRow(c, s)
  PROVE  ReportsInv'
<1> DEFINE state == [call[c] EXCEPT !.rows = @ \cup {RowOf(s)}]
<1>1. call[c] \in CallState /\ FloorInv(Holdings', call[c]) /\ ShownInv(Holdings', call[c])
  BY CallType, ShownStill
<1>2. /\ state.pc = call[c].pc /\ state.rows = call[c].rows \cup {RowOf(s)}
      /\ state.replies = call[c].replies /\ state.floor = call[c].floor
      /\ state.tail = call[c].tail /\ state.result = call[c].result
  BY <1>1 DEF CallState
<1>3. Goto(c, state) /\ UNCHANGED <<entries, sealed, trimmed, sequencer, msgs>> /\ TornReads
  BY DEF ReadRow
<1> HIDE DEF state
<1>4. FloorInv(Holdings', state)
  BY <1>1, <1>2 DEF FloorInv
<1>5. RowOf(s).sealed => RowOf(s).from \in sealed
  BY DEF RowOf
<1>6. ShownInv(Holdings', state)
  BY <1>1, <1>2, <1>5 DEF ShownInv
<1>7. StatesWhole'
  BY <1>3 DEF ReportsInv, StatesWhole
<1> QED BY <1>3, <1>4, <1>6, <1>7, ReportsLocal

LEMMA ReadLastReports ==
  ASSUME LogletInv, LogletInv', TailsInv, ReportsInv, Grown, NEW c \in Call, NEW s \in Server,
         ReadLast(c, s)
  PROVE  ReportsInv'
<1> PICK row \in call[c].rows :
      /\ call[c].pc = "state" /\ row.from = s
      /\ Goto(c, [call[c] EXCEPT !.rows = @ \ {row},
                                 !.replies = @ \cup {StateOf(s, row, serverKnown[s])}])
      /\ UNCHANGED <<servers, sequencer, clientKnown, clientTrim, msgs, crashes>>
  BY DEF ReadLast
<1> DEFINE new == StateOf(s, row, serverKnown[s])
           rows == call[c].rows \ {row}
           state == [call[c] EXCEPT !.rows = rows, !.replies = call[c].replies \cup {new}]
<1>1. call[c] \in CallState /\ row.trimmed \in Tail
  BY CallType, AskingParts
<1>2. row.trimmed >= trimmed[s]
  <2>1. trimmed[s] = 0
    BY DEF ReportsInv, StatesWhole
  <2> QED BY <1>1, <2>1, CommandCount DEF Tail
<1>3. row.sealed => s \in sealed
  BY DEF ReportsInv, ShownInv
<1>4. /\ new.from = s /\ new.tail \in Tail /\ (new.sealed => ClosedAt(new.from, new.tail))
      /\ \A p \in Holdings[s] : p < new.tail
  BY <1>1, <1>2, <1>3, StateShown
<1>5. Goto(c, state)
  BY <1>1 DEF CallState
<1> HIDE DEF new
<1>6. FloorInv(Holdings, state) /\ ShownInv(Holdings, state)
  BY <1>4, StateHeardShown
<1>7. Holdings' = Holdings
  BY DEF Holdings, HasHeld, servers
<1>8. state.rows \subseteq call[c].rows
  BY <1>1 DEF CallState
<1> HIDE DEF state
<1> QED BY <1>5, <1>6, <1>7, <1>8, LocalReports DEF servers

\* The highest of the tails that a quorum shows accounts for what was reported before and,
\* when the quorum is sealed, for all that is ever committed.
LEMMA StatesAccount ==
  ASSUME LogletInv, TailsInv, ReportsInv, NEW c \in Call, NEW R \in SUBSET call[c].replies,
         StatesRead(c, R)
  PROVE  /\ Highest(Tails(R)) >= call[c].floor
         /\ NodesSealed(R) = Froms(R) => Closed(Highest(Tails(R)))
<1> DEFINE tail == Highest(Tails(R))
<1>1. /\ R \in SUBSET ServerState /\ Froms(R) \in Quorum /\ call[c].pc = "state"
      /\ call[c] \in CallState /\ call[c].floor \in Tail
      /\ FloorInv(Holdings, call[c]) /\ ShownInv(Holdings, call[c])
  BY AskingParts DEF StatesRead, ReportsInv, LogletInv, TypeOK, CallState
<1>2. R # {}
  BY QuorumNonempty DEF StatesRead, Froms
<1>3. tail \in Tail /\ \A r \in R : r.tail \in Tail /\ r.tail <= tail
  <2>1. Tails(R) \in SUBSET Tail /\ Tails(R) # {}
    BY <1>1, <1>2 DEF ServerState, Tails
  <2> QED BY <2>1, HighestTail DEF Tails
<1>4. Tail \subseteq Nat
  BY CommandCount DEF Tail
<1> HIDE DEF tail
<1>5. tail >= call[c].floor
  <2>1. PICK Q \in Quorum : \A r \in call[c].replies : r.from \in Q => r.tail >= call[c].floor
    BY <1>1 DEF FloorInv
  <2>2. PICK s \in Server : s \in Q /\ s \in Froms(R)
    BY <1>1, QuorumsMeet
  <2>3. PICK r \in R : r.from = s
    BY <2>2 DEF Froms
  <2>4. r.tail >= call[c].floor
    BY <2>1, <2>2, <2>3
  <2>5. r.tail \in Nat /\ tail \in Nat /\ call[c].floor \in Nat /\ r.tail <= tail
    BY <1>1, <1>3, <1>4
  <2> QED BY <2>4, <2>5
<1>6. ASSUME NodesSealed(R) = Froms(R) PROVE Closed(tail)
  <2>1. \A s \in Froms(R) : \E r \in R : r.from = s /\ r.sealed
    BY <1>6 DEF NodesSealed
  <2>2. ASSUME NEW s \in Froms(R) PROVE ClosedAt(s, tail)
    <3>1. PICK r \in R : r.from = s /\ r.sealed
      BY <2>1
    <3>2. ClosedAt(s, r.tail)
      BY <1>1, <3>1 DEF ShownInv
    <3>3. seq.pc = "commit" => seq.request.position \in Nat
      <4>1. seq.pc = "commit" => seq.entry \in Given /\ seq.request.position = seq.position[seq.entry]
        BY DEF LogletInv, RoundInv, TailsInv, CommitInv
      <4> QED BY <4>1, GivenPosition DEF LogletInv, Position
    <3>4. r.tail \in Nat /\ tail \in Nat /\ r.tail <= tail
      BY <1>3, <1>4
    <3> QED BY <3>2, <3>3, <3>4 DEF ClosedAt
  <2>3. ASSUME NEW p \in committed PROVE p < tail
    <3>1. PICK P \in Quorum : \A r \in call[c].replies : r.sealed /\ r.from \in P => p < r.tail
      BY <1>1 DEF ShownInv
    <3>2. PICK s \in Server : s \in P /\ s \in Froms(R)
      BY <1>1, QuorumsMeet
    <3>3. PICK r \in R : r.from = s /\ r.sealed
      BY <2>1, <3>2
    <3>4. p < r.tail
      BY <3>1, <3>2, <3>3
    <3>5. p \in Nat
      BY DEF LogletInv, TypeOK, Position
    <3>6. r.tail \in Nat /\ tail \in Nat /\ r.tail <= tail
      BY <1>3, <1>4
    <3> QED BY <3>4, <3>5, <3>6
  <2> QED BY <1>1, <2>2, <2>3 DEF Closed
<1> QED BY <1>5, <1>6 DEF tail

LEMMA SealRestReports ==
  ASSUME LogletInv, LogletInv', TailsInv, ReportsInv, Grown, NEW c \in Call, SealRest(c)
  PROVE  ReportsInv'
<1> PICK R \in SUBSET call[c].replies :
      /\ msgs' = msgs \cup {[type |-> "seal", by |-> c, known |-> KnownAfter(c, R)]}
      /\ Goto(c, [call[c] EXCEPT !.pc = "seal", !.asked = KnownAfter(c, R), !.rows = {},
                    !.replies = {}])
      /\ UNCHANGED <<servers, sequencer, crashes>>
  BY DEF SealRest
<1> DEFINE known == KnownAfter(c, R)
           state == [call[c] EXCEPT !.pc = "seal", !.asked = known, !.rows = {}, !.replies = {}]
<1>1. FloorInv(Holdings', call[c]) /\ ShownInv(Holdings', call[c])
  BY ShownStill
<1> HIDE DEF known
<1>2. /\ state.pc = "seal" /\ state.rows = {} /\ state.floor = call[c].floor
      /\ state.result = call[c].result
  BY CallType DEF CallState
<1>3. Goto(c, state)
  BY DEF known
<1> HIDE DEF state
<1>4. FloorInv(Holdings', state)
  BY <1>1, <1>2 DEF FloorInv
<1>5. ShownInv(Holdings', state)
  BY <1>1, <1>2 DEF ShownInv
<1>6. \A r \in msgs' : r \in msgs \/ r.type # "prefix_trim"
  OBVIOUS
<1> QED BY <1>2, <1>3, <1>4, <1>5, <1>6, LocalReports DEF servers

LEMMA StartRepairReports ==
  ASSUME LogletInv, LogletInv', TailsInv, ReportsInv, Grown, NEW c \in Call, StartRepair(c)
  PROVE  ReportsInv'
<1> PICK R \in SUBSET call[c].replies :
      /\ StatesRead(c, R) /\ NodesSealed(R) = Froms(R)
      /\ LET tail == Highest(Tails(R))
             first == clientTrim'[call[c].client]
         IN  IF first < tail
               THEN Goto(c, [call[c] EXCEPT !.pc = "read", !.rows = {}, !.replies = {},
                               !.tail = tail, !.position = first, !.nodes = Froms(R),
                               !.todo = Froms(R)])
               ELSE Goto(c, TailResult(c, tail, TRUE))
      /\ UNCHANGED <<servers, sequencer, msgs, crashes>>
  BY DEF StartRepair
<1> DEFINE tail == Highest(Tails(R))
           first == clientTrim'[call[c].client]
<1>1. tail >= call[c].floor /\ Closed(tail)
  BY StatesAccount
<1>2. FloorInv(Holdings', call[c]) /\ ShownInv(Holdings', call[c])
  BY ShownStill
<1>3. CASE first < tail
  <2> DEFINE state == [call[c] EXCEPT !.pc = "read", !.rows = {}, !.replies = {},
                         !.tail = tail, !.position = first, !.nodes = Froms(R), !.todo = Froms(R)]
  <2>1. Goto(c, state)
    BY <1>3
  <2> HIDE DEF tail, first
  <2>2. /\ state.pc = "read" /\ state.rows = {} /\ state.tail = tail
        /\ state.result = call[c].result /\ state.floor = call[c].floor
    BY CallType DEF CallState
  <2> HIDE DEF state
  <2>3. FloorInv(Holdings', state)
    BY <1>1, <1>2, <2>2 DEF FloorInv
  <2>4. ShownInv(Holdings', state)
    BY <1>1, <1>2, <2>2 DEF ShownInv
  <2> QED BY <2>1, <2>2, <2>3, <2>4, LocalReports DEF servers
<1>4. CASE ~(first < tail)
  <2> DEFINE state == TailResult(c, tail, TRUE)
  <2>1. Goto(c, state)
    BY <1>4
  <2> HIDE DEF tail, first
  <2>2. FloorInv(Holdings', state) /\ ShownInv(Holdings', state)
    BY <1>1, <1>2, ResultShown
  <2>3. state.rows = {}
    BY DEF TailResult, NewCall
  <2> HIDE DEF state
  <2> QED BY <2>1, <2>2, <2>3, LocalReports DEF servers
<1> QED BY <1>3, <1>4

LEMMA ReportOpenTailReports ==
  ASSUME LogletInv, LogletInv', TailsInv, ReportsInv, Grown, NEW c \in Call, ReportOpenTail(c)
  PROVE  ReportsInv'
<1> PICK R \in SUBSET call[c].replies :
      /\ StatesRead(c, R)
      /\ Goto(c, TailResult(c, Highest(Tails(R)), FALSE))
      /\ UNCHANGED <<servers, sequencer, msgs, crashes>>
  BY DEF ReportOpenTail
<1> DEFINE state == TailResult(c, Highest(Tails(R)), FALSE)
<1>1. FloorInv(Holdings', state) /\ ShownInv(Holdings', state)
  BY StatesAccount, ShownStill, ResultShown
<1>2. state.rows = {} /\ Goto(c, state)
  BY DEF TailResult, NewCall
<1> HIDE DEF state
<1> QED BY <1>1, <1>2, LocalReports DEF servers

LEMMA AwaitProgressReports ==
  ASSUME LogletInv, LogletInv', TailsInv, ReportsInv, Grown, NEW c \in Call, AwaitProgress(c)
  PROVE  ReportsInv'
<1> PICK R \in SUBSET call[c].replies :
      /\ Goto(c, [call[c] EXCEPT !.pc = "wait", !.asked = KnownAfter(c, R), !.rows = {},
                    !.replies = R, !.tail = Highest(Tails(R))])
      /\ UNCHANGED <<servers, sequencer, msgs, crashes>>
  BY DEF AwaitProgress
<1> DEFINE known == KnownAfter(c, R)
           tail == Highest(Tails(R))
           state == [call[c] EXCEPT !.pc = "wait", !.asked = known, !.rows = {}, !.replies = R, !.tail = tail]
<1>1. FloorInv(Holdings', call[c]) /\ ShownInv(Holdings', call[c])
  BY ShownStill
<1>2. Goto(c, state)
  OBVIOUS
<1> HIDE DEF known, tail
<1>3. /\ state.pc = "wait" /\ state.rows = {} /\ state.floor = call[c].floor
      /\ state.result = call[c].result
  BY CallType DEF CallState
<1> HIDE DEF state
<1>4. FloorInv(Holdings', state)
  BY <1>1, <1>3 DEF FloorInv
<1>5. ShownInv(Holdings', state)
  BY <1>1, <1>3 DEF ShownInv
<1> QED BY <1>2, <1>3, <1>4, <1>5, LocalReports DEF servers

LEMMA NotifiedReports ==
  ASSUME LogletInv, LogletInv', TailsInv, ReportsInv, Grown, NEW c \in Call, NEW s \in Server,
         Notified(c, s)
  PROVE  ReportsInv'
<1> DEFINE known == Larger(Known(c), Larger(serverKnown[s], call[c].asked))
<1>1. Goto(c, Reading(call[c], known)) /\ UNCHANGED <<sealed, trimmed, sequencer, msgs>>
  BY DEF Notified
<1> HIDE DEF known
<1> DEFINE state == Reading(call[c], known)
<1>2. FloorInv(Holdings', state) /\ ShownInv(Holdings', state) /\ state.rows = {}
  BY ReadAgainShown
<1> HIDE DEF state
<1> QED BY <1>1, <1>2, LocalReports DEF state

LEMMA ReadCopyReports ==
  ASSUME LogletInv, LogletInv', TailsInv, ReportsInv, Grown, NEW c \in Call, NEW s \in Server,
         ReadCopy(c, s)
  PROVE  ReportsInv'
<1> DEFINE copies == call[c].copies \cup ({entries[s][call[c].position]} \ {NoCommand})
           next == [call[c] EXCEPT !.todo = @ \ {s}, !.copies = copies]
           last == [call[c] EXCEPT !.pc = "repair", !.todo = call[c].nodes, !.copies = copies]
           state == IF call[c].todo # {s} THEN next ELSE last
<1>1. call[c].pc = "read" /\ Goto(c, state) /\ UNCHANGED <<sealed, trimmed, sequencer, msgs>>
  BY DEF ReadCopy
<1>2. FloorInv(Holdings', call[c]) /\ ShownInv(Holdings', call[c]) /\ call[c] \in CallState
  BY ShownStill, CallType
<1> HIDE DEF copies
<1>3. /\ state.pc \in {"read", "repair"} /\ state.rows = call[c].rows /\ state.floor = call[c].floor
      /\ state.tail = call[c].tail /\ state.result = call[c].result
  BY <1>1, <1>2 DEF CallState
<1> HIDE DEF state
<1>4. FloorInv(Holdings', state)
  BY <1>1, <1>2, <1>3 DEF FloorInv
<1>5. ShownInv(Holdings', state)
  BY <1>1, <1>2, <1>3 DEF ShownInv
<1> QED BY <1>1, <1>3, <1>4, <1>5, LocalReports

LEMMA RepairCopyReports ==
  ASSUME LogletInv, LogletInv', TailsInv, ReportsInv, Grown, NEW c \in Call, NEW s \in Server,
         RepairCopy(c, s)
  PROVE  ReportsInv'
<1> DEFINE again == [call[c] EXCEPT !.todo = @ \ {s}]
           next == [call[c] EXCEPT !.pc = "read", !.position = @ + 1, !.todo = call[c].nodes,
                      !.copies = {}]
           result == TailResult(c, call[c].tail, TRUE)
<1>1. call[c].pc = "repair" /\ UNCHANGED <<sealed, trimmed, sequencer, msgs>>
  BY DEF RepairCopy
<1>2. FloorInv(Holdings', call[c]) /\ ShownInv(Holdings', call[c]) /\ call[c] \in CallState
  BY ShownStill, CallType
<1>3. Goto(c, again) \/ Goto(c, next) \/ Goto(c, result)
  BY DEF RepairCopy
<1>4. ASSUME NEW state \in {again, next}
      PROVE  FloorInv(Holdings', state) /\ ShownInv(Holdings', state) /\ state.rows = call[c].rows
  <2>1. /\ state.pc \in {"read", "repair"} /\ state.rows = call[c].rows /\ state.floor = call[c].floor
        /\ state.tail = call[c].tail /\ state.result = call[c].result
    BY <1>1, <1>2 DEF CallState
  <2> HIDE DEF again, next
  <2>2. FloorInv(Holdings', state)
    BY <1>1, <1>2, <2>1 DEF FloorInv
  <2>3. ShownInv(Holdings', state)
    BY <1>1, <1>2, <2>1 DEF ShownInv
  <2> QED BY <2>1, <2>2, <2>3
<1>5. FloorInv(Holdings', result) /\ ShownInv(Holdings', result) /\ result.rows = {}
  <2>1. call[c].tail >= call[c].floor /\ Closed(call[c].tail)
    BY <1>1, <1>2 DEF FloorInv, ShownInv
  <2>2. FloorInv(Holdings', result) /\ ShownInv(Holdings', result)
    BY <1>2, <2>1, ResultShown
  <2>3. result.rows = {}
    BY DEF TailResult, NewCall
  <2> QED BY <2>2, <2>3
<1> HIDE DEF again, next, result
<1>6. CASE Goto(c, again)
  BY <1>1, <1>4, <1>6, LocalReports
<1>7. CASE Goto(c, next)
  BY <1>1, <1>4, <1>7, LocalReports
<1>8. CASE Goto(c, result)
  BY <1>1, <1>5, <1>8, LocalReports
<1> QED BY <1>3, <1>6, <1>7, <1>8

LEMMA OperationReports ==
  ASSUME LogletInv, LogletInv', TailsInv, ReportsInv, Grown, NEW c \in Call, Operation(c)
  PROVE  ReportsInv'
BY EndSealReports, SealFailsReports, EndTrimReports, SealRestReports, StartRepairReports,
   ReportOpenTailReports, AwaitProgressReports, ReadStateReports, ReadRowReports,
   ReadLastReports, NotifiedReports, ReadCopyReports, RepairCopyReports DEF Operation
-----------------------------------------------------------------------------
(* What is reported of the tail, in every behaviour.                       *)

LEMMA InitReports ==
  ASSUME Init
  PROVE  ReportsInv
<1> DEFINE new == NewCall("idle", "none", CHOOSE k \in Client : TRUE, 0)
<1>1. new.pc = "idle" /\ new.rows = {} /\ new.result.kind # "tail" /\ new.floor = 0
  BY DEF NewCall, NoResult
<1>2. call = [c \in Call |-> new]
  BY DEF Init
<1> HIDE DEF new
<1>3. FloorInv(Holdings, new) /\ ShownInv(Holdings, new)
  BY <1>1, QuietShown
<1>4. StatesWhole /\ committed = {}
  BY <1>1, <1>2 DEF Init, StatesWhole
<1> QED BY <1>2, <1>3, <1>4 DEF ReportsInv

LEMMA StutterReports ==
  ASSUME LogletInv, LogletInv', ReportsInv, Grown, UNCHANGED vars
  PROVE  ReportsInv'
<1>1. UNCHANGED <<seq, stored, committed, sealed, trimmed, msgs, call>>
  BY DEF vars, servers, sequencer, clients
<1>2. \A c \in Call : HearsNoState(c)
  BY <1>1 DEF HearsNoState
<1> QED BY <1>1, <1>2, NothingCloses, WholeStays, ReportsStay

LEMMA NextReports ==
  ASSUME WholeReads, LogletInv, TrimmedInv, TailsInv, ReportsInv, [Next]_vars
  PROVE  ReportsInv'
<1>1. LogletInv' /\ Grown
  BY NextStep, GrowsStep, HoldingsGrow
<1>2. CASE \E k \in Command : AppendAgain(k) \/ Append(k)
  BY <1>1, <1>2, AppendAgainReports, AppendReports
<1>3. CASE Sequencer \/ Cancel
  BY <1>1, <1>3, SequencerStepReports
<1>4. CASE \E s \in Server : LogServer(s) \/ Restart(s)
  BY <1>1, <1>4, HandlePutReports, AnswerPutReports, HandleSealReports, HandleTrimReports,
     RestartReports DEF LogServer
<1>5. CASE \E client \in Client : AppendReturns(client)
  BY <1>1, <1>5, AppendReturnsReports
<1>6. CASE \E c \in Call : \/ StartSeal(c) \/ StartCheckTail(c) \/ StartTrim(c) \/ GiveUp(c)
                           \/ Operation(c)
  BY <1>1, <1>6, StartSealReports, StartCheckTailReports, StartTrimReports, GiveUpReports,
     OperationReports
<1>7. CASE UNCHANGED vars
  BY <1>1, <1>7, StutterReports
<1> QED BY <1>2, <1>3, <1>4, <1>5, <1>6, <1>7 DEF Next

\* Where states are read whole, what a check_tail has read and reports shows it all that
\* was reported before and, of a sealed quorum, all that is ever committed.
THEOREM ReportsInvariant ==
  ASSUME WholeReads
  PROVE  Spec => [](LogletInv /\ ReportsInv)
<1>1. Init => ReportsInv
  BY InitReports
<1>2. LogletInv /\ TrimmedInv /\ TailsInv /\ ReportsInv /\ [Next]_vars => ReportsInv'
  BY NextReports
<1> QED BY <1>1, <1>2, TailsInvariant, PTL DEF Spec

\* check_tail accounts for every append and every tail that was reported before it began,
\* whatever quorum answers it, if no trim comes between the two queries of a state.
THEOREM TailsCoverReported ==
  ASSUME WholeReads
  PROVE  Spec => []TailsCoverReports
<1>1. LogletInv /\ ReportsInv => TailsCoverReports
  BY DEF ReportsInv, FloorInv, TailsCoverReports, ReportedTail
<1> QED BY <1>1, ReportsInvariant, PTL

\* Once check_tail reports a sealed tail, no quorum of puts commits a position at or above
\* it, and none did, if no trim comes between the two queries of a state.
THEOREM SealedTailsCoverCommitted ==
  ASSUME WholeReads
  PROVE  Spec => []SealedTailsCoverCommits
<1>1. LogletInv /\ ReportsInv => SealedTailsCoverCommits
  BY DEF ReportsInv, ShownInv, Closed, SealedTailsCoverCommits, SealedTails, ReportedTail
<1> QED BY <1>1, ReportsInvariant, PTL
=============================================================================
