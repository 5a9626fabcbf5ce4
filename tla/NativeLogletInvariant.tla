----------------------- MODULE NativeLogletInvariant -----------------------
(***************************************************************************)
(* The inductive invariants of NativeLoglet.  LogletInv, behind TypeOK and *)
(* CopiesAgree: every copy, every write under way and every copy in a      *)
(* repairing client's hands is at the position that the sequencer gave its *)
(* command.  TailsInv, behind KnownTailsAreCommitted: every tail that is   *)
(* known, told or on its way has a quorum of copies below it.  ReportsInv, *)
(* behind the two properties of reported tails: what the states that a     *)
(* check_tail has read must have shown it.                                 *)
(***************************************************************************)
EXTENDS NativeLoglet

\* The commands that have a position.
Given == {k \in Command : Assigned(k)}

\* Command k has position p.
Placed(k, p) == k \in Given /\ seq.position[k] = p

\* Positions are given away one by one, each once.
PositionsInv ==
  /\ seq.next = Cardinality(Given)
  /\ \A k \in Given : seq.position[k] < seq.next
  /\ \A k, l \in Given : seq.position[k] = seq.position[l] => k = l

\* A round commits a command that has a position, on behalf of some caller.
RoundInv == seq.pc = "commit" => seq.entry \in Given /\ seq.caller \in Command

\* What is stored, and what is on its way to be stored, is at its place.
EntriesInv ==
  /\ \A s \in Server, p \in Position : entries[s][p] # NoCommand => Placed(entries[s][p], p)
  /\ \A r \in msgs : r.type = "put" => Placed(r.command, r.position)

\* A client decides on whole states, and repairs the position that it collected
\* the copies of.
CallInv(state) ==
  /\ state.pc = "state" => state.replies \subseteq ServerState
  /\ state.pc \in {"read", "repair"} => state.position < state.tail
  /\ state.pc \notin {"read", "repair"} => state.copies = {}
  /\ \A k \in state.copies : Placed(k, state.position)

\* Nothing is left below a server's watermark.
TrimmedInv ==
  \A s \in Server, p \in Position : trimmed[s] > p => entries[s][p] = NoCommand

\* The inductive invariant: the types and the four parts above.
LogletInv ==
  /\ TypeOK
  /\ PositionsInv
  /\ RoundInv
  /\ EntriesInv
  /\ \A c \in Call : CallInv(call[c])
-----------------------------------------------------------------------------
(* What is known of the tail is committed.                                 *)

\* Per server, the positions that it holds or has trimmed.
Holdings == [s \in Server |-> {p \in Position : HasHeld(s, p)}]

Holders(h, p) == {s \in Server : p \in h[s]}

\* A quorum holds every position below a tail; or one server does, where no quorum does.
Covers(h, tail) == \A p \in Position : p < tail => Holders(h, p) \in Quorum
Backs(h, s, tail) == \A p \in Position : p < tail => p \in h[s] \/ Holders(h, p) \in Quorum

\* Behind a copy, its server has every copy that no quorum has.
ServersInv ==
  \A s \in Server : /\ Covers(Holdings, serverKnown[s]) /\ Covers(Holdings, trimmed[s])
                    /\ \A p \in Position : entries[s][p] # NoCommand => Backs(Holdings, s, p)

\* The tail that a request tells of.
Told(r) == IF r.type = "prefix_trim" THEN r.position ELSE r.known

ToldInv ==
  /\ \A k \in Client : Covers(Holdings, clientKnown[k]) /\ Covers(Holdings, clientTrim[k])
  /\ \A r \in msgs : Covers(Holdings, Told(r))
  /\ \A a \in acks : Covers(Holdings, a.known) /\ a.position < a.known

\* The servers that stored the put of this round.
Storers == stored \cup StoredIn(seq.replies)

\* A round is for the entry's position, which all that say so have stored.
CommitInv ==
  /\ Covers(Holdings, seq.tail)
  /\ \A r \in seq.replies : Covers(Holdings, r.tail)
  /\ seq.pc = "commit" =>
       /\ seq.request.type = "put" /\ seq.request.position = seq.position[seq.entry]
       /\ \A s \in Storers : seq.request.position \in Holdings[s]

\* What a call has heard, and what it has repaired so far.
HeardInv(h, x) ==
  /\ Covers(h, x.asked)
  /\ \A row \in x.rows : Covers(h, row.trimmed)
  /\ x.pc = "state" =>
       \A r \in x.replies : Covers(h, r.known) /\ Covers(h, r.trimmed) /\ Backs(h, r.from, r.tail)
  /\ x.pc \in {"seal", "trim"} => \A r \in x.replies : Covers(h, r.tail)
  /\ x.pc \in {"read", "repair"} => x.nodes \in Quorum /\ Covers(h, x.position)
  /\ x.pc = "repair" => \A s \in x.nodes \ x.todo : x.position \in h[s]
  /\ x.result.kind = "tail" => Covers(h, x.result.tail)

TailsInv ==
  /\ ServersInv
  /\ ToldInv
  /\ CommitInv
  /\ \A c \in Call : HeardInv(Holdings, call[c])
-----------------------------------------------------------------------------
(* What a reported tail accounts for, where states are read whole.         *)

\* No trim comes between the two queries of a state: one does not run there, or none is asked for.
WholeReads == ~TornReads \/ \A w \in Workload : w[3] # "prefix_trim"

StatesWhole ==
  /\ TornReads => /\ \A s \in Server : trimmed[s] = 0
                  /\ \A r \in msgs : r.type # "prefix_trim"
  /\ ~TornReads => \A c \in Call : call[c].rows = {}

\* The states that a check_tail has read show, at a quorum, what was reported before.
FloorInv(h, x) ==
  /\ \E Q \in Quorum :
       /\ x.floor > 0 => \A s \in Q : x.floor - 1 \in h[s]
       /\ x.pc = "state" => \A r \in x.replies : r.from \in Q => r.tail >= x.floor
  /\ x.pc \in {"read", "repair"} => x.tail >= x.floor
  /\ x.result.kind = "tail" => x.result.tail >= x.floor

\* The server is sealed and stored nothing of this round at or above the tail: it never will.
ClosedAt(s, tail) == s \in sealed /\ (seq.pc = "commit" /\ s \in Storers => seq.request.position < tail)

Closed(tail) ==
  /\ \E Q \in Quorum : \A s \in Q : ClosedAt(s, tail)
  /\ \A p \in committed : p < tail

\* A commit has a quorum of which every sealed server that was read has shown it.
ShownInv(h, x) ==
  /\ \A row \in x.rows : row.sealed => row.from \in sealed
  /\ x.pc = "state" =>
       /\ \A r \in x.replies : r.sealed => ClosedAt(r.from, r.tail)
       /\ \A p \in committed : \E P \in Quorum :
            /\ \A s \in P : p \in h[s]
            /\ \A r \in x.replies : r.sealed /\ r.from \in P => p < r.tail
  /\ x.pc \in {"read", "repair"} => Closed(x.tail)
  /\ x.result.kind = "tail" /\ x.result.sealed => Closed(x.result.tail)

ReportsInv ==
  /\ StatesWhole
  /\ \A p \in committed : Holders(Holdings, p) \in Quorum
  /\ \A c \in Call : FloorInv(Holdings, call[c]) /\ ShownInv(Holdings, call[c])
=============================================================================
