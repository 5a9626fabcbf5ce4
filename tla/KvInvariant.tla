----------------------------- MODULE KvInvariant -----------------------------
(***************************************************************************)
(* The inductive invariant of KvReplication.                               *)
(***************************************************************************)
EXTENDS KvReplication

Holding == {"read", "apply", "cleared", "recorded"}
Holds(c) == call[c].pc \in Holding
Transacts(c) == call[c].pc \in {"cleared", "recorded"}

Phases == {"idle", "append", "tail", "wait", "get", "export", "install", "done", "failed"} \cup Holding

CallRecord ==
  [pc : Phases, home : Replica, at : Replica, request : Request \cup {[op |-> "none"]},
   target : Int, position : Nat, attempt : Nat, snapshot : Tables, floor : Nat]

\* Types, which TypeOK says only in part.
Types ==
  /\ log \in Seq(Envelope) /\ trimmed \in Nat /\ asked \subseteq Envelope
  /\ states \in [0..Len(log) -> Tables]
  /\ store \in [Replica -> Tables] /\ view \in [Replica -> Tables]
  /\ lock \in [Replica -> Call \cup {NoCall}]
  /\ serving \subseteq Replica
  /\ call \in [Call -> CallRecord]

\* states replays the log, and an entry of it is the result of its request.
StatesInv ==
  /\ states[0] = Pristine
  /\ \A n \in 1..Len(log) : states[n] = After(states[n - 1], n - 1, log[n])
  /\ \A n \in 0..Len(log) : \A p \in DOMAIN states[n].entries :
       /\ p < Len(log)
       /\ states[n].entries[p] = states[n].requests[log[p + 1].id]
       /\ states[n].entries[p].command = log[p + 1]

\* Tables that hold entries of the log, and all that the log makes unless one is missing.
Replayed(state) ==
  /\ state.applied \in -1..(Len(log) - 1)
  /\ DOMAIN state.entries \subseteq 0..state.applied
  /\ Whole(state) => state = states[state.applied + 1]

StoresInv ==
  /\ \A r \in Replica : Replayed(store[r])
  /\ \A c \in Call : Replayed(call[c].snapshot)

\* A submit waits for the entry of its command, and whoever has the lock for one not applied.
Aimed(x) ==
  /\ x.pc \in {"wait"} \cup Holding =>
       /\ x.target \in 0..(Len(log) - 1)
       /\ x.request.op = "submit" => log[x.target + 1] = x.request.command
  /\ x.pc \in Holding => store[x.at].applied < x.position /\ x.position <= x.target

TargetsInv == \A c \in Call : Aimed(call[c])

LockInv == \A c \in Call : Holds(c) => lock[At(c)] = c

\* Outside a transaction the connection shows what is committed, inside what the entry makes.
ViewsInv ==
  /\ \A r \in Replica : (\A c \in Call : At(c) = r => ~Transacts(c)) => view[r] = store[r]
  /\ \A c \in Call :
       /\ call[c].pc = "cleared" =>
            /\ store[At(c)].requests[CommandOf(c).id] = Absent
            /\ view[At(c)] = [store[At(c)] EXCEPT !.values = Pristine.values]
       /\ call[c].pc = "recorded" =>
            /\ ~Conflicts(store[At(c)], CommandOf(c))
            /\ view[At(c)] = After(store[At(c)], call[c].position, CommandOf(c))

\* Where a call works: at its own replica, which serves, or for one that is starting.
Placed(x) ==
  /\ x.request.op \in {"submit", "get"} => x.at = x.home /\ x.home \in serving
  /\ x.request.op = "bootstrap" => x.home \notin serving /\ (x.at # x.home => x.at \in serving)
  /\ x.request.op # "none"
  /\ x.pc = "append" => x.request.op = "submit"
  /\ x.pc = "get" => x.request.op = "get"
  /\ x.pc = "export" => x.request.op = "bootstrap"
  /\ x.pc = "install" => x.request.op = "bootstrap" /\ x.at = x.home
  /\ x.pc = "tail" => x.request.op # "submit"

PlacesInv ==
  /\ \A c \in Call : Running(c) => Placed(call[c])
  /\ \A c, d \in Call : Running(c) /\ Running(d) /\ call[c].request.op = "bootstrap"
                           /\ call[d].home = call[c].home => d = c

KvInv ==
  /\ Types /\ StatesInv /\ StoresInv /\ TargetsInv /\ LockInv /\ ViewsInv /\ PlacesInv
  /\ AnswersComeFromLog
-----------------------------------------------------------------------------
(* What keeps reads fresh.                                                 *)

\* A get may read less than it waited for only after a rollback at its replica.
Floored(x, n, applied, excused) ==
  x.pc \notin {"idle", "done", "failed"} /\ x.request.op = "get" =>
    /\ x.floor <= n
    /\ x.pc \in {"wait"} \cup Holding => x.floor <= x.target + 1
    /\ x.pc = "get" /\ ~excused => x.floor <= applied + 1

FloorsInv == \A c \in Call : Floored(call[c], Len(log), view[At(c)].applied, c \in undone)

\* What TypeOK says of the counters.
CountsInv == trimmed \in 0..Len(log) /\ failures \in 0..MaxFailures

ToldInv == \A a \in answers : a.kind = "get" => a.floor \in Nat

ReadsInv == FloorsInv /\ ToldInv /\ GetsAreNotStale
=============================================================================
