---------------------------- MODULE SharedLogSpec ----------------------------
(***************************************************************************)
(* What the VirtualLog promises its users: one log, in which a position    *)
(* never changes its command.  Commands are added at its end, a prefix is  *)
(* removed, and an answer about a position tells what is there.            *)
(***************************************************************************)
EXTENDS Naturals, Sequences

CONSTANT Command

VARIABLES
  log,       \* the commands, in order; position p is log[p + 1]
  trimmed,   \* the entries below it are removed
  answers    \* what callers were told

Init ==
  /\ log = <<>>
  /\ trimmed = 0
  /\ answers = {}

Add ==
  /\ \E k \in Command : log' = Append(log, k)
  /\ UNCHANGED <<trimmed, answers>>

Trim ==
  /\ \E n \in (trimmed + 1)..Len(log) : trimmed' = n
  /\ UNCHANGED <<log, answers>>

\* An append is told the position of its command; a read the first entry that is left, from the
\* position it asked for; a trim a position below which nothing is left.
Truthful(a) ==
  CASE a.kind = "append" -> a.position < Len(log) /\ log[a.position + 1] = a.command
    [] a.kind = "read" -> /\ a.position < Len(log) /\ log[a.position + 1] = a.command
                          /\ \A p \in a.from..(a.position - 1) : p < trimmed
    [] a.kind = "trim" -> a.position <= trimmed

Answer ==
  /\ \A a \in answers' \ answers : Truthful(a)
  /\ answers \subseteq answers'
  /\ UNCHANGED <<log, trimmed>>

Next == Add \/ Trim \/ Answer

Spec == Init /\ [][Next]_<<log, trimmed, answers>>
=============================================================================
