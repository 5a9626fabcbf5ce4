--------------------------- MODULE VersionRegister ---------------------------
(***************************************************************************)
(* The replicated state machine of the MetaStore: one log chain under a    *)
(* version number, changed only by compare-and-set.  Pure operators, used  *)
(* by the Paxos replicas and by everything that relies on the MetaStore.   *)
(***************************************************************************)
EXTENDS Naturals

CONSTANTS
  Chain,       \* the log chains that are ever proposed
  NoChain,     \* "chain=None": the register before the bootstrap
  MaxVersion   \* bound on the versions that commands mention

ASSUME ChainAssumption == NoChain \notin Chain
ASSUME MaxVersionAssumption == MaxVersion \in Nat

Snapshot == [version : Nat, chain : Chain \cup {NoChain}]

InitialSnapshot == [version |-> 0, chain |-> NoChain]

\* A barrier carries no identity: any two read barriers are equal values.
ReadBarrier == [kind |-> "read_barrier"]

CompareAndSet == [kind : {"compare_and_set"}, expected : 0..MaxVersion, chain : Chain]

Command == {ReadBarrier} \cup CompareAndSet

Result == [kind : {"snapshot", "applied", "mismatch"}, snapshot : Snapshot]

\* Faulty: a command that names an older version matches too.
MatchesOlder(reg, cmd) ==
  cmd.kind = "compare_and_set" /\ cmd.expected <= reg.version

Matches(reg, cmd) ==
  cmd.kind = "compare_and_set" /\ cmd.expected = reg.version

\* The register after a command.
Applied(reg, cmd) ==
  IF Matches(reg, cmd)
    THEN [version |-> cmd.expected + 1, chain |-> cmd.chain]
    ELSE reg

\* Faulty: tells the register as it was before the command.
ResultBefore(reg, cmd) ==
  [kind |-> IF cmd.kind = "read_barrier" THEN "snapshot"
            ELSE IF Matches(reg, cmd) THEN "applied" ELSE "mismatch",
   snapshot |-> reg]

\* What the command's caller is told.
ResultOf(reg, cmd) ==
  [kind |-> IF cmd.kind = "read_barrier" THEN "snapshot"
            ELSE IF Matches(reg, cmd) THEN "applied" ELSE "mismatch",
   snapshot |-> Applied(reg, cmd)]

\* Faulty: of several slots that become applicable at once, only the last is applied.
ReplayLast(start, log, first, last) ==
  [s \in first..last |-> IF s = last /\ s > first THEN Applied(start, log[s]) ELSE start]

\* The registers passed through when the commands log[first + 1] .. log[last] are
\* applied to start, which stands after slot first.
Replay(start, log, first, last) ==
  LET reg[s \in first..last] ==
        IF s = first THEN start ELSE Applied(reg[s - 1], log[s])
  IN  reg
=============================================================================
