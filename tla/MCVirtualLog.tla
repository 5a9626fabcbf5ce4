---------------------------- MODULE MCVirtualLog ----------------------------
(***************************************************************************)
(* Small instances of VirtualLog for TLC.                                  *)
(***************************************************************************)
EXTENDS VirtualLog

CONSTANTS n1, n2, n3

AppendK(k) == [op |-> "append", command |-> k]
Do(op) == [op |-> op]
TrimTo(p) == [op |-> "trim", position |-> p]
ReadFrom(p, q) == [op |-> "read", from |-> p, to |-> q]
Join(n) == [op |-> "join", node |-> n]
Modify(id, n) == [op |-> "modify", segment |-> id, config |-> [members |-> {n1, n}, sequencer |-> n]]

\* Two clients bootstrap; one of them then joins a node, seals, modifies, appends or asks for the
\* tail, the other appends, reads and trims.
Mixed ==
  {<<"c1", "k1", Do("bootstrap")>>, <<"c2", "k2", Do("bootstrap")>>,
   <<"c3", "k2", AppendK("A")>>,
   <<"c4", "k1", Join(n3)>>, <<"c4", "k1", Modify(1, n3)>>, <<"c4", "k1", Do("seal")>>,
   <<"c4", "k1", AppendK("B")>>, <<"c4", "k1", Do("check_tail")>>, <<"c4", "k2", TrimTo(1)>>,
   <<"c5", "k2", ReadFrom(0, 1)>>}

\* At one client, an append finds its sequencer gone while a node joins.
AppendAndJoin ==
  {<<"c1", "k1", Do("bootstrap")>>, <<"c3", "k1", AppendK("A")>>, <<"c4", "k1", Join(n3)>>}

\* At one client a command is appended to a sealed segment, another one is appended to its
\* successor and read, while a node joins.
ReadBehindSeal ==
  {<<"c1", "k1", Do("bootstrap")>>, <<"c2", "k1", Do("seal")>>, <<"c3", "k1", AppendK("A")>>,
   <<"c4", "k1", AppendK("B")>>, <<"c5", "k1", Join(n3)>>, <<"c6", "k1", ReadFrom(0, 1)>>}
=============================================================================
