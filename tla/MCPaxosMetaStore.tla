-------------------------- MODULE MCPaxosMetaStore --------------------------
(***************************************************************************)
(* Small instances of PaxosMetaStore for TLC.                              *)
(***************************************************************************)
EXTENDS PaxosInvariant

CONSTANTS ChainA, ChainB

Cas(v, chain) == [kind |-> "compare_and_set", expected |-> v, chain |-> chain]

MCMember == 1..3
MCCall == {"c1", "c2"}
AllLinks == MCMember \X MCMember
\* Members 1 and 2 share no link: their quorums meet in member 3 alone.
SplitLinks == AllLinks \ {<<1, 2>>, <<2, 1>>}
\* Two clients install different first chains, at one member or at two.
RivalCas == {<<"c1", 1, Cas(0, ChainA)>>, <<"c2", 1, Cas(0, ChainB)>>, <<"c2", 2, Cas(0, ChainB)>>}
ApartCas == {<<"c1", 1, Cas(0, ChainA)>>, <<"c2", 2, Cas(0, ChainB)>>}
\* A read and an installation, by way of two members.
ReadAndCas == {<<"c1", 1, Cas(0, ChainA)>>, <<"c2", 2, ReadBarrier>>, <<"c2", 2, Cas(1, ChainB)>>}
MCCall3 == MCCall \cup {"c3"}
\* Member 2 serves a read and an installation, member 1 serves a later read.
LaggingReader == {<<"c1", 2, ReadBarrier>>, <<"c2", 2, Cas(0, ChainA)>>, <<"c3", 1, ReadBarrier>>}
=============================================================================
