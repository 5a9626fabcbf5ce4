--------------------------- MODULE MCNativeLoglet ---------------------------
(***************************************************************************)
(* Small instances of NativeLoglet for TLC: three LogServers, of which s1  *)
(* runs the sequencer.                                                     *)
(***************************************************************************)
EXTENDS NativeLogletInvariant, TLC

CONSTANTS s1, s2, s3

MCServer == {s1, s2, s3}
MCClient == {"k1", "k2"}

OneClient == {"k1"}
AllLinks == (Client \cup {SequencerNode}) \X Server
\* The client does not reach s3, the sequencer does.
NearLinks == (Client \X {s1, s2}) \cup ({SequencerNode} \X Server)
\* The clients reach different majorities.
SplitLinks == ({"k1"} \X {s1, s2}) \cup ({"k2"} \X {s2, s3}) \cup ({s1} \X MCServer)
\* The sequencer and one client are on one side of s2, the other client is on the other.
BridgeLinks == ({"k1"} \X {s1, s2}) \cup ({"k2", s3} \X {s2, s3})

OneReader == {<<"c1", "k1", "check_tail">>}
TwoReaders == OneReader \cup {<<"c2", "k1", "check_tail">>}
SealAndRead == {<<"c1", "k1", "seal">>, <<"c2", "k1", "check_tail">>, <<"c3", "k2", "check_tail">>}
SealReadSeal == SealAndRead \cup {<<"c4", "k2", "seal">>}
SealOnce == {<<"c1", "k1", "seal">>}
SealOrRead == ({"c1"} \X {"k1"} \X {"seal", "check_tail"}) \cup ({"c2"} \X Client \X {"check_tail"})
ReadOrTrim == {<<"c1", "k1", "check_tail">>, <<"c1", "k1", "prefix_trim">>}
ReadThenTrim == {<<"c1", "k1", "check_tail">>, <<"c2", "k1", "prefix_trim">>}
TrimAndRead == {<<"c1", "k1", "check_tail">>, <<"c2", "k1", "prefix_trim">>, <<"c3", "k2", "check_tail">>}
=============================================================================
