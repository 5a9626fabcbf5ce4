----------------------------- MODULE MCController -----------------------------
(***************************************************************************)
(* Small instances of Controller for TLC.                                  *)
(***************************************************************************)
EXTENDS Controller

CONSTANTS m1, m2, m3, d1, d2, d3, d4, d5, d6, d7

\* While the cluster is started a database is resumed or all are stopped.  Then one is paused or killed, or one is
\* added, while that one is killed, or the cluster reset or started again.
Mixed ==
  {<<"c1", "start", NoNode>>, <<"c2", "resume", d1>>, <<"c2", "stop", NoNode>>,
   <<"c3", "pause", d1>>, <<"c3", "kill", d1>>, <<"c3", "add", NoNode>>,
   <<"c4", "kill", d4>>, <<"c4", "reset", NoNode>>, <<"c4", "start", NoNode>>}
InTurn == {<<"c1", "c3">>, <<"c1", "c4">>, <<"c2", "c4">>}

\* A database is killed while another client resumes it.
KillAndResume == {<<"c1", "start", NoNode>>, <<"c2", "kill", d1>>, <<"c3", "resume", d1>>}
AtOnce == {<<"c1", "c2">>, <<"c1", "c3">>}
=============================================================================
