--------------------------- MODULE MCKvReplication ---------------------------
(***************************************************************************)
(* Small instances of KvReplication for TLC: a replica that serves and     *)
(* one that joins.                                                         *)
(***************************************************************************)
EXTENDS KvReplication

CONSTANTS x, text

Submit(id, operation) == [op |-> "submit", command |-> [id |-> id, operation |-> operation]]
PutX(v) == [kind |-> "put", key |-> x, value |-> v]
AddX(d) == [kind |-> "increment", key |-> x, delta |-> d]
DeleteX == [kind |-> "delete", key |-> x]
CasX(e, v) == [kind |-> "compare_and_set", key |-> x, expected |-> e, value |-> v]
GetX == [op |-> "get", key |-> x]
Bootstrap == [op |-> "bootstrap"]

\* A replica that serves and one that joins: the same request at both, one with the same
\* identifier but another body, and reads.
Mixed ==
  {<<"c1", "r1", Submit("i1", AddX(1))>>, <<"c2", "r1", Submit("i1", AddX(1))>>,
   <<"c2", "r2", Submit("i1", AddX(1))>>, <<"c2", "r2", Submit("i1", PutX(text))>>,
   <<"c2", "r2", Submit("i2", CasX(1, text))>>, <<"c2", "r2", GetX>>,
   <<"c3", "r1", Submit("i1", PutX(text))>>, <<"c3", "r1", GetX>>, <<"c3", "r2", Bootstrap>>}

\* A read while the second of two requests is applied.
ReadWhileApplying ==
  {<<"c1", "r1", Submit("i1", AddX(1))>>, <<"c2", "r1", Submit("i2", AddX(1))>>, <<"c3", "r1", GetX>>}
=============================================================================
