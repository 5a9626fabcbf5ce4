---------------------------- MODULE MetaStoreSpec ----------------------------
(***************************************************************************)
(* What the MetaStore promises its callers: chains are installed one after *)
(* the other, each by a compare-and-set that named the version it follows, *)
(* and every answer shows a version that really was installed.  A call may *)
(* take effect without ever being answered (its peer timed out or died).   *)
(* Answers need not be the latest: see ReadsAreFresh in PaxosMetaStore.    *)
(***************************************************************************)
EXTENDS VersionRegister, Sequences

CONSTANTS Call, NoValue, NoResult

VARIABLES
  history,   \* the chains installed: version v is history[v]
  asked,     \* per call: its command
  answers    \* per call: what its caller was told

Init ==
  /\ history = <<>>
  /\ asked = [c \in Call |-> NoValue]
  /\ answers = [c \in Call |-> NoResult]

Ask(c) ==
  /\ asked[c] = NoValue
  /\ \E command \in Command : asked' = [asked EXCEPT ![c] = command]
  /\ UNCHANGED <<history, answers>>

\* The command of call c takes effect, whether or not c is ever answered.
Install(c) ==
  /\ asked[c] # NoValue /\ asked[c].kind = "compare_and_set"
  /\ asked[c].expected = Len(history)
  /\ history' = Append(history, asked[c].chain)
  /\ UNCHANGED <<asked, answers>>

VersionOf(v) ==
  [version |-> v, chain |-> IF v = 0 THEN NoChain ELSE history[v]]

\* What call c may be told, when it is told of version v.
Truthful(c, v) ==
  IF asked[c].kind = "read_barrier" THEN {"snapshot"}
  ELSE (IF v # asked[c].expected THEN {"mismatch"} ELSE {})
         \cup (IF v = asked[c].expected + 1 /\ history[v] = asked[c].chain
                 THEN {"applied"} ELSE {})

Answer(c) ==
  /\ asked[c] # NoValue /\ answers[c] = NoResult
  /\ \E v \in 0..Len(history) : \E kind \in Truthful(c, v) :
       answers' = [answers EXCEPT ![c] = [kind |-> kind, snapshot |-> VersionOf(v)]]
  /\ UNCHANGED <<history, asked>>

Next == \E c \in Call : Ask(c) \/ Install(c) \/ Answer(c)

Spec == Init /\ [][Next]_<<history, asked, answers>>
=============================================================================
