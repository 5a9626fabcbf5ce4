------------------------------ MODULE KvProofs ------------------------------
(***************************************************************************)
(* The stores of KvReplication replay the log, its answers come from it    *)
(* and its reads are fresh, for any replicas, calls, workload, keys,       *)
(* values and bounds.                                                      *)
(***************************************************************************)
EXTENDS KvInvariant, WellFoundedInduction, TLAPS

-----------------------------------------------------------------------------
(* Numbers.                                                                *)

\* A nonempty set of numbers has a lowest one.
LEMMA LowestExists ==
  ASSUME NEW S \in SUBSET Nat, S # {}
  PROVE  \E n \in S : \A k \in S : n <= k
<1>1. PICK n \in S : \A k \in S : ~ (<<k, n>> \in OpToRel(<, Nat))
  BY NatLessThanWellFounded, WFMin
<1>2. \A k \in S : ~ (k < n)
  BY <1>1 DEF OpToRel
<1> QED BY <1>2

\* What a call takes for its floor is no more than the log holds.
LEMMA FloorType ==
  ASSUME Len(log) \in Nat
  PROVE  AckedEntries \in 0..Len(log)
<1> DEFINE holding == {n \in 0..Len(log) : \A a \in {b \in answers : b.kind = "submit"} :
                                        states[n].requests[a.command.id] # Absent}
<1>1. CASE holding = {}
  BY <1>1 DEF AckedEntries
<1>2. CASE holding # {}
  <2>1. holding \in SUBSET Nat
    OBVIOUS
  <2>2. \E n \in holding : \A m \in holding : n <= m
    BY <1>2, <2>1, LowestExists
  <2>3. (CHOOSE n \in holding : \A m \in holding : n <= m) \in holding
    BY <2>2
  <2>4. AckedEntries = (CHOOSE n \in holding : \A m \in holding : n <= m)
    BY <1>2 DEF AckedEntries
  <2> QED BY <2>1, <2>3, <2>4
<1> QED BY <1>1, <1>2
-----------------------------------------------------------------------------
(* Tables.                                                                 *)

\* kv_applied_entries is a function from some positions to outcomes.
LEMMA EntriesType ==
  ASSUME NEW f
  PROVE  f \in Entries <=> (DOMAIN f \subseteq Nat /\ f \in [DOMAIN f -> Outcome])
BY DEF Entries

LEMMA PristineType ==
  /\ Pristine \in Tables
  /\ Pristine.applied = -1 /\ DOMAIN Pristine.entries = {}
  /\ Pristine.requests \in [RequestId -> {Absent}]
  /\ Pristine.values \in Values
<1>1. Pristine.entries = <<>> /\ DOMAIN Pristine.entries = {}
  BY DEF Pristine
<1>2. Pristine.entries \in Entries
  <2>1. DOMAIN Pristine.entries \subseteq Nat /\ Pristine.entries \in [DOMAIN Pristine.entries -> Outcome]
    BY <1>1
  <2> QED BY <2>1, EntriesType
<1> QED BY <1>1, <1>2 DEF Pristine, Tables, Values

\* The state machine keeps values values, and its results are results.
LEMMA AppliedType ==
  ASSUME NEW values \in Values, NEW operation \in Operation
  PROVE  /\ Applied(values, operation).values \in Values
         /\ Applied(values, operation).result \in Result
<1> DEFINE current == values[operation.key]
<1>0. operation.key \in Key /\ current \in Value \cup {Absent}
  BY DEF Operation, Values
<1>1. CASE operation.kind = "put"
  <2>1. operation.value \in Value
    BY <1>1 DEF Operation
  <2> QED BY <1>0, <1>1, <2>1 DEF Applied, With, Told, Values, Result
<1>2. CASE operation.kind = "delete"
  BY <1>0, <1>2 DEF Applied, Same, Told, Values, Result
<1>3. CASE operation.kind = "compare_and_set"
  <2>1. operation.value \in Value
    BY <1>3 DEF Operation
  <2> QED BY <1>0, <1>3, <2>1 DEF Applied, With, Same, Told, Values, Result
<1>4. CASE operation.kind = "increment"
  <2>1. operation.delta \in Int
    BY <1>4 DEF Operation
  <2>2. CASE current \in Text
    BY <1>0, <1>4, <2>2 DEF Applied, Same, Told, Values, Result, Value
  <2>3. CASE current \notin Text
    <3>1. operation.delta + (IF current = Absent THEN 0 ELSE current) \in Value
      BY <1>0, <2>1, <2>3 DEF Value
    <3> QED BY <1>0, <1>4, <2>3, <3>1 DEF Applied, With, Told, Values, Result
  <2> QED BY <2>2, <2>3
<1> QED BY <1>1, <1>2, <1>3, <1>4 DEF Operation

LEMMA UpdatedRecord ==
  ASSUME NEW A, NEW V, NEW R, NEW E,
         NEW s \in [applied : A, values : V, requests : R, entries : E], NEW p \in A, NEW e \in E
  PROVE  /\ [s EXCEPT !.applied = p, !.entries = e] \in [applied : A, values : V, requests : R, entries : E]
         /\ [s EXCEPT !.applied = p, !.entries = e].applied = p
         /\ [s EXCEPT !.applied = p, !.entries = e].requests = s.requests
         /\ [s EXCEPT !.applied = p, !.entries = e].entries = e
OBVIOUS

\* A row more in kv_applied_entries.
LEMMA WithEntryType ==
  ASSUME NEW s \in Tables, NEW p \in Nat, NEW outcome \in Outcome
  PROVE  /\ WithEntry(s, p, outcome) \in Tables
         /\ WithEntry(s, p, outcome).applied = p
         /\ WithEntry(s, p, outcome).requests = s.requests
         /\ DOMAIN WithEntry(s, p, outcome).entries = DOMAIN s.entries \cup {p}
         /\ WithEntry(s, p, outcome).entries[p] = outcome
         /\ \A q \in DOMAIN s.entries \ {p} : WithEntry(s, p, outcome).entries[q] = s.entries[q]
<1> DEFINE e == [q \in DOMAIN s.entries \cup {p} |-> IF q = p THEN outcome ELSE s.entries[q]]
<1>1. s.entries \in Entries
  BY DEF Tables
<1>2. DOMAIN s.entries \subseteq Nat /\ s.entries \in [DOMAIN s.entries -> Outcome]
  BY <1>1, EntriesType
<1>3. DOMAIN e \subseteq Nat /\ e \in [DOMAIN e -> Outcome]
  BY <1>2
<1>4. e \in Entries
  BY <1>3, EntriesType
<1> DEFINE t == [s EXCEPT !.applied = p, !.entries = e]
<1>5. WithEntry(s, p, outcome) = t
  BY Zenon DEF WithEntry
<1> HIDE DEF e
<1>6. /\ t \in [applied : Int, values : Values, requests : [RequestId -> Outcome \cup {Absent}], entries : Entries]
      /\ t.applied = p /\ t.requests = s.requests /\ t.entries = e
  <2>1. s \in [applied : Int, values : Values, requests : [RequestId -> Outcome \cup {Absent}], entries : Entries]
    BY DEF Tables
  <2>2. p \in Int
    OBVIOUS
  <2> QED BY <1>4, <2>1, <2>2, UpdatedRecord, Zenon
<1> HIDE DEF t
<1>7. /\ DOMAIN e = DOMAIN s.entries \cup {p} /\ e[p] = outcome
      /\ \A q \in DOMAIN s.entries \ {p} : e[q] = s.entries[q]
  BY DEF e
<1> QED BY <1>5, <1>6, <1>7 DEF Tables

\* What an entry makes of the tables, if it is not refused.
LEMMA AfterType ==
  ASSUME NEW s \in Tables, NEW p \in Nat, NEW command \in Envelope
  PROVE  /\ After(s, p, command) \in Tables
         /\ Conflicts(s, command) => After(s, p, command) = s
         /\ ~Conflicts(s, command) =>
              /\ After(s, p, command).applied = p
              /\ DOMAIN After(s, p, command).entries = DOMAIN s.entries \cup {p}
              /\ \A q \in DOMAIN s.entries \ {p} : After(s, p, command).entries[q] = s.entries[q]
              /\ After(s, p, command).entries[p] = After(s, p, command).requests[command.id]
              /\ After(s, p, command).entries[p].command = command
              /\ \A i \in RequestId : s.requests[i] # Absent =>
                   After(s, p, command).requests[i] = s.requests[i]
<1>0. command.id \in RequestId /\ command.operation \in Operation
  BY DEF Envelope
<1>1. CASE Conflicts(s, command)
  BY <1>1 DEF After
<1>2. CASE ~Conflicts(s, command) /\ s.requests[command.id] # Absent
  <2>1. s.requests[command.id] \in Outcome /\ s.requests[command.id].command = command
    BY <1>0, <1>2 DEF Tables, Conflicts
  <2>2. After(s, p, command) = WithEntry(s, p, s.requests[command.id])
    BY <1>2 DEF After
  <2> QED BY <1>2, <2>1, <2>2, WithEntryType
<1>3. CASE ~Conflicts(s, command) /\ s.requests[command.id] = Absent
  <2> DEFINE done == Applied(s.values, command.operation)
             outcome == [command |-> command, result |-> done.result]
             t == [s EXCEPT !.values = done.values, !.requests[command.id] = outcome]
  <2>1. s.values \in Values
    BY DEF Tables
  <2>2. done.values \in Values /\ done.result \in Result
    BY <1>0, <2>1, AppliedType
  <2>3. After(s, p, command) = WithEntry(t, p, outcome)
    BY <1>3 DEF After, Executed
  <2> HIDE DEF done
  <2>4. outcome \in Outcome /\ outcome.command = command
    BY <2>2 DEF Outcome
  <2> HIDE DEF outcome
  <2>5. /\ t \in Tables /\ t.entries = s.entries /\ t.requests[command.id] = outcome
        /\ \A i \in RequestId : i # command.id => t.requests[i] = s.requests[i]
    BY <1>0, <2>2, <2>4 DEF Tables
  <2> HIDE DEF t
  <2> QED BY <1>0, <1>3, <2>3, <2>4, <2>5, WithEntryType
<1> QED BY <1>1, <1>2, <1>3
-----------------------------------------------------------------------------
(* The initial states.                                                     *)

LEMMA RequestOps ==
  \A q \in Request : /\ q.op \in {"submit", "get", "bootstrap"}
                     /\ q.op = "submit" => q.command \in Envelope
                     /\ q.op = "get" => q.key \in Key
BY DEF Request

LEMMA IdleType == Idle \in CallRecord /\ Idle.snapshot = Pristine /\ Idle.pc = "idle"
<1>1. (CHOOSE r \in Replica : TRUE) \in Replica
  BY JoinerAssumption
<1> QED BY <1>1, PristineType DEF Idle, CallRecord, Phases

LEMMA PristineReplayed ==
  ASSUME Types, StatesInv
  PROVE  Replayed(Pristine)
<1>1. Len(log) \in Nat
  BY DEF Types
<1>2. 0..Pristine.applied = {} /\ Pristine.applied + 1 = 0
  BY PristineType
<1> QED BY <1>1, <1>2, PristineType DEF Replayed, StatesInv

LEMMA Starts == Init => KvInv
<1> SUFFICES ASSUME Init PROVE KvInv
  OBVIOUS
<1>1. \A c \in Call : call[c] = Idle
  BY DEF Init
<1>2. Types
  <2>1. log \in Seq(Envelope) /\ trimmed \in Nat /\ asked \subseteq Envelope /\ Len(log) = 0
    BY DEF Init
  <2>2. states \in [0..Len(log) -> Tables]
    BY <2>1, PristineType DEF Init
  <2>3. store \in [Replica -> Tables] /\ view \in [Replica -> Tables]
    BY PristineType DEF Init
  <2>4. call \in [Call -> CallRecord]
    BY IdleType DEF Init
  <2> QED BY <2>1, <2>2, <2>3, <2>4 DEF Init, Types
<1>3. StatesInv
  <2>1. Len(log) = 0 /\ 0..Len(log) = {0} /\ 1..Len(log) = {} /\ states[0] = Pristine
    BY DEF Init
  <2> QED BY <2>1, PristineType DEF StatesInv
<1>4. StoresInv
  BY <1>1, <1>2, <1>3, PristineReplayed, IdleType DEF StoresInv, Init
<1>5. TargetsInv /\ LockInv /\ ViewsInv /\ PlacesInv
  BY <1>1, IdleType DEF TargetsInv, Aimed, LockInv, ViewsInv, PlacesInv, Holding, Holds, Transacts, Running, Init
<1>6. AnswersComeFromLog
  BY DEF AnswersComeFromLog, Init
<1> QED BY <1>2, <1>3, <1>4, <1>5, <1>6 DEF KvInv
-----------------------------------------------------------------------------
(* A step that changes only how far one call is, locks, and what is served. *)

LEMMA TypesFacts ==
  ASSUME Types
  PROVE  /\ Len(log) \in Nat /\ DOMAIN log = 1..Len(log)
         /\ \A i \in 1..Len(log) : log[i] \in Envelope
         /\ \A n \in 0..Len(log) : states[n] \in Tables
         /\ \A r \in Replica : store[r] \in Tables /\ view[r] \in Tables
         /\ \A c \in Call : /\ call[c] \in CallRecord /\ At(c) \in Replica /\ call[c].home \in Replica
                            /\ call[c].position \in Nat /\ call[c].target \in Int
                            /\ call[c].snapshot \in Tables
<1>1. log \in Seq(Envelope) /\ states \in [0..Len(log) -> Tables]
  BY DEF Types
<1>2. /\ Len(log) \in Nat /\ DOMAIN log = 1..Len(log)
      /\ \A i \in 1..Len(log) : log[i] \in Envelope
  BY <1>1
<1>3. \A n \in 0..Len(log) : states[n] \in Tables
  BY <1>1
<1>4. \A r \in Replica : store[r] \in Tables /\ view[r] \in Tables
  BY DEF Types
<1>5. \A c \in Call : call[c] \in CallRecord
  BY DEF Types
<1>6. \A x \in CallRecord : /\ x.at \in Replica /\ x.home \in Replica /\ x.position \in Nat
                             /\ x.target \in Int /\ x.snapshot \in Tables
  BY DEF CallRecord
<1> QED BY <1>2, <1>3, <1>4, <1>5, <1>6 DEF At

LEMMA CallMoves ==
  ASSUME KvInv, NEW c \in Call, NEW x \in CallRecord, call' = [call EXCEPT ![c] = x],
         UNCHANGED <<log, states, store, view>>,
         ~Transacts(c), x.pc \notin {"cleared", "recorded"},
         Replayed(x.snapshot), Aimed(x),
         x.pc \in Holding => lock'[x.at] = c,
         \A d \in Call \ {c} : Holds(d) => lock'[At(d)] = d
  PROVE  StatesInv' /\ StoresInv' /\ TargetsInv' /\ LockInv' /\ ViewsInv'
<1>0. Types /\ StatesInv /\ StoresInv /\ TargetsInv /\ ViewsInv
  BY DEF KvInv
<1>1. call'[c] = x /\ \A d \in Call \ {c} : call'[d] = call[d]
  BY <1>0 DEF Types
<1>2. StatesInv'
  BY <1>0 DEF StatesInv
<1>3. StoresInv'
  BY <1>0, <1>1 DEF StoresInv, Replayed
<1>4. TargetsInv'
  <2> SUFFICES ASSUME NEW d \in Call PROVE Aimed(call[d])'
    BY DEF TargetsInv
  <2>1. Aimed(call'[d])
    BY <1>0, <1>1 DEF TargetsInv
  <2> QED BY <2>1 DEF Aimed
<1>5. LockInv'
  BY <1>1 DEF LockInv, Holds, At
<1>6. ViewsInv'
  <2>1. \A d \in Call : Transacts(d)' => d # c /\ Transacts(d) /\ call'[d] = call[d]
    BY <1>1 DEF Transacts
  <2>2. ASSUME NEW r \in Replica, \A d \in Call : At(d)' = r => ~Transacts(d)' PROVE view[r] = store[r]
    <3>1. \A d \in Call : At(d) = r => ~Transacts(d)
      BY <1>1, <2>2 DEF Transacts, At
    <3> QED BY <1>0, <3>1 DEF ViewsInv
  <2>3. ASSUME NEW d \in Call, call'[d].pc = "cleared"
        PROVE  /\ store[At(d)'].requests[CommandOf(d)'.id] = Absent
               /\ view[At(d)'] = [store[At(d)'] EXCEPT !.values = Pristine.values]
    BY <1>0, <2>1, <2>3 DEF ViewsInv, Transacts, At, CommandOf
  <2>4. ASSUME NEW d \in Call, call'[d].pc = "recorded"
        PROVE  /\ ~Conflicts(store[At(d)'], CommandOf(d)')
               /\ view[At(d)'] = After(store[At(d)'], call'[d].position, CommandOf(d)')
    <3>1. call[d].pc = "recorded" /\ call'[d] = call[d]
      BY <2>1, <2>4 DEF Transacts
    <3>2. At(d)' = At(d) /\ CommandOf(d)' = CommandOf(d)
      BY <3>1 DEF At, CommandOf
    <3> QED BY <1>0, <3>1, <3>2 DEF ViewsInv
  <2> QED BY <2>2, <2>3, <2>4 DEF ViewsInv
<1> QED BY <1>2, <1>3, <1>4, <1>5, <1>6

\* One that ends, or goes on at a place that fits, keeps the others where they are.
LEMMA PlaceMoves ==
  ASSUME PlacesInv, NEW c \in Call, NEW x, call \in [Call -> CallRecord], call' = [call EXCEPT ![c] = x],
         serving' = serving,
         \/ x.pc \in {"idle", "done", "failed"}
         \/ Running(c) /\ x.home = call[c].home /\ x.request = call[c].request /\ Placed(x)
  PROVE  PlacesInv'
<1>1. call'[c] = x /\ \A d \in Call \ {c} : call'[d] = call[d]
  OBVIOUS
<1>2. \A d \in Call : Running(d)' => /\ Running(d) /\ call'[d].home = call[d].home
                                     /\ call'[d].request = call[d].request
  BY <1>1 DEF Running
<1>3. ASSUME NEW d \in Call, Running(d)' PROVE Placed(call[d])'
  <2>1. Placed(call'[d])
    BY <1>1, <1>2, <1>3 DEF PlacesInv, Running
  <2> QED BY <2>1 DEF Placed
<1>4. ASSUME NEW d \in Call, NEW e \in Call, Running(d)', Running(e)',
             call'[d].request.op = "bootstrap", call'[e].home = call'[d].home
      PROVE  e = d
  BY <1>2, <1>4 DEF PlacesInv
<1> QED BY <1>3, <1>4 DEF PlacesInv
-----------------------------------------------------------------------------
(* How calls move on and end.                                              *)

LEMMA OverType ==
  ASSUME Types, StatesInv, NEW c \in Call, NEW pc \in {"done", "failed"}
  PROVE  /\ Over(c, pc) \in CallRecord /\ Over(c, pc).pc = pc
         /\ Replayed(Over(c, pc).snapshot) /\ Aimed(Over(c, pc))
<1>1. call[c] \in CallRecord
  BY DEF Types
<1>2. /\ call[c].home \in Replica /\ call[c].request \in Request \cup {[op |-> "none"]}
  BY <1>1 DEF CallRecord
<1>3. Over(c, pc) \in CallRecord /\ Over(c, pc).pc = pc /\ Over(c, pc).snapshot = Pristine
  BY <1>2, IdleType DEF Over, CallRecord, Phases, Idle
<1> QED BY <1>3, PristineReplayed DEF Aimed, Holding

\* An answer that the log gives keeps AnswersComeFromLog.
LEMMA AnswerKept ==
  ASSUME AnswersComeFromLog, UNCHANGED states, NEW a, answers' = answers \cup {a},
         a.kind = "submit" /\ a.whole =>
           \E n \in DOMAIN states : states[n].requests[a.command.id] = [command |-> a.command, result |-> a.result]
  PROVE  AnswersComeFromLog'
BY DEF AnswersComeFromLog

LEMMA OldAnswersKept ==
  ASSUME AnswersComeFromLog, UNCHANGED <<states, answers>>
  PROVE  AnswersComeFromLog'
BY DEF AnswersComeFromLog

\* A call that fails at an await and leaves the tables alone.
LEMMA CallFails ==
  ASSUME KvInv, NEW c \in Call, Fail(c), ~Transacts(c), UNCHANGED <<logVars, store, view, serving>>,
         lock' \in [Replica -> Call \cup {NoCall}],
         \A d \in Call \ {c} : Holds(d) => lock'[At(d)] = d
  PROVE  KvInv'
<1>0. Types /\ StatesInv /\ PlacesInv /\ AnswersComeFromLog
  BY DEF KvInv
<1> DEFINE x == Over(c, "failed")
<1>1. call' = [call EXCEPT ![c] = x] /\ answers' = answers
  BY DEF Fail, Step
<1>2. x \in CallRecord /\ x.pc = "failed" /\ Replayed(x.snapshot) /\ Aimed(x)
  BY <1>0, OverType
<1> HIDE DEF x
<1>3. StatesInv' /\ StoresInv' /\ TargetsInv' /\ LockInv' /\ ViewsInv'
  <2>1. x.pc \notin Holding /\ x.pc \notin {"cleared", "recorded"}
    BY <1>2 DEF Holding
  <2> QED BY <1>1, <1>2, <2>1, CallMoves DEF logVars
<1>4. PlacesInv'
  BY <1>0, <1>1, <1>2, PlaceMoves DEF Types
<1>5. Types'
  BY <1>0, <1>1, <1>2 DEF Types, logVars
<1>6. AnswersComeFromLog'
  BY <1>0, <1>1, OldAnswersKept DEF logVars
<1> QED BY <1>3, <1>4, <1>5, <1>6 DEF KvInv

\* What follows when a replica has materialized the target of a call.
LEMMA MaterializedMoves ==
  ASSUME KvInv, NEW c \in Call, Running(c), NEW result, Materialized(c, call[c], result),
         UNCHANGED states, Aimed(call[c]),
         call[c].request.op = "submit" /\ Whole(view[At(c)]) =>
           \E n \in DOMAIN states : states[n].requests[call[c].request.command.id]
                                      = [command |-> call[c].request.command, result |-> result]
  PROVE  /\ \E x \in CallRecord : /\ call' = [call EXCEPT ![c] = x] /\ x.pc \in {"done", "get", "export"}
                                  /\ Replayed(x.snapshot)
         /\ PlacesInv' /\ AnswersComeFromLog' /\ serving' \subseteq Replica
<1>0. Types /\ StatesInv /\ StoresInv /\ PlacesInv /\ AnswersComeFromLog
  BY DEF KvInv
<1>1. Placed(call[c]) /\ call[c] \in CallRecord /\ Replayed(call[c].snapshot)
  BY <1>0 DEF PlacesInv, StoresInv, Types
<1>2. call[c].request.op \in {"submit", "get", "bootstrap"}
  <2>1. call[c].request \in Request
    BY <1>1 DEF CallRecord, Placed
  <2> QED BY <2>1, RequestOps
<1>3. /\ Over(c, "done") \in CallRecord /\ Over(c, "done").pc = "done" /\ Replayed(Over(c, "done").snapshot)
  BY <1>0, OverType
<1>4. CASE call[c].request.op = "submit"
  <2> DEFINE a == [kind |-> "submit", command |-> call[c].request.command, result |-> result,
                   whole |-> Whole(view[At(c)])]
  <2>1. call' = [call EXCEPT ![c] = Over(c, "done")] /\ answers' = answers \cup {a} /\ serving' = serving
    BY <1>4 DEF Materialized, Finish, Step
  <2>2. AnswersComeFromLog'
    <3>1. a.kind = "submit" /\ a.whole =>
            \E n \in DOMAIN states : states[n].requests[a.command.id] = [command |-> a.command, result |-> a.result]
      BY <1>4
    <3> HIDE DEF a
    <3> QED BY <1>0, <2>1, <3>1, AnswerKept
  <2>3. PlacesInv'
    BY <1>0, <1>3, <2>1, PlaceMoves DEF Types
  <2> QED BY <1>0, <1>3, <2>1, <2>2, <2>3 DEF Types
<1>5. CASE call[c].request.op = "get"
  <2> DEFINE x == [call[c] EXCEPT !.pc = "get"]
  <2>1. call' = [call EXCEPT ![c] = x] /\ answers' = answers /\ serving' = serving
    BY <1>5 DEF Materialized, Step
  <2>2. /\ x \in CallRecord /\ x.pc = "get" /\ x.home = call[c].home /\ x.request = call[c].request
        /\ x.snapshot = call[c].snapshot /\ x.at = call[c].at
    BY <1>1 DEF CallRecord, Phases
  <2> HIDE DEF x
  <2>3. Placed(x)
    BY <1>1, <1>5, <2>2 DEF Placed
  <2> QED BY <1>0, <1>1, <2>1, <2>2, <2>3, PlaceMoves, OldAnswersKept DEF Types
<1>6. CASE call[c].request.op = "bootstrap" /\ call[c].at # call[c].home
  <2> DEFINE x == [call[c] EXCEPT !.pc = "export"]
  <2>1. call' = [call EXCEPT ![c] = x] /\ answers' = answers /\ serving' = serving
    BY <1>6 DEF Materialized, Step
  <2>2. /\ x \in CallRecord /\ x.pc = "export" /\ x.home = call[c].home /\ x.request = call[c].request
        /\ x.snapshot = call[c].snapshot /\ x.at = call[c].at
    BY <1>1 DEF CallRecord, Phases
  <2> HIDE DEF x
  <2>3. Placed(x)
    BY <1>1, <1>6, <2>2 DEF Placed
  <2> QED BY <1>0, <1>1, <2>1, <2>2, <2>3, PlaceMoves, OldAnswersKept DEF Types
<1>7. CASE call[c].request.op = "bootstrap" /\ call[c].at = call[c].home
  <2>1. /\ call' = [call EXCEPT ![c] = Over(c, "done")] /\ answers' = answers \cup {}
        /\ serving' = serving \cup {call[c].home}
    BY <1>7 DEF Materialized, Finish, Step
  <2>2. AnswersComeFromLog' /\ serving' \subseteq Replica
    BY <1>0, <1>1, <2>1, OldAnswersKept DEF Types, CallRecord
  <2>3. PlacesInv'
    <3>1. \A d \in Call : Running(d)' => d # c /\ Running(d) /\ call'[d] = call[d]
      BY <1>0, <1>3, <2>1 DEF Types, Running
    <3>2. ASSUME NEW d \in Call, Running(d)' PROVE Placed(call[d])'
      <4>1. d # c /\ Running(d) /\ call'[d] = call[d] /\ Placed(call[d])
        BY <1>0, <3>1, <3>2 DEF PlacesInv
      <4>2. call[d].request.op = "bootstrap" => call[d].home # call[c].home
        BY <1>0, <1>7, <4>1 DEF PlacesInv
      <4> QED BY <2>1, <4>1, <4>2 DEF Placed
    <3> QED BY <1>0, <3>1, <3>2 DEF PlacesInv
  <2> QED BY <1>3, <2>1, <2>2, <2>3
<1> QED BY <1>2, <1>4, <1>5, <1>6, <1>7

\* A call goes on and the tables stay.
LEMMA CallAdvances ==
  ASSUME KvInv, NEW c \in Call, Running(c), ~Transacts(c),
         NEW x \in CallRecord, call' = [call EXCEPT ![c] = x],
         UNCHANGED <<logVars, store, view, serving, answers>>,
         lock' \in [Replica -> Call \cup {NoCall}],
         \A d \in Call \ {c} : Holds(d) => lock'[At(d)] = d,
         x.pc \notin {"cleared", "recorded"}, x.pc \in Holding => lock'[x.at] = c,
         Replayed(x.snapshot), Aimed(x),
         x.home = call[c].home, x.request = call[c].request, Placed(x)
  PROVE  KvInv'
<1>0. Types /\ PlacesInv /\ AnswersComeFromLog
  BY DEF KvInv
<1>1. UNCHANGED <<log, states, store, view>>
  BY DEF logVars
<1>2. StatesInv' /\ StoresInv' /\ TargetsInv' /\ LockInv' /\ ViewsInv'
  BY <1>1, CallMoves
<1>3. PlacesInv'
  BY <1>0, PlaceMoves DEF Types
<1>4. Types'
  BY <1>0 DEF Types, logVars
<1>5. AnswersComeFromLog'
  BY <1>0, OldAnswersKept DEF logVars
<1> QED BY <1>2, <1>3, <1>4, <1>5 DEF KvInv

\* A replica has what a call waited for, and the tables stay.
LEMMA MaterializedKept ==
  ASSUME KvInv, NEW c \in Call, Running(c), ~Transacts(c), NEW result, Materialized(c, call[c], result),
         UNCHANGED <<logVars, store, view>>,
         lock' \in [Replica -> Call \cup {NoCall}],
         \A d \in Call \ {c} : Holds(d) => lock'[At(d)] = d,
         call[c].request.op = "submit" /\ Whole(view[At(c)]) =>
           \E n \in DOMAIN states : states[n].requests[call[c].request.command.id]
                                      = [command |-> call[c].request.command, result |-> result]
  PROVE  KvInv'
<1>0. Types /\ TargetsInv /\ Aimed(call[c])
  BY DEF KvInv, TargetsInv
<1>1. UNCHANGED <<log, states, store, view>> /\ UNCHANGED <<trimmed, asked>>
  BY DEF logVars
<1>2. PICK x \in CallRecord : /\ call' = [call EXCEPT ![c] = x] /\ x.pc \in {"done", "get", "export"}
                              /\ Replayed(x.snapshot)
  BY <1>0, <1>1, MaterializedMoves
<1>3. PlacesInv' /\ AnswersComeFromLog' /\ serving' \subseteq Replica
  BY <1>0, <1>1, MaterializedMoves
<1>4. x.pc \notin Holding /\ x.pc \notin {"cleared", "recorded"} /\ Aimed(x)
  BY <1>2 DEF Holding, Aimed
<1>5. StatesInv' /\ StoresInv' /\ TargetsInv' /\ LockInv' /\ ViewsInv'
  BY <1>1, <1>2, <1>4, CallMoves
<1>6. Types'
  BY <1>0, <1>1, <1>2, <1>3 DEF Types
<1> QED BY <1>3, <1>5, <1>6 DEF KvInv
-----------------------------------------------------------------------------
(* What the tables hold.                                                   *)

\* Applying the entry at a later position to tables that replay the log: one entry is missing,
\* or they replay it up to there.
LEMMA AfterReplayed ==
  ASSUME Types, StatesInv, NEW s \in Tables, Replayed(s), NEW p \in Nat, s.applied < p, p < Len(log),
         ~Conflicts(s, log[p + 1])
  PROVE  Replayed(After(s, p, log[p + 1]))
<1> DEFINE t == After(s, p, log[p + 1])
<1>0. Len(log) \in Nat /\ log[p + 1] \in Envelope
  BY TypesFacts
<1>1. t.applied = p /\ DOMAIN t.entries = DOMAIN s.entries \cup {p}
  BY <1>0, AfterType
<1>2. s.applied \in Int /\ s.applied >= -1 /\ DOMAIN s.entries \subseteq 0..s.applied
  BY <1>0 DEF Replayed
<1>3. t.applied \in -1..(Len(log) - 1) /\ DOMAIN t.entries \subseteq 0..t.applied
  <2>1. p \in 0..p /\ 0..s.applied \subseteq 0..p
    BY <1>2
  <2> QED BY <1>0, <1>1, <1>2, <2>1
<1>4. ASSUME Whole(t) PROVE t = states[t.applied + 1]
  <2>1. DOMAIN s.entries \cup {p} = 0..p
    BY <1>1, <1>4 DEF Whole
  <2>2. p > 0 => p - 1 \in DOMAIN s.entries
    <3> SUFFICES ASSUME p > 0 PROVE p - 1 \in DOMAIN s.entries
      OBVIOUS
    <3>1. p - 1 \in 0..p /\ p - 1 # p
      OBVIOUS
    <3> QED BY <2>1, <3>1
  <2>3. s.applied = p - 1
    <3>1. CASE p > 0
      <4>1. p - 1 \in 0..s.applied
        BY <1>2, <2>2, <3>1
      <4> QED BY <1>2, <4>1
    <3>2. CASE p = 0
      BY <1>2, <3>2
    <3> QED BY <3>1, <3>2
  <2>4. DOMAIN s.entries = 0..s.applied
    <3>1. p \notin 0..s.applied /\ 0..s.applied \subseteq 0..p
      BY <1>2, <2>3
    <3> QED BY <1>2, <2>1, <3>1
  <2>5. s = states[p]
    BY <2>3, <2>4 DEF Replayed, Whole
  <2>6. p + 1 \in 1..Len(log) /\ (p + 1) - 1 = p
    BY <1>0
  <2>7. states[p + 1] = After(states[p], p, log[p + 1])
    BY <2>6 DEF StatesInv
  <2> QED BY <1>1, <2>5, <2>7
<1> HIDE DEF t
<1>5. Replayed(t)
  BY <1>3, <1>4 DEF Replayed
<1> QED BY <1>5 DEF t

\* What a connection shows is, but for the values, what the log makes of it.
LEMMA ViewFacts ==
  ASSUME KvInv, NEW r \in Replica
  PROVE  /\ view[r].applied \in -1..(Len(log) - 1)
         /\ DOMAIN view[r].entries \subseteq 0..view[r].applied
         /\ Whole(view[r]) => /\ view[r].requests = states[view[r].applied + 1].requests
                              /\ view[r].entries = states[view[r].applied + 1].entries
                              /\ ~Emptied(r) => view[r] = states[view[r].applied + 1]
<1>0. Types /\ StatesInv /\ StoresInv /\ TargetsInv /\ ViewsInv
  BY DEF KvInv
<1>1. Replayed(store[r]) /\ store[r] \in Tables
  BY <1>0, TypesFacts DEF StoresInv
<1>2. CASE \A c \in Call : At(c) = r => ~Transacts(c)
  BY <1>0, <1>1, <1>2 DEF ViewsInv, Replayed
<1>3. ASSUME NEW c \in Call, At(c) = r, call[c].pc = "cleared"
      PROVE  /\ view[r].applied = store[r].applied /\ view[r].requests = store[r].requests
             /\ view[r].entries = store[r].entries
  <2>1. view[r] = [store[r] EXCEPT !.values = Pristine.values]
    BY <1>0, <1>3 DEF ViewsInv
  <2> QED BY <1>1, <2>1 DEF Tables
<1>4. ASSUME NEW c \in Call, At(c) = r, call[c].pc = "recorded" PROVE Replayed(view[r])
  <2>1. view[r] = After(store[r], call[c].position, CommandOf(c)) /\ ~Conflicts(store[r], CommandOf(c))
    BY <1>0, <1>4 DEF ViewsInv
  <2>2. Aimed(call[c]) /\ call[c].at = r /\ call[c].position \in Nat /\ call[c].target \in Int /\ Len(log) \in Nat
    BY <1>0, <1>4, TypesFacts DEF TargetsInv, At
  <2>3. store[r].applied < call[c].position /\ call[c].position < Len(log)
    BY <1>4, <2>2 DEF Aimed, Holding
  <2> QED BY <1>0, <1>1, <2>1, <2>2, <2>3, AfterReplayed DEF CommandOf
<1>5. CASE \E c \in Call : At(c) = r /\ Transacts(c)
  <2>1. PICK c \in Call : At(c) = r /\ Transacts(c)
    BY <1>5
  <2>2. CASE call[c].pc = "cleared"
    BY <1>1, <1>3, <2>1, <2>2 DEF Replayed, Whole, Emptied
  <2>3. CASE call[c].pc = "recorded"
    BY <1>4, <2>1, <2>3 DEF Replayed
  <2> QED BY <2>1, <2>2, <2>3 DEF Transacts
<1> QED BY <1>2, <1>5

\* An entry that a connection shows is the result that the log gives its command.
LEMMA EntryAnswers ==
  ASSUME KvInv, NEW r \in Replica, NEW p \in DOMAIN view[r].entries, Whole(view[r])
  PROVE  \E n \in DOMAIN states : states[n].requests[log[p + 1].id]
                                    = [command |-> log[p + 1], result |-> view[r].entries[p].result]
<1>0. Types /\ StatesInv /\ Len(log) \in Nat
  BY TypesFacts DEF KvInv
<1> DEFINE n == view[r].applied + 1
<1>1. n \in 0..Len(log) /\ n \in DOMAIN states
  BY <1>0, ViewFacts DEF Types
<1>2. view[r].entries = states[n].entries
  BY ViewFacts
<1> HIDE DEF n
<1>3. /\ states[n].entries[p] = states[n].requests[log[p + 1].id]
      /\ states[n].entries[p].command = log[p + 1]
  BY <1>0, <1>1, <1>2 DEF StatesInv
<1>4. view[r].entries[p] \in Outcome
  <2>1. view[r].entries \in Entries
    BY <1>0, TypesFacts DEF Tables
  <2> QED BY <2>1, EntriesType
<1>5. view[r].entries[p] = [command |-> log[p + 1], result |-> view[r].entries[p].result]
  BY <1>2, <1>3, <1>4 DEF Outcome
<1> QED BY <1>1, <1>2, <1>3, <1>5
-----------------------------------------------------------------------------
(* The records of calls.                                                   *)

\* x is the record y, gone on to pc, with these fields and the others as they may be in K.
Moved(K, x, y, pc, at, target, position, snapshot) ==
  /\ x \in K /\ x.pc = pc /\ x.home = y.home /\ x.request = y.request
  /\ x.at = at /\ x.target = target /\ x.position = position /\ x.snapshot = snapshot /\ x.floor = y.floor

LEMMA TargetedRecord ==
  ASSUME NEW P, NEW H, NEW A, NEW R, NEW T, NEW O, NEW M, NEW S, NEW F,
         NEW s \in [pc : P, home : H, at : A, request : R, target : T, position : O, attempt : M, snapshot : S, floor : F],
         NEW pc \in P, NEW t \in T
  PROVE  Moved([pc : P, home : H, at : A, request : R, target : T, position : O, attempt : M, snapshot : S, floor : F],
               [s EXCEPT !.pc = pc, !.target = t], s, pc, s.at, t, s.position, s.snapshot)
BY DEF Moved

LEMMA Targeted ==
  ASSUME NEW c, call[c] \in CallRecord, NEW pc \in Phases, NEW t \in Int
  PROVE  Moved(CallRecord, [call[c] EXCEPT !.pc = pc, !.target = t],
               call[c], pc, call[c].at, t, call[c].position, call[c].snapshot)
<1> USE DEF CallRecord
<1>1. call[c] \in CallRecord /\ pc \in Phases
  OBVIOUS
<1> QED BY <1>1, TargetedRecord, Zenon

LEMMA PositionedRecord ==
  ASSUME NEW P, NEW H, NEW A, NEW R, NEW T, NEW O, NEW M, NEW S, NEW F,
         NEW s \in [pc : P, home : H, at : A, request : R, target : T, position : O, attempt : M, snapshot : S, floor : F],
         NEW pc \in P, NEW p \in O
  PROVE  Moved([pc : P, home : H, at : A, request : R, target : T, position : O, attempt : M, snapshot : S, floor : F],
               [s EXCEPT !.pc = pc, !.position = p], s, pc, s.at, s.target, p, s.snapshot)
BY DEF Moved

LEMMA Positioned ==
  ASSUME NEW c, call[c] \in CallRecord, NEW pc \in Phases, NEW p \in Nat
  PROVE  Moved(CallRecord, [call[c] EXCEPT !.pc = pc, !.position = p],
               call[c], pc, call[c].at, call[c].target, p, call[c].snapshot)
<1> USE DEF CallRecord
<1>1. call[c] \in CallRecord /\ pc \in Phases
  OBVIOUS
<1> QED BY <1>1, PositionedRecord, Zenon

LEMMA ResyncedRecord ==
  ASSUME NEW P, NEW H, NEW A, NEW R, NEW T, NEW O, NEW M, NEW S, NEW F,
         NEW s \in [pc : P, home : H, at : A, request : R, target : T, position : O, attempt : M, snapshot : S, floor : F],
         NEW pc \in P, NEW a \in A, NEW m \in M
  PROVE  Moved([pc : P, home : H, at : A, request : R, target : T, position : O, attempt : M, snapshot : S, floor : F],
               [s EXCEPT !.pc = pc, !.at = a, !.attempt = m], s, pc, a, s.target, s.position, s.snapshot)
BY DEF Moved

LEMMA Resynced ==
  ASSUME NEW c, call[c] \in CallRecord, NEW pc \in Phases, NEW a \in Replica, NEW m \in Nat
  PROVE  Moved(CallRecord, [call[c] EXCEPT !.pc = pc, !.at = a, !.attempt = m],
               call[c], pc, a, call[c].target, call[c].position, call[c].snapshot)
<1> USE DEF CallRecord
<1>1. call[c] \in CallRecord /\ pc \in Phases
  OBVIOUS
<1> QED BY <1>1, ResyncedRecord, Zenon

LEMMA HandedRecord ==
  ASSUME NEW P, NEW H, NEW A, NEW R, NEW T, NEW O, NEW M, NEW S, NEW F,
         NEW s \in [pc : P, home : H, at : A, request : R, target : T, position : O, attempt : M, snapshot : S, floor : F],
         NEW pc \in P, NEW a \in A, NEW z \in S
  PROVE  Moved([pc : P, home : H, at : A, request : R, target : T, position : O, attempt : M, snapshot : S, floor : F],
               [s EXCEPT !.pc = pc, !.at = a, !.snapshot = z], s, pc, a, s.target, s.position, z)
BY DEF Moved

LEMMA Handed ==
  ASSUME NEW c, call[c] \in CallRecord, NEW pc \in Phases, NEW a \in Replica, NEW z \in Tables
  PROVE  Moved(CallRecord, [call[c] EXCEPT !.pc = pc, !.at = a, !.snapshot = z],
               call[c], pc, a, call[c].target, call[c].position, z)
<1> USE DEF CallRecord
<1>1. call[c] \in CallRecord /\ pc \in Phases
  OBVIOUS
<1> QED BY <1>1, HandedRecord, Zenon

LEMMA InstallingRecord ==
  ASSUME NEW P, NEW H, NEW A, NEW R, NEW T, NEW O, NEW M, NEW S, NEW F,
         NEW s \in [pc : P, home : H, at : A, request : R, target : T, position : O, attempt : M, snapshot : S, floor : F],
         NEW pc \in P, NEW z \in S
  PROVE  Moved([pc : P, home : H, at : A, request : R, target : T, position : O, attempt : M, snapshot : S, floor : F],
               [s EXCEPT !.pc = pc, !.snapshot = z], s, pc, s.at, s.target, s.position, z)
BY DEF Moved

LEMMA Installing ==
  ASSUME NEW c, call[c] \in CallRecord, NEW pc \in Phases, NEW z \in Tables
  PROVE  Moved(CallRecord, [call[c] EXCEPT !.pc = pc, !.snapshot = z],
               call[c], pc, call[c].at, call[c].target, call[c].position, z)
<1> USE DEF CallRecord
<1>1. call[c] \in CallRecord /\ pc \in Phases
  OBVIOUS
<1> QED BY <1>1, InstallingRecord, Zenon

-----------------------------------------------------------------------------
(* The steps of one call that leave the tables alone.                      *)

\* Who holds a materializer's lock, but for a call that releases it, goes on holding it.
LEMMA UnlockedKeeps ==
  ASSUME KvInv, NEW c \in Call, Unlocked(c)
  PROVE  /\ lock' \in [Replica -> Call \cup {NoCall}]
         /\ \A d \in Call \ {c} : Holds(d) => lock'[At(d)] = d
<1>1. /\ lock \in [Replica -> Call \cup {NoCall}] /\ \A d \in Call : Holds(d) => lock[At(d)] = d
      /\ \A d \in Call : At(d) \in Replica
  BY TypesFacts DEF KvInv, Types, LockInv
<1> QED BY <1>1 DEF Unlocked

LEMMA LockKept ==
  ASSUME KvInv, UNCHANGED lock
  PROVE  /\ lock' \in [Replica -> Call \cup {NoCall}]
         /\ \A d \in Call : Holds(d) => lock'[At(d)] = d
BY DEF KvInv, Types, LockInv

\* What is known of a call that runs.
LEMMA RunningFacts ==
  ASSUME KvInv, NEW c \in Call, Running(c)
  PROVE  /\ Placed(call[c]) /\ Aimed(call[c]) /\ Replayed(call[c].snapshot)
         /\ call[c] \in CallRecord
         /\ call[c].request.op \in {"submit", "get", "bootstrap"}
<1>1. Placed(call[c]) /\ Aimed(call[c]) /\ Replayed(call[c].snapshot) /\ call[c] \in CallRecord
  BY DEF KvInv, PlacesInv, TargetsInv, StoresInv, Types
<1>2. call[c].request \in Request
  BY <1>1 DEF CallRecord, Placed
<1> QED BY <1>1, <1>2, RequestOps

LEMMA AppendAnsweredStep ==
  ASSUME KvInv, NEW c \in Call, AppendAnswered(c)
  PROVE  KvInv'
<1>0. Running(c) /\ ~Transacts(c) /\ call[c].pc = "append"
  BY DEF AppendAnswered, Running, Transacts
<1>1. PICK i \in DOMAIN log : /\ log[i] = call[c].request.command
                              /\ Step(c, [call[c] EXCEPT !.pc = "wait", !.target = i - 1])
  BY DEF AppendAnswered
<1> DEFINE x == [call[c] EXCEPT !.pc = "wait", !.target = i - 1]
<1>2. i \in 1..Len(log) /\ Len(log) \in Nat
  BY TypesFacts DEF KvInv
<1>3. /\ Placed(call[c]) /\ Replayed(call[c].snapshot) /\ call[c] \in CallRecord
  BY <1>0, RunningFacts
<1>4. call' = [call EXCEPT ![c] = x]
  BY <1>1 DEF Step
<1>5. /\ x \in CallRecord /\ x.pc = "wait" /\ x.target = i - 1 /\ x.at = call[c].at /\ x.home = call[c].home
      /\ x.request = call[c].request /\ x.snapshot = call[c].snapshot
  <2>1. "wait" \in Phases /\ i - 1 \in Int
    BY <1>2 DEF Phases
  <2>2. Moved(CallRecord, x, call[c], "wait", call[c].at, i - 1, call[c].position, call[c].snapshot)
    BY <1>3, <2>1, Targeted, Zenon
  <2> HIDE DEF x
  <2> QED BY <2>2 DEF Moved
<1> HIDE DEF x
<1>6. Placed(x)
  BY <1>3, <1>5 DEF Placed
<1>7. Aimed(x)
  BY <1>1, <1>2, <1>5 DEF Aimed, Holding
<1>8. UNCHANGED <<logVars, store, view, serving, answers>> /\ UNCHANGED lock
  BY DEF AppendAnswered
<1>9. x.pc \notin {"cleared", "recorded"} /\ x.pc \notin Holding
  BY <1>5 DEF Holding
<1> QED BY <1>0, <1>3, <1>4, <1>5, <1>6, <1>7, <1>8, <1>9, LockKept, CallAdvances

LEMMA TailAnsweredStep ==
  ASSUME KvInv, NEW c \in Call, TailAnswered(c)
  PROVE  KvInv'
<1>0. Running(c) /\ ~Transacts(c) /\ call[c].pc = "tail"
  BY DEF TailAnswered, Running, Transacts
<1>1. UNCHANGED <<logVars, store, view>> /\ UNCHANGED lock
  BY DEF TailAnswered
<1>2. /\ Placed(call[c]) /\ Replayed(call[c].snapshot) /\ call[c] \in CallRecord
      /\ call[c].request.op # "submit"
  BY <1>0, RunningFacts DEF Placed
<1>3. CASE Len(log) - 1 > view[At(c)].applied
  <2> DEFINE x == [call[c] EXCEPT !.pc = "wait", !.target = Len(log) - 1]
  <2>1. call' = [call EXCEPT ![c] = x] /\ UNCHANGED <<answers, serving>>
    BY <1>3 DEF TailAnswered, Step
  <2>2. Len(log) \in Nat /\ Len(log) > 0
    <3>1. At(c) \in Replica /\ Len(log) \in Nat
      BY TypesFacts DEF KvInv
    <3> QED BY <1>3, <3>1, ViewFacts
  <2>3. /\ x \in CallRecord /\ x.pc = "wait" /\ x.target = Len(log) - 1 /\ x.at = call[c].at
        /\ x.home = call[c].home /\ x.request = call[c].request /\ x.snapshot = call[c].snapshot
    <3>1. "wait" \in Phases /\ Len(log) - 1 \in Int
      BY <2>2 DEF Phases
    <3>2. Moved(CallRecord, x, call[c], "wait", call[c].at, Len(log) - 1, call[c].position, call[c].snapshot)
      BY <1>2, <3>1, Targeted, Zenon
    <3> HIDE DEF x
    <3> QED BY <3>2 DEF Moved
  <2> HIDE DEF x
  <2>4. Placed(x)
    BY <1>2, <2>3 DEF Placed
  <2>5. Aimed(x)
    BY <1>2, <2>2, <2>3 DEF Aimed, Holding
  <2>6. x.pc \notin {"cleared", "recorded"} /\ x.pc \notin Holding
    BY <2>3 DEF Holding
  <2> QED BY <1>0, <1>1, <1>2, <2>1, <2>3, <2>4, <2>5, <2>6, LockKept, CallAdvances
<1>4. CASE ~(Len(log) - 1 > view[At(c)].applied)
  <2>1. Materialized(c, call[c], Absent)
    BY <1>4 DEF TailAnswered
  <2> QED BY <1>0, <1>1, <1>2, <2>1, LockKept, MaterializedKept
<1> QED BY <1>3, <1>4

\* SyncRequired, where the tables stay and the lock is free or released.
LEMMA SyncRequiredKeeps ==
  ASSUME KvInv, NEW c \in Call, Running(c), ~Transacts(c), SyncRequired(c),
         UNCHANGED <<logVars, store, view, serving>>,
         lock' \in [Replica -> Call \cup {NoCall}],
         \A d \in Call \ {c} : Holds(d) => lock'[At(d)] = d
  PROVE  KvInv'
<1>1. CASE Fail(c)
  BY <1>1, CallFails
<1>2. CASE ~Fail(c)
  <2>1. /\ call[c].request.op = "bootstrap" /\ At(c) = call[c].home /\ UNCHANGED answers
        /\ \E s \in serving : Step(c, [call[c] EXCEPT !.pc = "tail", !.at = s, !.attempt = @ + 1])
    BY <1>2 DEF SyncRequired
  <2>2. PICK s \in serving : Step(c, [call[c] EXCEPT !.pc = "tail", !.at = s, !.attempt = @ + 1])
    BY <2>1
  <2> DEFINE x == [call[c] EXCEPT !.pc = "tail", !.at = s, !.attempt = @ + 1]
  <2>3. call' = [call EXCEPT ![c] = x]
    BY <2>2 DEF Step
  <2>4. /\ Placed(call[c]) /\ Replayed(call[c].snapshot) /\ call[c] \in CallRecord
    BY RunningFacts
  <2>5. s \in Replica
    BY DEF KvInv, Types
  <2>6. /\ x \in CallRecord /\ x.pc = "tail" /\ x.at = s
        /\ x.home = call[c].home /\ x.request = call[c].request /\ x.snapshot = call[c].snapshot
    <3>1. "tail" \in Phases /\ s \in Replica /\ call[c].attempt + 1 \in Nat
      BY <2>4, <2>5 DEF Phases, CallRecord
    <3>2. Moved(CallRecord, x, call[c], "tail", s, call[c].target, call[c].position, call[c].snapshot)
      BY <2>4, <3>1, Resynced, Zenon
    <3> HIDE DEF x
    <3> QED BY <3>2 DEF Moved
  <2> HIDE DEF x
  <2>7. Placed(x)
    BY <2>1, <2>4, <2>6 DEF Placed
  <2>8. Aimed(x) /\ x.pc \notin {"cleared", "recorded"} /\ x.pc \notin Holding
    BY <2>6 DEF Aimed, Holding
  <2> QED BY <2>1, <2>3, <2>4, <2>6, <2>7, <2>8, CallAdvances
<1> QED BY <1>1, <1>2

LEMMA TakeLockStep ==
  ASSUME KvInv, NEW c \in Call, TakeLock(c)
  PROVE  KvInv'
<1>0. Running(c) /\ ~Transacts(c) /\ call[c].pc = "wait" /\ lock[At(c)] = NoCall
  BY DEF TakeLock, Running, Transacts
<1>1. UNCHANGED <<logVars, store, view>>
  BY DEF TakeLock
<1>2. /\ Placed(call[c]) /\ Aimed(call[c]) /\ Replayed(call[c].snapshot) /\ call[c] \in CallRecord
  BY <1>0, RunningFacts
<1>3. /\ call[c].target \in 0..(Len(log) - 1) /\ Len(log) \in Nat /\ At(c) \in Replica
      /\ call[c].request.op = "submit" => log[call[c].target + 1] = call[c].request.command
  BY <1>0, <1>2, TypesFacts DEF Aimed, KvInv
<1>4. CASE call[c].target > view[At(c)].applied
  <2> DEFINE x == [call[c] EXCEPT !.pc = "read", !.position = view[At(c)].applied + 1]
  <2>1. call' = [call EXCEPT ![c] = x] /\ UNCHANGED <<answers, serving>> /\ lock' = [lock EXCEPT ![At(c)] = c]
    BY <1>4 DEF TakeLock, Step
  <2>2. view[At(c)].applied \in Int /\ view[At(c)].applied >= -1
    BY <1>3, ViewFacts
  <2>3. /\ x \in CallRecord /\ x.pc = "read" /\ x.position = view[At(c)].applied + 1
        /\ x.at = call[c].at /\ x.home = call[c].home
        /\ x.target = call[c].target /\ x.request = call[c].request /\ x.snapshot = call[c].snapshot
    <3>1. "read" \in Phases /\ view[At(c)].applied + 1 \in Nat
      BY <2>2 DEF Phases, Holding
    <3>2. Moved(CallRecord, x, call[c], "read", call[c].at, call[c].target, view[At(c)].applied + 1,
                call[c].snapshot)
      BY <1>2, <3>1, Positioned, Zenon
    <3> HIDE DEF x
    <3> QED BY <3>2 DEF Moved
  <2> HIDE DEF x
  <2>4. Placed(x)
    BY <1>0, <1>2, <2>3 DEF Placed
  <2>5. view[At(c)] = store[At(c)]
    <3>1. \A d \in Call : At(d) = At(c) => ~Transacts(d)
      <4>1. \A d \in Call : Transacts(d) => lock[At(d)] = d
        BY DEF KvInv, LockInv, Holds, Transacts, Holding
      <4> QED BY <1>0, <4>1, NoCallAssumption
    <3> QED BY <1>3, <3>1 DEF KvInv, ViewsInv
  <2>6. Aimed(x)
    <3>1. store[x.at].applied < x.position /\ x.position <= x.target
      BY <1>3, <1>4, <2>2, <2>3, <2>5 DEF At
    <3> QED BY <1>3, <2>3, <3>1 DEF Aimed, Holding
  <2>7. /\ lock' \in [Replica -> Call \cup {NoCall}] /\ lock'[x.at] = c
        /\ \A d \in Call \ {c} : Holds(d) => lock'[At(d)] = d
    <3>1. lock \in [Replica -> Call \cup {NoCall}] /\ \A d \in Call : Holds(d) => lock[At(d)] = d
      BY DEF KvInv, Types, LockInv
    <3>2. \A d \in Call : Holds(d) => At(d) # At(c)
      BY <1>0, <3>1, NoCallAssumption
    <3> QED BY <1>3, <2>1, <2>3, <3>1, <3>2 DEF At
  <2>8. x.pc \notin {"cleared", "recorded"}
    BY <2>3
  <2> QED BY <1>0, <1>1, <1>2, <2>1, <2>3, <2>4, <2>6, <2>7, <2>8, CallAdvances
<1>5. CASE ~(call[c].target > view[At(c)].applied)
  <2> DEFINE entries == view[At(c)].entries
  <2>1. UNCHANGED lock
    BY <1>5 DEF TakeLock
  <2>2. CASE call[c].target \in DOMAIN entries
    <3>1. Materialized(c, call[c], entries[call[c].target].result)
      BY <1>5, <2>2 DEF TakeLock
    <3>2. call[c].request.op = "submit" /\ Whole(view[At(c)]) =>
            \E n \in DOMAIN states : states[n].requests[call[c].request.command.id]
              = [command |-> call[c].request.command, result |-> entries[call[c].target].result]
      <4> SUFFICES ASSUME call[c].request.op = "submit", Whole(view[At(c)])
                   PROVE  \E n \in DOMAIN states : states[n].requests[call[c].request.command.id]
              = [command |-> call[c].request.command, result |-> entries[call[c].target].result]
        OBVIOUS
      <4> QED BY <1>3, <2>2, EntryAnswers
    <3> HIDE DEF entries
    <3> QED BY <1>0, <1>1, <2>1, <3>1, <3>2, LockKept, MaterializedKept
  <2>3. CASE call[c].target \notin DOMAIN entries
    <3>1. SyncRequired(c) /\ UNCHANGED serving
      BY <1>5, <2>3 DEF TakeLock
    <3> QED BY <1>0, <1>1, <2>1, <3>1, LockKept, SyncRequiredKeeps
  <2> QED BY <2>2, <2>3
<1> QED BY <1>4, <1>5

LEMMA ReadNextStep ==
  ASSUME KvInv, NEW c \in Call, ReadNext(c)
  PROVE  KvInv'
<1> DEFINE left == {p \in call[c].position..call[c].target : p >= trimmed}
           p == CHOOSE p \in left : \A q \in left : p <= q
<1>0. Running(c) /\ ~Transacts(c) /\ Holds(c) /\ call[c].pc = "read"
  BY DEF ReadNext, Running, Transacts, Holds, Holding
<1>1. UNCHANGED <<logVars, store, view>> /\ UNCHANGED serving
  BY DEF ReadNext
<1>2. /\ Placed(call[c]) /\ Aimed(call[c]) /\ Replayed(call[c].snapshot) /\ call[c] \in CallRecord
  BY <1>0, RunningFacts
<1>3. CASE left = {}
  <2>1. SyncRequired(c) /\ Unlocked(c)
    BY <1>3 DEF ReadNext
  <2> QED BY <1>0, <1>1, <2>1, UnlockedKeeps, SyncRequiredKeeps
<1>4. CASE left # {}
  <2> DEFINE x == [call[c] EXCEPT !.pc = "apply", !.position = p]
  <2>1. call' = [call EXCEPT ![c] = x] /\ UNCHANGED answers /\ UNCHANGED lock
    BY <1>4 DEF ReadNext, Step
  <2>2. call[c].position \in Nat /\ call[c].target \in Int /\ store[At(c)].applied < call[c].position
    BY <1>0, <1>2, TypesFacts DEF KvInv, Aimed, Holding, At
  <2>3. left \in SUBSET Nat
    BY <2>2
  <2>4. p \in left
    <3>1. \E q \in left : \A k \in left : q <= k
      BY <1>4, <2>3, LowestExists
    <3> HIDE DEF left
    <3> QED BY <3>1
  <2>5. p \in Nat /\ call[c].position <= p /\ p <= call[c].target
    <3> HIDE DEF p
    <3> QED BY <2>2, <2>4
  <2> HIDE DEF p, left
  <2>6. /\ x \in CallRecord /\ x.pc = "apply" /\ x.position = p /\ x.at = call[c].at /\ x.home = call[c].home
        /\ x.target = call[c].target /\ x.request = call[c].request /\ x.snapshot = call[c].snapshot
    <3>1. "apply" \in Phases
      BY DEF Phases, Holding
    <3>2. Moved(CallRecord, x, call[c], "apply", call[c].at, call[c].target, p, call[c].snapshot)
      BY <1>2, <2>5, <3>1, Positioned, Zenon
    <3> HIDE DEF x
    <3> QED BY <3>2 DEF Moved
  <2> HIDE DEF x
  <2>7. Placed(x)
    BY <1>0, <1>2, <2>6 DEF Placed
  <2>8. Aimed(x)
    <3>1. store[At(c)] \in Tables
      BY TypesFacts DEF KvInv
    <3>2. store[At(c)].applied < p
      <4>1. store[At(c)].applied \in Int
        BY <3>1 DEF Tables
      <4> QED BY <2>2, <2>5, <4>1
    <3> QED BY <1>0, <1>2, <2>5, <2>6, <3>2 DEF Aimed, Holding, At
  <2>9. /\ x.pc \notin {"cleared", "recorded"} /\ lock'[x.at] = c
    BY <1>0, <2>1, <2>6 DEF KvInv, LockInv, At
  <2> QED BY <1>0, <1>1, <1>2, <2>1, <2>6, <2>7, <2>8, <2>9, LockKept, CallAdvances
<1> QED BY <1>3, <1>4

LEMMA ApplyRefusedStep ==
  ASSUME KvInv, NEW c \in Call, ApplyRefused(c)
  PROVE  KvInv'
<1>1. ~Transacts(c) /\ Fail(c) /\ Unlocked(c) /\ UNCHANGED <<logVars, store, view, serving>>
  BY DEF ApplyRefused, Transacts
<1> QED BY <1>1, UnlockedKeeps, CallFails

LEMMA GetAnsweredStep ==
  ASSUME KvInv, NEW c \in Call, GetAnswered(c)
  PROVE  KvInv'
<1> DEFINE a == [kind |-> "get", key |-> call[c].request.key, floor |-> call[c].floor,
                 value |-> view[At(c)].values[call[c].request.key],
                 whole |-> Whole(view[At(c)]) /\ ~Emptied(At(c)), undone |-> c \in undone]
           x == Over(c, "done")
<1>0. Types /\ StatesInv /\ PlacesInv /\ AnswersComeFromLog
  BY DEF KvInv
<1>1. /\ call' = [call EXCEPT ![c] = x] /\ answers' = answers \cup {a} /\ ~Transacts(c)
      /\ UNCHANGED <<log, states, store, view>> /\ UNCHANGED <<trimmed, asked, lock, serving>>
  BY DEF GetAnswered, Finish, Step, Transacts, logVars
<1>2. x \in CallRecord /\ x.pc = "done" /\ Replayed(x.snapshot) /\ Aimed(x)
  BY <1>0, OverType
<1>3. a.kind = "get"
  OBVIOUS
<1> HIDE DEF x, a
<1>4. x.pc \notin Holding /\ x.pc \notin {"cleared", "recorded"}
  BY <1>2 DEF Holding
<1>5. StatesInv' /\ StoresInv' /\ TargetsInv' /\ LockInv' /\ ViewsInv'
  BY <1>1, <1>2, <1>4, LockKept, CallMoves
<1>6. PlacesInv'
  BY <1>0, <1>1, <1>2, PlaceMoves DEF Types
<1>7. AnswersComeFromLog'
  BY <1>0, <1>1, <1>3, AnswerKept
<1>8. Types'
  BY <1>0, <1>1, <1>2 DEF Types
<1> QED BY <1>5, <1>6, <1>7, <1>8 DEF KvInv

LEMMA ExportedStep ==
  ASSUME KvInv, NEW c \in Call, Exported(c)
  PROVE  KvInv'
<1> DEFINE x == [call[c] EXCEPT !.pc = "install", !.at = call[c].home, !.snapshot = store[At(c)]]
<1>0. Running(c) /\ ~Transacts(c) /\ call[c].pc = "export"
  BY DEF Exported, Running, Transacts
<1>1. /\ call' = [call EXCEPT ![c] = x] /\ UNCHANGED lock
      /\ UNCHANGED <<logVars, store, view, serving, answers>>
  BY DEF Exported, Step
<1>2. /\ Placed(call[c]) /\ call[c] \in CallRecord /\ call[c].home \in Replica /\ store[At(c)] \in Tables
  BY <1>0, RunningFacts, TypesFacts DEF KvInv
<1>3. /\ x \in CallRecord /\ x.pc = "install" /\ x.at = call[c].home /\ x.home = call[c].home
      /\ x.request = call[c].request /\ x.snapshot = store[At(c)]
  <2>1. "install" \in Phases
    BY DEF Phases
  <2>2. Moved(CallRecord, x, call[c], "install", call[c].home, call[c].target, call[c].position, store[At(c)])
    BY <1>2, <2>1, Handed, Zenon
  <2> HIDE DEF x
  <2> QED BY <2>2 DEF Moved
<1> HIDE DEF x
<1>4. Placed(x)
  BY <1>0, <1>2, <1>3 DEF Placed
<1>5. Replayed(x.snapshot)
  <2>1. At(c) \in Replica
    BY TypesFacts DEF KvInv
  <2> QED BY <1>3, <2>1 DEF KvInv, StoresInv
<1>6. Aimed(x) /\ x.pc \notin {"cleared", "recorded"} /\ x.pc \notin Holding
  BY <1>3 DEF Aimed, Holding
<1> QED BY <1>0, <1>1, <1>3, <1>4, <1>5, <1>6, LockKept, CallAdvances
-----------------------------------------------------------------------------
(* The steps of one call that change the tables.                           *)

\* One call at a time has a replica's lock.
LEMMA AloneHolding ==
  ASSUME KvInv, NEW c \in Call, NEW d \in Call, Holds(c), Holds(d), At(c) = At(d)
  PROVE  c = d
BY DEF KvInv, LockInv

\* The transaction of whoever holds the lock writes.
LEMMA TableMoves ==
  ASSUME KvInv, NEW c \in Call, Holds(c), NEW pc \in {"cleared", "recorded"}, NEW v \in Tables,
         call' = [call EXCEPT ![c] = [call[c] EXCEPT !.pc = pc]], view' = [view EXCEPT ![At(c)] = v],
         UNCHANGED <<logVars, store, lock, serving, answers>>,
         pc = "cleared" => /\ store[At(c)].requests[CommandOf(c).id] = Absent
                           /\ v = [store[At(c)] EXCEPT !.values = Pristine.values],
         pc = "recorded" => /\ ~Conflicts(store[At(c)], CommandOf(c))
                            /\ v = After(store[At(c)], call[c].position, CommandOf(c))
  PROVE  KvInv'
<1> DEFINE x == [call[c] EXCEPT !.pc = pc]
<1>0. Types /\ StatesInv /\ StoresInv /\ TargetsInv /\ LockInv /\ ViewsInv /\ PlacesInv /\ AnswersComeFromLog
  BY DEF KvInv
<1>1. UNCHANGED <<log, trimmed, asked, states, store, lock, serving, answers>>
  BY DEF logVars
<1>2. Running(c)
  BY DEF Running, Holds, Holding
<1>3. Placed(call[c]) /\ Aimed(call[c]) /\ call[c] \in CallRecord /\ At(c) \in Replica
  BY <1>0, <1>2, RunningFacts, TypesFacts
<1>4. /\ x \in CallRecord /\ x.pc = pc /\ x.at = call[c].at /\ x.home = call[c].home
      /\ x.request = call[c].request /\ x.snapshot = call[c].snapshot
      /\ x.position = call[c].position /\ x.target = call[c].target
  BY <1>3 DEF CallRecord, Phases, Holding
<1>5. call' = [call EXCEPT ![c] = x]
  OBVIOUS
<1> HIDE DEF x
<1>6. call'[c] = x /\ \A d \in Call \ {c} : call'[d] = call[d]
  BY <1>0, <1>5 DEF Types
<1>7. Types'
  BY <1>0, <1>1, <1>4, <1>5 DEF Types
<1>8. StatesInv' /\ AnswersComeFromLog'
  BY <1>0, <1>1, OldAnswersKept DEF StatesInv
<1>9. StoresInv'
  BY <1>0, <1>1, <1>4, <1>6 DEF StoresInv, Replayed
<1>10. TargetsInv'
  <2> SUFFICES ASSUME NEW d \in Call PROVE Aimed(call[d])'
    BY DEF TargetsInv
  <2>1. Aimed(x)
    BY <1>3, <1>4 DEF Aimed, Holds, Holding
  <2>2. Aimed(call'[d])
    BY <1>0, <1>6, <2>1 DEF TargetsInv
  <2> QED BY <1>1, <2>2 DEF Aimed
<1>11. LockInv'
  BY <1>0, <1>1, <1>4, <1>6 DEF LockInv, Holds, At
<1>12. PlacesInv'
  <2>1. Placed(x)
    BY <1>3, <1>4 DEF Placed
  <2> QED BY <1>0, <1>1, <1>2, <1>4, <1>5, <2>1, PlaceMoves DEF Types
<1>13. ViewsInv'
  <2>1. At(c)' = At(c) /\ CommandOf(c)' = CommandOf(c) /\ call'[c].position = call[c].position
    BY <1>1, <1>4, <1>6 DEF At, CommandOf
  <2>2. view'[At(c)] = v /\ \A r \in Replica \ {At(c)} : view'[r] = view[r]
    BY <1>0, <1>3 DEF Types
  <2>3. ASSUME NEW r \in Replica, \A d \in Call : At(d)' = r => ~Transacts(d)' PROVE view'[r] = store[r]
    <3>1. r # At(c)
      BY <1>4, <1>6, <2>1, <2>3 DEF Transacts
    <3>2. \A d \in Call : At(d) = r => ~Transacts(d)
      BY <1>6, <2>3, <3>1 DEF Transacts, At
    <3> QED BY <1>0, <2>2, <3>1, <3>2 DEF ViewsInv
  <2>4. \A d \in Call \ {c} : Transacts(d)' =>
          Transacts(d) /\ At(d)' = At(d) /\ CommandOf(d)' = CommandOf(d) /\ view'[At(d)] = view[At(d)]
    <3> SUFFICES ASSUME NEW d \in Call \ {c}, Transacts(d)'
                 PROVE  Transacts(d) /\ At(d)' = At(d) /\ CommandOf(d)' = CommandOf(d) /\ view'[At(d)] = view[At(d)]
      OBVIOUS
    <3>1. Transacts(d) /\ At(d)' = At(d) /\ CommandOf(d)' = CommandOf(d)
      BY <1>1, <1>6 DEF Transacts, At, CommandOf
    <3>2. At(d) # At(c)
      BY <3>1, AloneHolding DEF Transacts, Holds, Holding
    <3>3. At(d) \in Replica
      BY <1>0, TypesFacts
    <3> QED BY <2>2, <3>1, <3>2, <3>3
  <2>5. ASSUME NEW d \in Call, call'[d].pc = "cleared"
        PROVE  /\ store'[At(d)'].requests[CommandOf(d)'.id] = Absent
               /\ view'[At(d)'] = [store'[At(d)'] EXCEPT !.values = Pristine.values]
    <3>1. CASE d = c
      BY <1>1, <1>4, <1>6, <2>1, <2>2, <2>5, <3>1
    <3>2. CASE d # c
      <4>1. call[d].pc = "cleared"
        BY <1>6, <2>5, <3>2
      <4> QED BY <1>0, <1>1, <2>4, <2>5, <3>2, <4>1 DEF ViewsInv, Transacts
    <3> QED BY <3>1, <3>2
  <2>6. ASSUME NEW d \in Call, call'[d].pc = "recorded"
        PROVE  /\ ~Conflicts(store'[At(d)'], CommandOf(d)')
               /\ view'[At(d)'] = After(store'[At(d)'], call'[d].position, CommandOf(d)')
    <3>1. CASE d = c
      BY <1>1, <1>4, <1>6, <2>1, <2>2, <2>6, <3>1
    <3>2. CASE d # c
      <4>1. call[d].pc = "recorded" /\ call'[d].position = call[d].position
        BY <1>6, <2>6, <3>2
      <4>2. At(d)' = At(d) /\ CommandOf(d)' = CommandOf(d) /\ view'[At(d)] = view[At(d)]
        BY <2>4, <2>6, <3>2 DEF Transacts
      <4> QED BY <1>0, <1>1, <4>1, <4>2 DEF ViewsInv
    <3> QED BY <3>1, <3>2
  <2> QED BY <1>1, <2>3, <2>5, <2>6 DEF ViewsInv
<1> QED BY <1>7, <1>8, <1>9, <1>10, <1>11, <1>12, <1>13 DEF KvInv

\* What whoever applies an entry works with.
LEMMA ApplyingFacts ==
  ASSUME KvInv, NEW c \in Call, Holds(c)
  PROVE  /\ At(c) \in Replica /\ store[At(c)] \in Tables /\ call[c].position \in Nat
         /\ CommandOf(c) \in Envelope /\ CommandOf(c).id \in RequestId
         /\ store[At(c)].applied < call[c].position /\ call[c].position < Len(log)
         /\ call[c].position <= call[c].target
         /\ call[c].target \in 0..(Len(log) - 1)
         /\ call[c].request.op = "submit" => log[call[c].target + 1] = call[c].request.command
<1>1. Types /\ Aimed(call[c])
  BY DEF KvInv, TargetsInv
<1>2. /\ At(c) \in Replica /\ store[At(c)] \in Tables /\ call[c].position \in Nat /\ Len(log) \in Nat
  BY <1>1, TypesFacts
<1>3. /\ call[c].target \in 0..(Len(log) - 1) /\ store[At(c)].applied < call[c].position
      /\ call[c].position <= call[c].target
      /\ call[c].request.op = "submit" => log[call[c].target + 1] = call[c].request.command
  BY <1>1 DEF Aimed, Holds, At
<1>4. call[c].position + 1 \in 1..Len(log)
  BY <1>2, <1>3
<1>5. CommandOf(c) \in Envelope
  BY <1>1, <1>4, TypesFacts DEF CommandOf
<1> QED BY <1>2, <1>3, <1>5 DEF Envelope

LEMMA ApplyBeginsStep ==
  ASSUME KvInv, NEW c \in Call, ApplyBegins(c)
  PROVE  KvInv'
<1> DEFINE s == store[At(c)]
           prior == s.requests[CommandOf(c).id]
<1>0. Holds(c) /\ ~Transacts(c) /\ call[c].pc = "apply" /\ ~Conflicts(s, CommandOf(c))
  BY DEF ApplyBegins, Holds, Holding, Transacts
<1>1. /\ At(c) \in Replica /\ s \in Tables /\ call[c].position \in Nat /\ CommandOf(c) \in Envelope
  BY <1>0, ApplyingFacts
<1>2. UNCHANGED <<logVars, store, lock, serving, answers>>
  BY DEF ApplyBegins
<1>3. view[At(c)] = s
  <2>1. \A d \in Call : At(d) = At(c) => ~Transacts(d)
    <3>1. \A d \in Call : Transacts(d) => Holds(d)
      BY DEF Transacts, Holds, Holding
    <3> QED BY <1>0, <3>1, AloneHolding
  <2> QED BY <1>1, <2>1 DEF KvInv, ViewsInv
<1>4. CASE prior = Absent
  <2> DEFINE v == [s EXCEPT !.values = Pristine.values]
  <2>1. call' = [call EXCEPT ![c] = [call[c] EXCEPT !.pc = "cleared"]]
    BY <1>4 DEF ApplyBegins, Step
  <2>2. view' = [view EXCEPT ![At(c)] = v]
    BY <1>3, <1>4 DEF ApplyBegins
  <2>3. v \in Tables
    BY <1>1, PristineType DEF Tables
  <2> QED BY <1>0, <1>2, <1>4, <2>1, <2>2, <2>3, TableMoves
<1>5. CASE prior # Absent
  <2> DEFINE v == After(s, call[c].position, CommandOf(c))
  <2>1. call' = [call EXCEPT ![c] = [call[c] EXCEPT !.pc = "recorded"]]
    BY <1>5 DEF ApplyBegins, Step
  <2>2. view' = [view EXCEPT ![At(c)] = v]
    BY <1>0, <1>5 DEF ApplyBegins, After
  <2>3. v \in Tables
    BY <1>1, AfterType
  <2> QED BY <1>0, <1>2, <2>1, <2>2, <2>3, TableMoves
<1> QED BY <1>4, <1>5

LEMMA ApplyWritesStep ==
  ASSUME KvInv, NEW c \in Call, ApplyWrites(c)
  PROVE  KvInv'
<1> DEFINE s == store[At(c)]
           v == After(s, call[c].position, CommandOf(c))
<1>0. Holds(c) /\ call[c].pc = "cleared"
  BY DEF ApplyWrites, Holds, Holding
<1>1. /\ At(c) \in Replica /\ s \in Tables /\ call[c].position \in Nat /\ CommandOf(c) \in Envelope
  BY <1>0, ApplyingFacts
<1>2. UNCHANGED <<logVars, store, lock, serving, answers>>
  BY DEF ApplyWrites
<1>3. s.requests[CommandOf(c).id] = Absent
  BY <1>0 DEF KvInv, ViewsInv
<1>4. ~Conflicts(s, CommandOf(c))
  BY <1>3 DEF Conflicts
<1>5. call' = [call EXCEPT ![c] = [call[c] EXCEPT !.pc = "recorded"]]
  BY DEF ApplyWrites, Step
<1>6. view' = [view EXCEPT ![At(c)] = v]
  BY <1>3, <1>4 DEF ApplyWrites, After
<1>7. v \in Tables
  BY <1>1, AfterType
<1> QED BY <1>0, <1>2, <1>4, <1>5, <1>6, <1>7, TableMoves

\* The committed tables of replica r become t, on which nobody else is at work.
LEMMA StoreMoves ==
  ASSUME KvInv, NEW c \in Call, NEW x \in CallRecord, NEW r \in Replica, NEW t \in Tables, Replayed(t),
         call' = [call EXCEPT ![c] = x], UNCHANGED <<log, states>>,
         store' = [store EXCEPT ![r] = t], view' = [view EXCEPT ![r] = t],
         \A d \in Call \ {c} : Holds(d) => At(d) # r,
         Transacts(c) => At(c) = r,
         x.pc \notin {"cleared", "recorded"}, Replayed(x.snapshot),
         x.pc \in {"wait"} \cup Holding =>
           /\ x.target \in 0..(Len(log) - 1)
           /\ x.request.op = "submit" => log[x.target + 1] = x.request.command,
         x.pc \in Holding => /\ x.at = r /\ t.applied < x.position /\ x.position <= x.target
                             /\ lock'[r] = c,
         \A d \in Call \ {c} : Holds(d) => lock'[At(d)] = d
  PROVE  StatesInv' /\ StoresInv' /\ TargetsInv' /\ LockInv' /\ ViewsInv'
<1>0. Types /\ StatesInv /\ StoresInv /\ TargetsInv /\ ViewsInv
  BY DEF KvInv
<1>1. call'[c] = x /\ \A d \in Call \ {c} : call'[d] = call[d]
  BY <1>0 DEF Types
<1>2. /\ store'[r] = t /\ view'[r] = t
      /\ \A q \in Replica \ {r} : store'[q] = store[q] /\ view'[q] = view[q]
  BY <1>0 DEF Types
<1>3. StatesInv'
  BY <1>0 DEF StatesInv
<1>4. StoresInv'
  BY <1>0, <1>1, <1>2 DEF StoresInv, Replayed
<1>5. TargetsInv'
  <2> SUFFICES ASSUME NEW d \in Call PROVE Aimed(call[d])'
    BY DEF TargetsInv
  <2>1. CASE d = c
    BY <1>1, <1>2, <2>1 DEF Aimed
  <2>2. CASE d # c
    <3>1. Aimed(call[d]) /\ call'[d] = call[d] /\ call[d].at \in Replica
      BY <1>0, <1>1, <2>2, TypesFacts DEF TargetsInv, At
    <3>2. call[d].pc \in Holding => store'[call[d].at] = store[call[d].at]
      BY <1>2, <2>2, <3>1 DEF Holds, At
    <3> QED BY <3>1, <3>2 DEF Aimed
  <2> QED BY <2>1, <2>2
<1>6. LockInv'
  BY <1>1 DEF LockInv, Holds, At
<1>7. ViewsInv'
  <2>1. \A d \in Call : Transacts(d)' => /\ d # c /\ Transacts(d) /\ call'[d] = call[d] /\ At(d) # r
                                         /\ At(d) \in Replica
    <3>1. \A d \in Call : Transacts(d) => Holds(d)
      BY DEF Transacts, Holds, Holding
    <3> QED BY <1>0, <1>1, <3>1, TypesFacts DEF Transacts
  <2>2. ASSUME NEW q \in Replica, \A d \in Call : At(d)' = q => ~Transacts(d)' PROVE view'[q] = store'[q]
    <3>1. CASE q = r
      BY <1>2, <3>1
    <3>2. CASE q # r
      <4>1. \A d \in Call : At(d) = q => ~Transacts(d)
        BY <1>1, <2>2, <3>2 DEF Transacts, At
      <4> QED BY <1>0, <1>2, <3>2, <4>1 DEF ViewsInv
    <3> QED BY <3>1, <3>2
  <2>3. ASSUME NEW d \in Call, Transacts(d)'
        PROVE  /\ call'[d] = call[d] /\ At(d)' = At(d) /\ CommandOf(d)' = CommandOf(d)
               /\ store'[At(d)] = store[At(d)] /\ view'[At(d)] = view[At(d)]
    BY <1>2, <2>1, <2>3 DEF At, CommandOf
  <2>4. ASSUME NEW d \in Call, call'[d].pc = "cleared"
        PROVE  /\ store'[At(d)'].requests[CommandOf(d)'.id] = Absent
               /\ view'[At(d)'] = [store'[At(d)'] EXCEPT !.values = Pristine.values]
    BY <1>0, <2>3, <2>4 DEF ViewsInv, Transacts
  <2>5. ASSUME NEW d \in Call, call'[d].pc = "recorded"
        PROVE  /\ ~Conflicts(store'[At(d)'], CommandOf(d)')
               /\ view'[At(d)'] = After(store'[At(d)'], call'[d].position, CommandOf(d)')
    <3>1. /\ call'[d] = call[d] /\ At(d)' = At(d) /\ CommandOf(d)' = CommandOf(d)
          /\ store'[At(d)] = store[At(d)] /\ view'[At(d)] = view[At(d)]
      BY <2>3, <2>5 DEF Transacts
    <3>2. call[d].pc = "recorded"
      BY <2>5, <3>1
    <3>3. ~Conflicts(store[At(d)], CommandOf(d)) /\ view[At(d)] = After(store[At(d)], call[d].position, CommandOf(d))
      BY <1>0, <3>2 DEF ViewsInv
    <3> QED BY <3>1, <3>3
  <2> QED BY <2>2, <2>4, <2>5 DEF ViewsInv
<1> QED BY <1>3, <1>4, <1>5, <1>6, <1>7

LEMMA ApplyCommitsStep ==
  ASSUME KvInv, NEW c \in Call, ApplyCommits(c)
  PROVE  KvInv'
<1> DEFINE r == At(c)
           s == store[r]
           t == view[r]
           p == call[c].position
<1>0. Holds(c) /\ Running(c) /\ Transacts(c) /\ call[c].pc = "recorded"
  BY DEF ApplyCommits, Holds, Holding, Running, Transacts
<1>1. Types /\ StatesInv /\ StoresInv /\ PlacesInv /\ AnswersComeFromLog
  BY DEF KvInv
<1>2. /\ Placed(call[c]) /\ Aimed(call[c]) /\ Replayed(call[c].snapshot) /\ call[c] \in CallRecord
  BY <1>0, RunningFacts
<1>3. /\ r \in Replica /\ s \in Tables /\ t \in Tables /\ p \in Nat /\ CommandOf(c) \in Envelope
      /\ s.applied < p /\ p < Len(log) /\ p <= call[c].target /\ call[c].target \in 0..(Len(log) - 1)
      /\ call[c].request.op = "submit" => log[call[c].target + 1] = call[c].request.command
  BY <1>0, <1>1, ApplyingFacts, TypesFacts
<1>4. ~Conflicts(s, CommandOf(c)) /\ t = After(s, p, CommandOf(c))
  BY <1>0 DEF KvInv, ViewsInv
<1>5. Replayed(t)
  <2>1. Replayed(s)
    BY <1>1, <1>3 DEF StoresInv
  <2>2. CommandOf(c) = log[p + 1]
    BY DEF CommandOf
  <2> HIDE DEF s, t, p
  <2> QED BY <1>1, <1>3, <1>4, <2>1, <2>2, AfterReplayed
<1>6. t.applied = p /\ p \in DOMAIN t.entries
  <2> DEFINE command == CommandOf(c)
             after == After(s, p, command)
  <2>1. s \in Tables /\ p \in Nat /\ command \in Envelope /\ ~Conflicts(s, command)
    BY <1>3, <1>4
  <2>2. t = after
    BY <1>4
  <2> HIDE DEF s, t, p, command
  <2>3. after.applied = p /\ DOMAIN after.entries = DOMAIN s.entries \cup {p}
    BY <2>1, AfterType
  <2> QED BY <2>2, <2>3
<1>7. /\ UNCHANGED <<log, trimmed, asked, states, view>> /\ view' = [view EXCEPT ![r] = t]
      /\ store' = [store EXCEPT ![r] = t]
  BY <1>1 DEF ApplyCommits, logVars, Types
<1>8. \A d \in Call \ {c} : Holds(d) => At(d) # r
  BY <1>0, AloneHolding
<1> HIDE DEF s, t
<1>9. store' \in [Replica -> Tables]
  BY <1>1, <1>3, <1>7 DEF Types
<1>10. CASE p < call[c].target
  <2> DEFINE x == [call[c] EXCEPT !.pc = "read", !.position = p + 1]
  <2>1. call' = [call EXCEPT ![c] = x] /\ UNCHANGED <<answers, serving>> /\ UNCHANGED lock
    BY <1>10 DEF ApplyCommits, Step
  <2>2. /\ x \in CallRecord /\ x.pc = "read" /\ x.position = p + 1 /\ x.at = r /\ x.home = call[c].home
        /\ x.target = call[c].target /\ x.request = call[c].request /\ x.snapshot = call[c].snapshot
    <3>1. "read" \in Phases /\ p + 1 \in Nat
      BY <1>3 DEF Phases, Holding
    <3>2. Moved(CallRecord, x, call[c], "read", call[c].at, call[c].target, p + 1, call[c].snapshot)
      BY <1>2, <3>1, Positioned, Zenon
    <3> HIDE DEF x
    <3> QED BY <3>2 DEF Moved, At
  <2> HIDE DEF x
  <2>3. Placed(x)
    BY <1>0, <1>2, <2>2 DEF Placed, At
  <2>4. lock'[r] = c /\ \A d \in Call : Holds(d) => lock'[At(d)] = d
    BY <1>0, <2>1 DEF KvInv, LockInv
  <2>5. t.applied < x.position /\ x.position <= x.target
    BY <1>3, <1>6, <1>10, <2>2
  <2>6. x.pc \notin {"cleared", "recorded"} /\ x.pc \in Holding
    BY <2>2 DEF Holding
  <2>7. StatesInv' /\ StoresInv' /\ TargetsInv' /\ LockInv' /\ ViewsInv'
    <3>1. /\ x.target \in 0..(Len(log) - 1)
          /\ x.request.op = "submit" => log[x.target + 1] = x.request.command
      BY <1>3, <2>2
    <3>2. Replayed(x.snapshot)
      BY <1>2, <2>2
    <3>3. UNCHANGED <<log, states>>
      BY <1>7
    <3>4. Transacts(c) => At(c) = r
      OBVIOUS
    <3>5. \A d \in Call \ {c} : Holds(d) => lock'[At(d)] = d
      BY <2>4
    <3>6. x.pc \in Holding => x.at = r /\ t.applied < x.position /\ x.position <= x.target /\ lock'[r] = c
      BY <2>2, <2>4, <2>5
    <3> HIDE DEF p, r
    <3> QED BY <1>3, <1>5, <1>7, <1>8, <2>1, <2>2, <2>6, <3>1, <3>2, <3>3, <3>4, <3>5, <3>6, StoreMoves
  <2>8. PlacesInv'
    BY <1>0, <1>1, <2>1, <2>2, <2>3, PlaceMoves DEF Types
  <2>9. Types'
    BY <1>1, <1>7, <1>9, <2>1, <2>2 DEF Types
  <2> QED BY <1>1, <1>7, <2>1, <2>7, <2>8, <2>9, OldAnswersKept DEF KvInv
<1>11. CASE ~(p < call[c].target)
  <2> DEFINE result == view[r].entries[p].result
  <2>1. Materialized(c, call[c], result) /\ Unlocked(c)
    BY <1>11 DEF ApplyCommits
  <2>2. p = call[c].target
    BY <1>3, <1>11
  <2>3. call[c].request.op = "submit" /\ Whole(view[At(c)]) =>
          \E n \in DOMAIN states : states[n].requests[call[c].request.command.id]
                                     = [command |-> call[c].request.command, result |-> result]
    <3> SUFFICES ASSUME call[c].request.op = "submit", Whole(view[r])
                 PROVE  \E n \in DOMAIN states : states[n].requests[call[c].request.command.id]
                                     = [command |-> call[c].request.command, result |-> result]
      OBVIOUS
    <3>1. log[p + 1] = call[c].request.command
      BY <1>3, <2>2
    <3>2. p \in DOMAIN view[r].entries
      BY <1>6 DEF t
    <3> HIDE DEF r, p
    <3> QED BY <1>3, <3>1, <3>2, EntryAnswers
  <2> HIDE DEF result
  <2>4. PICK x \in CallRecord : /\ call' = [call EXCEPT ![c] = x] /\ x.pc \in {"done", "get", "export"}
                                /\ Replayed(x.snapshot)
    BY <1>0, <1>2, <1>7, <2>1, <2>3, MaterializedMoves
  <2>5. PlacesInv' /\ AnswersComeFromLog' /\ serving' \subseteq Replica
    BY <1>0, <1>2, <1>7, <2>1, <2>3, MaterializedMoves
  <2>6. /\ lock' \in [Replica -> Call \cup {NoCall}]
        /\ \A d \in Call \ {c} : Holds(d) => lock'[At(d)] = d
    BY <2>1, UnlockedKeeps
  <2>7. x.pc \notin {"cleared", "recorded"} /\ x.pc \notin {"wait"} \cup Holding
    BY <2>4 DEF Holding
  <2> HIDE DEF p
  <2>8. StatesInv' /\ StoresInv' /\ TargetsInv' /\ LockInv' /\ ViewsInv'
    BY <1>3, <1>5, <1>7, <1>8, <2>4, <2>6, <2>7, StoreMoves DEF r
  <2>9. Types'
    BY <1>1, <1>7, <1>9, <2>4, <2>5, <2>6 DEF Types
  <2> QED BY <2>5, <2>8, <2>9 DEF KvInv
<1> QED BY <1>10, <1>11

LEMMA InstalledStep ==
  ASSUME KvInv, NEW c \in Call, Installed(c)
  PROVE  KvInv'
<1> DEFINE r == At(c)
           t == call[c].snapshot
           x == [call[c] EXCEPT !.pc = "tail", !.snapshot = Pristine]
<1>0. Running(c) /\ ~Transacts(c) /\ call[c].pc = "install"
  BY DEF Installed, Running, Transacts
<1>1. Types /\ StatesInv /\ PlacesInv /\ AnswersComeFromLog
  BY DEF KvInv
<1>2. /\ Placed(call[c]) /\ call[c] \in CallRecord /\ Replayed(t) /\ r \in Replica /\ t \in Tables
  BY <1>0, <1>1, RunningFacts, TypesFacts
<1>3. /\ call' = [call EXCEPT ![c] = x] /\ UNCHANGED <<log, trimmed, asked, states, lock, serving, answers>>
      /\ store' = [store EXCEPT ![r] = t] /\ view' = [view EXCEPT ![r] = t]
  BY DEF Installed, Step, logVars
<1>4. /\ x \in CallRecord /\ x.pc = "tail" /\ x.at = call[c].at /\ x.home = call[c].home
      /\ x.request = call[c].request /\ x.snapshot = Pristine
  <2>1. "tail" \in Phases /\ Pristine \in Tables
    BY PristineType DEF Phases
  <2>2. Moved(CallRecord, x, call[c], "tail", call[c].at, call[c].target, call[c].position, Pristine)
    BY <1>2, <2>1, Installing, Zenon
  <2> HIDE DEF x
  <2> QED BY <2>2 DEF Moved
<1> HIDE DEF x
<1>5. call[c].request.op = "bootstrap" /\ call[c].home = r /\ r \notin serving
  BY <1>0, <1>2 DEF Placed, At
<1>6. \A d \in Call \ {c} : Holds(d) => At(d) # r
  <2> SUFFICES ASSUME NEW d \in Call \ {c}, Holds(d), At(d) = r PROVE FALSE
    OBVIOUS
  <2>1. Running(d)
    BY DEF Running, Holds, Holding
  <2>2. Placed(call[d]) /\ call[d].request.op \in {"submit", "get", "bootstrap"}
    BY <2>1, RunningFacts
  <2>3. call[d].request.op = "bootstrap" /\ call[d].home = r
    BY <1>5, <2>2 DEF Placed, At
  <2> QED BY <1>0, <1>1, <1>5, <2>1, <2>3 DEF PlacesInv
<1>7. Placed(x)
  BY <1>2, <1>4, <1>5 DEF Placed
<1>8. Replayed(x.snapshot)
  BY <1>1, <1>4, PristineReplayed
<1>9. x.pc \notin {"cleared", "recorded"} /\ x.pc \notin {"wait"} \cup Holding
  BY <1>4 DEF Holding
<1>10. \A d \in Call \ {c} : Holds(d) => lock'[At(d)] = d
  BY <1>3 DEF KvInv, LockInv
<1> HIDE DEF r, t
<1>11. StatesInv' /\ StoresInv' /\ TargetsInv' /\ LockInv' /\ ViewsInv'
  BY <1>0, <1>2, <1>3, <1>4, <1>6, <1>8, <1>9, <1>10, StoreMoves
<1>12. PlacesInv'
  BY <1>0, <1>1, <1>3, <1>4, <1>7, PlaceMoves DEF Types
<1>13. Types'
  BY <1>1, <1>2, <1>3, <1>4 DEF Types
<1> QED BY <1>1, <1>3, <1>11, <1>12, <1>13, OldAnswersKept DEF KvInv
-----------------------------------------------------------------------------
(* Failures.                                                               *)

LEMMA RaiseStep ==
  ASSUME KvInv, NEW c \in Call, Raise(c)
  PROVE  KvInv'
<1>0. Running(c) /\ Fail(c) /\ Unlocked(c) /\ UNCHANGED <<logVars, store, serving>>
  BY DEF Raise
<1>1. CASE ~Transacts(c)
  <2>1. UNCHANGED view
    BY <1>1 DEF Raise, Transacts
  <2> QED BY <1>0, <1>1, <2>1, UnlockedKeeps, CallFails
<1>2. CASE Transacts(c)
  <2> DEFINE r == At(c)
             t == store[r]
             x == Over(c, "failed")
  <2>1. Types /\ StatesInv /\ StoresInv /\ PlacesInv /\ AnswersComeFromLog
    BY DEF KvInv
  <2>2. r \in Replica /\ t \in Tables /\ Replayed(t)
    BY <2>1, TypesFacts DEF StoresInv
  <2>3. call' = [call EXCEPT ![c] = x] /\ UNCHANGED <<log, states, trimmed, asked, serving, answers>>
    BY <1>0 DEF Fail, Step, logVars
  <2>4. view' = [view EXCEPT ![r] = t] /\ store' = [store EXCEPT ![r] = t]
    BY <1>0, <1>2, <2>1 DEF Raise, RolledBack, Transacts, Types
  <2>5. x \in CallRecord /\ x.pc = "failed" /\ Replayed(x.snapshot)
    BY <2>1, OverType
  <2>6. \A d \in Call \ {c} : Holds(d) => At(d) # r
    <3>1. Holds(c)
      BY <1>2 DEF Transacts, Holds, Holding
    <3> QED BY <3>1, AloneHolding
  <2>7. /\ lock' \in [Replica -> Call \cup {NoCall}]
        /\ \A d \in Call \ {c} : Holds(d) => lock'[At(d)] = d
    BY <1>0, UnlockedKeeps
  <2> HIDE DEF t, x
  <2>8. x.pc \notin {"cleared", "recorded"} /\ x.pc \notin {"wait"} \cup Holding
    BY <2>5 DEF Holding
  <2>9. StatesInv' /\ StoresInv' /\ TargetsInv' /\ LockInv' /\ ViewsInv'
    BY <2>2, <2>3, <2>4, <2>5, <2>6, <2>7, <2>8, StoreMoves
  <2>10. PlacesInv'
    BY <2>1, <2>3, <2>5, PlaceMoves DEF Types
  <2>11. Types'
    BY <2>1, <2>2, <2>3, <2>4, <2>5, <2>7 DEF Types
  <2> QED BY <2>1, <2>3, <2>9, <2>10, <2>11, OldAnswersKept DEF KvInv
<1> QED BY <1>1, <1>2

LEMMA RestartStep ==
  ASSUME KvInv, NEW r \in Replica, Restart(r)
  PROVE  KvInv'
<1> DEFINE lost == {c \in Call : Running(c) /\ r \in {At(c), call[c].home}}
<1>0. Types /\ StatesInv /\ StoresInv /\ TargetsInv /\ LockInv /\ ViewsInv /\ PlacesInv /\ AnswersComeFromLog
  BY DEF KvInv
<1>1. UNCHANGED <<log, trimmed, asked, states, store, answers>>
  BY DEF Restart, logVars
<1>2. \A c \in lost : /\ call'[c] = Over(c, "failed") /\ call'[c] \in CallRecord /\ call'[c].pc = "failed"
                      /\ Replayed(call'[c].snapshot) /\ Aimed(call'[c])
  BY <1>0, OverType DEF Restart
<1>3. \A c \in Call \ lost : call'[c] = call[c]
  BY DEF Restart
<1>4. /\ \A q \in Replica : view'[q] = IF q = r \/ lock[q] \in lost THEN store[q] ELSE view[q]
      /\ \A q \in Replica : lock'[q] = IF lock[q] \in lost THEN NoCall ELSE lock[q]
      /\ serving' = serving \ (Joiner \cap {r})
  BY DEF Restart
<1>5. \A c \in Call : call'[c].pc \notin {"failed"} => c \notin lost /\ call'[c] = call[c]
  BY <1>2, <1>3
<1>6. \A c \in Call \ lost : Running(c) => At(c) # r /\ call[c].home # r
  OBVIOUS
<1>7. Types'
  <2>1. call' \in [Call -> CallRecord]
    <3>1. \A c \in Call : call'[c] \in CallRecord
      BY <1>0, <1>2, <1>3 DEF Types
    <3>2. call' = [c \in Call |-> IF c \in lost THEN Over(c, "failed") ELSE call[c]]
      BY DEF Restart
    <3> QED BY <3>1, <3>2
  <2>2. view' \in [Replica -> Tables]
    BY <1>0 DEF Restart, Types
  <2>3. lock' \in [Replica -> Call \cup {NoCall}]
    BY <1>0 DEF Restart, Types
  <2> QED BY <1>0, <1>1, <1>4, <2>1, <2>2, <2>3 DEF Types
<1> HIDE DEF lost
<1>8. StatesInv' /\ AnswersComeFromLog'
  BY <1>0, <1>1, OldAnswersKept DEF StatesInv
<1>9. StoresInv'
  BY <1>0, <1>1, <1>2, <1>3 DEF StoresInv, Replayed
<1>10. TargetsInv'
  <2> SUFFICES ASSUME NEW c \in Call PROVE Aimed(call[c])'
    BY DEF TargetsInv
  <2>1. Aimed(call'[c])
    BY <1>0, <1>2, <1>3 DEF TargetsInv
  <2> QED BY <1>1, <2>1 DEF Aimed
<1>11. ASSUME NEW c \in Call, Holds(c)'
       PROVE  c \notin lost /\ call'[c] = call[c] /\ Holds(c) /\ At(c)' = At(c) /\ lock[At(c)] = c /\ At(c) \in Replica
  <2>1. c \notin lost /\ call'[c] = call[c]
    BY <1>5, <1>11 DEF Holds, Holding
  <2> QED BY <1>0, <1>11, <2>1, TypesFacts DEF LockInv, Holds, At
<1>12. LockInv'
  <2> SUFFICES ASSUME NEW c \in Call, Holds(c)' PROVE lock'[At(c)'] = c
    BY DEF LockInv
  <2> QED BY <1>4, <1>11
<1>13. ViewsInv'
  <2>1. ASSUME NEW q \in Replica, \A c \in Call : At(c)' = q => ~Transacts(c)' PROVE view'[q] = store[q]
    <3>1. CASE q = r \/ lock[q] \in lost
      BY <1>4, <3>1
    <3>2. CASE ~(q = r \/ lock[q] \in lost)
      <4>1. \A c \in Call : At(c) = q => ~Transacts(c)
        <5> SUFFICES ASSUME NEW c \in Call, At(c) = q, Transacts(c) PROVE FALSE
          OBVIOUS
        <5>1. lock[q] = c
          BY <1>0 DEF LockInv, Holds, Holding, Transacts
        <5>2. call'[c] = call[c]
          BY <1>3, <3>2, <5>1
        <5> QED BY <2>1, <5>2 DEF At, Transacts
      <4> QED BY <1>0, <1>4, <3>2, <4>1 DEF ViewsInv
    <3> QED BY <3>1, <3>2
  <2>2. ASSUME NEW c \in Call, Transacts(c)'
        PROVE  /\ call'[c] = call[c] /\ At(c)' = At(c) /\ CommandOf(c)' = CommandOf(c)
               /\ view'[At(c)] = view[At(c)]
    <3>1. Holds(c)'
      BY <2>2 DEF Holds, Holding, Transacts
    <3>2. c \notin lost /\ call'[c] = call[c] /\ Holds(c) /\ At(c)' = At(c) /\ lock[At(c)] = c /\ At(c) \in Replica
      BY <1>11, <3>1
    <3>3. Running(c)
      BY <3>2 DEF Running, Holds, Holding
    <3>4. At(c) # r
      BY <1>6, <3>2, <3>3
    <3> QED BY <1>1, <1>4, <3>2, <3>4 DEF CommandOf
  <2>3. ASSUME NEW c \in Call, call'[c].pc = "cleared"
        PROVE  /\ store'[At(c)'].requests[CommandOf(c)'.id] = Absent
               /\ view'[At(c)'] = [store'[At(c)'] EXCEPT !.values = Pristine.values]
    BY <1>0, <1>1, <2>2, <2>3 DEF ViewsInv, Transacts
  <2>4. ASSUME NEW c \in Call, call'[c].pc = "recorded"
        PROVE  /\ ~Conflicts(store'[At(c)'], CommandOf(c)')
               /\ view'[At(c)'] = After(store'[At(c)'], call'[c].position, CommandOf(c)')
    <3>1. /\ call'[c] = call[c] /\ At(c)' = At(c) /\ CommandOf(c)' = CommandOf(c)
          /\ view'[At(c)] = view[At(c)]
      BY <2>2, <2>4 DEF Transacts
    <3>2. call[c].pc = "recorded"
      BY <2>4, <3>1
    <3>3. ~Conflicts(store[At(c)], CommandOf(c)) /\ view[At(c)] = After(store[At(c)], call[c].position, CommandOf(c))
      BY <1>0, <3>2 DEF ViewsInv
    <3> QED BY <1>1, <3>1, <3>3
  <2> QED BY <1>1, <2>1, <2>3, <2>4 DEF ViewsInv
<1>14. PlacesInv'
  <2>1. \A c \in Call : Running(c)' => /\ c \notin lost /\ call'[c] = call[c] /\ Running(c)
    BY <1>5 DEF Running
  <2>2. ASSUME NEW c \in Call, Running(c)' PROVE Placed(call[c])'
    <3>1. call'[c] = call[c] /\ Placed(call[c]) /\ call[c].at # r /\ call[c].home # r
      BY <1>0, <1>6, <2>1, <2>2 DEF PlacesInv, At
    <3> QED BY <1>4, <3>1 DEF Placed
  <2> QED BY <1>0, <2>1, <2>2 DEF PlacesInv
<1> QED BY <1>7, <1>8, <1>9, <1>10, <1>12, <1>13, <1>14 DEF KvInv
-----------------------------------------------------------------------------
(* Operations begin.                                                       *)

\* A new call: how it begins, where, and for what.
Begun(K, x, pc, home, at, request, snapshot, floor) ==
  /\ x \in K /\ x.pc = pc /\ x.home = home /\ x.at = at
  /\ x.request = request /\ x.snapshot = snapshot /\ x.floor = floor

LEMMA NewRecord ==
  ASSUME NEW P, NEW H, NEW A, NEW R, NEW T, NEW O, NEW M, NEW S, NEW F,
         NEW s \in [pc : P, home : H, at : A, request : R, target : T, position : O, attempt : M, snapshot : S, floor : F],
         NEW h \in H, NEW a \in A, NEW q \in R, NEW f \in F
  PROVE  Begun([pc : P, home : H, at : A, request : R, target : T, position : O, attempt : M, snapshot : S, floor : F],
               [s EXCEPT !.home = h, !.at = a, !.request = q, !.floor = f], s.pc, h, a, q, s.snapshot, f)
BY DEF Begun

LEMMA StartedRecord ==
  ASSUME NEW P, NEW H, NEW A, NEW R, NEW T, NEW O, NEW M, NEW S, NEW F,
         NEW s \in [pc : P, home : H, at : A, request : R, target : T, position : O, attempt : M, snapshot : S, floor : F],
         NEW pc \in P
  PROVE  Begun([pc : P, home : H, at : A, request : R, target : T, position : O, attempt : M, snapshot : S, floor : F],
               [s EXCEPT !.pc = pc], pc, s.home, s.at, s.request, s.snapshot, s.floor)
BY DEF Begun

LEMMA StartedElsewhereRecord ==
  ASSUME NEW P, NEW H, NEW A, NEW R, NEW T, NEW O, NEW M, NEW S, NEW F,
         NEW s \in [pc : P, home : H, at : A, request : R, target : T, position : O, attempt : M, snapshot : S, floor : F],
         NEW pc \in P, NEW a \in A
  PROVE  Begun([pc : P, home : H, at : A, request : R, target : T, position : O, attempt : M, snapshot : S, floor : F],
               [s EXCEPT !.pc = pc, !.at = a], pc, s.home, a, s.request, s.snapshot, s.floor)
BY DEF Begun

LEMMA NewCallRecord ==
  ASSUME Types, NEW r \in Replica, NEW request \in Request
  PROVE  Begun(CallRecord, NewCall(r, request), "idle", r, r, request, Pristine, AckedEntries)
<1>1. AckedEntries \in Nat
  BY FloorType, TypesFacts
<1>2. Idle \in CallRecord /\ Idle.pc = "idle" /\ Idle.snapshot = Pristine
  BY IdleType
<1>3. request \in Request \cup {[op |-> "none"]}
  OBVIOUS
<1> DEFINE n == [Idle EXCEPT !.home = r, !.at = r, !.request = request, !.floor = AckedEntries]
<1>4. Begun(CallRecord, n, Idle.pc, r, r, request, Idle.snapshot, AckedEntries)
  BY <1>1, <1>2, <1>3, NewRecord, Zenon DEF CallRecord
<1> HIDE DEF n
<1>5. Begun(CallRecord, n, "idle", r, r, request, Pristine, AckedEntries)
  BY <1>2, <1>4, Zenon
<1>6. NewCall(r, request) = n
  BY Zenon DEF NewCall, n
<1> QED BY <1>5, <1>6, Zenon

LEMMA NewCallType ==
  ASSUME Types, NEW r \in Replica, NEW request \in Request, NEW pc \in Phases, NEW at \in Replica
  PROVE  /\ Begun(CallRecord, [NewCall(r, request) EXCEPT !.pc = pc], pc, r, r, request, Pristine, AckedEntries)
         /\ Begun(CallRecord, [NewCall(r, request) EXCEPT !.pc = pc, !.at = at], pc, r, at, request, Pristine, AckedEntries)
<1> DEFINE n == NewCall(r, request)
<1>1. /\ n \in CallRecord /\ n.home = r /\ n.at = r /\ n.request = request /\ n.snapshot = Pristine
      /\ n.floor = AckedEntries
  BY NewCallRecord, Zenon DEF Begun
<1> HIDE DEF n
<1>2. Begun(CallRecord, [n EXCEPT !.pc = pc], pc, n.home, n.at, n.request, n.snapshot, n.floor)
  BY <1>1, StartedRecord, Zenon DEF CallRecord
<1>3. Begun(CallRecord, [n EXCEPT !.pc = pc, !.at = at], pc, n.home, at, n.request, n.snapshot, n.floor)
  BY <1>1, StartedElsewhereRecord, Zenon DEF CallRecord
<1>4. /\ Begun(CallRecord, [n EXCEPT !.pc = pc], pc, r, r, request, Pristine, AckedEntries)
      /\ Begun(CallRecord, [n EXCEPT !.pc = pc, !.at = at], pc, r, at, request, Pristine, AckedEntries)
  BY <1>1, <1>2, <1>3, Zenon
<1> QED BY <1>4, Zenon DEF n

\* A call that begins fits in.
LEMMA PlaceBegins ==
  ASSUME PlacesInv, NEW c \in Call, NEW x, call \in [Call -> CallRecord], call' = [call EXCEPT ![c] = x],
         call[c].pc = "idle", serving' = serving, Placed(x),
         \/ x.home \in serving /\ x.request.op # "bootstrap"
         \/ \A d \in Call : Running(d) => call[d].home # x.home
  PROVE  PlacesInv'
<1>1. call'[c] = x /\ \A d \in Call \ {c} : call'[d] = call[d]
  OBVIOUS
<1>2. \A d \in Call \ {c} : Running(d)' => Running(d) /\ call'[d] = call[d]
  BY <1>1 DEF Running
<1>3. ASSUME NEW d \in Call, Running(d)' PROVE Placed(call[d])'
  <2>1. Placed(call'[d])
    BY <1>1, <1>2, <1>3 DEF PlacesInv
  <2> QED BY <2>1 DEF Placed
<1>4. ASSUME NEW d \in Call, NEW e \in Call, Running(d)', Running(e)',
             call'[d].request.op = "bootstrap", call'[e].home = call'[d].home
      PROVE  e = d
  <2>1. CASE d # c /\ e # c
    BY <1>2, <1>4, <2>1 DEF PlacesInv
  <2>2. CASE d = c /\ e # c
    BY <1>1, <1>2, <1>4, <2>2
  <2>3. CASE d # c /\ e = c
    <3>1. call[d].home \notin serving /\ Running(d) /\ call[d].home = x.home
      BY <1>1, <1>2, <1>4, <2>3 DEF PlacesInv, Placed
    <3> QED BY <3>1
  <2> QED BY <2>1, <2>2, <2>3
<1> QED BY <1>3, <1>4 DEF PlacesInv

LEMMA BeginMoves ==
  ASSUME KvInv, NEW c \in Call, call[c].pc = "idle", NEW x \in CallRecord, call' = [call EXCEPT ![c] = x],
         UNCHANGED <<log, trimmed, states, store, view, lock, serving>>, asked' \subseteq Envelope,
         x.pc \in {"append", "tail", "done", "failed"}, x.snapshot = Pristine,
         PlacesInv', AnswersComeFromLog'
  PROVE  KvInv'
<1>0. Types /\ StatesInv
  BY DEF KvInv
<1>1. Replayed(x.snapshot)
  BY <1>0, PristineReplayed
<1>2. Aimed(x) /\ x.pc \notin Holding /\ x.pc \notin {"cleared", "recorded"} /\ ~Transacts(c)
  BY DEF Aimed, Holding, Transacts
<1>3. StatesInv' /\ StoresInv' /\ TargetsInv' /\ LockInv' /\ ViewsInv'
  BY <1>1, <1>2, LockKept, CallMoves
<1>4. Types'
  BY <1>0 DEF Types
<1> QED BY <1>3, <1>4 DEF KvInv

LEMMA BeginSubmitStep ==
  ASSUME KvInv, NEW c \in Call, call[c].pc = "idle", NEW r \in Replica, NEW request \in Request,
         BeginSubmit(c, r, request), UNCHANGED <<log, trimmed, states, store, view, lock, serving, trouble>>
  PROVE  KvInv'
<1> DEFINE command == request.command
           prior == view[r].requests[command.id]
           x(pc) == [NewCall(r, request) EXCEPT !.pc = pc]
<1>0. Types /\ PlacesInv /\ AnswersComeFromLog /\ call \in [Call -> CallRecord]
  BY DEF KvInv, Types
<1>1. request.op = "submit" /\ r \in serving /\ command \in Envelope /\ command.id \in RequestId
  BY RequestOps DEF BeginSubmit, Envelope
<1>2. \A pc \in {"append", "done", "failed"} :
        /\ x(pc) \in CallRecord /\ x(pc).pc = pc /\ x(pc).home = r /\ x(pc).at = r
        /\ x(pc).request = request /\ x(pc).snapshot = Pristine
  <2> SUFFICES ASSUME NEW pc \in {"append", "done", "failed"}
               PROVE  /\ x(pc) \in CallRecord /\ x(pc).pc = pc /\ x(pc).home = r /\ x(pc).at = r
                      /\ x(pc).request = request /\ x(pc).snapshot = Pristine
    BY Zenon
  <2>1. pc \in Phases
    BY DEF Phases
  <2>2. Begun(CallRecord, x(pc), pc, r, r, request, Pristine, AckedEntries)
    BY <1>0, <2>1, NewCallType, Zenon
  <2> QED BY <2>2, Zenon DEF Begun
<1>3. CASE prior = Absent
  <2>1. /\ call' = [call EXCEPT ![c] = x("append")] /\ asked' = asked \cup {command} /\ answers' = answers
    BY <1>3 DEF BeginSubmit, Step
  <2> HIDE DEF x
  <2>2. PlacesInv'
    <3>1. Placed(x("append"))
      BY <1>1, <1>2 DEF Placed
    <3> QED BY <1>0, <1>1, <1>2, <2>1, <3>1, PlaceBegins
  <2>3. AnswersComeFromLog'
    BY <1>0, <2>1, OldAnswersKept
  <2>4. asked' \subseteq Envelope
    BY <1>0, <1>1, <2>1 DEF Types
  <2> QED BY <1>2, <2>1, <2>2, <2>3, <2>4, BeginMoves
<1>4. CASE prior # Absent /\ prior.command = command
  <2> DEFINE a == [kind |-> "submit", command |-> command, result |-> prior.result, whole |-> Whole(view[r])]
  <2>1. /\ call' = [call EXCEPT ![c] = x("done")] /\ asked' = asked /\ answers' = answers \cup {a}
    BY <1>4 DEF BeginSubmit, Step
  <2> HIDE DEF x
  <2>2. PlacesInv'
    BY <1>0, <1>2, <2>1, PlaceMoves
  <2>3. AnswersComeFromLog'
    <3>1. ASSUME Whole(view[r])
          PROVE  \E n \in DOMAIN states : states[n].requests[command.id] = [command |-> command, result |-> prior.result]
      <4> DEFINE n == view[r].applied + 1
      <4>1. n \in 0..Len(log) /\ n \in DOMAIN states
        BY <1>0, ViewFacts, TypesFacts DEF Types
      <4>2. states[n].requests = view[r].requests
        BY <3>1, ViewFacts
      <4>3. prior \in Outcome
        BY <1>0, <1>1, <1>4, TypesFacts DEF Tables
      <4>4. prior = [command |-> command, result |-> prior.result]
        BY <1>4, <4>3 DEF Outcome
      <4> HIDE DEF n
      <4> QED BY <4>1, <4>2, <4>4
    <3>2. a.kind = "submit" /\ a.whole =>
            \E n \in DOMAIN states : states[n].requests[a.command.id] = [command |-> a.command, result |-> a.result]
      BY <3>1
    <3> HIDE DEF a
    <3> QED BY <1>0, <2>1, <3>2, AnswerKept
  <2>4. asked' \subseteq Envelope
    BY <1>0, <2>1 DEF Types
  <2> QED BY <1>2, <2>1, <2>2, <2>3, <2>4, BeginMoves
<1>5. CASE prior # Absent /\ prior.command # command
  <2>1. /\ call' = [call EXCEPT ![c] = x("failed")] /\ asked' = asked /\ answers' = answers
    BY <1>5 DEF BeginSubmit, Step
  <2> HIDE DEF x
  <2>2. PlacesInv'
    BY <1>0, <1>2, <2>1, PlaceMoves
  <2>3. AnswersComeFromLog'
    BY <1>0, <2>1, OldAnswersKept
  <2>4. asked' \subseteq Envelope
    BY <1>0, <2>1 DEF Types
  <2> QED BY <1>2, <2>1, <2>2, <2>3, <2>4, BeginMoves
<1> QED BY <1>3, <1>4, <1>5

LEMMA BeginSyncStep ==
  ASSUME KvInv, NEW c \in Call, call[c].pc = "idle", NEW r \in Replica, NEW request \in Request,
         BeginGet(c, r, request) \/ BeginBootstrap(c, r, request),
         UNCHANGED <<log, trimmed, states, store, view, lock, serving, trouble>>
  PROVE  KvInv'
<1>0. Types /\ PlacesInv /\ AnswersComeFromLog /\ call \in [Call -> CallRecord] /\ serving \subseteq Replica
  BY DEF KvInv, Types
<1>1. asked' = asked /\ answers' = answers
  BY DEF BeginGet, BeginBootstrap
<1>2. AnswersComeFromLog' /\ asked' \subseteq Envelope
  BY <1>0, <1>1, OldAnswersKept DEF Types
<1>3. "tail" \in Phases
  BY DEF Phases
<1>4. CASE BeginGet(c, r, request)
  <2> DEFINE x == [NewCall(r, request) EXCEPT !.pc = "tail"]
  <2>1. call' = [call EXCEPT ![c] = x] /\ request.op = "get" /\ r \in serving
    BY <1>4 DEF BeginGet, Step
  <2>2. /\ x \in CallRecord /\ x.pc = "tail" /\ x.home = r /\ x.at = r
        /\ x.request = request /\ x.snapshot = Pristine
    <3>1. Begun(CallRecord, x, "tail", r, r, request, Pristine, AckedEntries)
      BY <1>0, <1>3, NewCallType, Zenon
    <3> QED BY <3>1, Zenon DEF Begun
  <2> HIDE DEF x
  <2>3. PlacesInv'
    <3>1. Placed(x)
      BY <2>1, <2>2 DEF Placed
    <3> QED BY <1>0, <2>1, <2>2, <3>1, PlaceBegins
  <2> QED BY <1>2, <2>1, <2>2, <2>3, BeginMoves
<1>5. CASE BeginBootstrap(c, r, request)
  <2>1. PICK s \in serving :
          Step(c, [NewCall(r, request) EXCEPT !.pc = "tail", !.at = IF store[r].applied < 0 THEN s ELSE r])
    BY <1>5 DEF BeginBootstrap
  <2> DEFINE at == IF store[r].applied < 0 THEN s ELSE r
             x == [NewCall(r, request) EXCEPT !.pc = "tail", !.at = at]
  <2>2. call' = [call EXCEPT ![c] = x]
    BY <2>1 DEF Step
  <2>3. at \in Replica /\ (at = r \/ at \in serving)
    BY <1>0
  <2>4. /\ request.op = "bootstrap" /\ r \notin serving /\ \A d \in Call : Running(d) => call[d].home # r
    BY <1>5 DEF BeginBootstrap
  <2> HIDE DEF at
  <2>5. /\ x \in CallRecord /\ x.pc = "tail" /\ x.home = r /\ x.at = at
        /\ x.request = request /\ x.snapshot = Pristine
    <3>1. Begun(CallRecord, x, "tail", r, at, request, Pristine, AckedEntries)
      BY <1>0, <1>3, <2>3, NewCallType, Zenon
    <3> QED BY <3>1, Zenon DEF Begun
  <2> HIDE DEF x
  <2>6. PlacesInv'
    <3>1. Placed(x)
      BY <2>3, <2>4, <2>5 DEF Placed
    <3> QED BY <1>0, <2>2, <2>4, <2>5, <3>1, PlaceBegins
  <2> QED BY <1>2, <2>2, <2>5, <2>6, BeginMoves
<1> QED BY <1>4, <1>5
-----------------------------------------------------------------------------
(* The log.                                                                *)

\* A log that is longer by one is as long as that, and as it was before.
LEMMA Longer ==
  ASSUME Types, NEW command \in Envelope, log' = Append(log, command),
         states' = [n \in 0..(Len(log) + 1) |->
                      IF n <= Len(log) THEN states[n] ELSE After(states[Len(log)], Len(log), command)]
  PROVE  /\ log' \in Seq(Envelope) /\ Len(log') = Len(log) + 1
         /\ \A i \in 1..Len(log) : log'[i] = log[i]
         /\ log'[Len(log) + 1] = command
         /\ states' \in [0..Len(log') -> Tables]
         /\ \A n \in 0..Len(log) : states'[n] = states[n]
         /\ states'[Len(log) + 1] = After(states[Len(log)], Len(log), command)
<1> DEFINE tables == After(states[Len(log)], Len(log), command)
<1>1. log \in Seq(Envelope) /\ Len(log) \in Nat /\ \A n \in 0..Len(log) : states[n] \in Tables
  BY TypesFacts DEF Types
<1>2. tables \in Tables
  BY <1>1, AfterType
<1> HIDE DEF tables
<1>3. states' = [n \in 0..(Len(log) + 1) |-> IF n <= Len(log) THEN states[n] ELSE tables]
  BY DEF tables
<1>4. /\ log' \in Seq(Envelope) /\ Len(log') = Len(log) + 1
      /\ \A i \in 1..Len(log) : log'[i] = log[i]
      /\ log'[Len(log) + 1] = command
  BY <1>1
<1>5. /\ states' \in [0..(Len(log) + 1) -> Tables]
      /\ \A n \in 0..Len(log) : states'[n] = states[n]
      /\ states'[Len(log) + 1] = tables
  BY <1>1, <1>2, <1>3
<1> QED BY <1>4, <1>5 DEF tables

\* The tables that the longer log makes hold its entries.
LEMMA LongerEntries ==
  ASSUME Types, NEW command \in Envelope, NEW s \in Tables,
         \A q \in DOMAIN s.entries : /\ q < Len(log) /\ s.entries[q] = s.requests[log[q + 1].id]
                                    /\ s.entries[q].command = log[q + 1],
         NEW t, t = After(s, Len(log), command), NEW p \in DOMAIN t.entries
  PROVE  \/ /\ p < Len(log) /\ p >= 0
            /\ t.entries[p] = t.requests[log[p + 1].id] /\ t.entries[p].command = log[p + 1]
         \/ /\ p = Len(log)
            /\ t.entries[p] = t.requests[command.id] /\ t.entries[p].command = command
<1>1. Len(log) \in Nat
  BY TypesFacts
<1>3. DOMAIN s.entries \subseteq Nat /\ s.entries \in [DOMAIN s.entries -> Outcome]
  BY EntriesType DEF Tables
<1>4. CASE Conflicts(s, command)
  <2>1. t = s
    BY <1>1, <1>4, AfterType
  <2> QED BY <1>3, <2>1
<1>5. CASE ~Conflicts(s, command)
  <2>1. /\ DOMAIN t.entries = DOMAIN s.entries \cup {Len(log)}
        /\ \A q \in DOMAIN s.entries \ {Len(log)} : t.entries[q] = s.entries[q]
        /\ t.entries[Len(log)] = t.requests[command.id]
        /\ t.entries[Len(log)].command = command
        /\ \A i \in RequestId : s.requests[i] # Absent => t.requests[i] = s.requests[i]
    <3> DEFINE m == Len(log)
    <3>1. m \in Nat /\ t = After(s, m, command)
      BY <1>1
    <3> HIDE DEF m
    <3>2. /\ DOMAIN After(s, m, command).entries = DOMAIN s.entries \cup {m}
          /\ \A q \in DOMAIN s.entries \ {m} : After(s, m, command).entries[q] = s.entries[q]
          /\ After(s, m, command).entries[m] = After(s, m, command).requests[command.id]
          /\ After(s, m, command).entries[m].command = command
          /\ \A i \in RequestId : s.requests[i] # Absent => After(s, m, command).requests[i] = s.requests[i]
      BY <1>5, <3>1, AfterType
    <3>3. /\ DOMAIN t.entries = DOMAIN s.entries \cup {m}
          /\ \A q \in DOMAIN s.entries \ {m} : t.entries[q] = s.entries[q]
          /\ t.entries[m] = t.requests[command.id]
          /\ t.entries[m].command = command
          /\ \A i \in RequestId : s.requests[i] # Absent => t.requests[i] = s.requests[i]
      BY <3>1, <3>2, Zenon
    <3> QED BY <3>3 DEF m
  <2>2. CASE p = Len(log)
    BY <2>1, <2>2
  <2>3. CASE p # Len(log)
    <3>1. p \in DOMAIN s.entries /\ t.entries[p] = s.entries[p]
      BY <2>1, <2>3
    <3>2. s.entries[p] # Absent /\ p \in Nat
      BY <1>3, <3>1, OutcomeAssumption
    <3>4. p < Len(log) /\ s.entries[p] = s.requests[log[p + 1].id] /\ s.entries[p].command = log[p + 1]
      BY <3>1
    <3>3. log[p + 1].id \in RequestId
      <4>1. p + 1 \in 1..Len(log)
        BY <1>1, <3>2, <3>4
      <4>2. log[p + 1] \in Envelope
        BY <4>1, TypesFacts
      <4> QED BY <4>2 DEF Envelope
    <3>5. t.requests[log[p + 1].id] = s.requests[log[p + 1].id]
      BY <2>1, <3>2, <3>3, <3>4
    <3> QED BY <3>1, <3>2, <3>4, <3>5
  <2> QED BY <2>2, <2>3
<1> QED BY <1>4, <1>5

LEMMA AddsStep ==
  ASSUME KvInv, NEW command \in asked, Adds(command)
  PROVE  KvInv'
<1>0. /\ Types /\ StatesInv /\ StoresInv /\ TargetsInv /\ LockInv /\ ViewsInv /\ PlacesInv
      /\ AnswersComeFromLog /\ Len(log) \in Nat /\ command \in Envelope
  BY TypesFacts DEF KvInv, Types
<1>1. UNCHANGED <<trimmed, asked, store, view, lock, serving, call, trouble, answers>>
  BY DEF Adds
<1> DEFINE t == After(states[Len(log)], Len(log), command)
<1>2. /\ log' \in Seq(Envelope) /\ Len(log') = Len(log) + 1
      /\ \A i \in 1..Len(log) : log'[i] = log[i]
      /\ log'[Len(log) + 1] = command
      /\ states' \in [0..Len(log') -> Tables]
      /\ \A n \in 0..Len(log) : states'[n] = states[n]
      /\ states'[Len(log) + 1] = t
  BY <1>0, Longer DEF Adds
<1>3. \A p \in DOMAIN t.entries :
        \/ /\ p < Len(log) /\ p >= 0
           /\ t.entries[p] = t.requests[log[p + 1].id] /\ t.entries[p].command = log[p + 1]
        \/ /\ p = Len(log)
           /\ t.entries[p] = t.requests[command.id] /\ t.entries[p].command = command
  <2> DEFINE s == states[Len(log)]
  <2>1. /\ s \in Tables /\ Len(log) \in 0..Len(log)
        /\ \A q \in DOMAIN s.entries : /\ q < Len(log) /\ s.entries[q] = s.requests[log[q + 1].id]
                                       /\ s.entries[q].command = log[q + 1]
    BY <1>0, TypesFacts DEF StatesInv
  <2>2. t = After(s, Len(log), command)
    OBVIOUS
  <2> HIDE DEF s, t
  <2> QED BY <1>0, <2>1, <2>2, LongerEntries
<1> HIDE DEF t
<1>4. Types'
  BY <1>0, <1>1, <1>2 DEF Types
<1>5. StatesInv'
  <2>1. states'[0] = Pristine
    BY <1>0, <1>2 DEF StatesInv
  <2>2. ASSUME NEW n \in 1..Len(log') PROVE states'[n] = After(states'[n - 1], n - 1, log'[n])
    <3>1. CASE n = Len(log) + 1
      <4>1. n - 1 = Len(log) /\ states'[n - 1] = states[n - 1] /\ log'[n] = command /\ states'[n] = t
        BY <1>0, <1>2, <3>1
      <4> QED BY <4>1 DEF t
    <3>2. CASE n # Len(log) + 1
      <4>1. n \in 1..Len(log) /\ n - 1 \in 0..Len(log) /\ n \in 0..Len(log)
        BY <1>0, <1>2, <3>2
      <4>2. states'[n] = states[n] /\ states'[n - 1] = states[n - 1] /\ log'[n] = log[n]
        BY <1>2, <4>1
      <4> QED BY <1>0, <4>1, <4>2 DEF StatesInv
    <3> QED BY <3>1, <3>2
  <2>3. ASSUME NEW n \in 0..Len(log'), NEW p \in DOMAIN states'[n].entries
        PROVE  /\ p < Len(log')
               /\ states'[n].entries[p] = states'[n].requests[log'[p + 1].id]
               /\ states'[n].entries[p].command = log'[p + 1]
    <3>1. CASE n = Len(log) + 1
      <4>1. states'[n] = t
        BY <1>2, <3>1
      <4>2. CASE p = Len(log)
        <5>1. log'[p + 1] = command /\ p < Len(log')
          BY <1>0, <1>2, <4>2
        <5>2. t.entries[p] = t.requests[command.id] /\ t.entries[p].command = command
          BY <1>3, <2>3, <4>1, <4>2
        <5> QED BY <4>1, <5>1, <5>2
      <4>3. CASE p # Len(log)
        <5>0. DOMAIN t.entries \subseteq Nat
          <6>1. t \in Tables
            BY <1>2, <2>3, <4>1
          <6> QED BY <6>1, EntriesType DEF Tables
        <5>1. /\ p < Len(log) /\ p >= 0
              /\ t.entries[p] = t.requests[log[p + 1].id] /\ t.entries[p].command = log[p + 1]
          BY <1>3, <2>3, <4>1, <4>3
        <5>2. p + 1 \in 1..Len(log) /\ p < Len(log')
          BY <1>0, <1>2, <2>3, <4>1, <5>0, <5>1
        <5>3. log'[p + 1] = log[p + 1]
          BY <1>2, <5>2
        <5> QED BY <4>1, <5>1, <5>2, <5>3
      <4> QED BY <4>2, <4>3
    <3>2. CASE n # Len(log) + 1
      <4>1. n \in 0..Len(log)
        BY <1>0, <1>2, <3>2
      <4>2. states'[n] = states[n] /\ states[n] \in Tables
        BY <1>0, <1>2, <4>1, TypesFacts
      <4>3. p \in Nat
        BY <2>3, <4>2, EntriesType DEF Tables
      <4>4. /\ p < Len(log) /\ states[n].entries[p] = states[n].requests[log[p + 1].id]
            /\ states[n].entries[p].command = log[p + 1]
        BY <1>0, <2>3, <4>1, <4>2 DEF StatesInv
      <4>5. p + 1 \in 1..Len(log) /\ p < Len(log')
        BY <1>0, <1>2, <4>3, <4>4
      <4>6. log'[p + 1] = log[p + 1]
        BY <1>2, <4>5
      <4> QED BY <4>2, <4>4, <4>5, <4>6
    <3> QED BY <3>1, <3>2
  <2> QED BY <2>1, <2>2, <2>3 DEF StatesInv
<1>6. StoresInv'
  <2>1. ASSUME NEW state, Replayed(state)
        PROVE  /\ state.applied \in -1..(Len(log') - 1)
               /\ DOMAIN state.entries \subseteq 0..state.applied
               /\ Whole(state) => state = states'[state.applied + 1]
    <3>1. state.applied + 1 \in 0..Len(log) /\ state.applied \in -1..(Len(log') - 1)
      BY <1>0, <1>2, <2>1 DEF Replayed
    <3> QED BY <1>2, <2>1, <3>1 DEF Replayed
  <2> QED BY <1>0, <1>1, <2>1 DEF StoresInv, Replayed
<1>7. TargetsInv'
  <2> SUFFICES ASSUME NEW c \in Call PROVE Aimed(call[c])'
    BY DEF TargetsInv
  <2>1. Aimed(call[c]) /\ call'[c] = call[c]
    BY <1>0, <1>1 DEF TargetsInv
  <2>2. ASSUME call[c].target \in 0..(Len(log) - 1)
        PROVE  log'[call[c].target + 1] = log[call[c].target + 1] /\ call[c].target \in 0..(Len(log') - 1)
    <3>1. call[c].target + 1 \in 1..Len(log) /\ call[c].target \in 0..(Len(log') - 1)
      BY <1>0, <1>2, <2>2
    <3> QED BY <1>2, <3>1
  <2> QED BY <1>1, <2>1, <2>2 DEF Aimed
<1>8. LockInv'
  BY <1>0, <1>1 DEF LockInv, Holds, At
<1>9. ViewsInv'
  <2>1. ASSUME NEW c \in Call, Transacts(c) PROVE CommandOf(c)' = CommandOf(c)
    <3>1. Aimed(call[c]) /\ call[c].pc \in Holding
      BY <1>0, <2>1 DEF TargetsInv, Transacts, Holding
    <3>2. /\ call[c].position <= call[c].target /\ call[c].position \in Nat
          /\ call[c].target \in 0..(Len(log) - 1)
      BY <1>0, <3>1, TypesFacts DEF Aimed
    <3>3. call[c].position + 1 \in 1..Len(log)
      BY <1>0, <3>2
    <3> QED BY <1>1, <1>2, <3>3 DEF CommandOf
  <2>2. /\ \A c \in Call : call'[c] = call[c] /\ At(c)' = At(c) /\ (Transacts(c)' <=> Transacts(c))
        /\ store' = store /\ view' = view
    BY <1>1 DEF At, Transacts
  <2>3. \A r \in Replica : (\A c \in Call : At(c)' = r => ~Transacts(c)') => view'[r] = store'[r]
    BY <1>0, <2>2 DEF ViewsInv
  <2>4. ASSUME NEW c \in Call, call'[c].pc = "cleared"
        PROVE  /\ store'[At(c)'].requests[CommandOf(c)'.id] = Absent
               /\ view'[At(c)'] = [store'[At(c)'] EXCEPT !.values = Pristine.values]
    <3>1. call[c].pc = "cleared" /\ CommandOf(c)' = CommandOf(c)
      BY <2>1, <2>2, <2>4 DEF Transacts
    <3> QED BY <1>0, <2>2, <3>1 DEF ViewsInv
  <2>5. ASSUME NEW c \in Call, call'[c].pc = "recorded"
        PROVE  /\ ~Conflicts(store'[At(c)'], CommandOf(c)')
               /\ view'[At(c)'] = After(store'[At(c)'], call'[c].position, CommandOf(c)')
    <3>1. call[c].pc = "recorded" /\ CommandOf(c)' = CommandOf(c)
      BY <2>1, <2>2, <2>5 DEF Transacts
    <3>2. ~Conflicts(store[At(c)], CommandOf(c)) /\ view[At(c)] = After(store[At(c)], call[c].position, CommandOf(c))
      BY <1>0, <3>1 DEF ViewsInv
    <3> QED BY <2>2, <3>1, <3>2
  <2> QED BY <2>3, <2>4, <2>5 DEF ViewsInv
<1>10. PlacesInv'
  BY <1>0, <1>1 DEF PlacesInv, Placed, Running
<1>11. AnswersComeFromLog'
  <2>1. \A n \in DOMAIN states : n \in DOMAIN states' /\ states'[n] = states[n]
    BY <1>0, <1>2 DEF Types
  <2> QED BY <1>0, <1>1, <2>1 DEF AnswersComeFromLog
<1> QED BY <1>4, <1>5, <1>6, <1>7, <1>8, <1>9, <1>10, <1>11 DEF KvInv

\* What the invariant says does not depend on what is trimmed, nor on the count of failures.
LEMMA Untouched ==
  ASSUME KvInv, UNCHANGED <<log, asked, states, store, view, lock, serving, call, answers>>, trimmed' \in Nat
  PROVE  KvInv'
<1>0. /\ Types /\ StatesInv /\ StoresInv /\ TargetsInv /\ LockInv /\ ViewsInv /\ PlacesInv
      /\ AnswersComeFromLog
  BY DEF KvInv
<1>1. Types'
  BY <1>0 DEF Types
<1>2. StatesInv' /\ StoresInv'
  BY <1>0 DEF StatesInv, StoresInv, Replayed
<1>3. TargetsInv' /\ LockInv'
  BY <1>0 DEF TargetsInv, Aimed, LockInv, Holds, At
<1>4. ViewsInv'
  BY <1>0 DEF ViewsInv, At, Transacts, CommandOf
<1>5. PlacesInv' /\ AnswersComeFromLog'
  BY <1>0 DEF PlacesInv, Placed, Running, AnswersComeFromLog
<1> QED BY <1>1, <1>2, <1>3, <1>4, <1>5 DEF KvInv
-----------------------------------------------------------------------------
(* The theorems.                                                           *)

LEMMA NextKeeps == KvInv /\ [Next]_vars => KvInv'
<1> SUFFICES ASSUME KvInv, [Next]_vars PROVE KvInv'
  OBVIOUS
<1>1. CASE UNCHANGED vars
  <2>1. UNCHANGED <<log, asked, states, store, view, lock, serving, call, answers, trimmed>>
    BY <1>1 DEF vars, logVars
  <2> QED BY <2>1, Untouched DEF KvInv, Types
<1>2. ASSUME NEW w \in Workload, Begin(w[1], w[2], w[3]) PROVE KvInv'
  <2>1. w[1] \in Call /\ w[2] \in Replica /\ w[3] \in Request
    BY WorkloadAssumption
  <2> QED BY <1>2, <2>1, BeginSubmitStep, BeginSyncStep DEF Begin
<1>3. ASSUME NEW c \in Call, Progress(c) PROVE KvInv'
  BY <1>3, AppendAnsweredStep, TailAnsweredStep, TakeLockStep, ReadNextStep, ApplyBeginsStep,
     ApplyRefusedStep, ApplyWritesStep, ApplyCommitsStep, GetAnsweredStep, ExportedStep,
     InstalledStep DEF Progress
<1>4. ASSUME NEW c \in Call, Raise(c) PROVE KvInv'
  BY <1>4, RaiseStep
<1>5. ASSUME NEW r \in Replica, Restart(r) PROVE KvInv'
  BY <1>5, RestartStep
<1>6. ASSUME NEW command \in asked, Adds(command) PROVE KvInv'
  BY <1>6, AddsStep
<1>7. ASSUME NEW n \in 1..MaxTrim, Trims(n) PROVE KvInv'
  <2>1. trimmed' \in Nat /\ UNCHANGED <<log, asked, states, store, view, lock, serving, call, answers>>
    BY <1>7, BoundAssumption DEF Trims
  <2> QED BY <2>1, Untouched
<1> QED BY <1>1, <1>2, <1>3, <1>4, <1>5, <1>6, <1>7 DEF Next

\* The inductive invariant holds: of the tables and the log, of the lock and the transaction, and
\* of where each call is.
THEOREM InvariantHolds == Spec => []KvInv
<1> QED BY Starts, NextKeeps, PTL DEF Spec

\* A store that skipped no entry is what the log makes at its position, whatever was repeated,
\* restarted, rolled back or installed from a snapshot.
THEOREM StoresReplay == Spec => []StoresReplayLog
<1>1. KvInv => StoresReplayLog
  BY DEF KvInv, StoresInv, Replayed, StoresReplayLog
<1> QED BY <1>1, InvariantHolds, PTL

\* A submit is answered with what the log's first entry of the request gives, at every replica.
THEOREM AnswersFromLog == Spec => []AnswersComeFromLog
<1>1. KvInv => AnswersComeFromLog
  BY DEF KvInv
<1> QED BY <1>1, InvariantHolds, PTL
-----------------------------------------------------------------------------
(* What a get reads holds what was acknowledged before it was called.      *)

\* A call that is over needs no more.
LEMMA OverFloored ==
  ASSUME Types, StatesInv, NEW c \in Call, NEW pc \in {"done", "failed"}, NEW n, NEW p, NEW e
  PROVE  Floored(Over(c, pc), n, p, e)
BY OverType DEF Floored

\* One call moves, and where a get is about to read the tables do not go back.
LEMMA FloorsMove ==
  ASSUME KvInv, KvInv', FloorsInv, NEW c \in Call, NEW x, call' = [call EXCEPT ![c] = x],
         Len(log) <= Len(log'), undone \subseteq undone',
         Floored(x, Len(log'), view'[x.at].applied, c \in undone'),
         \A d \in Call \ {c} : call[d].pc = "get" =>
           d \in undone' \/ view[At(d)].applied <= view'[At(d)].applied
  PROVE  FloorsInv'
<1> SUFFICES ASSUME NEW d \in Call PROVE Floored(call[d], Len(log), view[At(d)].applied, d \in undone)'
  BY DEF FloorsInv
<1>1. call \in [Call -> CallRecord] /\ call[d] \in CallRecord
  BY DEF KvInv, Types
<1>2. CASE d = c
  <2>1. call'[d] = x
    BY <1>1, <1>2
  <2> QED BY <1>2, <2>1 DEF Floored, At
<1>3. CASE d # c
  <2>1. call'[d] = call[d] /\ Floored(call[d], Len(log), view[At(d)].applied, d \in undone)
    BY <1>1, <1>3 DEF FloorsInv
  <2>2. /\ Len(log) \in Nat /\ Len(log)' \in Nat /\ call[d].floor \in Nat /\ At(d) \in Replica
        /\ view[At(d)].applied \in Int /\ view'[At(d)].applied \in Int
    <3>1. /\ Len(log) \in Nat /\ At(d) \in Replica /\ view[At(d)] \in Tables /\ call[d].floor \in Nat
      BY <1>1, TypesFacts DEF KvInv, CallRecord
    <3>2. Len(log)' \in Nat /\ view'[At(d)] \in Tables
      BY <3>1 DEF KvInv, Types
    <3> QED BY <3>1, <3>2 DEF Tables
  <2>3. /\ call[d].floor <= Len(log) => call[d].floor <= Len(log')
        /\ d \notin undone' => d \notin undone
    BY <2>2
  <2>4. call[d].pc = "get" /\ d \notin undone' /\ call[d].floor <= view[At(d)].applied + 1
          => call[d].floor <= view'[At(d)].applied + 1
    BY <1>3, <2>2
  <2> QED BY <2>1, <2>3, <2>4 DEF Floored, At
<1> QED BY <1>2, <1>3

\* The same where neither the log nor the tables move.
LEMMA FloorsKept ==
  ASSUME KvInv, KvInv', FloorsInv, NEW c \in Call, NEW x, call' = [call EXCEPT ![c] = x],
         UNCHANGED <<log, view, undone>>, Floored(x, Len(log), view[x.at].applied, c \in undone)
  PROVE  FloorsInv'
<1>1. Len(log) \in Nat /\ Len(log) <= Len(log')
  BY TypesFacts DEF KvInv
<1>2. \A d \in Call \ {c} : view[At(d)].applied <= view'[At(d)].applied
  <2>1. \A d \in Call : view[At(d)].applied \in Int
    BY TypesFacts DEF KvInv, Tables
  <2> QED BY <2>1
<1> QED BY <1>1, <1>2, FloorsMove

\* Nothing is new for a call that goes on with its target.
LEMMA TargetKept ==
  ASSUME KvInv, KvInv', FloorsInv, NEW c \in Call, Running(c), NEW x, call' = [call EXCEPT ![c] = x],
         UNCHANGED <<log, view, undone>>,
         x.request = call[c].request, x.floor = call[c].floor, x.target = call[c].target,
         call[c].pc \in {"wait"} \cup Holding, x.pc # "get"
  PROVE  FloorsInv'
<1>1. Floored(call[c], Len(log), view[At(c)].applied, c \in undone)
  BY DEF FloorsInv
<1>2. Floored(x, Len(log), view[x.at].applied, c \in undone)
  BY <1>1 DEF Floored, Running
<1> QED BY <1>2, FloorsKept

\* Nor for one that is no get.
LEMMA NotForWriters ==
  ASSUME KvInv, KvInv', FloorsInv, NEW c \in Call, NEW x, call' = [call EXCEPT ![c] = x],
         UNCHANGED <<log, view, undone>>, x.request.op # "get"
  PROVE  FloorsInv'
<1>1. Floored(x, Len(log), view[x.at].applied, c \in undone)
  BY DEF Floored
<1> QED BY <1>1, FloorsKept

LEMMA FailFloors ==
  ASSUME KvInv, KvInv', FloorsInv, NEW c \in Call, Fail(c), UNCHANGED <<log, view, undone>>
  PROVE  FloorsInv'
<1>1. call' = [call EXCEPT ![c] = Over(c, "failed")]
  BY DEF Fail, Step
<1>2. Floored(Over(c, "failed"), Len(log), view[Over(c, "failed").at].applied, c \in undone)
  BY OverFloored DEF KvInv
<1> QED BY <1>1, <1>2, FloorsKept

\* A get reads where its replica has materialized its target.
LEMMA MaterializedFloors ==
  ASSUME KvInv, KvInv', FloorsInv, NEW c \in Call, Running(c), NEW result, Materialized(c, call[c], result),
         UNCHANGED <<log, view, undone>>,
         call[c].request.op = "get" => call[c].floor <= view[At(c)].applied + 1
  PROVE  FloorsInv'
<1>1. call[c] \in CallRecord /\ call[c].request.op \in {"submit", "get", "bootstrap"}
  BY RunningFacts
<1>2. Floored(Over(c, "done"), Len(log), view[Over(c, "done").at].applied, c \in undone)
  BY OverFloored DEF KvInv
<1>3. CASE call[c].request.op = "submit"
  <2>1. call' = [call EXCEPT ![c] = Over(c, "done")]
    BY <1>3 DEF Materialized, Finish, Step
  <2> QED BY <1>2, <2>1, FloorsKept
<1>4. CASE call[c].request.op = "get"
  <2> DEFINE x == [call[c] EXCEPT !.pc = "get"]
  <2>1. call' = [call EXCEPT ![c] = x]
    BY <1>4 DEF Materialized, Step
  <2>2. x.pc = "get" /\ x.request = call[c].request /\ x.at = call[c].at /\ x.floor = call[c].floor
    BY <1>1 DEF CallRecord
  <2>3. call[c].floor <= Len(log)
    BY <1>4 DEF FloorsInv, Floored, Running
  <2> HIDE DEF x
  <2>4. Floored(x, Len(log), view[x.at].applied, c \in undone)
    BY <1>4, <2>2, <2>3 DEF Floored, At, Holding
  <2> QED BY <2>1, <2>4, FloorsKept
<1>5. CASE call[c].request.op = "bootstrap" /\ call[c].at # call[c].home
  <2> DEFINE x == [call[c] EXCEPT !.pc = "export"]
  <2>1. call' = [call EXCEPT ![c] = x]
    BY <1>5 DEF Materialized, Step
  <2>2. x.request = call[c].request
    BY <1>1 DEF CallRecord
  <2> HIDE DEF x
  <2> QED BY <1>5, <2>1, <2>2, NotForWriters
<1>6. CASE call[c].request.op = "bootstrap" /\ call[c].at = call[c].home
  <2>1. call' = [call EXCEPT ![c] = Over(c, "done")]
    BY <1>6 DEF Materialized, Finish, Step
  <2> QED BY <1>2, <2>1, FloorsKept
<1> QED BY <1>1, <1>3, <1>4, <1>5, <1>6

\* A bootstrap starts over, anyone else fails.
LEMMA SyncRequiredFloors ==
  ASSUME KvInv, KvInv', FloorsInv, NEW c \in Call, Running(c), SyncRequired(c), UNCHANGED <<log, view, undone>>
  PROVE  FloorsInv'
<1>1. CASE Fail(c)
  BY <1>1, FailFloors
<1>2. CASE ~Fail(c)
  <2>1. /\ call[c].request.op = "bootstrap"
        /\ \E s \in serving : Step(c, [call[c] EXCEPT !.pc = "tail", !.at = s, !.attempt = @ + 1])
    BY <1>2 DEF SyncRequired
  <2>2. PICK s \in serving : Step(c, [call[c] EXCEPT !.pc = "tail", !.at = s, !.attempt = @ + 1])
    BY <2>1
  <2> DEFINE x == [call[c] EXCEPT !.pc = "tail", !.at = s, !.attempt = @ + 1]
  <2>3. call' = [call EXCEPT ![c] = x]
    BY <2>2 DEF Step
  <2>4. x.request = call[c].request
    BY RunningFacts DEF CallRecord
  <2> HIDE DEF x
  <2> QED BY <2>1, <2>3, <2>4, NotForWriters
<1> QED BY <1>1, <1>2

LEMMA AppendAnsweredFloors ==
  ASSUME KvInv, KvInv', FloorsInv, NEW c \in Call, AppendAnswered(c)
  PROVE  FloorsInv'
<1>1. PICK i \in DOMAIN log : Step(c, [call[c] EXCEPT !.pc = "wait", !.target = i - 1])
  BY DEF AppendAnswered
<1> DEFINE x == [call[c] EXCEPT !.pc = "wait", !.target = i - 1]
<1>2. call' = [call EXCEPT ![c] = x] /\ UNCHANGED <<log, view, undone>>
  BY <1>1 DEF AppendAnswered, Step, logVars, trouble
<1>3. Running(c) /\ call[c].pc = "append"
  BY DEF AppendAnswered, Running
<1>4. call[c] \in CallRecord /\ call[c].request.op = "submit"
  BY <1>3, RunningFacts DEF Placed
<1>5. x.request = call[c].request
  BY <1>4 DEF CallRecord
<1> HIDE DEF x
<1> QED BY <1>2, <1>4, <1>5, NotForWriters

\* sync: the target is the tail, which is past whatever was acknowledged.
LEMMA TailAnsweredFloors ==
  ASSUME KvInv, KvInv', FloorsInv, NEW c \in Call, TailAnswered(c)
  PROVE  FloorsInv'
<1>0. Running(c) /\ call[c].pc = "tail" /\ UNCHANGED <<log, view, undone>>
  BY DEF TailAnswered, Running, logVars, trouble
<1>1. /\ call[c] \in CallRecord /\ call[c].floor \in Nat /\ Len(log) \in Nat /\ At(c) \in Replica
      /\ view[At(c)].applied \in Int
  <2>1. call[c] \in CallRecord /\ Len(log) \in Nat /\ At(c) \in Replica /\ view[At(c)] \in Tables
    BY TypesFacts DEF KvInv
  <2> QED BY <2>1 DEF CallRecord, Tables
<1>2. call[c].request.op = "get" => call[c].floor <= Len(log)
  BY <1>0 DEF FloorsInv, Floored, Running
<1>3. CASE Len(log) - 1 > view[At(c)].applied
  <2> DEFINE x == [call[c] EXCEPT !.pc = "wait", !.target = Len(log) - 1]
  <2>1. call' = [call EXCEPT ![c] = x]
    BY <1>3 DEF TailAnswered, Step
  <2>2. /\ x.pc = "wait" /\ x.target = Len(log) - 1 /\ x.request = call[c].request /\ x.floor = call[c].floor
    <3>1. "wait" \in Phases /\ Len(log) - 1 \in Int
      BY <1>1 DEF Phases
    <3>2. Moved(CallRecord, x, call[c], "wait", call[c].at, Len(log) - 1, call[c].position, call[c].snapshot)
      BY <1>1, <3>1, Targeted, Zenon
    <3> HIDE DEF x
    <3> QED BY <3>2 DEF Moved
  <2> HIDE DEF x
  <2>3. Floored(x, Len(log), view[x.at].applied, c \in undone)
    BY <1>1, <1>2, <2>2 DEF Floored
  <2> QED BY <1>0, <2>1, <2>3, FloorsKept
<1>4. CASE ~(Len(log) - 1 > view[At(c)].applied)
  <2>1. Materialized(c, call[c], Absent)
    BY <1>4 DEF TailAnswered
  <2>2. call[c].request.op = "get" => call[c].floor <= view[At(c)].applied + 1
    BY <1>1, <1>2, <1>4
  <2> QED BY <1>0, <2>1, <2>2, MaterializedFloors
<1> QED BY <1>3, <1>4

LEMMA TakeLockFloors ==
  ASSUME KvInv, KvInv', FloorsInv, NEW c \in Call, TakeLock(c)
  PROVE  FloorsInv'
<1>0. Running(c) /\ call[c].pc = "wait" /\ UNCHANGED <<log, view, undone>>
  BY DEF TakeLock, Running, logVars, trouble
<1>1. /\ call[c] \in CallRecord /\ call[c].floor \in Nat /\ call[c].target \in Int /\ At(c) \in Replica
      /\ view[At(c)].applied \in -1..(Len(log) - 1) /\ Len(log) \in Nat
  <2>1. call[c] \in CallRecord /\ Len(log) \in Nat /\ At(c) \in Replica
    BY TypesFacts DEF KvInv
  <2> QED BY <2>1, ViewFacts DEF CallRecord
<1>2. CASE call[c].target > view[At(c)].applied
  <2> DEFINE p == view[At(c)].applied + 1
             x == [call[c] EXCEPT !.pc = "read", !.position = p]
  <2>1. call' = [call EXCEPT ![c] = x]
    BY <1>2 DEF TakeLock, Step
  <2>2. /\ x.pc = "read" /\ x.target = call[c].target /\ x.request = call[c].request /\ x.floor = call[c].floor
    <3>1. "read" \in Phases /\ p \in Nat
      BY <1>1 DEF Phases, Holding
    <3> HIDE DEF p
    <3>2. Moved(CallRecord, x, call[c], "read", call[c].at, call[c].target, p, call[c].snapshot)
      BY <1>1, <3>1, Positioned, Zenon
    <3> HIDE DEF x
    <3> QED BY <3>2 DEF Moved
  <2> HIDE DEF x
  <2> QED BY <1>0, <2>1, <2>2, TargetKept
<1>3. CASE ~(call[c].target > view[At(c)].applied)
  <2>1. CASE call[c].target \in DOMAIN view[At(c)].entries
    <3>1. Materialized(c, call[c], view[At(c)].entries[call[c].target].result)
      BY <1>3, <2>1 DEF TakeLock
    <3>2. call[c].request.op = "get" => call[c].floor <= call[c].target + 1
      BY <1>0 DEF FloorsInv, Floored
    <3>3. call[c].request.op = "get" => call[c].floor <= view[At(c)].applied + 1
      BY <1>1, <1>3, <3>2
    <3> QED BY <1>0, <3>1, <3>3, MaterializedFloors
  <2>2. CASE call[c].target \notin DOMAIN view[At(c)].entries
    <3>1. SyncRequired(c)
      BY <1>3, <2>2 DEF TakeLock
    <3> QED BY <1>0, <3>1, SyncRequiredFloors
  <2> QED BY <2>1, <2>2
<1> QED BY <1>2, <1>3

LEMMA ReadNextFloors ==
  ASSUME KvInv, KvInv', FloorsInv, NEW c \in Call, ReadNext(c)
  PROVE  FloorsInv'
<1> DEFINE left == {p \in call[c].position..call[c].target : p >= trimmed}
<1>0. Running(c) /\ call[c].pc = "read" /\ UNCHANGED <<log, view, undone>>
  BY DEF ReadNext, Running, logVars, trouble
<1>1. call[c] \in CallRecord
  BY RunningFacts, <1>0
<1>2. CASE left = {}
  <2>1. SyncRequired(c)
    BY <1>2 DEF ReadNext
  <2> QED BY <1>0, <2>1, SyncRequiredFloors
<1>3. CASE left # {}
  <2> DEFINE p == CHOOSE m \in left : \A q \in left : m <= q
             x == [call[c] EXCEPT !.pc = "apply", !.position = p]
  <2>1. call' = [call EXCEPT ![c] = x]
    BY <1>3 DEF ReadNext, Step
  <2>2. x.pc = "apply" /\ x.target = call[c].target /\ x.request = call[c].request /\ x.floor = call[c].floor
    <3> HIDE DEF p
    <3> QED BY <1>1 DEF CallRecord
  <2> HIDE DEF x
  <2> QED BY <1>0, <2>1, <2>2, TargetKept DEF Holding
<1> QED BY <1>2, <1>3

\* Applying an entry shows more than before.
LEMMA ViewGrows ==
  ASSUME KvInv, NEW c \in Call, ApplyBegins(c) \/ ApplyWrites(c)
  PROVE  \A r \in Replica : view[r].applied <= view'[r].applied
<1> DEFINE s == store[At(c)]
           p == call[c].position
<1>0. Holds(c) /\ call[c].pc \in {"apply", "cleared"}
  BY DEF ApplyBegins, ApplyWrites, Holds, Holding
<1>1. /\ At(c) \in Replica /\ s \in Tables /\ p \in Nat /\ CommandOf(c) \in Envelope /\ s.applied < p
      /\ s.applied \in Int
  BY <1>0, ApplyingFacts DEF Tables
<1>2. view \in [Replica -> Tables] /\ \A r \in Replica : view[r].applied \in Int
  BY TypesFacts DEF KvInv, Types, Tables
<1>3. view[At(c)].applied = s.applied
  <2>1. CASE call[c].pc = "apply"
    <3>1. \A d \in Call : At(d) = At(c) => ~Transacts(d)
      <4>1. \A d \in Call : Transacts(d) => Holds(d)
        BY DEF Transacts, Holds, Holding
      <4> QED BY <1>0, <2>1, <4>1, AloneHolding DEF Transacts
    <3> QED BY <1>1, <3>1 DEF KvInv, ViewsInv
  <2>2. CASE call[c].pc = "cleared"
    <3>1. view[At(c)] = [s EXCEPT !.values = Pristine.values]
      BY <2>2 DEF KvInv, ViewsInv
    <3> QED BY <1>1, <3>1 DEF Tables
  <2> QED BY <1>0, <2>1, <2>2
<1>4. After(s, p, CommandOf(c)).applied = p \/ Conflicts(s, CommandOf(c))
  BY <1>1, AfterType
<1>5. \/ view' = [view EXCEPT ![At(c)].values = Pristine.values]
      \/ /\ view' = [view EXCEPT ![At(c)] = After(s, p, CommandOf(c))]
         /\ ~Conflicts(s, CommandOf(c))
  <2>1. CASE ApplyBegins(c) /\ s.requests[CommandOf(c).id] = Absent
    BY <2>1 DEF ApplyBegins
  <2>2. CASE ApplyBegins(c) /\ s.requests[CommandOf(c).id] # Absent
    BY <2>2 DEF ApplyBegins, After
  <2>3. CASE ApplyWrites(c)
    <3>1. s.requests[CommandOf(c).id] = Absent
      BY <2>3 DEF ApplyWrites, KvInv, ViewsInv
    <3> QED BY <2>3, <3>1 DEF ApplyWrites, After, Conflicts
  <2> QED BY <2>1, <2>2, <2>3
<1>6. CASE view' = [view EXCEPT ![At(c)].values = Pristine.values]
  <2>1. view'[At(c)] = [view[At(c)] EXCEPT !.values = Pristine.values]
    BY <1>1, <1>2, <1>6
  <2>2. view'[At(c)].applied = view[At(c)].applied
    BY <1>1, <1>2, <2>1 DEF Tables
  <2> QED BY <1>1, <1>2, <1>6, <2>2
<1>7. CASE view' = [view EXCEPT ![At(c)] = After(s, p, CommandOf(c))] /\ ~Conflicts(s, CommandOf(c))
  <2> DEFINE t == After(s, p, CommandOf(c))
  <2>1. t.applied = p
    BY <1>4, <1>7
  <2>2. view' = [view EXCEPT ![At(c)] = t]
    BY <1>7
  <2> HIDE DEF s, p, t
  <2>3. view'[At(c)].applied = p /\ \A r \in Replica \ {At(c)} : view'[r] = view[r]
    BY <1>1, <1>2, <2>1, <2>2
  <2> QED BY <1>1, <1>2, <1>3, <2>3
<1> QED BY <1>5, <1>6, <1>7

LEMMA ApplyFloors ==
  ASSUME KvInv, KvInv', FloorsInv, NEW c \in Call, ApplyBegins(c) \/ ApplyWrites(c)
  PROVE  FloorsInv'
<1>0. /\ Running(c) /\ call[c].pc \in {"apply", "cleared"} /\ UNCHANGED <<log, undone>>
  BY DEF ApplyBegins, ApplyWrites, Running, logVars, trouble
<1>1. call[c] \in CallRecord /\ Len(log) \in Nat
  BY TypesFacts DEF KvInv
<1>2. PICK pc \in {"cleared", "recorded"} : call' = [call EXCEPT ![c] = [call[c] EXCEPT !.pc = pc]]
  BY DEF ApplyBegins, ApplyWrites, Step
<1> DEFINE x == [call[c] EXCEPT !.pc = pc]
<1>3. /\ x.pc = pc /\ x.request = call[c].request /\ x.floor = call[c].floor /\ x.target = call[c].target
      /\ x.at = call[c].at
  BY <1>1 DEF CallRecord
<1>4. call' = [call EXCEPT ![c] = x]
  BY <1>2
<1> HIDE DEF x
<1>5. Floored(x, Len(log'), view'[x.at].applied, c \in undone')
  <2>1. Floored(call[c], Len(log), view[At(c)].applied, c \in undone)
    BY DEF FloorsInv
  <2> QED BY <1>0, <1>3, <2>1 DEF Floored, Running, Holding
<1>6. \A d \in Call \ {c} : view[At(d)].applied <= view'[At(d)].applied
  BY ViewGrows, TypesFacts DEF KvInv
<1>7. Len(log) <= Len(log') /\ undone \subseteq undone'
  BY <1>0, <1>1
<1> QED BY <1>4, <1>5, <1>6, <1>7, FloorsMove

LEMMA ApplyCommitsFloors ==
  ASSUME KvInv, KvInv', FloorsInv, NEW c \in Call, ApplyCommits(c)
  PROVE  FloorsInv'
<1> DEFINE p == call[c].position
<1>0. Running(c) /\ Holds(c) /\ call[c].pc = "recorded" /\ UNCHANGED <<log, view, undone>>
  BY DEF ApplyCommits, Running, Holds, Holding, logVars, trouble
<1>1. /\ call[c] \in CallRecord /\ call[c].floor \in Nat /\ p \in Nat
      /\ call[c].target \in Int /\ p <= call[c].target /\ At(c) \in Replica
      /\ store[At(c)] \in Tables /\ CommandOf(c) \in Envelope
  <2>1. call[c] \in CallRecord /\ call[c].target \in Int
    BY TypesFacts DEF KvInv
  <2> QED BY <1>0, <2>1, ApplyingFacts DEF CallRecord
<1>2. CASE p < call[c].target
  <2> DEFINE x == [call[c] EXCEPT !.pc = "read", !.position = p + 1]
  <2>1. call' = [call EXCEPT ![c] = x]
    BY <1>2 DEF ApplyCommits, Step
  <2>2. x.pc = "read" /\ x.target = call[c].target /\ x.request = call[c].request /\ x.floor = call[c].floor
    <3>1. "read" \in Phases /\ p + 1 \in Nat
      BY <1>1 DEF Phases, Holding
    <3>2. Moved(CallRecord, x, call[c], "read", call[c].at, call[c].target, p + 1, call[c].snapshot)
      BY <1>1, <3>1, Positioned, Zenon
    <3> HIDE DEF x
    <3> QED BY <3>2 DEF Moved
  <2> HIDE DEF x, p
  <2> QED BY <1>0, <2>1, <2>2, TargetKept DEF Holding
<1>3. CASE ~(p < call[c].target)
  <2>1. Materialized(c, call[c], view[At(c)].entries[p].result)
    BY <1>3 DEF ApplyCommits
  <2>2. view[At(c)].applied = p
    <3> DEFINE s == store[At(c)]
               after == After(s, p, CommandOf(c))
    <3>1. ~Conflicts(s, CommandOf(c)) /\ view[At(c)] = after
      BY <1>0 DEF KvInv, ViewsInv
    <3>2. after.applied = p
      BY <1>1, <3>1, AfterType
    <3> HIDE DEF after
    <3> QED BY <3>1, <3>2
  <2>3. call[c].request.op = "get" => call[c].floor <= call[c].target + 1
    BY <1>0 DEF FloorsInv, Floored, Running, Holding
  <2>4. call[c].request.op = "get" => call[c].floor <= view[At(c)].applied + 1
    BY <1>1, <1>3, <2>2, <2>3
  <2> HIDE DEF p
  <2> QED BY <1>0, <2>1, <2>4, MaterializedFloors
<1> QED BY <1>2, <1>3

LEMMA GetAnsweredFloors ==
  ASSUME KvInv, KvInv', FloorsInv, NEW c \in Call, GetAnswered(c)
  PROVE  FloorsInv'
<1>1. call' = [call EXCEPT ![c] = Over(c, "done")] /\ UNCHANGED <<log, view, undone>>
  BY DEF GetAnswered, Finish, Step, logVars, trouble
<1>2. Floored(Over(c, "done"), Len(log), view[Over(c, "done").at].applied, c \in undone)
  BY OverFloored DEF KvInv
<1> QED BY <1>1, <1>2, FloorsKept

LEMMA ExportedFloors ==
  ASSUME KvInv, KvInv', FloorsInv, NEW c \in Call, Exported(c)
  PROVE  FloorsInv'
<1> DEFINE x == [call[c] EXCEPT !.pc = "install", !.at = call[c].home, !.snapshot = store[At(c)]]
<1>0. Running(c) /\ call[c].pc = "export"
  BY DEF Exported, Running
<1>1. call' = [call EXCEPT ![c] = x] /\ UNCHANGED <<log, view, undone>>
  BY DEF Exported, Step, logVars, trouble
<1>2. call[c] \in CallRecord /\ call[c].request.op = "bootstrap"
  BY <1>0, RunningFacts DEF Placed
<1>3. x.request = call[c].request
  BY <1>2 DEF CallRecord
<1> HIDE DEF x
<1> QED BY <1>1, <1>2, <1>3, NotForWriters

\* A snapshot is installed where no get is served.
LEMMA InstalledFloors ==
  ASSUME KvInv, KvInv', FloorsInv, NEW c \in Call, Installed(c)
  PROVE  FloorsInv'
<1> DEFINE x == [call[c] EXCEPT !.pc = "tail", !.snapshot = Pristine]
<1>0. Running(c) /\ call[c].pc = "install" /\ UNCHANGED <<log, undone>>
  BY DEF Installed, Running, logVars, trouble
<1>1. call' = [call EXCEPT ![c] = x] /\ view' = [view EXCEPT ![At(c)] = call[c].snapshot]
  BY DEF Installed, Step
<1>2. /\ call[c] \in CallRecord /\ call[c].request.op = "bootstrap" /\ call[c].home \notin serving
      /\ call[c].at = call[c].home
  BY <1>0, RunningFacts DEF Placed
<1>3. x.request = call[c].request
  BY <1>2 DEF CallRecord
<1> HIDE DEF x
<1>4. Floored(x, Len(log'), view'[x.at].applied, c \in undone')
  BY <1>2, <1>3 DEF Floored
<1>5. ASSUME NEW d \in Call \ {c}, call[d].pc = "get" PROVE view[At(d)].applied <= view'[At(d)].applied
  <2>1. Running(d)
    BY <1>5 DEF Running
  <2>2. At(d) \in serving
    BY <1>5, <2>1, RunningFacts DEF Placed, At
  <2>3. view'[At(d)] = view[At(d)]
    BY <1>1, <1>2, <2>2 DEF At
  <2>4. view[At(d)].applied \in Int
    BY TypesFacts DEF KvInv, Tables
  <2> QED BY <2>3, <2>4
<1>6. Len(log) <= Len(log')
  BY <1>0, TypesFacts DEF KvInv
<1> QED BY <1>0, <1>1, <1>4, <1>5, <1>6, FloorsMove

\* Whoever may have read what is rolled back is excused.
LEMMA RaiseFloors ==
  ASSUME KvInv, KvInv', FloorsInv, NEW c \in Call, Raise(c)
  PROVE  FloorsInv'
<1>0. Running(c) /\ Fail(c) /\ UNCHANGED log /\ call' = [call EXCEPT ![c] = Over(c, "failed")]
  BY DEF Raise, Fail, Step, logVars
<1>1. CASE ~Transacts(c)
  BY <1>0, <1>1, FailFloors DEF Raise, Transacts
<1>2. CASE Transacts(c)
  <2>1. view' = [view EXCEPT ![At(c)] = store[At(c)]] /\ undone' = undone \cup Disturbed({At(c)})
    BY <1>2 DEF Raise, RolledBack, Transacts
  <2>2. Floored(Over(c, "failed"), Len(log'), view'[Over(c, "failed").at].applied, c \in undone')
    BY OverFloored DEF KvInv
  <2>3. ASSUME NEW d \in Call \ {c}, call[d].pc = "get"
        PROVE  d \in undone' \/ view[At(d)].applied <= view'[At(d)].applied
    <3>1. Running(d)
      BY <2>3 DEF Running
    <3>2. CASE At(d) = At(c)
      BY <2>1, <3>1, <3>2 DEF Disturbed
    <3>3. CASE At(d) # At(c)
      <4>1. view'[At(d)] = view[At(d)]
        BY <2>1, <3>3, TypesFacts DEF KvInv, Types
      <4>2. view[At(d)].applied \in Int
        BY TypesFacts DEF KvInv, Tables
      <4> QED BY <4>1, <4>2
    <3> QED BY <3>2, <3>3
  <2>4. Len(log) <= Len(log') /\ undone \subseteq undone'
    BY <1>0, <2>1, TypesFacts DEF KvInv
  <2> QED BY <1>0, <2>2, <2>3, <2>4, FloorsMove
<1> QED BY <1>1, <1>2

LEMMA RestartFloors ==
  ASSUME KvInv, KvInv', FloorsInv, NEW r \in Replica, Restart(r)
  PROVE  FloorsInv'
<1> DEFINE lost == {c \in Call : Running(c) /\ r \in {At(c), call[c].home}}
           released == {q \in Replica : lock[q] \in lost}
<1>0. Types /\ StatesInv /\ LockInv /\ ViewsInv
  BY DEF KvInv
<1>1. /\ call' = [c \in Call |-> IF c \in lost THEN Over(c, "failed") ELSE call[c]]
      /\ UNCHANGED log
      /\ undone' = undone \cup Disturbed({q \in released : InTransaction(q)})
      /\ \A q \in Replica : view'[q] = IF q \in released \cup {r} THEN store[q] ELSE view[q]
  BY DEF Restart, logVars
<1> SUFFICES ASSUME NEW d \in Call PROVE Floored(call[d], Len(log), view[At(d)].applied, d \in undone)'
  BY DEF FloorsInv
<1>2. CASE d \in lost
  <2>1. call'[d].pc = "failed"
    BY <1>0, <1>1, <1>2, OverType
  <2> QED BY <2>1 DEF Floored
<1>3. CASE d \notin lost
  <2>1. call'[d] = call[d] /\ Floored(call[d], Len(log), view[At(d)].applied, d \in undone)
    BY <1>1, <1>3 DEF FloorsInv
  <2>2. ASSUME call[d].pc = "get" PROVE d \in undone' \/ view'[At(d)] = view[At(d)]
    <3>1. Running(d) /\ At(d) # r /\ At(d) \in Replica
      BY <1>0, <1>3, <2>2, TypesFacts DEF Running
    <3>2. CASE At(d) \in released /\ InTransaction(At(d))
      <4>1. d \in Disturbed({q \in released : InTransaction(q)})
        BY <3>1, <3>2 DEF Disturbed
      <4> QED BY <1>1, <4>1
    <3>3. CASE At(d) \in released /\ ~InTransaction(At(d))
      <4>1. view[At(d)] = store[At(d)]
        BY <1>0, <3>1, <3>3 DEF ViewsInv, InTransaction, Transacts
      <4> QED BY <1>1, <3>1, <4>1
    <3>4. CASE At(d) \notin released
      BY <1>1, <3>1, <3>4
    <3> QED BY <3>2, <3>3, <3>4
  <2>3. undone \subseteq undone' /\ log' = log
    BY <1>1
  <2> HIDE DEF lost, released
  <2> QED BY <2>1, <2>2, <2>3 DEF Floored, At
<1> QED BY <1>2, <1>3

LEMMA BeginFloors ==
  ASSUME KvInv, KvInv', FloorsInv, NEW c \in Call, NEW r \in Replica, NEW request \in Request, Begin(c, r, request)
  PROVE  FloorsInv'
<1>0. Types /\ UNCHANGED <<log, view, undone>> /\ serving \subseteq Replica
  BY DEF KvInv, Types, Begin, trouble
<1>1. "append" \in Phases /\ "done" \in Phases /\ "failed" \in Phases /\ "tail" \in Phases
  BY DEF Phases
<1>2. CASE BeginSubmit(c, r, request)
  <2>1. PICK pc \in {"append", "done", "failed"} : call' = [call EXCEPT ![c] = [NewCall(r, request) EXCEPT !.pc = pc]]
    BY <1>2 DEF BeginSubmit, Step
  <2> DEFINE x == [NewCall(r, request) EXCEPT !.pc = pc]
  <2>2. Begun(CallRecord, x, pc, r, r, request, Pristine, AckedEntries)
    BY <1>0, <1>1, NewCallType, Zenon
  <2>3. call' = [call EXCEPT ![c] = x] /\ request.op = "submit"
    BY <1>2, <2>1 DEF BeginSubmit
  <2> HIDE DEF x
  <2>4. x.request.op # "get"
    BY <2>2, <2>3 DEF Begun
  <2> QED BY <1>0, <2>3, <2>4, NotForWriters
<1>3. CASE BeginGet(c, r, request)
  <2> DEFINE x == [NewCall(r, request) EXCEPT !.pc = "tail"]
  <2>1. call' = [call EXCEPT ![c] = x]
    BY <1>3 DEF BeginGet, Step
  <2>2. Begun(CallRecord, x, "tail", r, r, request, Pristine, AckedEntries)
    BY <1>0, <1>1, NewCallType, Zenon
  <2> HIDE DEF x
  <2>3. x.pc = "tail" /\ x.floor <= Len(log)
    <3>1. AckedEntries \in 0..Len(log) /\ Len(log) \in Nat
      BY <1>0, FloorType, TypesFacts
    <3> QED BY <2>2, <3>1 DEF Begun
  <2>4. Floored(x, Len(log), view[x.at].applied, c \in undone)
    BY <2>3 DEF Floored, Holding
  <2> QED BY <1>0, <2>1, <2>4, FloorsKept
<1>4. CASE BeginBootstrap(c, r, request)
  <2>1. PICK s \in serving :
          Step(c, [NewCall(r, request) EXCEPT !.pc = "tail", !.at = IF store[r].applied < 0 THEN s ELSE r])
    BY <1>4 DEF BeginBootstrap
  <2> DEFINE at == IF store[r].applied < 0 THEN s ELSE r
             x == [NewCall(r, request) EXCEPT !.pc = "tail", !.at = at]
  <2>2. call' = [call EXCEPT ![c] = x] /\ request.op = "bootstrap" /\ at \in Replica
    BY <1>0, <1>4, <2>1 DEF Step, BeginBootstrap
  <2> HIDE DEF at
  <2>3. Begun(CallRecord, x, "tail", r, at, request, Pristine, AckedEntries)
    BY <1>0, <1>1, <2>2, NewCallType, Zenon
  <2> HIDE DEF x
  <2>4. x.request.op # "get"
    BY <2>2, <2>3 DEF Begun
  <2> QED BY <1>0, <2>2, <2>4, NotForWriters
<1> QED BY <1>2, <1>3, <1>4 DEF Begin

\* The log is longer and no call moves.
LEMMA LogFloors ==
  ASSUME KvInv, FloorsInv, Len(log) <= Len(log'), Len(log)' \in Nat, UNCHANGED <<view, call, undone>>
  PROVE  FloorsInv'
<1> SUFFICES ASSUME NEW d \in Call PROVE Floored(call[d], Len(log), view[At(d)].applied, d \in undone)'
  BY DEF FloorsInv
<1>1. Floored(call[d], Len(log), view[At(d)].applied, d \in undone)
  BY DEF FloorsInv
<1>2. call[d] \in CallRecord /\ Len(log) \in Nat
  BY TypesFacts DEF KvInv
<1>3. call[d].floor \in Nat
  BY <1>2 DEF CallRecord
<1> QED BY <1>1, <1>2, <1>3 DEF Floored, At

\* The log and the states that it makes are longer, or as they were.
LogGrows ==
  /\ Len(log) \in Nat /\ Len(log)' \in Nat /\ Len(log) <= Len(log')
  /\ \A n \in 0..Len(log) : states'[n] = states[n]

\* Nobody is told anything, or one submit is.
SubmitsTold == \A a \in answers' : a \in answers \/ a.kind = "submit"

\* What was fresh once is fresh for ever.
LEMMA FreshStays ==
  ASSUME LogGrows, NEW a, a.floor \in Nat, Fresh(a)
  PROVE  Fresh(a)'
<1>1. PICK n \in a.floor..Len(log) : states[n].values[a.key] = a.value
  BY DEF Fresh
<1>2. n \in 0..Len(log) /\ n \in a.floor..Len(log')
  BY DEF LogGrows
<1>3. states'[n] = states[n]
  BY <1>2 DEF LogGrows
<1> QED BY <1>1, <1>2, <1>3 DEF Fresh

LEMMA ReadsStay ==
  ASSUME LogGrows, ToldInv, GetsAreNotStale, SubmitsTold
  PROVE  ToldInv' /\ GetsAreNotStale'
<1>1. \A a \in answers' : a.kind = "get" => a \in answers
  BY DEF SubmitsTold
<1>2. ToldInv'
  BY <1>1 DEF ToldInv
<1>3. ASSUME NEW a \in answers', a.kind = "get", a.whole, ~a.undone PROVE Fresh(a)'
  <2>1. a \in answers /\ a.floor \in Nat /\ Fresh(a)
    BY <1>1, <1>3 DEF ToldInv, GetsAreNotStale
  <2> QED BY <2>1, FreshStays
<1> QED BY <1>2, <1>3 DEF GetsAreNotStale

LEMMA MaterializedTells ==
  ASSUME NEW c, NEW result, Materialized(c, call[c], result),
         call[c].request.op \in {"submit", "get", "bootstrap"}
  PROVE  SubmitsTold
<1>1. CASE call[c].request.op = "submit"
  <2> DEFINE a == [kind |-> "submit", command |-> call[c].request.command, result |-> result,
                   whole |-> Whole(view[At(c)])]
  <2>1. answers' = answers \cup {a} /\ a.kind = "submit"
    BY <1>1 DEF Materialized, Finish
  <2> HIDE DEF a
  <2> QED BY <2>1 DEF SubmitsTold
<1>2. CASE call[c].request.op = "get"
  <2>1. answers' = answers
    BY <1>2 DEF Materialized
  <2> QED BY <2>1 DEF SubmitsTold
<1>3. CASE call[c].request.op = "bootstrap"
  <2>1. answers' = answers \/ answers' = answers \cup {}
    BY <1>3 DEF Materialized, Finish
  <2> QED BY <2>1 DEF SubmitsTold
<1> QED BY <1>1, <1>2, <1>3

LEMMA SyncRequiredTells ==
  ASSUME NEW c, SyncRequired(c)
  PROVE  SubmitsTold
BY DEF SyncRequired, Fail, SubmitsTold

\* Only a get that ends is told a value.
LEMMA OthersTell ==
  ASSUME KvInv, [Next]_vars
  PROVE  SubmitsTold \/ \E c \in Call : GetAnswered(c)
<1>1. \A c \in Call : Running(c) => call[c].request.op \in {"submit", "get", "bootstrap"}
  BY RunningFacts
<1>2. CASE UNCHANGED vars
  BY <1>2 DEF vars, SubmitsTold
<1>3. ASSUME NEW w \in Workload, Begin(w[1], w[2], w[3]) PROVE SubmitsTold
  <2>1. CASE BeginSubmit(w[1], w[2], w[3])
    <3> DEFINE a == [kind |-> "submit", command |-> w[3].command,
                     result |-> view[w[2]].requests[w[3].command.id].result, whole |-> Whole(view[w[2]])]
    <3>1. (answers' = answers \/ answers' = answers \cup {a}) /\ a.kind = "submit"
      BY <2>1 DEF BeginSubmit
    <3> HIDE DEF a
    <3> QED BY <3>1 DEF SubmitsTold
  <2>2. CASE BeginGet(w[1], w[2], w[3]) \/ BeginBootstrap(w[1], w[2], w[3])
    BY <2>2 DEF BeginGet, BeginBootstrap, SubmitsTold
  <2> QED BY <1>3, <2>1, <2>2 DEF Begin
<1>4. ASSUME NEW c \in Call, Progress(c), ~GetAnswered(c) PROVE SubmitsTold
  <2>1. CASE AppendAnswered(c) \/ ApplyBegins(c) \/ ApplyWrites(c) \/ Exported(c) \/ Installed(c)
    BY <2>1 DEF AppendAnswered, ApplyBegins, ApplyWrites, Exported, Installed, SubmitsTold
  <2>2. CASE ApplyRefused(c)
    BY <2>2 DEF ApplyRefused, Fail, SubmitsTold
  <2>3. CASE TailAnswered(c)
    <3>1. Running(c)
      BY <2>3 DEF TailAnswered, Running
    <3>2. UNCHANGED answers \/ Materialized(c, call[c], Absent)
      BY <2>3 DEF TailAnswered
    <3> QED BY <1>1, <3>1, <3>2, MaterializedTells DEF SubmitsTold
  <2>4. CASE TakeLock(c)
    <3>1. Running(c)
      BY <2>4 DEF TakeLock, Running
    <3>2. \/ UNCHANGED answers \/ SyncRequired(c)
          \/ Materialized(c, call[c], view[At(c)].entries[call[c].target].result)
      BY <2>4 DEF TakeLock
    <3> QED BY <1>1, <3>1, <3>2, MaterializedTells, SyncRequiredTells DEF SubmitsTold
  <2>5. CASE ReadNext(c)
    <3>1. UNCHANGED answers \/ SyncRequired(c)
      BY <2>5 DEF ReadNext
    <3> QED BY <3>1, SyncRequiredTells DEF SubmitsTold
  <2>6. CASE ApplyCommits(c)
    <3>1. Running(c)
      BY <2>6 DEF ApplyCommits, Running
    <3>2. \/ UNCHANGED answers
          \/ Materialized(c, call[c], view[At(c)].entries[call[c].position].result)
      BY <2>6 DEF ApplyCommits
    <3> QED BY <1>1, <3>1, <3>2, MaterializedTells DEF SubmitsTold
  <2> QED BY <1>4, <2>1, <2>2, <2>3, <2>4, <2>5, <2>6 DEF Progress
<1>5. ASSUME NEW c \in Call, Raise(c) PROVE SubmitsTold
  BY <1>5 DEF Raise, Fail, SubmitsTold
<1>6. ASSUME NEW r \in Replica, Restart(r) PROVE SubmitsTold
  BY <1>6 DEF Restart, SubmitsTold
<1>7. ASSUME NEW command \in asked, Adds(command) PROVE SubmitsTold
  BY <1>7 DEF Adds, SubmitsTold
<1>8. ASSUME NEW n \in 1..MaxTrim, Trims(n) PROVE SubmitsTold
  BY <1>8 DEF Trims, SubmitsTold
<1> QED BY <1>2, <1>3, <1>4, <1>5, <1>6, <1>7, <1>8 DEF Next

LEMMA AddsGrows ==
  ASSUME KvInv, NEW command \in asked, Adds(command)
  PROVE  LogGrows /\ UNCHANGED <<view, call, undone, trimmed, failures>>
<1>1. log \in Seq(Envelope) /\ command \in Envelope /\ Len(log) \in Nat
  BY DEF KvInv, Types
<1>2. log' = Append(log, command)
  BY DEF Adds
<1>3. Len(log') = Len(log) + 1
  BY <1>1, <1>2
<1>4. \A n \in 0..Len(log) : states'[n] = states[n]
  <2>1. states' = [n \in 0..(Len(log) + 1) |->
                    IF n <= Len(log) THEN states[n] ELSE After(states[Len(log)], Len(log), command)]
    BY DEF Adds
  <2>2. \A n \in 0..Len(log) : n \in 0..(Len(log) + 1) /\ n <= Len(log)
    BY <1>1
  <2> QED BY <2>1, <2>2
<1> QED BY <1>1, <1>3, <1>4 DEF LogGrows, Adds, trouble

LEMMA NextGrows ==
  ASSUME KvInv, [Next]_vars
  PROVE  LogGrows
<1>1. Len(log) \in Nat
  BY TypesFacts DEF KvInv
<1>2. UNCHANGED <<log, states>> => LogGrows
  BY <1>1 DEF LogGrows
<1>3. ASSUME NEW c \in Call, Progress(c) PROVE UNCHANGED <<log, states>>
  BY <1>3 DEF Progress, AppendAnswered, TailAnswered, TakeLock, ReadNext, ApplyBegins, ApplyRefused,
     ApplyWrites, ApplyCommits, GetAnswered, Exported, Installed, logVars
<1>4. ASSUME NEW w \in Workload, Begin(w[1], w[2], w[3]) PROVE UNCHANGED <<log, states>>
  BY <1>4 DEF Begin
<1>5. ASSUME NEW c \in Call, Raise(c) PROVE UNCHANGED <<log, states>>
  BY <1>5 DEF Raise, logVars
<1>6. ASSUME NEW r \in Replica, Restart(r) PROVE UNCHANGED <<log, states>>
  BY <1>6 DEF Restart, logVars
<1>7. ASSUME NEW n \in 1..MaxTrim, Trims(n) PROVE UNCHANGED <<log, states>>
  BY <1>7 DEF Trims
<1>8. UNCHANGED vars => UNCHANGED <<log, states>>
  BY DEF vars, logVars
<1> QED BY <1>2, <1>3, <1>4, <1>5, <1>6, <1>7, <1>8, AddsGrows DEF Next

\* A get is told what the log makes of the key, at the position that it saw applied.
LEMMA GetIsFresh ==
  ASSUME KvInv, FloorsInv, ToldInv, GetsAreNotStale, NEW c \in Call, GetAnswered(c)
  PROVE  ToldInv' /\ GetsAreNotStale'
<1> DEFINE r == At(c)
           v == view[r]
           a == [kind |-> "get", key |-> call[c].request.key, floor |-> call[c].floor,
                 value |-> v.values[call[c].request.key],
                 whole |-> Whole(v) /\ ~Emptied(r), undone |-> c \in undone]
<1>0. call[c].pc = "get" /\ UNCHANGED <<log, states>> /\ answers' = answers \cup {a}
  BY DEF GetAnswered, Finish, logVars
<1>1. Running(c)
  BY <1>0 DEF Running
<1>2. call[c].request.op = "get"
  BY <1>0, <1>1, RunningFacts DEF Placed
<1>3. /\ r \in Replica /\ Len(log) \in Nat /\ call[c].floor \in Nat
      /\ v.applied \in -1..(Len(log) - 1)
  <2>1. r \in Replica /\ Len(log) \in Nat /\ call[c] \in CallRecord
    BY TypesFacts DEF KvInv
  <2> QED BY <2>1, ViewFacts DEF CallRecord
<1>4. /\ a.floor = call[c].floor /\ a.key = call[c].request.key /\ a.kind = "get"
      /\ a.value = v.values[call[c].request.key]
      /\ a.whole = (Whole(v) /\ ~Emptied(r)) /\ a.undone = (c \in undone)
  OBVIOUS
<1>5. LogGrows
  BY <1>0, <1>3 DEF LogGrows
<1>6. ASSUME Whole(v), ~Emptied(r), c \notin undone PROVE Fresh(a)
  <2>1. v = states[v.applied + 1]
    BY <1>3, <1>6, ViewFacts
  <2>2. call[c].floor <= v.applied + 1
    BY <1>0, <1>2, <1>6 DEF FloorsInv, Floored
  <2>3. v.applied + 1 \in a.floor..Len(log)
    BY <1>3, <1>4, <2>2
  <2> HIDE DEF a, v
  <2> QED BY <1>4, <2>1, <2>3 DEF Fresh
<1> HIDE DEF a, v, r
<1>7. a.floor \in Nat
  BY <1>3, <1>4
<1>8. ToldInv'
  BY <1>0, <1>7 DEF ToldInv
<1>9. ASSUME NEW b \in answers', b.kind = "get", b.whole, ~b.undone PROVE Fresh(b)'
  <2>1. CASE b = a
    <3>1. Fresh(a)
      BY <1>4, <1>6, <1>9, <2>1
    <3> QED BY <1>5, <1>7, <2>1, <3>1, FreshStays
  <2>2. CASE b \in answers
    <3>1. b.floor \in Nat /\ Fresh(b)
      BY <1>9, <2>2 DEF ToldInv, GetsAreNotStale
    <3> QED BY <1>5, <3>1, FreshStays
  <2> QED BY <1>0, <1>9, <2>1, <2>2
<1> QED BY <1>8, <1>9 DEF GetsAreNotStale

LEMMA FloorsStep ==
  ASSUME KvInv, KvInv', FloorsInv, [Next]_vars
  PROVE  FloorsInv'
<1>1. CASE UNCHANGED vars
  <2>1. UNCHANGED <<log, view, call, undone>>
    BY <1>1 DEF vars, logVars, trouble
  <2>2. Len(log) <= Len(log') /\ Len(log)' \in Nat
    BY <2>1, TypesFacts DEF KvInv
  <2> QED BY <2>1, <2>2, LogFloors
<1>2. ASSUME NEW w \in Workload, Begin(w[1], w[2], w[3]) PROVE FloorsInv'
  <2>1. w[1] \in Call /\ w[2] \in Replica /\ w[3] \in Request
    BY WorkloadAssumption
  <2> QED BY <1>2, <2>1, BeginFloors
<1>3. ASSUME NEW c \in Call, Progress(c) PROVE FloorsInv'
  <2>1. CASE ApplyRefused(c)
    <3>1. Fail(c) /\ UNCHANGED <<log, view, undone>>
      BY <2>1 DEF ApplyRefused, logVars, trouble
    <3> QED BY <3>1, FailFloors
  <2> QED BY <1>3, <2>1, AppendAnsweredFloors, TailAnsweredFloors, TakeLockFloors, ReadNextFloors,
          ApplyFloors, ApplyCommitsFloors, GetAnsweredFloors, ExportedFloors, InstalledFloors DEF Progress
<1>4. ASSUME NEW c \in Call, Raise(c) PROVE FloorsInv'
  BY <1>4, RaiseFloors
<1>5. ASSUME NEW r \in Replica, Restart(r) PROVE FloorsInv'
  BY <1>5, RestartFloors
<1>6. ASSUME NEW command \in asked, Adds(command) PROVE FloorsInv'
  <2>1. LogGrows /\ UNCHANGED <<view, call, undone>>
    BY <1>6, AddsGrows
  <2> QED BY <2>1, LogFloors DEF LogGrows
<1>7. ASSUME NEW n \in 1..MaxTrim, Trims(n) PROVE FloorsInv'
  <2>1. UNCHANGED <<log, view, call, undone>>
    BY <1>7 DEF Trims, trouble
  <2>2. Len(log) <= Len(log') /\ Len(log)' \in Nat
    BY <2>1, TypesFacts DEF KvInv
  <2> QED BY <2>1, <2>2, LogFloors
<1> QED BY <1>1, <1>2, <1>3, <1>4, <1>5, <1>6, <1>7 DEF Next
-----------------------------------------------------------------------------
(* Types, and the theorems of both.                                        *)

\* The counters stay in their bounds.
LEMMA CountsStep ==
  ASSUME KvInv, CountsInv, [Next]_vars
  PROVE  CountsInv'
<1>1. /\ trimmed \in Nat /\ trimmed <= Len(log) /\ failures \in Nat /\ failures <= MaxFailures
      /\ LogGrows /\ MaxFailures \in Nat
  BY NextGrows, BoundAssumption DEF CountsInv
<1>2. UNCHANGED <<trimmed, failures>> => CountsInv'
  BY <1>1 DEF CountsInv, LogGrows
<1>3. ASSUME NEW c \in Call, Progress(c) PROVE UNCHANGED <<trimmed, failures>>
  BY <1>3 DEF Progress, AppendAnswered, TailAnswered, TakeLock, ReadNext, ApplyBegins, ApplyRefused,
     ApplyWrites, ApplyCommits, GetAnswered, Exported, Installed, logVars, trouble
<1>4. ASSUME NEW w \in Workload, Begin(w[1], w[2], w[3]) PROVE UNCHANGED <<trimmed, failures>>
  BY <1>4 DEF Begin, trouble
<1>5. ASSUME failures < MaxFailures, failures' = failures + 1, UNCHANGED trimmed PROVE CountsInv'
  BY <1>1, <1>5 DEF CountsInv, LogGrows
<1>6. ASSUME NEW c \in Call, Raise(c) PROVE CountsInv'
  BY <1>5, <1>6 DEF Raise, logVars
<1>7. ASSUME NEW r \in Replica, Restart(r) PROVE CountsInv'
  BY <1>5, <1>7 DEF Restart, logVars
<1>8. ASSUME NEW command \in asked, Adds(command) PROVE UNCHANGED <<trimmed, failures>>
  BY <1>8, AddsGrows
<1>9. ASSUME NEW n \in 1..MaxTrim, Trims(n) PROVE CountsInv'
  BY <1>1, <1>9, BoundAssumption DEF Trims, CountsInv, trouble
<1>10. UNCHANGED vars => UNCHANGED <<trimmed, failures>>
  BY DEF vars, logVars, trouble
<1> QED BY <1>2, <1>3, <1>4, <1>6, <1>7, <1>8, <1>9, <1>10 DEF Next

\* Every variable has its type: tables and counters stay in their bounds.
THEOREM TypeCorrect == Spec => []TypeOK
<1>1. Init => CountsInv
  BY BoundAssumption DEF Init, CountsInv
<1>2. KvInv /\ CountsInv /\ [Next]_vars => CountsInv'
  BY CountsStep
<1>3. KvInv /\ CountsInv => TypeOK
  <2> SUFFICES ASSUME KvInv, CountsInv PROVE TypeOK
    OBVIOUS
  <2>1. Types /\ StoresInv /\ Len(log) \in Nat
    BY TypesFacts DEF KvInv
  <2>2. \A i \in DOMAIN log : log[i] \in Envelope
    BY <2>1, TypesFacts
  <2>3. \A r \in Replica : /\ store[r].applied \in -1..(Len(log) - 1) /\ view[r].applied \in -1..(Len(log) - 1)
    BY <2>1, ViewFacts DEF StoresInv, Replayed
  <2>4. \A r \in Replica : store[r].values \in Values /\ view[r].values \in Values /\ store[r].entries \in Entries
    BY <2>1, TypesFacts DEF Tables
  <2>5. \A r \in Replica : \A p \in DOMAIN store[r].entries : store[r].entries[p] \in Outcome
    BY <2>4, EntriesType
  <2> QED BY <2>1, <2>2, <2>3, <2>4, <2>5 DEF TypeOK, Types, CountsInv
<1> QED BY <1>1, <1>2, <1>3, InvariantHolds, PTL DEF Spec

\* A get that is answered from tables that are whole and not rolled back is told a value that is
\* as new as everything acknowledged before it was called.
THEOREM GetsHoldAcks == Spec => []GetsAreNotStale
<1>1. Init => ReadsInv
  <2> SUFFICES ASSUME Init PROVE ReadsInv
    OBVIOUS
  <2>1. \A c \in Call : call[c].pc = "idle"
    BY IdleType DEF Init
  <2> QED BY <2>1 DEF Init, ReadsInv, FloorsInv, Floored, ToldInv, GetsAreNotStale
<1>2. KvInv /\ KvInv' /\ ReadsInv /\ [Next]_vars => ReadsInv'
  <2> SUFFICES ASSUME KvInv, KvInv', ReadsInv, [Next]_vars PROVE ReadsInv'
    OBVIOUS
  <2>1. FloorsInv'
    BY FloorsStep DEF ReadsInv
  <2>2. ToldInv' /\ GetsAreNotStale'
    <3>1. CASE SubmitsTold
      BY <3>1, NextGrows, ReadsStay DEF ReadsInv
    <3>2. CASE \E c \in Call : GetAnswered(c)
      BY <3>2, GetIsFresh DEF ReadsInv
    <3> QED BY <3>1, <3>2, OthersTell
  <2> QED BY <2>1, <2>2 DEF ReadsInv
<1>3. ReadsInv => GetsAreNotStale
  BY DEF ReadsInv
<1> QED BY <1>1, <1>2, <1>3, InvariantHolds, PTL DEF Spec
=============================================================================
