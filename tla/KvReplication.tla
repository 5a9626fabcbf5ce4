---------------------------- MODULE KvReplication ----------------------------
(***************************************************************************)
(* The key-value service: every replica materializes one shared log into   *)
(* its own SQLite store, answers each request once, and a new replica      *)
(* starts from a snapshot of another.  The VirtualLog is here what         *)
(* SharedLogSpec promises; an append whose answer is lost may put its      *)
(* command into the log again, in a later segment.                         *)
(***************************************************************************)
EXTENDS Integers, Sequences, FiniteSets

CONSTANTS
  Replica,      \* the database processes
  Joiner,       \* those that are started with --join-existing-database
  Call,         \* the operations that are ever begun
  Workload,     \* what they may be: <<call, replica, request>>
  RequestId,    \* client_id and request_id
  Key,
  Text,         \* the values that are strings; others are integers
  Absent,       \* no value, no request, no result
  NoCall,       \* nobody holds the lock
  MaxSnapshotAttempts,
  MaxRepeats,   \* bound: the entries that hold a command again
  MaxTrim,      \* bound: how far the log is ever trimmed
  MaxFailures   \* bound: exceptions, cancellations and restarts

ASSUME JoinerAssumption == Joiner \subseteq Replica /\ Replica # {}
ASSUME NoCallAssumption == NoCall \notin Call
ASSUME BoundAssumption == /\ MaxSnapshotAttempts \in Nat \ {0}
                          /\ MaxRepeats \in Nat /\ MaxTrim \in Nat /\ MaxFailures \in Nat
ASSUME TextAssumption == Absent \notin Text /\ Text \cap Int = {} /\ Absent \notin Int

Value == Int \cup Text
Values == [Key -> Value \cup {Absent}]

Operation ==
  [kind : {"put"}, key : Key, value : Value]
    \cup [kind : {"delete"}, key : Key]
    \cup [kind : {"compare_and_set"}, key : Key, expected : Value \cup {Absent}, value : Value]
    \cup [kind : {"increment"}, key : Key, delta : Int]

Envelope == [id : RequestId, operation : Operation]
Result == [code : {"APPLIED", "NOT_FOUND", "CAS_MISMATCH", "TYPE_MISMATCH"}, value : Value \cup {Absent}]
Outcome == [command : Envelope, result : Result]

ASSUME OutcomeAssumption == Absent \notin Outcome

Request ==
  [op : {"submit"}, command : Envelope] \cup [op : {"get"}, key : Key] \cup [op : {"bootstrap"}]

ASSUME WorkloadAssumption == Workload \subseteq Call \X Replica \X Request

VARIABLES
  log,        \* the shared log; position p is log[p + 1]
  trimmed,    \* its positions below this one are removed
  asked,      \* the commands that it was asked to append; any may be late
  states,     \* history: the state that the first n entries make is states[n]
  store,      \* per replica: the committed tables
  view,       \* per replica: the tables as the connection shows them
  lock,       \* per replica: who holds the materializer's lock
  serving,    \* the replicas that answer requests
  call,       \* per call: how far its operation is
  failures,   \* the failures so far
  undone,     \* history: the calls whose replica rolled a transaction back meanwhile
  answers     \* history: what callers were told

logVars == <<log, trimmed, asked, states>>
trouble == <<failures, undone>>
vars == <<logVars, store, view, lock, serving, call, trouble, answers>>
-----------------------------------------------------------------------------
(* The state machine.                                                      *)

Told(code, value) == [code |-> code, value |-> value]
With(values, key, value) == [values |-> [values EXCEPT ![key] = value], result |-> Told("APPLIED", value)]
Same(values, code, value) == [values |-> values, result |-> Told(code, value)]

Applied(values, operation) ==
  LET current == values[operation.key]
  IN
  CASE operation.kind = "put" -> With(values, operation.key, operation.value)
    [] operation.kind = "delete" ->
         IF current = Absent THEN Same(values, "NOT_FOUND", Absent)
         ELSE [values |-> [values EXCEPT ![operation.key] = Absent], result |-> Told("APPLIED", current)]
    [] operation.kind = "compare_and_set" ->
         IF current # operation.expected THEN Same(values, "CAS_MISMATCH", current)
         ELSE With(values, operation.key, operation.value)
    [] operation.kind = "increment" ->
         IF current \in Text THEN Same(values, "TYPE_MISMATCH", current)
         ELSE With(values, operation.key, operation.delta + (IF current = Absent THEN 0 ELSE current))

Pristine ==
  [applied |-> -1, values |-> [k \in Key |-> Absent],
   requests |-> [i \in RequestId |-> Absent], entries |-> <<>>]

Conflicts(state, command) ==
  state.requests[command.id] # Absent /\ state.requests[command.id].command # command

\* Faulty: progress is the next position, not the one applied.
WithNextEntry(state, p, outcome) ==
  [state EXCEPT !.applied = p + 1,
                !.entries = [q \in DOMAIN state.entries \cup {p} |->
                               IF q = p THEN outcome ELSE state.entries[q]]]

\* The tables with a row of kv_applied_entries more.
WithEntry(state, p, outcome) ==
  [state EXCEPT !.applied = p,
                !.entries = [q \in DOMAIN state.entries \cup {p} |->
                               IF q = p THEN outcome ELSE state.entries[q]]]

\* What a new request makes of them.
Executed(state, p, command) ==
  LET done == Applied(state.values, command.operation)
      outcome == [command |-> command, result |-> done.result]
  IN  WithEntry([state EXCEPT !.values = done.values, !.requests[command.id] = outcome], p, outcome)

\* No entry was skipped.
Whole(state) == DOMAIN state.entries = 0..state.applied

Idle == [pc |-> "idle", home |-> CHOOSE r \in Replica : TRUE, at |-> CHOOSE r \in Replica : TRUE,
         request |-> [op |-> "none"], target |-> -1, position |-> 0, attempt |-> 0,
         snapshot |-> Pristine, floor |-> 0]

Init ==
  /\ log = <<>>
  /\ trimmed = 0
  /\ asked = {}
  /\ states = [n \in {0} |-> Pristine]
  /\ store = [r \in Replica |-> Pristine]
  /\ view = store
  /\ lock = [r \in Replica |-> NoCall]
  /\ serving = Replica \ Joiner
  /\ call = [c \in Call |-> Idle]
  /\ failures = 0
  /\ undone = {}
  /\ answers = {}
-----------------------------------------------------------------------------
(* The log.                                                                *)

\* The state that one entry more makes: a request counts once, and one that conflicts stops.
After(state, p, command) ==
  IF Conflicts(state, command) THEN state
  ELSE IF state.requests[command.id] # Absent THEN WithEntry(state, p, state.requests[command.id])
  ELSE Executed(state, p, command)

InLog(command) == \E i \in DOMAIN log : log[i] = command

Adds(command) ==
  /\ command \in asked /\ (InLog(command) => Len(log) - Cardinality({e \in asked : InLog(e)}) < MaxRepeats)
  /\ log' = Append(log, command)
  /\ states' = [n \in 0..(Len(log) + 1) |->
                  IF n <= Len(log) THEN states[n] ELSE After(states[Len(log)], Len(log), command)]
  /\ UNCHANGED <<trimmed, asked, store, view, lock, serving, call, trouble, answers>>

\* prefix_trim, by whoever operates the log.
Trims(n) ==
  /\ n > trimmed /\ n <= Len(log)
  /\ trimmed' = n
  /\ UNCHANGED <<log, asked, states, store, view, lock, serving, call, trouble, answers>>
-----------------------------------------------------------------------------
(* How an operation moves on.                                              *)

Running(c) == call[c].pc \notin {"idle", "done", "failed"}
At(c) == call[c].at

Step(c, state) == call' = [call EXCEPT ![c] = state]

\* The materializer's lock is released however the call leaves it.
Unlocked(c) == lock' = [lock EXCEPT ![At(c)] = IF @ = c THEN NoCall ELSE @]

Over(c, pc) == [Idle EXCEPT !.pc = pc, !.home = call[c].home, !.at = call[c].home,
                            !.request = call[c].request]

Finish(c, told) ==
  /\ Step(c, Over(c, "done"))
  /\ answers' = answers \cup told

Fail(c) ==
  /\ Step(c, Over(c, "failed"))
  /\ UNCHANGED answers

\* What SQLite shows outside of a transaction.
InTransaction(r) == \E c \in Call : At(c) = r /\ call[c].pc \in {"cleared", "recorded"}
Emptied(r) == \E c \in Call : At(c) = r /\ call[c].pc = "cleared"
RolledBack(r) == view' = [view EXCEPT ![r] = store[r]]

\* The calls that work at a replica whose transaction is rolled back.
Disturbed(replicas) == {c \in Call : Running(c) /\ At(c) \in replicas}

\* The entries that hold every command whose caller has its result.
AckedEntries ==
  LET holding == {n \in 0..Len(log) : \A a \in {b \in answers : b.kind = "submit"} :
                                        states[n].requests[a.command.id] # Absent}
  IN  IF holding = {} THEN 0 ELSE CHOOSE n \in holding : \A m \in holding : n <= m

NewCall(r, request) ==
  [Idle EXCEPT !.home = r, !.at = r, !.request = request, !.floor = AckedEntries]

\* Faulty: answers with the earlier result whatever the body is.
BeginSubmitUnchecked(c, r, request) ==
  LET command == request.command
      prior == view[r].requests[command.id]
  IN
  /\ request.op = "submit" /\ r \in serving
  /\ \/ /\ prior = Absent
        /\ Step(c, [NewCall(r, request) EXCEPT !.pc = "append"])
        /\ asked' = asked \cup {command}
        /\ UNCHANGED answers
     \/ /\ prior # Absent
        /\ Step(c, [NewCall(r, request) EXCEPT !.pc = "done"])
        /\ answers' = answers \cup {[kind |-> "submit", command |-> command, result |-> prior.result,
                                         whole |-> Whole(view[r])]}
        /\ UNCHANGED asked

\* submit: a request that has its result here is not appended.
BeginSubmit(c, r, request) ==
  LET command == request.command
      prior == view[r].requests[command.id]
  IN
  /\ request.op = "submit" /\ r \in serving
  /\ \/ /\ prior = Absent
        /\ Step(c, [NewCall(r, request) EXCEPT !.pc = "append"])
        /\ asked' = asked \cup {command}
        /\ UNCHANGED answers
     \/ /\ prior # Absent /\ prior.command = command
        /\ Step(c, [NewCall(r, request) EXCEPT !.pc = "done"])
        /\ answers' = answers \cup {[kind |-> "submit", command |-> command, result |-> prior.result,
                                         whole |-> Whole(view[r])]}
        /\ UNCHANGED asked
     \/ /\ prior # Absent /\ prior.command # command
        /\ Step(c, [NewCall(r, request) EXCEPT !.pc = "failed"])
        /\ UNCHANGED <<asked, answers>>

\* get: sync comes first.
BeginGet(c, r, request) ==
  /\ request.op = "get" /\ r \in serving
  /\ Step(c, [NewCall(r, request) EXCEPT !.pc = "tail"])
  /\ UNCHANGED <<asked, answers>>

\* run, once in a process and before it serves: a store with nothing in it starts from a snapshot,
\* which its source takes after a sync.
BeginBootstrap(c, r, request) ==
  /\ request.op = "bootstrap" /\ r \notin serving
  /\ \A d \in Call : Running(d) => call[d].home # r
  /\ \E s \in serving :
       Step(c, [NewCall(r, request) EXCEPT !.pc = "tail", !.at = IF store[r].applied < 0 THEN s ELSE r])
  /\ UNCHANGED <<asked, answers>>

Begin(c, r, request) ==
  /\ call[c].pc = "idle"
  /\ BeginSubmit(c, r, request) \/ BeginGet(c, r, request) \/ BeginBootstrap(c, r, request)
  /\ UNCHANGED <<log, trimmed, states, store, view, lock, serving, trouble>>

\* At an await: the log is not available, the caller is cancelled.
Raise(c) ==
  /\ Running(c) /\ failures < MaxFailures
  /\ failures' = failures + 1
  /\ Fail(c)
  /\ Unlocked(c)
  /\ IF call[c].pc \in {"cleared", "recorded"}
       THEN RolledBack(At(c)) /\ undone' = undone \cup Disturbed({At(c)})
       ELSE UNCHANGED <<view, undone>>
  /\ UNCHANGED <<logVars, store, serving>>

\* The process stops and starts again: what is committed is left.  Requests to it fail; so does
\* what it had asked of another replica, which may as well have happened before.
Restart(r) ==
  LET lost == {c \in Call : Running(c) /\ r \in {At(c), call[c].home}}
      released == {q \in Replica : lock[q] \in lost}
  IN
  /\ failures < MaxFailures
  /\ failures' = failures + 1
  /\ view' = [q \in Replica |-> IF q \in released \cup {r} THEN store[q] ELSE view[q]]
  /\ undone' = undone \cup Disturbed({q \in released : InTransaction(q)})
  /\ lock' = [q \in Replica |-> IF q \in released THEN NoCall ELSE lock[q]]
  /\ serving' = serving \ (Joiner \cap {r})
  /\ call' = [c \in Call |-> IF c \in lost THEN Over(c, "failed") ELSE call[c]]
  /\ UNCHANGED <<logVars, store, answers>>
-----------------------------------------------------------------------------
(* sync and materialize_through.                                           *)

AppendAnswered(c) ==
  /\ call[c].pc = "append"
  /\ \E i \in DOMAIN log :
       /\ log[i] = call[c].request.command
       /\ Step(c, [call[c] EXCEPT !.pc = "wait", !.target = i - 1])
  /\ UNCHANGED <<logVars, store, view, lock, serving, trouble, answers>>

\* Where a call goes once its replica has materialized its target.
Materialized(c, state, result) ==
  CASE state.request.op = "submit" ->
         Finish(c, {[kind |-> "submit", command |-> state.request.command, result |-> result,
                     whole |-> Whole(view[At(c)])]})
         /\ UNCHANGED serving
    [] state.request.op = "get" -> Step(c, [state EXCEPT !.pc = "get"]) /\ UNCHANGED <<answers, serving>>
    [] state.request.op = "bootstrap" /\ state.at # state.home ->
         Step(c, [state EXCEPT !.pc = "export"]) /\ UNCHANGED <<answers, serving>>
    [] state.request.op = "bootstrap" /\ state.at = state.home ->
         Finish(c, {}) /\ serving' = serving \cup {state.home}

\* Faulty: takes the last position for the first unwritten one.
TailAnsweredShort(c) ==
  /\ call[c].pc = "tail"
  /\ IF Len(log) - 2 > view[At(c)].applied
       THEN /\ Step(c, [call[c] EXCEPT !.pc = "wait", !.target = Len(log) - 2])
            /\ UNCHANGED <<answers, serving>>
       ELSE Materialized(c, call[c], Absent)
  /\ UNCHANGED <<logVars, store, view, lock, trouble>>

\* sync: the tail, and whether the store is behind it.
TailAnswered(c) ==
  /\ call[c].pc = "tail"
  /\ IF Len(log) - 1 > view[At(c)].applied
       THEN /\ Step(c, [call[c] EXCEPT !.pc = "wait", !.target = Len(log) - 1])
            /\ UNCHANGED <<answers, serving>>
       ELSE Materialized(c, call[c], Absent)
  /\ UNCHANGED <<logVars, store, view, lock, trouble>>

\* SyncRequired: a replica that bootstraps starts over with a newer snapshot.
SyncRequired(c) ==
  IF call[c].request.op = "bootstrap" /\ At(c) = call[c].home /\ call[c].attempt + 1 < MaxSnapshotAttempts
    THEN /\ \E s \in serving :
              Step(c, [call[c] EXCEPT !.pc = "tail", !.at = s, !.attempt = @ + 1])
         /\ UNCHANGED answers
    ELSE Fail(c)

\* With the materializer's lock: a position that is applied has its result in the store.
TakeLock(c) ==
  /\ call[c].pc = "wait" /\ lock[At(c)] = NoCall
  /\ LET entries == view[At(c)].entries
     IN  IF call[c].target > view[At(c)].applied
           THEN /\ lock' = [lock EXCEPT ![At(c)] = c]
                /\ Step(c, [call[c] EXCEPT !.pc = "read", !.position = view[At(c)].applied + 1])
                /\ UNCHANGED <<answers, serving>>
           ELSE /\ IF call[c].target \in DOMAIN entries
                     THEN Materialized(c, call[c], entries[call[c].target].result)
                     ELSE SyncRequired(c) /\ UNCHANGED serving
                /\ UNCHANGED lock
  /\ UNCHANGED <<logVars, store, view, trouble>>

\* read_next: the first entry that is left in the range.
ReadNext(c) ==
  LET left == {p \in call[c].position..call[c].target : p >= trimmed}
  IN
  /\ call[c].pc = "read"
  /\ IF left = {}
       THEN /\ SyncRequired(c)
            /\ Unlocked(c)
       ELSE /\ Step(c, [call[c] EXCEPT !.pc = "apply", !.position = CHOOSE p \in left : \A q \in left : p <= q])
            /\ UNCHANGED <<lock, answers>>
  /\ UNCHANGED <<logVars, store, view, serving, trouble>>
-----------------------------------------------------------------------------
(* SQLiteKvStore.apply: the transaction, as other coroutines on the same connection see it. *)

CommandOf(c) == log[call[c].position + 1]

\* Faulty: forgets to look for an earlier result.
ApplyFresh(c) ==
  /\ call[c].pc = "apply"
  /\ view' = [view EXCEPT ![At(c)].values = Pristine.values]
  /\ Step(c, [call[c] EXCEPT !.pc = "cleared"])
  /\ UNCHANGED <<logVars, store, lock, serving, trouble, answers>>

\* A request that has a result keeps it; a new one first empties kv_items.
ApplyBegins(c) ==
  LET prior == store[At(c)].requests[CommandOf(c).id]
  IN
  /\ call[c].pc = "apply" /\ ~Conflicts(store[At(c)], CommandOf(c))
  /\ IF prior = Absent
       THEN /\ view' = [view EXCEPT ![At(c)].values = Pristine.values]
            /\ Step(c, [call[c] EXCEPT !.pc = "cleared"])
       ELSE /\ view' = [view EXCEPT ![At(c)] = WithEntry(store[At(c)], call[c].position, prior)]
            /\ Step(c, [call[c] EXCEPT !.pc = "recorded"])
  /\ UNCHANGED <<logVars, store, lock, serving, trouble, answers>>

\* Faulty: an error leaves the lock held.
RefusedKeepingLock(c) ==
  /\ call[c].pc = "apply" /\ Conflicts(store[At(c)], CommandOf(c))
  /\ Fail(c)
  /\ UNCHANGED <<logVars, store, view, lock, serving, trouble>>

\* RequestConflict: the entry is not applied, by nobody and never.
ApplyRefused(c) ==
  /\ call[c].pc = "apply" /\ Conflicts(store[At(c)], CommandOf(c))
  /\ Fail(c)
  /\ Unlocked(c)
  /\ UNCHANGED <<logVars, store, view, serving, trouble>>

ApplyWrites(c) ==
  /\ call[c].pc = "cleared"
  /\ view' = [view EXCEPT ![At(c)] = Executed(store[At(c)], call[c].position, CommandOf(c))]
  /\ Step(c, [call[c] EXCEPT !.pc = "recorded"])
  /\ UNCHANGED <<logVars, store, lock, serving, trouble, answers>>

\* commit, and on to the next position.
ApplyCommits(c) ==
  LET p == call[c].position
  IN
  /\ call[c].pc = "recorded"
  /\ store' = [store EXCEPT ![At(c)] = view[At(c)]]
  /\ IF p < call[c].target
       THEN /\ Step(c, [call[c] EXCEPT !.pc = "read", !.position = p + 1])
            /\ UNCHANGED <<lock, answers, serving>>
       ELSE /\ Materialized(c, call[c], view[At(c)].entries[p].result)
            /\ Unlocked(c)
  /\ UNCHANGED <<logVars, view, trouble>>
-----------------------------------------------------------------------------
(* What follows a sync.                                                    *)

GetAnswered(c) ==
  /\ call[c].pc = "get"
  /\ Finish(c, {[kind |-> "get", key |-> call[c].request.key, floor |-> call[c].floor,
                 value |-> view[At(c)].values[call[c].request.key],
                 whole |-> Whole(view[At(c)]) /\ ~Emptied(At(c)), undone |-> c \in undone]})
  /\ UNCHANGED <<logVars, store, view, lock, serving, trouble>>

\* export_snapshot, with the store's lock.
Exported(c) ==
  /\ call[c].pc = "export" /\ ~InTransaction(At(c))
  /\ Step(c, [call[c] EXCEPT !.pc = "install", !.at = call[c].home, !.snapshot = store[At(c)]])
  /\ UNCHANGED <<logVars, store, view, lock, serving, trouble, answers>>

\* install_snapshot, replace_bootstrap_snapshot: one transaction, and then sync here.
Installed(c) ==
  /\ call[c].pc = "install"
  /\ store' = [store EXCEPT ![At(c)] = call[c].snapshot]
  /\ view' = [view EXCEPT ![At(c)] = call[c].snapshot]
  /\ Step(c, [call[c] EXCEPT !.pc = "tail", !.snapshot = Pristine])
  /\ UNCHANGED <<logVars, lock, serving, trouble, answers>>
-----------------------------------------------------------------------------
Progress(c) ==
  \/ AppendAnswered(c) \/ TailAnswered(c) \/ TakeLock(c) \/ ReadNext(c)
  \/ ApplyBegins(c) \/ ApplyRefused(c) \/ ApplyWrites(c) \/ ApplyCommits(c)
  \/ GetAnswered(c) \/ Exported(c) \/ Installed(c)

Next ==
  \/ \E w \in Workload : Begin(w[1], w[2], w[3])
  \/ \E c \in Call : Progress(c) \/ Raise(c)
  \/ \E r \in Replica : Restart(r)
  \/ \E command \in asked : Adds(command)
  \/ \E n \in 1..MaxTrim : Trims(n)

Spec == Init /\ [][Next]_vars

\* An append that is asked for happens, and what awaits is answered; see the README.
FairSpec ==
  /\ Spec
  /\ \A c \in Call : WF_vars(Progress(c))
  /\ WF_vars(\E command \in asked : ~InLog(command) /\ Adds(command))
-----------------------------------------------------------------------------
(* Types.                                                                  *)

Entries == UNION {[P -> Outcome] : P \in SUBSET Nat}
Tables ==
  [applied : Int, values : Values, requests : [RequestId -> Outcome \cup {Absent}],
   entries : Entries]

TypeOK ==
  /\ \A i \in DOMAIN log : log[i] \in Envelope
  /\ trimmed \in 0..Len(log)
  /\ \A r \in Replica : store[r].applied \in -1..(Len(log) - 1) /\ view[r].applied \in -1..(Len(log) - 1)
  /\ \A r \in Replica : store[r].values \in Values /\ view[r].values \in Values
  /\ \A r \in Replica : \A p \in DOMAIN store[r].entries : store[r].entries[p] \in Outcome
  /\ lock \in [Replica -> Call \cup {NoCall}]
  /\ serving \subseteq Replica
  /\ failures \in 0..MaxFailures
-----------------------------------------------------------------------------
(* Properties.                                                             *)

\* Replicas that skipped no entry are the same at the same position, whatever was repeated,
\* restarted, rolled back or taken from a snapshot: each request counts once, in log order.
StoresReplayLog ==
  \A r \in Replica : Whole(store[r]) => store[r] = states[store[r].applied + 1]

\* Whoever is told a result is told what the log's first entry of the request gives, at every
\* replica and however often the request is sent.
AnswersComeFromLog ==
  \A a \in {b \in answers : b.kind = "submit" /\ b.whole} :
    \E n \in DOMAIN states : states[n].requests[a.command.id] = [command |-> a.command, result |-> a.result]

Fresh(a) == \E n \in a.floor..Len(log) : states[n].values[a.key] = a.value

\* Unless a transaction has just emptied the table, or one that the get saw is rolled back, get tells
\* a value that the key has in a state that holds all that was acknowledged before it was called.
GetsAreNotStale ==
  \A a \in {b \in answers : b.kind = "get" /\ b.whole /\ ~b.undone} : Fresh(a)

\* The same, always.
GetsAreFresh ==
  \A a \in {b \in answers : b.kind = "get"} : Fresh(a)

\* A replica whose needed entries are trimmed takes a newer snapshot, it never skips them.
NothingSkipped == \A r \in Replica : Whole(store[r])

\* Every call ends, also when others wait for the same locks and entries are refused.
CallsEnd == <>[](\A c \in Call : ~Running(c))
=============================================================================
