------------------------ MODULE VirtualLogAnswerProofs ------------------------
(***************************************************************************)
(* Proofs about what the clients of VirtualLog are told, by three          *)
(* inductive invariants that rest on ChainsInv.  AnswersInv: acknowledged  *)
(* commands stay readable, and tails cover them.  MembersInv: nodes that   *)
(* joined stay.  SharedInv: the segments implement SharedLogSpec.          *)
(***************************************************************************)
EXTENDS VirtualLogProofs

-----------------------------------------------------------------------------
(* What a step of a call keeps, helper by helper.                          *)

LEMMA StartsAnswers == Init => AnswersInv
<1> SUFFICES ASSUME Init PROVE AnswersInv
  OBVIOUS
<1>1. \A c \in Call : call[c].pc = "idle" /\ call[c].floor = 0
  BY IdleType DEF Init
<1>2. DOMAIN history = {} /\ msgs = {} /\ answers = {} /\ \A id \in Segment : trimmed[id] = 0
  BY DEF Init
<1> QED BY <1>1, <1>2 DEF AnswersInv, HeadsInv, TrimsInv, FloorsInv, TailsCoverAcks

\* A prefix_trim that began stays one that began.
LEMMA WantedGrows ==
  ASSUME Types, NEW c \in Call, NEW x, call' = [call EXCEPT ![c] = x],
         x.pc # "idle", call[c].pc = "idle" \/ x.request = call[c].request
  PROVE  /\ Trims \subseteq Trims'
         /\ \A p : Wanted(p) => Wanted(p)'
<1>1. Trims \subseteq Trims'
  <2> SUFFICES ASSUME NEW d \in Call, call[d].pc # "idle", call[d].request.op = "trim"
               PROVE  \E e \in Call : /\ call'[e].pc # "idle" /\ call'[e].request.op = "trim"
                                      /\ call'[e].request.position = call[d].request.position
    BY DEF Trims
  <2>1. call'[d].pc # "idle" /\ call'[d].request = call[d].request
    BY DEF Types
  <2> QED BY <2>1
<1>2. \A p : Wanted(p) => Wanted(p)'
  BY <1>1 DEF Wanted
<1> QED BY <1>1, <1>2

\* What callers are told of the tail covers what was acknowledged.
TailsTrue == \A a \in answers' : a \in answers \/ a.kind # "tail" \/ a.sealed \/ a.position >= a.floor

LEMMA StepKeepsAnswers ==
  ASSUME ChainsInv, AnswersInv, TailsTrue, UNCHANGED <<history, loglets>>,
         NEW c \in Call, NEW x, NEW requests,
         call' = [call EXCEPT ![c] = x], msgs' = msgs \cup requests,
         x.pc # "idle", call[c].pc = "idle" \/ x.request = call[c].request,
         x.pc = "drop" => /\ Len(x.snapshot.chain) > 1
                          /\ First(x.snapshot.chain).stop <= x.request.position,
         x.floor = 0 \/ \E s \in Installed : x.floor <= End(s),
         \A m \in requests : m.type = "install" => Wanted(First(m.chain).start),
         \A m \in requests : m.type = "trim" => WantedOf(m.segment, m.target)
  PROVE  AnswersInv'
<1>1. Types /\ call \in [Call -> CallRecord]
  BY DEF ChainsInv, Types
<1>2. UNCHANGED <<history, log, sealed, trimmed>> /\ Installed' = Installed
  BY DEF loglets, Installed
<1>3. \A p : Wanted(p) => Wanted(p)'
  BY <1>1, WantedGrows
<1>4. \A id, n : WantedOf(id, n) => WantedOf(id, n)'
  BY <1>2, <1>3 DEF WantedOf
<1>5. \A d \in Call : call'[d] = IF d = c THEN x ELSE call[d]
  BY <1>1
<1>6. HeadsInv'
  <2>1. \A v \in DOMAIN history : Wanted(First(history[v]).start)
    BY DEF AnswersInv, HeadsInv
  <2>2. (\A v \in DOMAIN history : Wanted(First(history[v]).start))'
    <3> SUFFICES ASSUME NEW v \in DOMAIN history PROVE Wanted(First(history[v]).start)'
      BY <1>2
    <3>1. PICK p : p = First(history[v]).start
      OBVIOUS
    <3>2. Wanted(p)'
      BY <1>3, <2>1, <3>1
    <3> QED BY <1>2, <3>1, <3>2 DEF First
  <2>3. \A m \in msgs' : m.type = "install" => Wanted(First(m.chain).start)
    BY DEF AnswersInv, HeadsInv
  <2>4. \A m \in msgs' : m.type = "install" => Wanted(First(m.chain).start)'
    BY <1>3, <2>3 DEF First
  <2>5. \A d \in Call : call'[d].pc = "drop" =>
          /\ Len(call'[d].snapshot.chain) > 1
          /\ First(call'[d].snapshot.chain).stop <= call'[d].request.position
    BY <1>5 DEF AnswersInv, HeadsInv
  <2> QED BY <2>2, <2>4, <2>5 DEF HeadsInv, First
<1>7. TrimsInv'
  <2>1. \A m \in msgs' : m.type = "trim" => WantedOf(m.segment, m.target)
    BY DEF AnswersInv, TrimsInv
  <2>2. \A m \in msgs' : m.type = "trim" => WantedOf(m.segment, m.target)'
    BY <1>4, <2>1
  <2>3. (\A id \in Segment : trimmed[id] > 0 => WantedOf(id, trimmed[id]))'
    <3> SUFFICES ASSUME NEW id \in Segment, trimmed[id] > 0 PROVE WantedOf(id, trimmed[id])'
      BY <1>2
    <3>1. PICK n : n = trimmed[id]
      OBVIOUS
    <3>2. WantedOf(id, n)'
      BY <1>4, <3>1 DEF AnswersInv, TrimsInv
    <3> QED BY <1>2, <3>1, <3>2
  <2> QED BY <2>2, <2>3 DEF TrimsInv
<1>8. FloorsInv'
  BY <1>2, <1>5 DEF AnswersInv, FloorsInv, End
<1>9. TailsCoverAcks'
  BY DEF TailsTrue, AnswersInv, TailsCoverAcks
<1> QED BY <1>6, <1>7, <1>8, <1>9 DEF AnswersInv

\* A step that sends nothing, or nothing that matters here.
LEMMA QuietKeepsAnswers ==
  ASSUME ChainsInv, AnswersInv, TailsTrue, UNCHANGED <<history, loglets>>,
         NEW c \in Call, NEW x, NEW requests,
         call' = [call EXCEPT ![c] = x], msgs' = msgs \cup requests,
         x.pc \notin {"idle", "drop"}, call[c].pc = "idle" \/ x.request = call[c].request,
         x.floor = 0 \/ \E s \in Installed : x.floor <= End(s),
         \A m \in requests : m.type \notin {"install", "trim"}
  PROVE  AnswersInv'
<1>1. \A m \in requests : m.type = "install" => Wanted(First(m.chain).start)
  OBVIOUS
<1>2. \A m \in requests : m.type = "trim" => WantedOf(m.segment, m.target)
  OBVIOUS
<1>3. x.pc = "drop" => Len(x.snapshot.chain) > 1 /\ First(x.snapshot.chain).stop <= x.request.position
  OBVIOUS
<1>4. x.pc # "idle"
  OBVIOUS
<1> QED BY <1>1, <1>2, <1>3, <1>4, StepKeepsAnswers

LEMMA SilentTails == answers' = answers => TailsTrue
BY DEF TailsTrue

\* The call that a step starts from.
LEMMA FloorKept ==
  ASSUME AnswersInv, NEW c \in Call
  PROVE  call[c].floor = 0 \/ \E s \in Installed : call[c].floor <= End(s)
BY DEF AnswersInv, FloorsInv

LEMMA EndKeepsAnswers ==
  ASSUME ChainsInv, AnswersInv, TailsTrue, UNCHANGED <<history, loglets>>, NEW c \in Call,
         NEW p \in {"done", "failed"},
         call' = [call EXCEPT ![c] = [Idle EXCEPT !.pc = p, !.client = call[c].client,
                                                  !.request = call[c].request]],
         msgs' = msgs
  PROVE  AnswersInv'
<1> DEFINE x == [Idle EXCEPT !.pc = p, !.client = call[c].client, !.request = call[c].request]
           requests == {}
<1>1. call[c] \in CallRecord
  BY DEF ChainsInv, Types
<1>2. Begun(CallRecord, x, p, call[c].client, call[c].request, Uninstalled, "none", 0)
  BY <1>1, EndedType
<1>3. call' = [call EXCEPT ![c] = x] /\ msgs' = msgs \cup requests
  OBVIOUS
<1>4. \A m \in requests : m.type \notin {"install", "trim"}
  OBVIOUS
<1> HIDE DEF x, requests
<1>5. x.pc \notin {"idle", "drop"} /\ x.request = call[c].request /\ x.floor = 0
  BY <1>2 DEF Begun
<1> QED BY <1>3, <1>4, <1>5, QuietKeepsAnswers

LEMMA FinishKeepsAnswers ==
  ASSUME ChainsInv, AnswersInv, UNCHANGED <<history, loglets>>, NEW c \in Call, NEW told,
         \A a \in told : a.kind = "tail" => a.sealed \/ a.position >= a.floor,
         Finish(c, told)
  PROVE  AnswersInv'
<1>1. TailsTrue
  BY DEF TailsTrue, Finish
<1> QED BY <1>1, EndKeepsAnswers DEF Finish

LEMMA FailKeepsAnswers ==
  ASSUME ChainsInv, AnswersInv, UNCHANGED <<history, loglets>>, NEW c \in Call, Fail(c)
  PROVE  AnswersInv'
BY SilentTails, EndKeepsAnswers DEF Fail

\* A call goes on from state.
Continues(c, state) ==
  /\ call[c].pc = "idle" \/ state.request = call[c].request
  /\ state.floor = 0 \/ \E s \in Installed : state.floor <= End(s)

LEMMA TryKeepsAnswers ==
  ASSUME ChainsInv, AnswersInv, UNCHANGED <<history, loglets>>, NEW c \in Call,
         NEW state \in CallRecord, Continues(c, state), NEW z \in ClientSnapshot, Try(c, state, z)
  PROVE  AnswersInv'
<1>1. TailsTrue
  BY SilentTails DEF Try
<1>2. ASSUME NEW p \in {"append", "tail"}, NEW requests,
             \A m \in requests : m.type \notin {"install", "trim"},
             Await(c, [state EXCEPT !.pc = p, !.snapshot = z, !.why = "none"], requests)
      PROVE  AnswersInv'
  <2> DEFINE x == [state EXCEPT !.pc = p, !.snapshot = z, !.why = "none"]
  <2>1. p \in Phases /\ "none" \in Causes
    BY DEF Phases, Causes
  <2>2. Advances(CallRecord, x, state, p, z, "none")
    BY <2>1, Advancing
  <2>3. call' = [call EXCEPT ![c] = x] /\ msgs' = msgs \cup requests
    BY <1>2 DEF Await
  <2> HIDE DEF x
  <2>4. x.pc \notin {"idle", "drop"} /\ x.request = state.request /\ x.floor = state.floor
    BY <2>2 DEF Advances
  <2> QED BY <1>1, <1>2, <2>3, <2>4, QuietKeepsAnswers DEF Continues
<1>3. CASE state.request.op = "append"
  <2>1. AppendTo(Active(z.chain).id, state.request.command).type \notin {"install", "trim"}
    BY DEF AppendTo
  <2> QED BY <1>2, <1>3, <2>1 DEF Try
<1>4. CASE state.request.op # "append"
  BY <1>2, <1>4 DEF Try
<1> QED BY <1>3, <1>4

LEMMA RetryKeepsAnswers ==
  ASSUME ChainsInv, AnswersInv, UNCHANGED <<history, loglets>>, NEW c \in Call,
         NEW z \in ClientSnapshot, Retry(c, z)
  PROVE  AnswersInv'
<1> DEFINE state == [call[c] EXCEPT !.attempt = @ + 1]
<1>1. call[c] \in CallRecord
  BY DEF ChainsInv, Types
<1>2. call[c].attempt + 1 \in Nat
  BY <1>1 DEF CallRecord
<1>3. Advances(CallRecord, state, call[c], call[c].pc, call[c].snapshot, call[c].why)
  BY <1>1, <1>2, Advancing
<1>4. Try(c, state, z)
  BY DEF Retry
<1> HIDE DEF state
<1>5. state \in CallRecord /\ Continues(c, state)
  BY <1>3, FloorKept DEF Advances, Continues
<1> QED BY <1>4, <1>5, TryKeepsAnswers

LEMMA ExtendKeepsAnswers ==
  ASSUME ChainsInv, AnswersInv, UNCHANGED <<history, loglets>>, NEW c \in Call,
         NEW state \in CallRecord, Continues(c, state), NEW z \in ClientSnapshot, NEW config \in Config,
         Extend(c, state, z, config)
  PROVE  AnswersInv'
<1> DEFINE x == [state EXCEPT !.pc = "seal", !.snapshot = z, !.config = config]
           requests == {SealOf(Active(z.chain).id)}
<1>1. TailsTrue
  BY SilentTails DEF Extend
<1>2. "seal" \in Phases
  BY DEF Phases
<1>3. Advances(CallRecord, x, state, "seal", z, state.why)
  BY <1>2, Advancing
<1>4. call' = [call EXCEPT ![c] = x] /\ msgs' = msgs \cup requests
  BY DEF Extend, Await
<1>5. \A m \in requests : m.type \notin {"install", "trim"}
  BY DEF SealOf
<1> HIDE DEF x, requests
<1>6. x.pc \notin {"idle", "drop"} /\ x.request = state.request /\ x.floor = state.floor
  BY <1>3 DEF Advances
<1> QED BY <1>1, <1>4, <1>5, <1>6, QuietKeepsAnswers DEF Continues

LEMMA ProposeKeepsAnswers ==
  ASSUME ChainsInv, AnswersInv, UNCHANGED <<history, loglets>>, NEW c \in Call,
         NEW state \in CallRecord, Continues(c, state), NEW z \in ClientSnapshot,
         NEW chain \in Seq(SegmentRecord), Wanted(First(chain).start),
         Propose(c, state, z, chain)
  PROVE  AnswersInv'
<1> DEFINE x == [state EXCEPT !.pc = "install", !.snapshot = z, !.candidate = chain]
           m == InstallOf(z.version, chain)
           requests == {m}
<1>1. TailsTrue
  BY SilentTails DEF Propose
<1>2. "install" \in Phases
  BY DEF Phases
<1>3. Advances(CallRecord, x, state, "install", z, state.why)
  BY <1>2, Advancing
<1>4. call' = [call EXCEPT ![c] = x] /\ msgs' = msgs \cup requests
  BY DEF Propose, Await
<1>5. m.chain = chain /\ m.type = "install"
  BY DEF InstallOf
<1> HIDE DEF x, m
<1>6. /\ \A r \in requests : r.type = "install" => Wanted(First(r.chain).start)
      /\ \A r \in requests : r.type = "trim" => WantedOf(r.segment, r.target)
  BY <1>5
<1> HIDE DEF requests
<1>7. x.pc \notin {"idle", "drop"} /\ x.request = state.request /\ x.floor = state.floor
  BY <1>3 DEF Advances
<1> QED BY <1>1, <1>4, <1>6, <1>7, StepKeepsAnswers DEF Continues

LEMMA GoRecoverKeepsAnswers ==
  ASSUME ChainsInv, AnswersInv, UNCHANGED <<history, loglets>>, NEW c \in Call,
         NEW why \in {"sealed", "unavailable"}, GoRecover(c, why)
  PROVE  AnswersInv'
<1>1. CASE call[c].attempt = MaxAttempts
  BY <1>1, FailKeepsAnswers DEF GoRecover
<1>2. CASE call[c].attempt # MaxAttempts
  <2> DEFINE x == [call[c] EXCEPT !.pc = "lock", !.why = why]
             requests == {}
  <2>1. call[c] \in CallRecord /\ "lock" \in Phases /\ why \in Causes
    BY DEF Phases, Causes, ChainsInv, Types
  <2>2. Advances(CallRecord, x, call[c], "lock", call[c].snapshot, why)
    BY <2>1, Advancing
  <2>3. call' = [call EXCEPT ![c] = x] /\ msgs' = msgs \cup requests /\ TailsTrue
    BY <1>2, SilentTails DEF GoRecover, Await
  <2>4. \A m \in requests : m.type \notin {"install", "trim"}
    OBVIOUS
  <2> HIDE DEF x, requests
  <2>5. x.pc \notin {"idle", "drop"} /\ x.request = call[c].request /\ x.floor = call[c].floor
    BY <2>2 DEF Advances
  <2> QED BY <2>3, <2>4, <2>5, FloorKept, QuietKeepsAnswers
<1> QED BY <1>1, <1>2

\* A call sends nothing and goes on to another phase, on another segment or in another round.
LEMMA AwaitKeepsAnswers ==
  ASSUME ChainsInv, AnswersInv, UNCHANGED <<history, loglets>>, NEW c \in Call, NEW x,
         NEW y, NEW p, NEW z, NEW why, Advances(CallRecord, x, y, p, z, why), Continues(c, y),
         p \notin {"idle", "drop"}, Await(c, x, {}), answers' = answers
  PROVE  AnswersInv'
<1> DEFINE requests == {}
<1>1. call' = [call EXCEPT ![c] = x] /\ msgs' = msgs \cup requests /\ TailsTrue
  BY SilentTails DEF Await
<1>2. \A m \in requests : m.type \notin {"install", "trim"}
  OBVIOUS
<1> HIDE DEF requests
<1>3. x.pc \notin {"idle", "drop"} /\ x.request = y.request /\ x.floor = y.floor
  BY DEF Advances
<1> QED BY <1>1, <1>2, <1>3, QuietKeepsAnswers DEF Continues

LEMMA Continued ==
  ASSUME AnswersInv, NEW c \in Call
  PROVE  Continues(c, call[c])
BY FloorKept DEF Continues

-----------------------------------------------------------------------------
(* Calls begin, append and ask for the tail.                               *)

\* Nothing is behind a segment that is not sealed.
LEMMA UnsealedIsLast ==
  ASSUME ChainsInv, NEW s \in Installed, NEW t \in Installed, t.id \notin sealed
  PROVE  End(s) <= End(t)
<1>1. Apart(s, t)
  BY DEF ChainsInv, SegmentsInv
<1>2. End(s) \in Nat /\ End(t) \in Nat /\ t.start \in Nat /\ t.start <= End(t)
  BY InstalledType DEF ChainsInv
<1>3. CASE s.id = t.id
  BY <1>1, <1>2, <1>3 DEF Apart, End
<1>4. CASE s.id # t.id
  <2>1. End(s) <= t.start
    BY <1>1, <1>4 DEF Apart, Before
  <2> QED BY <1>2, <2>1
<1> QED BY <1>3, <1>4

\* A trim that runs allows what is below its position to be removed.
LEMMA TrimWants ==
  ASSUME NEW c \in Call, call[c].pc # "idle", call[c].request.op = "trim",
         NEW p, p <= call[c].request.position
  PROVE  Wanted(p)
BY DEF Wanted, Trims

LEMMA BeginKeepsAnswers ==
  ASSUME ChainsInv, AnswersInv, NEW c \in Call, NEW k \in Client, NEW request \in Request,
         Begin(c, k, request)
  PROVE  AnswersInv'
<1> DEFINE y == NewCall(k, request)
<1>1. Types /\ Len(history) \in Nat /\ UNCHANGED <<history, loglets>> /\ call[c].pc = "idle"
  BY DEF ChainsInv, Types, Begin
<1>2. Begun(CallRecord, y, "idle", k, request, Uninstalled, "none", AckedTail)
  BY <1>1, BegunType, AckedTailFacts
<1>3. cached[k] \in ClientSnapshot /\ Known(cached[k])
  BY DEF ChainsInv, CallsInv, Types
<1>4. InitialConfig \in Config
  BY NodesExist
<1> HIDE DEF y
<1>5. y \in CallRecord /\ Continues(c, y)
  BY <1>1, <1>2, AckedTailFacts DEF Begun, Continues
<1>6. CASE BeginBootstrap(c, k, request)
  <2> DEFINE chain == <<SegmentOf(made + 1, 0, InitialConfig)>>
  <2>1. made < MaxSegment /\ Propose(c, y, Uninstalled, chain)
    BY <1>6 DEF BeginBootstrap, y
  <2>2. made + 1 \in Segment
    BY <2>1, SegmentAssumption DEF Segment, ChainsInv, Types
  <2>3. SegmentOf(made + 1, 0, InitialConfig) \in SegmentRecord
    BY <1>4, <2>2 DEF SegmentOf, SegmentRecord
  <2>4. chain \in Seq(SegmentRecord) /\ Wanted(First(chain).start)
    BY <2>3 DEF First, SegmentOf, Wanted
  <2> HIDE DEF chain
  <2> QED BY <1>1, <1>5, <2>1, <2>4, UninstalledKnown, ProposeKeepsAnswers
<1>7. CASE BeginJoin(c, k, request)
  <2> DEFINE x == [y EXCEPT !.pc = "refresh"]
  <2>1. Await(c, x, {}) /\ answers' = answers
    BY <1>7 DEF BeginJoin, y
  <2>2. "refresh" \in Phases
    BY DEF Phases
  <2>3. Advances(CallRecord, x, y, "refresh", y.snapshot, y.why)
    BY <1>5, <2>2, Advancing
  <2> HIDE DEF x
  <2> QED BY <1>1, <1>5, <2>1, <2>3, AwaitKeepsAnswers
<1>8. CASE BeginSeal(c, k, request)
  <2>1. Extend(c, y, cached[k], InitialConfig)
    BY <1>8 DEF BeginSeal, y
  <2> QED BY <1>1, <1>3, <1>4, <1>5, <2>1, ExtendKeepsAnswers
<1>9. CASE BeginOnActive(c, k, request)
  <2>1. Try(c, y, cached[k])
    BY <1>9 DEF BeginOnActive, y
  <2> QED BY <1>1, <1>3, <1>5, <2>1, TryKeepsAnswers
<1>10. CASE BeginRead(c, k, request)
  <2> DEFINE x == [y EXCEPT !.pc = "read", !.snapshot = cached[k]]
  <2>1. Await(c, x, {}) /\ answers' = answers
    BY <1>10 DEF BeginRead, y
  <2>2. "read" \in Phases
    BY DEF Phases
  <2>3. Advances(CallRecord, x, y, "read", cached[k], y.why)
    BY <1>3, <1>5, <2>2, Advancing
  <2> HIDE DEF x
  <2> QED BY <1>1, <1>5, <2>1, <2>3, AwaitKeepsAnswers
<1>11. CASE BeginModify(c, k, request)
  <2>1. PICK i \in 1..(Len(cached[k].chain) - 1) :
          Propose(c, y, cached[k], Modified(cached[k].chain, i, request.config))
    BY <1>11 DEF BeginModify, y
  <2>2. request.config \in Config
    BY <1>11 DEF BeginModify, Request
  <2>3. cached[k].chain \in Seq(SegmentRecord)
    BY <1>3 DEF ClientSnapshot
  <2>4. cached[k].chain # <<>> /\ (cached[k].chain # <<>> => cached[k].version > 0)
    BY <1>3, <2>1, <2>3 DEF Known, Version, ClientSnapshot
  <2>5. /\ cached[k].version \in 1..Len(history) /\ cached[k].chain = history[cached[k].version]
        /\ cached[k].chain \in Chain
    BY <1>1, <1>3, <2>4, OnSegmentFacts
  <2> DEFINE chain == Modified(cached[k].chain, i, request.config)
  <2>6. chain \in Seq(SegmentRecord)
    BY <2>2, <2>5, ModifiedDerived
  <2>7. First(chain).start = First(cached[k].chain).start
    <3>1. 1 \in DOMAIN cached[k].chain /\ First(cached[k].chain) \in SegmentRecord
      BY <2>5, ChainFacts
    <3>2. chain[1] = IF i = 1 THEN [cached[k].chain[1] EXCEPT !.config = request.config]
                     ELSE cached[k].chain[1]
      BY <3>1 DEF Modified
    <3> QED BY <3>1, <3>2 DEF First, SegmentRecord
  <2>8. Wanted(First(cached[k].chain).start)
    <3>1. cached[k].version \in DOMAIN history
      BY <1>1, <2>5 DEF Types
    <3> QED BY <2>5, <3>1 DEF AnswersInv, HeadsInv
  <2>9. Propose(c, y, cached[k], chain)
    BY <2>1
  <2> HIDE DEF chain
  <2>10. Wanted(First(chain).start)
    BY <2>7, <2>8
  <2> QED BY <1>1, <1>3, <1>5, <2>6, <2>9, <2>10, ProposeKeepsAnswers
<1> QED BY <1>6, <1>7, <1>8, <1>9, <1>10, <1>11 DEF Begin

LEMMA AppendingKeepsAnswers ==
  ASSUME ChainsInv, AnswersInv, NEW c \in Call,
         Raise(c) \/ Unavailable(c) \/ AppendAnswered(c) \/ AppendRefused(c) \/ RefreshedEmpty(c)
  PROVE  AnswersInv'
<1>1. CASE Raise(c)
  BY <1>1, FailKeepsAnswers DEF Raise
<1>2. CASE Unavailable(c)
  BY <1>2, GoRecoverKeepsAnswers DEF Unavailable
<1>3. CASE AppendAnswered(c)
  <2>1. PICK i \in DOMAIN log[Target(c).id] :
          Finish(c, {[kind |-> "append", client |-> ClientOf(c), command |-> call[c].request.command,
                      position |-> Target(c).start + i - 1]})
    BY <1>3 DEF AppendAnswered
  <2> QED BY <1>3, <2>1, FinishKeepsAnswers DEF AppendAnswered
<1>4. CASE AppendRefused(c)
  BY <1>4, GoRecoverKeepsAnswers DEF AppendRefused
<1>5. CASE RefreshedEmpty(c)
  BY <1>5, FailKeepsAnswers DEF RefreshedEmpty
<1> QED BY <1>1, <1>2, <1>3, <1>4, <1>5

LEMMA TailAnsweredKeepsAnswers ==
  ASSUME ChainsInv, AnswersInv, NEW c \in Call, TailAnswered(c)
  PROVE  AnswersInv'
<1>1. call[c].pc = "tail" /\ call[c].pc # "idle" /\ call[c].pc \in OnSegment
  BY DEF TailAnswered, OnSegment
<1>2. UNCHANGED <<history, loglets>>
  BY DEF TailAnswered
<1>3. ASSUME NEW tail, NEW isSealed, isSealed \/ tail >= call[c].floor, TailReturned(c, tail, isSealed)
      PROVE  AnswersInv'
  <2>1. CASE call[c].request.op = "check_tail"
    <3> DEFINE told == {[kind |-> "tail", client |-> ClientOf(c), position |-> tail, sealed |-> isSealed,
                         floor |-> call[c].floor]}
    <3>1. Finish(c, told) /\ \A a \in told : a.kind = "tail" => a.sealed \/ a.position >= a.floor
      BY <1>3, <2>1 DEF TailReturned
    <3> HIDE DEF told
    <3> QED BY <1>2, <3>1, FinishKeepsAnswers
  <2>2. CASE call[c].request.op # "check_tail" /\ call[c].request.position > tail
    BY <1>2, <1>3, <2>2, FailKeepsAnswers DEF TailReturned
  <2>3. CASE call[c].request.op # "check_tail" /\ ~ (call[c].request.position > tail)
    <3> DEFINE x == [call[c] EXCEPT !.pc = "trim", !.snapshot = Cached(c), !.index = 0, !.attempt = 1]
    <3>1. Await(c, x, {}) /\ answers' = answers
      BY <1>3, <2>3 DEF TailReturned
    <3>2. "trim" \in Phases /\ 0 \in Nat /\ 1 \in Nat
      BY DEF Phases
    <3>3. Advances(CallRecord, x, call[c], "trim", Cached(c), call[c].why)
      BY <1>1, <3>2, CallFacts, Advancing
    <3> HIDE DEF x
    <3> QED BY <1>2, <3>1, <3>3, Continued, AwaitKeepsAnswers
  <2> QED BY <2>1, <2>2, <2>3
<1>4. ASSUME Target(c).id \notin sealed PROVE End(Target(c)) >= call[c].floor
  <2>1. Target(c) \in Installed
    BY <1>1, CallFacts, OnSegmentFacts DEF Target
  <2>2. call[c].floor \in Nat
    BY DEF ChainsInv, Types, CallRecord
  <2>3. \A s \in Installed : End(s) \in Nat /\ End(s) <= End(Target(c))
    BY <1>4, <2>1, UnsealedIsLast, InstalledType DEF ChainsInv
  <2> QED BY <2>1, <2>2, <2>3, FloorKept
<1>5. CASE Target(c).id \notin sealed
  <2>1. TailReturned(c, End(Target(c)), FALSE)
    BY <1>5 DEF TailAnswered, End
  <2> QED BY <1>3, <1>4, <1>5, <2>1
<1>6. CASE Target(c).id \in sealed /\ call[c].attempt = MaxAttempts
  <2>1. TailReturned(c, End(Target(c)), TRUE)
    BY <1>6 DEF TailAnswered, End
  <2> QED BY <1>3, <2>1
<1>7. CASE Target(c).id \in sealed /\ call[c].attempt # MaxAttempts
  BY <1>2, <1>7, GoRecoverKeepsAnswers DEF TailAnswered
<1> QED BY <1>5, <1>6, <1>7

-----------------------------------------------------------------------------
(* Reconfigurations and trims.                                             *)

LEMMA RecoveringKeepsAnswers ==
  ASSUME ChainsInv, AnswersInv, NEW c \in Call, TakeLock(c) \/ SuccessorFound(c)
  PROVE  AnswersInv'
<1>1. CASE TakeLock(c)
  <2>1. call[c].pc # "idle" /\ UNCHANGED <<history, loglets>>
    BY <1>1 DEF TakeLock
  <2>2. CASE StillActive(c, Cached(c))
    <3> DEFINE x == [call[c] EXCEPT !.pc = "refresh", !.asked = Len(history)]
    <3>1. Await(c, x, {}) /\ answers' = answers
      BY <1>1, <2>2 DEF TakeLock
    <3>2. "refresh" \in Phases /\ Len(history) \in Nat
      BY DEF Phases, ChainsInv, Types
    <3>3. Advances(CallRecord, x, call[c], "refresh", call[c].snapshot, call[c].why)
      BY <2>1, <3>2, CallFacts, Advancing
    <3> HIDE DEF x
    <3> QED BY <2>1, <3>1, <3>3, Continued, AwaitKeepsAnswers
  <2>3. CASE ~ StillActive(c, Cached(c))
    <3>1. Retry(c, Cached(c))
      BY <1>1, <2>3 DEF TakeLock
    <3> QED BY <2>1, <3>1, CallFacts, RetryKeepsAnswers
  <2> QED BY <2>2, <2>3
<1>2. CASE SuccessorFound(c)
  <2>1. call[c].pc # "idle" /\ UNCHANGED <<history, loglets>>
    BY <1>2 DEF SuccessorFound
  <2>2. PICK config \in Successors(call[c].config) : Extend(c, call[c], Cached(c), config)
    BY <1>2 DEF SuccessorFound
  <2>3. config \in Config
    <3>1. call[c].config \in Config
      BY <2>1, CallFacts
    <3>2. PICK n \in call[c].config.members : config = [call[c].config EXCEPT !.sequencer = n]
      BY <2>2 DEF Successors
    <3>3. n \in Node
      BY <3>1 DEF Config
    <3> QED BY <3>1, <3>2, <3>3 DEF Config
  <2> QED BY <2>1, <2>2, <2>3, CallFacts, Continued, ExtendKeepsAnswers
<1> QED BY <1>1, <1>2

LEMMA RefreshedKeepsAnswers ==
  ASSUME ChainsInv, AnswersInv, NEW c \in Call, Refreshed(c) \/ GraceOver(c)
  PROVE  AnswersInv'
<1>1. call[c].pc # "idle" /\ UNCHANGED <<history, loglets>>
  BY DEF Refreshed, GraceOver
<1>2. call[c] \in CallRecord
  BY DEF ChainsInv, Types
<1>3. CASE Refreshed(c)
  <2> DEFINE config(v) == Active(history[v]).config
  <2>1. PICK v \in Told(c) \ {0} :
          IF call[c].request.op = "join"
            THEN IF call[c].request.node \in config(v).members
                   THEN Finish(c, {[kind |-> "join", node |-> call[c].request.node, version |-> v]})
                   ELSE Extend(c, call[c], Version(v), Joined(config(v), call[c].request.node))
            ELSE IF ~StillActive(c, Version(v))
            THEN Retry(c, Version(v))
            ELSE /\ Await(c, [call[c] EXCEPT !.pc = IF call[c].why = "sealed" THEN "grace" ELSE "successor",
                                             !.config = config(v)], {})
                 /\ answers' = answers
    BY <1>3 DEF Refreshed
  <2>2. Version(v) \in ClientSnapshot /\ config(v) \in Config
    BY ToldFacts
  <2>3. CASE call[c].request.op = "join" /\ call[c].request.node \in config(v).members
    BY <1>1, <2>1, <2>3, FinishKeepsAnswers
  <2>4. CASE call[c].request.op = "join" /\ call[c].request.node \notin config(v).members
    <3>1. call[c].request.node \in Node
      BY <1>1, <2>4, CallFacts DEF Request
    <3>2. Joined(config(v), call[c].request.node) \in Config
      BY <2>2, <3>1 DEF Joined, Config
    <3> QED BY <1>1, <1>2, <2>1, <2>2, <2>4, <3>2, Continued, ExtendKeepsAnswers
  <2>5. CASE call[c].request.op # "join" /\ ~StillActive(c, Version(v))
    BY <1>1, <2>1, <2>2, <2>5, RetryKeepsAnswers
  <2>6. CASE call[c].request.op # "join" /\ StillActive(c, Version(v))
    <3> DEFINE p == IF call[c].why = "sealed" THEN "grace" ELSE "successor"
               x == [call[c] EXCEPT !.pc = p, !.config = config(v)]
    <3>1. Await(c, x, {}) /\ answers' = answers
      BY <2>1, <2>6
    <3>2. p \in Phases /\ p \notin {"idle", "drop"}
      BY DEF Phases
    <3> HIDE DEF p
    <3>3. Advances(CallRecord, x, call[c], p, call[c].snapshot, call[c].why)
      BY <1>2, <2>2, <3>2, Advancing
    <3> HIDE DEF x
    <3> QED BY <1>1, <3>1, <3>2, <3>3, Continued, AwaitKeepsAnswers
  <2> QED BY <2>3, <2>4, <2>5, <2>6
<1>4. CASE GraceOver(c)
  <2>1. PICK v \in Told(c) \ {0} :
          IF StillActive(c, Version(v))
            THEN Extend(c, call[c], Version(v), Active(history[v]).config)
            ELSE Retry(c, Version(v))
    BY <1>4 DEF GraceOver
  <2>2. Version(v) \in ClientSnapshot /\ Active(history[v]).config \in Config
    BY ToldFacts
  <2> QED BY <1>1, <1>2, <2>1, <2>2, Continued, ExtendKeepsAnswers, RetryKeepsAnswers
<1> QED BY <1>3, <1>4

\* The head of the chain that a call works with.
LEMMA HeadWanted ==
  ASSUME ChainsInv, AnswersInv, NEW z \in ClientSnapshot, Known(z), z.version > 0
  PROVE  Wanted(First(z.chain).start)
<1>1. z.version \in 1..Len(history) /\ z.chain = history[z.version]
  BY OnSegmentFacts DEF ChainsInv
<1>2. z.version \in DOMAIN history
  BY <1>1 DEF ChainsInv, Types
<1> QED BY <1>1, <1>2 DEF AnswersInv, HeadsInv

LEMMA SealingKeepsAnswers ==
  ASSUME ChainsInv, AnswersInv, NEW c \in Call, SealAnswered(c) \/ SealedTailAnswered(c)
  PROVE  AnswersInv'
<1>1. call[c].pc # "idle" /\ UNCHANGED <<history, loglets>>
  BY DEF SealAnswered, SealedTailAnswered
<1>2. call[c] \in CallRecord
  BY DEF ChainsInv, Types
<1>3. CASE SealAnswered(c)
  <2>1. CASE call[c].request.op = "seal"
    BY <1>1, <1>3, <2>1, FinishKeepsAnswers DEF SealAnswered
  <2>2. CASE call[c].request.op # "seal"
    <3> DEFINE x == [call[c] EXCEPT !.pc = "sealed_tail"]
    <3>1. Await(c, x, {}) /\ answers' = answers
      BY <1>3, <2>2 DEF SealAnswered
    <3>2. "sealed_tail" \in Phases
      BY DEF Phases
    <3>3. Advances(CallRecord, x, call[c], "sealed_tail", call[c].snapshot, call[c].why)
      BY <1>2, <3>2, Advancing
    <3> HIDE DEF x
    <3> QED BY <1>1, <3>1, <3>3, Continued, AwaitKeepsAnswers
  <2> QED BY <2>1, <2>2
<1>4. CASE SealedTailAnswered(c)
  <2> DEFINE z == call[c].snapshot
             chain == Extended(z.chain, End(Active(z.chain)), made + 1, call[c].config)
  <2>1. Propose(c, call[c], z, chain) /\ made < MaxSegment /\ call[c].pc = "sealed_tail"
    BY <1>4 DEF SealedTailAnswered, Target, End
  <2>2. made + 1 \in Segment
    BY <2>1, SegmentAssumption DEF ChainsInv, Types, Segment
  <2>3. call[c].pc \in OnSegment
    BY <2>1 DEF OnSegment
  <2>4. /\ z \in ClientSnapshot /\ Known(z) /\ z.version > 0
        /\ z.version \in 1..Len(history) /\ z.chain = history[z.version]
    BY <1>1, <2>3, CallFacts, OnSegmentFacts
  <2>5. Active(history[z.version]).id \in sealed
    BY <2>1, <2>4 DEF ChainsInv, CallsInv, Prepared
  <2>6. chain \in Seq(SegmentRecord) /\ First(chain).start = First(z.chain).start
    <3>1. call[c].config \in Config
      BY <1>1, CallFacts
    <3> QED BY <2>2, <2>4, <2>5, <3>1, ExtendedDerived
  <2> HIDE DEF chain
  <2>7. Wanted(First(chain).start)
    BY <2>4, <2>6, HeadWanted
  <2> QED BY <1>1, <1>2, <2>1, <2>4, <2>6, <2>7, Continued, ProposeKeepsAnswers
<1> QED BY <1>3, <1>4

LEMMA TruncateKeepsAnswers ==
  ASSUME ChainsInv, AnswersInv, UNCHANGED <<history, loglets>>, NEW c \in Call, call[c].pc # "idle",
         NEW state \in CallRecord, state.request = call[c].request, state.floor = call[c].floor,
         state.request.op = "trim",
         NEW z \in ClientSnapshot, Known(z), z.version > 0, Truncate(c, state, z)
  PROVE  AnswersInv'
<1> DEFINE head == First(z.chain)
           size == head.stop - head.start
           dropping == /\ state.attempt <= MaxAttempts
                       /\ Len(z.chain) > 1 /\ head.stop <= state.request.position
<1>1. CASE dropping
  <2> DEFINE x == [state EXCEPT !.pc = "drop", !.snapshot = z]
             m == TrimOf(head.id, size)
             requests == {m}
  <2>1. call' = [call EXCEPT ![c] = x] /\ msgs' = msgs \cup requests /\ TailsTrue
    BY <1>1, SilentTails DEF Truncate, Await
  <2>2. "drop" \in Phases
    BY DEF Phases
  <2>3. Advances(CallRecord, x, state, "drop", z, state.why)
    BY <2>2, Advancing
  <2>4. 1 \in 1..Len(z.chain) /\ 1 < Len(z.chain)
    BY <1>1 DEF ClientSnapshot
  <2>5. head \in Installed /\ head.start \in Nat /\ size \in Nat /\ head.stop # Open
    BY <2>4, ClosedSize DEF First
  <2>6. head.stop \in Nat
    <3>1. head \in SegmentRecord
      BY <2>5, InstalledType DEF ChainsInv
    <3> QED BY <2>5, <3>1 DEF SegmentRecord
  <2>7. head.start + size = head.stop /\ head.stop <= call[c].request.position
    BY <1>1, <2>5, <2>6
  <2>8. WantedOf(head.id, size)
    <3>1. Wanted(head.start + size)
      BY <2>7, TrimWants
    <3> QED BY <2>5, <3>1 DEF WantedOf
  <2>9. m.type = "trim" /\ m.segment = head.id /\ m.target = size
    BY DEF TrimOf
  <2> HIDE DEF x, m
  <2>10. /\ \A r \in requests : r.type = "install" => Wanted(First(r.chain).start)
         /\ \A r \in requests : r.type = "trim" => WantedOf(r.segment, r.target)
    BY <2>8, <2>9
  <2> HIDE DEF requests
  <2>11. x.pc = "drop" /\ x.request = call[c].request /\ x.floor = call[c].floor /\ x.snapshot = z
    BY <2>3 DEF Advances
  <2>12. Len(x.snapshot.chain) > 1 /\ First(x.snapshot.chain).stop <= x.request.position
    BY <1>1, <2>11
  <2>13. x.pc # "idle"
    BY <2>11
  <2>14. x.floor = 0 \/ \E s \in Installed : x.floor <= End(s)
    BY <2>11, FloorKept
  <2> QED BY <2>1, <2>10, <2>11, <2>12, <2>13, <2>14, StepKeepsAnswers
<1>2. CASE ~ dropping
  <2>1. Finish(c, {[kind |-> "trim", position |-> Larger(state.request.position, First(z.chain).start)]})
    BY <1>2 DEF Truncate
  <2> QED BY <2>1, FinishKeepsAnswers
<1> QED BY <1>1, <1>2

LEMMA TrimNextKeepsAnswers ==
  ASSUME ChainsInv, AnswersInv, NEW c \in Call, TrimNext(c)
  PROVE  AnswersInv'
<1>1. /\ call[c].pc = "trim" /\ call[c].pc # "idle" /\ call[c].pc \in OnSegment
      /\ UNCHANGED <<history, loglets>>
  BY DEF TrimNext, OnSegment
<1>2. call[c].request.op = "trim" /\ call[c].request.position \in Nat
  <2>1. call[c].request.op = "trim"
    BY <1>1 DEF ChainsInv, CallsInv, Prepared
  <2> QED BY <1>1, <2>1, CallFacts DEF Request, Position
<1> DEFINE z == call[c].snapshot
           chain == z.chain
           i == call[c].index
           next == chain[i + 1]
           stop == IF next.stop = Open \/ call[c].request.position < next.stop
                     THEN call[c].request.position ELSE next.stop
           more == i < Len(chain) /\ next.start < call[c].request.position
<1>3. CASE more
  <2> DEFINE x == [call[c] EXCEPT !.index = i + 1]
             m == TrimOf(next.id, stop - next.start)
             requests == {m}
  <2>1. call' = [call EXCEPT ![c] = x] /\ msgs' = msgs \cup requests /\ TailsTrue
    BY <1>3, SilentTails DEF TrimNext, TrimTarget, Await
  <2>2. i \in Nat /\ i + 1 \in Nat /\ i + 1 \in 1..Len(chain)
    BY <1>1, <1>3, CallFacts DEF ClientSnapshot
  <2>3. Advances(CallRecord, x, call[c], call[c].pc, z, call[c].why)
    BY <1>1, <2>2, CallFacts, Advancing
  <2>4. z \in ClientSnapshot /\ Known(z) /\ z.version > 0
    BY <1>1, CallFacts
  <2>5. next \in Installed /\ next.start \in Nat
    BY <2>2, <2>4, ClosedSize
  <2>6. next.stop \in Nat \cup {Open}
    <3>1. next \in SegmentRecord
      BY <2>5, InstalledType DEF ChainsInv
    <3> QED BY <3>1 DEF SegmentRecord
  <2>7. stop \in Nat /\ stop <= call[c].request.position
    <3> DEFINE q == call[c].request.position
    <3>1. q \in Nat
      BY <1>2
    <3>2. stop = q \/ (stop = next.stop /\ next.stop # Open /\ ~ (q < next.stop))
      OBVIOUS
    <3> HIDE DEF q, stop, next
    <3>3. stop \in Nat /\ stop <= q
      BY <2>6, <3>1, <3>2
    <3> QED BY <3>3 DEF q
  <2>8. WantedOf(next.id, stop - next.start)
    <3>1. Wanted(stop)
      BY <1>1, <1>2, <2>7, TrimWants
    <3>2. next.start + (stop - next.start) = stop
      BY <2>5, <2>7
    <3> QED BY <2>5, <3>1, <3>2 DEF WantedOf
  <2>9. m.type = "trim" /\ m.segment = next.id /\ m.target = stop - next.start
    BY DEF TrimOf
  <2> HIDE DEF x, m
  <2>10. /\ \A r \in requests : r.type = "install" => Wanted(First(r.chain).start)
         /\ \A r \in requests : r.type = "trim" => WantedOf(r.segment, r.target)
    BY <2>8, <2>9
  <2> HIDE DEF requests
  <2>11. x.pc = "trim" /\ x.request = call[c].request /\ x.floor = call[c].floor
    BY <1>1, <2>3 DEF Advances
  <2>12. x.pc # "idle" /\ x.pc # "drop"
    BY <2>11
  <2>13. x.floor = 0 \/ \E s \in Installed : x.floor <= End(s)
    BY <2>11, FloorKept
  <2> QED BY <1>1, <2>1, <2>10, <2>11, <2>12, <2>13, StepKeepsAnswers
<1>4. CASE ~ more
  <2>1. Truncate(c, call[c], Cached(c))
    BY <1>4 DEF TrimNext
  <2> QED BY <1>1, <1>2, <2>1, CallFacts, TruncateKeepsAnswers
<1> QED BY <1>3, <1>4

LEMMA DropKeepsAnswers ==
  ASSUME ChainsInv, AnswersInv, NEW c \in Call, Drop(c)
  PROVE  AnswersInv'
<1>1. /\ call[c].pc = "drop" /\ call[c].pc # "idle" /\ call[c].pc \in OnSegment
      /\ UNCHANGED <<history, loglets>>
  BY DEF Drop, OnSegment
<1> DEFINE z == call[c].snapshot
           chain == Tail(z.chain)
<1>2. Propose(c, call[c], z, chain) /\ ValidChain(chain)
  BY DEF Drop, Propose
<1>3. /\ z \in ClientSnapshot /\ Known(z) /\ z.version > 0
      /\ z.version \in 1..Len(history) /\ z.chain = history[z.version] /\ z.chain \in Chain
  BY <1>1, CallFacts, OnSegmentFacts
<1>4. chain \in Seq(SegmentRecord)
  BY <1>2, <1>3, TailDerived
<1>5. Len(z.chain) > 1 /\ First(z.chain).stop <= call[c].request.position
  BY <1>1 DEF AnswersInv, HeadsInv
<1>6. First(chain).start = First(z.chain).stop
  <2>1. z.chain \in Seq(SegmentRecord) /\ Len(z.chain) \in Nat /\ 1 \in 1..(Len(z.chain) - 1)
    BY <1>3, <1>5, ChainFacts
  <2>2. z.chain[1 + 1].start = z.chain[1].stop
    BY <1>3, <2>1, ChainFacts
  <2>3. chain[1] = z.chain[1 + 1]
    BY <1>5, <2>1
  <2> QED BY <2>2, <2>3 DEF First
<1>7. Wanted(First(chain).start)
  <2>1. call[c].request.op = "trim"
    BY <1>1 DEF ChainsInv, CallsInv, Prepared
  <2> QED BY <1>1, <1>5, <1>6, <2>1, TrimWants
<1> HIDE DEF chain
<1> QED BY <1>1, <1>2, <1>3, <1>4, <1>7, CallFacts, Continued, ProposeKeepsAnswers

-----------------------------------------------------------------------------
(* Reads, and the answers to installations.                                *)

LEMMA ReadNextKeepsAnswers ==
  ASSUME ChainsInv, AnswersInv, NEW c \in Call, ReadNext(c)
  PROVE  AnswersInv'
<1>1. call[c].pc = "read" /\ call[c].pc # "idle" /\ UNCHANGED <<history, loglets>>
  BY DEF ReadNext
<1> DEFINE chain == call[c].snapshot.chain
           segment == chain[call[c].index]
           found == {p \in LocalRange(c, segment) : Readable(segment.id, p) # {}}
           first == CHOOSE q \in found : \A r \in found : q <= r
<1>2. CASE call[c].index > Len(chain)
  BY <1>1, <1>2, FinishKeepsAnswers DEF ReadNext
<1>3. CASE ~ (call[c].index > Len(chain)) /\ found = {}
  <2> DEFINE x == [call[c] EXCEPT !.index = @ + 1]
  <2>1. Await(c, x, {}) /\ answers' = answers
    BY <1>3 DEF ReadNext
  <2>2. call[c].index + 1 \in Nat
    BY <1>1, CallFacts
  <2>3. Advances(CallRecord, x, call[c], "read", call[c].snapshot, call[c].why)
    BY <1>1, <2>2, CallFacts, Advancing
  <2> HIDE DEF x
  <2> QED BY <1>1, <2>1, <2>3, Continued, AwaitKeepsAnswers
<1>4. CASE ~ (call[c].index > Len(chain)) /\ found # {}
  <2>1. PICK k \in Readable(segment.id, first) :
          Finish(c, {[kind |-> "read", from |-> call[c].request.from,
                      position |-> segment.start + first, command |-> k]})
    BY <1>4 DEF ReadNext
  <2> HIDE DEF segment, found, first
  <2> DEFINE told == {[kind |-> "read", from |-> call[c].request.from,
                       position |-> segment.start + first, command |-> k]}
  <2>2. Finish(c, told) /\ \A a \in told : a.kind = "tail" => a.sealed \/ a.position >= a.floor
    BY <2>1
  <2> HIDE DEF told
  <2> QED BY <1>1, <2>2, FinishKeepsAnswers
<1> QED BY <1>2, <1>3, <1>4

LEMMA InstallAnsweredKeepsAnswers ==
  ASSUME ChainsInv, AnswersInv, NEW c \in Call, InstallAnswered(c)
  PROVE  AnswersInv'
<1>1. call[c].pc = "install" /\ call[c].pc # "idle" /\ UNCHANGED <<history, loglets>>
  BY DEF InstallAnswered
<1>2. PICK v \in (call[c].snapshot.version + 1)..Len(history) : \E won : Proceed(c, Version(v), won)
  BY DEF InstallAnswered
<1>3. PICK won : Proceed(c, Version(v), won)
  BY <1>2
<1> DEFINE z == Version(v)
<1>4. v \in 1..Len(history) /\ v \in 0..Len(history) /\ v > 0
  BY <1>1, CallFacts DEF ClientSnapshot, Types
<1>5. z \in ClientSnapshot /\ Known(z) /\ z.version > 0
  BY <1>4, VersionType DEF ChainsInv
<1> HIDE DEF z
<1>6. Proceed(c, z, won)
  BY <1>3 DEF z
<1>7. CASE call[c].why # "none"
  <2>1. Retry(c, z)
    BY <1>6, <1>7 DEF Proceed
  <2> QED BY <1>1, <1>5, <2>1, RetryKeepsAnswers
<1>8. CASE call[c].why = "none" /\ call[c].request.op = "trim"
  <2> DEFINE state == [call[c] EXCEPT !.attempt = @ + 1]
  <2>1. Truncate(c, state, z)
    BY <1>6, <1>8 DEF Proceed
  <2>2. call[c].attempt + 1 \in Nat
    BY <1>1, CallFacts
  <2>3. Advances(CallRecord, state, call[c], call[c].pc, call[c].snapshot, call[c].why)
    BY <1>1, <2>2, CallFacts, Advancing
  <2> HIDE DEF state
  <2>4. state \in CallRecord /\ state.request = call[c].request /\ state.floor = call[c].floor
    BY <2>3 DEF Advances
  <2> QED BY <1>1, <1>5, <1>8, <2>1, <2>4, TruncateKeepsAnswers
<1>9. CASE call[c].why = "none" /\ call[c].request.op = "join"
  <2>1. CASE won
    <3> DEFINE told == {[kind |-> "join", node |-> call[c].request.node, version |-> z.version]}
    <3>1. Finish(c, told) /\ \A a \in told : a.kind = "tail" => a.sealed \/ a.position >= a.floor
      BY <1>6, <1>9, <2>1 DEF Proceed
    <3> HIDE DEF told
    <3> QED BY <1>1, <3>1, FinishKeepsAnswers
  <2>2. CASE ~ won /\ call[c].attempt = MaxAttempts
    BY <1>1, <1>6, <1>9, <2>2, FailKeepsAnswers DEF Proceed
  <2>3. CASE ~ won /\ call[c].attempt # MaxAttempts
    <3> DEFINE x == [call[c] EXCEPT !.pc = "refresh", !.attempt = @ + 1, !.asked = Len(history)]
    <3>1. Await(c, x, {}) /\ answers' = answers
      BY <1>6, <1>9, <2>3 DEF Proceed
    <3>2. "refresh" \in Phases /\ call[c].attempt + 1 \in Nat /\ Len(history) \in Nat
      BY <1>1, CallFacts DEF Phases, Types
    <3>3. Advances(CallRecord, x, call[c], "refresh", call[c].snapshot, call[c].why)
      BY <1>1, <3>2, CallFacts, Advancing
    <3> HIDE DEF x
    <3> QED BY <1>1, <3>1, <3>3, Continued, AwaitKeepsAnswers
  <2> QED BY <2>1, <2>2, <2>3
<1>10. CASE call[c].why = "none" /\ call[c].request.op \notin {"trim", "join"}
  <2>1. Finish(c, {})
    BY <1>6, <1>10 DEF Proceed
  <2> QED BY <1>1, <2>1, FinishKeepsAnswers
<1> QED BY <1>7, <1>8, <1>9, <1>10

\* What takes effect leaves calls and answers as they are, and removes nothing from segments.
LEMMA EffectKeepsAnswers ==
  ASSUME ChainsInv, AnswersInv, UNCHANGED <<call, msgs, answers>>,
         Installed \subseteq Installed',
         \A id \in Segment : Len(log[id]) <= Len(log'[id]) /\ Len(log'[id]) \in Nat,
         \A v \in DOMAIN history' : (v \in DOMAIN history /\ history'[v] = history[v])
                                    \/ Wanted(First(history'[v]).start),
         \A id \in Segment : trimmed'[id] = trimmed[id] \/ WantedOf(id, trimmed'[id])
  PROVE  AnswersInv'
<1>1. \A p : Wanted(p)' <=> Wanted(p)
  BY DEF Wanted, Trims
<1>2. \A id, n : WantedOf(id, n) => WantedOf(id, n)'
  BY <1>1 DEF WantedOf
<1>3. HeadsInv'
  <2>1. (\A v \in DOMAIN history : Wanted(First(history[v]).start))'
    <3> SUFFICES ASSUME NEW v \in DOMAIN history' PROVE Wanted(First(history[v]).start)'
      OBVIOUS
    <3>1. Wanted(First(history'[v]).start)
      BY DEF AnswersInv, HeadsInv
    <3>2. PICK p : p = First(history'[v]).start
      OBVIOUS
    <3>3. Wanted(p)'
      BY <1>1, <3>1, <3>2
    <3> QED BY <3>2, <3>3 DEF First
  <2>2. \A m \in msgs : m.type = "install" => Wanted(First(m.chain).start)'
    BY <1>1 DEF AnswersInv, HeadsInv, First
  <2> QED BY <2>1, <2>2 DEF AnswersInv, HeadsInv, First
<1>4. TrimsInv'
  <2>1. \A m \in msgs : m.type = "trim" => WantedOf(m.segment, m.target)'
    BY <1>2 DEF AnswersInv, TrimsInv
  <2>2. (\A id \in Segment : trimmed[id] > 0 => WantedOf(id, trimmed[id]))'
    <3> SUFFICES ASSUME NEW id \in Segment, trimmed'[id] > 0 PROVE WantedOf(id, trimmed[id])'
      OBVIOUS
    <3>1. PICK n : n = trimmed'[id]
      OBVIOUS
    <3>2. WantedOf(id, n)
      BY <3>1 DEF AnswersInv, TrimsInv
    <3>3. WantedOf(id, n)'
      BY <1>2, <3>2
    <3> QED BY <3>1, <3>3
  <2> QED BY <2>1, <2>2 DEF TrimsInv
<1>5. FloorsInv'
  <2>1. \A c \in Call : call[c].floor \in Nat
    BY DEF ChainsInv, Types, CallRecord
  <2>2. ASSUME NEW s \in Installed PROVE End(s) <= End(s)' /\ End(s) \in Nat /\ End(s)' \in Nat
    <3>1. s.id \in Segment /\ s.start \in Nat /\ Len(log[s.id]) \in Nat
      BY InstalledType DEF ChainsInv
    <3> QED BY <3>1 DEF End
  <2>3. ASSUME NEW c \in Call, call[c].floor # 0 PROVE \E s \in Installed' : call[c].floor <= End(s)'
    <3>1. PICK s \in Installed : call[c].floor <= End(s)
      BY <2>3 DEF AnswersInv, FloorsInv
    <3>2. call[c].floor <= End(s)'
      <4> DEFINE p == End(s)
                 q == End(s)'
                 f == call[c].floor
      <4>1. p <= q /\ p \in Nat /\ q \in Nat /\ f \in Nat /\ f <= p
        BY <2>1, <2>2, <3>1
      <4> HIDE DEF p, q, f
      <4>2. f <= q
        BY <4>1
      <4> QED BY <4>2 DEF f, q
    <3> QED BY <3>2
  <2> QED BY <2>3 DEF FloorsInv
<1>6. TailsCoverAcks'
  BY DEF AnswersInv, TailsCoverAcks
<1> QED BY <1>3, <1>4, <1>5, <1>6 DEF AnswersInv

-----------------------------------------------------------------------------
(* What takes effect, the invariant, and what follows.                     *)

LEMMA LogLengths ==
  ASSUME Types, UNCHANGED log
  PROVE  \A id \in Segment : Len(log[id]) <= Len(log'[id]) /\ Len(log'[id]) \in Nat
BY DEF Types

LEMMA InstallKeepsAnswers ==
  ASSUME ChainsInv, AnswersInv, NEW m \in msgs, Install(m)
  PROVE  AnswersInv'
<1>1. UNCHANGED <<log, trimmed, call, msgs, answers>> /\ m.type = "install" /\ Types
  BY DEF Install, loglets, ChainsInv
<1>2. /\ Len(history) \in Nat /\ Len(history') = Len(history) + 1
      /\ history' \in Seq(Chain) /\ history'[Len(history) + 1] = m.chain
      /\ \A v \in 1..Len(history) : history'[v] = history[v]
      /\ Installed \subseteq Installed'
  BY InstallFacts
<1>3. ASSUME NEW v \in DOMAIN history'
      PROVE  (v \in DOMAIN history /\ history'[v] = history[v]) \/ Wanted(First(history'[v]).start)
  <2>1. v \in 1..Len(history) \/ v = Len(history) + 1
    BY <1>2
  <2>2. CASE v \in 1..Len(history)
    BY <1>1, <1>2, <2>2 DEF Types
  <2>3. CASE v = Len(history) + 1
    BY <1>1, <1>2, <2>3 DEF AnswersInv, HeadsInv
  <2> QED BY <2>1, <2>2, <2>3
<1>4. \A id \in Segment : Len(log[id]) <= Len(log'[id]) /\ Len(log'[id]) \in Nat
  BY <1>1, LogLengths
<1> QED BY <1>1, <1>2, <1>3, <1>4, EffectKeepsAnswers

LEMMA LogletKeepsAnswers ==
  ASSUME ChainsInv, AnswersInv, NEW m \in msgs, LogletAppends(m) \/ LogletSeals(m) \/ LogletTrims(m)
  PROVE  AnswersInv'
<1>1. UNCHANGED <<history, call, msgs, answers>> /\ Types /\ Installed' = Installed
  BY DEF LogletAppends, LogletSeals, LogletTrims, ChainsInv, Installed
<1>2. m \in Message
  BY <1>1 DEF Types
<1>3. \A id \in Segment : Len(log[id]) <= Len(log'[id]) /\ Len(log'[id]) \in Nat
  <2>1. CASE LogletAppends(m)
    <3>1. /\ m.segment \in Segment /\ m.command \in Command /\ log \in [Segment -> Seq(Command)]
          /\ log' = [log EXCEPT ![m.segment] = Append(log[m.segment], m.command)]
      BY <1>1, <1>2, <2>1 DEF LogletAppends, Message, Types
    <3> TAKE id \in Segment
    <3>2. log[id] \in Seq(Command)
      BY <3>1
    <3>3. log'[id] = log[id] \/ log'[id] = Append(log[id], m.command)
      BY <3>1
    <3> QED BY <3>1, <3>2, <3>3
  <2>2. CASE LogletSeals(m) \/ LogletTrims(m)
    BY <1>1, <2>2, LogLengths DEF LogletSeals, LogletTrims
  <2> QED BY <2>1, <2>2
<1>4. \A id \in Segment : trimmed'[id] = trimmed[id] \/ WantedOf(id, trimmed'[id])
  <2>1. CASE LogletTrims(m)
    <3>1. WantedOf(m.segment, m.target)
      BY <2>1 DEF LogletTrims, AnswersInv, TrimsInv
    <3> QED BY <1>1, <2>1, <3>1 DEF LogletTrims, Types
  <2>2. CASE LogletAppends(m) \/ LogletSeals(m)
    BY <2>2 DEF LogletAppends, LogletSeals
  <2> QED BY <2>1, <2>2
<1> QED BY <1>1, <1>3, <1>4, EffectKeepsAnswers

LEMMA StutterKeepsAnswers ==
  ASSUME ChainsInv, AnswersInv, UNCHANGED vars
  PROVE  AnswersInv'
<1>1. UNCHANGED <<history, log, trimmed, call, msgs, answers>> /\ Types /\ Installed' = Installed
  BY DEF vars, loglets, ChainsInv, Installed
<1> QED BY <1>1, LogLengths, EffectKeepsAnswers

LEMMA NextKeepsAnswers == ChainsInv /\ AnswersInv /\ [Next]_vars => AnswersInv'
<1> SUFFICES ASSUME ChainsInv, AnswersInv, [Next]_vars PROVE AnswersInv'
  OBVIOUS
<1>1. ASSUME NEW w \in Workload, Begin(w[1], w[2], w[3]) PROVE AnswersInv'
  <2>1. w[1] \in Call /\ w[2] \in Client /\ w[3] \in Request
    BY WorkloadAssumption
  <2> QED BY <1>1, <2>1, BeginKeepsAnswers
<1>2. ASSUME NEW c \in Call, Step(c) \/ Unavailable(c) \/ Raise(c) PROVE AnswersInv'
  BY <1>2, AppendingKeepsAnswers, TailAnsweredKeepsAnswers, RecoveringKeepsAnswers,
     RefreshedKeepsAnswers, SealingKeepsAnswers, InstallAnsweredKeepsAnswers, TrimNextKeepsAnswers,
     DropKeepsAnswers, ReadNextKeepsAnswers DEF Step
<1>3. ASSUME NEW m \in msgs, Effect(m) PROVE AnswersInv'
  BY <1>3, InstallKeepsAnswers, LogletKeepsAnswers DEF Effect
<1>4. CASE UNCHANGED vars
  BY <1>4, StutterKeepsAnswers
<1> QED BY <1>1, <1>2, <1>3, <1>4 DEF Next

\* AnswersInv holds always: chains begin, and Loglets are trimmed, only where a prefix_trim allows
\* it, and what check_tail tells its callers covers what was acknowledged before.
THEOREM AnswersInvariant == Spec => []AnswersInv
<1>1. Init => AnswersInv
  BY StartsAnswers
<1>2. ChainsInv /\ AnswersInv /\ [Next]_vars => AnswersInv'
  BY NextKeepsAnswers
<1> QED BY <1>1, <1>2, ChainsInvariant, PTL DEF Spec

\* check_tail never leaves out a command acknowledged before it was called, unless it says that the
\* segment is sealed: it answers for the active segment only while that is not sealed.
THEOREM TailsCoverAcknowledged == Spec => []TailsCoverAcks
<1>1. AnswersInv => TailsCoverAcks
  BY DEF AnswersInv
<1> QED BY <1>1, AnswersInvariant, PTL

\* The segment of the newest chain that begins at or before a position is the last of those.
LEMMA CoveringSegment ==
  ASSUME ChainsInv, Len(history) > 0, NEW p \in Nat, First(Newest).start <= p
  PROVE  \E i \in DOMAIN Newest : Covers(Newest[i], p)
<1> DEFINE begun == {i \in 1..Len(Newest) : Newest[i].start <= p}
<1>1. Newest \in Chain
  <2>1. Types /\ Len(history) \in 1..Len(history)
    BY DEF ChainsInv, Types
  <2> QED BY <2>1, VersionType DEF Newest
<1>2. /\ Len(Newest) \in Nat /\ Len(Newest) > 0 /\ DOMAIN Newest = 1..Len(Newest)
      /\ Active(Newest).stop = Open
      /\ \A i \in 1..Len(Newest) : Newest[i] \in SegmentRecord
      /\ \A i \in 1..(Len(Newest) - 1) : Newest[i].stop \in Nat /\ Newest[i + 1].start = Newest[i].stop
  BY <1>1, ChainFacts
<1>3. begun \in SUBSET Nat /\ begun # {} /\ \A i \in begun : i <= Len(Newest)
  <2>1. 1 \in begun
    BY <1>2 DEF First
  <2> QED BY <2>1
<1>4. PICK i \in begun : \A j \in begun : j <= i
  BY <1>2, <1>3, HighestExists
<1>5. i \in 1..Len(Newest) /\ Newest[i].start <= p
  OBVIOUS
<1>6. CASE i = Len(Newest)
  BY <1>2, <1>5, <1>6 DEF Covers, Active
<1>7. CASE i # Len(Newest)
  <2> DEFINE n == Len(Newest)
  <2>1. n \in Nat /\ i \in 1..n /\ i # n
    BY <1>2, <1>5, <1>7
  <2> HIDE DEF n
  <2>2. i \in 1..(n - 1) /\ i + 1 \in 1..n /\ ~ (i + 1 <= i)
    BY <2>1
  <2>3. i + 1 \notin begun
    BY <1>4, <2>2
  <2>4. Newest[i].stop \in Nat /\ Newest[i + 1].start = Newest[i].stop
    BY <1>2, <2>2 DEF n
  <2>5. ~ (Newest[i + 1].start <= p)
    BY <2>2, <2>3 DEF n
  <2>6. p < Newest[i].stop
    BY <2>4, <2>5
  <2> QED BY <1>5, <2>6 DEF Covers
<1> QED BY <1>6, <1>7

\* An acknowledged command stays readable through the newest chain, at the position that append
\* returned, until a prefix_trim asks for its removal: reconfig_truncate and reconfig_extend lose none.
THEOREM AcksKept == Spec => []AcksAreKept
<1>1. ChainsInv /\ AnswersInv => AcksAreKept
  <2> SUFFICES ASSUME ChainsInv, AnswersInv, NEW a \in answers, a.kind = "append",
                      ~ \E n \in Trims : a.position < n
               PROVE  \E i \in DOMAIN Newest :
                        /\ Covers(Newest[i], a.position)
                        /\ Readable(Newest[i].id, a.position - Newest[i].start) = {a.command}
    BY DEF AcksAreKept, Newest
  <2>1. PICK s \in Installed : Holds(s, a)
    BY DEF ChainsInv, AcksInv
  <2>2. /\ s.id \in Segment /\ s.start \in Nat /\ End(s) \in Nat /\ Len(log[s.id]) \in Nat
        /\ Types /\ Len(history) \in 1..Len(history) /\ Newest \in Chain
    BY <2>1, InstalledType, NewestFacts DEF ChainsInv
  <2>3. a.position \in Nat /\ s.start <= a.position /\ a.position < End(s)
    BY <2>1, <2>2 DEF Holds
  <2>4. ASSUME NEW p \in Nat, Wanted(p) PROVE p <= a.position
    <3>1. CASE p = 0
      BY <2>3, <3>1
    <3>2. CASE \E n \in Trims : p <= n
      <4>1. PICK n \in Trims : p <= n
        BY <3>2
      <4>2. n \in Nat
        <5>1. PICK c \in Call : call[c].pc # "idle" /\ call[c].request.op = "trim" /\ n = call[c].request.position
          BY DEF Trims
        <5> QED BY <5>1, CallFacts DEF Request, Position
      <4> QED BY <2>3, <4>1, <4>2
    <3> QED BY <2>4, <3>1, <3>2 DEF Wanted
  <2>5. First(Newest).start \in Nat /\ First(Newest).start <= a.position
    <3>1. First(Newest).start \in Nat
      BY <2>2, ChainFacts DEF SegmentRecord
    <3>2. Wanted(First(Newest).start)
      BY <2>2 DEF AnswersInv, HeadsInv, Newest, Types
    <3> QED BY <2>4, <3>1, <3>2
  <2>6. PICK i \in DOMAIN Newest : Covers(Newest[i], a.position)
    BY <2>2, <2>3, <2>5, CoveringSegment
  <2> DEFINE t == Newest[i]
  <2>7. t \in Installed
    BY <2>2, InstalledIs DEF Newest, Types
  <2>8. /\ t.start \in Nat /\ End(t) \in Nat /\ t.start <= End(t) /\ t.stop \in Nat \cup {Open}
    BY <2>2, <2>7, InstalledType DEF SegmentRecord
  <2>9. Apart(s, t) /\ (t.stop # Open => Closed(t))
    BY <2>1, <2>7 DEF ChainsInv, SegmentsInv
  <2>10. t.start <= a.position /\ (t.stop = Open \/ a.position < t.stop)
    BY <2>6 DEF Covers
  <2>11. s.id = t.id /\ s.start = t.start
    <3>1. CASE s.id = t.id
      BY <2>9, <3>1 DEF Apart
    <3>2. CASE Before(s, t)
      BY <2>2, <2>3, <2>8, <2>10, <3>2 DEF Before
    <3>3. CASE Before(t, s) /\ t.stop # Open
      <4>1. t.stop = End(t) /\ End(t) <= s.start
        BY <2>9, <3>3 DEF Closed, Before
      <4> QED BY <2>2, <2>3, <2>8, <2>10, <3>3, <4>1
    <3>4. CASE Before(t, s) /\ t.stop = Open
      <4>1. t = Active(Newest)
        <5>1. i \in 1..Len(Newest) /\ (i # Len(Newest) => i \in 1..(Len(Newest) - 1))
          BY <2>2, ChainFacts
        <5>2. i # Len(Newest) => t.stop \in Nat
          BY <2>2, <5>1, ChainFacts
        <5> QED BY <3>4, <5>2 DEF Active, Open
      <4>2. s.id = t.id \/ Before(s, t)
        BY <2>1, <4>1 DEF ChainsInv, SegmentsInv
      <4> QED BY <3>1, <3>2, <4>2
    <3> QED BY <2>9, <3>1, <3>2, <3>3, <3>4 DEF Apart
  <2>12. Readable(t.id, a.position - t.start) = {a.command}
    <3> DEFINE p == a.position - t.start
    <3>1. p \in Nat /\ p < Len(log[t.id]) /\ log[t.id][p + 1] = a.command
      BY <2>1, <2>2, <2>3, <2>11 DEF Holds, End
    <3>2. trimmed[t.id] \in Nat /\ trimmed[t.id] <= p
      <4>1. trimmed[t.id] \in Nat
        BY <2>2, <2>11 DEF Types
      <4>2. CASE trimmed[t.id] > 0
        <5>1. PICK r \in Installed : r.id = t.id /\ Wanted(r.start + trimmed[t.id])
          BY <2>2, <2>11, <4>2 DEF AnswersInv, TrimsInv, WantedOf
        <5>2. r.start = t.start
          BY <2>7, <5>1 DEF ChainsInv, SegmentsInv, Apart
        <5>3. t.start + trimmed[t.id] <= a.position
          BY <2>4, <2>8, <4>1, <5>1, <5>2
        <5> QED BY <2>3, <2>8, <4>1, <5>3
      <4> QED BY <3>1, <4>1, <4>2
    <3> HIDE DEF p
    <3>3. ~ (p < trimmed[t.id])
      BY <3>1, <3>2
    <3>4. Readable(t.id, p) = {a.command}
      BY <3>1, <3>3 DEF Readable
    <3> QED BY <3>4 DEF p
  <2> QED BY <2>6, <2>12
<1> QED BY <1>1, ChainsInvariant, AnswersInvariant, PTL

-----------------------------------------------------------------------------
(* Who stores the active segment: what a step of a call keeps.             *)

LEMMA ConfiguredRecord ==
  ASSUME NEW P, NEW K, NEW R, NEW T, NEW S, NEW D, NEW W, NEW G, NEW X, NEW Q, NEW F,
         NEW y \in [pc : P, client : K, request : R, attempt : T, snapshot : S,
                    candidate : D, why : W, config : G, index : X, asked : Q, floor : F],
         NEW p, NEW z, NEW g
  PROVE  [y EXCEPT !.pc = p, !.snapshot = z, !.config = g].config = g
OBVIOUS

LEMMA CandidateRecord ==
  ASSUME NEW P, NEW K, NEW R, NEW T, NEW S, NEW D, NEW W, NEW G, NEW X, NEW Q, NEW F,
         NEW y \in [pc : P, client : K, request : R, attempt : T, snapshot : S,
                    candidate : D, why : W, config : G, index : X, asked : Q, floor : F],
         NEW p, NEW z, NEW d
  PROVE  [y EXCEPT !.pc = p, !.snapshot = z, !.candidate = d].candidate = d
OBVIOUS

LEMMA SealedRecord ==
  ASSUME NEW P, NEW K, NEW R, NEW T, NEW S, NEW D, NEW W, NEW G, NEW X, NEW Q, NEW F,
         NEW y \in [pc : P, client : K, request : R, attempt : T, snapshot : S,
                    candidate : D, why : W, config : G, index : X, asked : Q, floor : F],
         NEW p
  PROVE  [y EXCEPT !.pc = p].config = y.config
OBVIOUS

LEMMA RecordFields ==
  ASSUME NEW y \in CallRecord
  PROVE  /\ \A p, z, g : [y EXCEPT !.pc = p, !.snapshot = z, !.config = g].config = g
         /\ \A p, z, d : [y EXCEPT !.pc = p, !.snapshot = z, !.candidate = d].candidate = d
         /\ \A p : [y EXCEPT !.pc = p].config = y.config
<1>1. \A p, z, g : [y EXCEPT !.pc = p, !.snapshot = z, !.config = g].config = g
  BY ConfiguredRecord, Zenon DEF CallRecord
<1>2. \A p, z, d : [y EXCEPT !.pc = p, !.snapshot = z, !.candidate = d].candidate = d
  BY CandidateRecord, Zenon DEF CallRecord
<1>3. \A p : [y EXCEPT !.pc = p].config = y.config
  BY SealedRecord, Zenon DEF CallRecord
<1> QED BY <1>1, <1>2, <1>3

LEMMA StartsMembers == Init => MembersInv
<1> SUFFICES ASSUME Init PROVE MembersInv
  OBVIOUS
<1>1. \A c \in Call : Succeeds(call[c])
  <2> SUFFICES ASSUME NEW c \in Call PROVE Succeeds(call[c])
    OBVIOUS
  <2>1. call[c].pc = "idle"
    BY IdleType DEF Init
  <2> QED BY <2>1 DEF Succeeds
<1>2. DOMAIN history = {} /\ msgs = {} /\ answers = {}
  BY DEF Init
<1> QED BY <1>1, <1>2 DEF MembersInv, OrderInv, SuccessionInv, JoinedInv

\* A confirmed join is in the version that its caller was told.
Confirmed(a) == a.version \in DOMAIN history /\ a.node \in Members(history[a.version]) \cap Eligible

JoinsTrue == \A a \in answers' : a \in answers \/ a.kind # "join" \/ Confirmed(a)

LEMMA SilentJoins == answers' = answers => JoinsTrue
BY DEF JoinsTrue

LEMMA StepKeepsMembers ==
  ASSUME ChainsInv, MembersInv, JoinsTrue, UNCHANGED <<history, loglets>>, NEW c \in Call, NEW x, NEW requests,
         call' = [call EXCEPT ![c] = x], msgs' = msgs \cup requests, Succeeds(x),
         \A m \in requests : m.type = "install" /\ m.expected > 0 =>
           Keeps(Members(m.chain), history[m.expected])
  PROVE  MembersInv'
<1>1. OrderInv'
  BY DEF MembersInv, OrderInv, Keeps, Members, Active
<1>2. SuccessionInv'
  <2>1. \A m \in msgs' : m.type = "install" /\ m.expected > 0 => Keeps(Members(m.chain), history[m.expected])
    BY DEF MembersInv, SuccessionInv
  <2> QED BY <2>1 DEF SuccessionInv, Keeps, Members, Active
<1>3. \A d \in Call : Succeeds(call'[d])
  <2> SUFFICES ASSUME NEW d \in Call PROVE Succeeds(call'[d])
    OBVIOUS
  <2>1. call'[d] = IF d = c THEN x ELSE call[d]
    BY DEF ChainsInv, Types
  <2>2. Succeeds(call[d])
    BY DEF MembersInv
  <2> QED BY <2>1, <2>2
<1>4. (\A d \in Call : Succeeds(call[d]))'
  BY <1>3 DEF Succeeds, Admits, Keeps, Members, Active
<1>5. JoinedInv'
  BY DEF JoinsTrue, Confirmed, MembersInv, JoinedInv, Members, Active
<1> QED BY <1>1, <1>2, <1>4, <1>5 DEF MembersInv

\* A step that proposes nothing.
LEMMA QuietKeepsMembers ==
  ASSUME ChainsInv, MembersInv, JoinsTrue, UNCHANGED <<history, loglets>>, NEW c \in Call, NEW x, NEW requests,
         call' = [call EXCEPT ![c] = x], msgs' = msgs \cup requests,
         x.pc \notin {"seal", "sealed_tail", "install"}, Admits(x, Eligible),
         \A m \in requests : m.type # "install"
  PROVE  MembersInv'
<1>1. Succeeds(x)
  BY DEF Succeeds
<1>2. \A m \in requests : m.type = "install" /\ m.expected > 0 =>
        Keeps(Members(m.chain), history[m.expected])
  OBVIOUS
<1> QED BY <1>1, <1>2, StepKeepsMembers

\* A call joins only a node that the manifest lists.
LEMMA CallerAdmits ==
  ASSUME MembersInv, NEW c \in Call, call[c].pc # "idle"
  PROVE  Admits(call[c], Eligible)
BY DEF MembersInv, Succeeds

LEMMA EndKeepsMembers ==
  ASSUME ChainsInv, MembersInv, JoinsTrue, UNCHANGED <<history, loglets>>, NEW c \in Call, call[c].pc # "idle",
         NEW p \in {"done", "failed"},
         call' = [call EXCEPT ![c] = [Idle EXCEPT !.pc = p, !.client = call[c].client,
                                                  !.request = call[c].request]],
         msgs' = msgs
  PROVE  MembersInv'
<1> DEFINE x == [Idle EXCEPT !.pc = p, !.client = call[c].client, !.request = call[c].request]
           requests == {}
<1>1. call[c] \in CallRecord
  BY DEF ChainsInv, Types
<1>2. Begun(CallRecord, x, p, call[c].client, call[c].request, Uninstalled, "none", 0)
  BY <1>1, EndedType
<1>3. call' = [call EXCEPT ![c] = x] /\ msgs' = msgs \cup requests
  OBVIOUS
<1>4. \A m \in requests : m.type # "install"
  OBVIOUS
<1> HIDE DEF x, requests
<1>5. x.pc \notin {"seal", "sealed_tail", "install"} /\ Admits(x, Eligible)
  BY <1>2, CallerAdmits DEF Begun, Admits
<1> QED BY <1>3, <1>4, <1>5, QuietKeepsMembers

LEMMA FinishKeepsMembers ==
  ASSUME ChainsInv, MembersInv, UNCHANGED <<history, loglets>>, NEW c \in Call, call[c].pc # "idle", NEW told,
         \A a \in told : a.kind = "join" => Confirmed(a), Finish(c, told)
  PROVE  MembersInv'
<1>1. JoinsTrue
  BY DEF JoinsTrue, Finish
<1> QED BY <1>1, EndKeepsMembers DEF Finish

LEMMA FailKeepsMembers ==
  ASSUME ChainsInv, MembersInv, UNCHANGED <<history, loglets>>, NEW c \in Call, call[c].pc # "idle", Fail(c)
  PROVE  MembersInv'
BY SilentJoins, EndKeepsMembers DEF Fail

LEMMA TryKeepsMembers ==
  ASSUME ChainsInv, MembersInv, UNCHANGED <<history, loglets>>, NEW c \in Call,
         NEW state \in CallRecord, Admits(state, Eligible), NEW z \in ClientSnapshot, Try(c, state, z)
  PROVE  MembersInv'
<1>1. JoinsTrue
  BY SilentJoins DEF Try
<1>2. ASSUME NEW p \in {"append", "tail"}, NEW requests, \A m \in requests : m.type # "install",
             Await(c, [state EXCEPT !.pc = p, !.snapshot = z, !.why = "none"], requests)
      PROVE  MembersInv'
  <2> DEFINE x == [state EXCEPT !.pc = p, !.snapshot = z, !.why = "none"]
  <2>1. p \in Phases /\ "none" \in Causes
    BY DEF Phases, Causes
  <2>2. Advances(CallRecord, x, state, p, z, "none")
    BY <2>1, Advancing
  <2>3. call' = [call EXCEPT ![c] = x] /\ msgs' = msgs \cup requests
    BY <1>2 DEF Await
  <2> HIDE DEF x
  <2>4. x.pc \notin {"seal", "sealed_tail", "install"} /\ Admits(x, Eligible)
    BY <2>2 DEF Advances, Admits
  <2> QED BY <1>1, <1>2, <2>3, <2>4, QuietKeepsMembers
<1>3. CASE state.request.op = "append"
  <2>1. AppendTo(Active(z.chain).id, state.request.command).type # "install"
    BY DEF AppendTo
  <2> QED BY <1>2, <1>3, <2>1 DEF Try
<1>4. CASE state.request.op # "append"
  BY <1>2, <1>4 DEF Try
<1> QED BY <1>3, <1>4

LEMMA RetryKeepsMembers ==
  ASSUME ChainsInv, MembersInv, UNCHANGED <<history, loglets>>, NEW c \in Call, call[c].pc # "idle",
         NEW z \in ClientSnapshot, Retry(c, z)
  PROVE  MembersInv'
<1> DEFINE state == [call[c] EXCEPT !.attempt = @ + 1]
<1>1. call[c] \in CallRecord
  BY DEF ChainsInv, Types
<1>2. call[c].attempt + 1 \in Nat
  BY <1>1 DEF CallRecord
<1>3. Advances(CallRecord, state, call[c], call[c].pc, call[c].snapshot, call[c].why)
  BY <1>1, <1>2, Advancing
<1>4. Try(c, state, z)
  BY DEF Retry
<1> HIDE DEF state
<1>5. state \in CallRecord /\ Admits(state, Eligible)
  BY <1>3, CallerAdmits DEF Advances, Admits
<1> QED BY <1>4, <1>5, TryKeepsMembers

LEMMA GoRecoverKeepsMembers ==
  ASSUME ChainsInv, MembersInv, UNCHANGED <<history, loglets>>, NEW c \in Call, call[c].pc # "idle",
         NEW why \in {"sealed", "unavailable"}, GoRecover(c, why)
  PROVE  MembersInv'
<1>1. CASE call[c].attempt = MaxAttempts
  BY <1>1, FailKeepsMembers DEF GoRecover
<1>2. CASE call[c].attempt # MaxAttempts
  <2> DEFINE x == [call[c] EXCEPT !.pc = "lock", !.why = why]
             requests == {}
  <2>1. call[c] \in CallRecord /\ "lock" \in Phases /\ why \in Causes
    BY DEF Phases, Causes, ChainsInv, Types
  <2>2. Advances(CallRecord, x, call[c], "lock", call[c].snapshot, why)
    BY <2>1, Advancing
  <2>3. call' = [call EXCEPT ![c] = x] /\ msgs' = msgs \cup requests /\ JoinsTrue
    BY <1>2, SilentJoins DEF GoRecover, Await
  <2>4. \A m \in requests : m.type # "install"
    OBVIOUS
  <2> HIDE DEF x, requests
  <2>5. x.pc \notin {"seal", "sealed_tail", "install"} /\ Admits(x, Eligible)
    BY <2>2, CallerAdmits DEF Advances, Admits
  <2> QED BY <2>3, <2>4, <2>5, QuietKeepsMembers
<1> QED BY <1>1, <1>2

LEMMA AwaitKeepsMembers ==
  ASSUME ChainsInv, MembersInv, UNCHANGED <<history, loglets>>, NEW c \in Call, NEW x,
         NEW y, NEW p, NEW z, NEW why, Advances(CallRecord, x, y, p, z, why), Admits(y, Eligible),
         p \notin {"seal", "sealed_tail", "install"}, Await(c, x, {}), answers' = answers
  PROVE  MembersInv'
<1> DEFINE requests == {}
<1>1. call' = [call EXCEPT ![c] = x] /\ msgs' = msgs \cup requests /\ JoinsTrue
  BY SilentJoins DEF Await
<1>2. \A m \in requests : m.type # "install"
  OBVIOUS
<1> HIDE DEF requests
<1>3. x.pc \notin {"seal", "sealed_tail", "install"} /\ Admits(x, Eligible)
  BY DEF Advances, Admits
<1> QED BY <1>1, <1>2, <1>3, QuietKeepsMembers

LEMMA ExtendKeepsMembers ==
  ASSUME ChainsInv, MembersInv, UNCHANGED <<history, loglets>>, NEW c \in Call,
         NEW state \in CallRecord, Admits(state, Eligible), NEW z \in ClientSnapshot, NEW config \in Config,
         state.request.op # "seal" => Keeps(config.members, z.chain) /\ Admits(state, config.members),
         Extend(c, state, z, config)
  PROVE  MembersInv'
<1> DEFINE x == [state EXCEPT !.pc = "seal", !.snapshot = z, !.config = config]
           requests == {SealOf(Active(z.chain).id)}
<1>1. "seal" \in Phases
  BY DEF Phases
<1>2. Advances(CallRecord, x, state, "seal", z, state.why) /\ x.config = config
  <2>1. x.config = config
    BY RecordFields
  <2> QED BY <1>1, <2>1, Advancing
<1>3. call' = [call EXCEPT ![c] = x] /\ msgs' = msgs \cup requests /\ JoinsTrue
  BY SilentJoins DEF Extend, Await
<1>4. \A m \in requests : m.type = "install" /\ m.expected > 0 => Keeps(Members(m.chain), history[m.expected])
  BY DEF SealOf
<1> HIDE DEF x, requests
<1>5. Succeeds(x)
  BY <1>2 DEF Advances, Succeeds, Admits
<1> QED BY <1>3, <1>4, <1>5, StepKeepsMembers

LEMMA ProposeKeepsMembers ==
  ASSUME ChainsInv, MembersInv, UNCHANGED <<history, loglets>>, NEW c \in Call,
         NEW state \in CallRecord, Admits(state, Eligible), NEW z \in ClientSnapshot,
         NEW chain \in Seq(SegmentRecord), Admits(state, Members(chain)),
         z.version > 0 => Keeps(Members(chain), history[z.version]),
         Propose(c, state, z, chain)
  PROVE  MembersInv'
<1> DEFINE x == [state EXCEPT !.pc = "install", !.snapshot = z, !.candidate = chain]
           m == InstallOf(z.version, chain)
           requests == {m}
<1>1. "install" \in Phases
  BY DEF Phases
<1>2. Advances(CallRecord, x, state, "install", z, state.why) /\ x.candidate = chain
  <2>1. x.candidate = chain
    BY RecordFields
  <2> QED BY <1>1, <2>1, Advancing
<1>3. call' = [call EXCEPT ![c] = x] /\ msgs' = msgs \cup requests /\ JoinsTrue
  BY SilentJoins DEF Propose, Await
<1>4. m.chain = chain /\ m.expected = z.version
  BY DEF InstallOf
<1> HIDE DEF x, m
<1>5. \A r \in requests : r.type = "install" /\ r.expected > 0 => Keeps(Members(r.chain), history[r.expected])
  BY <1>4
<1> HIDE DEF requests
<1>6. Succeeds(x)
  BY <1>2 DEF Advances, Succeeds, Admits
<1> QED BY <1>3, <1>5, <1>6, StepKeepsMembers

-----------------------------------------------------------------------------
(* Who stores the active segment: the actions.                             *)

LEMMA ActiveOfModified ==
  ASSUME NEW chain \in Chain, NEW i \in 1..(Len(chain) - 1), NEW config
  PROVE  Active(Modified(chain, i, config)) = Active(chain)
<1>1. chain \in Seq(SegmentRecord) /\ Len(chain) \in Nat /\ Len(chain) \in 1..Len(chain)
  BY ChainFacts
<1>2. Len(Modified(chain, i, config)) = Len(chain) /\ i # Len(chain)
  BY <1>1 DEF Modified
<1> QED BY <1>1, <1>2 DEF Active, Modified

LEMMA ActiveOfTail ==
  ASSUME NEW chain \in Chain, Len(chain) > 1
  PROVE  Active(Tail(chain)) = Active(chain)
<1>1. chain \in Seq(SegmentRecord) /\ Len(chain) \in Nat
  BY ChainFacts
<1>2. Len(Tail(chain)) = Len(chain) - 1 /\ Len(chain) - 1 \in 1..(Len(chain) - 1)
  BY <1>1
<1> QED BY <1>1, <1>2 DEF Active

LEMMA ActiveOfExtended ==
  ASSUME NEW chain \in Chain, NEW stop, NEW id, NEW config,
         NEW longer \in Seq(SegmentRecord), longer = Extended(chain, stop, id, config)
  PROVE  Active(longer) = SegmentOf(id, stop, config) /\ Members(longer) = config.members
<1>1. Len(chain) \in Nat /\ chain \in Seq(SegmentRecord)
  BY ChainFacts
<1>2. DOMAIN longer = 1..(Len(chain) + 1)
  BY DEF Extended
<1>3. Len(longer) = Len(chain) + 1
  BY <1>1, <1>2
<1>4. longer[Len(chain) + 1] = SegmentOf(id, stop, config)
  BY <1>1 DEF Extended
<1> QED BY <1>3, <1>4 DEF Members, Active, SegmentOf

LEMMA BeginKeepsMembers ==
  ASSUME ChainsInv, MembersInv, NEW c \in Call, NEW k \in Client, NEW request \in Request,
         request.op = "join" => request.node \in Eligible, Begin(c, k, request)
  PROVE  MembersInv'
<1> DEFINE y == NewCall(k, request)
<1>1. Types /\ Len(history) \in Nat /\ UNCHANGED <<history, loglets>> /\ call[c].pc = "idle"
  BY DEF ChainsInv, Types, Begin
<1>2. Begun(CallRecord, y, "idle", k, request, Uninstalled, "none", AckedTail)
  BY <1>1, BegunType, AckedTailFacts
<1>3. cached[k] \in ClientSnapshot /\ Known(cached[k])
  BY DEF ChainsInv, CallsInv, Types
<1>4. InitialConfig \in Config
  BY NodesExist
<1> HIDE DEF y
<1>5. y \in CallRecord /\ y.request = request /\ Admits(y, Eligible)
  BY <1>2 DEF Begun, Admits
<1>6. CASE BeginBootstrap(c, k, request)
  <2> DEFINE chain == <<SegmentOf(made + 1, 0, InitialConfig)>>
  <2>1. made < MaxSegment /\ Propose(c, y, Uninstalled, chain) /\ request.op = "bootstrap"
    BY <1>6 DEF BeginBootstrap, y
  <2>2. made + 1 \in Segment
    BY <2>1, SegmentAssumption DEF Segment, ChainsInv, Types
  <2>3. SegmentOf(made + 1, 0, InitialConfig) \in SegmentRecord
    BY <1>4, <2>2 DEF SegmentOf, SegmentRecord
  <2>4. chain \in Seq(SegmentRecord)
    BY <2>3
  <2> HIDE DEF chain
  <2>5. Admits(y, Members(chain)) /\ ~ (Uninstalled.version > 0) /\ Uninstalled \in ClientSnapshot
    BY <1>1, <1>5, <2>1, UninstalledKnown DEF Admits
  <2> QED BY <1>1, <1>5, <2>1, <2>4, <2>5, ProposeKeepsMembers
<1>7. CASE BeginJoin(c, k, request)
  <2> DEFINE x == [y EXCEPT !.pc = "refresh"]
  <2>1. Await(c, x, {}) /\ answers' = answers
    BY <1>7 DEF BeginJoin, y
  <2>2. "refresh" \in Phases
    BY DEF Phases
  <2>3. Advances(CallRecord, x, y, "refresh", y.snapshot, y.why)
    BY <1>5, <2>2, Advancing
  <2> HIDE DEF x
  <2> QED BY <1>1, <1>5, <2>1, <2>3, AwaitKeepsMembers
<1>8. CASE BeginSeal(c, k, request)
  <2>1. Extend(c, y, cached[k], InitialConfig) /\ request.op = "seal"
    BY <1>8 DEF BeginSeal, y
  <2> QED BY <1>1, <1>3, <1>4, <1>5, <2>1, ExtendKeepsMembers
<1>9. CASE BeginOnActive(c, k, request)
  <2>1. Try(c, y, cached[k])
    BY <1>9 DEF BeginOnActive, y
  <2> QED BY <1>1, <1>3, <1>5, <2>1, TryKeepsMembers
<1>10. CASE BeginRead(c, k, request)
  <2> DEFINE x == [y EXCEPT !.pc = "read", !.snapshot = cached[k]]
  <2>1. Await(c, x, {}) /\ answers' = answers
    BY <1>10 DEF BeginRead, y
  <2>2. "read" \in Phases
    BY DEF Phases
  <2>3. Advances(CallRecord, x, y, "read", cached[k], y.why)
    BY <1>3, <1>5, <2>2, Advancing
  <2> HIDE DEF x
  <2> QED BY <1>1, <1>5, <2>1, <2>3, AwaitKeepsMembers
<1>11. CASE BeginModify(c, k, request)
  <2>1. PICK i \in 1..(Len(cached[k].chain) - 1) :
          Propose(c, y, cached[k], Modified(cached[k].chain, i, request.config))
    BY <1>11 DEF BeginModify, y
  <2>2. request.config \in Config /\ request.op = "modify"
    BY <1>11 DEF BeginModify, Request
  <2>3. cached[k].chain \in Seq(SegmentRecord)
    BY <1>3 DEF ClientSnapshot
  <2>4. cached[k].chain # <<>> /\ (cached[k].chain # <<>> => cached[k].version > 0)
    BY <1>3, <2>1, <2>3 DEF Known, Version, ClientSnapshot
  <2>5. /\ cached[k].version \in 1..Len(history) /\ cached[k].chain = history[cached[k].version]
        /\ cached[k].chain \in Chain
    BY <1>1, <1>3, <2>4, OnSegmentFacts
  <2> DEFINE chain == Modified(cached[k].chain, i, request.config)
  <2>6. chain \in Seq(SegmentRecord)
    BY <2>2, <2>5, ModifiedDerived
  <2>7. Members(chain) = Members(history[cached[k].version])
    BY <2>5, ActiveOfModified DEF Members
  <2>8. Propose(c, y, cached[k], chain)
    BY <2>1
  <2> HIDE DEF chain
  <2>9. Admits(y, Members(chain)) /\ Keeps(Members(chain), history[cached[k].version])
    BY <1>5, <2>2, <2>7 DEF Admits, Keeps
  <2> QED BY <1>1, <1>3, <1>5, <2>6, <2>8, <2>9, ProposeKeepsMembers
<1> QED BY <1>6, <1>7, <1>8, <1>9, <1>10, <1>11 DEF Begin

LEMMA AppendingKeepsMembers ==
  ASSUME ChainsInv, MembersInv, NEW c \in Call,
         Raise(c) \/ Unavailable(c) \/ AppendAnswered(c) \/ AppendRefused(c) \/ RefreshedEmpty(c)
  PROVE  MembersInv'
<1>1. CASE Raise(c)
  BY <1>1, FailKeepsMembers DEF Raise, Running
<1>2. CASE Unavailable(c)
  BY <1>2, GoRecoverKeepsMembers DEF Unavailable
<1>3. CASE AppendAnswered(c)
  <2>1. PICK i \in DOMAIN log[Target(c).id] :
          Finish(c, {[kind |-> "append", client |-> ClientOf(c), command |-> call[c].request.command,
                      position |-> Target(c).start + i - 1]})
    BY <1>3 DEF AppendAnswered
  <2> QED BY <1>3, <2>1, FinishKeepsMembers DEF AppendAnswered
<1>4. CASE AppendRefused(c)
  BY <1>4, GoRecoverKeepsMembers DEF AppendRefused
<1>5. CASE RefreshedEmpty(c)
  BY <1>5, FailKeepsMembers DEF RefreshedEmpty
<1> QED BY <1>1, <1>2, <1>3, <1>4, <1>5

LEMMA TailAnsweredKeepsMembers ==
  ASSUME ChainsInv, MembersInv, NEW c \in Call, TailAnswered(c)
  PROVE  MembersInv'
<1>1. call[c].pc = "tail" /\ call[c].pc # "idle" /\ call[c].pc \in OnSegment
  BY DEF TailAnswered, OnSegment
<1>2. UNCHANGED <<history, loglets>>
  BY DEF TailAnswered
<1>3. ASSUME NEW tail, NEW isSealed, TailReturned(c, tail, isSealed)
      PROVE  MembersInv'
  <2>1. CASE call[c].request.op = "check_tail"
    <3> DEFINE told == {[kind |-> "tail", client |-> ClientOf(c), position |-> tail, sealed |-> isSealed,
                         floor |-> call[c].floor]}
    <3>1. Finish(c, told) /\ \A a \in told : a.kind = "join" => Confirmed(a)
      BY <1>3, <2>1 DEF TailReturned
    <3> HIDE DEF told
    <3> QED BY <1>1, <1>2, <3>1, FinishKeepsMembers
  <2>2. CASE call[c].request.op # "check_tail" /\ call[c].request.position > tail
    BY <1>1, <1>2, <1>3, <2>2, FailKeepsMembers DEF TailReturned
  <2>3. CASE call[c].request.op # "check_tail" /\ ~ (call[c].request.position > tail)
    <3> DEFINE x == [call[c] EXCEPT !.pc = "trim", !.snapshot = Cached(c), !.index = 0, !.attempt = 1]
    <3>1. Await(c, x, {}) /\ answers' = answers
      BY <1>3, <2>3 DEF TailReturned
    <3>2. "trim" \in Phases /\ 0 \in Nat /\ 1 \in Nat
      BY DEF Phases
    <3>3. Advances(CallRecord, x, call[c], "trim", Cached(c), call[c].why)
      BY <1>1, <3>2, CallFacts, Advancing
    <3> HIDE DEF x
    <3> QED BY <1>1, <1>2, <3>1, <3>3, CallerAdmits, AwaitKeepsMembers
  <2> QED BY <2>1, <2>2, <2>3
<1>4. CASE Target(c).id \notin sealed \/ call[c].attempt = MaxAttempts
  <2>1. \E tail, isSealed : TailReturned(c, tail, isSealed)
    BY <1>4 DEF TailAnswered
  <2> QED BY <1>3, <2>1
<1>5. CASE Target(c).id \in sealed /\ call[c].attempt # MaxAttempts
  BY <1>1, <1>2, <1>5, GoRecoverKeepsMembers DEF TailAnswered
<1> QED BY <1>4, <1>5

LEMMA RecoveringKeepsMembers ==
  ASSUME ChainsInv, MembersInv, NEW c \in Call,
         TakeLock(c) \/ (SuccessorFound(c) /\ Keeps(call[c].config.members, Cached(c).chain))
  PROVE  MembersInv'
<1>1. CASE TakeLock(c)
  <2>1. call[c].pc # "idle" /\ UNCHANGED <<history, loglets>>
    BY <1>1 DEF TakeLock
  <2>2. CASE StillActive(c, Cached(c))
    <3> DEFINE x == [call[c] EXCEPT !.pc = "refresh", !.asked = Len(history)]
    <3>1. Await(c, x, {}) /\ answers' = answers
      BY <1>1, <2>2 DEF TakeLock
    <3>2. "refresh" \in Phases /\ Len(history) \in Nat
      BY DEF Phases, ChainsInv, Types
    <3>3. Advances(CallRecord, x, call[c], "refresh", call[c].snapshot, call[c].why)
      BY <2>1, <3>2, CallFacts, Advancing
    <3> HIDE DEF x
    <3> QED BY <2>1, <3>1, <3>3, CallerAdmits, AwaitKeepsMembers
  <2>3. CASE ~ StillActive(c, Cached(c))
    <3>1. Retry(c, Cached(c))
      BY <1>1, <2>3 DEF TakeLock
    <3> QED BY <2>1, <3>1, CallFacts, RetryKeepsMembers
  <2> QED BY <2>2, <2>3
<1>2. CASE SuccessorFound(c) /\ Keeps(call[c].config.members, Cached(c).chain)
  <2>1. call[c].pc # "idle" /\ UNCHANGED <<history, loglets>>
    BY <1>2 DEF SuccessorFound
  <2>2. PICK config \in Successors(call[c].config) : Extend(c, call[c], Cached(c), config)
    BY <1>2 DEF SuccessorFound
  <2>3. config \in Config /\ config.members = call[c].config.members
    <3>1. call[c].config \in Config
      BY <2>1, CallFacts
    <3>2. PICK n \in call[c].config.members : config = [call[c].config EXCEPT !.sequencer = n]
      BY <2>2 DEF Successors
    <3>3. n \in Node
      BY <3>1 DEF Config
    <3> QED BY <3>1, <3>2, <3>3 DEF Config
  <2>4. call[c].request.op # "join"
    <3>1. call[c].pc \in Recovering /\ Prepared(call[c])
      BY <1>2, <2>1, CallFacts DEF SuccessorFound, Recovering
    <3> QED BY <3>1 DEF Prepared, OnActive
  <2>5. Keeps(config.members, Cached(c).chain) /\ Admits(call[c], config.members)
    BY <1>2, <2>3, <2>4 DEF Admits
  <2>6. call[c] \in CallRecord /\ Cached(c) \in ClientSnapshot
    BY <2>1, CallFacts
  <2> QED BY <2>1, <2>2, <2>3, <2>5, <2>6, CallerAdmits, ExtendKeepsMembers
<1> QED BY <1>1, <1>2

LEMMA RefreshedKeepsMembers ==
  ASSUME ChainsInv, MembersInv, NEW c \in Call, Refreshed(c) \/ GraceOver(c)
  PROVE  MembersInv'
<1>1. call[c].pc # "idle" /\ UNCHANGED <<history, loglets>>
  BY DEF Refreshed, GraceOver
<1>2. call[c] \in CallRecord /\ Admits(call[c], Eligible)
  BY <1>1, CallerAdmits DEF ChainsInv, Types
<1>3. CASE Refreshed(c)
  <2> DEFINE config(v) == Active(history[v]).config
  <2>1. PICK v \in Told(c) \ {0} :
          IF call[c].request.op = "join"
            THEN IF call[c].request.node \in config(v).members
                   THEN Finish(c, {[kind |-> "join", node |-> call[c].request.node, version |-> v]})
                   ELSE Extend(c, call[c], Version(v), Joined(config(v), call[c].request.node))
            ELSE IF ~StillActive(c, Version(v))
            THEN Retry(c, Version(v))
            ELSE /\ Await(c, [call[c] EXCEPT !.pc = IF call[c].why = "sealed" THEN "grace" ELSE "successor",
                                             !.config = config(v)], {})
                 /\ answers' = answers
    BY <1>3 DEF Refreshed
  <2>2. /\ Version(v) \in ClientSnapshot /\ config(v) \in Config /\ v \in 1..Len(history)
        /\ Known(Version(v)) /\ Version(v).version > 0 /\ Types
    BY ToldFacts DEF ChainsInv
  <2>3. v \in DOMAIN history /\ Version(v).chain = history[v]
    <3>1. v \in 0..Len(history) /\ v > 0
      BY <2>2
    <3> QED BY <2>2, <3>1, VersionType DEF Types
  <2>4. CASE call[c].request.op = "join" /\ call[c].request.node \in config(v).members
    <3> DEFINE told == {[kind |-> "join", node |-> call[c].request.node, version |-> v]}
    <3>1. Finish(c, told)
      BY <2>1, <2>4
    <3>2. \A a \in told : a.kind = "join" => Confirmed(a)
      BY <1>2, <2>3, <2>4 DEF Confirmed, Members, Admits
    <3> HIDE DEF told
    <3> QED BY <1>1, <3>1, <3>2, FinishKeepsMembers
  <2>5. CASE call[c].request.op = "join" /\ call[c].request.node \notin config(v).members
    <3> DEFINE joined == Joined(config(v), call[c].request.node)
    <3>1. call[c].request.node \in Node
      BY <1>1, <2>5, CallFacts DEF Request
    <3>2. joined \in Config
      BY <2>2, <3>1 DEF Joined, Config
    <3>3. Extend(c, call[c], Version(v), joined)
      BY <2>1, <2>5
    <3>4. Keeps(joined.members, Version(v).chain) /\ Admits(call[c], joined.members)
      BY <2>3 DEF Joined, Keeps, Members, Admits
    <3> HIDE DEF joined
    <3> QED BY <1>1, <1>2, <2>2, <3>2, <3>3, <3>4, ExtendKeepsMembers
  <2>6. CASE call[c].request.op # "join" /\ ~StillActive(c, Version(v))
    BY <1>1, <2>1, <2>2, <2>6, RetryKeepsMembers
  <2>7. CASE call[c].request.op # "join" /\ StillActive(c, Version(v))
    <3> DEFINE p == IF call[c].why = "sealed" THEN "grace" ELSE "successor"
               x == [call[c] EXCEPT !.pc = p, !.config = config(v)]
    <3>1. Await(c, x, {}) /\ answers' = answers
      BY <2>1, <2>7
    <3>2. p \in Phases /\ p \notin {"seal", "sealed_tail", "install"}
      BY DEF Phases
    <3> HIDE DEF p
    <3>3. Advances(CallRecord, x, call[c], p, call[c].snapshot, call[c].why)
      BY <1>2, <2>2, <3>2, Advancing
    <3> HIDE DEF x
    <3> QED BY <1>1, <1>2, <3>1, <3>2, <3>3, AwaitKeepsMembers
  <2> QED BY <2>4, <2>5, <2>6, <2>7
<1>4. CASE GraceOver(c)
  <2> DEFINE config(v) == Active(history[v]).config
  <2>1. PICK v \in Told(c) \ {0} :
          IF StillActive(c, Version(v)) THEN Extend(c, call[c], Version(v), config(v))
                                        ELSE Retry(c, Version(v))
    BY <1>4 DEF GraceOver
  <2>2. /\ Version(v) \in ClientSnapshot /\ config(v) \in Config /\ v \in 1..Len(history) /\ Types
    BY ToldFacts DEF ChainsInv
  <2>3. Version(v).chain = history[v]
    <3>1. v \in 0..Len(history) /\ v > 0
      BY <2>2
    <3> QED BY <2>2, <3>1, VersionType
  <2>4. call[c].request.op # "join"
    <3>1. call[c].pc \in Recovering /\ Prepared(call[c])
      BY <1>4, <1>1, CallFacts DEF GraceOver, Recovering
    <3> QED BY <3>1 DEF Prepared, OnActive
  <2>5. Keeps(config(v).members, Version(v).chain) /\ Admits(call[c], config(v).members)
    BY <2>3, <2>4 DEF Keeps, Members, Admits
  <2>6. CASE StillActive(c, Version(v))
    BY <1>1, <1>2, <2>1, <2>2, <2>5, <2>6, ExtendKeepsMembers
  <2>7. CASE ~ StillActive(c, Version(v))
    BY <1>1, <2>1, <2>2, <2>7, RetryKeepsMembers
  <2> QED BY <2>6, <2>7
<1> QED BY <1>3, <1>4

LEMMA SealingKeepsMembers ==
  ASSUME ChainsInv, MembersInv, NEW c \in Call, SealAnswered(c) \/ SealedTailAnswered(c)
  PROVE  MembersInv'
<1>1. call[c].pc # "idle" /\ UNCHANGED <<history, loglets>>
  BY DEF SealAnswered, SealedTailAnswered
<1>2. call[c] \in CallRecord /\ Succeeds(call[c]) /\ Admits(call[c], Eligible)
  BY <1>1, CallerAdmits DEF ChainsInv, Types, MembersInv
<1>3. CASE SealAnswered(c)
  <2>1. CASE call[c].request.op = "seal"
    <3>1. Finish(c, {}) /\ \A a \in {} : a.kind = "join" => Confirmed(a)
      BY <1>3, <2>1 DEF SealAnswered
    <3> QED BY <1>1, <3>1, FinishKeepsMembers
  <2>2. CASE call[c].request.op # "seal"
    <3> DEFINE x == [call[c] EXCEPT !.pc = "sealed_tail"]
               requests == {}
    <3>1. call' = [call EXCEPT ![c] = x] /\ msgs' = msgs \cup requests /\ JoinsTrue
      BY <1>3, <2>2, SilentJoins DEF SealAnswered, Await
    <3>2. "sealed_tail" \in Phases
      BY DEF Phases
    <3>3. Advances(CallRecord, x, call[c], "sealed_tail", call[c].snapshot, call[c].why)
      BY <1>2, <3>2, Advancing
    <3>4. x.config = call[c].config
      BY <1>2, RecordFields
    <3>5. \A m \in requests : m.type = "install" /\ m.expected > 0 =>
            Keeps(Members(m.chain), history[m.expected])
      OBVIOUS
    <3> HIDE DEF x, requests
    <3>6. Succeeds(x)
      BY <1>2, <1>3, <2>2, <3>3, <3>4 DEF SealAnswered, Succeeds, Admits, Advances
    <3> QED BY <1>1, <3>1, <3>5, <3>6, StepKeepsMembers
  <2> QED BY <2>1, <2>2
<1>4. CASE SealedTailAnswered(c)
  <2> DEFINE z == call[c].snapshot
             stop == End(Active(z.chain))
             chain == Extended(z.chain, stop, made + 1, call[c].config)
  <2>1. Propose(c, call[c], z, chain) /\ made < MaxSegment /\ call[c].pc = "sealed_tail"
    BY <1>4 DEF SealedTailAnswered, Target, End
  <2>2. made + 1 \in Segment
    BY <2>1, SegmentAssumption DEF ChainsInv, Types, Segment
  <2>3. call[c].pc \in OnSegment
    BY <2>1 DEF OnSegment
  <2>4. /\ z \in ClientSnapshot /\ Known(z) /\ z.version > 0
        /\ z.version \in 1..Len(history) /\ z.chain = history[z.version] /\ z.chain \in Chain
    BY <1>1, <2>3, CallFacts, OnSegmentFacts
  <2>5. Active(history[z.version]).id \in sealed
    BY <2>1, <2>4 DEF ChainsInv, CallsInv, Prepared
  <2>6. chain \in Seq(SegmentRecord)
    <3>1. call[c].config \in Config
      BY <1>1, CallFacts
    <3> QED BY <2>2, <2>4, <2>5, <3>1, ExtendedDerived
  <2>7. Members(chain) = call[c].config.members
    BY <2>4, <2>6, ActiveOfExtended
  <2> HIDE DEF chain, stop
  <2>8. Keeps(Members(chain), history[z.version]) /\ Admits(call[c], Members(chain))
    BY <1>2, <2>1, <2>4, <2>7 DEF Succeeds
  <2> QED BY <1>1, <1>2, <2>1, <2>4, <2>6, <2>8, ProposeKeepsMembers
<1> QED BY <1>3, <1>4

LEMMA TruncateKeepsMembers ==
  ASSUME ChainsInv, MembersInv, UNCHANGED <<history, loglets>>, NEW c \in Call, call[c].pc # "idle",
         NEW state \in CallRecord, Admits(state, Eligible), NEW z \in ClientSnapshot, Truncate(c, state, z)
  PROVE  MembersInv'
<1> DEFINE head == First(z.chain)
           size == head.stop - head.start
           dropping == /\ state.attempt <= MaxAttempts
                       /\ Len(z.chain) > 1 /\ head.stop <= state.request.position
<1>1. CASE dropping
  <2> DEFINE x == [state EXCEPT !.pc = "drop", !.snapshot = z]
             requests == {TrimOf(head.id, size)}
  <2>1. call' = [call EXCEPT ![c] = x] /\ msgs' = msgs \cup requests /\ JoinsTrue
    BY <1>1, SilentJoins DEF Truncate, Await
  <2>2. "drop" \in Phases
    BY DEF Phases
  <2>3. Advances(CallRecord, x, state, "drop", z, state.why)
    BY <2>2, Advancing
  <2>4. \A m \in requests : m.type # "install"
    BY DEF TrimOf
  <2> HIDE DEF x, requests
  <2>5. x.pc \notin {"seal", "sealed_tail", "install"} /\ Admits(x, Eligible)
    BY <2>3 DEF Advances, Admits
  <2> QED BY <2>1, <2>4, <2>5, QuietKeepsMembers
<1>2. CASE ~ dropping
  <2> DEFINE told == {[kind |-> "trim", position |-> Larger(state.request.position, First(z.chain).start)]}
  <2>1. Finish(c, told) /\ \A a \in told : a.kind = "join" => Confirmed(a)
    BY <1>2 DEF Truncate
  <2> HIDE DEF told
  <2> QED BY <2>1, FinishKeepsMembers
<1> QED BY <1>1, <1>2

LEMMA TrimmingKeepsMembers ==
  ASSUME ChainsInv, MembersInv, NEW c \in Call, TrimNext(c) \/ Drop(c)
  PROVE  MembersInv'
<1>1. /\ call[c].pc \in {"trim", "drop"} /\ call[c].pc # "idle" /\ call[c].pc \in OnSegment
      /\ UNCHANGED <<history, loglets>> /\ Admits(call[c], Eligible)
  BY CallerAdmits DEF TrimNext, Drop, OnSegment
<1>2. call[c].request.op = "trim"
  BY <1>1, CallFacts DEF Prepared
<1> DEFINE z == call[c].snapshot
<1>3. CASE TrimNext(c)
  <2> DEFINE i == call[c].index
             next == z.chain[i + 1]
             stop == IF next.stop = Open \/ call[c].request.position < next.stop
                       THEN call[c].request.position ELSE next.stop
             more == i < Len(z.chain) /\ next.start < call[c].request.position
  <2>1. CASE more
    <3> DEFINE x == [call[c] EXCEPT !.index = i + 1]
               requests == {TrimOf(next.id, stop - next.start)}
    <3>1. call' = [call EXCEPT ![c] = x] /\ msgs' = msgs \cup requests /\ JoinsTrue
      BY <1>3, <2>1, SilentJoins DEF TrimNext, TrimTarget, Await
    <3>2. i + 1 \in Nat
      BY <1>1, CallFacts
    <3>3. Advances(CallRecord, x, call[c], call[c].pc, z, call[c].why)
      BY <1>1, <3>2, CallFacts, Advancing
    <3>4. \A m \in requests : m.type # "install"
      BY DEF TrimOf
    <3> HIDE DEF x, requests
    <3>5. x.pc \notin {"seal", "sealed_tail", "install"} /\ Admits(x, Eligible)
      BY <1>1, <3>3 DEF Advances, Admits
    <3> QED BY <1>1, <3>1, <3>4, <3>5, QuietKeepsMembers
  <2>2. CASE ~ more
    <3>1. Truncate(c, call[c], Cached(c))
      BY <1>3, <2>2 DEF TrimNext
    <3> QED BY <1>1, <3>1, CallFacts, TruncateKeepsMembers
  <2> QED BY <2>1, <2>2
<1>4. CASE Drop(c)
  <2> DEFINE chain == Tail(z.chain)
  <2>1. Propose(c, call[c], z, chain) /\ ValidChain(chain)
    BY <1>4 DEF Drop, Propose
  <2>2. /\ z \in ClientSnapshot /\ Known(z) /\ z.version > 0
        /\ z.version \in 1..Len(history) /\ z.chain = history[z.version] /\ z.chain \in Chain
    BY <1>1, CallFacts, OnSegmentFacts
  <2>3. chain \in Seq(SegmentRecord)
    BY <2>1, <2>2, TailDerived
  <2>4. Len(z.chain) > 1
    <3>1. z.chain \in Seq(SegmentRecord) /\ Len(z.chain) \in Nat /\ Len(z.chain) > 0
      BY <2>2, ChainFacts
    <3>2. chain # <<>>
      BY <2>1 DEF ValidChain
    <3> QED BY <3>1, <3>2
  <2>5. Members(chain) = Members(history[z.version])
    BY <2>2, <2>4, ActiveOfTail DEF Members
  <2> HIDE DEF chain
  <2>6. Admits(call[c], Members(chain)) /\ Keeps(Members(chain), history[z.version])
    BY <1>2, <2>5 DEF Admits, Keeps
  <2> QED BY <1>1, <2>1, <2>2, <2>3, <2>6, CallFacts, ProposeKeepsMembers
<1> QED BY <1>3, <1>4

LEMMA ReadNextKeepsMembers ==
  ASSUME ChainsInv, MembersInv, NEW c \in Call, ReadNext(c)
  PROVE  MembersInv'
<1>1. call[c].pc = "read" /\ call[c].pc # "idle" /\ UNCHANGED <<history, loglets>>
  BY DEF ReadNext
<1> DEFINE chain == call[c].snapshot.chain
           segment == chain[call[c].index]
           found == {p \in LocalRange(c, segment) : Readable(segment.id, p) # {}}
           first == CHOOSE q \in found : \A r \in found : q <= r
<1>2. CASE call[c].index > Len(chain)
  <2>1. Finish(c, {}) /\ \A a \in {} : a.kind = "join" => Confirmed(a)
    BY <1>2 DEF ReadNext
  <2> QED BY <1>1, <2>1, FinishKeepsMembers
<1>3. CASE ~ (call[c].index > Len(chain)) /\ found = {}
  <2> DEFINE x == [call[c] EXCEPT !.index = @ + 1]
  <2>1. Await(c, x, {}) /\ answers' = answers
    BY <1>3 DEF ReadNext
  <2>2. call[c].index + 1 \in Nat
    BY <1>1, CallFacts
  <2>3. Advances(CallRecord, x, call[c], "read", call[c].snapshot, call[c].why)
    BY <1>1, <2>2, CallFacts, Advancing
  <2> HIDE DEF x
  <2> QED BY <1>1, <2>1, <2>3, CallerAdmits, AwaitKeepsMembers
<1>4. CASE ~ (call[c].index > Len(chain)) /\ found # {}
  <2>1. PICK k \in Readable(segment.id, first) :
          Finish(c, {[kind |-> "read", from |-> call[c].request.from,
                      position |-> segment.start + first, command |-> k]})
    BY <1>4 DEF ReadNext
  <2> HIDE DEF segment, found, first
  <2> DEFINE told == {[kind |-> "read", from |-> call[c].request.from,
                       position |-> segment.start + first, command |-> k]}
  <2>2. Finish(c, told) /\ \A a \in told : a.kind = "join" => Confirmed(a)
    BY <2>1
  <2> HIDE DEF told
  <2> QED BY <1>1, <2>2, FinishKeepsMembers
<1> QED BY <1>2, <1>3, <1>4

LEMMA InstallAnsweredKeepsMembers ==
  ASSUME ChainsInv, MembersInv, NEW c \in Call, InstallAnswered(c)
  PROVE  MembersInv'
<1>1. /\ call[c].pc = "install" /\ call[c].pc # "idle" /\ UNCHANGED <<history, loglets>>
      /\ Admits(call[c], Eligible)
  BY CallerAdmits DEF InstallAnswered
<1>2. PICK v \in (call[c].snapshot.version + 1)..Len(history) :
        \E won \in {FALSE} \cup {v = call[c].snapshot.version + 1 /\ history[v] = call[c].candidate} :
          Proceed(c, Version(v), won)
  BY DEF InstallAnswered
<1>3. PICK won \in {FALSE} \cup {v = call[c].snapshot.version + 1 /\ history[v] = call[c].candidate} :
        Proceed(c, Version(v), won)
  BY <1>2
<1>4. won => history[v] = call[c].candidate
  BY <1>3, Zenon
<1> DEFINE z == Version(v)
<1>5. v \in 1..Len(history) /\ v \in 0..Len(history) /\ v > 0 /\ v \in DOMAIN history
  BY <1>1, CallFacts DEF ClientSnapshot, Types
<1>6. z \in ClientSnapshot /\ Known(z) /\ z.version > 0 /\ z.version = v
  BY <1>5, VersionType DEF ChainsInv
<1> HIDE DEF z
<1>7. Proceed(c, z, won)
  BY <1>3 DEF z
<1>8. CASE call[c].why # "none"
  <2>1. Retry(c, z)
    BY <1>7, <1>8 DEF Proceed
  <2> QED BY <1>1, <1>6, <2>1, RetryKeepsMembers
<1>9. CASE call[c].why = "none" /\ call[c].request.op = "trim"
  <2> DEFINE state == [call[c] EXCEPT !.attempt = @ + 1]
  <2>1. Truncate(c, state, z)
    BY <1>7, <1>9 DEF Proceed
  <2>2. call[c].attempt + 1 \in Nat
    BY <1>1, CallFacts
  <2>3. Advances(CallRecord, state, call[c], call[c].pc, call[c].snapshot, call[c].why)
    BY <1>1, <2>2, CallFacts, Advancing
  <2> HIDE DEF state
  <2>4. state \in CallRecord /\ Admits(state, Eligible)
    BY <1>1, <2>3 DEF Advances, Admits
  <2> QED BY <1>1, <1>6, <2>1, <2>4, TruncateKeepsMembers
<1>10. CASE call[c].why = "none" /\ call[c].request.op = "join"
  <2>1. CASE won
    <3> DEFINE told == {[kind |-> "join", node |-> call[c].request.node, version |-> z.version]}
    <3>1. Finish(c, told)
      BY <1>7, <1>10, <2>1 DEF Proceed
    <3>2. call[c].request.node \in Members(call[c].candidate)
      BY <1>1, <1>10 DEF MembersInv, Succeeds, Admits
    <3>3. \A a \in told : a.kind = "join" => Confirmed(a)
      BY <1>1, <1>4, <1>5, <1>6, <1>10, <2>1, <3>2 DEF Confirmed, Admits
    <3> HIDE DEF told
    <3> QED BY <1>1, <3>1, <3>3, FinishKeepsMembers
  <2>2. CASE ~ won /\ call[c].attempt = MaxAttempts
    BY <1>1, <1>7, <1>10, <2>2, FailKeepsMembers DEF Proceed
  <2>3. CASE ~ won /\ call[c].attempt # MaxAttempts
    <3> DEFINE x == [call[c] EXCEPT !.pc = "refresh", !.attempt = @ + 1, !.asked = Len(history)]
    <3>1. Await(c, x, {}) /\ answers' = answers
      BY <1>7, <1>10, <2>3 DEF Proceed
    <3>2. "refresh" \in Phases /\ call[c].attempt + 1 \in Nat /\ Len(history) \in Nat
      BY <1>1, CallFacts DEF Phases, Types
    <3>3. Advances(CallRecord, x, call[c], "refresh", call[c].snapshot, call[c].why)
      BY <1>1, <3>2, CallFacts, Advancing
    <3> HIDE DEF x
    <3> QED BY <1>1, <3>1, <3>3, AwaitKeepsMembers
  <2> QED BY <2>1, <2>2, <2>3
<1>11. CASE call[c].why = "none" /\ call[c].request.op \notin {"trim", "join"}
  <2>1. Finish(c, {}) /\ \A a \in {} : a.kind = "join" => Confirmed(a)
    BY <1>7, <1>11 DEF Proceed
  <2> QED BY <1>1, <2>1, FinishKeepsMembers
<1> QED BY <1>8, <1>9, <1>10, <1>11

\* The chain installed as the next version keeps the members of the newest, and so of all.
LEMMA InstallKeepsMembers ==
  ASSUME ChainsInv, MembersInv, NEW m \in msgs, Install(m)
  PROVE  MembersInv'
<1>1. UNCHANGED <<call, msgs, answers>> /\ m.type = "install" /\ Types
  BY DEF Install, ChainsInv
<1> DEFINE n == Len(history)
<1>2. /\ m.expected = n /\ n \in Nat /\ DOMAIN history = 1..n /\ DOMAIN history' = 1..(n + 1)
      /\ history'[n + 1] = m.chain
      /\ \A v \in 1..n : history'[v] = history[v]
  BY <1>1, InstallFacts DEF Types
<1> HIDE DEF n
<1>3. n > 0 => Keeps(Members(m.chain), history[n])
  BY <1>1, <1>2 DEF MembersInv, SuccessionInv
<1>4. \A v \in 1..n : \A u \in 1..v : Keeps(Members(history[v]), history[u])
  BY <1>2 DEF MembersInv, OrderInv
<1>5. ASSUME NEW v \in 1..(n + 1), NEW u \in 1..v PROVE Keeps(Members(history'[v]), history'[u])
  <2>1. CASE v \in 1..n
    <3>1. u \in 1..n
      BY <1>2, <2>1
    <3> QED BY <1>2, <1>4, <2>1, <3>1
  <2>2. CASE v = n + 1 /\ u = n + 1
    BY <2>2 DEF Keeps
  <2>3. CASE v = n + 1 /\ u # n + 1
    <3>1. u \in 1..n /\ n \in 1..n /\ n > 0
      BY <1>2, <2>3
    <3>2. Keeps(Members(m.chain), history[n]) /\ Keeps(Members(history[n]), history[u])
      BY <1>3, <1>4, <3>1
    <3>3. Keeps(Members(m.chain), history[u])
      BY <3>2 DEF Keeps
    <3> QED BY <1>2, <2>3, <3>1, <3>3
  <2> QED BY <1>2, <2>1, <2>2, <2>3
<1>6. OrderInv'
  BY <1>2, <1>5 DEF OrderInv, Keeps, Members, Active
<1>7. SuccessionInv'
  <2> SUFFICES ASSUME NEW r \in msgs, r.type = "install", r.expected > 0
               PROVE  Keeps(Members(r.chain), history'[r.expected])
    BY <1>1 DEF SuccessionInv, Keeps, Members, Active
  <2>1. r.expected \in Nat /\ r.expected <= n
    BY <1>1 DEF ChainsInv, Types, ProposalsInv, Proposal, Message, n
  <2>2. r.expected \in 1..n
    BY <1>2, <2>1
  <2>3. Keeps(Members(r.chain), history[r.expected])
    BY DEF MembersInv, SuccessionInv
  <2> QED BY <1>2, <2>2, <2>3
<1>8. (\A c \in Call : Succeeds(call[c]))'
  BY <1>1 DEF MembersInv, Succeeds, Admits, Keeps, Members, Active
<1>9. JoinedInv'
  <2> SUFFICES ASSUME NEW a \in answers, a.kind = "join"
               PROVE  a.version \in DOMAIN history' /\ a.node \in Members(history'[a.version]) \cap Eligible
    BY <1>1 DEF JoinedInv, Members, Active
  <2>1. a.version \in 1..n /\ a.node \in Members(history[a.version]) \cap Eligible
    BY <1>2 DEF MembersInv, JoinedInv
  <2>2. a.version \in 1..(n + 1) /\ history'[a.version] = history[a.version]
    BY <1>2, <2>1
  <2> QED BY <1>2, <2>1, <2>2
<1> QED BY <1>6, <1>7, <1>8, <1>9 DEF MembersInv

\* A Loglet's step is none here.
LEMMA LogletKeepsMembers ==
  ASSUME MembersInv, UNCHANGED <<history, call, msgs, answers>>
  PROVE  MembersInv'
<1>1. OrderInv' /\ SuccessionInv' /\ JoinedInv'
  BY DEF MembersInv, OrderInv, SuccessionInv, JoinedInv, Keeps, Members, Active
<1>2. (\A c \in Call : Succeeds(call[c]))'
  BY DEF MembersInv, Succeeds, Admits, Keeps, Members, Active
<1> QED BY <1>1, <1>2 DEF MembersInv

LEMMA NextKeepsMembers ==
  ASSUME JoinersEligible
  PROVE  ChainsInv /\ MembersInv /\ [Next]_vars /\ [SuccessorsFit]_vars => MembersInv'
<1> SUFFICES ASSUME ChainsInv, MembersInv, [Next]_vars, [SuccessorsFit]_vars PROVE MembersInv'
  OBVIOUS
<1>1. ASSUME NEW w \in Workload, Begin(w[1], w[2], w[3]) PROVE MembersInv'
  <2>1. w[1] \in Call /\ w[2] \in Client /\ w[3] \in Request
    BY WorkloadAssumption
  <2>2. w[3].op = "join" => w[3].node \in Eligible
    BY DEF JoinersEligible
  <2> QED BY <1>1, <2>1, <2>2, BeginKeepsMembers
<1>2. ASSUME NEW c \in Call, SuccessorFound(c) PROVE MembersInv'
  <2>1. CASE SuccessorsFit
    <3>1. Keeps(call[c].config.members, Cached(c).chain)
      BY <1>2, <2>1 DEF SuccessorsFit
    <3> QED BY <1>2, <3>1, RecoveringKeepsMembers
  <2>2. CASE UNCHANGED vars
    BY <2>2, LogletKeepsMembers DEF vars
  <2> QED BY <2>1, <2>2
<1>3. ASSUME NEW c \in Call, Step(c) \/ Unavailable(c) \/ Raise(c) PROVE MembersInv'
  BY <1>2, <1>3, AppendingKeepsMembers, TailAnsweredKeepsMembers, RecoveringKeepsMembers,
     RefreshedKeepsMembers, SealingKeepsMembers, InstallAnsweredKeepsMembers, TrimmingKeepsMembers,
     ReadNextKeepsMembers DEF Step
<1>4. ASSUME NEW m \in msgs, Effect(m) PROVE MembersInv'
  <2>1. CASE Install(m)
    BY <2>1, InstallKeepsMembers
  <2>2. CASE LogletAppends(m) \/ LogletSeals(m) \/ LogletTrims(m)
    <3>1. UNCHANGED <<history, call, msgs, answers>>
      BY <2>2 DEF LogletAppends, LogletSeals, LogletTrims
    <3> QED BY <3>1, LogletKeepsMembers
  <2> QED BY <1>4, <2>1, <2>2 DEF Effect
<1>5. CASE UNCHANGED vars
  BY <1>5, LogletKeepsMembers DEF vars
<1> QED BY <1>1, <1>3, <1>4, <1>5 DEF Next

\* A node whose join was confirmed stores every later active segment, where only nodes join that the
\* manifest lists, and where no successor is installed over a chain with a member that its policy
\* did not see: each reconfiguration but that one keeps the members of the chain it replaces.
THEOREM JoinsKept ==
  ASSUME JoinersEligible
  PROVE  Spec /\ [][SuccessorsFit]_vars => []JoinsStay
<1>1. Init => MembersInv
  BY StartsMembers
<1>2. ChainsInv /\ MembersInv /\ [Next]_vars /\ [SuccessorsFit]_vars => MembersInv'
  BY NextKeepsMembers
<1>3. ChainsInv /\ MembersInv => JoinsStay
  <2> SUFFICES ASSUME ChainsInv, MembersInv, NEW a \in answers, a.kind = "join",
                      NEW v \in a.version..Len(history)
               PROVE  a.node \in Active(history[v]).config.members
    BY DEF JoinsStay
  <2>1. a.version \in DOMAIN history /\ a.node \in Members(history[a.version]) \cap Eligible
    BY DEF MembersInv, JoinedInv
  <2>2. DOMAIN history = 1..Len(history) /\ Len(history) \in Nat
    BY DEF ChainsInv, Types
  <2>3. v \in DOMAIN history /\ a.version \in 1..v
    BY <2>1, <2>2
  <2>4. Keeps(Members(history[v]), history[a.version])
    BY <2>3 DEF MembersInv, OrderInv
  <2> QED BY <2>1, <2>4 DEF Keeps, Members
<1> QED BY <1>1, <1>2, <1>3, ChainsInvariant, PTL DEF Spec

-----------------------------------------------------------------------------
(* One shared log: what a step of a call keeps, helper by helper.          *)

LEMMA StartsShared == Init => SharedInv
<1> SUFFICES ASSUME Init PROVE SharedInv
  OBVIOUS
<1>1. /\ \A c \in Call : call[c].pc = "idle"
      /\ DOMAIN history = {} /\ Installed = {} /\ msgs = {} /\ answers = {}
  BY IdleType DEF Init, Installed
<1>2. \A id \in Segment : log[id] = <<>> /\ trimmed[id] = 0 /\ Len(log[id]) = 0
  BY DEF Init
<1>3. GaplessInv /\ UsedInv /\ LagsInv
  BY <1>1, <1>2 DEF GaplessInv, UsedInv, LagsInv
<1>4. \A c \in Call : Follower(call[c])
  BY <1>1 DEF Follower, Recovering
<1> QED BY <1>1, <1>3, <1>4 DEF SharedInv

\* A step of a call, with what holds before and after it.
Forward == /\ ChainsInv /\ ChainsInv' /\ SharedInv
           /\ CachesAdvance /\ UNCHANGED <<history, loglets>>

\* What callers are told is true.
TellsTrue == \A a \in answers' : a \in answers \/ Tells(a)'

LEMMA ForwardFacts ==
  ASSUME Forward
  PROVE  /\ UNCHANGED <<history, log, sealed, trimmed>> /\ Installed' = Installed
         /\ \A p : Removed(p)' <=> Removed(p)
         /\ \A s : Follows(s)' <=> Follows(s)
         /\ \A s, a : Holds(s, a)' <=> Holds(s, a)
         /\ \A k, n : Reaches(k, n) => Reaches(k, n)'
         /\ \A k \in Client : cached[k].version \in Nat /\ cached'[k].version \in Nat
<1>1. UNCHANGED <<history, log, sealed, trimmed>> /\ Installed' = Installed
  BY DEF Forward, loglets, Installed
<1>2. \A p : Removed(p)' <=> Removed(p)
  BY <1>1 DEF Removed
<1>3. \A s : Follows(s)' <=> Follows(s)
  BY <1>1 DEF Follows, End
<1>4. \A s, a : Holds(s, a)' <=> Holds(s, a)
  BY <1>1 DEF Holds, End
<1>5. \A k \in Client : cached[k].version \in Nat /\ cached'[k].version \in Nat
  BY DEF Forward, ChainsInv, Types, ClientSnapshot
<1>6. ASSUME NEW k, NEW n, Reaches(k, n) PROVE Reaches(k, n)'
  <2>1. k \in Client /\ n \in Nat
    BY <1>6 DEF Reaches
  <2>2. PICK v \in 1..cached[k].version : n <= End(Active(history[v]))
    BY <1>6 DEF Reaches
  <2>3. cached[k].version <= cached'[k].version
    BY <2>1 DEF Forward, CachesAdvance
  <2>4. v \in 1..cached'[k].version
    BY <1>5, <2>1, <2>3
  <2>5. (n <= End(Active(history[v])))'
    BY <1>1, <2>2 DEF End, Active
  <2> QED BY <2>1, <2>4, <2>5 DEF Reaches
<1> QED BY <1>1, <1>2, <1>3, <1>4, <1>5, <1>6

LEMMA StepKeepsShared ==
  ASSUME Forward, TellsTrue, NEW c \in Call, NEW x, NEW requests,
         call' = [call EXCEPT ![c] = x], msgs' = msgs \cup requests,
         x.client \in Client, x.snapshot.version <= cached'[x.client].version,
         Follower(x), \A m \in requests : Fits(m)
  PROVE  SharedInv'
<1>1. ChainsInv /\ Types /\ SharedInv /\ CachesAdvance /\ call \in [Call -> CallRecord]
  BY DEF Forward, ChainsInv, Types
<1>2. /\ UNCHANGED <<history, log, sealed, trimmed>> /\ Installed' = Installed
      /\ \A p : Removed(p)' <=> Removed(p)
      /\ \A s : Follows(s)' <=> Follows(s)
  BY ForwardFacts
<1>3. \A d \in Call : call'[d] = IF d = c THEN x ELSE call[d]
  BY <1>1
<1>4. GaplessInv'
  <2>1. \A s \in Installed' : Follows(s)'
    BY <1>1, <1>2 DEF SharedInv, GaplessInv
  <2>2. \A v \in DOMAIN history' : Removed(First(history[v]).start)'
    <3> SUFFICES ASSUME NEW v \in DOMAIN history PROVE Removed(First(history[v]).start)'
      BY <1>2
    <3>1. PICK p : p = First(history[v]).start
      OBVIOUS
    <3>2. Removed(p)
      BY <1>1, <3>1 DEF SharedInv, GaplessInv
    <3>3. Removed(p)' /\ p = First(history[v])'.start
      BY <1>2, <3>1, <3>2 DEF First
    <3> QED BY <3>3 DEF Removed
  <2>3. \A v \in DOMAIN history' : \A u \in 1..v : Succeeded(u, v)'
    BY <1>1, <1>2 DEF SharedInv, GaplessInv, Succeeded, Before, End, Active
  <2> QED BY <2>1, <2>2, <2>3 DEF GaplessInv
<1>5. UsedInv'
  BY <1>1, <1>2 DEF SharedInv, UsedInv
<1>6. LagsInv'
  <2> SUFFICES ASSUME NEW d \in Call, call'[d].pc # "idle"
               PROVE  call'[d].snapshot.version <= cached'[call'[d].client].version
    BY DEF LagsInv
  <2>1. CASE d = c
    BY <1>3, <2>1
  <2>2. CASE d # c
    <3>1. call'[d] = call[d] /\ call[d].pc # "idle"
      BY <1>3, <2>2
    <3>2. call[d].client \in Client /\ call[d].snapshot.version \in Nat
      BY <1>1, <3>1, CallFacts DEF ClientSnapshot
    <3>3. call[d].snapshot.version <= cached[call[d].client].version
      BY <1>1, <3>1 DEF SharedInv, LagsInv
    <3>4. cached[call[d].client].version <= cached'[call[d].client].version
      BY <1>1, <3>2 DEF CachesAdvance
    <3> QED BY <3>1, <3>2, <3>3, <3>4, ForwardFacts
  <2> QED BY <2>1, <2>2
<1>7. \A m \in msgs' : Fits(m)'
  <2>1. \A m \in msgs' : Fits(m)
    BY <1>1 DEF SharedInv
  <2>2. \A m : Fits(m) => Fits(m)'
    <3> SUFFICES ASSUME NEW m, Fits(m) PROVE Fits(m)'
      OBVIOUS
    <3>1. m.type = "install" => Removed(First(m.chain).start)' /\ \A i \in DOMAIN m.chain : Follows(m.chain[i])'
      BY <1>2 DEF Fits, First
    <3> QED BY <1>2, <3>1 DEF Fits, First
  <2> QED BY <2>1, <2>2
<1>8. \A d \in Call : Follower(call[d])'
  <2>1. \A y : Follower(y) => Follower(y)'
    <3> SUFFICES ASSUME NEW y, Follower(y) PROVE Follower(y)'
      OBVIOUS
    <3>1. Trimming(y) => Trimming(y)'
      BY <1>2 DEF Trimming, End, Active
    <3>2. Reading(y) => Reading(y)'
      BY <1>2 DEF Reading, Skipped, End, Active
    <3> QED BY <1>2, <3>1, <3>2 DEF Follower
  <2>2. \A d \in Call : Follower(call'[d])
    BY <1>1, <1>3 DEF SharedInv
  <2> SUFFICES ASSUME NEW d \in Call PROVE Follower(call[d])'
    OBVIOUS
  <2>3. PICK y : y = call'[d]
    OBVIOUS
  <2>4. Follower(y)'
    BY <2>1, <2>2, <2>3
  <2> QED BY <2>3, <2>4
<1>9. \A a \in answers' : Tells(a)'
  <2> SUFFICES ASSUME NEW a \in answers, Tells(a) PROVE Tells(a)'
    BY <1>1 DEF TellsTrue, SharedInv
  <2> QED BY ForwardFacts DEF Tells
<1> QED BY <1>4, <1>5, <1>6, <1>7, <1>8, <1>9 DEF SharedInv

LEMMA QuietKeepsShared ==
  ASSUME Forward, TellsTrue, NEW c \in Call, NEW x,
         call' = [call EXCEPT ![c] = x], msgs' = msgs,
         x.client \in Client, x.snapshot.version <= cached'[x.client].version, Follower(x)
  PROVE  SharedInv'
<1> DEFINE requests == {}
<1>1. msgs' = msgs \cup requests /\ \A m \in requests : Fits(m)
  OBVIOUS
<1> HIDE DEF requests
<1> QED BY <1>1, StepKeepsShared

LEMMA SilentTells == answers' = answers => TellsTrue
BY DEF TellsTrue

LEMMA EndKeepsShared ==
  ASSUME Forward, TellsTrue, NEW c \in Call, call[c].pc # "idle", NEW p \in {"done", "failed"},
         call' = [call EXCEPT ![c] = [Idle EXCEPT !.pc = p, !.client = call[c].client,
                                                  !.request = call[c].request]],
         msgs' = msgs
  PROVE  SharedInv'
<1> DEFINE x == [Idle EXCEPT !.pc = p, !.client = call[c].client, !.request = call[c].request]
<1>1. ChainsInv
  BY DEF Forward
<1>2. Begun(CallRecord, x, p, call[c].client, call[c].request, Uninstalled, "none", 0)
  BY <1>1, CallFacts, EndedType
<1>3. call[c].client \in Client
  BY <1>1, CallFacts
<1>4. call' = [call EXCEPT ![c] = x]
  OBVIOUS
<1> HIDE DEF x
<1>5. x.pc = p /\ x.client \in Client /\ x.snapshot.version = 0
  BY <1>2, <1>3 DEF Begun, Uninstalled
<1>6. x.snapshot.version <= cached'[x.client].version
  BY <1>5, ForwardFacts
<1>7. Follower(x)
  BY <1>5 DEF Follower, Recovering
<1> QED BY <1>4, <1>5, <1>6, <1>7, QuietKeepsShared

LEMMA FinishKeepsShared ==
  ASSUME Forward, NEW c \in Call, call[c].pc # "idle", NEW told, \A a \in told : Tells(a)',
         Finish(c, told)
  PROVE  SharedInv'
<1>1. TellsTrue
  BY DEF TellsTrue, Finish
<1> QED BY <1>1, EndKeepsShared DEF Finish

LEMMA FailKeepsShared ==
  ASSUME Forward, NEW c \in Call, call[c].pc # "idle", Fail(c)
  PROVE  SharedInv'
BY SilentTells, EndKeepsShared DEF Fail

\* A chain that client k has cached by the end of the step.
CachedBy(k, z) == /\ k \in Client /\ z \in ClientSnapshot /\ Known(z)
                  /\ z.version <= cached'[k].version

LEMMA TryKeepsShared ==
  ASSUME Forward, NEW c \in Call, NEW state \in CallRecord, state.request \in Request,
         NEW z, CachedBy(state.client, z), z.version > 0, Try(c, state, z)
  PROVE  SharedInv'
<1>1. TellsTrue
  BY SilentTells DEF Try
<1>2. z \in ClientSnapshot /\ Active(z.chain) \in Installed
  BY OnSegmentFacts DEF CachedBy, Forward, ChainsInv
<1>3. ASSUME NEW p \in {"append", "tail"}, NEW requests, \A m \in requests : Fits(m),
             Await(c, [state EXCEPT !.pc = p, !.snapshot = z, !.why = "none"], requests)
      PROVE  SharedInv'
  <2> DEFINE x == [state EXCEPT !.pc = p, !.snapshot = z, !.why = "none"]
  <2>1. p \in Phases /\ "none" \in Causes
    BY DEF Phases, Causes
  <2>2. Advances(CallRecord, x, state, p, z, "none")
    BY <1>2, <2>1, Advancing
  <2>3. call' = [call EXCEPT ![c] = x] /\ msgs' = msgs \cup requests
    BY <1>3 DEF Await
  <2> HIDE DEF x
  <2>4. x.pc = p /\ x.client \in Client /\ x.snapshot.version <= cached'[x.client].version
    BY <2>2 DEF Advances, CachedBy
  <2>5. Follower(x)
    BY <2>4 DEF Follower, Recovering
  <2> QED BY <1>1, <1>3, <2>3, <2>4, <2>5, StepKeepsShared
<1>4. CASE state.request.op = "append"
  <2> DEFINE m == AppendTo(Active(z.chain).id, state.request.command)
  <2>1. m.type = "append" /\ m.segment = Active(z.chain).id
    BY DEF AppendTo
  <2> HIDE DEF m
  <2>2. Fits(m)
    BY <1>2, <2>1 DEF Fits
  <2>3. Await(c, [state EXCEPT !.pc = "append", !.snapshot = z, !.why = "none"], {m})
    BY <1>4 DEF Try, m
  <2> QED BY <1>3, <2>2, <2>3
<1>5. CASE state.request.op # "append"
  BY <1>3, <1>5 DEF Try
<1> QED BY <1>4, <1>5

LEMMA RetryKeepsShared ==
  ASSUME Forward, NEW c \in Call, call[c].pc # "idle",
         NEW z, CachedBy(call[c].client, z), z.version > 0, Retry(c, z)
  PROVE  SharedInv'
<1> DEFINE state == [call[c] EXCEPT !.attempt = @ + 1]
<1>1. call[c] \in CallRecord /\ call[c].attempt + 1 \in Nat /\ call[c].request \in Request
  BY CallFacts DEF Forward
<1>2. Advances(CallRecord, state, call[c], call[c].pc, call[c].snapshot, call[c].why)
  BY <1>1, Advancing
<1>3. Try(c, state, z)
  BY DEF Retry
<1> HIDE DEF state
<1>4. state \in CallRecord /\ state.client = call[c].client /\ state.request = call[c].request
  BY <1>2 DEF Advances
<1> QED BY <1>1, <1>3, <1>4, TryKeepsShared

LEMMA ExtendKeepsShared ==
  ASSUME Forward, NEW c \in Call, NEW state \in CallRecord,
         NEW z, CachedBy(state.client, z), NEW config \in Config,
         state.request.op = "trim" => state.why # "none",
         Extend(c, state, z, config)
  PROVE  SharedInv'
<1> DEFINE x == [state EXCEPT !.pc = "seal", !.snapshot = z, !.config = config]
           m == SealOf(Active(z.chain).id)
           requests == {m}
<1>1. TellsTrue
  BY SilentTells DEF Extend
<1>2. "seal" \in Phases /\ z \in ClientSnapshot
  BY DEF Phases, CachedBy
<1>3. Advances(CallRecord, x, state, "seal", z, state.why)
  BY <1>2, Advancing
<1>4. call' = [call EXCEPT ![c] = x] /\ msgs' = msgs \cup requests
  BY DEF Extend, Await
<1>5. m.type = "seal"
  BY DEF SealOf
<1> HIDE DEF x, m
<1>6. \A r \in requests : Fits(r)
  BY <1>5 DEF Fits
<1> HIDE DEF requests
<1>7. /\ x.pc = "seal" /\ x.client \in Client /\ x.snapshot.version <= cached'[x.client].version
      /\ x.request = state.request /\ x.why = state.why
  BY <1>3 DEF Advances, CachedBy
<1>8. Follower(x)
  BY <1>7 DEF Follower, Recovering
<1> QED BY <1>1, <1>4, <1>6, <1>7, <1>8, StepKeepsShared

LEMMA ProposeKeepsShared ==
  ASSUME Forward, NEW c \in Call, NEW state \in CallRecord,
         NEW z, CachedBy(state.client, z), NEW chain \in Seq(SegmentRecord),
         state.request.op = "trim" /\ state.why = "none" => Removed(state.request.position),
         Removed(First(chain).start), \A i \in DOMAIN chain : Follows(chain[i]),
         Propose(c, state, z, chain)
  PROVE  SharedInv'
<1> DEFINE x == [state EXCEPT !.pc = "install", !.snapshot = z, !.candidate = chain]
           m == InstallOf(z.version, chain)
           requests == {m}
<1>1. TellsTrue
  BY SilentTells DEF Propose
<1>2. "install" \in Phases /\ z \in ClientSnapshot
  BY DEF Phases, CachedBy
<1>3. Advances(CallRecord, x, state, "install", z, state.why)
  BY <1>2, Advancing
<1>4. call' = [call EXCEPT ![c] = x] /\ msgs' = msgs \cup requests
  BY DEF Propose, Await
<1>5. m.type = "install" /\ m.chain = chain
  BY DEF InstallOf
<1> HIDE DEF x, m
<1>6. \A r \in requests : Fits(r)
  BY <1>5 DEF Fits
<1> HIDE DEF requests
<1>7. /\ x.pc = "install" /\ x.client \in Client /\ x.snapshot.version <= cached'[x.client].version
      /\ x.request = state.request /\ x.why = state.why
  BY <1>3 DEF Advances, CachedBy
<1>8. Follower(x)
  BY <1>7 DEF Follower, Recovering
<1> QED BY <1>1, <1>4, <1>6, <1>7, <1>8, StepKeepsShared

\* A call goes on with the chain that it had.
LEMMA LagFacts ==
  ASSUME Forward, NEW c \in Call, call[c].pc # "idle"
  PROVE  /\ CachedBy(call[c].client, call[c].snapshot) /\ CachedBy(call[c].client, Cached(c))
         /\ Follower(call[c])
<1>1. /\ call[c].client \in Client /\ call[c].snapshot \in ClientSnapshot /\ Known(call[c].snapshot)
      /\ Cached(c) \in ClientSnapshot /\ Known(Cached(c)) /\ Cached(c) = cached[call[c].client]
  BY CallFacts DEF Forward, Cached, ClientOf
<1>2. call[c].snapshot.version <= Cached(c).version /\ Cached(c).version <= cached'[call[c].client].version
  BY <1>1 DEF Forward, CachesAdvance, SharedInv, LagsInv
<1>3. call[c].snapshot.version \in Nat /\ Cached(c).version \in Nat /\ cached'[call[c].client].version \in Nat
  BY <1>1, ForwardFacts DEF ClientSnapshot
<1>4. call[c].snapshot.version <= cached'[call[c].client].version
  BY <1>2, <1>3
<1> QED BY <1>1, <1>2, <1>4 DEF CachedBy, Forward, SharedInv

LEMMA GoRecoverKeepsShared ==
  ASSUME Forward, NEW c \in Call, call[c].pc # "idle",
         NEW why \in {"sealed", "unavailable"}, GoRecover(c, why)
  PROVE  SharedInv'
<1>1. CASE call[c].attempt = MaxAttempts
  BY <1>1, FailKeepsShared DEF GoRecover
<1>2. CASE call[c].attempt # MaxAttempts
  <2> DEFINE x == [call[c] EXCEPT !.pc = "lock", !.why = why]
  <2>1. call[c] \in CallRecord /\ "lock" \in Phases /\ why \in Causes
    BY CallFacts DEF Phases, Causes, Forward
  <2>2. Advances(CallRecord, x, call[c], "lock", call[c].snapshot, why)
    BY <2>1, Advancing
  <2>3. call' = [call EXCEPT ![c] = x] /\ msgs' = msgs /\ TellsTrue
    BY <1>2, SilentTells DEF GoRecover, Await
  <2> HIDE DEF x
  <2>4. /\ x.pc = "lock" /\ x.why # "none" /\ x.client \in Client
        /\ x.snapshot.version <= cached'[x.client].version
    BY <2>2, LagFacts DEF Advances, CachedBy
  <2>5. Follower(x)
    BY <2>4 DEF Follower
  <2> QED BY <2>3, <2>4, <2>5, QuietKeepsShared
<1> QED BY <1>1, <1>2

\* A call sends nothing and goes on to another phase, on another segment or in another round.
LEMMA AwaitKeepsShared ==
  ASSUME Forward, NEW c \in Call, NEW x,
         NEW y, NEW p, NEW z, NEW why, Advances(CallRecord, x, y, p, z, why), CachedBy(y.client, z),
         Follower(x), Await(c, x, {}), answers' = answers
  PROVE  SharedInv'
<1>1. call' = [call EXCEPT ![c] = x] /\ msgs' = msgs /\ TellsTrue
  BY SilentTells DEF Await
<1>2. x.client \in Client /\ x.snapshot.version <= cached'[x.client].version
  BY DEF Advances, CachedBy
<1> QED BY <1>1, <1>2, QuietKeepsShared

-----------------------------------------------------------------------------
(* One shared log: calls begin, append and ask for the tail.               *)

\* A later version's active segment ends where an earlier one's does, or behind it.
LEMMA ActivesGrow ==
  ASSUME ChainsInv, SharedInv, NEW v \in 1..Len(history), NEW u \in 1..v
  PROVE  End(Active(history[u])) <= End(Active(history[v]))
<1>1. Types /\ Len(history) \in Nat /\ DOMAIN history = 1..Len(history)
  BY DEF ChainsInv, Types
<1>2. /\ v \in 0..Len(history) /\ u \in 0..Len(history) /\ u > 0 /\ v > 0
  BY <1>1
<1>3. Active(history[u]) \in Installed /\ Active(history[v]) \in Installed
  BY <1>1, <1>2, VersionType
<1>4. /\ End(Active(history[u])) \in Nat /\ End(Active(history[v])) \in Nat
      /\ Active(history[v]).start \in Nat /\ Active(history[v]).start <= End(Active(history[v]))
  BY <1>1, <1>3, InstalledType
<1>5. Succeeded(u, v)
  BY <1>1 DEF SharedInv, GaplessInv
<1>6. CASE Active(history[u]).id = Active(history[v]).id
  <2>1. Active(history[u]).start = Active(history[v]).start
    BY <1>3, <1>6 DEF ChainsInv, SegmentsInv, Apart
  <2> QED BY <1>4, <1>6, <2>1 DEF End
<1>7. CASE Before(Active(history[u]), Active(history[v]))
  BY <1>4, <1>7 DEF Before
<1> QED BY <1>5, <1>6, <1>7 DEF Succeeded

\* The client of a call knows of the segment that the call works on.
LEMMA TargetReached ==
  ASSUME Forward, NEW c \in Call, call[c].pc # "idle", call[c].snapshot.version > 0
  PROVE  /\ Target(c) \in Installed /\ End(Target(c)) \in Nat
         /\ \A n \in Nat : n <= End(Target(c)) => Reaches(call[c].client, n)
         /\ End(Target(c)) <= End(Active(Cached(c).chain))
<1> DEFINE v == call[c].snapshot.version
           w == Cached(c).version
<1>1. ChainsInv /\ SharedInv /\ Types
  BY DEF Forward, ChainsInv
<1>2. /\ call[c].snapshot \in ClientSnapshot /\ Known(call[c].snapshot) /\ call[c].client \in Client
      /\ Cached(c) \in ClientSnapshot /\ Known(Cached(c)) /\ Cached(c) = cached[call[c].client]
  BY <1>1, CallFacts DEF Cached, ClientOf
<1>3. v \in Nat /\ w \in Nat /\ v <= w /\ v > 0
  BY <1>1, <1>2 DEF ClientSnapshot, SharedInv, LagsInv
<1>4. /\ v \in 1..Len(history) /\ call[c].snapshot.chain = history[v]
      /\ w \in 1..Len(history) /\ Cached(c).chain = history[w]
      /\ Target(c) \in Installed
  BY <1>1, <1>2, <1>3, OnSegmentFacts DEF Target
<1>5. End(Target(c)) \in Nat
  BY <1>1, <1>4, InstalledType
<1>6. v \in 1..w
  BY <1>3
<1>7. End(Active(history[v])) <= End(Active(history[w]))
  BY <1>1, <1>4, <1>6, ActivesGrow
<1>8. \A n \in Nat : n <= End(Target(c)) => Reaches(call[c].client, n)
  BY <1>2, <1>4, <1>6 DEF Reaches, Target
<1> QED BY <1>4, <1>5, <1>7, <1>8 DEF Target

\* The head of the chain that a call works with.
LEMMA HeadRemoved ==
  ASSUME ChainsInv, SharedInv, NEW z \in ClientSnapshot, Known(z), z.version > 0
  PROVE  Removed(First(z.chain).start)
<1>1. z.version \in 1..Len(history) /\ z.chain = history[z.version]
  BY OnSegmentFacts DEF ChainsInv
<1>2. z.version \in DOMAIN history
  BY <1>1 DEF ChainsInv, Types
<1> QED BY <1>1, <1>2 DEF SharedInv, GaplessInv

\* The segments of a chain derived from an installed one follow others, if the last does.
LEMMA DerivedFollows ==
  ASSUME ChainsInv, SharedInv, NEW v \in 1..Len(history), NEW chain \in Seq(SegmentRecord),
         Derived(chain, v), Follows(Active(chain))
  PROVE  \A i \in DOMAIN chain : Follows(chain[i])
<1> SUFFICES ASSUME NEW i \in DOMAIN chain PROVE Follows(chain[i])
  OBVIOUS
<1>1. CASE i = Len(chain)
  BY <1>1 DEF Active
<1>2. CASE i # Len(chain)
  <2>1. Kept(chain[i], v)
    BY <1>2 DEF Derived
  <2>2. PICK j \in DOMAIN history[v] : chain[i].id = history[v][j].id /\ chain[i].start = history[v][j].start
    BY <2>1 DEF Kept
  <2>3. v \in DOMAIN history
    BY DEF ChainsInv, Types
  <2>4. history[v][j] \in Installed
    BY <2>3, InstalledIs
  <2>5. Follows(history[v][j])
    BY <2>4 DEF SharedInv, GaplessInv
  <2> QED BY <2>2, <2>5 DEF Follows
<1> QED BY <1>1, <1>2

LEMMA ActiveFollows ==
  ASSUME ChainsInv, SharedInv, NEW v \in 1..Len(history)
  PROVE  Follows(Active(history[v]))
<1>1. Types /\ v \in 0..Len(history) /\ v > 0
  BY DEF ChainsInv, Types
<1>2. Active(history[v]) \in Installed
  BY <1>1, VersionType
<1> QED BY <1>2 DEF SharedInv, GaplessInv

LEMMA ReadBegins ==
  ASSUME Forward, NEW k \in Client, NEW request \in Request, request.op = "read",
         NEW t \in ToldTails(k), request.to <= t
  PROVE  cached[k].version > 0 /\ request.to <= End(Active(cached[k].chain))
<1> DEFINE w == cached[k].version
<1>1. ChainsInv /\ SharedInv /\ Types /\ w \in Nat /\ request.to \in Nat
  BY ForwardFacts DEF Forward, ChainsInv, Request, Position
<1>2. Reaches(k, t)
  BY <1>1 DEF ToldTails, SharedInv, Tells
<1>3. t \in Nat
  BY <1>2 DEF Reaches
<1>4. PICK v \in 1..w : t <= End(Active(history[v]))
  BY <1>2 DEF Reaches
<1>5. w > 0 /\ cached[k] \in ClientSnapshot /\ Known(cached[k])
  BY <1>1, <1>4 DEF ChainsInv, CallsInv, Types
<1>6. w \in 1..Len(history) /\ cached[k].chain = history[w]
  BY <1>1, <1>5, OnSegmentFacts
<1>7. End(Active(history[v])) <= End(Active(history[w]))
  BY <1>1, <1>4, <1>6, ActivesGrow
<1>8. /\ Active(history[v]) \in Installed /\ Active(history[w]) \in Installed
  <2>1. /\ v \in 0..Len(history) /\ v > 0 /\ w \in 0..Len(history)
    BY <1>1, <1>4, <1>6 DEF Types
  <2> QED BY <1>1, <1>5, <2>1, VersionType
<1>9. End(Active(history[v])) \in Nat /\ End(Active(history[w])) \in Nat
  BY <1>1, <1>8, InstalledType
<1> DEFINE e == End(Active(history[v]))
           f == End(Active(history[w]))
<1>10. e \in Nat /\ f \in Nat /\ t \in Nat /\ request.to \in Nat /\ request.to <= t /\ t <= e /\ e <= f
  BY <1>1, <1>3, <1>4, <1>7, <1>9
<1> HIDE DEF e, f
<1>11. request.to <= f
  BY <1>10
<1> QED BY <1>5, <1>6, <1>11 DEF f

\* Whatever is below what is removed is removed.
LEMMA RemovedBelow ==
  ASSUME ChainsInv, NEW n, Removed(n), NEW m \in Nat, m <= n
  PROVE  Removed(m)
<1>1. n \in Nat
  BY DEF Removed
<1>2. CASE n = 0
  BY <1>2 DEF Removed
<1>3. CASE n # 0
  <2>1. PICK s \in Installed : trimmed[s.id] > 0 /\ n <= s.start + trimmed[s.id]
    BY <1>3 DEF Removed
  <2>2. s.start \in Nat /\ trimmed[s.id] \in Nat
    BY InstalledType DEF ChainsInv, Types
  <2>3. m <= s.start + trimmed[s.id]
    BY <1>1, <2>1, <2>2
  <2> QED BY <2>1, <2>3 DEF Removed
<1> QED BY <1>2, <1>3

LEMMA FirstIndex == \A k, request : NewCall(k, request).index = 1
BY DEF NewCall, Idle

LEMMA BeginKeepsShared ==
  ASSUME Forward, NEW c \in Call, NEW k \in Client, NEW request \in Request, Begin(c, k, request)
  PROVE  SharedInv'
<1> DEFINE y == NewCall(k, request)
<1>1. /\ ChainsInv /\ SharedInv /\ Types /\ Len(history) \in Nat /\ call[c].pc = "idle"
      /\ cached' = cached
  BY DEF Forward, ChainsInv, Types, Begin
<1>2. Begun(CallRecord, y, "idle", k, request, Uninstalled, "none", AckedTail)
  BY <1>1, BegunType, AckedTailFacts
<1>3. cached[k] \in ClientSnapshot /\ Known(cached[k]) /\ cached[k].version \in Nat
  BY <1>1 DEF ChainsInv, CallsInv, Types, ClientSnapshot
<1>4. InitialConfig \in Config
  BY NodesExist
<1>5. y.index = 1
  BY FirstIndex
<1> HIDE DEF y
<1>6. /\ y \in CallRecord /\ y.client = k /\ y.request = request /\ y.why = "none"
      /\ y.snapshot = Uninstalled
  BY <1>2 DEF Begun
<1>7. CachedBy(y.client, cached[k]) /\ CachedBy(y.client, Uninstalled)
  <2>1. Known(Uninstalled) /\ Uninstalled \in ClientSnapshot /\ Uninstalled.version = 0
    BY <1>1, UninstalledKnown
  <2> QED BY <1>1, <1>3, <1>6, <2>1 DEF CachedBy
<1>8. CASE BeginBootstrap(c, k, request)
  <2> DEFINE chain == <<SegmentOf(made + 1, 0, InitialConfig)>>
  <2>1. made < MaxSegment /\ Propose(c, y, Uninstalled, chain) /\ request.op = "bootstrap"
    BY <1>8 DEF BeginBootstrap, y
  <2>2. made + 1 \in Segment
    BY <1>1, <2>1, SegmentAssumption DEF Segment, ChainsInv, Types
  <2>3. SegmentOf(made + 1, 0, InitialConfig) \in SegmentRecord
    BY <1>4, <2>2 DEF SegmentOf, SegmentRecord
  <2>4. /\ chain \in Seq(SegmentRecord) /\ First(chain).start = 0
        /\ \A i \in DOMAIN chain : chain[i].start = 0
    BY <2>3 DEF First, SegmentOf
  <2> HIDE DEF chain
  <2>5. Removed(First(chain).start) /\ \A i \in DOMAIN chain : Follows(chain[i])
    BY <2>4 DEF Removed, Follows
  <2> QED BY <1>6, <1>7, <2>1, <2>4, <2>5, ProposeKeepsShared
<1>9. CASE BeginJoin(c, k, request)
  <2> DEFINE x == [y EXCEPT !.pc = "refresh"]
  <2>1. Await(c, x, {}) /\ answers' = answers /\ request.op = "join"
    BY <1>9 DEF BeginJoin, y
  <2>2. "refresh" \in Phases
    BY DEF Phases
  <2>3. Advances(CallRecord, x, y, "refresh", y.snapshot, y.why)
    BY <1>6, <2>2, Advancing
  <2> HIDE DEF x
  <2>4. x.pc = "refresh" /\ x.request.op = "join"
    BY <1>6, <2>1, <2>3 DEF Advances
  <2>5. Follower(x)
    BY <2>4 DEF Follower
  <2> QED BY <1>6, <1>7, <2>1, <2>3, <2>5, AwaitKeepsShared
<1>10. CASE BeginSeal(c, k, request)
  <2>1. Extend(c, y, cached[k], InitialConfig) /\ request.op = "seal"
    BY <1>10 DEF BeginSeal, y
  <2> QED BY <1>4, <1>6, <1>7, <2>1, ExtendKeepsShared
<1>11. CASE BeginOnActive(c, k, request)
  <2>1. Try(c, y, cached[k]) /\ cached[k].chain # <<>>
    BY <1>11 DEF BeginOnActive, y
  <2>2. cached[k].version > 0
    BY <1>3, <2>1 DEF Known, Version
  <2> QED BY <1>6, <1>7, <2>1, <2>2, TryKeepsShared
<1>12. CASE BeginRead(c, k, request)
  <2> DEFINE x == [y EXCEPT !.pc = "read", !.snapshot = cached[k]]
  <2>1. Await(c, x, {}) /\ answers' = answers /\ request.op = "read"
    BY <1>12 DEF BeginRead, y
  <2>2. "read" \in Phases
    BY DEF Phases
  <2>3. Advances(CallRecord, x, y, "read", cached[k], y.why)
    BY <1>3, <1>6, <2>2, Advancing
  <2>4. x.index = 1
    <3>1. x.index = y.index
      BY <1>6 DEF CallRecord
    <3> QED BY <1>5, <3>1
  <2> HIDE DEF x
  <2>5. x.pc = "read" /\ x.request = request /\ x.snapshot = cached[k]
    BY <1>6, <2>3 DEF Advances
  <2>6. cached[k].version > 0 /\ request.to <= End(Active(cached[k].chain))
    BY <1>12, <2>1, ReadBegins DEF BeginRead
  <2>7. Skipped(request.from, request.to, cached[k].chain[1].start)
    <3> DEFINE n == First(cached[k].chain).start
    <3>1. Removed(n)
      BY <1>1, <1>3, <2>6, HeadRemoved
    <3>2. n \in Nat /\ request.from \in Nat
      BY <2>1, <3>1 DEF Removed, Request, Position
    <3> HIDE DEF n
    <3>3. \A q \in request.from..(n - 1) : q + 1 \in Nat /\ q + 1 <= n
      BY <3>2
    <3>4. \A q \in request.from..(n - 1) : Removed(q + 1)
      BY <1>1, <3>1, <3>3, RemovedBelow
    <3> QED BY <3>4 DEF Skipped, First, n
  <2>8. Reading(x)
    BY <2>1, <2>4, <2>5, <2>6, <2>7 DEF Reading
  <2>9. Follower(x)
    BY <2>5, <2>8 DEF Follower, Recovering
  <2> QED BY <1>6, <1>7, <2>1, <2>3, <2>9, AwaitKeepsShared
<1>13. CASE BeginModify(c, k, request)
  <2>1. /\ request.op = "modify"
        /\ \E i \in 1..(Len(cached[k].chain) - 1) :
             Propose(c, y, cached[k], Modified(cached[k].chain, i, request.config))
    BY <1>13 DEF BeginModify, y
  <2>2. PICK i \in 1..(Len(cached[k].chain) - 1) :
          Propose(c, y, cached[k], Modified(cached[k].chain, i, request.config))
    BY <2>1
  <2>3. request.config \in Config
    BY <2>1 DEF Request
  <2>4. cached[k].version > 0
    <3>1. cached[k].chain \in Seq(SegmentRecord)
      BY <1>3 DEF ClientSnapshot
    <3>2. cached[k].chain # <<>>
      BY <2>2, <3>1
    <3> QED BY <1>3, <3>2 DEF Known, Version
  <2>5. /\ cached[k].version \in 1..Len(history) /\ cached[k].chain = history[cached[k].version]
        /\ cached[k].chain \in Chain
    BY <1>1, <1>3, <2>4, OnSegmentFacts
  <2> DEFINE chain == Modified(cached[k].chain, i, request.config)
  <2>6. chain \in Seq(SegmentRecord) /\ Derived(chain, cached[k].version)
    BY <1>1, <2>3, <2>5, ModifiedDerived
  <2>7. First(chain).start = First(cached[k].chain).start
    <3>1. 1 \in DOMAIN cached[k].chain /\ First(cached[k].chain) \in SegmentRecord
      BY <2>5, ChainFacts
    <3>2. chain[1] = IF i = 1 THEN [cached[k].chain[1] EXCEPT !.config = request.config]
                     ELSE cached[k].chain[1]
      BY <3>1 DEF Modified
    <3> QED BY <3>1, <3>2 DEF First, SegmentRecord
  <2>8. Active(chain) = Active(cached[k].chain)
    BY <2>5, ActiveOfModified
  <2>9. Propose(c, y, cached[k], chain)
    BY <2>2
  <2> HIDE DEF chain
  <2>10. Removed(First(chain).start)
    BY <1>1, <1>3, <2>4, <2>7, HeadRemoved
  <2>11. \A j \in DOMAIN chain : Follows(chain[j])
    BY <1>1, <2>5, <2>6, <2>8, ActiveFollows, DerivedFollows
  <2> QED BY <1>6, <1>7, <2>1, <2>6, <2>9, <2>10, <2>11, ProposeKeepsShared
<1> QED BY <1>8, <1>9, <1>10, <1>11, <1>12, <1>13 DEF Begin

LEMMA AppendingKeepsShared ==
  ASSUME Forward, NEW c \in Call,
         Raise(c) \/ Unavailable(c) \/ AppendAnswered(c) \/ AppendRefused(c) \/ RefreshedEmpty(c)
  PROVE  SharedInv'
<1>1. CASE Raise(c)
  BY <1>1, FailKeepsShared DEF Raise, Running
<1>2. CASE Unavailable(c)
  BY <1>2, GoRecoverKeepsShared DEF Unavailable
<1>3. CASE AppendAnswered(c)
  <2> DEFINE s == Target(c)
  <2>1. PICK i \in DOMAIN log[s.id] :
          Finish(c, {[kind |-> "append", client |-> ClientOf(c), command |-> call[c].request.command,
                      position |-> s.start + i - 1]})
    BY <1>3 DEF AppendAnswered
  <2>2. call[c].pc = "append" /\ call[c].snapshot.version > 0 /\ Types
    BY <1>3, CallFacts DEF AppendAnswered, OnSegment, Forward, ChainsInv
  <2>3. s \in Installed /\ \A n \in Nat : n <= End(s) => Reaches(call[c].client, n)
    BY <2>2, TargetReached
  <2>4. s.start \in Nat /\ log[s.id] \in Seq(Command) /\ Len(log[s.id]) \in Nat
    BY <2>2, <2>3, InstalledType
  <2>5. i \in 1..Len(log[s.id])
    BY <2>4
  <2>6. PICK k, w, n : k = ClientOf(c) /\ w = call[c].request.command /\ n = s.start + i - 1
    OBVIOUS
  <2>7. n + 1 \in Nat /\ n + 1 <= End(s)
    BY <2>4, <2>5, <2>6 DEF End
  <2>8. Reaches(k, n + 1)
    BY <2>3, <2>6, <2>7 DEF ClientOf
  <2>9. Reaches(k, n + 1)'
    BY <2>8, ForwardFacts
  <2> DEFINE told == {[kind |-> "append", client |-> k, command |-> w, position |-> n]}
  <2>10. \A a \in told : Tells(a)'
    BY <2>9 DEF Tells
  <2>11. Finish(c, told)
    BY <2>1, <2>6
  <2> QED BY <2>2, <2>10, <2>11, FinishKeepsShared
<1>4. CASE AppendRefused(c)
  BY <1>4, GoRecoverKeepsShared DEF AppendRefused
<1>5. CASE RefreshedEmpty(c)
  BY <1>5, FailKeepsShared DEF RefreshedEmpty
<1> QED BY <1>1, <1>2, <1>3, <1>4, <1>5

LEMMA TailAnsweredKeepsShared ==
  ASSUME Forward, NEW c \in Call, TailAnswered(c)
  PROVE  SharedInv'
<1>1. /\ call[c].pc = "tail" /\ call[c].pc # "idle" /\ call[c].pc \in OnSegment
      /\ ChainsInv /\ Types /\ call[c] \in CallRecord
  BY DEF TailAnswered, OnSegment, Forward, ChainsInv, Types
<1>2. call[c].snapshot.version > 0 /\ Cached(c).version > 0
  BY <1>1, CallFacts
<1>3. /\ End(Target(c)) \in Nat /\ End(Target(c)) <= End(Active(Cached(c).chain))
      /\ Reaches(call[c].client, End(Target(c)))
  BY <1>1, <1>2, TargetReached
<1>4. ASSUME NEW isSealed, TailReturned(c, End(Target(c)), isSealed)
      PROVE  SharedInv'
  <2>1. CASE call[c].request.op = "check_tail"
    <3>1. PICK k, n, f : k = ClientOf(c) /\ n = End(Target(c)) /\ f = call[c].floor
      OBVIOUS
    <3> DEFINE told == {[kind |-> "tail", client |-> k, position |-> n, sealed |-> isSealed, floor |-> f]}
    <3>2. Finish(c, told)
      BY <1>4, <2>1, <3>1 DEF TailReturned
    <3>3. Reaches(k, n)'
      BY <1>3, <3>1, ForwardFacts DEF ClientOf
    <3>4. \A a \in told : Tells(a)'
      BY <3>3 DEF Tells
    <3> QED BY <1>1, <3>2, <3>4, FinishKeepsShared
  <2>2. CASE call[c].request.op # "check_tail" /\ call[c].request.position > End(Target(c))
    BY <1>1, <1>4, <2>2, FailKeepsShared DEF TailReturned
  <2>3. CASE call[c].request.op # "check_tail" /\ ~ (call[c].request.position > End(Target(c)))
    <3> DEFINE x == [call[c] EXCEPT !.pc = "trim", !.snapshot = Cached(c), !.index = 0, !.attempt = 1]
    <3>1. Await(c, x, {}) /\ answers' = answers
      BY <1>4, <2>3 DEF TailReturned
    <3>2. "trim" \in Phases /\ 0 \in Nat /\ 1 \in Nat
      BY DEF Phases
    <3>3. Advances(CallRecord, x, call[c], "trim", Cached(c), call[c].why)
      BY <1>1, <3>2, CallFacts, Advancing
    <3>4. x.index = 0
      BY <1>1 DEF CallRecord
    <3> HIDE DEF x
    <3>5. x.pc = "trim" /\ x.request = call[c].request /\ x.snapshot = Cached(c)
      BY <3>3 DEF Advances
    <3>6. call[c].request.op = "trim" /\ call[c].request \in Request
      BY <1>1, <2>3, CallFacts DEF ChainsInv, CallsInv, Prepared
    <3>7. call[c].request.position \in Nat
      BY <3>6 DEF Request, Position
    <3>8. End(Active(Cached(c).chain)) \in Nat
      <4>1. Active(Cached(c).chain) \in Installed
        BY <1>1, <1>2, CallFacts, OnSegmentFacts
      <4> QED BY <1>1, <4>1, InstalledType
    <3>9. call[c].request.position <= End(Active(Cached(c).chain))
      BY <1>3, <2>3, <3>7, <3>8
    <3>10. Trimming(x)
      BY <3>4, <3>5, <3>9 DEF Trimming
    <3>11. Follower(x)
      BY <3>5, <3>10 DEF Follower, Recovering
    <3> QED BY <1>1, <3>1, <3>3, <3>11, LagFacts, AwaitKeepsShared
  <2> QED BY <2>1, <2>2, <2>3
<1>5. CASE Target(c).id \notin sealed
  <2>1. TailReturned(c, End(Target(c)), FALSE)
    BY <1>5 DEF TailAnswered, End
  <2> QED BY <1>4, <2>1
<1>6. CASE Target(c).id \in sealed /\ call[c].attempt = MaxAttempts
  <2>1. TailReturned(c, End(Target(c)), TRUE)
    BY <1>6 DEF TailAnswered, End
  <2> QED BY <1>4, <2>1
<1>7. CASE Target(c).id \in sealed /\ call[c].attempt # MaxAttempts
  BY <1>1, <1>7, GoRecoverKeepsShared DEF TailAnswered
<1> QED BY <1>5, <1>6, <1>7

-----------------------------------------------------------------------------
(* One shared log: reconfigurations.                                       *)

LEMMA RecoveringKeepsShared ==
  ASSUME Forward, NEW c \in Call, TakeLock(c) \/ SuccessorFound(c)
  PROVE  SharedInv'
<1>1. /\ call[c].pc \in {"lock", "successor"} /\ call[c].pc # "idle" /\ call[c].pc \in OnSegment
      /\ ChainsInv /\ Types /\ call[c] \in CallRecord
  BY DEF TakeLock, SuccessorFound, OnSegment, Recovering, Forward, ChainsInv, Types
<1>2. call[c].request.op = "trim" => call[c].why # "none"
  <2>1. Follower(call[c])
    BY <1>1, LagFacts
  <2> QED BY <1>1, <2>1 DEF Follower, Recovering
<1>3. CASE TakeLock(c) /\ StillActive(c, Cached(c))
  <2> DEFINE x == [call[c] EXCEPT !.pc = "refresh", !.asked = Len(history)]
  <2>1. Await(c, x, {}) /\ answers' = answers
    BY <1>3 DEF TakeLock
  <2>2. "refresh" \in Phases /\ Len(history) \in Nat
    BY <1>1 DEF Phases, Types
  <2>3. Advances(CallRecord, x, call[c], "refresh", call[c].snapshot, call[c].why)
    BY <1>1, <2>2, Advancing
  <2> HIDE DEF x
  <2>4. x.pc = "refresh" /\ x.request = call[c].request /\ x.why = call[c].why
    BY <2>3 DEF Advances
  <2>5. Follower(x)
    BY <1>2, <2>4 DEF Follower
  <2> QED BY <1>1, <2>1, <2>3, <2>5, LagFacts, AwaitKeepsShared
<1>4. CASE TakeLock(c) /\ ~ StillActive(c, Cached(c))
  <2>1. Retry(c, Cached(c))
    BY <1>4 DEF TakeLock
  <2> QED BY <1>1, <2>1, CallFacts, LagFacts, RetryKeepsShared
<1>5. CASE SuccessorFound(c)
  <2>1. PICK config \in Successors(call[c].config) : Extend(c, call[c], Cached(c), config)
    BY <1>5 DEF SuccessorFound
  <2>2. config \in Config
    <3>1. call[c].config \in Config
      BY <1>1, CallFacts
    <3>2. PICK n \in call[c].config.members : config = [call[c].config EXCEPT !.sequencer = n]
      BY <2>1 DEF Successors
    <3>3. n \in Node
      BY <3>1 DEF Config
    <3> QED BY <3>1, <3>2, <3>3 DEF Config
  <2> QED BY <1>1, <1>2, <2>1, <2>2, LagFacts, ExtendKeepsShared
<1> QED BY <1>3, <1>4, <1>5

\* What a client has just cached.
LEMMA JustCached ==
  ASSUME Forward, NEW k \in Client, NEW v \in 1..Len(history),
         cached' = [cached EXCEPT ![k] = Version(v)]
  PROVE  CachedBy(k, Version(v)) /\ Version(v).version = v /\ v > 0
<1>1. Types /\ v \in 0..Len(history) /\ v > 0 /\ v \in Nat
  BY DEF Forward, ChainsInv, Types
<1>2. Version(v) \in ClientSnapshot /\ Known(Version(v)) /\ Version(v).version = v
  BY <1>1, VersionType
<1>3. cached'[k] = Version(v)
  BY <1>1 DEF Types
<1> QED BY <1>1, <1>2, <1>3 DEF CachedBy

LEMMA RefreshedKeepsShared ==
  ASSUME Forward, NEW c \in Call, Refreshed(c) \/ GraceOver(c)
  PROVE  SharedInv'
<1>1. /\ call[c].pc \in {"refresh", "grace"} /\ call[c].pc # "idle"
      /\ ChainsInv /\ call[c] \in CallRecord /\ call[c].client \in Client
  BY CallFacts DEF Refreshed, GraceOver, Forward, ChainsInv, Types
<1>2. call[c].request.op = "trim" => call[c].why # "none"
  <2>1. Follower(call[c])
    BY <1>1, LagFacts
  <2> QED BY <1>1, <2>1 DEF Follower, Recovering
<1>3. ASSUME NEW v \in Told(c) \ {0}, cached' = [cached EXCEPT ![ClientOf(c)] = Version(v)]
      PROVE  /\ CachedBy(call[c].client, Version(v)) /\ Version(v).version > 0
             /\ Active(history[v]).config \in Config
  BY <1>1, <1>3, ToldFacts, JustCached DEF ClientOf
<1>4. CASE Refreshed(c)
  <2> DEFINE config(v) == Active(history[v]).config
  <2>1. PICK v \in Told(c) \ {0} :
          /\ cached' = [cached EXCEPT ![ClientOf(c)] = Version(v)]
          /\ IF call[c].request.op = "join"
               THEN IF call[c].request.node \in config(v).members
                      THEN Finish(c, {[kind |-> "join", node |-> call[c].request.node, version |-> v]})
                      ELSE Extend(c, call[c], Version(v), Joined(config(v), call[c].request.node))
               ELSE IF ~StillActive(c, Version(v))
               THEN Retry(c, Version(v))
               ELSE /\ Await(c, [call[c] EXCEPT !.pc = IF call[c].why = "sealed" THEN "grace" ELSE "successor",
                                                !.config = config(v)], {})
                    /\ answers' = answers
    BY <1>4 DEF Refreshed
  <2>2. CachedBy(call[c].client, Version(v)) /\ Version(v).version > 0 /\ config(v) \in Config
    BY <1>3, <2>1
  <2>3. CASE call[c].request.op = "join" /\ call[c].request.node \in config(v).members
    <3> DEFINE told == {[kind |-> "join", node |-> call[c].request.node, version |-> v]}
    <3>1. Finish(c, told)
      BY <2>1, <2>3
    <3>2. \A a \in told : Tells(a)'
      BY DEF Tells
    <3> HIDE DEF told
    <3> QED BY <1>1, <3>1, <3>2, FinishKeepsShared
  <2>4. CASE call[c].request.op = "join" /\ call[c].request.node \notin config(v).members
    <3>1. call[c].request.node \in Node
      BY <1>1, <2>4, CallFacts DEF Request
    <3>2. Joined(config(v), call[c].request.node) \in Config
      BY <2>2, <3>1 DEF Joined, Config
    <3> QED BY <1>1, <2>1, <2>2, <2>4, <3>2, ExtendKeepsShared
  <2>5. CASE call[c].request.op # "join" /\ ~StillActive(c, Version(v))
    BY <1>1, <2>1, <2>2, <2>5, RetryKeepsShared
  <2>6. CASE call[c].request.op # "join" /\ StillActive(c, Version(v))
    <3> DEFINE p == IF call[c].why = "sealed" THEN "grace" ELSE "successor"
               x == [call[c] EXCEPT !.pc = p, !.config = config(v)]
    <3>1. Await(c, x, {}) /\ answers' = answers
      BY <2>1, <2>6
    <3>2. p \in Phases /\ p \in {"grace", "successor"}
      BY DEF Phases
    <3> HIDE DEF p
    <3>3. Advances(CallRecord, x, call[c], p, call[c].snapshot, call[c].why)
      BY <1>1, <2>2, <3>2, Advancing
    <3> HIDE DEF x
    <3>4. x.pc \in {"grace", "successor"} /\ x.request = call[c].request /\ x.why = call[c].why
      BY <3>2, <3>3 DEF Advances
    <3>5. Follower(x)
      BY <1>2, <3>4 DEF Follower
    <3> QED BY <1>1, <3>1, <3>3, <3>5, LagFacts, AwaitKeepsShared
  <2> QED BY <2>3, <2>4, <2>5, <2>6
<1>5. CASE GraceOver(c)
  <2>1. PICK v \in Told(c) \ {0} :
          /\ cached' = [cached EXCEPT ![ClientOf(c)] = Version(v)]
          /\ IF StillActive(c, Version(v))
               THEN Extend(c, call[c], Version(v), Active(history[v]).config)
               ELSE Retry(c, Version(v))
    BY <1>5 DEF GraceOver
  <2>2. /\ CachedBy(call[c].client, Version(v)) /\ Version(v).version > 0
        /\ Active(history[v]).config \in Config
    BY <1>3, <2>1
  <2> QED BY <1>1, <1>2, <2>1, <2>2, ExtendKeepsShared, RetryKeepsShared
<1> QED BY <1>4, <1>5

LEMMA SealingKeepsShared ==
  ASSUME Forward, NEW c \in Call, SealAnswered(c) \/ SealedTailAnswered(c)
  PROVE  SharedInv'
<1>1. /\ call[c].pc \in {"seal", "sealed_tail"} /\ call[c].pc # "idle" /\ call[c].pc \in OnSegment
      /\ ChainsInv /\ SharedInv /\ Types /\ call[c] \in CallRecord
  BY DEF SealAnswered, SealedTailAnswered, OnSegment, Forward, ChainsInv, Types
<1>2. call[c].request.op = "trim" => call[c].why # "none"
  <2>1. Follower(call[c])
    BY <1>1, LagFacts
  <2> QED BY <1>1, <2>1 DEF Follower, Recovering
<1>3. CASE SealAnswered(c)
  <2>1. CASE call[c].request.op = "seal"
    BY <1>1, <1>3, <2>1, FinishKeepsShared DEF SealAnswered
  <2>2. CASE call[c].request.op # "seal"
    <3> DEFINE x == [call[c] EXCEPT !.pc = "sealed_tail"]
    <3>1. Await(c, x, {}) /\ answers' = answers
      BY <1>3, <2>2 DEF SealAnswered
    <3>2. "sealed_tail" \in Phases
      BY DEF Phases
    <3>3. Advances(CallRecord, x, call[c], "sealed_tail", call[c].snapshot, call[c].why)
      BY <1>1, <3>2, Advancing
    <3> HIDE DEF x
    <3>4. x.pc = "sealed_tail" /\ x.request = call[c].request /\ x.why = call[c].why
      BY <3>3 DEF Advances
    <3>5. Follower(x)
      BY <1>2, <3>4 DEF Follower
    <3> QED BY <1>1, <3>1, <3>3, <3>5, LagFacts, AwaitKeepsShared
  <2> QED BY <2>1, <2>2
<1>4. CASE SealedTailAnswered(c)
  <2> DEFINE z == call[c].snapshot
             old == Active(z.chain)
             chain == Extended(z.chain, End(old), made + 1, call[c].config)
  <2>1. Propose(c, call[c], z, chain) /\ made < MaxSegment /\ call[c].pc = "sealed_tail"
    BY <1>4 DEF SealedTailAnswered, Target, End
  <2>2. made + 1 \in Segment /\ made \in Nat
    BY <1>1, <2>1, SegmentAssumption DEF ChainsInv, Types, Segment
  <2>3. /\ z \in ClientSnapshot /\ Known(z) /\ z.version > 0
        /\ z.version \in 1..Len(history) /\ z.chain = history[z.version] /\ z.chain \in Chain
        /\ old \in Installed
    BY <1>1, CallFacts, OnSegmentFacts
  <2>4. Active(history[z.version]).id \in sealed
    BY <1>1, <2>1, <2>3 DEF ChainsInv, CallsInv, Prepared
  <2>5. /\ chain \in Seq(SegmentRecord) /\ Derived(chain, z.version)
        /\ Len(chain) = Len(z.chain) + 1 /\ First(chain).start = First(z.chain).start
    <3>1. call[c].config \in Config
      BY <1>1, CallFacts
    <3> QED BY <1>1, <2>2, <2>3, <2>4, <3>1, ExtendedDerived
  <2>6. Active(chain) = SegmentOf(made + 1, End(old), call[c].config)
    <3>1. \A stop, id, config : \A longer \in Seq(SegmentRecord) :
            longer = Extended(z.chain, stop, id, config) => Active(longer) = SegmentOf(id, stop, config)
      BY <2>3, ActiveOfExtended
    <3> QED BY <2>5, <3>1
  <2>7. Follows(Active(chain))
    <3>1. old.id \in Nat /\ old.id <= made /\ old.id \in sealed
      BY <1>1, <2>3, <2>4, InstalledType DEF ChainsInv, SegmentsInv
    <3>2. Active(chain).start = End(old) /\ old.id < Active(chain).id
      BY <2>2, <2>6, <3>1 DEF SegmentOf
    <3> QED BY <2>3, <3>1, <3>2 DEF Follows
  <2>8. \A i \in DOMAIN chain : Follows(chain[i])
    BY <1>1, <2>3, <2>5, <2>7, DerivedFollows
  <2> HIDE DEF chain
  <2>9. Removed(First(chain).start)
    BY <1>1, <2>3, <2>5, HeadRemoved
  <2>10. CachedBy(call[c].client, z)
    BY <1>1, LagFacts
  <2> QED BY <1>1, <1>2, <2>1, <2>5, <2>8, <2>9, <2>10, ProposeKeepsShared
<1> QED BY <1>3, <1>4

-----------------------------------------------------------------------------
(* One shared log: prefix_trim.                                            *)

\* A closed segment that is trimmed as far as it is long, and all before it.
LEMMA ClosedRemoved ==
  ASSUME ChainsInv, NEW s \in Installed, s.stop # Open, Removed(s.start),
         trimmed[s.id] >= s.stop - s.start
  PROVE  Removed(s.stop)
<1>1. /\ s.start \in Nat /\ Len(log[s.id]) \in Nat /\ trimmed[s.id] \in Nat
      /\ s.stop = s.start + Len(log[s.id])
  BY InstalledType DEF ChainsInv, Types, SegmentsInv, Closed, End
<1>2. CASE Len(log[s.id]) = 0
  <2>1. s.stop = s.start
    BY <1>1, <1>2
  <2> QED BY <2>1
<1>3. CASE Len(log[s.id]) # 0
  <2>1. s.stop \in Nat /\ trimmed[s.id] > 0 /\ s.stop <= s.start + trimmed[s.id]
    BY <1>1, <1>3
  <2> QED BY <2>1 DEF Removed
<1> QED BY <1>2, <1>3

LEMMA TruncateKeepsShared ==
  ASSUME Forward, NEW c \in Call, call[c].pc # "idle", NEW state \in CallRecord,
         state.client = call[c].client, state.request = call[c].request, state.request.op = "trim",
         Removed(state.request.position),
         NEW z, CachedBy(state.client, z), z.version > 0, Truncate(c, state, z)
  PROVE  SharedInv'
<1> DEFINE head == First(z.chain)
           size == head.stop - head.start
           dropping == /\ state.attempt <= MaxAttempts
                       /\ Len(z.chain) > 1 /\ head.stop <= state.request.position
<1>1. ChainsInv /\ SharedInv /\ z \in ClientSnapshot /\ Known(z)
  BY DEF Forward, CachedBy
<1>2. CASE dropping
  <2> DEFINE x == [state EXCEPT !.pc = "drop", !.snapshot = z]
             m == TrimOf(head.id, size)
             requests == {m}
  <2>1. call' = [call EXCEPT ![c] = x] /\ msgs' = msgs \cup requests /\ TellsTrue
    BY <1>2, SilentTells DEF Truncate, Await
  <2>2. "drop" \in Phases
    BY DEF Phases
  <2>3. Advances(CallRecord, x, state, "drop", z, state.why)
    BY <1>1, <2>2, Advancing
  <2>4. 1 \in 1..Len(z.chain) /\ 1 < Len(z.chain)
    BY <1>1, <1>2 DEF ClientSnapshot
  <2>5. head \in Installed /\ head.stop # Open
    BY <1>1, <2>4, ClosedSize DEF First
  <2>6. size = Len(log[head.id])
    <3>1. head.start \in Nat /\ Len(log[head.id]) \in Nat /\ head.stop = head.start + Len(log[head.id])
      BY <1>1, <2>5, InstalledType DEF ChainsInv, SegmentsInv, Closed, End
    <3> QED BY <3>1
  <2>7. size <= Len(log[head.id])
    <3>1. Len(log[head.id]) \in Nat
      BY <1>1, <2>5, InstalledType DEF ChainsInv
    <3> QED BY <2>6, <3>1
  <2>8. m.type = "trim" /\ m.segment = head.id /\ m.target = size
    BY DEF TrimOf
  <2> HIDE DEF x, m
  <2>9. \A r \in requests : Fits(r)
    BY <2>5, <2>7, <2>8 DEF Fits
  <2> HIDE DEF requests
  <2>10. /\ x.pc = "drop" /\ x.request = state.request /\ x.client \in Client
         /\ x.snapshot.version <= cached'[x.client].version
    BY <2>3 DEF Advances, CachedBy
  <2>11. Follower(x)
    BY <2>10 DEF Follower, Recovering
  <2> QED BY <2>1, <2>9, <2>10, <2>11, StepKeepsShared
<1>3. CASE ~ dropping
  <2>1. PICK p : p = Larger(state.request.position, head.start)
    OBVIOUS
  <2> DEFINE told == {[kind |-> "trim", position |-> p]}
  <2>2. Finish(c, told)
    BY <1>3, <2>1 DEF Truncate
  <2>3. Removed(p)
    BY <1>1, <2>1, HeadRemoved DEF Larger
  <2>4. Removed(p)'
    BY <2>3, ForwardFacts
  <2>5. \A a \in told : Tells(a)'
    BY <2>4 DEF Tells
  <2> HIDE DEF told
  <2> QED BY <2>2, <2>5, FinishKeepsShared
<1> QED BY <1>2, <1>3

LEMMA TrimNextKeepsShared ==
  ASSUME Forward, NEW c \in Call, TrimNext(c)
  PROVE  SharedInv'
<1> DEFINE z == call[c].snapshot
           chain == z.chain
           i == call[c].index
           n == call[c].request.position
           more == i < Len(chain) /\ chain[i + 1].start < n
<1>1. /\ call[c].pc = "trim" /\ call[c].pc # "idle" /\ call[c].pc \in OnSegment
      /\ ChainsInv /\ SharedInv /\ call[c] \in CallRecord /\ call[c].request.op = "trim"
  BY DEF TrimNext, OnSegment, Forward, ChainsInv, Types, CallsInv, Prepared
<1>2. n \in Nat /\ i \in Nat
  BY <1>1, CallFacts DEF Request, Position
<1>3. /\ z \in ClientSnapshot /\ Known(z) /\ z.version > 0 /\ Cached(c).version > 0
      /\ chain \in Chain /\ CachedBy(call[c].client, z) /\ CachedBy(call[c].client, Cached(c))
  BY <1>1, CallFacts, OnSegmentFacts, LagFacts
<1>4. /\ Len(chain) \in Nat /\ Len(chain) > 0 /\ Active(chain) = chain[Len(chain)]
      /\ Active(chain).stop = Open
  BY <1>3, ChainFacts DEF Active
<1>5. Trimming(call[c])
  BY <1>1, LagFacts DEF Follower
<1>6. \A j \in 1..Len(chain) :
        LET s == chain[j]
        IN  /\ s \in Installed /\ s.start \in Nat /\ Len(log[s.id]) \in Nat /\ trimmed[s.id] \in Nat
            /\ IF j = Len(chain) THEN s.stop = Open
               ELSE s.stop # Open /\ s.stop \in Nat /\ s.stop = End(s) /\ chain[j + 1].start = s.stop
  <2> SUFFICES ASSUME NEW j \in 1..Len(chain), NEW s, s = chain[j]
               PROVE  /\ s \in Installed /\ s.start \in Nat /\ Len(log[s.id]) \in Nat /\ trimmed[s.id] \in Nat
                      /\ IF j = Len(chain) THEN s.stop = Open
                         ELSE s.stop # Open /\ s.stop \in Nat /\ s.stop = End(s) /\ chain[j + 1].start = s.stop
    OBVIOUS
  <2>1. s \in Installed /\ (j < Len(chain) => s.stop # Open)
    BY <1>1, <1>3, ClosedSize
  <2>2. s.start \in Nat /\ Len(log[s.id]) \in Nat /\ trimmed[s.id] \in Nat /\ End(s) \in Nat
    BY <1>1, <2>1, InstalledType DEF ChainsInv, Types
  <2>3. j # Len(chain) => j < Len(chain) /\ j \in 1..(Len(chain) - 1)
    BY <1>4
  <2>4. j # Len(chain) => s.stop # Open /\ s.stop = End(s) /\ chain[j + 1].start = s.stop
    BY <1>1, <1>3, <2>1, <2>3, ChainFacts DEF ChainsInv, SegmentsInv, Closed
  <2> QED BY <1>4, <2>1, <2>2, <2>4
<1>7. CASE more
  <2> DEFINE next == chain[i + 1]
             target == TrimTarget(next, n)
             x == [call[c] EXCEPT !.index = i + 1]
             m == TrimOf(next.id, target)
             requests == {m}
  <2>1. call' = [call EXCEPT ![c] = x] /\ msgs' = msgs \cup requests /\ TellsTrue
    BY <1>7, SilentTells DEF TrimNext, Await
  <2>2. i + 1 \in Nat /\ i + 1 \in 1..Len(chain)
    BY <1>2, <1>4, <1>7
  <2>3. Advances(CallRecord, x, call[c], call[c].pc, z, call[c].why)
    BY <1>1, <2>2, Advancing
  <2>4. x.index = i + 1
    BY <1>1 DEF CallRecord
  <2>5. target <= Len(log[next.id])
    <3>1. PICK a, b, l, q : a = next.start /\ b = next.stop /\ l = Len(log[next.id]) /\ q = n
      OBVIOUS
    <3>2. a \in Nat /\ l \in Nat /\ q \in Nat
      BY <1>2, <1>6, <2>2, <3>1
    <3>3. IF i + 1 = Len(chain) THEN b = Open ELSE b # Open /\ b \in Nat /\ b = a + l
      BY <1>6, <2>2, <3>1 DEF End
    <3>4. i + 1 = Len(chain) => q <= a + l
      BY <1>4, <1>5, <3>1 DEF Trimming, End
    <3>5. target = (IF b = Open \/ q < b THEN q ELSE b) - a
      BY <3>1 DEF TrimTarget
    <3>6. (IF b = Open \/ q < b THEN q ELSE b) - a <= l
      <4>1. CASE i + 1 = Len(chain)
        BY <3>2, <3>3, <3>4, <4>1
      <4>2. CASE i + 1 # Len(chain)
        BY <3>2, <3>3, <4>2
      <4> QED BY <4>1, <4>2
    <3> QED BY <3>1, <3>5, <3>6
  <2>6. m.type = "trim" /\ m.segment = next.id /\ m.target = target /\ next \in Installed
    BY <1>6, <2>2 DEF TrimOf
  <2> HIDE DEF x, m, target
  <2>7. \A r \in requests : Fits(r)
    BY <2>5, <2>6 DEF Fits
  <2> HIDE DEF requests
  <2>8. /\ x.pc = "trim" /\ x.request = call[c].request /\ x.snapshot = z /\ x.client = call[c].client
    BY <1>1, <2>3 DEF Advances
  <2>9. Trimming(x)
    BY <1>5, <1>7, <2>2, <2>4, <2>8 DEF Trimming
  <2>10. Follower(x)
    BY <2>8, <2>9 DEF Follower, Recovering
  <2>11. x.client \in Client /\ x.snapshot.version <= cached'[x.client].version
    BY <1>3, <2>8 DEF CachedBy
  <2> QED BY <2>1, <2>7, <2>10, <2>11, StepKeepsShared
<1>8. CASE ~ more
  <2>1. Truncate(c, call[c], Cached(c))
    BY <1>8 DEF TrimNext
  <2>2. Removed(n)
    <3>1. CASE i = 0
      <4>1. First(chain).start >= n /\ First(chain).start \in Nat
        BY <1>2, <1>4, <1>6, <1>8, <3>1 DEF First
      <4>2. Removed(First(chain).start)
        BY <1>1, <1>3, HeadRemoved
      <4> QED BY <1>1, <1>2, <4>1, <4>2, RemovedBelow
    <3>2. CASE i # 0
      <4>1. i > 0 /\ i \in 1..Len(chain) /\ chain[i].start < n
        BY <1>2, <3>2, <1>5 DEF Trimming
      <4> DEFINE s == chain[i]
      <4>2. trimmed[s.id] >= TrimTarget(s, n)
        BY <4>1 DEF TrimNext
      <4>3. /\ s \in Installed /\ s.start \in Nat /\ trimmed[s.id] \in Nat
            /\ IF i = Len(chain) THEN s.stop = Open
               ELSE s.stop # Open /\ s.stop \in Nat /\ chain[i + 1].start = s.stop
        BY <1>6, <4>1
      <4>4. PICK a, b, t, q : a = s.start /\ b = s.stop /\ t = trimmed[s.id] /\ q = n
        OBVIOUS
      <4>5. /\ a \in Nat /\ t \in Nat /\ q \in Nat /\ a < q
            /\ t >= (IF b = Open \/ q < b THEN q ELSE b) - a
        BY <1>2, <4>1, <4>2, <4>3, <4>4 DEF TrimTarget
      <4>6. b = Open \/ (b \in Nat /\ q <= b)
        <5>1. CASE i = Len(chain)
          BY <4>3, <4>4, <5>1
        <5>2. CASE i # Len(chain)
          <6>1. i < Len(chain) /\ chain[i + 1].start = b /\ b \in Nat
            BY <1>2, <1>4, <4>1, <4>3, <4>4, <5>2
          <6>2. ~ (chain[i + 1].start < n)
            BY <1>8, <6>1
          <6>3. ~ (b < q)
            BY <4>4, <6>1, <6>2
          <6> QED BY <4>5, <6>1, <6>3
        <5> QED BY <5>1, <5>2
      <4>7. t > 0 /\ q <= a + t
        BY <4>5, <4>6
      <4> QED BY <4>3, <4>4, <4>5, <4>7 DEF Removed
    <3> QED BY <3>1, <3>2
  <2> QED BY <1>1, <1>3, <2>1, <2>2, TruncateKeepsShared
<1> QED BY <1>7, <1>8

LEMMA DropKeepsShared ==
  ASSUME Forward, NEW c \in Call, Drop(c)
  PROVE  SharedInv'
<1>1. /\ call[c].pc = "drop" /\ call[c].pc # "idle" /\ call[c].pc \in OnSegment
      /\ ChainsInv /\ SharedInv /\ call[c] \in CallRecord
  BY DEF Drop, OnSegment, Forward, ChainsInv, Types
<1> DEFINE z == call[c].snapshot
           chain == Tail(z.chain)
           head == First(z.chain)
<1>2. Propose(c, call[c], z, chain) /\ ValidChain(chain) /\ trimmed[head.id] >= head.stop - head.start
  BY DEF Drop, Propose
<1>3. /\ z \in ClientSnapshot /\ Known(z) /\ z.version > 0
      /\ z.version \in 1..Len(history) /\ z.chain = history[z.version] /\ z.chain \in Chain
  BY <1>1, CallFacts, OnSegmentFacts
<1>4. chain \in Seq(SegmentRecord) /\ Derived(chain, z.version)
  BY <1>1, <1>2, <1>3, TailDerived
<1>5. z.chain \in Seq(SegmentRecord) /\ Len(z.chain) \in Nat /\ Len(z.chain) > 1
  <2>1. z.chain \in Seq(SegmentRecord) /\ Len(z.chain) \in Nat /\ Len(z.chain) > 0
    BY <1>3, ChainFacts
  <2> QED BY <1>2, <2>1 DEF ValidChain
<1>6. First(chain).start = head.stop /\ head.stop # Open /\ head \in Installed
  <2>1. 1 \in 1..(Len(z.chain) - 1) /\ 1 \in 1..Len(z.chain) /\ 1 < Len(z.chain)
    BY <1>5
  <2>2. z.chain[1 + 1].start = z.chain[1].stop
    BY <1>3, <2>1, ChainFacts
  <2>3. chain[1] = z.chain[1 + 1]
    BY <1>5, <2>1
  <2> QED BY <1>1, <1>3, <2>1, <2>2, <2>3, ClosedSize DEF First
<1>7. Removed(First(chain).start)
  <2>1. Removed(head.start)
    BY <1>1, <1>3, HeadRemoved
  <2> QED BY <1>1, <1>2, <1>6, <2>1, ClosedRemoved
<1>8. \A i \in DOMAIN chain : Follows(chain[i])
  <2>1. Active(chain) = Active(history[z.version])
    BY <1>3, <1>5, ActiveOfTail
  <2> QED BY <1>1, <1>3, <1>4, <2>1, ActiveFollows, DerivedFollows
<1>9. Removed(call[c].request.position) /\ CachedBy(call[c].client, z)
  BY <1>1, LagFacts DEF Follower
<1> HIDE DEF chain, head
<1> QED BY <1>1, <1>2, <1>4, <1>7, <1>8, <1>9, ProposeKeepsShared

-----------------------------------------------------------------------------
(* One shared log: reads, and the answers to installations.                *)

\* What a Loglet returns for a position that is written, if it is not removed.
LEMMA ReadableFacts ==
  ASSUME ChainsInv, NEW s \in Installed, NEW p \in Nat, p < Len(log[s.id])
  PROVE  /\ Readable(s.id, p) = {} => Removed(s.start + p + 1)
         /\ \A k \in Readable(s.id, p) : k = log[s.id][p + 1]
<1>1. trimmed[s.id] \in Nat /\ s.start \in Nat
  BY InstalledType DEF ChainsInv, Types
<1>2. CASE p < trimmed[s.id]
  <2>1. /\ s.start + p + 1 \in Nat /\ trimmed[s.id] > 0
        /\ s.start + p + 1 <= s.start + trimmed[s.id]
    BY <1>1, <1>2
  <2> QED BY <1>2, <2>1 DEF Readable, Removed
<1>3. CASE ~ (p < trimmed[s.id])
  BY <1>3 DEF Readable
<1> QED BY <1>2, <1>3

LEMMA RangeFacts ==
  ASSUME NEW c, NEW s \in SegmentRecord, call[c].request.from \in Nat, call[c].request.to \in Nat
  PROVE  \A p : p \in LocalRange(c, s) <=>
           /\ p \in Nat /\ call[c].request.from <= s.start + p /\ s.start + p < call[c].request.to
           /\ s.stop = Open \/ s.start + p < s.stop
<1>1. PICK from, to, a, b : /\ from = call[c].request.from /\ to = call[c].request.to
                            /\ a = s.start /\ b = s.stop
  OBVIOUS
<1>2. from \in Nat /\ to \in Nat /\ a \in Nat /\ b \in Nat \cup {Open}
  BY <1>1 DEF SegmentRecord
<1> DEFINE low == Larger(from, a) - a
           high == (IF b = Open THEN to ELSE Smaller(to, b)) - a - 1
<1>3. LocalRange(c, s) = low..high
  BY <1>1 DEF LocalRange
<1>4. low \in Nat /\ high \in Int /\ \A p \in Nat : low <= p <=> from <= a + p
  BY <1>2 DEF Larger, Smaller, Open
<1>5. \A p \in Nat : p <= high <=> a + p < to /\ (b = Open \/ a + p < b)
  BY <1>2 DEF Smaller, Open
<1> HIDE DEF low, high
<1>6. \A p : p \in low..high <=> p \in Nat /\ low <= p /\ p <= high
  BY <1>4
<1> QED BY <1>1, <1>3, <1>4, <1>5, <1>6

LEMMA ReadNextKeepsShared ==
  ASSUME Forward, NEW c \in Call, ReadNext(c)
  PROVE  SharedInv'
<1> DEFINE z == call[c].snapshot
           chain == z.chain
           i == call[c].index
           from == call[c].request.from
           to == call[c].request.to
<1>1. /\ call[c].pc = "read" /\ call[c].pc # "idle" /\ ChainsInv /\ SharedInv
      /\ Types /\ call[c] \in CallRecord /\ Reading(call[c])
  BY LagFacts DEF ReadNext, Forward, ChainsInv, Types, Follower
<1>2. from \in Nat /\ to \in Nat /\ i \in Nat
  BY <1>1, CallFacts DEF Reading, Request, Position
<1>3. /\ z \in ClientSnapshot /\ Known(z) /\ z.version > 0 /\ chain \in Chain
      /\ CachedBy(call[c].client, z)
  BY <1>1, CallFacts, OnSegmentFacts, LagFacts DEF Reading
<1>4. Len(chain) \in Nat /\ Len(chain) > 0 /\ Active(chain) = chain[Len(chain)]
  BY <1>3, ChainFacts DEF Active
<1>5. CASE i > Len(chain)
  BY <1>1, <1>5, FinishKeepsShared DEF ReadNext
<1>6. CASE ~ (i > Len(chain))
  <2>1. PICK s : s = chain[i]
    OBVIOUS
  <2>2. i \in 1..Len(chain)
    BY <1>1, <1>2, <1>4, <1>6 DEF Reading
  <2>3. /\ s \in Installed /\ (i < Len(chain) => s.stop # Open)
        /\ (i = Len(chain) => to <= End(s))
    BY <1>1, <1>3, <1>4, <2>1, <2>2, ClosedSize DEF Reading
  <2>4. /\ s \in SegmentRecord /\ s.start \in Nat /\ Len(log[s.id]) \in Nat
        /\ (s.stop # Open => s.stop = End(s)) /\ End(s) = s.start + Len(log[s.id])
    BY <1>1, <2>3, InstalledType DEF ChainsInv, SegmentsInv, Closed, End
  <2>5. \A q \in from..(s.start - 1) : Removed(q + 1) \/ to <= q
    BY <1>1, <1>4, <2>1, <2>2 DEF Reading, Skipped
  <2> DEFINE found == {p \in LocalRange(c, s) : Readable(s.id, p) # {}}
  <2>6. \A p \in LocalRange(c, s) : p \in Nat /\ p < Len(log[s.id])
    <3> SUFFICES ASSUME NEW p \in LocalRange(c, s) PROVE p \in Nat /\ p < Len(log[s.id])
      OBVIOUS
    <3>1. /\ p \in Nat /\ s.start + p < to
          /\ s.stop = Open \/ s.start + p < s.stop
      BY <1>2, <2>4, RangeFacts
    <3>2. s.start + p < s.start + Len(log[s.id])
      <4>1. CASE s.stop = Open
        <5>1. i = Len(chain)
          BY <1>4, <2>2, <2>3, <4>1
        <5> QED BY <1>2, <2>3, <2>4, <3>1, <5>1
      <4>2. CASE s.stop # Open
        BY <2>4, <3>1, <4>2
      <4> QED BY <4>1, <4>2
    <3> QED BY <2>4, <3>1, <3>2
  <2>7. \A p \in LocalRange(c, s) : p \notin found => Removed(s.start + p + 1)
    BY <1>1, <2>3, <2>6, ReadableFacts
  <2>8. \A q \in Nat : from <= q /\ s.start <= q /\ q < to /\ (s.stop = Open \/ q < s.stop)
          => q - s.start \in LocalRange(c, s)
    <3> SUFFICES ASSUME NEW q \in Nat, from <= q, s.start <= q, q < to, s.stop = Open \/ q < s.stop
                 PROVE  q - s.start \in LocalRange(c, s)
      OBVIOUS
    <3>1. q - s.start \in Nat /\ s.start + (q - s.start) = q
      BY <2>4
    <3> QED BY <1>2, <2>4, <3>1, RangeFacts
  <2>9. \A q \in Nat : from <= q /\ s.start <= q /\ q < to /\ (s.stop = Open \/ q < s.stop)
          /\ q - s.start \notin found => Removed(q + 1)
    <3> SUFFICES ASSUME NEW q \in Nat, from <= q, s.start <= q, q < to, s.stop = Open \/ q < s.stop,
                        q - s.start \notin found
                 PROVE  Removed(q + 1)
      OBVIOUS
    <3>1. Removed(s.start + (q - s.start) + 1)
      BY <2>7, <2>8
    <3>2. s.start + (q - s.start) + 1 = q + 1
      BY <2>4
    <3> QED BY <3>1, <3>2
  <2>10. CASE found = {}
    <3> DEFINE x == [call[c] EXCEPT !.index = @ + 1]
    <3>1. Await(c, x, {}) /\ answers' = answers
      BY <1>6, <2>1, <2>10 DEF ReadNext
    <3>2. i + 1 \in Nat
      BY <1>2
    <3>3. Advances(CallRecord, x, call[c], "read", z, call[c].why)
      BY <1>1, <3>2, Advancing
    <3>4. x.index = i + 1
      BY <1>1 DEF CallRecord
    <3> HIDE DEF x
    <3>5. x.pc = "read" /\ x.request = call[c].request /\ x.snapshot = z
      BY <3>3 DEF Advances
    <3>6. i + 1 <= Len(chain) => Skipped(from, to, chain[i + 1].start)
      <4> SUFFICES ASSUME i + 1 <= Len(chain) PROVE Skipped(from, to, chain[i + 1].start)
        OBVIOUS
      <4>1. i < Len(chain) /\ i \in 1..(Len(chain) - 1)
        BY <1>4, <2>2
      <4>2. chain[i + 1].start = s.stop /\ s.stop # Open
        BY <1>3, <2>1, <2>3, <4>1, ChainFacts
      <4> SUFFICES ASSUME NEW q \in from..(s.stop - 1), ~ (to <= q) PROVE Removed(q + 1)
        BY <4>2 DEF Skipped
      <4>3. s.stop \in Nat
        BY <2>4, <4>2
      <4>4. q \in Nat /\ from <= q /\ q < to /\ q < s.stop
        BY <1>2, <4>3
      <4>5. CASE q < s.start
        <5>1. q \in from..(s.start - 1)
          BY <1>2, <2>4, <4>4, <4>5
        <5> QED BY <2>5, <5>1
      <4>6. CASE ~ (q < s.start)
        <5>1. s.start <= q
          BY <2>4, <4>4, <4>6
        <5> QED BY <2>9, <2>10, <4>4, <5>1
      <4> QED BY <4>5, <4>6
    <3>7. Reading(x)
      BY <1>1, <1>2, <3>4, <3>5, <3>6 DEF Reading
    <3>8. Follower(x)
      BY <3>5, <3>7 DEF Follower, Recovering
    <3> QED BY <1>1, <1>3, <3>1, <3>3, <3>8, AwaitKeepsShared
  <2>11. CASE found # {}
    <3> DEFINE p == CHOOSE q \in found : \A r \in found : q <= r
    <3>1. p \in found /\ \A r \in found : p <= r
      <4>1. found \in SUBSET Nat
        BY <2>6
      <4>2. \E q \in found : \A r \in found : q <= r
        BY <2>11, <4>1, LowestExists
      <4> QED BY <4>2
    <3>2. PICK k \in Readable(s.id, p) :
            Finish(c, {[kind |-> "read", from |-> from, position |-> s.start + p, command |-> k]})
      BY <1>6, <2>1, <2>11 DEF ReadNext
    <3> HIDE DEF found, p
    <3>3. /\ p \in LocalRange(c, s) /\ p \in Nat /\ p < Len(log[s.id])
          /\ s.start + p < to /\ (s.stop = Open \/ s.start + p < s.stop) /\ k = log[s.id][p + 1]
      <4>1. p \in LocalRange(c, s) /\ p \in Nat /\ p < Len(log[s.id])
        BY <2>6, <3>1 DEF found
      <4>2. k = log[s.id][p + 1]
        BY <1>1, <2>3, <3>2, <4>1, ReadableFacts
      <4> QED BY <1>2, <2>4, <4>1, <4>2, RangeFacts
    <3>4. PICK f, n, a : /\ f = from /\ n = s.start + p
                         /\ a = [kind |-> "read", from |-> f, position |-> n, command |-> k]
      OBVIOUS
    <3>5. Holds(s, a)
      <4>1. a.position = n /\ a.command = k
        BY <3>4
      <4>2. n \in s.start..(End(s) - 1) /\ n - s.start + 1 = p + 1
        BY <2>4, <3>3, <3>4
      <4> QED BY <3>3, <4>1, <4>2 DEF Holds
    <3>6. \A q \in f..(n - 1) : Removed(q + 1)
      <4> SUFFICES ASSUME NEW q \in f..(n - 1) PROVE Removed(q + 1)
        OBVIOUS
      <4>1. /\ q \in Nat /\ from <= q /\ q < s.start + p /\ q < to /\ ~ (to <= q)
        BY <1>2, <2>4, <3>3, <3>4
      <4>2. CASE q < s.start
        <5>1. q \in from..(s.start - 1)
          BY <1>2, <2>4, <4>1, <4>2
        <5> QED BY <2>5, <4>1, <5>1
      <4>3. CASE ~ (q < s.start)
        <5>1. s.start <= q /\ q - s.start < p
          BY <2>4, <3>3, <4>1, <4>3
        <5>2. q - s.start \notin found
          BY <2>4, <3>1, <3>3, <4>1, <5>1
        <5>3. s.stop = Open \/ q < s.stop
          BY <2>4, <3>3, <4>1
        <5> QED BY <2>9, <4>1, <5>1, <5>2, <5>3
      <4> QED BY <4>2, <4>3
    <3>7. Tells(a)'
      <4>1. Installed' = Installed /\ Holds(s, a)'
        BY <3>5, ForwardFacts
      <4>2. \A q \in f..(n - 1) : Removed(q + 1)'
        BY <3>6, ForwardFacts
      <4>3. a.kind = "read" /\ a.from = f /\ a.position = n /\ f \in Nat
        BY <1>2, <3>4
      <4> QED BY <2>3, <4>1, <4>2, <4>3 DEF Tells
    <3> DEFINE told == {a}
    <3>8. Finish(c, told) /\ \A b \in told : Tells(b)'
      BY <3>2, <3>4, <3>7
    <3> QED BY <1>1, <3>8, FinishKeepsShared
  <2> QED BY <2>10, <2>11
<1> QED BY <1>5, <1>6

LEMMA InstallAnsweredKeepsShared ==
  ASSUME Forward, NEW c \in Call, InstallAnswered(c)
  PROVE  SharedInv'
<1>1. /\ call[c].pc = "install" /\ call[c].pc # "idle"
      /\ ChainsInv /\ Types /\ call[c] \in CallRecord /\ call[c].client \in Client
  BY CallFacts DEF InstallAnswered, Forward, ChainsInv, Types
<1>2. PICK v \in (call[c].snapshot.version + 1)..Len(history) :
        /\ cached' = [cached EXCEPT ![ClientOf(c)] = Version(v)]
        /\ \E won : Proceed(c, Version(v), won)
  BY DEF InstallAnswered
<1>3. PICK won : Proceed(c, Version(v), won)
  BY <1>2
<1> DEFINE z == Version(v)
<1>4. v \in 1..Len(history)
  BY <1>1, CallFacts DEF ClientSnapshot, Types
<1>5. CachedBy(call[c].client, z) /\ z.version > 0
  BY <1>1, <1>2, <1>4, JustCached DEF ClientOf
<1> HIDE DEF z
<1>6. Proceed(c, z, won)
  BY <1>3 DEF z
<1>7. CASE call[c].why # "none"
  <2>1. Retry(c, z)
    BY <1>6, <1>7 DEF Proceed
  <2> QED BY <1>1, <1>5, <2>1, RetryKeepsShared
<1>8. CASE call[c].why = "none" /\ call[c].request.op = "trim"
  <2> DEFINE state == [call[c] EXCEPT !.attempt = @ + 1]
  <2>1. Truncate(c, state, z)
    BY <1>6, <1>8 DEF Proceed
  <2>2. call[c].attempt + 1 \in Nat
    BY <1>1, CallFacts
  <2>3. Advances(CallRecord, state, call[c], call[c].pc, call[c].snapshot, call[c].why)
    BY <1>1, <2>2, Advancing
  <2> HIDE DEF state
  <2>4. state \in CallRecord /\ state.request = call[c].request /\ state.client = call[c].client
    BY <2>3 DEF Advances
  <2>5. Removed(call[c].request.position)
    BY <1>1, <1>8, LagFacts DEF Follower
  <2> QED BY <1>1, <1>5, <1>8, <2>1, <2>4, <2>5, TruncateKeepsShared
<1>9. CASE call[c].why = "none" /\ call[c].request.op = "join"
  <2>1. CASE won
    <3> DEFINE told == {[kind |-> "join", node |-> call[c].request.node, version |-> z.version]}
    <3>1. Finish(c, told)
      BY <1>6, <1>9, <2>1 DEF Proceed
    <3>2. \A a \in told : Tells(a)'
      BY DEF Tells
    <3> HIDE DEF told
    <3> QED BY <1>1, <3>1, <3>2, FinishKeepsShared
  <2>2. CASE ~ won /\ call[c].attempt = MaxAttempts
    BY <1>1, <1>6, <1>9, <2>2, FailKeepsShared DEF Proceed
  <2>3. CASE ~ won /\ call[c].attempt # MaxAttempts
    <3> DEFINE x == [call[c] EXCEPT !.pc = "refresh", !.attempt = @ + 1, !.asked = Len(history)]
    <3>1. Await(c, x, {}) /\ answers' = answers
      BY <1>6, <1>9, <2>3 DEF Proceed
    <3>2. "refresh" \in Phases /\ call[c].attempt + 1 \in Nat /\ Len(history) \in Nat
      BY <1>1, CallFacts DEF Phases, Types
    <3>3. Advances(CallRecord, x, call[c], "refresh", call[c].snapshot, call[c].why)
      BY <1>1, <3>2, Advancing
    <3> HIDE DEF x
    <3>4. x.pc = "refresh" /\ x.request.op = "join"
      BY <1>9, <3>3 DEF Advances
    <3>5. Follower(x)
      BY <3>4 DEF Follower
    <3> QED BY <1>1, <3>1, <3>3, <3>5, LagFacts, AwaitKeepsShared
  <2> QED BY <2>1, <2>2, <2>3
<1>10. CASE call[c].why = "none" /\ call[c].request.op \notin {"trim", "join"}
  <2>1. Finish(c, {}) /\ \A a \in {} : Tells(a)'
    BY <1>6, <1>10 DEF Proceed
  <2> QED BY <1>1, <2>1, FinishKeepsShared
<1> QED BY <1>7, <1>8, <1>9, <1>10

-----------------------------------------------------------------------------
(* One shared log: what takes effect, and the invariant.                   *)

\* Chains are added, Loglets are written, sealed and trimmed; nothing is taken back.
Growing ==
  /\ ChainsInv /\ ChainsInv' /\ SharedInv /\ UNCHANGED <<cached, call, msgs, answers>>
  /\ \A v \in DOMAIN history : v \in DOMAIN history' /\ history'[v] = history[v]
  /\ sealed \subseteq sealed' /\ \A id \in sealed : log'[id] = log[id]
  /\ \A id \in Segment : /\ Len(log[id]) <= Len(log'[id]) /\ trimmed[id] <= trimmed'[id]
                         /\ \A i \in 1..Len(log[id]) : log'[id][i] = log[id][i]

LEMMA GrowingFacts ==
  ASSUME Growing
  PROVE  /\ Installed \subseteq Installed'
         /\ \A s \in Installed : /\ End(s) \in Nat /\ End(s)' \in Nat /\ End(s) <= End(s)'
                                 /\ s.id \in sealed => End(s)' = End(s)
         /\ \A s : Follows(s) => Follows(s)'
         /\ \A p : Removed(p) => Removed(p)'
         /\ \A s \in Installed : \A a : Holds(s, a) => Holds(s, a)'
         /\ \A k, n : Reaches(k, n) => Reaches(k, n)'
<1>1. ChainsInv /\ Types /\ Types' /\ Len(history) \in Nat /\ DOMAIN history = 1..Len(history)
  BY DEF Growing, ChainsInv, Types
<1>2. Installed \subseteq Installed'
  <2> SUFFICES ASSUME NEW s \in Installed PROVE s \in Installed'
    OBVIOUS
  <2>1. PICK v \in DOMAIN history : \E i \in DOMAIN history[v] : s = history[v][i]
    BY InstalledIs
  <2>2. v \in DOMAIN history' /\ \E i \in DOMAIN history'[v] : s = history'[v][i]
    BY <2>1 DEF Growing
  <2> QED BY <2>2 DEF Installed
<1>3. ASSUME NEW s \in Installed
      PROVE  /\ End(s) \in Nat /\ End(s)' \in Nat /\ End(s) <= End(s)'
             /\ s.id \in sealed => End(s)' = End(s)
             /\ s.id \in Segment /\ s.start \in Nat
  <2>1. s.id \in Segment /\ s.start \in Nat /\ Len(log[s.id]) \in Nat
    BY <1>1, InstalledType
  <2>2. Len(log'[s.id]) \in Nat /\ Len(log[s.id]) <= Len(log'[s.id])
    BY <1>1, <2>1 DEF Types, Growing
  <2>3. s.id \in sealed => log'[s.id] = log[s.id]
    BY DEF Growing
  <2>4. PICK l, m, o : l = Len(log[s.id]) /\ m = Len(log'[s.id]) /\ o = s.start
    OBVIOUS
  <2>5. End(s) = o + l /\ End(s)' = o + m
    BY <2>4 DEF End
  <2>6. l \in Nat /\ m \in Nat /\ o \in Nat /\ l <= m /\ (s.id \in sealed => m = l)
    BY <2>1, <2>2, <2>3, <2>4
  <2>7. o + l \in Nat /\ o + m \in Nat /\ o + l <= o + m
    BY <2>6
  <2> QED BY <2>1, <2>5, <2>6, <2>7
<1>4. ASSUME NEW s, Follows(s) PROVE Follows(s)'
  <2>1. CASE s.start = 0
    BY <2>1 DEF Follows
  <2>2. CASE s.start # 0
    <3>1. PICK t \in Installed : t.id < s.id /\ t.id \in sealed /\ End(t) = s.start
      BY <1>4, <2>2 DEF Follows
    <3>2. t \in Installed' /\ t.id \in sealed' /\ End(t)' = s.start
      BY <1>2, <1>3, <3>1 DEF Growing
    <3> QED BY <3>1, <3>2 DEF Follows
  <2> QED BY <2>1, <2>2
<1>5. ASSUME NEW p, Removed(p) PROVE Removed(p)'
  <2>1. p \in Nat
    BY <1>5 DEF Removed
  <2>2. CASE p = 0
    BY <2>2 DEF Removed
  <2>3. CASE p # 0
    <3>1. PICK s \in Installed : trimmed[s.id] > 0 /\ p <= s.start + trimmed[s.id]
      BY <1>5, <2>3 DEF Removed
    <3>2. PICK m, n, o : m = trimmed[s.id] /\ n = trimmed'[s.id] /\ o = s.start
      OBVIOUS
    <3>3. m \in Nat /\ n \in Nat /\ m <= n /\ o \in Nat
      BY <1>1, <1>3, <3>2 DEF Types, Growing
    <3>4. m > 0 /\ p <= o + m
      BY <3>1, <3>2
    <3>5. n > 0 /\ p <= o + n
      BY <2>1, <3>3, <3>4
    <3>6. trimmed'[s.id] > 0 /\ p <= s.start + trimmed'[s.id]
      BY <3>2, <3>5
    <3> QED BY <1>2, <2>1, <3>6 DEF Removed
  <2> QED BY <2>2, <2>3
<1>6. ASSUME NEW s \in Installed, NEW a, Holds(s, a) PROVE Holds(s, a)'
  <2>1. PICK p, k : p = a.position /\ k = a.command
    OBVIOUS
  <2>2. PICK e, f, o : e = End(s) /\ f = End(s)' /\ o = s.start
    OBVIOUS
  <2>3. e \in Nat /\ f \in Nat /\ e <= f /\ o \in Nat /\ e = o + Len(log[s.id]) /\ Len(log[s.id]) \in Nat
    BY <1>1, <1>3, <2>2, InstalledType DEF End
  <2>4. p \in o..(e - 1) /\ log[s.id][p - o + 1] = k
    BY <1>6, <2>1, <2>2 DEF Holds
  <2>5. p \in o..(f - 1) /\ p - o + 1 \in 1..Len(log[s.id])
    BY <2>3, <2>4
  <2>6. log'[s.id][p - o + 1] = k
    BY <1>3, <2>4, <2>5 DEF Growing
  <2> QED BY <2>1, <2>2, <2>5, <2>6 DEF Holds
<1>7. ASSUME NEW k, NEW n, Reaches(k, n) PROVE Reaches(k, n)'
  <2>1. k \in Client /\ n \in Nat
    BY <1>7 DEF Reaches
  <2>2. PICK v \in 1..cached[k].version : n <= End(Active(history[v]))
    BY <1>7 DEF Reaches
  <2>3. Known(cached[k]) /\ cached[k].version \in Nat
    BY <1>1, <2>1 DEF ChainsInv, CallsInv, Types, ClientSnapshot
  <2>4. v \in 1..Len(history) /\ v \in 0..Len(history) /\ v > 0
    BY <1>1, <2>2, <2>3 DEF Known
  <2>5. PICK s : s = Active(history[v])
    OBVIOUS
  <2>6. s \in Installed
    BY <1>1, <2>4, <2>5, VersionType
  <2>7. history'[v] = history[v] /\ cached' = cached
    BY <1>1, <2>4 DEF Growing
  <2>8. n <= End(s)'
    <3>1. PICK e, f : e = End(s) /\ f = End(s)'
      OBVIOUS
    <3>2. e \in Nat /\ f \in Nat /\ e <= f /\ n <= e
      BY <1>3, <2>2, <2>5, <2>6, <3>1
    <3>3. n <= f
      BY <2>1, <3>2
    <3> QED BY <3>1, <3>3
  <2>9. Active(history[v])' = s
    BY <2>5, <2>7 DEF Active
  <2>10. (n <= End(Active(history[v])))'
    BY <2>8, <2>9 DEF End
  <2>11. v \in 1..cached'[k].version
    BY <2>2, <2>7
  <2> QED BY <2>1, <2>10, <2>11 DEF Reaches
<1> QED BY <1>2, <1>3, <1>4, <1>5, <1>6, <1>7

LEMMA EffectKeepsShared ==
  ASSUME Growing, GaplessInv', UsedInv'
  PROVE  SharedInv'
<1>1. ChainsInv /\ Types /\ Types' /\ SharedInv /\ UNCHANGED <<cached, call, msgs, answers>>
  BY DEF Growing, ChainsInv
<1>2. /\ Installed \subseteq Installed'
      /\ \A s \in Installed : End(s) \in Nat /\ End(s)' \in Nat /\ End(s) <= End(s)'
      /\ \A s : Follows(s) => Follows(s)'
      /\ \A p : Removed(p) => Removed(p)'
  BY GrowingFacts
<1>3. LagsInv'
  BY <1>1 DEF SharedInv, LagsInv
<1>4. \A m \in msgs' : Fits(m)'
  <2> SUFFICES ASSUME NEW m \in msgs PROVE Fits(m)'
    BY <1>1
  <2>1. Fits(m) /\ m \in Message
    BY <1>1 DEF SharedInv, Types
  <2>2. m.type = "install" => Removed(First(m.chain).start)' /\ \A i \in DOMAIN m.chain : Follows(m.chain[i])'
    BY <1>2, <2>1 DEF Fits, First
  <2>3. m.type \in {"append", "trim"} => \E s \in Installed' : s.id = m.segment
    BY <1>2, <2>1 DEF Fits
  <2>4. m.type = "trim" => m.target <= Len(log'[m.segment])
    <3> SUFFICES ASSUME m.type = "trim" PROVE m.target <= Len(log'[m.segment])
      OBVIOUS
    <3>1. m.segment \in Segment /\ m.target \in Nat
      BY <2>1 DEF Message
    <3>2. /\ m.target <= Len(log[m.segment]) /\ Len(log[m.segment]) <= Len(log'[m.segment])
          /\ Len(log[m.segment]) \in Nat /\ Len(log'[m.segment]) \in Nat
      BY <1>1, <2>1, <3>1 DEF Fits, Growing, Types
    <3> QED BY <3>1, <3>2
  <2> QED BY <2>2, <2>3, <2>4 DEF Fits, First
<1>5. \A c \in Call : Follower(call[c])'
  <2> SUFFICES ASSUME NEW c \in Call, NEW x, x = call[c] PROVE Follower(x)'
    BY <1>1
  <2>1. Follower(x)
    BY <1>1 DEF SharedInv
  <2>2. x.pc \in {"trim", "read"} => call[c].pc # "idle"
    OBVIOUS
  <2>3. ASSUME x.pc # "idle", x.snapshot.version > 0, NEW n \in Nat, n <= End(Active(x.snapshot.chain))
        PROVE  n <= End(Active(x.snapshot.chain))'
    <3>1. PICK s : s = Active(x.snapshot.chain)
      OBVIOUS
    <3>2. s \in Installed
      BY <1>1, <2>3, <3>1, CallFacts, OnSegmentFacts
    <3>3. PICK e, f : e = End(s) /\ f = End(s)'
      OBVIOUS
    <3>4. e \in Nat /\ f \in Nat /\ e <= f /\ n <= e
      BY <1>2, <2>3, <3>1, <3>2, <3>3
    <3>5. n <= f
      BY <3>4
    <3>6. n <= End(s)'
      BY <3>3, <3>5
    <3>7. s = Active(x.snapshot.chain)'
      BY <3>1 DEF Active
    <3> QED BY <3>6, <3>7 DEF End
  <2>4. x.pc = "trim" => Trimming(x)'
    <3> SUFFICES ASSUME x.pc = "trim" PROVE Trimming(x)'
      OBVIOUS
    <3>1. Trimming(x)
      BY <2>1 DEF Follower
    <3>2. x.snapshot.version > 0 /\ x.request.op = "trim"
      BY <1>1 DEF ChainsInv, CallsInv, Prepared, OnSegment
    <3>3. x.request.position \in Nat
      BY <1>1, <2>2, <3>2, CallFacts DEF Request, Position
    <3>4. x.request.position <= End(Active(x.snapshot.chain))'
      BY <2>3, <3>1, <3>2, <3>3 DEF Trimming
    <3> QED BY <3>1, <3>4 DEF Trimming
  <2>5. x.pc = "read" => Reading(x)'
    <3> SUFFICES ASSUME x.pc = "read" PROVE Reading(x)'
      OBVIOUS
    <3>1. Reading(x)
      BY <2>1 DEF Follower
    <3>2. x.request.to \in Nat
      BY <1>1, <2>2, <3>1, CallFacts DEF Reading, Request, Position
    <3>3. x.request.to <= End(Active(x.snapshot.chain))'
      BY <2>3, <3>1, <3>2 DEF Reading
    <3>4. x.index <= Len(x.snapshot.chain) =>
            Skipped(x.request.from, x.request.to, x.snapshot.chain[x.index].start)'
      BY <1>2, <3>1 DEF Reading, Skipped
    <3> QED BY <3>1, <3>3, <3>4 DEF Reading
  <2>6. x.pc = "drop" => Removed(x.request.position)'
    BY <1>2, <2>1 DEF Follower
  <2>7. x.pc = "install" /\ x.why = "none" /\ x.request.op = "trim" => Removed(x.request.position)'
    BY <1>2, <2>1 DEF Follower
  <2> QED BY <2>1, <2>4, <2>5, <2>6, <2>7 DEF Follower
<1>6. \A a \in answers' : Tells(a)'
  <2> SUFFICES ASSUME NEW a \in answers PROVE Tells(a)'
    BY <1>1
  <2>1. Tells(a)
    BY <1>1 DEF SharedInv
  <2>2. a.kind = "read" => (\E s \in Installed' : Holds(s, a)')
    BY <1>2, <2>1, GrowingFacts DEF Tells
  <2>3. a.kind = "read" => \A p \in a.from..(a.position - 1) : Removed(p + 1)'
    BY <1>2, <2>1 DEF Tells
  <2>4. /\ a.kind = "append" => Reaches(a.client, a.position + 1)'
        /\ a.kind = "tail" /\ ~a.sealed => Reaches(a.client, a.position)'
    BY <2>1, GrowingFacts DEF Tells
  <2>5. a.kind = "trim" => Removed(a.position)'
    BY <1>2, <2>1 DEF Tells
  <2> QED BY <2>1, <2>2, <2>3, <2>4, <2>5 DEF Tells
<1> QED BY <1>3, <1>4, <1>5, <1>6 DEF SharedInv

LEMMA LogletKeepsGapless ==
  ASSUME Growing, history' = history, Installed' = Installed
  PROVE  GaplessInv'
<1>1. ChainsInv /\ Types /\ GaplessInv /\ DOMAIN history = 1..Len(history) /\ Len(history) \in Nat
  BY DEF Growing, SharedInv, ChainsInv, Types
<1>2. \A s \in Installed' : Follows(s)'
  BY <1>1, GrowingFacts DEF GaplessInv
<1>3. \A v \in DOMAIN history' : Removed(First(history[v]).start)'
  <2> SUFFICES ASSUME NEW v \in DOMAIN history PROVE Removed(First(history[v]).start)'
    OBVIOUS
  <2>1. PICK p : p = First(history[v]).start
    OBVIOUS
  <2>2. Removed(p)'
    BY <1>1, <2>1, GrowingFacts DEF GaplessInv
  <2>3. p = First(history[v])'.start
    BY <2>1 DEF First
  <2> QED BY <2>2, <2>3 DEF Removed
<1>4. \A v \in DOMAIN history' : \A u \in 1..v : Succeeded(u, v)'
  <2> SUFFICES ASSUME NEW v \in DOMAIN history, NEW u \in 1..v PROVE Succeeded(u, v)'
    OBVIOUS
  <2>1. Succeeded(u, v)
    BY <1>1 DEF GaplessInv
  <2>2. PICK s, t : s = Active(history[u]) /\ t = Active(history[v])
    OBVIOUS
  <2>3. s \in Installed
    <3>1. u \in 0..Len(history) /\ u > 0
      BY <1>1
    <3> QED BY <1>1, <2>2, <3>1, VersionType
  <2>4. s = Active(history[u])' /\ t = Active(history[v])'
    BY <2>2 DEF Active
  <2>5. Before(s, t) => Before(s, t)'
    BY <2>3, GrowingFacts DEF Before, Growing
  <2>6. s.id = t.id \/ Before(s, t)'
    BY <2>1, <2>2, <2>5 DEF Succeeded
  <2> QED BY <2>4, <2>6 DEF Succeeded, Before, End
<1> QED BY <1>2, <1>3, <1>4 DEF GaplessInv

LEMMA LogletGrows ==
  ASSUME ChainsInv, ChainsInv', SharedInv, NEW m \in msgs,
         LogletAppends(m) \/ LogletSeals(m) \/ LogletTrims(m)
  PROVE  Growing /\ UsedInv' /\ UNCHANGED <<history, Installed, call, msgs, answers, cached>>
<1>1. /\ UNCHANGED <<history, cached, call, msgs, answers>> /\ Types /\ Types' /\ Installed' = Installed
      /\ m \in Message /\ Fits(m)
  BY DEF LogletAppends, LogletSeals, LogletTrims, ChainsInv, Types, Installed, SharedInv
<1>2. \A id \in Segment : /\ log[id] \in Seq(Command) /\ Len(log[id]) \in Nat /\ trimmed[id] \in Nat
                          /\ log[id] # <<>> => \E s \in Installed : s.id = id
                          /\ trimmed[id] <= Len(log[id])
  BY <1>1 DEF Types, SharedInv, UsedInv
<1>3. CASE LogletAppends(m)
  <2>1. /\ m.segment \in Segment /\ m.command \in Command /\ m.segment \notin sealed
        /\ log' = [log EXCEPT ![m.segment] = Append(log[m.segment], m.command)]
        /\ UNCHANGED <<sealed, trimmed>> /\ \E s \in Installed : s.id = m.segment
    BY <1>1, <1>3 DEF LogletAppends, Message, Fits
  <2>2. ASSUME NEW id \in Segment
        PROVE  /\ Len(log[id]) <= Len(log'[id]) /\ Len(log'[id]) \in Nat
               /\ \A i \in 1..Len(log[id]) : log'[id][i] = log[id][i]
               /\ id # m.segment => log'[id] = log[id]
    <3>1. log'[id] = IF id = m.segment THEN Append(log[id], m.command) ELSE log[id]
      BY <1>1, <2>1 DEF Types
    <3> QED BY <1>2, <2>1, <3>1
  <2>3. Growing
    BY <1>1, <1>2, <2>1, <2>2 DEF Growing, Types
  <2>4. UsedInv'
    BY <1>1, <1>2, <2>1, <2>2 DEF UsedInv
  <2> QED BY <1>1, <2>3, <2>4
<1>4. CASE LogletSeals(m)
  <2>1. UNCHANGED <<log, trimmed>> /\ sealed \subseteq sealed'
    BY <1>4 DEF LogletSeals
  <2>2. Growing /\ UsedInv'
    BY <1>1, <1>2, <2>1 DEF Growing, UsedInv
  <2> QED BY <1>1, <2>2
<1>5. CASE LogletTrims(m)
  <2>1. /\ m.segment \in Segment /\ m.target \in Nat /\ UNCHANGED <<log, sealed>>
        /\ m.target > trimmed[m.segment] /\ m.target <= Len(log[m.segment])
        /\ trimmed' = [trimmed EXCEPT ![m.segment] = m.target]
    BY <1>1, <1>5 DEF LogletTrims, Message, Fits
  <2>2. \A id \in Segment : trimmed[id] <= trimmed'[id] /\ trimmed'[id] <= Len(log[id])
    BY <1>1, <1>2, <2>1 DEF Types
  <2>3. Growing /\ UsedInv'
    BY <1>1, <1>2, <2>1, <2>2 DEF Growing, UsedInv
  <2> QED BY <1>1, <2>3
<1> QED BY <1>3, <1>4, <1>5

LEMMA LogletKeepsShared ==
  ASSUME ChainsInv, ChainsInv', SharedInv, NEW m \in msgs,
         LogletAppends(m) \/ LogletSeals(m) \/ LogletTrims(m)
  PROVE  SharedInv'
BY LogletGrows, LogletKeepsGapless, EffectKeepsShared

LEMMA InstallGrows ==
  ASSUME ChainsInv, ChainsInv', SharedInv, NEW m \in msgs, Install(m)
  PROVE  Growing
<1>1. UNCHANGED <<log, sealed, trimmed, cached, call, msgs, answers>> /\ m.type = "install" /\ Types
  BY DEF Install, loglets, ChainsInv
<1>2. \A v \in DOMAIN history : v \in DOMAIN history' /\ history'[v] = history[v]
  <2>1. /\ Len(history) \in Nat /\ Len(history') = Len(history) + 1 /\ history' \in Seq(Chain)
        /\ \A v \in 1..Len(history) : history'[v] = history[v]
    BY InstallFacts
  <2>2. DOMAIN history = 1..Len(history) /\ DOMAIN history' = 1..(Len(history) + 1)
    BY <1>1, <2>1 DEF Types
  <2> QED BY <2>1, <2>2
<1>3. \A id \in Segment : Len(log[id]) \in Nat /\ trimmed[id] \in Nat
  BY <1>1 DEF Types
<1> QED BY <1>1, <1>2, <1>3 DEF Growing

LEMMA InstallKeepsShared ==
  ASSUME ChainsInv, ChainsInv', SharedInv, NEW m \in msgs, Install(m)
  PROVE  SharedInv'
<1> DEFINE n == Len(history)
<1>1. /\ UNCHANGED <<log, sealed, trimmed, cached, call, msgs, answers>> /\ m.type = "install"
      /\ Types /\ Types' /\ Fits(m)
  BY DEF Install, loglets, ChainsInv, SharedInv
<1>2. /\ n \in Nat /\ DOMAIN history = 1..n /\ DOMAIN history' = 1..(n + 1) /\ Len(history') = n + 1
      /\ history'[n + 1] = m.chain
      /\ \A v \in 1..n : history'[v] = history[v]
      /\ \A s : s \in Installed' <=> s \in Installed \/ \E i \in DOMAIN m.chain : s = m.chain[i]
  BY <1>1, InstallFacts DEF Types
<1> HIDE DEF n
<1>3. \A v \in 1..(n + 1) : v \in 1..n \/ v = n + 1
  BY <1>2
<1>4. Growing
  BY InstallGrows
<1>5. \A s \in Installed' : Follows(s)'
  <2> SUFFICES ASSUME NEW s \in Installed' PROVE Follows(s)'
    OBVIOUS
  <2>1. Follows(s)
    BY <1>1, <1>2 DEF SharedInv, GaplessInv, Fits
  <2> QED BY <1>4, <2>1, GrowingFacts
<1>6. \A v \in DOMAIN history' : Removed(First(history[v]).start)'
  <2> SUFFICES ASSUME NEW v \in 1..(n + 1) PROVE Removed(First(history[v]).start)'
    BY <1>2
  <2>1. Removed(First(history'[v]).start)
    BY <1>1, <1>2, <1>3 DEF SharedInv, GaplessInv, Fits
  <2>2. PICK p : p = First(history'[v]).start
    OBVIOUS
  <2>3. Removed(p)'
    BY <1>4, <2>1, <2>2, GrowingFacts
  <2> QED BY <2>2, <2>3 DEF Removed, First
<1>7. \A v \in DOMAIN history' : \A u \in 1..v : Succeeded(u, v)'
  <2> SUFFICES ASSUME NEW v \in 1..(n + 1), NEW u \in 1..v PROVE Succeeded(u, v)'
    BY <1>2
  <2>1. CASE v \in 1..n
    <3>1. u \in 1..n
      BY <1>2, <2>1
    <3>2. Succeeded(u, v)
      BY <1>2, <2>1 DEF SharedInv, GaplessInv
    <3>3. history'[u] = history[u] /\ history'[v] = history[v]
      BY <1>2, <2>1, <3>1
    <3> QED BY <1>1, <3>2, <3>3 DEF Succeeded, Before, End, Active
  <2>2. CASE v = n + 1
    <3>1. u \in 1..(n + 1) /\ u > 0 /\ u \in 0..(n + 1)
      BY <1>2
    <3>2. (Active(history[u]) \in Installed)'
      <4>1. history' \in Seq(Chain)
        BY <1>1 DEF Types
      <4>2. history'[u] \in Chain
        BY <1>2, <3>1, <4>1
      <4>3. Len(history'[u]) \in DOMAIN history'[u]
        BY <4>2, ChainFacts
      <4> QED BY <1>2, <3>1, <4>3 DEF Installed, Active
    <3>3. history'[v] = Newest'
      BY <1>2, <2>2 DEF Newest
    <3>4. (Active(history[u]).id = Active(Newest).id \/ Before(Active(history[u]), Active(Newest)))'
      BY <3>2 DEF ChainsInv, SegmentsInv
    <3> QED BY <3>3, <3>4 DEF Succeeded, Before, End, Active
  <2> QED BY <1>3, <2>1, <2>2
<1>8. UsedInv'
  BY <1>1, <1>2 DEF SharedInv, UsedInv
<1>9. GaplessInv'
  BY <1>5, <1>6, <1>7 DEF GaplessInv
<1> QED BY <1>4, <1>8, <1>9, EffectKeepsShared

LEMMA StutterKeepsShared ==
  ASSUME ChainsInv, ChainsInv', SharedInv, UNCHANGED vars
  PROVE  SharedInv'
<1>1. UNCHANGED <<history, log, sealed, trimmed, cached, call, msgs, answers>> /\ Installed' = Installed /\ Types
  BY DEF vars, loglets, Installed, ChainsInv
<1>2. Growing
  BY <1>1 DEF Growing, Types
<1>3. UsedInv'
  BY <1>1 DEF SharedInv, UsedInv
<1> QED BY <1>1, <1>2, <1>3, LogletKeepsGapless, EffectKeepsShared

LEMMA NextKeepsShared ==
  ChainsInv /\ ChainsInv' /\ SharedInv /\ [Next]_vars /\ [CachesAdvance]_vars => SharedInv'
<1> SUFFICES ASSUME ChainsInv, ChainsInv', SharedInv, [Next]_vars, [CachesAdvance]_vars PROVE SharedInv'
  OBVIOUS
<1>1. CASE UNCHANGED vars
  BY <1>1, StutterKeepsShared
<1>2. ASSUME CachesAdvance, NEW w \in Workload, Begin(w[1], w[2], w[3]) PROVE SharedInv'
  <2>1. w[1] \in Call /\ w[2] \in Client /\ w[3] \in Request
    BY WorkloadAssumption
  <2>2. Forward
    BY <1>2 DEF Forward, Begin
  <2> QED BY <1>2, <2>1, <2>2, BeginKeepsShared
<1>3. ASSUME CachesAdvance, NEW c \in Call, Step(c) \/ Unavailable(c) \/ Raise(c) PROVE SharedInv'
  <2>1. Forward
    BY <1>3 DEF Forward, Step, Unavailable, Raise, AppendAnswered, AppendRefused, TailAnswered, TakeLock,
                RefreshedEmpty, Refreshed, GraceOver, SuccessorFound, SealAnswered, SealedTailAnswered,
                InstallAnswered, TrimNext, Drop, ReadNext
  <2> QED BY <1>3, <2>1, AppendingKeepsShared, TailAnsweredKeepsShared, RecoveringKeepsShared,
             RefreshedKeepsShared, SealingKeepsShared, InstallAnsweredKeepsShared, TrimNextKeepsShared,
             DropKeepsShared, ReadNextKeepsShared DEF Step
<1>4. ASSUME NEW m \in msgs, Effect(m) PROVE SharedInv'
  BY <1>4, InstallKeepsShared, LogletKeepsShared DEF Effect
<1> QED BY <1>1, <1>2, <1>3, <1>4 DEF Next

\* Where no client takes an older chain after a newer one, SharedInv holds always: segments follow
\* one another without a gap, what a call was told of the log is so, and what is trimmed stays.
THEOREM SharedInvariant == Spec /\ [][CachesAdvance]_vars => []SharedInv
<1>1. Init => SharedInv
  BY StartsShared
<1>2. ChainsInv /\ ChainsInv' /\ SharedInv /\ [Next]_vars /\ [CachesAdvance]_vars => SharedInv'
  BY NextKeepsShared
<1> QED BY <1>1, <1>2, ChainsInvariant, PTL DEF Spec

-----------------------------------------------------------------------------
(* The shared log that the segments are.                                   *)

CommandAt(p) == log[OwnerOf(p).id][p - OwnerOf(p).start + 1]

LEMMA WrittenIs ==
  ASSUME ChainsInv, NEW s \in Installed
  PROVE  Written(s) = s.start..(End(s) - 1)
<1>1. s.stop # Open => s.stop = End(s)
  BY DEF ChainsInv, SegmentsInv, Closed
<1> QED BY <1>1 DEF Written, End

\* The end of the shared log is where the segment that reaches furthest ends.
Ended(n) ==
  /\ n \in Nat /\ \A s \in Installed : End(s) <= n
  /\ IF Installed = {} THEN n = 0 ELSE \E s \in Installed : n = End(s)

LEMMA LogEndFacts == ChainsInv => Ended(LogEnd)
<1> SUFFICES ASSUME ChainsInv PROVE Ended(LogEnd)
  OBVIOUS
<1>1. CASE Installed = {}
  BY <1>1 DEF LogEnd, Ended
<1>2. CASE Installed # {}
  <2> DEFINE ends == {s.start + Len(log[s.id]) : s \in Installed}
  <2>1. PICK t \in Installed : TRUE
    BY <1>2
  <2>2. /\ End(Active(Newest)) \in Nat /\ Active(Newest) \in Installed
        /\ \A s \in Installed : End(s) \in Nat /\ End(s) <= End(Active(Newest))
    BY <2>1, NewestFacts, InstalledType DEF ChainsInv
  <2>3. \E n \in ends : \A m \in ends : m <= n
    BY <2>2 DEF End
  <2>4. LogEnd \in ends /\ \A m \in ends : m <= LogEnd
    BY <1>2, <2>3 DEF LogEnd
  <2> QED BY <1>2, <2>2, <2>4 DEF Ended, End
<1> QED BY <1>1, <1>2

\* Below the end there is no gap.
LEMMA OwnerExists ==
  ASSUME ChainsInv, SharedInv, NEW p \in Nat, p < LogEnd
  PROVE  \E s \in Installed : p \in Written(s)
<1> DEFINE S == {s.id : s \in {t \in Installed : p < End(t)}}
<1>1. \A s \in Installed : s.id \in Nat /\ s.start \in Nat /\ End(s) \in Nat
  BY InstalledType DEF ChainsInv
<1>2. S # {} /\ S \in SUBSET Nat
  <2>1. \E s \in Installed : p < End(s)
    BY LogEndFacts DEF Ended
  <2> QED BY <1>1, <2>1
<1>3. PICK n \in S : \A m \in S : n <= m
  BY <1>2, LowestExists
<1>4. PICK s \in Installed : s.id = n /\ p < End(s)
  BY <1>3
<1>5. s.start <= p
  <2> SUFFICES ASSUME ~ (s.start <= p) PROVE FALSE
    OBVIOUS
  <2>1. s.start # 0 /\ p < s.start
    BY <1>1
  <2>2. PICK t \in Installed : t.id < s.id /\ End(t) = s.start
    BY <2>1 DEF SharedInv, GaplessInv, Follows
  <2>3. t.id \in S
    BY <2>1, <2>2
  <2>4. n <= t.id /\ t.id < n
    BY <1>3, <1>4, <2>2, <2>3
  <2>5. n \in Nat /\ t.id \in Nat
    BY <1>1, <1>4
  <2> QED BY <2>4, <2>5
<1>6. p \in s.start..(End(s) - 1)
  BY <1>1, <1>4, <1>5
<1> QED BY <1>6, WrittenIs

\* Each position of the shared log is in one place.
Placed ==
  \A p \in Nat : p < LogEnd =>
    /\ OwnerOf(p) \in Installed /\ p \in OwnerOf(p).start..(End(OwnerOf(p)) - 1)
    /\ \A s \in Installed : p \in s.start..(End(s) - 1) => s.id = OwnerOf(p).id /\ s.start = OwnerOf(p).start

LEMMA OwnerFacts == ChainsInv /\ SharedInv => Placed
<1> SUFFICES ASSUME ChainsInv, SharedInv, NEW p \in Nat, p < LogEnd
             PROVE  /\ OwnerOf(p) \in Installed /\ p \in OwnerOf(p).start..(End(OwnerOf(p)) - 1)
                    /\ \A s \in Installed : p \in s.start..(End(s) - 1) =>
                         s.id = OwnerOf(p).id /\ s.start = OwnerOf(p).start
  BY DEF Placed
<1>1. PICK o : o = OwnerOf(p)
  OBVIOUS
<1>2. o \in Installed /\ p \in Written(o)
  BY <1>1, OwnerExists DEF OwnerOf
<1>3. p \in o.start..(End(o) - 1)
  BY <1>2, WrittenIs
<1>4. ASSUME NEW s \in Installed, p \in s.start..(End(s) - 1)
      PROVE  s.id = o.id /\ s.start = o.start
  <2>1. Apart(s, o)
    BY <1>2 DEF ChainsInv, SegmentsInv
  <2>2. /\ s.start \in Nat /\ End(s) \in Nat /\ o.start \in Nat /\ End(o) \in Nat
    BY <1>2, InstalledType DEF ChainsInv
  <2>3. ~ Before(s, o) /\ ~ Before(o, s)
    BY <1>3, <1>4, <2>2 DEF Before
  <2> QED BY <2>1, <2>3 DEF Apart
<1> QED BY <1>1, <1>2, <1>3, <1>4

\* What a segment holds, the shared log has there.
LEMMA HeldFacts ==
  ASSUME ChainsInv, SharedInv, NEW s \in Installed, NEW a, Holds(s, a)
  PROVE  a.position \in Nat /\ a.position < LogEnd /\ CommandAt(a.position) = a.command
<1>1. PICK p, n : p = a.position /\ n = LogEnd
  OBVIOUS
<1>2. /\ s.start \in Nat /\ End(s) \in Nat /\ n \in Nat /\ End(s) <= n
      /\ p \in s.start..(End(s) - 1) /\ log[s.id][p - s.start + 1] = a.command
  BY <1>1, InstalledType, LogEndFacts DEF ChainsInv, Ended, Holds
<1>3. p \in Nat /\ p < n
  BY <1>2
<1>4. s.id = OwnerOf(p).id /\ s.start = OwnerOf(p).start
  BY <1>1, <1>2, <1>3, OwnerFacts DEF Placed
<1> QED BY <1>1, <1>2, <1>3, <1>4 DEF CommandAt

\* What is removed of the shared log is what Loglets have trimmed.
Furthest(n) == Removed(n) /\ \A p : Removed(p) => p <= n

LEMMA TrimmedFacts == ChainsInv /\ SharedInv => Furthest(Trimmed) /\ Trimmed <= LogEnd
<1> SUFFICES ASSUME ChainsInv, SharedInv PROVE Furthest(Trimmed) /\ Trimmed <= LogEnd
  OBVIOUS
<1> DEFINE those == {t \in Installed : trimmed[t.id] > 0}
           ends == {s.start + Smaller(trimmed[s.id], Len(log[s.id])) : s \in those}
<1>1. LogEnd \in Nat /\ \A s \in Installed : End(s) <= LogEnd
  BY LogEndFacts DEF Ended
<1>2. \A s \in Installed : /\ s.start \in Nat /\ trimmed[s.id] \in Nat /\ Len(log[s.id]) \in Nat
                           /\ trimmed[s.id] <= Len(log[s.id])
  BY InstalledType DEF ChainsInv, Types, SharedInv, UsedInv
<1>3. \A s \in Installed : s.start + Smaller(trimmed[s.id], Len(log[s.id])) = s.start + trimmed[s.id]
  BY <1>2 DEF Smaller
<1>4. \A s \in Installed : s.start + trimmed[s.id] \in Nat /\ s.start + trimmed[s.id] <= LogEnd
  <2> SUFFICES ASSUME NEW s \in Installed
               PROVE  s.start + trimmed[s.id] \in Nat /\ s.start + trimmed[s.id] <= LogEnd
    OBVIOUS
  <2>1. PICK a, t, l, n : a = s.start /\ t = trimmed[s.id] /\ l = Len(log[s.id]) /\ n = LogEnd
    OBVIOUS
  <2>2. a \in Nat /\ t \in Nat /\ l \in Nat /\ n \in Nat /\ t <= l /\ a + l <= n
    BY <1>1, <1>2, <2>1 DEF End
  <2>3. a + t \in Nat /\ a + t <= n
    BY <2>2
  <2> QED BY <2>1, <2>3
<1>5. CASE those = {}
  <2>1. Trimmed = 0
    BY <1>5 DEF Trimmed
  <2>2. \A p : Removed(p) => p = 0
    BY <1>5 DEF Removed
  <2> QED BY <1>1, <2>1, <2>2 DEF Furthest, Removed
<1>6. CASE those # {}
  <2>1. ends # {} /\ ends \in SUBSET Nat /\ \A n \in ends : n <= LogEnd
    BY <1>3, <1>4, <1>6
  <2>2. \E n \in ends : \A m \in ends : m <= n
    BY <1>1, <2>1, HighestExists
  <2>3. Trimmed \in ends /\ \A m \in ends : m <= Trimmed
    BY <2>1, <2>2 DEF Trimmed
  <2>4. Trimmed \in Nat /\ Trimmed <= LogEnd
    BY <2>1, <2>3
  <2>5. \E s \in those : Trimmed = s.start + trimmed[s.id]
    BY <1>3, <2>3
  <2>6. \A s \in those : s.start + trimmed[s.id] <= Trimmed
    BY <1>3, <2>3
  <2>7. Removed(Trimmed)
    BY <2>4, <2>5 DEF Removed
  <2>8. ASSUME NEW p, Removed(p) PROVE p <= Trimmed
    <3>1. p \in Nat /\ (p = 0 \/ \E s \in those : p <= s.start + trimmed[s.id])
      BY <2>8 DEF Removed
    <3>2. CASE p = 0
      BY <2>4, <3>2
    <3>3. CASE p # 0
      <4>1. PICK s \in those : p <= s.start + trimmed[s.id]
        BY <3>1, <3>3
      <4>2. PICK e, t : e = s.start + trimmed[s.id] /\ t = Trimmed
        OBVIOUS
      <4>3. e \in Nat /\ t \in Nat /\ e <= t /\ p <= e
        BY <1>4, <2>4, <2>6, <4>1, <4>2
      <4>4. p <= t
        BY <3>1, <4>3
      <4> QED BY <4>2, <4>4
    <3> QED BY <3>2, <3>3
  <2> QED BY <2>4, <2>7, <2>8 DEF Furthest
<1> QED BY <1>5, <1>6

SharedLog == [n \in 1..LogEnd |-> log[OwnerOf(n - 1).id][n - OwnerOf(n - 1).start]]
Visible == {a \in answers : a.kind \in {"append", "read", "trim"}}

LEMMA SharedLogFacts ==
  ChainsInv /\ SharedInv =>
    /\ SharedLog \in Seq(Command) /\ Len(SharedLog) = LogEnd
    /\ \A p \in Nat : p < LogEnd => SharedLog[p + 1] = CommandAt(p)
<1> SUFFICES ASSUME ChainsInv, SharedInv
             PROVE  /\ SharedLog \in Seq(Command) /\ Len(SharedLog) = LogEnd
                    /\ \A p \in Nat : p < LogEnd => SharedLog[p + 1] = CommandAt(p)
  OBVIOUS
<1>1. LogEnd \in Nat /\ Types
  BY LogEndFacts DEF Ended, ChainsInv
<1>2. ASSUME NEW n \in 1..LogEnd
      PROVE  SharedLog[n] = CommandAt(n - 1) /\ CommandAt(n - 1) \in Command
  <2>1. PICK p, o : p = n - 1 /\ o = OwnerOf(p)
    OBVIOUS
  <2>2. p \in Nat /\ p < LogEnd
    BY <1>1, <2>1
  <2>3. o \in Installed /\ p \in o.start..(End(o) - 1)
    BY <2>1, <2>2, OwnerFacts DEF Placed
  <2>4. o.start \in Nat /\ log[o.id] \in Seq(Command) /\ Len(log[o.id]) \in Nat
    BY <1>1, <2>3, InstalledType
  <2>5. n - o.start = p - o.start + 1 /\ p - o.start + 1 \in 1..Len(log[o.id])
    BY <2>1, <2>2, <2>3, <2>4 DEF End
  <2>6. log[o.id][p - o.start + 1] \in Command
    BY <2>4, <2>5
  <2>7. SharedLog[n] = log[o.id][n - o.start]
    BY <2>1 DEF SharedLog
  <2> QED BY <2>1, <2>5, <2>6, <2>7 DEF CommandAt
<1>3. SharedLog \in [1..LogEnd -> Command]
  <2>1. DOMAIN SharedLog = 1..LogEnd
    BY DEF SharedLog
  <2>2. \A n \in 1..LogEnd : SharedLog[n] \in Command
    BY <1>2
  <2>3. SharedLog = [n \in 1..LogEnd |-> SharedLog[n]]
    BY DEF SharedLog
  <2> QED BY <2>2, <2>3
<1>4. SharedLog \in Seq(Command) /\ Len(SharedLog) = LogEnd
  BY <1>1, <1>3
<1>5. ASSUME NEW p \in Nat, p < LogEnd PROVE SharedLog[p + 1] = CommandAt(p)
  <2>1. p + 1 \in 1..LogEnd /\ (p + 1) - 1 = p
    BY <1>1, <1>5
  <2> QED BY <1>2, <2>1
<1> QED BY <1>4, <1>5

LEMMA AnswersTruthful == ChainsInv /\ SharedInv => \A a \in Visible : Shared!Truthful(a)
<1> SUFFICES ASSUME ChainsInv, SharedInv, NEW a \in answers, a.kind \in {"append", "read", "trim"}
             PROVE  Shared!Truthful(a)
  BY DEF Visible
<1>1. Tells(a)
  BY DEF SharedInv
<1>2. Len(SharedLog) = LogEnd /\ \A p \in Nat : p < LogEnd => SharedLog[p + 1] = CommandAt(p)
  BY SharedLogFacts
<1>3. Furthest(Trimmed)
  BY TrimmedFacts
<1>4. a.kind \in {"append", "read"} =>
        a.position < Len(SharedLog) /\ SharedLog[a.position + 1] = a.command
  <2> SUFFICES ASSUME a.kind \in {"append", "read"}
               PROVE  a.position < Len(SharedLog) /\ SharedLog[a.position + 1] = a.command
    OBVIOUS
  <2>1. \E s \in Installed : Holds(s, a)
    BY <1>1 DEF ChainsInv, AcksInv, Tells
  <2>2. a.position \in Nat /\ a.position < LogEnd /\ CommandAt(a.position) = a.command
    BY <2>1, HeldFacts
  <2> QED BY <1>2, <2>2
<1>5. a.kind = "read" => \A p \in a.from..(a.position - 1) : p < Trimmed
  <2> SUFFICES ASSUME a.kind = "read", NEW p \in a.from..(a.position - 1) PROVE p < Trimmed
    OBVIOUS
  <2>1. Removed(p + 1)
    BY <1>1 DEF Tells
  <2>2. p + 1 <= Trimmed /\ Trimmed \in Nat
    BY <1>3, <2>1 DEF Furthest, Removed
  <2>3. a.from \in Nat /\ a.position \in Nat
    <3>1. a.from \in Nat /\ \E s \in Installed : Holds(s, a)
      BY <1>1 DEF Tells
    <3> QED BY <3>1, HeldFacts
  <2> QED BY <2>2, <2>3
<1>6. a.kind = "trim" => a.position <= Trimmed
  BY <1>1, <1>3 DEF Tells, Furthest
<1> QED BY <1>4, <1>5, <1>6 DEF Shared!Truthful, SharedLog

-----------------------------------------------------------------------------
(* VirtualLog implements SharedLogSpec.                                    *)

\* Positions keep their commands.
LEMMA GrowingKeepsCommands ==
  ASSUME Growing, SharedInv'
  PROVE  /\ LogEnd \in Nat /\ LogEnd' \in Nat /\ LogEnd <= LogEnd'
         /\ \A p \in Nat : p < LogEnd => CommandAt(p)' = CommandAt(p)
<1>1. ChainsInv /\ ChainsInv' /\ SharedInv
  BY DEF Growing
<1>2. Ended(LogEnd) /\ Placed
  BY <1>1, LogEndFacts, OwnerFacts
<1>3. (ChainsInv => Ended(LogEnd))'
  BY LogEndFacts, PTL
<1>4. (ChainsInv /\ SharedInv => Placed)'
  BY OwnerFacts, PTL
<1>5. Ended(LogEnd)' /\ Placed'
  BY <1>1, <1>3, <1>4
<1>6. /\ Installed \subseteq Installed'
      /\ \A s \in Installed : End(s) \in Nat /\ End(s)' \in Nat /\ End(s) <= End(s)'
  BY GrowingFacts
<1>7. PICK m, n : m = LogEnd /\ n = LogEnd'
  OBVIOUS
<1>8. m \in Nat /\ n \in Nat
  BY <1>2, <1>5, <1>7 DEF Ended
<1>9. m <= n
  <2>1. CASE Installed = {}
    BY <1>2, <1>7, <1>8, <2>1 DEF Ended
  <2>2. CASE Installed # {}
    <3>1. PICK s \in Installed : m = End(s)
      BY <1>2, <1>7, <2>2 DEF Ended
    <3>2. PICK e : e = End(s)'
      OBVIOUS
    <3>3. \A t \in Installed' : End(t)' <= n
      BY <1>5, <1>7 DEF Ended
    <3>4. e \in Nat /\ m <= e /\ e <= n
      BY <1>6, <3>1, <3>2, <3>3
    <3> QED BY <1>8, <3>4
  <2> QED BY <2>1, <2>2
<1>10. ASSUME NEW p \in Nat, p < m PROVE CommandAt(p)' = CommandAt(p)
  <2>1. PICK o, q : o = OwnerOf(p) /\ q = OwnerOf(p)'
    OBVIOUS
  <2>2. o \in Installed /\ p \in o.start..(End(o) - 1)
    BY <1>2, <1>7, <1>10, <2>1 DEF Placed
  <2>3. o.start \in Nat /\ o.id \in Segment /\ Len(log[o.id]) \in Nat
    BY <1>1, <2>2, InstalledType DEF ChainsInv
  <2>4. PICK e, f : e = End(o) /\ f = End(o)'
    OBVIOUS
  <2>5. e \in Nat /\ f \in Nat /\ e <= f /\ p \in o.start..(e - 1) /\ e = o.start + Len(log[o.id])
    BY <1>6, <2>2, <2>4 DEF End
  <2>6. p \in o.start..(f - 1) /\ p - o.start + 1 \in 1..Len(log[o.id]) /\ p < n
    BY <1>8, <1>9, <1>10, <2>3, <2>5
  <2>7. o.id = q.id /\ o.start = q.start
    <3>1. \A r \in Nat : r < n =>
            \A s \in Installed' : r \in s.start..(End(s)' - 1) => s.id = OwnerOf(r)'.id /\ s.start = OwnerOf(r)'.start
      BY <1>5, <1>7 DEF Placed
    <3> QED BY <1>6, <2>1, <2>2, <2>4, <2>6, <3>1
  <2>8. log'[o.id][p - o.start + 1] = log[o.id][p - o.start + 1]
    BY <2>3, <2>6 DEF Growing
  <2>9. CommandAt(p) = log[o.id][p - o.start + 1] /\ CommandAt(p)' = log'[q.id][p - q.start + 1]
    BY <2>1 DEF CommandAt
  <2> QED BY <2>7, <2>8, <2>9
<1> QED BY <1>7, <1>8, <1>9, <1>10

\* The mapped variables that a step leaves alone.
LEMMA SharedLogKept ==
  ASSUME ChainsInv, ChainsInv', SharedInv, SharedInv', LogEnd' = LogEnd,
         \A p \in Nat : p < LogEnd => CommandAt(p)' = CommandAt(p)
  PROVE  SharedLog' = SharedLog
<1>1. /\ SharedLog \in Seq(Command) /\ Len(SharedLog) = LogEnd
      /\ \A p \in Nat : p < LogEnd => SharedLog[p + 1] = CommandAt(p)
  BY SharedLogFacts
<1>2. (ChainsInv /\ SharedInv =>
         /\ SharedLog \in Seq(Command) /\ Len(SharedLog) = LogEnd
         /\ \A p \in Nat : p < LogEnd => SharedLog[p + 1] = CommandAt(p))'
  BY SharedLogFacts, PTL
<1>3. PICK s, t, n : s = SharedLog /\ t = SharedLog' /\ n = LogEnd
  OBVIOUS
<1>4. /\ s \in Seq(Command) /\ t \in Seq(Command) /\ Len(s) = n /\ Len(t) = n
      /\ \A p \in Nat : p < n => s[p + 1] = t[p + 1]
  BY <1>1, <1>2, <1>3
<1>5. n \in Nat
  BY <1>4
<1>6. ASSUME NEW i \in 1..n PROVE s[i] = t[i]
  <2>1. i - 1 \in Nat /\ i - 1 < n /\ (i - 1) + 1 = i
    BY <1>5
  <2> QED BY <1>4, <2>1
<1> QED BY <1>3, <1>4, <1>5, <1>6

LEMMA TrimmedKept ==
  ASSUME ChainsInv, ChainsInv', SharedInv, SharedInv', \A p : Removed(p)' <=> Removed(p)
  PROVE  Trimmed' = Trimmed
<1>1. Furthest(Trimmed)
  BY TrimmedFacts
<1>2. (ChainsInv /\ SharedInv => Furthest(Trimmed) /\ Trimmed <= LogEnd)'
  BY TrimmedFacts, PTL
<1>3. PICK m, n : m = Trimmed /\ n = Trimmed'
  OBVIOUS
<1>4. Removed(m) /\ \A p : Removed(p) => p <= m
  BY <1>1, <1>3 DEF Furthest
<1>5. Removed(n)' /\ \A p : Removed(p)' => p <= n
  <2>1. Removed(Trimmed)' /\ \A p : Removed(p)' => p <= Trimmed'
    BY <1>2 DEF Furthest
  <2> QED BY <1>3, <2>1 DEF Removed
<1>6. m \in Nat /\ n \in Nat /\ m <= n /\ n <= m
  BY <1>4, <1>5 DEF Removed
<1> QED BY <1>3, <1>6

LEMMA SegmentsKept ==
  ASSUME UNCHANGED <<history, log, trimmed>>
  PROVE  SharedLog' = SharedLog /\ Trimmed' = Trimmed
<1>1. Installed' = Installed
  BY DEF Installed
<1>2. LogEnd' = LogEnd
  BY <1>1 DEF LogEnd
<1>3. \A p : OwnerOf(p)' = OwnerOf(p)
  BY <1>1 DEF OwnerOf, Written
<1>4. \A n : log'[OwnerOf(n - 1)'.id][n - OwnerOf(n - 1)'.start] = log[OwnerOf(n - 1).id][n - OwnerOf(n - 1).start]
  BY <1>1, <1>3
<1>5. SharedLog' = SharedLog
  BY <1>2, <1>4 DEF SharedLog
<1>6. Trimmed' = Trimmed
  BY <1>1 DEF Trimmed
<1> QED BY <1>5, <1>6

LEMMA AnswersGrow == [Next]_vars => answers \subseteq answers'
<1> SUFFICES ASSUME [Next]_vars PROVE answers \subseteq answers'
  OBVIOUS
<1>1. CASE UNCHANGED vars
  BY <1>1 DEF vars
<1>2. ASSUME NEW c, NEW k, NEW request, Begin(c, k, request) PROVE answers \subseteq answers'
  BY <1>2 DEF Begin, BeginBootstrap, BeginJoin, BeginSeal, BeginOnActive, BeginRead, BeginModify,
              Propose, Extend, Try
<1>3. ASSUME NEW c, Step(c) \/ Unavailable(c) \/ Raise(c) PROVE answers \subseteq answers'
  <2> USE DEF Finish, Fail
  <2>1. CASE Raise(c) \/ Unavailable(c) \/ AppendAnswered(c) \/ AppendRefused(c)
    BY <2>1 DEF Raise, Unavailable, AppendAnswered, AppendRefused, GoRecover
  <2>2. CASE TailAnswered(c)
    BY <2>2 DEF TailAnswered, TailReturned, GoRecover
  <2>3. CASE TakeLock(c) \/ RefreshedEmpty(c) \/ GraceOver(c) \/ SuccessorFound(c)
    BY <2>3 DEF TakeLock, RefreshedEmpty, GraceOver, SuccessorFound, Extend, Retry, Try
  <2>4. CASE Refreshed(c)
    BY <2>4 DEF Refreshed, Extend, Retry, Try
  <2>5. CASE SealAnswered(c) \/ SealedTailAnswered(c) \/ Drop(c)
    BY <2>5 DEF SealAnswered, SealedTailAnswered, Drop, Propose
  <2>6. CASE InstallAnswered(c)
    <3>1. \E v, won : Proceed(c, Version(v), won)
      BY <2>6 DEF InstallAnswered
    <3> QED BY <3>1 DEF Proceed, Retry, Try, Truncate
  <2>7. CASE TrimNext(c)
    BY <2>7 DEF TrimNext, Truncate
  <2>8. CASE ReadNext(c)
    BY <2>8 DEF ReadNext
  <2> QED BY <1>3, <2>1, <2>2, <2>3, <2>4, <2>5, <2>6, <2>7, <2>8 DEF Step
<1>4. ASSUME NEW m, Effect(m) PROVE answers \subseteq answers'
  BY <1>4 DEF Effect, Install, LogletAppends, LogletSeals, LogletTrims
<1> QED BY <1>1, <1>2, <1>3, <1>4 DEF Next

LEMMA CallImplements ==
  ASSUME ChainsInv', SharedInv', UNCHANGED <<history, loglets>>, answers \subseteq answers'
  PROVE  Shared!Answer
<1>1. SharedLog' = SharedLog /\ Trimmed' = Trimmed
  BY SegmentsKept DEF loglets
<1>2. (ChainsInv /\ SharedInv => \A a \in Visible : Shared!Truthful(a))'
  BY AnswersTruthful, PTL
<1>3. ASSUME NEW a \in Visible' PROVE Shared!Truthful(a)
  <2>1. Shared!Truthful(a)'
    BY <1>2
  <2> QED BY <1>1, <2>1 DEF Shared!Truthful, SharedLog
<1>4. Visible \subseteq Visible'
  BY DEF Visible
<1> QED BY <1>1, <1>3, <1>4 DEF Shared!Answer, SharedLog, Visible

LEMMA InstalledTypes == Types => \A s \in Installed : s.id \in Segment /\ s.start \in Nat
BY InstalledType

\* An installed chain adds no position, and removes none.
LEMMA InstallImplements ==
  ASSUME ChainsInv, ChainsInv', SharedInv, SharedInv', NEW m \in msgs, Install(m)
  PROVE  UNCHANGED <<SharedLog, Trimmed, Visible>>
<1>1. /\ UNCHANGED <<log, sealed, trimmed, answers>> /\ Types /\ Types' /\ Growing
      /\ Installed \subseteq Installed'
      /\ \A s \in Installed : End(s) \in Nat /\ End(s)' \in Nat
  BY InstallGrows, GrowingFacts DEF Install, loglets, ChainsInv
<1>2. /\ LogEnd \in Nat /\ LogEnd' \in Nat /\ LogEnd <= LogEnd'
      /\ \A p \in Nat : p < LogEnd => CommandAt(p)' = CommandAt(p)
  BY <1>1, GrowingKeepsCommands
<1>3. \A s \in Installed' : s.id \in Segment /\ s.start \in Nat
  <2>1. (Types => \A s \in Installed : s.id \in Segment /\ s.start \in Nat)'
    BY InstalledTypes, PTL
  <2> QED BY <1>1, <2>1
<1>4. ASSUME NEW s \in Installed', log[s.id] # <<>>
      PROVE  \E t \in Installed : t.id = s.id /\ t.start = s.start
  <2>1. s.id \in Segment
    BY <1>3
  <2>2. PICK t \in Installed : t.id = s.id
    BY <1>4, <2>1 DEF SharedInv, UsedInv
  <2>3. t \in Installed'
    BY <1>1
  <2>4. Apart(t, s)'
    BY <2>3 DEF ChainsInv, SegmentsInv
  <2> QED BY <2>2, <2>4 DEF Apart
<1>5. LogEnd' = LogEnd
  <2>1. PICK k, n : k = LogEnd /\ n = LogEnd'
    OBVIOUS
  <2>2. k \in Nat /\ n \in Nat /\ k <= n
    BY <1>2, <2>1
  <2>3. ~ (k < n)
    <3> SUFFICES ASSUME k < n PROVE FALSE
      OBVIOUS
    <3>1. (ChainsInv /\ SharedInv => Placed)'
      BY OwnerFacts, PTL
    <3>2. PICK o : o = OwnerOf(k)'
      OBVIOUS
    <3>3. o \in Installed' /\ k \in o.start..(End(o)' - 1)
      BY <2>1, <2>2, <3>1, <3>2 DEF Placed
    <3>4. End(o)' = o.start + Len(log[o.id])
      BY <1>1 DEF End
    <3>5. log[o.id] # <<>>
      BY <1>3, <3>3, <3>4
    <3>6. PICK t \in Installed : t.id = o.id /\ t.start = o.start
      BY <1>4, <3>3, <3>5
    <3>7. End(t) <= k /\ End(t) \in Nat /\ k < End(t)
      <4>1. End(t) = End(o)'
        BY <3>4, <3>6 DEF End
      <4>2. End(t) <= k /\ End(t) \in Nat
        BY <1>1, <2>1, LogEndFacts DEF Ended
      <4> QED BY <2>2, <3>3, <4>1, <4>2
    <3> QED BY <2>2, <3>7
  <2> QED BY <2>1, <2>2, <2>3
<1>6. SharedLog' = SharedLog
  BY <1>2, <1>5, SharedLogKept
<1>7. \A p : Removed(p)' <=> Removed(p)
  <2>1. \A p : Removed(p) => Removed(p)'
    BY <1>1, GrowingFacts
  <2>2. ASSUME NEW p, Removed(p)' PROVE Removed(p)
    <3>1. p \in Nat /\ (p = 0 \/ \E s \in Installed' : trimmed[s.id] > 0 /\ p <= s.start + trimmed[s.id])
      BY <1>1, <2>2 DEF Removed
    <3>2. CASE p # 0
      <4>1. PICK s \in Installed' : trimmed[s.id] > 0 /\ p <= s.start + trimmed[s.id]
        BY <3>1, <3>2
      <4>2. s.id \in Segment
        BY <1>3
      <4>3. trimmed[s.id] <= Len(log[s.id]) /\ trimmed[s.id] \in Nat /\ log[s.id] \in Seq(Command)
        BY <1>1, <4>2 DEF SharedInv, UsedInv, Types
      <4>4. log[s.id] # <<>>
        BY <4>1, <4>3
      <4>5. PICK t \in Installed : t.id = s.id /\ t.start = s.start
        BY <1>4, <4>4
      <4> QED BY <3>1, <4>1, <4>5 DEF Removed
    <3> QED BY <3>1, <3>2 DEF Removed
  <2> QED BY <2>1, <2>2
<1>8. Trimmed' = Trimmed
  BY <1>7, TrimmedKept
<1> QED BY <1>1, <1>6, <1>8 DEF Visible

\* A Loglet that appends writes the end of the shared log: only the newest active segment is open.
LEMMA AppendImplements ==
  ASSUME ChainsInv, ChainsInv', SharedInv, SharedInv', NEW m \in msgs, LogletAppends(m)
  PROVE  Shared!Add
<1>1. /\ UNCHANGED <<history, sealed, trimmed, answers, Installed>> /\ Growing
      /\ m.segment \notin sealed /\ m \in Message /\ m.type = "append"
      /\ log' = [log EXCEPT ![m.segment] = Append(log[m.segment], m.command)] /\ Types
  BY LogletGrows DEF LogletAppends, ChainsInv, Types
<1>2. PICK s \in Installed : s.id = m.segment
  BY <1>1 DEF SharedInv, Fits
<1> PICK t : t = Active(Newest)
  OBVIOUS
<1>3. t \in Installed /\ t.id = m.segment /\ \A x \in Installed : End(x) <= End(t)
  <2>1. t \in Installed /\ \A x \in Installed : End(x) <= End(t)
    BY NewestFacts
  <2>2. s.id = t.id \/ Before(s, t)
    BY DEF ChainsInv, SegmentsInv
  <2> QED BY <1>1, <1>2, <2>1, <2>2 DEF Before
<1>4. /\ m.segment \in Segment /\ m.command \in Command /\ t.start \in Nat
      /\ log[t.id] \in Seq(Command) /\ Len(log[t.id]) \in Nat
  BY <1>1, <1>3, InstalledType DEF Message
<1>5. log'[t.id] = Append(log[t.id], m.command) /\ \A id \in Segment : id # t.id => log'[id] = log[id]
  BY <1>1, <1>3, <1>4 DEF Types
<1>6. PICK k : k = End(t)
  OBVIOUS
<1>7. /\ k = t.start + Len(log[t.id]) /\ k \in Nat /\ End(t)' = k + 1 /\ k \in t.start..((k + 1) - 1)
      /\ log'[t.id][k - t.start + 1] = m.command
  <2>1. PICK a, l : a = t.start /\ l = Len(log[t.id])
    OBVIOUS
  <2>2. a \in Nat /\ l \in Nat /\ k = a + l /\ Len(log'[t.id]) = l + 1 /\ log'[t.id][l + 1] = m.command
    BY <1>4, <1>5, <1>6, <2>1 DEF End
  <2>3. End(t)' = a + Len(log'[t.id])
    BY <2>1 DEF End
  <2>4. k - a + 1 = l + 1 /\ a + (l + 1) = k + 1 /\ k \in Nat /\ k \in a..((k + 1) - 1)
    BY <2>2
  <2> QED BY <2>1, <2>2, <2>3, <2>4
<1>8. LogEnd = k
  <2>1. Ended(LogEnd)
    BY LogEndFacts
  <2>2. PICK x \in Installed : LogEnd = End(x)
    BY <1>3, <2>1 DEF Ended
  <2>3. LogEnd \in Nat /\ End(x) <= k /\ k <= LogEnd
    BY <1>3, <1>6, <2>1 DEF Ended
  <2> QED BY <1>7, <2>2, <2>3
<1>9. LogEnd' = k + 1
  <2>1. (ChainsInv => Ended(LogEnd))'
    BY LogEndFacts, PTL
  <2>2. PICK n : n = LogEnd'
    OBVIOUS
  <2>3. n \in Nat /\ (\A x \in Installed : End(x)' <= n) /\ \E x \in Installed : n = End(x)'
    <3>1. n \in Nat /\ (\A x \in Installed' : End(x)' <= n) /\ (Installed' # {} => \E x \in Installed' : n = End(x)')
      BY <2>1, <2>2 DEF Ended
    <3> QED BY <1>1, <1>3, <3>1
  <2>4. PICK x \in Installed : n = End(x)'
    BY <2>3
  <2>5. CASE x.id = t.id
    <3>1. Apart(x, t)
      BY <1>3 DEF ChainsInv, SegmentsInv
    <3>2. End(x)' = End(t)'
      BY <2>5, <3>1 DEF Apart, End
    <3> QED BY <1>7, <2>2, <2>4, <3>2
  <2>6. CASE x.id # t.id
    <3>1. x.id \in Segment /\ End(x) <= k
      BY <1>1, <1>3, <1>6, InstalledType
    <3>2. End(x)' = End(x)
      BY <1>5, <2>6, <3>1 DEF End
    <3>3. k + 1 <= n
      BY <1>3, <1>7, <2>3
    <3> QED BY <1>7, <2>3, <2>4, <3>1, <3>2, <3>3
  <2> QED BY <2>5, <2>6
<1>10. CommandAt(k)' = m.command
  <2>1. (ChainsInv /\ SharedInv => Placed)'
    BY OwnerFacts, PTL
  <2>2. PICK o, n : o = OwnerOf(k)' /\ n = LogEnd'
    OBVIOUS
  <2>3. k < n
    BY <1>7, <1>9, <2>2
  <2>4. \A x \in Installed' : k \in x.start..(End(x)' - 1) => x.id = o.id /\ x.start = o.start
    BY <1>7, <2>1, <2>2, <2>3 DEF Placed
  <2>5. t.id = o.id /\ t.start = o.start
    BY <1>1, <1>3, <1>7, <2>4
  <2> QED BY <1>7, <2>2, <2>5 DEF CommandAt
<1>11. SharedLog' = Append(SharedLog, m.command)
  <2>1. /\ SharedLog \in Seq(Command) /\ Len(SharedLog) = LogEnd
        /\ \A p \in Nat : p < LogEnd => SharedLog[p + 1] = CommandAt(p)
    BY SharedLogFacts
  <2>2. (ChainsInv /\ SharedInv =>
           /\ SharedLog \in Seq(Command) /\ Len(SharedLog) = LogEnd
           /\ \A p \in Nat : p < LogEnd => SharedLog[p + 1] = CommandAt(p))'
    BY SharedLogFacts, PTL
  <2>3. PICK a, b : a = SharedLog /\ b = SharedLog'
    OBVIOUS
  <2>4. /\ a \in Seq(Command) /\ b \in Seq(Command) /\ Len(a) = k /\ Len(b) = k + 1
        /\ \A p \in Nat : p < k + 1 => b[p + 1] = CommandAt(p)'
        /\ \A p \in Nat : p < k => a[p + 1] = CommandAt(p)
    BY <1>8, <1>9, <2>1, <2>2, <2>3
  <2>5. \A p \in Nat : p < k => CommandAt(p)' = CommandAt(p)
    BY <1>1, <1>8, GrowingKeepsCommands
  <2>6. ASSUME NEW i \in 1..(k + 1) PROVE b[i] = Append(a, m.command)[i]
    <3>1. i - 1 \in Nat /\ (i - 1) + 1 = i /\ i - 1 < k + 1
      BY <1>7
    <3>2. CASE i = k + 1
      BY <1>7, <1>10, <1>4, <2>4, <3>1, <3>2
    <3>3. CASE i # k + 1
      <4>1. i - 1 < k /\ i \in 1..k
        BY <1>7, <3>1, <3>3
      <4>2. b[i] = a[i]
        BY <2>4, <2>5, <3>1, <4>1
      <4> QED BY <1>4, <2>4, <4>1, <4>2
    <3> QED BY <3>2, <3>3
  <2>7. Append(a, m.command) \in Seq(Command) /\ Len(Append(a, m.command)) = k + 1
    BY <1>4, <2>4
  <2>8. b = Append(a, m.command)
    BY <2>4, <2>6, <2>7
  <2> QED BY <2>3, <2>8
<1>12. Trimmed' = Trimmed
  <2>1. \A p : Removed(p)' <=> Removed(p)
    BY <1>1 DEF Removed
  <2> QED BY <2>1, TrimmedKept
<1>13. Visible' = Visible
  BY <1>1 DEF Visible
<1> QED BY <1>4, <1>11, <1>12, <1>13 DEF Shared!Add, SharedLog, Visible

LEMMA SealImplements ==
  ASSUME NEW m, LogletSeals(m)
  PROVE  UNCHANGED <<SharedLog, Trimmed, Visible>>
BY SegmentsKept DEF LogletSeals, Visible

\* A Loglet that trims removes what is below, or adds nothing to what another has removed.
LEMMA TrimImplements ==
  ASSUME ChainsInv, ChainsInv', SharedInv, SharedInv', NEW m \in msgs, LogletTrims(m)
  PROVE  Shared!Trim \/ UNCHANGED <<SharedLog, Trimmed, Visible>>
<1>1. UNCHANGED <<history, log, answers, Installed>> /\ Growing
  BY LogletGrows DEF LogletTrims
<1>2. LogEnd' = LogEnd
  BY <1>1 DEF LogEnd
<1>3. SharedLog' = SharedLog
  BY <1>1, <1>2, GrowingKeepsCommands, SharedLogKept
<1>4. PICK k, n : k = Trimmed /\ n = Trimmed'
  OBVIOUS
<1>5. k \in Nat /\ n \in Nat /\ k <= n /\ n <= LogEnd
  <2>1. (ChainsInv /\ SharedInv => Furthest(Trimmed) /\ Trimmed <= LogEnd)'
    BY TrimmedFacts, PTL
  <2>2. Removed(k)
    BY <1>4, TrimmedFacts DEF Furthest
  <2>3. Removed(k)'
    BY <1>1, <2>2, GrowingFacts
  <2>4. (\A p : Removed(p)' => p <= n) /\ n <= LogEnd' /\ n \in Nat
    BY <1>4, <2>1 DEF Furthest, Removed
  <2> QED BY <1>2, <2>2, <2>3, <2>4 DEF Removed
<1>6. Len(SharedLog) = LogEnd /\ LogEnd \in Nat /\ Visible' = Visible
  BY <1>1, SharedLogFacts, LogEndFacts DEF Ended, Visible
<1>7. CASE k = n
  BY <1>3, <1>4, <1>6, <1>7
<1>8. CASE k # n
  <2>1. n \in (Trimmed + 1)..Len(SharedLog)
    BY <1>4, <1>5, <1>6, <1>8
  <2> QED BY <1>3, <1>4, <1>6, <2>1 DEF Shared!Trim, SharedLog, Visible
<1> QED BY <1>7, <1>8

LEMMA InitImplements == Init => Shared!Init
<1> SUFFICES ASSUME Init PROVE Shared!Init
  OBVIOUS
<1>1. Installed = {}
  BY DEF Init, Installed
<1>2. LogEnd = 0 /\ Trimmed = 0
  BY <1>1 DEF LogEnd, Trimmed
<1>3. SharedLog = <<>>
  <2>1. 1..LogEnd = {}
    BY <1>2
  <2>2. SharedLog \in [1..0 -> {}]
    BY <1>2, <2>1 DEF SharedLog
  <2> QED BY <2>2
<1>4. Visible = {}
  BY DEF Init, Visible
<1> QED BY <1>2, <1>3, <1>4 DEF Shared!Init, SharedLog, Visible

\* Every step is one of the shared log, or leaves it alone.
LEMMA NextImplements ==
  ChainsInv /\ ChainsInv' /\ SharedInv /\ SharedInv' /\ [Next]_vars
    => [Shared!Next]_<<SharedLog, Trimmed, Visible>>
<1> SUFFICES ASSUME ChainsInv, ChainsInv', SharedInv, SharedInv', [Next]_vars
             PROVE  [Shared!Next]_<<SharedLog, Trimmed, Visible>>
  OBVIOUS
<1>1. answers \subseteq answers'
  BY AnswersGrow
<1>2. CASE UNCHANGED <<history, loglets>>
  BY <1>1, <1>2, CallImplements DEF Shared!Next
<1>3. ASSUME NEW c, NEW k, NEW request, Begin(c, k, request) PROVE UNCHANGED <<history, loglets>>
  BY <1>3 DEF Begin
<1>4. ASSUME NEW c, Step(c) \/ Unavailable(c) \/ Raise(c) PROVE UNCHANGED <<history, loglets>>
  BY <1>4 DEF Step, Unavailable, Raise, AppendAnswered, AppendRefused, TailAnswered, TakeLock,
              RefreshedEmpty, Refreshed, GraceOver, SuccessorFound, SealAnswered, SealedTailAnswered,
              InstallAnswered, TrimNext, Drop, ReadNext
<1>5. ASSUME NEW m \in msgs, Effect(m)
      PROVE  Shared!Add \/ Shared!Trim \/ UNCHANGED <<SharedLog, Trimmed, Visible>>
  BY <1>5, InstallImplements, AppendImplements, SealImplements, TrimImplements DEF Effect
<1>6. UNCHANGED vars => UNCHANGED <<history, loglets>>
  BY DEF vars
<1> QED BY <1>2, <1>3, <1>4, <1>5, <1>6 DEF Next, Shared!Next

\* Where no client takes an older chain after a newer one, the segments together are the shared
\* log that users are promised (core.py): a position never changes its command, commands are
\* added at its end only, and every append, read and prefix_trim tells what is there.
THEOREM SharedLogImplemented == Spec /\ [][CachesAdvance]_vars => ImplementsSharedLog
<1>1. Init => Shared!Init
  BY InitImplements
<1>2. ChainsInv /\ ChainsInv' /\ SharedInv /\ SharedInv' /\ [Next]_vars
        => [Shared!Next]_<<SharedLog, Trimmed, Visible>>
  BY NextImplements
<1> QED BY <1>1, <1>2, ChainsInvariant, SharedInvariant, PTL
        DEF Spec, ImplementsSharedLog, Shared!Spec, SharedLog, Visible

\* And what a read returns is a part of that log: an entry left behind the end of a sealed
\* segment on some server stays hidden (read_next stops at the segment's stop).
THEOREM ZombiesHidden == Spec /\ [][CachesAdvance]_vars => []ZombiesStayHidden
<1>1. ChainsInv /\ SharedInv => ZombiesStayHidden
  <2> SUFFICES ASSUME ChainsInv, SharedInv, NEW a \in answers, a.kind = "read"
               PROVE  a.position < LogEnd /\ CommandAt(a.position) = a.command
    BY DEF ZombiesStayHidden, CommandAt
  <2>1. PICK s \in Installed : Holds(s, a)
    BY DEF SharedInv, Tells
  <2> QED BY <2>1, HeldFacts
<1> QED BY <1>1, ChainsInvariant, SharedInvariant, PTL
=============================================================================
