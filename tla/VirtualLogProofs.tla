--------------------------- MODULE VirtualLogProofs ---------------------------
(***************************************************************************)
(* Proofs about the chains of VirtualLog: the inductive invariant ChainsInv, *)
(* and what follows from it.  Each action is taken apart into the helpers it *)
(* is written with (Try, Extend, Propose, Finish, ...); one lemma per helper *)
(* says that it keeps the invariant, and one per action uses them.         *)
(***************************************************************************)
EXTENDS VirtualLogInvariant, TLAPS, WellFoundedInduction

-----------------------------------------------------------------------------
(* Chains, segments and calls.                                             *)

LEMMA InstalledIs ==
  ASSUME NEW s
  PROVE  s \in Installed <=> \E v \in DOMAIN history : \E i \in DOMAIN history[v] : s = history[v][i]
BY DEF Installed

LEMMA ChainFacts ==
  ASSUME NEW chain \in Chain
  PROVE  /\ chain \in Seq(SegmentRecord) /\ Len(chain) \in Nat /\ Len(chain) > 0 /\ chain # <<>>
         /\ First(chain) \in SegmentRecord /\ Active(chain) \in SegmentRecord
         /\ Active(chain).stop = Open
         /\ DOMAIN chain = 1..Len(chain)
         /\ \A i \in 1..Len(chain) : chain[i] \in SegmentRecord
         /\ \A i \in 1..(Len(chain) - 1) : chain[i].stop \in Nat /\ chain[i + 1].start = chain[i].stop
         /\ \A i, j \in 1..Len(chain) : chain[i].id = chain[j].id => i = j
<1>1. chain \in Seq(SegmentRecord) /\ ValidChain(chain)
  BY DEF Chain
<1>2. Len(chain) \in Nat /\ Len(chain) > 0 /\ chain # <<>>
  BY <1>1 DEF ValidChain
<1>3. \A i \in 1..Len(chain) : chain[i] \in SegmentRecord
  BY <1>1
<1>4. \A i \in 1..(Len(chain) - 1) : chain[i].stop \in Nat /\ chain[i + 1].start = chain[i].stop
  <2> SUFFICES ASSUME NEW i \in 1..(Len(chain) - 1)
               PROVE  chain[i].stop \in Nat /\ chain[i + 1].start = chain[i].stop
    OBVIOUS
  <2>1. chain[i] \in SegmentRecord
    BY <1>2, <1>3
  <2> QED BY <1>1, <2>1 DEF ValidChain, SegmentRecord
<1> QED BY <1>1, <1>2, <1>3, <1>4 DEF First, Active, ValidChain

LEMMA NodesExist == (CHOOSE n \in Node : TRUE) \in Node /\ InitialConfig \in Config
BY NodeAssumption DEF InitialConfig, Config

LEMMA IdleType ==
  /\ Idle \in CallRecord
  /\ Idle.pc = "idle" /\ Idle.snapshot = Uninstalled /\ Idle.why = "none" /\ Idle.floor = 0
<1>1. Uninstalled \in ClientSnapshot /\ <<>> \in Seq(SegmentRecord)
  BY DEF Uninstalled, ClientSnapshot
<1>2. [members |-> {}, sequencer |-> CHOOSE n \in Node : TRUE] \in Config
  BY NodesExist DEF Config
<1> QED BY <1>1, <1>2 DEF Idle, CallRecord, Phases, Causes

LEMMA VersionType ==
  ASSUME Types, NEW v \in 0..Len(history)
  PROVE  /\ Version(v) \in ClientSnapshot /\ Known(Version(v)) /\ Version(v).version = v
         /\ v > 0 => /\ Version(v).chain = history[v] /\ history[v] \in Chain
                     /\ Active(history[v]) \in Installed
<1>1. history \in Seq(Chain) /\ Len(history) \in Nat
  BY DEF Types
<1>2. v > 0 => history[v] \in Chain
  BY <1>1
<1>3. CASE v = 0
  BY <1>1, <1>3 DEF Version, ClientSnapshot, Known
<1>4. CASE v > 0
  <2>1. history[v] \in Chain /\ v \in DOMAIN history
    BY <1>1, <1>2, <1>4
  <2>2. history[v] \in Seq(SegmentRecord)
    BY <2>1, ChainFacts
  <2>3. Version(v) = [version |-> v, chain |-> history[v]]
    BY <1>4 DEF Version
  <2>4. Len(history[v]) \in DOMAIN history[v]
    BY <2>1, <2>2, ChainFacts
  <2>5. Active(history[v]) \in Installed
    BY <2>1, <2>4, InstalledIs DEF Active
  <2> QED BY <1>1, <1>4, <2>1, <2>2, <2>3, <2>5 DEF ClientSnapshot, Known
<1> QED BY <1>3, <1>4

LEMMA InstalledType ==
  ASSUME Types, NEW s \in Installed
  PROVE  /\ s \in SegmentRecord /\ s.id \in Segment /\ s.id \in Nat /\ s.start \in Nat
         /\ log[s.id] \in Seq(Command) /\ Len(log[s.id]) \in Nat
         /\ End(s) \in Nat /\ s.start <= End(s)
<1>1. PICK v \in DOMAIN history : \E i \in DOMAIN history[v] : s = history[v][i]
  BY InstalledIs
<1>2. history[v] \in Chain
  BY DEF Types
<1>3. DOMAIN history[v] = 1..Len(history[v])
  BY <1>2, ChainFacts
<1>4. s \in SegmentRecord
  BY <1>1, <1>2, <1>3, ChainFacts
<1>5. s.id \in Segment /\ s.id \in Nat /\ s.start \in Nat
  BY <1>4 DEF SegmentRecord, Segment
<1>6. log[s.id] \in Seq(Command) /\ Len(log[s.id]) \in Nat
  BY <1>5 DEF Types
<1> QED BY <1>4, <1>5, <1>6 DEF End

LEMMA StartsChains == Init => ChainsInv
<1> SUFFICES ASSUME Init PROVE ChainsInv
  OBVIOUS
<1>1. Len(history) = 0 /\ DOMAIN history = {} /\ Installed = {}
  BY DEF Init, Installed
<1>2. Known(Uninstalled)
  BY <1>1 DEF Known, Uninstalled, Version
<1>3. Types
  <2>1. history \in Seq(Chain) /\ log \in [Segment -> Seq(Command)] /\ trimmed \in [Segment -> Nat]
    BY DEF Init
  <2>2. cached \in [Client -> ClientSnapshot]
    BY DEF Init, Uninstalled, ClientSnapshot
  <2>3. call \in [Call -> CallRecord]
    BY IdleType DEF Init
  <2> QED BY <2>1, <2>2, <2>3, SegmentAssumption, AttemptAssumption DEF Init, Types
<1>4. SegmentsInv /\ ProposalsInv
  BY <1>1 DEF Init, SegmentsInv, ProposalsInv
<1>5. ASSUME NEW c \in Call PROVE Prepared(call[c])
  <2>1. call[c] = Idle
    BY DEF Init
  <2> QED BY <2>1, <1>2, IdleType DEF Prepared, OnSegment, Recovering
<1>6. \A c \in Call : call[c].pc \notin OnSegment
  BY IdleType DEF Init, OnSegment, Recovering
<1>7. \A k \in Client : Known(cached[k])
  BY <1>2 DEF Init
<1>8. AcksInv
  BY DEF Init, AcksInv
<1> QED BY <1>3, <1>4, <1>5, <1>6, <1>7, <1>8 DEF ChainsInv, CallsInv

-----------------------------------------------------------------------------
(* What EXCEPT does to the record of a call.                               *)

\* A call record x that differs from y in pc, snapshot, why and what no invariant is about.
Advances(K, x, y, pc, snapshot, why) ==
  /\ x \in K
  /\ x.pc = pc /\ x.snapshot = snapshot /\ x.why = why
  /\ x.client = y.client /\ x.request = y.request /\ x.floor = y.floor

LEMMA PhaseRecord ==
  ASSUME NEW P, NEW K, NEW R, NEW T, NEW S, NEW D, NEW W, NEW G, NEW X, NEW Q, NEW F,
         NEW y \in [pc : P, client : K, request : R, attempt : T, snapshot : S,
                    candidate : D, why : W, config : G, index : X, asked : Q, floor : F],
         NEW p \in P
  PROVE  Advances([pc : P, client : K, request : R, attempt : T, snapshot : S,
                    candidate : D, why : W, config : G, index : X, asked : Q, floor : F],
                  [y EXCEPT !.pc = p], y, p, y.snapshot, y.why)
BY DEF Advances

LEMMA IndexRecord ==
  ASSUME NEW P, NEW K, NEW R, NEW T, NEW S, NEW D, NEW W, NEW G, NEW X, NEW Q, NEW F,
         NEW y \in [pc : P, client : K, request : R, attempt : T, snapshot : S,
                    candidate : D, why : W, config : G, index : X, asked : Q, floor : F],
         NEW i \in X
  PROVE  Advances([pc : P, client : K, request : R, attempt : T, snapshot : S,
                    candidate : D, why : W, config : G, index : X, asked : Q, floor : F],
                  [y EXCEPT !.index = i], y, y.pc, y.snapshot, y.why)
BY DEF Advances

LEMMA AttemptRecord ==
  ASSUME NEW P, NEW K, NEW R, NEW T, NEW S, NEW D, NEW W, NEW G, NEW X, NEW Q, NEW F,
         NEW y \in [pc : P, client : K, request : R, attempt : T, snapshot : S,
                    candidate : D, why : W, config : G, index : X, asked : Q, floor : F],
         NEW t \in T
  PROVE  Advances([pc : P, client : K, request : R, attempt : T, snapshot : S,
                    candidate : D, why : W, config : G, index : X, asked : Q, floor : F],
                  [y EXCEPT !.attempt = t], y, y.pc, y.snapshot, y.why)
BY DEF Advances

LEMMA SnapshotRecord ==
  ASSUME NEW P, NEW K, NEW R, NEW T, NEW S, NEW D, NEW W, NEW G, NEW X, NEW Q, NEW F,
         NEW y \in [pc : P, client : K, request : R, attempt : T, snapshot : S,
                    candidate : D, why : W, config : G, index : X, asked : Q, floor : F],
         NEW p \in P, NEW z \in S
  PROVE  Advances([pc : P, client : K, request : R, attempt : T, snapshot : S,
                    candidate : D, why : W, config : G, index : X, asked : Q, floor : F],
                  [y EXCEPT !.pc = p, !.snapshot = z], y, p, z, y.why)
BY DEF Advances

LEMMA TriedRecord ==
  ASSUME NEW P, NEW K, NEW R, NEW T, NEW S, NEW D, NEW W, NEW G, NEW X, NEW Q, NEW F,
         NEW y \in [pc : P, client : K, request : R, attempt : T, snapshot : S,
                    candidate : D, why : W, config : G, index : X, asked : Q, floor : F],
         NEW p \in P, NEW z \in S, NEW w \in W
  PROVE  Advances([pc : P, client : K, request : R, attempt : T, snapshot : S,
                    candidate : D, why : W, config : G, index : X, asked : Q, floor : F],
                  [y EXCEPT !.pc = p, !.snapshot = z, !.why = w], y, p, z, w)
BY DEF Advances

LEMMA ExtendingRecord ==
  ASSUME NEW P, NEW K, NEW R, NEW T, NEW S, NEW D, NEW W, NEW G, NEW X, NEW Q, NEW F,
         NEW y \in [pc : P, client : K, request : R, attempt : T, snapshot : S,
                    candidate : D, why : W, config : G, index : X, asked : Q, floor : F],
         NEW p \in P, NEW z \in S, NEW g \in G
  PROVE  Advances([pc : P, client : K, request : R, attempt : T, snapshot : S,
                    candidate : D, why : W, config : G, index : X, asked : Q, floor : F],
                  [y EXCEPT !.pc = p, !.snapshot = z, !.config = g], y, p, z, y.why)
BY DEF Advances

LEMMA ProposingRecord ==
  ASSUME NEW P, NEW K, NEW R, NEW T, NEW S, NEW D, NEW W, NEW G, NEW X, NEW Q, NEW F,
         NEW y \in [pc : P, client : K, request : R, attempt : T, snapshot : S,
                    candidate : D, why : W, config : G, index : X, asked : Q, floor : F],
         NEW p \in P, NEW z \in S, NEW d \in D
  PROVE  Advances([pc : P, client : K, request : R, attempt : T, snapshot : S,
                    candidate : D, why : W, config : G, index : X, asked : Q, floor : F],
                  [y EXCEPT !.pc = p, !.snapshot = z, !.candidate = d], y, p, z, y.why)
BY DEF Advances

LEMMA RecoveringRecord ==
  ASSUME NEW P, NEW K, NEW R, NEW T, NEW S, NEW D, NEW W, NEW G, NEW X, NEW Q, NEW F,
         NEW y \in [pc : P, client : K, request : R, attempt : T, snapshot : S,
                    candidate : D, why : W, config : G, index : X, asked : Q, floor : F],
         NEW p \in P, NEW w \in W
  PROVE  Advances([pc : P, client : K, request : R, attempt : T, snapshot : S,
                    candidate : D, why : W, config : G, index : X, asked : Q, floor : F],
                  [y EXCEPT !.pc = p, !.why = w], y, p, y.snapshot, w)
BY DEF Advances

LEMMA TrimmingRecord ==
  ASSUME NEW P, NEW K, NEW R, NEW T, NEW S, NEW D, NEW W, NEW G, NEW X, NEW Q, NEW F,
         NEW y \in [pc : P, client : K, request : R, attempt : T, snapshot : S,
                    candidate : D, why : W, config : G, index : X, asked : Q, floor : F],
         NEW p \in P, NEW z \in S, NEW i \in X, NEW t \in T
  PROVE  Advances([pc : P, client : K, request : R, attempt : T, snapshot : S,
                    candidate : D, why : W, config : G, index : X, asked : Q, floor : F],
                  [y EXCEPT !.pc = p, !.snapshot = z, !.index = i, !.attempt = t], y, p, z, y.why)
BY DEF Advances

LEMMA AskingRecord ==
  ASSUME NEW P, NEW K, NEW R, NEW T, NEW S, NEW D, NEW W, NEW G, NEW X, NEW Q, NEW F,
         NEW y \in [pc : P, client : K, request : R, attempt : T, snapshot : S,
                    candidate : D, why : W, config : G, index : X, asked : Q, floor : F],
         NEW p \in P, NEW q \in Q
  PROVE  Advances([pc : P, client : K, request : R, attempt : T, snapshot : S,
                    candidate : D, why : W, config : G, index : X, asked : Q, floor : F],
                  [y EXCEPT !.pc = p, !.asked = q], y, p, y.snapshot, y.why)
BY DEF Advances

LEMMA ConfigRecord ==
  ASSUME NEW P, NEW K, NEW R, NEW T, NEW S, NEW D, NEW W, NEW G, NEW X, NEW Q, NEW F,
         NEW y \in [pc : P, client : K, request : R, attempt : T, snapshot : S,
                    candidate : D, why : W, config : G, index : X, asked : Q, floor : F],
         NEW p \in P, NEW g \in G
  PROVE  Advances([pc : P, client : K, request : R, attempt : T, snapshot : S,
                    candidate : D, why : W, config : G, index : X, asked : Q, floor : F],
                  [y EXCEPT !.pc = p, !.config = g], y, p, y.snapshot, y.why)
BY DEF Advances

LEMMA AskingAgainRecord ==
  ASSUME NEW P, NEW K, NEW R, NEW T, NEW S, NEW D, NEW W, NEW G, NEW X, NEW Q, NEW F,
         NEW y \in [pc : P, client : K, request : R, attempt : T, snapshot : S,
                    candidate : D, why : W, config : G, index : X, asked : Q, floor : F],
         NEW p \in P, NEW t \in T, NEW q \in Q
  PROVE  Advances([pc : P, client : K, request : R, attempt : T, snapshot : S,
                    candidate : D, why : W, config : G, index : X, asked : Q, floor : F],
                  [y EXCEPT !.pc = p, !.attempt = t, !.asked = q], y, p, y.snapshot, y.why)
BY DEF Advances

LEMMA Advancing ==
  ASSUME NEW y \in CallRecord
  PROVE  /\ \A p \in Phases : Advances(CallRecord, [y EXCEPT !.pc = p], y, p, y.snapshot, y.why)
         /\ \A i \in Nat : Advances(CallRecord, [y EXCEPT !.index = i], y, y.pc, y.snapshot, y.why)
         /\ \A t \in Nat : Advances(CallRecord, [y EXCEPT !.attempt = t], y, y.pc, y.snapshot, y.why)
         /\ \A p \in Phases, z \in ClientSnapshot :
              Advances(CallRecord, [y EXCEPT !.pc = p, !.snapshot = z], y, p, z, y.why)
         /\ \A p \in Phases, z \in ClientSnapshot, w \in Causes :
              Advances(CallRecord, [y EXCEPT !.pc = p, !.snapshot = z, !.why = w], y, p, z, w)
         /\ \A p \in Phases, z \in ClientSnapshot, g \in Config :
              Advances(CallRecord, [y EXCEPT !.pc = p, !.snapshot = z, !.config = g], y, p, z, y.why)
         /\ \A p \in Phases, z \in ClientSnapshot, d \in Seq(SegmentRecord) :
              Advances(CallRecord, [y EXCEPT !.pc = p, !.snapshot = z, !.candidate = d], y, p, z, y.why)
         /\ \A p \in Phases, w \in Causes :
              Advances(CallRecord, [y EXCEPT !.pc = p, !.why = w], y, p, y.snapshot, w)
         /\ \A p \in Phases, z \in ClientSnapshot, i \in Nat, t \in Nat :
              Advances(CallRecord, [y EXCEPT !.pc = p, !.snapshot = z, !.index = i, !.attempt = t],
                       y, p, z, y.why)
         /\ \A p \in Phases, q \in Nat :
              Advances(CallRecord, [y EXCEPT !.pc = p, !.asked = q], y, p, y.snapshot, y.why)
         /\ \A p \in Phases, g \in Config :
              Advances(CallRecord, [y EXCEPT !.pc = p, !.config = g], y, p, y.snapshot, y.why)
         /\ \A p \in Phases, t \in Nat, q \in Nat :
              Advances(CallRecord, [y EXCEPT !.pc = p, !.attempt = t, !.asked = q], y, p, y.snapshot, y.why)
<1>1. \A p \in Phases : Advances(CallRecord, [y EXCEPT !.pc = p], y, p, y.snapshot, y.why)
  BY PhaseRecord, Zenon DEF CallRecord
<1>2. \A i \in Nat : Advances(CallRecord, [y EXCEPT !.index = i], y, y.pc, y.snapshot, y.why)
  BY IndexRecord, Zenon DEF CallRecord
<1>3. \A t \in Nat : Advances(CallRecord, [y EXCEPT !.attempt = t], y, y.pc, y.snapshot, y.why)
  BY AttemptRecord, Zenon DEF CallRecord
<1>4. \A p \in Phases, z \in ClientSnapshot :
              Advances(CallRecord, [y EXCEPT !.pc = p, !.snapshot = z], y, p, z, y.why)
  BY SnapshotRecord, Zenon DEF CallRecord
<1>5. \A p \in Phases, z \in ClientSnapshot, w \in Causes :
              Advances(CallRecord, [y EXCEPT !.pc = p, !.snapshot = z, !.why = w], y, p, z, w)
  BY TriedRecord, Zenon DEF CallRecord
<1>6. \A p \in Phases, z \in ClientSnapshot, g \in Config :
              Advances(CallRecord, [y EXCEPT !.pc = p, !.snapshot = z, !.config = g], y, p, z, y.why)
  BY ExtendingRecord, Zenon DEF CallRecord
<1>7. \A p \in Phases, z \in ClientSnapshot, d \in Seq(SegmentRecord) :
              Advances(CallRecord, [y EXCEPT !.pc = p, !.snapshot = z, !.candidate = d], y, p, z, y.why)
  BY ProposingRecord, Zenon DEF CallRecord
<1>8. \A p \in Phases, w \in Causes :
              Advances(CallRecord, [y EXCEPT !.pc = p, !.why = w], y, p, y.snapshot, w)
  BY RecoveringRecord, Zenon DEF CallRecord
<1>9. \A p \in Phases, z \in ClientSnapshot, i \in Nat, t \in Nat :
              Advances(CallRecord, [y EXCEPT !.pc = p, !.snapshot = z, !.index = i, !.attempt = t],
                       y, p, z, y.why)
  BY TrimmingRecord, Zenon DEF CallRecord
<1>10. \A p \in Phases, q \in Nat :
              Advances(CallRecord, [y EXCEPT !.pc = p, !.asked = q], y, p, y.snapshot, y.why)
  BY AskingRecord, Zenon DEF CallRecord
<1>11. \A p \in Phases, g \in Config :
              Advances(CallRecord, [y EXCEPT !.pc = p, !.config = g], y, p, y.snapshot, y.why)
  BY ConfigRecord, Zenon DEF CallRecord
<1>12. \A p \in Phases, t \in Nat, q \in Nat :
              Advances(CallRecord, [y EXCEPT !.pc = p, !.attempt = t, !.asked = q], y, p, y.snapshot, y.why)
  BY AskingAgainRecord, Zenon DEF CallRecord
<1> QED BY <1>1, <1>2, <1>3, <1>4, <1>5, <1>6, <1>7, <1>8, <1>9, <1>10, <1>11, <1>12

\* A call record x that differs from Idle at most in what is listed here.
Begun(K, x, pc, client, request, snapshot, why, floor) ==
  /\ x \in K
  /\ x.pc = pc /\ x.snapshot = snapshot /\ x.why = why
  /\ x.client = client /\ x.request = request /\ x.floor = floor

LEMMA BegunRecord ==
  ASSUME NEW P, NEW K, NEW R, NEW T, NEW S, NEW D, NEW W, NEW G, NEW X, NEW Q, NEW F,
         NEW y \in [pc : P, client : K, request : R, attempt : T, snapshot : S,
                    candidate : D, why : W, config : G, index : X, asked : Q, floor : F],
         NEW k \in K, NEW r \in R, NEW f \in F, NEW q \in Q
  PROVE  Begun([pc : P, client : K, request : R, attempt : T, snapshot : S,
                   candidate : D, why : W, config : G, index : X, asked : Q, floor : F],
               [y EXCEPT !.client = k, !.request = r, !.floor = f, !.asked = q],
               y.pc, k, r, y.snapshot, y.why, f)
BY DEF Begun

LEMMA EndedRecord ==
  ASSUME NEW P, NEW K, NEW R, NEW T, NEW S, NEW D, NEW W, NEW G, NEW X, NEW Q, NEW F,
         NEW y \in [pc : P, client : K, request : R, attempt : T, snapshot : S,
                    candidate : D, why : W, config : G, index : X, asked : Q, floor : F],
         NEW k \in K, NEW r \in R, NEW p \in P
  PROVE  Begun([pc : P, client : K, request : R, attempt : T, snapshot : S,
                   candidate : D, why : W, config : G, index : X, asked : Q, floor : F],
               [y EXCEPT !.pc = p, !.client = k, !.request = r],
               p, k, r, y.snapshot, y.why, y.floor)
BY DEF Begun

LEMMA BegunType ==
  ASSUME NEW k \in Client, NEW request \in Request, AckedTail \in Nat, Len(history) \in Nat
  PROVE  Begun(CallRecord, NewCall(k, request), "idle", k, request, Uninstalled, "none", AckedTail)
<1>1. k \in Client \cup {Idle.client} /\ request \in Request \cup {[op |-> "none"]}
  OBVIOUS
<1> HIDE DEF Idle
<1>2. Begun(CallRecord, NewCall(k, request), Idle.pc, k, request, Idle.snapshot, Idle.why, AckedTail)
  BY <1>1, IdleType, BegunRecord, Zenon DEF CallRecord, NewCall
<1> QED BY <1>2, IdleType

LEMMA EndedType ==
  ASSUME NEW y \in CallRecord, NEW p \in {"done", "failed"}
  PROVE  Begun(CallRecord, [Idle EXCEPT !.pc = p, !.client = y.client, !.request = y.request],
               p, y.client, y.request, Uninstalled, "none", 0)
<1>1. y.client \in Client \cup {Idle.client} /\ y.request \in Request \cup {[op |-> "none"]}
  BY DEF CallRecord
<1>2. p \in Phases
  BY DEF Phases
<1>3. Begun(CallRecord, [Idle EXCEPT !.pc = p, !.client = y.client, !.request = y.request],
            p, y.client, y.request, Idle.snapshot, Idle.why, Idle.floor)
  BY <1>1, <1>2, IdleType, EndedRecord, Zenon DEF CallRecord
<1> QED BY <1>3, IdleType

-----------------------------------------------------------------------------
(* What a step of a call keeps, helper by helper.                          *)

LEMMA ChainIds ==
  ASSUME NEW chain \in Chain
  PROVE  \A i \in DOMAIN chain : chain[i].id \in Nat
<1> SUFFICES ASSUME NEW i \in DOMAIN chain PROVE chain[i].id \in Nat
  OBVIOUS
<1>1. chain[i] \in SegmentRecord
  BY ChainFacts
<1> QED BY <1>1 DEF SegmentRecord, Segment

\* What a step of a call leaves alone, or changes as it may.
Around ==
  /\ UNCHANGED <<history, loglets>>
  /\ cached' \in [Client -> ClientSnapshot]
  /\ \A k \in Client : Known(cached'[k]) /\ (cached[k].version > 0 => cached'[k].version > 0)
  /\ lock' \in [Client -> Call \cup {NoCall}]
  /\ made' \in made..MaxSegment /\ failures' \in 0..MaxFailures

\* What callers are told of their appends is true.
AcksTrue == \A a \in answers' : a \in answers \/ a.kind # "append" \/ \E s \in Installed : Holds(s, a)

LEMMA StepKeepsChains ==
  ASSUME ChainsInv, Around, AcksTrue, NEW c \in Call, NEW x \in CallRecord,
         NEW requests, requests \subseteq Message,
         call' = [call EXCEPT ![c] = x], msgs' = msgs \cup requests,
         Prepared(x), x.pc \in OnSegment => cached'[x.client].version > 0,
         \A m \in requests : m.type = "install" =>
           Proposal(m) /\ \A i \in DOMAIN m.chain : m.chain[i].id <= made'
  PROVE  ChainsInv'
<1>1. history' = history /\ log' = log /\ sealed' = sealed /\ trimmed' = trimmed
  BY DEF Around, loglets
<1>2. made' \in 0..MaxSegment /\ made <= made' /\ made \in Nat
  BY DEF Around, ChainsInv, Types
<1>3. Types'
  BY <1>1, <1>2 DEF ChainsInv, Types, Around
<1>4. SegmentsInv'
  <2>1. Installed' = Installed
    BY <1>1 DEF Installed
  <2>2. \A s \in Installed : s.id \in Nat
    BY InstalledType DEF ChainsInv
  <2>3. \A s \in Installed : s.id <= made'
    BY <1>2, <2>2 DEF ChainsInv, SegmentsInv
  <2> QED BY <1>1, <2>1, <2>3 DEF ChainsInv, SegmentsInv, Closed, Apart, Before, End, Newest
<1>5. ProposalsInv'
  <2> SUFFICES ASSUME NEW m \in msgs', m.type = "install"
               PROVE  Proposal(m)' /\ \A i \in DOMAIN m.chain : m.chain[i].id <= made'
    BY DEF ProposalsInv
  <2>1. Proposal(m) /\ \A i \in DOMAIN m.chain : m.chain[i].id <= made'
    <3>1. CASE m \in requests
      BY <3>1
    <3>2. CASE m \in msgs
      <4>1. m.chain \in Chain
        BY <3>2 DEF ChainsInv, Types, Message
      <4>2. \A i \in DOMAIN m.chain : m.chain[i].id \in Nat
        BY <4>1, ChainIds
      <4>3. Proposal(m) /\ \A i \in DOMAIN m.chain : m.chain[i].id <= made
        BY <3>2 DEF ChainsInv, ProposalsInv
      <4> QED BY <1>2, <4>2, <4>3
    <3> QED BY <3>1, <3>2
  <2> QED BY <1>1, <2>1 DEF Proposal, Derived, Kept, Added, Closed, Before, End
<1>6. CallsInv'
  <2>1. \A k \in Client : Known(cached'[k])
    BY DEF Around
  <2>2. (\A k \in Client : Known(cached[k]))'
    BY <1>1, <2>1 DEF Known, Version
  <2>3. ASSUME NEW d \in Call PROVE Prepared(call[d])'
    <3>1. Prepared(call'[d])
      BY DEF ChainsInv, CallsInv, Types
    <3> QED BY <1>1, <3>1 DEF Prepared, Known, Version
  <2>4. ASSUME NEW d \in Call, call'[d].pc \in OnSegment PROVE Cached(d)'.version > 0
    <3>1. CASE d = c
      BY <2>4, <3>1 DEF ChainsInv, Types, Cached, ClientOf
    <3>2. CASE d # c
      <4>1. call'[d] = call[d]
        BY <3>2 DEF ChainsInv, Types
      <4>2. call[d].client \in Client /\ cached[call[d].client].version > 0
        BY <2>4, <4>1 DEF ChainsInv, CallsInv, Prepared, Cached, ClientOf, OnSegment, Recovering
      <4> QED BY <4>1, <4>2 DEF Around, Cached, ClientOf
    <3> QED BY <3>1, <3>2
  <2> QED BY <2>2, <2>3, <2>4 DEF CallsInv
<1>7. AcksInv'
  <2> SUFFICES ASSUME NEW a \in answers', a.kind = "append"
               PROVE  \E s \in Installed' : Holds(s, a)'
    BY DEF AcksInv
  <2>1. PICK s \in Installed : Holds(s, a)
    BY DEF AcksTrue, ChainsInv, AcksInv
  <2>2. Installed' = Installed
    BY <1>1 DEF Installed
  <2>3. Holds(s, a)'
    BY <1>1, <2>1 DEF Holds, End
  <2> QED BY <2>2, <2>3
<1> QED BY <1>3, <1>4, <1>5, <1>6, <1>7 DEF ChainsInv

LEMMA MessageTypes ==
  /\ \A id \in Segment, k \in Command : AppendTo(id, k) \in Message /\ AppendTo(id, k).type = "append"
  /\ \A id \in Segment : SealOf(id) \in Message /\ SealOf(id).type = "seal"
  /\ \A id \in Segment, n \in Nat : TrimOf(id, n) \in Message /\ TrimOf(id, n).type = "trim"
  /\ \A v \in Nat, chain \in Chain : InstallOf(v, chain) \in Message
BY DEF Message, AppendTo, SealOf, TrimOf, InstallOf

LEMMA SilentTrue == answers' = answers => AcksTrue
BY DEF AcksTrue

\* A call can go on to work on a segment of a snapshot that its client has or had.
LEMMA OnSegmentFacts ==
  ASSUME Types, NEW z \in ClientSnapshot, Known(z), z.version > 0
  PROVE  /\ z.version \in 1..Len(history) /\ z.chain = history[z.version] /\ z.chain \in Chain
         /\ z.version \in Nat
         /\ Active(z.chain) \in Installed /\ Active(z.chain).id \in Segment
<1>1. z.version \in Nat /\ Len(history) \in Nat
  BY DEF ClientSnapshot, Types
<1>2. z.version \in 1..Len(history) /\ z = Version(z.version)
  BY <1>1 DEF Known
<1>3. z.chain = history[z.version] /\ z.chain \in Chain /\ Active(z.chain) \in Installed
  BY <1>2, VersionType
<1> QED BY <1>1, <1>2, <1>3, InstalledType

LEMMA UninstalledKnown ==
  ASSUME Types
  PROVE  Known(Uninstalled) /\ Uninstalled \in ClientSnapshot /\ Uninstalled.version = 0
<1>1. Len(history) \in Nat
  BY DEF Types
<1> QED BY <1>1 DEF Known, Uninstalled, Version, ClientSnapshot

\* A step that sends nothing.
LEMMA QuietKeepsChains ==
  ASSUME ChainsInv, Around, AcksTrue, NEW c \in Call, NEW x \in CallRecord,
         call' = [call EXCEPT ![c] = x], msgs' = msgs,
         Prepared(x), x.pc \in OnSegment => cached'[x.client].version > 0
  PROVE  ChainsInv'
<1> DEFINE requests == {}
<1>1. requests \subseteq Message /\ msgs' = msgs \cup requests
  OBVIOUS
<1>2. \A m \in requests : m.type = "install" =>
        Proposal(m) /\ \A i \in DOMAIN m.chain : m.chain[i].id <= made'
  OBVIOUS
<1> HIDE DEF requests
<1> QED BY <1>1, <1>2, StepKeepsChains

\* A call that is over.
LEMMA EndKeepsChains ==
  ASSUME ChainsInv, Around, AcksTrue, NEW c \in Call, call[c].pc # "idle", NEW p \in {"done", "failed"},
         call' = [call EXCEPT ![c] = [Idle EXCEPT !.pc = p, !.client = call[c].client,
                                                  !.request = call[c].request]],
         msgs' = msgs
  PROVE  ChainsInv'
<1> DEFINE x == [Idle EXCEPT !.pc = p, !.client = call[c].client, !.request = call[c].request]
<1>1. call[c] \in CallRecord
  BY DEF ChainsInv, Types
<1>2. Begun(CallRecord, x, p, call[c].client, call[c].request, Uninstalled, "none", 0)
  BY <1>1, EndedType
<1>3. call[c].client \in Client /\ call[c].request \in Request
  BY DEF ChainsInv, CallsInv, Prepared
<1>4. call' = [call EXCEPT ![c] = x]
  OBVIOUS
<1> HIDE DEF x
<1>5. Prepared(x)
  BY <1>2, <1>3, UninstalledKnown DEF Begun, Prepared, OnSegment, Recovering, ChainsInv
<1>6. x \in CallRecord /\ x.pc \notin OnSegment
  BY <1>2 DEF Begun, OnSegment, Recovering
<1> QED BY <1>4, <1>5, <1>6, QuietKeepsChains

LEMMA FinishKeepsChains ==
  ASSUME ChainsInv, Around, AcksTrue, NEW c \in Call, call[c].pc # "idle", NEW told, Finish(c, told)
  PROVE  ChainsInv'
BY EndKeepsChains DEF Finish

LEMMA FailKeepsChains ==
  ASSUME ChainsInv, Around, NEW c \in Call, call[c].pc # "idle", Fail(c)
  PROVE  ChainsInv'
BY SilentTrue, EndKeepsChains DEF Fail

\* append, check_tail or prefix_trim goes to the active segment.
LEMMA TryKeepsChains ==
  ASSUME ChainsInv, Around, NEW c \in Call, NEW state \in CallRecord,
         state.client \in Client, state.request \in Request, state.request.op \in OnActive,
         NEW z \in ClientSnapshot, Known(z), z.version > 0, cached'[state.client].version > 0,
         Try(c, state, z)
  PROVE  ChainsInv'
<1>1. Types
  BY DEF ChainsInv
<1>2. Active(z.chain).id \in Segment
  BY <1>1, OnSegmentFacts
<1>3. ASSUME NEW p \in {"append", "tail"},
             p = "append" => state.request.op = "append",
             p = "tail" => state.request.op # "append",
             NEW requests, requests \subseteq Message, \A m \in requests : m.type # "install",
             Await(c, [state EXCEPT !.pc = p, !.snapshot = z, !.why = "none"], requests)
      PROVE  ChainsInv'
  <2> DEFINE x == [state EXCEPT !.pc = p, !.snapshot = z, !.why = "none"]
  <2>1. p \in Phases /\ "none" \in Causes
    BY <1>3 DEF Phases, Causes
  <2>2. Advances(CallRecord, x, state, p, z, "none")
    BY <2>1, Advancing
  <2>3. call' = [call EXCEPT ![c] = x] /\ msgs' = msgs \cup requests
    BY <1>3 DEF Await
  <2> HIDE DEF x
  <2>4. x \in CallRecord /\ x.client = state.client
    BY <2>2 DEF Advances
  <2>5. Prepared(x)
    BY <1>3, <2>2 DEF Advances, Prepared, OnSegment, Recovering, OnActive
  <2>6. AcksTrue
    BY SilentTrue DEF Try
  <2> QED BY <1>3, <2>3, <2>4, <2>5, <2>6, StepKeepsChains
<1>4. CASE state.request.op = "append"
  <2>1. state.request.command \in Command
    BY <1>4 DEF Request
  <2>2. /\ AppendTo(Active(z.chain).id, state.request.command) \in Message
        /\ AppendTo(Active(z.chain).id, state.request.command).type = "append"
    BY <1>2, <2>1, MessageTypes
  <2> QED BY <1>3, <1>4, <2>2 DEF Try
<1>5. CASE state.request.op # "append"
  BY <1>3, <1>5 DEF Try
<1> QED BY <1>4, <1>5

\* reconfig_extend begins.
LEMMA ExtendKeepsChains ==
  ASSUME ChainsInv, Around, NEW c \in Call, NEW state \in CallRecord,
         state.client \in Client, state.request \in Request,
         state.why # "none" => state.request.op \in OnActive,
         NEW z \in ClientSnapshot, Known(z), z.version > 0, cached'[state.client].version > 0,
         NEW config \in Config, Extend(c, state, z, config)
  PROVE  ChainsInv'
<1> DEFINE x == [state EXCEPT !.pc = "seal", !.snapshot = z, !.config = config]
           requests == {SealOf(Active(z.chain).id)}
<1>1. Types
  BY DEF ChainsInv
<1>2. Active(z.chain).id \in Segment
  BY <1>1, OnSegmentFacts
<1>3. "seal" \in Phases
  BY DEF Phases
<1>4. Advances(CallRecord, x, state, "seal", z, state.why)
  BY <1>3, Advancing
<1>5. call' = [call EXCEPT ![c] = x] /\ msgs' = msgs \cup requests
  BY DEF Extend, Await
<1>6. requests \subseteq Message /\ \A m \in requests : m.type # "install"
  BY <1>2, MessageTypes
<1> HIDE DEF x, requests
<1>7. x \in CallRecord /\ x.client = state.client
  BY <1>4 DEF Advances
<1>8. Prepared(x)
  BY <1>4 DEF Advances, Prepared, OnSegment, Recovering, OnActive
<1> QED BY <1>5, <1>6, <1>7, <1>8, SilentTrue, StepKeepsChains DEF Extend

\* A chain is proposed to the MetaStore.
LEMMA ProposeKeepsChains ==
  ASSUME ChainsInv, Around, NEW c \in Call, NEW state \in CallRecord,
         state.client \in Client, state.request \in Request,
         state.why # "none" => state.request.op \in OnActive,
         NEW z \in ClientSnapshot, Known(z),
         NEW chain \in Seq(SegmentRecord),
         IF z.version = 0 THEN Len(chain) = 1 /\ First(chain).start = 0 ELSE Derived(chain, z.version),
         \A i \in DOMAIN chain : chain[i].id <= made',
         Propose(c, state, z, chain)
  PROVE  ChainsInv'
<1> DEFINE x == [state EXCEPT !.pc = "install", !.snapshot = z, !.candidate = chain]
           m == InstallOf(z.version, chain)
<1>1. ValidChain(chain) /\ chain \in Chain
  BY DEF Propose, Chain
<1>2. "install" \in Phases /\ z.version \in Nat
  BY DEF Phases, ClientSnapshot
<1>3. Advances(CallRecord, x, state, "install", z, state.why)
  BY <1>2, Advancing
<1>4. call' = [call EXCEPT ![c] = x] /\ msgs' = msgs \cup {m}
  BY DEF Propose, Await
<1>5. m \in Message
  BY <1>1, <1>2, MessageTypes
<1>6. m.expected = z.version /\ m.chain = chain
  BY DEF InstallOf
<1> HIDE DEF x, m
<1>7. x \in CallRecord /\ x.client = state.client
  BY <1>3 DEF Advances
<1>8. Prepared(x) /\ x.pc \notin OnSegment
  BY <1>3 DEF Advances, Prepared, OnSegment, Recovering, OnActive
<1>9. Proposal(m) /\ \A i \in DOMAIN m.chain : m.chain[i].id <= made'
  BY <1>6 DEF Proposal, Known
<1> DEFINE requests == {m}
<1>10. /\ requests \subseteq Message /\ msgs' = msgs \cup requests
       /\ \A n \in requests : n.type = "install" =>
            Proposal(n) /\ \A i \in DOMAIN n.chain : n.chain[i].id <= made'
  BY <1>4, <1>5, <1>9
<1> HIDE DEF requests
<1> QED BY <1>4, <1>7, <1>8, <1>10, SilentTrue, StepKeepsChains DEF Propose

\* What a running call and its client work with.
LEMMA CallFacts ==
  ASSUME ChainsInv, NEW c \in Call, call[c].pc # "idle"
  PROVE  /\ Types /\ call[c] \in CallRecord /\ Prepared(call[c]) /\ Known(call[c].snapshot)
         /\ call[c].snapshot \in ClientSnapshot /\ call[c].config \in Config
         /\ call[c].attempt \in Nat /\ call[c].index \in Nat /\ call[c].pc \in Phases
         /\ call[c].client \in Client /\ call[c].request \in Request
         /\ Cached(c) \in ClientSnapshot /\ Known(Cached(c))
         /\ call[c].pc \in OnSegment => call[c].snapshot.version > 0 /\ Cached(c).version > 0
         /\ call[c].why # "none" => call[c].request.op \in OnActive
<1>1. Types /\ call[c] \in CallRecord /\ Prepared(call[c])
  BY DEF ChainsInv, CallsInv, Types
<1>2. call[c].client \in Client /\ call[c].request \in Request
  BY <1>1 DEF Prepared
<1>3. Cached(c) \in ClientSnapshot /\ Known(Cached(c))
  BY <1>1, <1>2 DEF ChainsInv, CallsInv, Types, Cached, ClientOf
<1>4. call[c].pc \in OnSegment => Cached(c).version > 0
  BY DEF ChainsInv, CallsInv
<1> QED BY <1>1, <1>2, <1>3, <1>4 DEF Prepared, CallRecord

\* A step that leaves caches, locks, identifiers and failures alone.
LEMMA AroundNothing ==
  ASSUME ChainsInv, UNCHANGED <<history, loglets, cached, made>>,
         lock' \in [Client -> Call \cup {NoCall}], failures' \in 0..MaxFailures
  PROVE  Around
<1>1. /\ made \in 0..MaxSegment /\ cached \in [Client -> ClientSnapshot]
      /\ lock \in [Client -> Call \cup {NoCall}] /\ failures \in 0..MaxFailures
  BY DEF ChainsInv, Types
<1>2. made \in made..MaxSegment
  BY <1>1, SegmentAssumption
<1> QED BY <1>1, <1>2 DEF Around, ChainsInv, CallsInv

\* A client caches what it was told.
LEMMA AroundCaching ==
  ASSUME ChainsInv, UNCHANGED <<history, loglets, made, failures>>,
         NEW k \in Client, NEW v \in 1..Len(history),
         cached' = [cached EXCEPT ![k] = Version(v)],
         lock' \in [Client -> Call \cup {NoCall}]
  PROVE  Around /\ cached'[k].version > 0
<1>1. /\ made \in 0..MaxSegment /\ cached \in [Client -> ClientSnapshot]
      /\ lock \in [Client -> Call \cup {NoCall}] /\ failures \in 0..MaxFailures
      /\ Types /\ Len(history) \in Nat
  BY DEF ChainsInv, Types
<1>2. made \in made..MaxSegment
  BY <1>1, SegmentAssumption
<1>3. Version(v) \in ClientSnapshot /\ Known(Version(v)) /\ Version(v).version > 0
  BY <1>1, VersionType
<1>4. \A j \in Client : cached'[j] = IF j = k THEN Version(v) ELSE cached[j]
  BY <1>1
<1> QED BY <1>1, <1>2, <1>3, <1>4 DEF Around, ChainsInv, CallsInv

LEMMA UnlockedType ==
  ASSUME ChainsInv, NEW c \in Call, Unlocked(c)
  PROVE  lock' \in [Client -> Call \cup {NoCall}]
BY DEF ChainsInv, Types, Unlocked

LEMMA LockType == ChainsInv => lock \in [Client -> Call \cup {NoCall}] /\ failures \in 0..MaxFailures
BY DEF ChainsInv, Types

LEMMA RetryKeepsChains ==
  ASSUME ChainsInv, Around, NEW c \in Call, call[c].pc # "idle", call[c].request.op \in OnActive,
         NEW z \in ClientSnapshot, Known(z), z.version > 0, cached'[call[c].client].version > 0,
         Retry(c, z)
  PROVE  ChainsInv'
<1> DEFINE state == [call[c] EXCEPT !.attempt = @ + 1]
<1>1. call[c] \in CallRecord /\ call[c].attempt + 1 \in Nat
  BY CallFacts
<1>2. Advances(CallRecord, state, call[c], call[c].pc, call[c].snapshot, call[c].why)
  BY <1>1, Advancing
<1>3. Try(c, state, z)
  BY DEF Retry
<1> HIDE DEF state
<1>4. /\ state \in CallRecord /\ state.client = call[c].client /\ state.request = call[c].request
  BY <1>2 DEF Advances
<1> QED BY <1>3, <1>4, CallFacts, TryKeepsChains

LEMMA GoRecoverKeepsChains ==
  ASSUME ChainsInv, Around, NEW c \in Call, call[c].pc \in {"append", "tail"},
         NEW why \in {"sealed", "unavailable"}, GoRecover(c, why), cached' = cached
  PROVE  ChainsInv'
<1>1. call[c].pc # "idle" /\ call[c].pc \in OnSegment
  BY DEF OnSegment
<1>2. CASE call[c].attempt = MaxAttempts
  BY <1>1, <1>2, FailKeepsChains DEF GoRecover
<1>3. CASE call[c].attempt # MaxAttempts
  <2> DEFINE x == [call[c] EXCEPT !.pc = "lock", !.why = why]
  <2>1. call[c] \in CallRecord /\ "lock" \in Phases /\ why \in Causes
    BY <1>1, CallFacts DEF Phases, Causes
  <2>2. Advances(CallRecord, x, call[c], "lock", call[c].snapshot, why)
    BY <2>1, Advancing
  <2>3. call' = [call EXCEPT ![c] = x] /\ msgs' = msgs
    BY <1>3 DEF GoRecover, Await
  <2> HIDE DEF x
  <2>4. x \in CallRecord /\ x.client = call[c].client /\ cached'[x.client].version > 0
    BY <1>1, <2>2, CallFacts DEF Advances, Cached, ClientOf
  <2>5. Prepared(x)
    BY <1>1, <2>2, CallFacts DEF Advances, Prepared, OnSegment, Recovering, OnActive
  <2> QED BY <1>3, <2>3, <2>4, <2>5, SilentTrue, QuietKeepsChains DEF GoRecover
<1> QED BY <1>2, <1>3

-----------------------------------------------------------------------------
(* The chains that are proposed.                                           *)

\* The segments of an installed chain.
LEMMA SegmentFacts ==
  ASSUME ChainsInv, NEW v \in 1..Len(history), NEW i \in 1..Len(history[v])
  PROVE  LET s == history[v][i]
         IN  /\ s \in Installed /\ s \in SegmentRecord /\ s.id \in Segment /\ s.id <= made
             /\ s.start \in Nat /\ End(s) \in Nat /\ s.start <= End(s)
             /\ s.stop # Open => Closed(s) /\ s.stop \in Nat
             /\ i < Len(history[v]) => s.stop # Open
<1>1. Types /\ v \in DOMAIN history /\ history[v] \in Chain
  BY DEF ChainsInv, Types
<1>2. i \in DOMAIN history[v] /\ Len(history[v]) \in Nat
  BY <1>1, ChainFacts
<1>3. history[v][i] \in Installed
  BY <1>1, <1>2, InstalledIs
<1>4. i < Len(history[v]) => history[v][i].stop # Open
  <2> SUFFICES ASSUME i < Len(history[v]) PROVE history[v][i].stop # Open
    OBVIOUS
  <2>1. i \in 1..(Len(history[v]) - 1)
    BY <1>2
  <2>2. history[v][i].stop \in Nat
    BY <1>1, <2>1, ChainFacts
  <2> QED BY <2>2 DEF Open
<1>5. history[v][i] \in SegmentRecord
  BY <1>1, <1>3, InstalledType
<1> QED BY <1>1, <1>3, <1>4, <1>5, InstalledType DEF SegmentRecord, ChainsInv, SegmentsInv

\* reconfig_modify: the chain with another configuration of a segment.
LEMMA ModifiedDerived ==
  ASSUME ChainsInv, NEW v \in 1..Len(history), NEW i \in 1..(Len(history[v]) - 1), NEW config \in Config,
         NEW chain, chain = Modified(history[v], i, config)
  PROVE  /\ chain \in Seq(SegmentRecord) /\ Derived(chain, v)
         /\ \A j \in DOMAIN chain : chain[j].id <= made
<1> DEFINE old == history[v]
<1>1. old \in Chain /\ old \in Seq(SegmentRecord) /\ Len(old) \in Nat /\ DOMAIN old = 1..Len(old) /\ Len(old) > 0
  BY ChainFacts DEF ChainsInv, Types
<1>2. chain = [old EXCEPT ![i] = [old[i] EXCEPT !.config = config]]
  BY DEF Modified
<1>3. i \in 1..Len(old) /\ i # Len(old) /\ old[i] \in SegmentRecord
  BY <1>1
<1>4. [old[i] EXCEPT !.config = config] \in SegmentRecord
  BY <1>3 DEF SegmentRecord
<1>5. /\ chain \in Seq(SegmentRecord) /\ Len(chain) = Len(old) /\ DOMAIN chain = 1..Len(old)
  BY <1>1, <1>2, <1>3, <1>4
<1>6. \A j \in 1..Len(old) : chain[j].id = old[j].id /\ chain[j].start = old[j].start /\ chain[j].stop = old[j].stop
  <2> SUFFICES ASSUME NEW j \in 1..Len(old)
               PROVE  chain[j].id = old[j].id /\ chain[j].start = old[j].start /\ chain[j].stop = old[j].stop
    OBVIOUS
  <2>1. CASE j = i
    BY <1>1, <1>2, <1>3, <2>1 DEF SegmentRecord
  <2>2. CASE j # i
    BY <1>1, <1>2, <2>2
  <2> QED BY <2>1, <2>2
<1>7. \A j \in 1..Len(old) : Kept(chain[j], v)
  BY <1>1, <1>6 DEF Kept
<1>8. Active(chain).id = Active(old).id
  BY <1>1, <1>5, <1>6 DEF Active
<1>9. \A j \in 1..Len(old) : old[j].id <= made
  BY SegmentFacts
<1>10. Derived(chain, v)
  BY <1>1, <1>5, <1>7, <1>8 DEF Derived, Active
<1> QED BY <1>5, <1>6, <1>9, <1>10

\* reconfig_truncate: the chain without its first segment.
LEMMA TailDerived ==
  ASSUME ChainsInv, NEW v \in 1..Len(history), NEW chain, chain = Tail(history[v]), ValidChain(chain)
  PROVE  /\ chain \in Seq(SegmentRecord) /\ Derived(chain, v)
         /\ \A j \in DOMAIN chain : chain[j].id <= made
<1> DEFINE old == history[v]
<1>1. old \in Chain /\ old \in Seq(SegmentRecord) /\ Len(old) \in Nat /\ DOMAIN old = 1..Len(old) /\ Len(old) > 0
  BY ChainFacts DEF ChainsInv, Types
<1>2. chain \in Seq(SegmentRecord) /\ Len(chain) = Len(old) - 1 /\ DOMAIN chain = 1..(Len(old) - 1)
  BY <1>1
<1>3. Len(old) > 1
  BY <1>1, <1>2 DEF ValidChain
<1>4. \A j \in 1..(Len(old) - 1) : chain[j] = old[j + 1] /\ j + 1 \in 1..Len(old)
  BY <1>1
<1>5. \A j \in 1..(Len(old) - 1) : Kept(chain[j], v)
  BY <1>1, <1>4 DEF Kept
<1>6. Active(chain).id = Active(old).id
  BY <1>1, <1>2, <1>3, <1>4 DEF Active
<1>7. \A j \in 1..Len(old) : old[j].id <= made
  BY SegmentFacts
<1>8. Derived(chain, v)
  <2>1. \A i \in 1..(Len(chain) - 1) : Kept(chain[i], v)
    BY <1>1, <1>2, <1>5
  <2>2. Kept(Active(chain), v)
    <3>1. Len(chain) \in 1..(Len(old) - 1)
      BY <1>1, <1>2, <1>3
    <3>2. Kept(chain[Len(chain)], v)
      BY <1>5, <3>1
    <3> QED BY <3>2 DEF Active
  <2> QED BY <1>6, <2>1, <2>2 DEF Derived
<1> QED BY <1>2, <1>4, <1>7, <1>8

\* reconfig_extend: the chain whose sealed active segment has a successor.
LEMMA ExtendedDerived ==
  ASSUME ChainsInv, NEW v \in 1..Len(history), NEW config \in Config,
         Active(history[v]).id \in sealed, made + 1 \in Segment,
         NEW chain, chain = Extended(history[v], End(Active(history[v])), made + 1, config)
  PROVE  /\ chain \in Seq(SegmentRecord) /\ Derived(chain, v)
         /\ \A j \in DOMAIN chain : chain[j].id <= made + 1
         /\ Len(chain) = Len(history[v]) + 1 /\ First(chain).start = First(history[v]).start
<1> DEFINE old == history[v]
           n == Len(old)
           stop == End(Active(old))
<1>1. old \in Chain /\ old \in Seq(SegmentRecord) /\ n \in Nat /\ DOMAIN old = 1..n /\ n > 0
  BY ChainFacts DEF ChainsInv, Types
<1>2. Active(old) = old[n] /\ n \in 1..n
  BY <1>1 DEF Active
<1>3. stop \in Nat /\ old[n] \in SegmentRecord
  BY <1>2, SegmentFacts
<1>4. made \in Nat
  BY DEF ChainsInv, Types
<1>5. chain = [i \in 1..(n + 1) |-> IF i < n THEN old[i]
                                    ELSE IF i = n THEN [old[i] EXCEPT !.stop = stop]
                                    ELSE SegmentOf(made + 1, stop, config)]
  BY DEF Extended
<1>6. SegmentOf(made + 1, stop, config) \in SegmentRecord
  BY <1>3 DEF SegmentOf, SegmentRecord
<1>7. [old[n] EXCEPT !.stop = stop] \in SegmentRecord
  BY <1>3 DEF SegmentRecord
<1> HIDE DEF n, stop
<1>8. \A i \in 1..(n + 1) : chain[i] \in SegmentRecord
  <2> SUFFICES ASSUME NEW i \in 1..(n + 1) PROVE chain[i] \in SegmentRecord
    OBVIOUS
  <2>1. CASE i < n
    <3>1. chain[i] = old[i] /\ i \in 1..n
      BY <1>1, <1>5, <2>1
    <3> QED BY <1>1, <3>1
  <2>2. CASE i = n
    BY <1>1, <1>5, <1>7, <2>2
  <2>3. CASE i > n
    BY <1>1, <1>5, <1>6, <2>3
  <2> QED BY <1>1, <2>1, <2>2, <2>3
<1>9. chain \in Seq(SegmentRecord) /\ Len(chain) = n + 1 /\ DOMAIN chain = 1..(n + 1)
  <2>1. chain \in [1..(n + 1) -> SegmentRecord] /\ n + 1 \in Nat
    BY <1>1, <1>5, <1>8
  <2> QED BY <2>1
<1>10. \A i \in 1..(n - 1) : chain[i] = old[i]
  BY <1>1, <1>5
<1>11. /\ chain[n].id = old[n].id /\ chain[n].start = old[n].start /\ chain[n].stop = stop
  <2>1. chain[n] = [old[n] EXCEPT !.stop = stop]
    <3>1. n \in 1..(n + 1) /\ ~ (n < n)
      BY <1>1
    <3> QED BY <1>5, <3>1
  <2> QED BY <1>3, <2>1 DEF SegmentRecord
<1>12. chain[n + 1] = SegmentOf(made + 1, stop, config)
  BY <1>1, <1>5
<1>13. Kept(chain[n], v)
  <2>1. End(chain[n]) = stop /\ chain[n].id \in sealed
    BY <1>2, <1>11 DEF End, stop
  <2> QED BY <1>1, <1>2, <1>11, <2>1 DEF Kept, Closed
<1>14. \A i \in 1..(n - 1) : Kept(chain[i], v)
  BY <1>1, <1>10 DEF Kept
<1>15. Added(chain[n + 1], v)
  <2>1. \A u \in 1..v : \A i \in DOMAIN history[u] : history[u][i].id <= made /\ history[u][i].id \in Nat
    <3> SUFFICES ASSUME NEW u \in 1..v, NEW i \in DOMAIN history[u]
                 PROVE  history[u][i].id <= made /\ history[u][i].id \in Nat
      OBVIOUS
    <3>1. u \in 1..Len(history) /\ Len(history) \in Nat
      BY DEF ChainsInv, Types
    <3>2. history[u] \in Chain
      BY <3>1 DEF ChainsInv, Types
    <3>3. i \in 1..Len(history[u])
      BY <3>2, ChainFacts
    <3> QED BY <3>1, <3>3, SegmentFacts DEF Segment
  <2>2. chain[n + 1].id = made + 1 /\ chain[n + 1].start = stop
    BY <1>12 DEF SegmentOf
  <2>3. Before(Active(old), chain[n + 1])
    BY <1>3, <2>2 DEF Before, stop
  <2> QED BY <1>4, <2>1, <2>2, <2>3 DEF Added
<1>16. Derived(chain, v)
  <2>1. \A i \in 1..(Len(chain) - 1) : Kept(chain[i], v)
    BY <1>1, <1>9, <1>13, <1>14
  <2> QED BY <1>9, <1>15, <2>1 DEF Derived, Active
<1>17. \A j \in 1..(n + 1) : chain[j].id <= made + 1
  <2>1. \A j \in 1..n : old[j].id <= made /\ old[j].id \in Nat
    BY SegmentFacts DEF n, Segment
  <2> QED BY <1>1, <1>4, <1>10, <1>11, <1>12, <2>1 DEF SegmentOf
<1>18. First(chain).start = First(old).start
  BY <1>1, <1>10, <1>11 DEF First
<1> QED BY <1>9, <1>16, <1>17, <1>18 DEF n

-----------------------------------------------------------------------------
(* The highest of the positions acknowledged.                              *)

\* A nonempty set of numbers has a lowest one, a bounded one a highest one.
LEMMA LowestExists ==
  ASSUME NEW S \in SUBSET Nat, S # {}
  PROVE  \E n \in S : \A k \in S : n <= k
<1>1. PICK n \in S : \A k \in S : ~ (<<k, n>> \in OpToRel(<, Nat))
  BY NatLessThanWellFounded, WFMin
<1>2. \A k \in S : ~ (k < n)
  BY <1>1 DEF OpToRel
<1> QED BY <1>2

LEMMA HighestExists ==
  ASSUME NEW S \in SUBSET Nat, S # {}, NEW B \in Nat, \A n \in S : n <= B
  PROVE  \E n \in S : \A k \in S : k <= n
<1> DEFINE D == {B - n : n \in S}
<1>1. D \in SUBSET Nat /\ D # {}
  <2>1. \A n \in S : B - n \in Nat
    OBVIOUS
  <2>2. PICK n \in S : TRUE
    OBVIOUS
  <2>3. B - n \in D
    OBVIOUS
  <2> QED BY <2>1, <2>3
<1>2. PICK d \in D : \A e \in D : d <= e
  BY <1>1, LowestExists
<1>3. PICK n \in S : d = B - n
  BY <1>2
<1>4. \A k \in S : B - n <= B - k
  BY <1>2, <1>3
<1> QED BY <1>4

\* Every segment ends before the newest active one does.
LEMMA NewestFacts ==
  ASSUME ChainsInv, NEW s \in Installed
  PROVE  /\ Len(history) \in 1..Len(history) /\ Newest \in Chain
         /\ Active(Newest) \in Installed /\ End(s) <= End(Active(Newest))
<1>1. Types /\ Len(history) \in Nat
  BY DEF ChainsInv, Types
<1>2. PICK v \in DOMAIN history : \E i \in DOMAIN history[v] : s = history[v][i]
  BY InstalledIs
<1>3. Len(history) \in 1..Len(history)
  BY <1>1, <1>2 DEF Types
<1>4. Newest \in Chain /\ Active(Newest) \in Installed
  BY <1>1, <1>3, VersionType DEF Newest
<1>5. /\ End(s) \in Nat /\ End(Active(Newest)) \in Nat /\ Active(Newest).start \in Nat
      /\ Active(Newest).start <= End(Active(Newest))
  BY <1>1, <1>4, InstalledType
<1>6. CASE s.id = Active(Newest).id
  <2>1. s.start = Active(Newest).start
    BY <1>4, <1>6 DEF ChainsInv, SegmentsInv, Apart
  <2> QED BY <1>3, <1>4, <1>5, <1>6, <2>1 DEF End
<1>7. CASE s.id # Active(Newest).id
  <2>1. Before(s, Active(Newest))
    BY <1>7 DEF ChainsInv, SegmentsInv
  <2> QED BY <1>3, <1>4, <1>5, <2>1 DEF Before
<1> QED BY <1>6, <1>7

\* What a call takes for the tail that is acknowledged is one.
LEMMA AckedTailFacts ==
  ASSUME ChainsInv
  PROVE  AckedTail \in Nat /\ (AckedTail = 0 \/ \E s \in Installed : AckedTail <= End(s))
<1> DEFINE acked == {a.position : a \in {b \in answers : b.kind = "append"}}
<1>1. CASE acked = {}
  BY <1>1 DEF AckedTail
<1>2. CASE acked # {}
  <2>1. \A p \in acked : p \in Nat /\ \E s \in Installed : p < End(s)
    <3> SUFFICES ASSUME NEW a \in answers, a.kind = "append"
                 PROVE  a.position \in Nat /\ \E s \in Installed : a.position < End(s)
      OBVIOUS
    <3>1. PICK s \in Installed : Holds(s, a)
      BY DEF ChainsInv, AcksInv
    <3>2. s.start \in Nat /\ End(s) \in Nat
      BY InstalledType DEF ChainsInv
    <3> QED BY <3>1, <3>2 DEF Holds
  <2>2. PICK r \in Installed : TRUE
    BY <1>2, <2>1
  <2>3. End(Active(Newest)) \in Nat /\ \A s \in Installed : End(s) \in Nat /\ End(s) <= End(Active(Newest))
    BY <2>2, NewestFacts, InstalledType DEF ChainsInv
  <2>4. \A p \in acked : p <= End(Active(Newest))
    BY <2>1, <2>3
  <2>5. acked \in SUBSET Nat
    BY <2>1
  <2>6. \E p \in acked : \A q \in acked : q <= p
    BY <1>2, <2>3, <2>4, <2>5, HighestExists
  <2> DEFINE p == CHOOSE q \in acked : \A r2 \in acked : r2 <= q
  <2>7. p \in acked
    BY <2>6
  <2>8. AckedTail = 1 + p
    BY <1>2 DEF AckedTail
  <2> HIDE DEF p, acked
  <2> QED BY <2>1, <2>3, <2>7, <2>8
<1> QED BY <1>1, <1>2

-----------------------------------------------------------------------------
(* Calls begin, append, ask for the tail and wait for the lock.            *)

LEMMA BeginKeepsChains ==
  ASSUME ChainsInv, NEW c \in Call, NEW k \in Client, NEW request \in Request, Begin(c, k, request)
  PROVE  ChainsInv'
<1> DEFINE y == NewCall(k, request)
<1>1. Types /\ Len(history) \in Nat /\ made \in 0..MaxSegment /\ MaxSegment \in Nat
  BY SegmentAssumption DEF ChainsInv, Types
<1>2. Begun(CallRecord, y, "idle", k, request, Uninstalled, "none", AckedTail)
  BY <1>1, BegunType, AckedTailFacts
<1>3. UNCHANGED <<history, loglets, cached, lock, failures>>
  BY DEF Begin
<1>4. /\ cached[k] \in ClientSnapshot /\ Known(cached[k])
      /\ cached[k].chain # <<>> => cached[k].version > 0
  BY DEF ChainsInv, CallsInv, Types, Known, Version, ClientSnapshot
<1>5. made' \in made..MaxSegment => Around
  BY <1>1, <1>3 DEF Around, ChainsInv, CallsInv, Types
<1>6. made' = made => Around
  BY <1>1, <1>5
<1>7. InitialConfig \in Config
  BY NodesExist
<1> HIDE DEF y
<1>8. /\ y \in CallRecord /\ y.client = k /\ y.request = request /\ y.why = "none" /\ y.pc = "idle"
      /\ y.snapshot = Uninstalled
  BY <1>2 DEF Begun
<1>9. CASE BeginBootstrap(c, k, request)
  <2> DEFINE chain == <<SegmentOf(made + 1, 0, InitialConfig)>>
  <2>1. made < MaxSegment /\ made' = made + 1 /\ Propose(c, y, Uninstalled, chain)
    BY <1>9 DEF BeginBootstrap, y
  <2>2. made + 1 \in Segment
    BY <1>1, <2>1 DEF Segment
  <2>3. SegmentOf(made + 1, 0, InitialConfig) \in SegmentRecord
    BY <1>7, <2>2 DEF SegmentOf, SegmentRecord
  <2>4. chain \in Seq(SegmentRecord) /\ Len(chain) = 1 /\ First(chain).start = 0
    BY <2>3 DEF First, SegmentOf
  <2>5. \A i \in DOMAIN chain : chain[i].id <= made'
    BY <1>1, <2>1 DEF SegmentOf
  <2>6. Around
    BY <1>1, <1>5, <2>1
  <2> HIDE DEF chain
  <2> QED BY <1>1, <1>8, <2>1, <2>4, <2>5, <2>6, UninstalledKnown, ProposeKeepsChains
<1>10. CASE BeginJoin(c, k, request)
  <2> DEFINE x == [y EXCEPT !.pc = "refresh"]
  <2>1. call' = [call EXCEPT ![c] = x] /\ msgs' = msgs /\ made' = made /\ answers' = answers
        /\ request.op = "join"
    BY <1>10 DEF BeginJoin, Await, y
  <2>2. "refresh" \in Phases
    BY DEF Phases
  <2>3. Advances(CallRecord, x, y, "refresh", Uninstalled, "none")
    BY <1>8, <2>2, Advancing
  <2> HIDE DEF x
  <2>4. x \in CallRecord /\ Prepared(x) /\ x.pc \notin OnSegment
    BY <1>1, <1>8, <2>1, <2>3, UninstalledKnown DEF Advances, Prepared, OnSegment, Recovering, OnActive
  <2> QED BY <1>6, <2>1, <2>4, SilentTrue, QuietKeepsChains
<1>11. CASE BeginSeal(c, k, request)
  <2>1. Extend(c, y, cached[k], InitialConfig) /\ made' = made /\ cached[k].chain # <<>>
    BY <1>11 DEF BeginSeal, y
  <2> QED BY <1>3, <1>4, <1>6, <1>7, <1>8, <2>1, ExtendKeepsChains
<1>12. CASE BeginOnActive(c, k, request)
  <2>1. Try(c, y, cached[k]) /\ made' = made /\ cached[k].chain # <<>> /\ request.op \in OnActive
    BY <1>12 DEF BeginOnActive, y, OnActive
  <2> QED BY <1>3, <1>4, <1>6, <1>8, <2>1, TryKeepsChains
<1>13. CASE BeginRead(c, k, request)
  <2> DEFINE x == [y EXCEPT !.pc = "read", !.snapshot = cached[k]]
  <2>1. call' = [call EXCEPT ![c] = x] /\ msgs' = msgs /\ made' = made /\ answers' = answers
    BY <1>13 DEF BeginRead, Await, y
  <2>2. "read" \in Phases
    BY DEF Phases
  <2>3. Advances(CallRecord, x, y, "read", cached[k], "none")
    BY <1>4, <1>8, <2>2, Advancing
  <2> HIDE DEF x
  <2>4. x \in CallRecord /\ Prepared(x) /\ x.pc \notin OnSegment
    BY <1>4, <1>8, <2>3 DEF Advances, Prepared, OnSegment, Recovering, OnActive
  <2> QED BY <1>6, <2>1, <2>4, SilentTrue, QuietKeepsChains
<1>14. CASE BeginModify(c, k, request)
  <2>1. PICK i \in 1..(Len(cached[k].chain) - 1) :
          Propose(c, y, cached[k], Modified(cached[k].chain, i, request.config))
    BY <1>14 DEF BeginModify, y
  <2>2. made' = made /\ request.config \in Config
    BY <1>14 DEF BeginModify, Request
  <2>3. cached[k].chain \in Seq(SegmentRecord)
    BY <1>4 DEF ClientSnapshot
  <2>4. cached[k].chain # <<>>
    BY <2>1, <2>3
  <2>5. /\ cached[k].version \in 1..Len(history) /\ cached[k].chain = history[cached[k].version]
        /\ cached[k].version # 0
    BY <1>1, <1>4, <2>4, OnSegmentFacts
  <2> DEFINE chain == Modified(cached[k].chain, i, request.config)
  <2>6. /\ chain \in Seq(SegmentRecord) /\ Derived(chain, cached[k].version)
        /\ \A j \in DOMAIN chain : chain[j].id <= made
    BY <2>2, <2>5, ModifiedDerived
  <2> HIDE DEF chain
  <2>7. Propose(c, y, cached[k], chain)
    BY <2>1 DEF chain
  <2> QED BY <1>4, <1>6, <1>8, <2>2, <2>5, <2>6, <2>7, ProposeKeepsChains
<1> QED BY <1>9, <1>10, <1>11, <1>12, <1>13, <1>14 DEF Begin

LEMMA RaiseKeepsChains ==
  ASSUME ChainsInv, NEW c \in Call, Raise(c)
  PROVE  ChainsInv'
<1>1. call[c].pc # "idle" /\ failures < MaxFailures /\ failures' = failures + 1
  BY DEF Raise, Running
<1>2. failures' \in 0..MaxFailures
  BY <1>1, AttemptAssumption DEF ChainsInv, Types
<1>3. Around
  BY <1>2, UnlockedType, AroundNothing DEF Raise
<1> QED BY <1>1, <1>3, FailKeepsChains DEF Raise

LEMMA UnavailableKeepsChains ==
  ASSUME ChainsInv, NEW c \in Call, Unavailable(c)
  PROVE  ChainsInv'
<1>1. failures' \in 0..MaxFailures
  BY AttemptAssumption DEF ChainsInv, Types, Unavailable
<1>2. Around
  BY <1>1, LockType, AroundNothing DEF Unavailable
<1> QED BY <1>2, GoRecoverKeepsChains DEF Unavailable

LEMMA StillAround ==
  ASSUME ChainsInv, UNCHANGED <<history, loglets, cached, lock, made, failures>>
  PROVE  Around
BY LockType, AroundNothing

LEMMA AppendAnsweredKeepsChains ==
  ASSUME ChainsInv, NEW c \in Call, AppendAnswered(c)
  PROVE  ChainsInv'
<1>1. call[c].pc # "idle" /\ call[c].pc \in OnSegment
  BY DEF AppendAnswered, OnSegment
<1>2. Around
  BY StillAround DEF AppendAnswered
<1>3. /\ Target(c) \in Installed /\ Target(c).id \in Segment /\ Target(c).start \in Nat
      /\ log[Target(c).id] \in Seq(Command) /\ Len(log[Target(c).id]) \in Nat
  BY <1>1, CallFacts, OnSegmentFacts, InstalledType DEF Target
<1>4. PICK i \in DOMAIN log[Target(c).id] :
        /\ log[Target(c).id][i] = call[c].request.command
        /\ Finish(c, {[kind |-> "append", client |-> ClientOf(c), command |-> call[c].request.command,
                       position |-> Target(c).start + i - 1]})
  BY DEF AppendAnswered
<1> DEFINE a == [kind |-> "append", client |-> ClientOf(c), command |-> call[c].request.command,
                 position |-> Target(c).start + i - 1]
<1>5. a.position = Target(c).start + i - 1 /\ a.command = call[c].request.command
  OBVIOUS
<1> HIDE DEF a
<1>6. Finish(c, {a})
  BY <1>4 DEF a
<1>7. i \in 1..Len(log[Target(c).id])
  BY <1>3
<1>8. a.position \in Target(c).start..(End(Target(c)) - 1) /\ a.position - Target(c).start + 1 = i
  BY <1>3, <1>5, <1>7 DEF End
<1>9. Holds(Target(c), a)
  BY <1>4, <1>5, <1>8 DEF Holds
<1>10. AcksTrue
  BY <1>3, <1>6, <1>9 DEF AcksTrue, Finish
<1> QED BY <1>1, <1>2, <1>6, <1>10, FinishKeepsChains

LEMMA AppendRefusedKeepsChains ==
  ASSUME ChainsInv, NEW c \in Call, AppendRefused(c)
  PROVE  ChainsInv'
<1>1. Around
  BY StillAround DEF AppendRefused
<1> QED BY <1>1, GoRecoverKeepsChains DEF AppendRefused

LEMMA TailAnsweredKeepsChains ==
  ASSUME ChainsInv, NEW c \in Call, TailAnswered(c)
  PROVE  ChainsInv'
<1>1. call[c].pc = "tail" /\ call[c].pc # "idle" /\ call[c].pc \in OnSegment
  BY DEF TailAnswered, OnSegment
<1>2. Around /\ cached' = cached
  BY StillAround DEF TailAnswered
<1>3. ASSUME NEW tail, NEW isSealed, TailReturned(c, tail, isSealed)
      PROVE  ChainsInv'
  <2>1. CASE call[c].request.op = "check_tail"
    <3> DEFINE told == {[kind |-> "tail", client |-> ClientOf(c), position |-> tail, sealed |-> isSealed,
                         floor |-> call[c].floor]}
    <3>1. Finish(c, told) /\ \A a \in told : a.kind # "append"
      BY <1>3, <2>1 DEF TailReturned
    <3> HIDE DEF told
    <3>2. AcksTrue
      BY <3>1 DEF AcksTrue, Finish
    <3> QED BY <1>1, <1>2, <3>1, <3>2, FinishKeepsChains
  <2>2. CASE call[c].request.op # "check_tail" /\ call[c].request.position > tail
    BY <1>1, <1>2, <1>3, <2>2, FailKeepsChains DEF TailReturned
  <2>3. CASE call[c].request.op # "check_tail" /\ ~ (call[c].request.position > tail)
    <3> DEFINE x == [call[c] EXCEPT !.pc = "trim", !.snapshot = Cached(c), !.index = 0, !.attempt = 1]
    <3>1. call' = [call EXCEPT ![c] = x] /\ msgs' = msgs /\ answers' = answers
      BY <1>3, <2>3 DEF TailReturned, Await
    <3>2. "trim" \in Phases /\ 0 \in Nat /\ 1 \in Nat
      BY DEF Phases
    <3>3. Advances(CallRecord, x, call[c], "trim", Cached(c), call[c].why)
      BY <1>1, <3>2, CallFacts, Advancing
    <3> HIDE DEF x
    <3>4. call[c].request.op = "trim"
      BY <1>1, <2>3 DEF ChainsInv, CallsInv, Prepared
    <3>5. x \in CallRecord /\ cached'[x.client].version > 0
      BY <1>1, <1>2, <3>3, CallFacts DEF Advances, Cached, ClientOf
    <3>6. Prepared(x)
      BY <1>1, <3>3, <3>4, CallFacts DEF Advances, Prepared, Recovering, OnActive
    <3> QED BY <1>2, <3>1, <3>5, <3>6, SilentTrue, QuietKeepsChains
  <2> QED BY <2>1, <2>2, <2>3
<1> QED BY <1>1, <1>2, <1>3, GoRecoverKeepsChains DEF TailAnswered

LEMMA TakeLockKeepsChains ==
  ASSUME ChainsInv, NEW c \in Call, TakeLock(c)
  PROVE  ChainsInv'
<1>1. call[c].pc = "lock" /\ call[c].pc # "idle" /\ call[c].pc \in OnSegment
  BY DEF TakeLock, OnSegment, Recovering
<1>2. call[c].request.op \in OnActive
  BY <1>1 DEF ChainsInv, CallsInv, Prepared, Recovering
<1>3. lock' \in [Client -> Call \cup {NoCall}]
  BY DEF TakeLock, ChainsInv, Types
<1>4. Around /\ cached' = cached
  BY <1>3, LockType, AroundNothing DEF TakeLock
<1>5. CASE StillActive(c, Cached(c))
  <2> DEFINE x == [call[c] EXCEPT !.pc = "refresh", !.asked = Len(history)]
  <2>1. call' = [call EXCEPT ![c] = x] /\ msgs' = msgs /\ answers' = answers
    BY <1>5 DEF TakeLock, Await
  <2>2. "refresh" \in Phases /\ Len(history) \in Nat
    BY DEF Phases, ChainsInv, Types
  <2>3. Advances(CallRecord, x, call[c], "refresh", call[c].snapshot, call[c].why)
    BY <1>1, <2>2, CallFacts, Advancing
  <2> HIDE DEF x
  <2>4. x \in CallRecord /\ x.pc \notin OnSegment
    BY <2>3 DEF Advances, OnSegment, Recovering
  <2>5. Prepared(x)
    BY <1>1, <1>2, <2>3, CallFacts DEF Advances, Prepared, OnSegment, Recovering
  <2> QED BY <1>4, <2>1, <2>4, <2>5, SilentTrue, QuietKeepsChains
<1>6. CASE ~ StillActive(c, Cached(c))
  <2>1. Retry(c, Cached(c))
    BY <1>6 DEF TakeLock
  <2>2. cached'[call[c].client].version > 0
    BY <1>1, <1>4, CallFacts DEF Cached, ClientOf
  <2> QED BY <1>1, <1>2, <1>4, <2>1, <2>2, CallFacts, RetryKeepsChains
<1> QED BY <1>5, <1>6

LEMMA RefreshedEmptyKeepsChains ==
  ASSUME ChainsInv, NEW c \in Call, RefreshedEmpty(c)
  PROVE  ChainsInv'
<1>1. Around
  BY UnlockedType, LockType, AroundNothing DEF RefreshedEmpty
<1> QED BY <1>1, FailKeepsChains DEF RefreshedEmpty

-----------------------------------------------------------------------------
(* Reconfigurations, trims, reads and the answers to installations.        *)

\* A version that a refresh is told.
LEMMA ToldFacts ==
  ASSUME ChainsInv, NEW c \in Call, NEW v \in Told(c) \ {0}
  PROVE  /\ v \in 1..Len(history) /\ Version(v) \in ClientSnapshot /\ Known(Version(v))
         /\ Version(v).version > 0 /\ Active(history[v]).config \in Config
<1>1. Types /\ Len(history) \in Nat /\ call[c].asked \in Nat
  BY DEF ChainsInv, Types, CallRecord
<1>2. v \in 1..Len(history)
  BY <1>1 DEF Told
<1>3. v \in 0..Len(history) /\ v > 0
  BY <1>1, <1>2
<1>4. Active(history[v]) \in Installed
  BY <1>1, <1>3, VersionType
<1>5. Active(history[v]) \in SegmentRecord
  BY <1>1, <1>4, InstalledType
<1> QED BY <1>1, <1>2, <1>3, <1>5, VersionType DEF SegmentRecord

LEMMA RefreshedKeepsChains ==
  ASSUME ChainsInv, NEW c \in Call, Refreshed(c)
  PROVE  ChainsInv'
<1>1. call[c].pc = "refresh" /\ call[c].pc # "idle"
  BY DEF Refreshed
<1>2. UNCHANGED <<history, loglets, made, failures>>
  BY DEF Refreshed
<1> DEFINE k == call[c].client
           config(v) == Active(history[v]).config
<1>3. PICK v \in Told(c) \ {0} :
        /\ cached' = [cached EXCEPT ![k] = Version(v)]
        /\ IF call[c].request.op = "join"
             THEN /\ IF call[c].request.node \in config(v).members
                       THEN Finish(c, {[kind |-> "join", node |-> call[c].request.node, version |-> v]})
                       ELSE Extend(c, call[c], Version(v), Joined(config(v), call[c].request.node))
                  /\ UNCHANGED lock
             ELSE IF ~StillActive(c, Version(v))
             THEN Retry(c, Version(v)) /\ Unlocked(c)
             ELSE /\ Await(c, [call[c] EXCEPT !.pc = IF call[c].why = "sealed" THEN "grace" ELSE "successor",
                                              !.config = config(v)], {})
                  /\ UNCHANGED <<answers, lock>>
  BY DEF Refreshed, ClientOf
<1>4. /\ v \in 1..Len(history) /\ Version(v) \in ClientSnapshot /\ Known(Version(v))
      /\ Version(v).version > 0 /\ config(v) \in Config
  BY ToldFacts
<1>5. lock' \in [Client -> Call \cup {NoCall}]
  BY <1>3, UnlockedType, LockType
<1>6. Around /\ cached'[k].version > 0
  BY <1>1, <1>2, <1>3, <1>4, <1>5, CallFacts, AroundCaching
<1>7. CASE call[c].request.op = "join" /\ call[c].request.node \in config(v).members
  <2> DEFINE told == {[kind |-> "join", node |-> call[c].request.node, version |-> v]}
  <2>1. Finish(c, told) /\ \A a \in told : a.kind # "append"
    BY <1>3, <1>7
  <2> HIDE DEF told
  <2>2. AcksTrue
    BY <2>1 DEF AcksTrue, Finish
  <2> QED BY <1>1, <1>6, <2>1, <2>2, FinishKeepsChains
<1>8. CASE call[c].request.op = "join" /\ call[c].request.node \notin config(v).members
  <2>1. call[c].request.node \in Node
    BY <1>1, <1>8, CallFacts DEF Request
  <2>2. Joined(config(v), call[c].request.node) \in Config
    BY <1>4, <2>1 DEF Joined, Config
  <2>3. Extend(c, call[c], Version(v), Joined(config(v), call[c].request.node))
    BY <1>3, <1>8
  <2> QED BY <1>1, <1>4, <1>6, <2>2, <2>3, CallFacts, ExtendKeepsChains
<1>9. CASE call[c].request.op # "join"
  <2>1. call[c].request.op \in OnActive /\ call[c].snapshot.version > 0
    BY <1>1, <1>9 DEF ChainsInv, CallsInv, Prepared
  <2>2. CASE ~StillActive(c, Version(v))
    <3>1. Retry(c, Version(v))
      BY <1>3, <1>9, <2>2
    <3> QED BY <1>1, <1>4, <1>6, <2>1, <3>1, RetryKeepsChains
  <2>3. CASE StillActive(c, Version(v))
    <3> DEFINE p == IF call[c].why = "sealed" THEN "grace" ELSE "successor"
               x == [call[c] EXCEPT !.pc = p, !.config = config(v)]
    <3>1. call' = [call EXCEPT ![c] = x] /\ msgs' = msgs /\ answers' = answers
      BY <1>3, <1>9, <2>3 DEF Await
    <3>2. p \in Phases /\ p \in Recovering
      BY DEF Phases, Recovering
    <3> HIDE DEF p
    <3>3. Advances(CallRecord, x, call[c], p, call[c].snapshot, call[c].why)
      BY <1>1, <1>4, <3>2, CallFacts, Advancing
    <3> HIDE DEF x, k
    <3>4. x \in CallRecord /\ x.client = call[c].client
      BY <3>3 DEF Advances
    <3>5. Prepared(x)
      BY <1>1, <2>1, <3>2, <3>3, CallFacts DEF Advances, Prepared, Recovering
    <3>6. cached'[x.client].version > 0
      BY <1>6, <3>4 DEF k
    <3> QED BY <1>6, <3>1, <3>4, <3>5, <3>6, SilentTrue, QuietKeepsChains
  <2> QED BY <2>2, <2>3
<1> QED BY <1>7, <1>8, <1>9

LEMMA GraceOverKeepsChains ==
  ASSUME ChainsInv, NEW c \in Call, GraceOver(c)
  PROVE  ChainsInv'
<1>1. call[c].pc = "grace" /\ call[c].pc # "idle"
  BY DEF GraceOver
<1>2. UNCHANGED <<history, loglets, made, failures>>
  BY DEF GraceOver
<1>3. PICK v \in Told(c) \ {0} :
        /\ cached' = [cached EXCEPT ![call[c].client] = Version(v)]
        /\ IF StillActive(c, Version(v))
             THEN Extend(c, call[c], Version(v), Active(history[v]).config) /\ UNCHANGED lock
             ELSE Retry(c, Version(v)) /\ Unlocked(c)
  BY DEF GraceOver, ClientOf
<1>4. /\ v \in 1..Len(history) /\ Version(v) \in ClientSnapshot /\ Known(Version(v))
      /\ Version(v).version > 0 /\ Active(history[v]).config \in Config
  BY ToldFacts
<1>5. lock' \in [Client -> Call \cup {NoCall}]
  BY <1>3, UnlockedType, LockType
<1>6. Around /\ cached'[call[c].client].version > 0
  BY <1>1, <1>2, <1>3, <1>4, <1>5, CallFacts, AroundCaching
<1>7. call[c].request.op \in OnActive
  BY <1>1 DEF ChainsInv, CallsInv, Prepared, Recovering
<1>8. CASE StillActive(c, Version(v))
  BY <1>1, <1>3, <1>4, <1>6, <1>8, CallFacts, ExtendKeepsChains
<1>9. CASE ~ StillActive(c, Version(v))
  BY <1>1, <1>3, <1>4, <1>6, <1>7, <1>9, RetryKeepsChains
<1> QED BY <1>8, <1>9

LEMMA SuccessorFoundKeepsChains ==
  ASSUME ChainsInv, NEW c \in Call, SuccessorFound(c)
  PROVE  ChainsInv'
<1>1. call[c].pc # "idle" /\ call[c].pc \in OnSegment
  BY DEF SuccessorFound, OnSegment, Recovering
<1>2. Around /\ cached' = cached
  BY StillAround DEF SuccessorFound
<1>3. PICK config \in Successors(call[c].config) : Extend(c, call[c], Cached(c), config)
  BY DEF SuccessorFound
<1>4. config \in Config
  <2>1. call[c].config \in Config
    BY <1>1, CallFacts
  <2>2. PICK n \in call[c].config.members : config = [call[c].config EXCEPT !.sequencer = n]
    BY DEF Successors
  <2>3. n \in Node
    BY <2>1 DEF Config
  <2> QED BY <2>1, <2>2, <2>3 DEF Config
<1>5. cached'[call[c].client].version > 0
  BY <1>1, <1>2, CallFacts DEF Cached, ClientOf
<1> QED BY <1>1, <1>2, <1>3, <1>4, <1>5, CallFacts, ExtendKeepsChains

LEMMA SealAnsweredKeepsChains ==
  ASSUME ChainsInv, NEW c \in Call, SealAnswered(c)
  PROVE  ChainsInv'
<1>1. call[c].pc = "seal" /\ call[c].pc # "idle" /\ call[c].pc \in OnSegment
  BY DEF SealAnswered, OnSegment
<1>2. Around /\ cached' = cached
  BY StillAround DEF SealAnswered
<1>3. CASE call[c].request.op = "seal"
  <2>1. Finish(c, {}) /\ answers' = answers
    BY <1>3 DEF SealAnswered, Finish
  <2> QED BY <1>1, <1>2, <2>1, SilentTrue, FinishKeepsChains
<1>4. CASE call[c].request.op # "seal"
  <2> DEFINE x == [call[c] EXCEPT !.pc = "sealed_tail"]
  <2>1. call' = [call EXCEPT ![c] = x] /\ msgs' = msgs /\ answers' = answers
    BY <1>4 DEF SealAnswered, Await
  <2>2. "sealed_tail" \in Phases
    BY DEF Phases
  <2>3. Advances(CallRecord, x, call[c], "sealed_tail", call[c].snapshot, call[c].why)
    BY <1>1, <2>2, CallFacts, Advancing
  <2> HIDE DEF x
  <2>4. x \in CallRecord /\ cached'[x.client].version > 0
    BY <1>1, <1>2, <2>3, CallFacts DEF Advances, Cached, ClientOf
  <2>5. Active(call[c].snapshot.chain).id \in sealed
    BY DEF SealAnswered, Target
  <2>6. Prepared(x)
    BY <1>1, <2>3, <2>5, CallFacts DEF Advances, Prepared, Recovering
  <2> QED BY <1>2, <2>1, <2>4, <2>6, SilentTrue, QuietKeepsChains
<1> QED BY <1>3, <1>4

LEMMA SealedTailAnsweredKeepsChains ==
  ASSUME ChainsInv, NEW c \in Call, SealedTailAnswered(c)
  PROVE  ChainsInv'
<1>1. call[c].pc = "sealed_tail" /\ call[c].pc # "idle" /\ call[c].pc \in OnSegment
  BY DEF SealedTailAnswered, OnSegment
<1> DEFINE z == call[c].snapshot
           chain == Extended(z.chain, End(Active(z.chain)), made + 1, call[c].config)
<1>2. Propose(c, call[c], z, chain) /\ made < MaxSegment /\ made' = made + 1
  BY DEF SealedTailAnswered, Target, End
<1>3. /\ made \in Nat /\ MaxSegment \in Nat /\ made + 1 \in Segment /\ made + 1 \in made..MaxSegment
  BY <1>2, SegmentAssumption DEF ChainsInv, Types, Segment
<1>4. Around
  BY <1>2, <1>3, LockType DEF SealedTailAnswered, Around, ChainsInv, CallsInv, Types
<1>5. /\ z \in ClientSnapshot /\ Known(z) /\ z.version > 0
      /\ z.version \in 1..Len(history) /\ z.chain = history[z.version]
  BY <1>1, CallFacts, OnSegmentFacts
<1>6. Active(history[z.version]).id \in sealed
  BY <1>1, <1>5 DEF ChainsInv, CallsInv, Prepared
<1>7. /\ chain \in Seq(SegmentRecord) /\ Derived(chain, z.version)
      /\ \A j \in DOMAIN chain : chain[j].id <= made'
  <2>1. call[c].config \in Config
    BY <1>1, CallFacts
  <2> QED BY <1>2, <1>3, <1>5, <1>6, <2>1, ExtendedDerived
<1> HIDE DEF chain
<1>8. z.version # 0
  BY <1>5
<1> QED BY <1>1, <1>2, <1>4, <1>5, <1>7, <1>8, CallFacts, ProposeKeepsChains

\* What is trimmed of a closed segment is a number of its positions.
LEMMA ClosedSize ==
  ASSUME ChainsInv, NEW z \in ClientSnapshot, Known(z), z.version > 0, NEW i \in 1..Len(z.chain)
  PROVE  /\ z.chain[i].id \in Segment /\ z.chain[i].start \in Nat /\ z.chain[i] \in Installed
         /\ z.chain[i].stop # Open => z.chain[i].stop - z.chain[i].start \in Nat
         /\ i < Len(z.chain) => z.chain[i].stop # Open
<1>1. z.version \in 1..Len(history) /\ z.chain = history[z.version]
  BY OnSegmentFacts DEF ChainsInv
<1>2. LET s == history[z.version][i]
      IN  /\ s \in Installed /\ s \in SegmentRecord /\ s.id \in Segment /\ s.id <= made
          /\ s.start \in Nat /\ End(s) \in Nat /\ s.start <= End(s)
          /\ s.stop # Open => Closed(s) /\ s.stop \in Nat
          /\ i < Len(history[z.version]) => s.stop # Open
  BY <1>1, SegmentFacts
<1> QED BY <1>1, <1>2 DEF Closed

LEMMA TruncateKeepsChains ==
  ASSUME ChainsInv, Around, NEW c \in Call, call[c].pc # "idle", NEW state \in CallRecord,
         state.client = call[c].client, state.request = call[c].request, state.request.op = "trim",
         NEW z \in ClientSnapshot, Known(z), z.version > 0, cached'[state.client].version > 0,
         Truncate(c, state, z)
  PROVE  ChainsInv'
<1> DEFINE size == First(z.chain).stop - First(z.chain).start
           dropping == /\ state.attempt <= MaxAttempts
                       /\ Len(z.chain) > 1 /\ First(z.chain).stop <= state.request.position
<1>1. CASE dropping
  <2> DEFINE x == [state EXCEPT !.pc = "drop", !.snapshot = z]
             m == TrimOf(First(z.chain).id, size)
             requests == {m}
  <2>1. call' = [call EXCEPT ![c] = x] /\ msgs' = msgs \cup requests /\ answers' = answers
    BY <1>1 DEF Truncate, Await
  <2>2. "drop" \in Phases
    BY DEF Phases
  <2>3. Advances(CallRecord, x, state, "drop", z, state.why)
    BY <2>2, Advancing
  <2>4. 1 \in 1..Len(z.chain) /\ 1 < Len(z.chain)
    BY <1>1 DEF ClientSnapshot
  <2>5. First(z.chain).id \in Segment /\ size \in Nat
    BY <2>4, ClosedSize DEF First
  <2>6. m \in Message /\ m.type = "trim"
    BY <2>5, MessageTypes
  <2> HIDE DEF x, m
  <2>7. requests \subseteq Message /\ \A r \in requests : r.type # "install"
    BY <2>6
  <2> HIDE DEF requests
  <2>8. x \in CallRecord /\ cached'[x.client].version > 0
    BY <2>3 DEF Advances
  <2>9. Prepared(x)
    BY <2>3, CallFacts DEF Advances, Prepared, OnActive
  <2> QED BY <2>1, <2>7, <2>8, <2>9, SilentTrue, StepKeepsChains
<1>2. CASE ~ dropping
  <2> DEFINE told == {[kind |-> "trim", position |-> Larger(state.request.position, First(z.chain).start)]}
  <2>1. Finish(c, told) /\ \A a \in told : a.kind # "append"
    BY <1>2 DEF Truncate
  <2> HIDE DEF told
  <2>2. AcksTrue
    BY <2>1 DEF AcksTrue, Finish
  <2> QED BY <2>1, <2>2, FinishKeepsChains
<1> QED BY <1>1, <1>2

LEMMA TrimNextKeepsChains ==
  ASSUME ChainsInv, NEW c \in Call, TrimNext(c)
  PROVE  ChainsInv'
<1>1. call[c].pc = "trim" /\ call[c].pc # "idle" /\ call[c].pc \in OnSegment
  BY DEF TrimNext, OnSegment
<1>2. Around /\ cached' = cached
  BY StillAround DEF TrimNext
<1>3. call[c].request.op = "trim" /\ call[c].request.position \in Nat
  <2>1. call[c].request.op = "trim"
    BY <1>1 DEF ChainsInv, CallsInv, Prepared
  <2> QED BY <1>1, <2>1, CallFacts DEF Request, Position
<1>4. cached'[call[c].client].version > 0 /\ Cached(c).version > 0
  BY <1>1, <1>2, CallFacts DEF Cached, ClientOf
<1> DEFINE z == call[c].snapshot
           chain == z.chain
           i == call[c].index
           next == chain[i + 1]
           stop == IF next.stop = Open \/ call[c].request.position < next.stop
                     THEN call[c].request.position ELSE next.stop
           more == i < Len(chain) /\ next.start < call[c].request.position
<1>5. CASE more
  <2> DEFINE x == [call[c] EXCEPT !.index = i + 1]
             m == TrimOf(next.id, stop - next.start)
             requests == {m}
  <2>1. call' = [call EXCEPT ![c] = x] /\ msgs' = msgs \cup requests /\ answers' = answers
    BY <1>5 DEF TrimNext, TrimTarget, Await
  <2>2. i \in Nat /\ i + 1 \in Nat /\ i + 1 \in 1..Len(chain)
    BY <1>1, <1>5, CallFacts DEF ClientSnapshot
  <2>3. Advances(CallRecord, x, call[c], call[c].pc, z, call[c].why)
    BY <1>1, <2>2, CallFacts, Advancing
  <2>4. z \in ClientSnapshot /\ Known(z) /\ z.version > 0
    BY <1>1, CallFacts
  <2>5. next.id \in Segment /\ next.start \in Nat /\ (next.stop # Open => next.stop - next.start \in Nat)
    BY <2>2, <2>4, ClosedSize
  <2>6. stop - next.start \in Nat
    <3>1. stop = call[c].request.position \/ (next.stop # Open /\ stop = next.stop)
      OBVIOUS
    <3>2. next.start < call[c].request.position
      BY <1>5
    <3> HIDE DEF stop, next
    <3> QED BY <1>3, <2>5, <3>1, <3>2
  <2>7. m \in Message /\ m.type = "trim"
    BY <2>5, <2>6, MessageTypes
  <2> HIDE DEF x, m
  <2>8. requests \subseteq Message /\ \A r \in requests : r.type # "install"
    BY <2>7
  <2> HIDE DEF requests
  <2>9. x \in CallRecord /\ cached'[x.client].version > 0
    BY <1>4, <2>3 DEF Advances
  <2>10. Prepared(x)
    BY <1>1, <1>3, <2>3, <2>4, CallFacts DEF Advances, Prepared, OnActive
  <2> QED BY <1>2, <2>1, <2>8, <2>9, <2>10, SilentTrue, StepKeepsChains
<1>6. CASE ~ more
  <2>1. Truncate(c, call[c], Cached(c))
    BY <1>6 DEF TrimNext
  <2> QED BY <1>1, <1>2, <1>3, <1>4, <2>1, CallFacts, TruncateKeepsChains
<1> QED BY <1>5, <1>6

LEMMA DropKeepsChains ==
  ASSUME ChainsInv, NEW c \in Call, Drop(c)
  PROVE  ChainsInv'
<1>1. call[c].pc = "drop" /\ call[c].pc # "idle" /\ call[c].pc \in OnSegment
  BY DEF Drop, OnSegment
<1>2. Around /\ made' = made
  BY StillAround DEF Drop
<1> DEFINE z == call[c].snapshot
           chain == Tail(z.chain)
<1>3. Propose(c, call[c], z, chain) /\ ValidChain(chain)
  BY DEF Drop, Propose
<1>4. /\ z \in ClientSnapshot /\ Known(z) /\ z.version > 0
      /\ z.version \in 1..Len(history) /\ z.chain = history[z.version] /\ z.version # 0
  BY <1>1, CallFacts, OnSegmentFacts
<1>5. /\ chain \in Seq(SegmentRecord) /\ Derived(chain, z.version)
      /\ \A j \in DOMAIN chain : chain[j].id <= made'
  BY <1>2, <1>3, <1>4, TailDerived
<1> HIDE DEF chain
<1> QED BY <1>1, <1>2, <1>3, <1>4, <1>5, CallFacts, ProposeKeepsChains

LEMMA ReadNextKeepsChains ==
  ASSUME ChainsInv, NEW c \in Call, ReadNext(c)
  PROVE  ChainsInv'
<1>1. call[c].pc = "read" /\ call[c].pc # "idle" /\ call[c].pc \notin OnSegment
  BY DEF ReadNext, OnSegment, Recovering
<1>2. Around
  BY StillAround DEF ReadNext
<1>3. ASSUME NEW told, \A a \in told : a.kind # "append", Finish(c, told)
      PROVE  ChainsInv'
  <2>1. AcksTrue
    BY <1>3 DEF AcksTrue, Finish
  <2> QED BY <1>1, <1>2, <1>3, <2>1, FinishKeepsChains
<1>4. ASSUME Await(c, [call[c] EXCEPT !.index = @ + 1], {}), answers' = answers
      PROVE  ChainsInv'
  <2> DEFINE x == [call[c] EXCEPT !.index = @ + 1]
  <2>1. call' = [call EXCEPT ![c] = x] /\ msgs' = msgs
    BY <1>4 DEF Await
  <2>2. call[c].index + 1 \in Nat
    BY <1>1, CallFacts
  <2>3. Advances(CallRecord, x, call[c], call[c].pc, call[c].snapshot, call[c].why)
    BY <1>1, <2>2, CallFacts, Advancing
  <2> HIDE DEF x
  <2>4. x \in CallRecord /\ Prepared(x) /\ x.pc \notin OnSegment
    BY <1>1, <2>3, CallFacts DEF Advances, Prepared
  <2> QED BY <1>2, <1>4, <2>1, <2>4, SilentTrue, QuietKeepsChains
<1> DEFINE chain == call[c].snapshot.chain
           segment == chain[call[c].index]
           found == {p \in LocalRange(c, segment) : Readable(segment.id, p) # {}}
           first == CHOOSE q \in found : \A r \in found : q <= r
<1>5. CASE call[c].index > Len(chain)
  BY <1>3, <1>5 DEF ReadNext
<1>6. CASE ~ (call[c].index > Len(chain)) /\ found = {}
  BY <1>4, <1>6 DEF ReadNext
<1>7. CASE ~ (call[c].index > Len(chain)) /\ found # {}
  <2>1. PICK k \in Readable(segment.id, first) :
          Finish(c, {[kind |-> "read", from |-> call[c].request.from,
                      position |-> segment.start + first, command |-> k]})
    BY <1>7 DEF ReadNext
  <2> HIDE DEF segment, found, first
  <2> DEFINE told == {[kind |-> "read", from |-> call[c].request.from,
                       position |-> segment.start + first, command |-> k]}
  <2>2. Finish(c, told) /\ \A a \in told : a.kind # "append"
    BY <2>1
  <2> HIDE DEF told
  <2> QED BY <1>3, <2>2
<1> QED BY <1>5, <1>6, <1>7

LEMMA InstallAnsweredKeepsChains ==
  ASSUME ChainsInv, NEW c \in Call, InstallAnswered(c)
  PROVE  ChainsInv'
<1>1. call[c].pc = "install" /\ call[c].pc # "idle"
  BY DEF InstallAnswered
<1>2. UNCHANGED <<history, loglets, made, failures>>
  BY DEF InstallAnswered
<1>3. PICK v \in (call[c].snapshot.version + 1)..Len(history) :
        /\ cached' = [cached EXCEPT ![call[c].client] = Version(v)]
        /\ \E won \in {FALSE} \cup {v = call[c].snapshot.version + 1 /\ history[v] = call[c].candidate} :
             Proceed(c, Version(v), won)
  BY DEF InstallAnswered, ClientOf
<1>4. PICK won : Proceed(c, Version(v), won)
  BY <1>3
<1> DEFINE z == Version(v)
<1>5. v \in 1..Len(history) /\ v \in 0..Len(history) /\ v > 0
  BY <1>1, CallFacts DEF ClientSnapshot, Types
<1>6. z \in ClientSnapshot /\ Known(z) /\ z.version > 0
  BY <1>5, VersionType DEF ChainsInv
<1>7. lock' \in [Client -> Call \cup {NoCall}]
  BY UnlockedType DEF InstallAnswered
<1>8. Around /\ cached'[call[c].client].version > 0
  BY <1>1, <1>2, <1>3, <1>5, <1>7, CallFacts, AroundCaching
<1> HIDE DEF z
<1>9. Proceed(c, z, won)
  BY <1>4 DEF z
<1>10. CASE call[c].why # "none"
  <2>1. Retry(c, z)
    BY <1>9, <1>10 DEF Proceed
  <2> QED BY <1>1, <1>6, <1>8, <1>10, <2>1, CallFacts, RetryKeepsChains
<1>11. CASE call[c].why = "none" /\ call[c].request.op = "trim"
  <2> DEFINE state == [call[c] EXCEPT !.attempt = @ + 1]
  <2>1. Truncate(c, state, z)
    BY <1>9, <1>11 DEF Proceed
  <2>2. call[c].attempt + 1 \in Nat
    BY <1>1, CallFacts
  <2>3. Advances(CallRecord, state, call[c], call[c].pc, call[c].snapshot, call[c].why)
    BY <1>1, <2>2, CallFacts, Advancing
  <2> HIDE DEF state
  <2>4. state \in CallRecord /\ state.client = call[c].client /\ state.request = call[c].request
    BY <2>3 DEF Advances
  <2> QED BY <1>1, <1>6, <1>8, <1>11, <2>1, <2>4, TruncateKeepsChains
<1>12. CASE call[c].why = "none" /\ call[c].request.op = "join"
  <2>1. CASE won
    <3> DEFINE told == {[kind |-> "join", node |-> call[c].request.node, version |-> z.version]}
    <3>1. Finish(c, told) /\ \A a \in told : a.kind # "append"
      BY <1>9, <1>12, <2>1 DEF Proceed
    <3> HIDE DEF told
    <3>2. AcksTrue
      BY <3>1 DEF AcksTrue, Finish
    <3> QED BY <1>1, <1>8, <3>1, <3>2, FinishKeepsChains
  <2>2. CASE ~ won /\ call[c].attempt = MaxAttempts
    BY <1>1, <1>8, <1>9, <1>12, <2>2, FailKeepsChains DEF Proceed
  <2>3. CASE ~ won /\ call[c].attempt # MaxAttempts
    <3> DEFINE x == [call[c] EXCEPT !.pc = "refresh", !.attempt = @ + 1, !.asked = Len(history)]
    <3>1. call' = [call EXCEPT ![c] = x] /\ msgs' = msgs /\ answers' = answers
      BY <1>9, <1>12, <2>3 DEF Proceed, Await
    <3>2. "refresh" \in Phases /\ call[c].attempt + 1 \in Nat /\ Len(history) \in Nat
      BY <1>1, CallFacts DEF Phases, Types
    <3>3. Advances(CallRecord, x, call[c], "refresh", call[c].snapshot, call[c].why)
      BY <1>1, <3>2, CallFacts, Advancing
    <3> HIDE DEF x
    <3>4. x \in CallRecord /\ x.pc \notin OnSegment
      BY <3>3 DEF Advances, OnSegment, Recovering
    <3>5. Prepared(x)
      BY <1>1, <1>12, <3>3, CallFacts DEF Advances, Prepared, OnSegment, Recovering
    <3> QED BY <1>8, <3>1, <3>4, <3>5, SilentTrue, QuietKeepsChains
  <2> QED BY <2>1, <2>2, <2>3
<1>13. CASE call[c].why = "none" /\ call[c].request.op \notin {"trim", "join"}
  <2>1. Finish(c, {}) /\ answers' = answers
    BY <1>9, <1>13 DEF Proceed, Finish
  <2> QED BY <1>1, <1>8, <2>1, SilentTrue, FinishKeepsChains
<1> QED BY <1>10, <1>11, <1>12, <1>13

-----------------------------------------------------------------------------
(* What takes effect at the Loglets.                                       *)

\* The effects on Loglets leave the chains as they are, and complete segments complete.
LEMMA LogletsKeepChains ==
  ASSUME ChainsInv, Types', UNCHANGED <<history, cached, lock, call, msgs, made, failures, answers>>,
         sealed \subseteq sealed', \A id \in sealed : log'[id] = log[id],
         \A id \in Segment : /\ Len(log[id]) <= Len(log'[id])
                             /\ \A i \in 1..Len(log[id]) : log'[id][i] = log[id][i]
  PROVE  ChainsInv'
<1>1. Types /\ sealed \subseteq Segment
  BY DEF ChainsInv, Types
<1>2. \A s, t : Before(s, t) => Before(s, t)'
  BY DEF Before, End
<1>3. \A s : Closed(s) => Closed(s)'
  BY DEF Closed, End
<1>4. Installed' = Installed
  BY DEF Installed
<1>5. SegmentsInv'
  <2>1. \A s, t : Apart(s, t) => Apart(s, t)'
    BY <1>2 DEF Apart
  <2>2. \A s \in Installed : s.id <= made /\ (s.stop # Open => Closed(s)')
    BY <1>3 DEF ChainsInv, SegmentsInv
  <2>3. \A s \in Installed : s.id = Active(Newest).id \/ Before(s, Active(Newest))'
    <3> SUFFICES ASSUME NEW s \in Installed, s.id # Active(Newest).id
                 PROVE  Before(s, Active(Newest))'
      OBVIOUS
    <3>1. PICK t : t = Active(Newest)
      OBVIOUS
    <3>2. Before(s, t)'
      BY <1>2, <3>1 DEF ChainsInv, SegmentsInv
    <3>3. Active(Newest)' = t
      BY <3>1 DEF Newest, Active
    <3> QED BY <3>2, <3>3 DEF Before, End
  <2>4. \A s, t \in Installed : Apart(s, t)'
    BY <2>1 DEF ChainsInv, SegmentsInv
  <2> QED BY <1>4, <2>2, <2>3, <2>4 DEF SegmentsInv, Newest
<1>6. ProposalsInv'
  <2> SUFFICES ASSUME NEW m \in msgs, m.type = "install"
               PROVE  Proposal(m)' /\ \A i \in DOMAIN m.chain : m.chain[i].id <= made
    BY DEF ProposalsInv
  <2>1. Proposal(m) /\ \A i \in DOMAIN m.chain : m.chain[i].id <= made
    BY DEF ChainsInv, ProposalsInv
  <2>2. \A s, v : Kept(s, v) => Kept(s, v)'
    BY <1>3 DEF Kept
  <2>3. \A s, v : Added(s, v) => Added(s, v)'
    BY <1>2 DEF Added
  <2>4. \A chain, v : Derived(chain, v) => Derived(chain, v)'
    BY <2>2, <2>3 DEF Derived
  <2> QED BY <2>1, <2>4 DEF Proposal
<1>7. CallsInv'
  BY DEF ChainsInv, CallsInv, Prepared, Known, Version, Cached, ClientOf
<1>8. AcksInv'
  <2> SUFFICES ASSUME NEW a \in answers, a.kind = "append"
               PROVE  \E s \in Installed' : Holds(s, a)'
    BY DEF AcksInv
  <2>1. PICK s \in Installed : Holds(s, a)
    BY DEF ChainsInv, AcksInv
  <2>2. /\ s.id \in Segment /\ s.start \in Nat /\ End(s) \in Nat /\ Len(log[s.id]) \in Nat
    BY <1>1, InstalledType
  <2>3. /\ s.id \in Segment /\ Len(log'[s.id]) \in Nat
    BY <2>2 DEF Types
  <2>4. a.position - s.start + 1 \in 1..Len(log[s.id])
    BY <2>1, <2>2 DEF Holds, End
  <2>5. Holds(s, a)'
    <3> DEFINE i == a.position - s.start + 1
    <3>1. log'[s.id][i] = log[s.id][i] /\ Len(log[s.id]) <= Len(log'[s.id])
      BY <2>2, <2>4
    <3>2. log'[s.id][i] = a.command
      BY <2>1, <3>1 DEF Holds
    <3> HIDE DEF i
    <3>3. PICK p, b, l, n : p = a.position /\ b = s.start /\ l = Len(log[s.id]) /\ n = Len(log'[s.id])
      OBVIOUS
    <3>4. p \in b..((b + l) - 1) /\ b \in Nat /\ l \in Nat /\ n \in Nat /\ l <= n
      BY <2>1, <2>2, <2>3, <3>1, <3>3 DEF Holds, End
    <3>5. p \in b..((b + n) - 1)
      BY <3>4
    <3> QED BY <3>2, <3>3, <3>5 DEF Holds, End, i
  <2> QED BY <1>4, <2>5
<1> QED BY <1>5, <1>6, <1>7, <1>8 DEF ChainsInv

LEMMA LogletAppendsKeepsChains ==
  ASSUME ChainsInv, NEW m \in msgs, LogletAppends(m)
  PROVE  ChainsInv'
<1>1. Types /\ m \in Message /\ m.type = "append"
  BY DEF ChainsInv, Types, LogletAppends
<1>2. m.segment \in Segment /\ m.command \in Command /\ m.segment \notin sealed
  BY <1>1 DEF Message, LogletAppends
<1>3. log \in [Segment -> Seq(Command)]
  BY <1>1 DEF Types
<1>4. log' = [log EXCEPT ![m.segment] = Append(log[m.segment], m.command)]
  BY DEF LogletAppends
<1>5. log[m.segment] \in Seq(Command)
  BY <1>2, <1>3
<1>6. Append(log[m.segment], m.command) \in Seq(Command)
  BY <1>2, <1>5
<1>7. Types'
  BY <1>1, <1>3, <1>4, <1>6 DEF Types, LogletAppends
<1>8. \A id \in sealed : log'[id] = log[id]
  BY <1>1, <1>2, <1>3, <1>4 DEF Types
<1>9. ASSUME NEW id \in Segment
      PROVE  /\ Len(log[id]) <= Len(log'[id])
             /\ \A i \in 1..Len(log[id]) : log'[id][i] = log[id][i]
  <2>1. CASE id = m.segment
    <3>1. log'[id] = Append(log[id], m.command)
      BY <1>2, <1>3, <1>4, <2>1
    <3> QED BY <1>5, <2>1, <3>1
  <2>2. CASE id # m.segment
    <3>1. log'[id] = log[id] /\ log[id] \in Seq(Command)
      BY <1>3, <1>4, <2>2
    <3> QED BY <3>1
  <2> QED BY <2>1, <2>2
<1> QED BY <1>7, <1>8, <1>9, LogletsKeepChains DEF LogletAppends

LEMMA LogletSealsKeepsChains ==
  ASSUME ChainsInv, NEW m \in msgs, LogletSeals(m)
  PROVE  ChainsInv'
<1>1. Types /\ m \in Message /\ m.type = "seal"
  BY DEF ChainsInv, Types, LogletSeals
<1>2. m.segment \in Segment
  BY <1>1 DEF Message
<1>3. log' = log /\ sealed' = sealed \cup {m.segment}
  BY DEF LogletSeals
<1>4. Types'
  BY <1>1, <1>2, <1>3 DEF Types, LogletSeals
<1>5. \A id \in Segment : Len(log[id]) <= Len(log'[id])
  BY <1>1, <1>3 DEF Types
<1> QED BY <1>3, <1>4, <1>5, LogletsKeepChains DEF LogletSeals

LEMMA LogletTrimsKeepsChains ==
  ASSUME ChainsInv, NEW m \in msgs, LogletTrims(m)
  PROVE  ChainsInv'
<1>1. Types /\ m \in Message /\ m.type = "trim"
  BY DEF ChainsInv, Types, LogletTrims
<1>2. m.segment \in Segment /\ m.target \in Nat
  BY <1>1 DEF Message
<1>3. log' = log /\ sealed' = sealed /\ trimmed' = [trimmed EXCEPT ![m.segment] = m.target]
  BY DEF LogletTrims
<1>4. Types'
  BY <1>1, <1>2, <1>3 DEF Types, LogletTrims
<1>5. \A id \in Segment : Len(log[id]) <= Len(log'[id])
  BY <1>1, <1>3 DEF Types
<1> QED BY <1>3, <1>4, <1>5, LogletsKeepChains DEF LogletTrims

\* What an installation adds to the history.
LEMMA InstallFacts ==
  ASSUME ChainsInv, NEW m \in msgs, Install(m)
  PROVE  /\ m.chain \in Chain /\ m.expected = Len(history) /\ Proposal(m)
         /\ Len(history) \in Nat /\ Len(history') = Len(history) + 1
         /\ history' \in Seq(Chain) /\ history'[Len(history) + 1] = m.chain
         /\ \A v \in 1..Len(history) : history'[v] = history[v]
         /\ \A i \in DOMAIN m.chain : m.chain[i].id <= made
         /\ \A s : s \in Installed' <=> s \in Installed \/ \E i \in DOMAIN m.chain : s = m.chain[i]
<1>1. Types /\ m \in Message /\ m.type = "install" /\ m.expected = Len(history)
  BY DEF ChainsInv, Types, Install
<1>2. m.chain \in Chain
  BY <1>1 DEF Message
<1>3. history \in Seq(Chain) /\ history' = Append(history, m.chain)
  BY <1>1 DEF Types, Install
<1>4. /\ Len(history) \in Nat /\ Len(history') = Len(history) + 1 /\ history' \in Seq(Chain)
      /\ history'[Len(history) + 1] = m.chain /\ \A v \in 1..Len(history) : history'[v] = history[v]
  BY <1>2, <1>3
<1>5. DOMAIN history = 1..Len(history) /\ DOMAIN history' = 1..(Len(history) + 1)
  BY <1>3, <1>4
<1>6. ASSUME NEW s
      PROVE  s \in Installed' <=> s \in Installed \/ \E i \in DOMAIN m.chain : s = m.chain[i]
  <2>1. s \in Installed' <=> \E v \in DOMAIN history' : \E i \in DOMAIN history'[v] : s = history'[v][i]
    BY DEF Installed
  <2>2. s \in Installed <=> \E v \in DOMAIN history : \E i \in DOMAIN history[v] : s = history[v][i]
    BY DEF Installed
  <2>3. \A v \in 1..(Len(history) + 1) : v \in 1..Len(history) \/ v = Len(history) + 1
    BY <1>4
  <2>4. 1..Len(history) \subseteq 1..(Len(history) + 1) /\ Len(history) + 1 \in 1..(Len(history) + 1)
    BY <1>4
  <2> DEFINE n == Len(history) + 1
  <2>5. /\ \A v \in 1..n : v \in 1..Len(history) \/ v = n
        /\ 1..Len(history) \subseteq 1..n /\ n \in 1..n
        /\ history'[n] = m.chain /\ \A v \in 1..Len(history) : history'[v] = history[v]
        /\ DOMAIN history = 1..Len(history) /\ DOMAIN history' = 1..n
    BY <1>4, <1>5, <2>3, <2>4
  <2> HIDE DEF n
  <2> QED BY <2>1, <2>2, <2>5, Zenon
<1> QED BY <1>1, <1>2, <1>4, <1>6 DEF ChainsInv, ProposalsInv

-----------------------------------------------------------------------------
(* What an installation does to the segments.                              *)

\* Segment s is one that was installed before, perhaps closed now or with another configuration.
Twin(s) ==
  \E t \in Installed : s.id = t.id /\ s.start = t.start /\ (s.stop # Open => Closed(s))

\* Where a segment is among others is a matter of its identifier and its start.
LEMMA TwinPlaces ==
  ASSUME NEW s, NEW t, s.id = t.id, s.start = t.start, NEW r
  PROVE  /\ Before(s, r) <=> Before(t, r)
         /\ Before(r, s) <=> Before(r, t)
         /\ End(s) = End(t)
BY DEF Before, End

LEMMA InstalledTwins ==
  ASSUME ChainsInv, NEW m \in msgs, Install(m), Len(history) > 0, NEW s \in Installed'
  PROVE  Twin(s) \/ (s = Active(m.chain) /\ Added(s, Len(history)))
<1> DEFINE n == Len(history)
<1>1. /\ m.chain \in Chain /\ Proposal(m) /\ m.expected = n /\ n \in Nat /\ n > 0
      /\ s \in Installed \/ \E i \in DOMAIN m.chain : s = m.chain[i]
  BY InstallFacts
<1>2. n \in 1..n /\ history[n] \in Chain /\ n \in DOMAIN history
  BY <1>1 DEF ChainsInv, Types
<1>3. \A t \in Installed : t.stop # Open => Closed(t)
  BY DEF ChainsInv, SegmentsInv
<1>4. CASE s \in Installed
  BY <1>3, <1>4 DEF Twin
<1>5. ASSUME Kept(s, n) PROVE Twin(s)
  <2>1. PICK i \in DOMAIN history[n] : /\ s.id = history[n][i].id /\ s.start = history[n][i].start
                                       /\ s.stop = history[n][i].stop \/ Closed(s)
    BY <1>5 DEF Kept
  <2>2. history[n][i] \in Installed
    BY <1>2, InstalledIs
  <2>3. s.stop = history[n][i].stop /\ s.stop # Open => Closed(s)
    BY <1>3, <2>1, <2>2 DEF Closed, End
  <2> QED BY <2>1, <2>2, <2>3 DEF Twin
<1>6. ASSUME NEW i \in DOMAIN m.chain, s = m.chain[i]
      PROVE  Twin(s) \/ (s = Active(m.chain) /\ Added(s, n))
  <2>1. Derived(m.chain, n)
    BY <1>1 DEF Proposal
  <2>2. i \in 1..Len(m.chain) /\ Len(m.chain) \in Nat
    BY <1>1, ChainFacts
  <2>3. CASE i = Len(m.chain)
    BY <1>5, <1>6, <2>1, <2>3 DEF Derived, Active
  <2>4. CASE i # Len(m.chain)
    <3>1. i \in 1..(Len(m.chain) - 1)
      BY <2>2, <2>4
    <3> QED BY <1>5, <1>6, <2>1, <3>1 DEF Derived
  <2> QED BY <2>3, <2>4
<1> QED BY <1>1, <1>4, <1>6

LEMMA InstallKeepsSegments ==
  ASSUME ChainsInv, NEW m \in msgs, Install(m)
  PROVE  SegmentsInv'
<1> DEFINE n == Len(history)
           last == Active(m.chain)
<1>1. /\ m.chain \in Chain /\ Proposal(m) /\ m.expected = n /\ n \in Nat /\ Len(history') = n + 1
      /\ history'[n + 1] = m.chain
      /\ \A i \in DOMAIN m.chain : m.chain[i].id <= made
      /\ \A s : s \in Installed' <=> s \in Installed \/ \E i \in DOMAIN m.chain : s = m.chain[i]
  BY InstallFacts
<1>2. /\ Types /\ UNCHANGED <<log, sealed, made>>
  BY DEF ChainsInv, Install, loglets
<1>3. Active(Newest)' = last
  BY <1>1 DEF Newest, Active
<1>4. \A s, t : (Before(s, t)' <=> Before(s, t)) /\ (Apart(s, t)' <=> Apart(s, t))
  BY <1>2 DEF Before, Apart, End
<1>5. \A s : Closed(s)' <=> Closed(s)
  BY <1>2 DEF Closed, End
<1>6. \A s \in Installed' : s.id <= made'
  BY <1>1, <1>2 DEF ChainsInv, SegmentsInv
<1>7. last.stop = Open
  BY <1>1, ChainFacts
<1> SUFFICES /\ \A s \in Installed' : s.stop # Open => Closed(s)
             /\ \A s, t \in Installed' : Apart(s, t)
             /\ \A s \in Installed' : s.id = last.id \/ Before(s, last)
  <2>1. ASSUME NEW s \in Installed', \A r \in Installed' : r.id = last.id \/ Before(r, last)
        PROVE  s.id = Active(Newest)'.id \/ Before(s, Active(Newest))'
    <3>1. s.id = last.id \/ Before(s, last)
      BY <2>1
    <3> QED BY <1>2, <1>3, <3>1 DEF Before, End
  <2> QED BY <1>4, <1>5, <1>6, <2>1 DEF SegmentsInv
<1>8. CASE n = 0
  <2>1. Installed = {}
    BY <1>2, <1>8 DEF Installed, Types
  <2>2. DOMAIN m.chain = 1..1 /\ last = m.chain[1]
    BY <1>1, <1>8, ChainFacts DEF Proposal, Active
  <2>3. \A s \in Installed' : s = last
    BY <1>1, <2>1, <2>2
  <2> QED BY <1>7, <2>3 DEF Apart
<1>9. CASE n # 0
  <2> DEFINE old == Active(Newest)
  <2>1. n > 0 /\ n \in 1..n
    BY <1>1, <1>9
  <2>2. old \in Installed /\ old = Active(history[n])
    BY <1>2, <2>1, VersionType DEF Newest
  <2>3. \A s \in Installed' : Twin(s) \/ (s = last /\ Added(s, n))
    BY <2>1, InstalledTwins
  <2>4. \A s, t \in Installed : Apart(s, t)
    BY DEF ChainsInv, SegmentsInv
  <2>5. \A s \in Installed : s.id = old.id \/ Before(s, old)
    BY DEF ChainsInv, SegmentsInv
  <2>6. \A s \in Installed : End(s) \in Nat /\ s.start \in Nat /\ s.start <= End(s)
    BY <1>2, InstalledType
  <2>7. ASSUME Added(last, n), NEW t \in Installed
        PROVE  t.id # last.id /\ Before(t, last)
    <3>1. Before(old, last)
      BY <2>2, <2>7 DEF Added
    <3>2. PICK v \in DOMAIN history : \E i \in DOMAIN history[v] : t = history[v][i]
      BY InstalledIs
    <3>3. v \in 1..n
      BY <1>2 DEF Types
    <3>4. t.id # last.id
      BY <2>7, <3>2, <3>3 DEF Added
    <3>5. last.start \in Nat
      BY <1>1, ChainFacts DEF SegmentRecord
    <3>6. CASE t.id = old.id
      <4>1. t.start = old.start
        BY <2>2, <2>4, <3>6 DEF Apart
      <4> QED BY <3>1, <3>4, <3>6, <4>1, TwinPlaces
    <3>7. CASE Before(t, old)
      <4>1. t.id \in sealed /\ End(t) <= old.start /\ End(old) <= last.start
        BY <3>1, <3>7 DEF Before
      <4>2. End(t) \in Nat /\ End(old) \in Nat /\ old.start \in Nat /\ old.start <= End(old)
        BY <2>2, <2>6
      <4>3. End(t) <= last.start
        <5> DEFINE p == End(t)
                   q == End(old)
        <5> HIDE DEF p, q
        <5>1. p <= old.start /\ q <= last.start /\ p \in Nat /\ q \in Nat /\ old.start \in Nat /\ old.start <= q
          BY <4>1, <4>2 DEF p, q
        <5>2. p <= last.start
          BY <3>5, <5>1
        <5> QED BY <5>2 DEF p
      <4> QED BY <3>4, <4>1, <4>3 DEF Before
    <3> QED BY <2>5, <3>6, <3>7
  <2>8. \A s \in Installed' : s.stop # Open => Closed(s)
    BY <1>7, <2>3 DEF Twin
  <2>9. ASSUME NEW s \in Installed', NEW t \in Installed' PROVE Apart(s, t)
    <3>1. CASE s = last /\ Added(s, n) /\ t = last
      BY <3>1 DEF Apart
    <3>2. CASE s = last /\ Added(s, n) /\ Twin(t)
      <4>1. PICK r \in Installed : t.id = r.id /\ t.start = r.start
        BY <3>2 DEF Twin
      <4>2. r.id # last.id /\ Before(r, last)
        BY <2>7, <3>2
      <4>3. Before(t, last)
        BY <4>1, <4>2, TwinPlaces
      <4> QED BY <3>2, <4>1, <4>2, <4>3 DEF Apart
    <3>3. CASE Twin(s) /\ t = last /\ Added(t, n)
      <4>1. PICK r \in Installed : s.id = r.id /\ s.start = r.start
        BY <3>3 DEF Twin
      <4>2. r.id # last.id /\ Before(r, last)
        BY <2>7, <3>3
      <4>3. Before(s, last)
        BY <4>1, <4>2, TwinPlaces
      <4> QED BY <3>3, <4>1, <4>2, <4>3 DEF Apart
    <3>4. CASE Twin(s) /\ Twin(t)
      <4>1. PICK r \in Installed : s.id = r.id /\ s.start = r.start
        BY <3>4 DEF Twin
      <4>2. PICK u \in Installed : t.id = u.id /\ t.start = u.start
        BY <3>4 DEF Twin
      <4>3. Apart(r, u)
        BY <2>4
      <4> QED BY <4>1, <4>2, <4>3 DEF Apart, Before, End
    <3> QED BY <2>3, <3>1, <3>2, <3>3, <3>4
  <2>10. ASSUME NEW s \in Installed' PROVE s.id = last.id \/ Before(s, last)
    <3>1. CASE Added(last, n)
      <4>1. CASE s = last
        BY <4>1
      <4>2. CASE Twin(s)
        <5>1. PICK r \in Installed : s.id = r.id /\ s.start = r.start
          BY <4>2 DEF Twin
        <5> QED BY <2>7, <3>1, <5>1, TwinPlaces
      <4> QED BY <2>3, <4>1, <4>2
    <3>2. CASE ~ Added(last, n)
      <4>1. last.id = old.id
        BY <1>1, <1>9, <2>2, <3>2 DEF Proposal, Derived
      <4>2. last \in Installed'
        <5>1. Len(m.chain) \in DOMAIN m.chain
          BY <1>1, ChainFacts
        <5> QED BY <1>1, <5>1 DEF Active
      <4>3. PICK u \in Installed : last.id = u.id /\ last.start = u.start
        BY <2>3, <3>2, <4>2 DEF Twin
      <4>4. last.start = old.start
        BY <2>2, <2>4, <4>1, <4>3 DEF Apart
      <4>5. PICK r \in Installed : s.id = r.id /\ s.start = r.start
        BY <2>3, <3>2 DEF Twin
      <4>6. r.id = old.id \/ Before(r, old)
        BY <2>5
      <4> QED BY <4>1, <4>4, <4>5, <4>6 DEF Before, End
    <3> QED BY <3>1, <3>2
  <2> QED BY <2>8, <2>9, <2>10
<1> QED BY <1>8, <1>9

-----------------------------------------------------------------------------
(* The invariant, and what follows.                                        *)

LEMMA InstallKeepsChains ==
  ASSUME ChainsInv, NEW m \in msgs, Install(m)
  PROVE  ChainsInv'
<1> DEFINE n == Len(history)
<1>1. /\ m.chain \in Chain /\ m.expected = n /\ n \in Nat /\ Len(history') = n + 1
      /\ history' \in Seq(Chain)
      /\ \A v \in 1..n : history'[v] = history[v]
      /\ \A s : s \in Installed' <=> s \in Installed \/ \E i \in DOMAIN m.chain : s = m.chain[i]
  BY InstallFacts
<1>2. UNCHANGED <<log, sealed, trimmed, cached, lock, call, msgs, made, failures, answers>>
  BY DEF Install, loglets
<1>3. Types'
  BY <1>1, <1>2 DEF ChainsInv, Types
<1>4. SegmentsInv'
  BY InstallKeepsSegments
<1>5. \A v \in 0..n : Version(v)' = Version(v)
  BY <1>1 DEF Version
<1>6. \A z \in ClientSnapshot : Known(z) => Known(z)'
  <2> SUFFICES ASSUME NEW z \in ClientSnapshot, Known(z) PROVE Known(z)'
    OBVIOUS
  <2>1. z.version \in 0..n
    BY <1>1 DEF Known, ClientSnapshot
  <2> QED BY <1>1, <1>5, <2>1 DEF Known
<1>7. ProposalsInv'
  <2> SUFFICES ASSUME NEW r \in msgs, r.type = "install"
               PROVE  Proposal(r)' /\ \A i \in DOMAIN r.chain : r.chain[i].id <= made
    BY <1>2 DEF ProposalsInv
  <2>1. Proposal(r) /\ \A i \in DOMAIN r.chain : r.chain[i].id <= made
    BY DEF ChainsInv, ProposalsInv
  <2>2. r.expected \in Nat
    BY DEF ChainsInv, Types, Message
  <2>3. r.expected <= n
    BY <2>1 DEF Proposal
  <2>4. CASE r.expected = 0
    BY <1>1, <2>1, <2>3, <2>4 DEF Proposal
  <2>5. CASE r.expected # 0
    <3> DEFINE v == r.expected
    <3>1. v \in 1..n /\ \A u \in 1..v : u \in 1..n
      BY <1>1, <2>2, <2>3, <2>5
    <3>2. history'[v] = history[v] /\ \A u \in 1..v : history'[u] = history[u]
      BY <1>1, <3>1
    <3>3. Derived(r.chain, v)
      BY <2>1, <2>5 DEF Proposal
    <3>4. v <= Len(history')
      BY <1>1, <2>2, <2>3
    <3> HIDE DEF v
    <3>5. Derived(r.chain, v)'
      <4>1. \A s : Kept(s, v) => Kept(s, v)'
        BY <1>2, <3>2 DEF Kept, Closed, End
      <4>2. \A s : Added(s, v) => Added(s, v)'
        BY <1>2, <3>2 DEF Added, Before, End
      <4>3. Active(history[v])' = Active(history[v])
        BY <3>2 DEF Active
      <4> QED BY <3>3, <4>1, <4>2, <4>3, <3>2 DEF Derived, Active
    <3> QED BY <2>1, <2>5, <3>4, <3>5 DEF Proposal, v
  <2> QED BY <2>4, <2>5
<1>8. CallsInv'
  <2>1. \A k \in Client : cached[k] \in ClientSnapshot /\ Known(cached[k])
    BY DEF ChainsInv, CallsInv, Types
  <2>2. \A k \in Client : Known(cached[k])'
    BY <1>2, <1>6, <2>1 DEF Known, Version
  <2>3. ASSUME NEW c \in Call PROVE Prepared(call[c])'
    <3>1. Prepared(call[c]) /\ call[c].snapshot \in ClientSnapshot
      BY DEF ChainsInv, CallsInv, Types, CallRecord
    <3>2. PICK x : x = call[c]
      OBVIOUS
    <3>3. Prepared(x) /\ Known(x.snapshot)'
      BY <1>6, <3>1, <3>2 DEF Prepared
    <3>4. Prepared(x)'
      BY <1>2, <3>3 DEF Prepared
    <3> QED BY <1>2, <3>2, <3>4
  <2>4. \A c \in Call : call[c].pc \in OnSegment => Cached(c)'.version > 0
    BY <1>2 DEF ChainsInv, CallsInv, Cached, ClientOf
  <2> QED BY <1>2, <2>2, <2>3, <2>4 DEF CallsInv
<1>9. AcksInv'
  <2>1. \A s, a : Holds(s, a) => Holds(s, a)'
    BY <1>2 DEF Holds, End
  <2> QED BY <1>1, <1>2, <2>1 DEF ChainsInv, AcksInv
<1> QED BY <1>3, <1>4, <1>7, <1>8, <1>9 DEF ChainsInv

LEMMA StepKeeps ==
  ASSUME ChainsInv, NEW c \in Call, Step(c)
  PROVE  ChainsInv'
BY AppendAnsweredKeepsChains, AppendRefusedKeepsChains, TailAnsweredKeepsChains, TakeLockKeepsChains,
   RefreshedEmptyKeepsChains, RefreshedKeepsChains, GraceOverKeepsChains, SuccessorFoundKeepsChains,
   SealAnsweredKeepsChains, SealedTailAnsweredKeepsChains, InstallAnsweredKeepsChains,
   TrimNextKeepsChains, DropKeepsChains, ReadNextKeepsChains DEF Step

LEMMA StutterKeepsChains ==
  ASSUME ChainsInv, UNCHANGED vars
  PROVE  ChainsInv'
<1>1. UNCHANGED <<history, log, sealed, trimmed, cached, lock, call, msgs, made, failures, answers>>
  BY DEF vars, loglets
<1>2. Types'
  BY <1>1 DEF ChainsInv, Types
<1>3. \A id \in Segment : Len(log[id]) <= Len(log'[id])
  BY <1>1 DEF ChainsInv, Types
<1> QED BY <1>1, <1>2, <1>3, LogletsKeepChains

LEMMA NextKeepsChains == ChainsInv /\ [Next]_vars => ChainsInv'
<1> SUFFICES ASSUME ChainsInv, [Next]_vars PROVE ChainsInv'
  OBVIOUS
<1>1. ASSUME NEW w \in Workload, Begin(w[1], w[2], w[3]) PROVE ChainsInv'
  <2>1. w[1] \in Call /\ w[2] \in Client /\ w[3] \in Request
    BY WorkloadAssumption
  <2> QED BY <1>1, <2>1, BeginKeepsChains
<1>2. ASSUME NEW c \in Call, Step(c) \/ Unavailable(c) \/ Raise(c) PROVE ChainsInv'
  BY <1>2, StepKeeps, UnavailableKeepsChains, RaiseKeepsChains
<1>3. ASSUME NEW m \in msgs, Effect(m) PROVE ChainsInv'
  BY <1>3, InstallKeepsChains, LogletAppendsKeepsChains, LogletSealsKeepsChains,
     LogletTrimsKeepsChains DEF Effect
<1>4. CASE UNCHANGED vars
  BY <1>4, StutterKeepsChains
<1> QED BY <1>1, <1>2, <1>3, <1>4 DEF Next

\* ChainsInv holds always: seal, then ask for the tail, then install is enough to keep the segments
\* of all the chains ever installed apart, whatever is late, lost or done twice.
THEOREM ChainsInvariant == Spec => []ChainsInv
<1>1. Init => ChainsInv
  BY StartsChains
<1>2. ChainsInv /\ [Next]_vars => ChainsInv'
  BY NextKeepsChains
<1> QED BY <1>1, <1>2, PTL DEF Spec

\* The MetaStore holds valid chains of segment records, Loglets commands, and clients snapshots of
\* versions that exist: what core.py builds is what virtual_log/types.py validates.
THEOREM TypeCorrect == Spec => []TypeOK
<1>1. ChainsInv => TypeOK
  <2> SUFFICES ASSUME ChainsInv PROVE TypeOK
    OBVIOUS
  <2>1. Types /\ history \in Seq(Chain) /\ Len(history) \in Nat
    BY DEF ChainsInv, Types
  <2>2. \A v \in DOMAIN history : ValidChain(history[v])
    BY <2>1 DEF Chain
  <2>3. \A v \in DOMAIN history : \A i \in DOMAIN history[v] : history[v][i] \in SegmentRecord
    BY <2>1, ChainFacts
  <2>4. \A s \in Segment : \A i \in DOMAIN log[s] : log[s][i] \in Command
    BY <2>1 DEF Types
  <2>5. \A k \in Client : cached[k].version \in 0..Len(history)
    BY <2>1 DEF Types, ClientSnapshot, ChainsInv, CallsInv, Known
  <2> QED BY <2>1, <2>2, <2>3, <2>4, <2>5 DEF Types, TypeOK
<1> QED BY <1>1, ChainsInvariant, PTL

\* A VirtualLog caches only chains that the MetaStore installed, also after a lost reconfiguration:
\* _propose_and_adopt takes over the winner's.
THEOREM CachesAreInstalled == Spec => []CachedIsInstalled
<1>1. ChainsInv => CachedIsInstalled
  BY DEF ChainsInv, CallsInv, Known, CachedIsInstalled
<1> QED BY <1>1, ChainsInvariant, PTL

\* No two installed chains send a written position to different Loglets or places: the tail that
\* reconfig_extend asks a sealed Loglet for is final.
THEOREM PositionsHaveOneOwner == Spec => []OneOwnerPerPosition
<1>1. ChainsInv => OneOwnerPerPosition
  <2> SUFFICES ASSUME ChainsInv, NEW s \in Installed, NEW t \in Installed
               PROVE  /\ s.id = t.id => s.start = t.start /\ (s.stop # Open /\ t.stop # Open => s.stop = t.stop)
                      /\ s.id # t.id => Written(s) \cap Written(t) = {}
    BY DEF OneOwnerPerPosition
  <2>1. Apart(s, t) /\ (s.stop # Open => Closed(s)) /\ (t.stop # Open => Closed(t))
    BY DEF ChainsInv, SegmentsInv
  <2>2. /\ s.start \in Nat /\ t.start \in Nat /\ End(s) \in Nat /\ End(t) \in Nat
    BY InstalledType DEF ChainsInv
  <2>3. Written(s) = s.start..(End(s) - 1) /\ Written(t) = t.start..(End(t) - 1)
    BY <2>1 DEF Written, Closed, End
  <2>4. ASSUME s.id = t.id
        PROVE  s.start = t.start /\ (s.stop # Open /\ t.stop # Open => s.stop = t.stop)
    BY <2>1, <2>4 DEF Apart, Closed, End
  <2>5. ASSUME s.id # t.id PROVE Written(s) \cap Written(t) = {}
    <3>1. End(s) <= t.start \/ End(t) <= s.start
      BY <2>1, <2>5 DEF Apart, Before
    <3> QED BY <2>2, <2>3, <3>1
  <2> QED BY <2>4, <2>5
<1> QED BY <1>1, ChainsInvariant, PTL
=============================================================================
