------------------------ MODULE VersionRegisterProofs ------------------------
(***************************************************************************)
(* What replaying a stretch of the log yields: registers of the right      *)
(* type, each obtained from the one before it.                             *)
(***************************************************************************)
EXTENDS VersionRegister, Integers, WellFoundedInduction, TLAPS

\* Induction over the naturals, stated of a set: a set that holds 0 and the
\* successor of each of its naturals holds every natural.
LEMMA SetInduction ==
  ASSUME NEW T, 0 \in T, \A n \in Nat : n \in T => n + 1 \in T
  PROVE  Nat \subseteq T
<1> DEFINE R == {p \in Nat \X Nat : p[1] < p[2]}
           Rest == Nat \ T
<1>1. IsWellFoundedOn(R, Nat)
  BY NatLessThanWellFounded DEF OpToRel
<1>2. ASSUME Rest # {} PROVE FALSE
  <2>1. Rest \subseteq Nat
    OBVIOUS
  <2>2. PICK x \in Rest : \A y \in Rest : <<y, x>> \notin R
    <3> HIDE DEF R, Rest
    <3> QED BY <1>1, <1>2, <2>1, WFMin
  <2>3. x \in Nat /\ x # 0
    OBVIOUS
  <2>4. x - 1 \in Nat /\ x = (x - 1) + 1 /\ <<x - 1, x>> \in R
    BY <2>3
  <2>5. x - 1 \notin Rest
    <3> HIDE DEF R, Rest
    <3> QED BY <2>2, <2>4
  <2> QED BY <2>4, <2>5
<1> QED BY <1>2

\* Applying a command to a snapshot gives a snapshot, and its result is a Result.
LEMMA AppliedType ==
  ASSUME NEW reg \in Snapshot, NEW cmd \in Command
  PROVE  Applied(reg, cmd) \in Snapshot /\ ResultOf(reg, cmd) \in Result
<1>1. Applied(reg, cmd) \in Snapshot
  BY MaxVersionAssumption DEF Applied, Matches, Snapshot, Command, CompareAndSet, ReadBarrier
<1>2. CASE cmd.kind = "read_barrier"
  BY <1>1, <1>2 DEF ResultOf, Result
<1>3. CASE cmd.kind # "read_barrier" /\ Matches(reg, cmd)
  BY <1>1, <1>3 DEF ResultOf, Result
<1>4. CASE cmd.kind # "read_barrier" /\ ~Matches(reg, cmd)
  BY <1>1, <1>4 DEF ResultOf, Result
<1> QED BY <1>1, <1>2, <1>3, <1>4

\* f passes from start through the registers that log[first + 1] .. log[last] produce.
Replays(f, start, log, first, last) ==
  f = [s \in first..last |-> IF s = first THEN start ELSE Applied(f[s - 1], log[s])]

\* A stretch of decided commands can be replayed, however long it is.
LEMMA ReplayExists ==
  ASSUME NEW start, NEW log, NEW first \in Nat
  PROVE  \A k \in Nat : \E f : Replays(f, start, log, first, first + k)
<1> DEFINE T == {k \in Nat : \E f : Replays(f, start, log, first, first + k)}
<1>1. 0 \in T
  <2>1. Replays([s \in first..first + 0 |-> start], start, log, first, first + 0)
    BY DEF Replays
  <2> QED BY <2>1
<1>2. ASSUME NEW k \in Nat, k \in T PROVE k + 1 \in T
  <2>1. PICK f : Replays(f, start, log, first, first + k)
    BY <1>2
  <2> DEFINE g == [s \in first..first + (k + 1) |->
                     IF s = first + (k + 1) THEN Applied(f[first + k], log[s]) ELSE f[s]]
  <2>2. \A s \in first..first + (k + 1) :
          g[s] = IF s = first THEN start ELSE Applied(g[s - 1], log[s])
    <3> TAKE s \in first..first + (k + 1)
    <3>1. CASE s = first + (k + 1)
      BY <3>1
    <3>2. CASE s # first + (k + 1)
      <4>1. s \in first..first + k
        BY <3>2
      <4>2. f[s] = IF s = first THEN start ELSE Applied(f[s - 1], log[s])
        BY <2>1, <4>1 DEF Replays
      <4>3. s # first => s - 1 \in first..first + k
        BY <4>1
      <4> QED BY <4>1, <4>2, <4>3
    <3> QED BY <3>1, <3>2
  <2>3. Replays(g, start, log, first, first + (k + 1))
    <3> HIDE DEF g
    <3>1. DOMAIN g = first..first + (k + 1) /\ g = [s \in DOMAIN g |-> g[s]]
      BY DEF g
    <3> QED BY <2>2, <3>1 DEF Replays
  <2> QED BY <2>3
<1>3. Nat \subseteq T
  <2> HIDE DEF T
  <2> QED BY <1>1, <1>2, SetInduction
<1> QED BY <1>3

\* The recursive definition of Replay is met by a function.
LEMMA ReplayReplays ==
  ASSUME NEW start, NEW log, NEW first \in Nat, NEW last \in Nat, first <= last
  PROVE  Replays(Replay(start, log, first, last), start, log, first, last)
<1> DEFINE f == Replay(start, log, first, last)
<1>1. last - first \in Nat /\ first + (last - first) = last
  OBVIOUS
<1>2. \E g : Replays(g, start, log, first, last)
  BY <1>1, ReplayExists
<1>3. f = CHOOSE g : Replays(g, start, log, first, last)
  BY DEF Replay, Replays
<1> HIDE DEF f
<1>4. Replays(f, start, log, first, last)
  BY <1>2, <1>3
<1> QED BY <1>4 DEF f

\* What a replay passes through, a register from the one before it.
LEMMA ReplaySteps ==
  ASSUME NEW start, NEW log, NEW first, NEW last, NEW f, Replays(f, start, log, first, last)
  PROVE  /\ DOMAIN f = first..last
         /\ \A s \in first..last : f[s] = IF s = first THEN start ELSE Applied(f[s - 1], log[s])
BY DEF Replays

LEMMA ReplayCorrect ==
  ASSUME NEW start, NEW log, NEW first \in Nat, NEW last \in Nat, first <= last
  PROVE  LET f == Replay(start, log, first, last)
         IN  /\ Replays(f, start, log, first, last)
             /\ DOMAIN f = first..last
             /\ \A s \in first..last : f[s] = IF s = first THEN start ELSE Applied(f[s - 1], log[s])
<1> DEFINE f == Replay(start, log, first, last)
<1>1. Replays(f, start, log, first, last)
  BY ReplayReplays
<1> HIDE DEF f
<1>2. /\ DOMAIN f = first..last
      /\ \A s \in first..last : f[s] = IF s = first THEN start ELSE Applied(f[s - 1], log[s])
  BY <1>1, ReplaySteps
<1> QED BY <1>1, <1>2 DEF f

\* Induction along a stretch of the log.
LEMMA StretchInduction ==
  ASSUME NEW a \in Nat, NEW b \in Nat, NEW T, a \in T,
         \A n \in Nat : a <= n /\ n < b /\ n \in T => n + 1 \in T
  PROVE  a..b \subseteq T
<1> DEFINE U == {k \in Nat : a + k <= b => a + k \in T}
<1>1. 0 \in U
  OBVIOUS
<1>2. \A k \in Nat : k \in U => k + 1 \in U
  <2> SUFFICES ASSUME NEW k \in Nat, k \in U, a + (k + 1) <= b PROVE a + (k + 1) \in T
    OBVIOUS
  <2>1. a + k \in T /\ a + k \in Nat /\ a <= a + k /\ a + k < b
    OBVIOUS
  <2>2. (a + k) + 1 \in T
    BY <2>1
  <2>3. (a + k) + 1 = a + (k + 1)
    OBVIOUS
  <2> QED BY <2>2, <2>3
<1>3. Nat \subseteq U
  <2> HIDE DEF U
  <2> QED BY <1>1, <1>2, SetInduction
<1>4. ASSUME NEW n \in a..b PROVE n \in T
  <2>1. n - a \in Nat /\ a + (n - a) = n /\ n <= b
    OBVIOUS
  <2>2. n - a \in U
    BY <2>1, <1>3
  <2> QED BY <2>1, <2>2
<1> QED BY <1>4

\* f goes on from its register at a by the commands log[a + 1] .. log[b].
Passes(f, log, a, b) == \A s \in (a + 1)..b : f[s] = Applied(f[s - 1], log[s])

\* Two replays that begin alike and read the same commands pass through the same
\* registers.
LEMMA ReplaysMeet ==
  ASSUME NEW a \in Nat, NEW b \in Nat, NEW f, NEW g, NEW log, f[a] = g[a],
         Passes(f, log, a, b), Passes(g, log, a, b)
  PROVE  \A s \in a..b : f[s] = g[s]
<1> DEFINE T == {s \in Nat : f[s] = g[s]}
<1>1. \A n \in Nat : a <= n /\ n < b /\ n \in T => n + 1 \in T
  <2> SUFFICES ASSUME NEW n \in Nat, a <= n, n < b, f[n] = g[n] PROVE f[n + 1] = g[n + 1]
    OBVIOUS
  <2>1. n + 1 \in (a + 1)..b /\ (n + 1) - 1 = n
    OBVIOUS
  <2>2. f[n + 1] = Applied(f[n], log[n + 1]) /\ g[n + 1] = Applied(g[n], log[n + 1])
    BY <2>1 DEF Passes
  <2> QED BY <2>2
<1>2. a..b \subseteq T
  <2>1. a \in T
    OBVIOUS
  <2> HIDE DEF T
  <2> QED BY <1>1, <2>1, StretchInduction
<1> QED BY <1>2

\* Members that read the same commands pass through the same registers, however far
\* each of them has got.
LEMMA ReplayAgrees ==
  ASSUME NEW start, NEW log1, NEW log2, NEW a \in Nat, NEW b \in Nat, a <= b,
         \A s \in 1..a : log1[s] = log2[s]
  PROVE  \A s \in 0..a : Replay(start, log1, 0, a)[s] = Replay(start, log2, 0, b)[s]
<1> DEFINE f == Replay(start, log1, 0, a)
           g == Replay(start, log2, 0, b)
<1>1. f = Replay(start, log1, 0, a) /\ g = Replay(start, log2, 0, b)
  OBVIOUS
<1> HIDE DEF f, g
<1>2. Replays(f, start, log1, 0, a) /\ Replays(g, start, log2, 0, b)
  BY <1>1, ReplayReplays
<1>3. \A s \in 0..a : f[s] = IF s = 0 THEN start ELSE Applied(f[s - 1], log1[s])
  BY <1>2, ReplaySteps
<1>4. \A s \in 0..b : g[s] = IF s = 0 THEN start ELSE Applied(g[s - 1], log2[s])
  BY <1>2, ReplaySteps
<1>5. f[0] = g[0] /\ \A s \in (0 + 1)..a : s \in 0..a /\ s \in 0..b /\ s # 0
  BY <1>3, <1>4
<1>6. Passes(f, log1, 0, a)
  BY <1>3, <1>5 DEF Passes
<1>7. Passes(g, log1, 0, a)
  BY <1>4, <1>5 DEF Passes
<1>8. \A s \in 0..a : f[s] = g[s]
  BY <1>5, <1>6, <1>7, ReplaysMeet
<1> QED BY <1>8 DEF f, g

\* A replay may be interrupted: what follows slot a goes on from the register there.
LEMMA ReplayResumes ==
  ASSUME NEW start, NEW log1, NEW log2, NEW a \in Nat, NEW b \in Nat, a <= b,
         \A s \in 1..a : log1[s] = log2[s]
  PROVE  \A s \in a..b :
           Replay(Replay(start, log1, 0, a)[a], log2, a, b)[s] = Replay(start, log2, 0, b)[s]
<1> DEFINE r == Replay(start, log1, 0, a)[a]
           f == Replay(r, log2, a, b)
           g == Replay(start, log2, 0, b)
<1>1. r = g[a]
  BY ReplayAgrees
<1>2. f = Replay(r, log2, a, b) /\ g = Replay(start, log2, 0, b)
  OBVIOUS
<1> HIDE DEF r, f, g
<1>3. Replays(f, r, log2, a, b) /\ Replays(g, start, log2, 0, b)
  BY <1>2, ReplayReplays
<1>4. \A s \in a..b : f[s] = IF s = a THEN r ELSE Applied(f[s - 1], log2[s])
  BY <1>3, ReplaySteps
<1>5. \A s \in 0..b : g[s] = IF s = 0 THEN start ELSE Applied(g[s - 1], log2[s])
  BY <1>3, ReplaySteps
<1>6. f[a] = g[a] /\ \A s \in (a + 1)..b : s \in a..b /\ s \in 0..b /\ s # 0 /\ s # a
  BY <1>1, <1>4
<1>7. Passes(f, log2, a, b)
  BY <1>4, <1>6 DEF Passes
<1>8. Passes(g, log2, a, b)
  BY <1>5, <1>6 DEF Passes
<1>9. \A s \in a..b : f[s] = g[s]
  BY <1>6, <1>7, <1>8, ReplaysMeet
<1> QED BY <1>9 DEF f, g, r

\* Replaying decided commands from a snapshot passes through snapshots only.
THEOREM ReplayType ==
  ASSUME NEW start \in Snapshot, NEW first \in Nat, NEW last \in Nat, first <= last,
         NEW log, \A s \in (first + 1)..last : log[s] \in Command
  PROVE  /\ Replays(Replay(start, log, first, last), start, log, first, last)
         /\ Replay(start, log, first, last) \in [first..last -> Snapshot]
<1> DEFINE f == Replay(start, log, first, last)
<1>1. Replays(f, start, log, first, last)
  BY ReplayCorrect
<1> HIDE DEF f
<1>2. DOMAIN f = first..last
  BY <1>1 DEF Replays
<1>3. \A s \in first..last : f[s] = IF s = first THEN start ELSE Applied(f[s - 1], log[s])
  BY <1>1 DEF Replays
<1> DEFINE T == {k \in Nat : first + k <= last => f[first + k] \in Snapshot}
<1>4. 0 \in T
  BY <1>3
<1>5. ASSUME NEW k \in Nat, k \in T PROVE k + 1 \in T
  <2>1. SUFFICES ASSUME first + (k + 1) <= last PROVE f[first + (k + 1)] \in Snapshot
    OBVIOUS
  <2>2. f[first + k] \in Snapshot
    BY <1>5, <2>1
  <2>3. first + (k + 1) \in (first + 1)..last /\ (first + (k + 1)) - 1 = first + k
    BY <2>1
  <2>4. f[first + (k + 1)] = Applied(f[first + k], log[first + (k + 1)])
    BY <1>3, <2>3
  <2> QED BY <2>2, <2>3, <2>4, AppliedType
<1>6. Nat \subseteq T
  <2> HIDE DEF T
  <2> QED BY <1>4, <1>5, SetInduction
<1>7. \A s \in first..last : f[s] \in Snapshot
  <2> TAKE s \in first..last
  <2>1. s - first \in Nat /\ first + (s - first) = s
    OBVIOUS
  <2>2. s - first \in T
    BY <2>1, <1>6
  <2> QED BY <2>1, <2>2
<1>8. f \in [first..last -> Snapshot]
  <2>1. f = [s \in first..last |-> f[s]]
    BY <1>1, <1>2 DEF Replays
  <2> QED BY <2>1, <1>7
<1> QED BY <1>1, <1>8 DEF f

\* A command never lowers the version, and installs exactly the next one.
LEMMA AppliedRises ==
  ASSUME NEW reg \in Snapshot, NEW cmd \in Command
  PROVE  /\ Applied(reg, cmd).version >= reg.version
         /\ ResultOf(reg, cmd).snapshot = Applied(reg, cmd)
         /\ ResultOf(reg, cmd).kind = "applied" =>
              /\ Applied(reg, cmd).version = reg.version + 1
              /\ Applied(reg, cmd).chain = cmd.chain
<1>1. reg.version \in Nat /\ (cmd.kind = "compare_and_set" => cmd.expected \in Nat)
  BY MaxVersionAssumption DEF Snapshot, Command, CompareAndSet, ReadBarrier
<1>2. ResultOf(reg, cmd).snapshot = Applied(reg, cmd)
  BY DEF ResultOf
<1>3. ResultOf(reg, cmd).kind = "applied" => Matches(reg, cmd)
  BY DEF ResultOf
<1>4. Matches(reg, cmd) => cmd.kind = "compare_and_set" /\ cmd.expected = reg.version
  BY DEF Matches
<1>5. CASE Matches(reg, cmd)
  <2>1. Applied(reg, cmd).version = cmd.expected + 1 /\ Applied(reg, cmd).chain = cmd.chain
    BY <1>5 DEF Applied
  <2> QED BY <1>1, <1>2, <1>4, <1>5, <2>1
<1>6. CASE ~Matches(reg, cmd)
  <2>1. Applied(reg, cmd) = reg
    BY <1>6 DEF Applied
  <2> QED BY <1>1, <1>2, <1>3, <1>6, <2>1
<1> QED BY <1>5, <1>6

\* Along the log the version never falls.
LEMMA VersionsRise ==
  ASSUME NEW start \in Snapshot, NEW log, NEW b \in Nat, \A s \in 1..b : log[s] \in Command,
         NEW i \in 0..b, NEW j \in 0..b, i <= j
  PROVE  Replay(start, log, 0, b)[i].version <= Replay(start, log, 0, b)[j].version
<1> DEFINE f == Replay(start, log, 0, b)
           T == {s \in 0..b : f[i].version <= f[s].version}
<1>1. f \in [0..b -> Snapshot]
  <2>1. \A s \in (0 + 1)..b : log[s] \in Command
    OBVIOUS
  <2> QED BY <2>1, ReplayType
<1>2. \A s \in 0..b : f[s] = IF s = 0 THEN start ELSE Applied(f[s - 1], log[s])
  BY ReplayCorrect
<1> HIDE DEF f
<1>3. i \in T /\ i \in Nat /\ j \in Nat
  BY <1>1 DEF Snapshot
<1>4. \A n \in Nat : i <= n /\ n < j /\ n \in T => n + 1 \in T
  <2> SUFFICES ASSUME NEW n \in Nat, i <= n, n < j, n \in 0..b, f[i].version <= f[n].version
               PROVE  n + 1 \in 0..b /\ f[i].version <= f[n + 1].version
    OBVIOUS
  <2>1. n + 1 \in 0..b /\ n + 1 # 0 /\ (n + 1) - 1 = n /\ n + 1 \in 1..b
    OBVIOUS
  <2>2. f[n + 1] = Applied(f[n], log[n + 1])
    BY <1>2, <2>1
  <2>3. f[n] \in Snapshot /\ f[n + 1] \in Snapshot /\ f[i] \in Snapshot
    BY <1>1, <2>1
  <2>4. f[n + 1].version >= f[n].version
    BY <2>1, <2>2, <2>3, AppliedRises
  <2>5. f[i].version \in Nat /\ f[n].version \in Nat /\ f[n + 1].version \in Nat
    BY <2>3 DEF Snapshot
  <2> QED BY <2>1, <2>4, <2>5
<1>5. i..j \subseteq T
  <2> HIDE DEF T
  <2> QED BY <1>3, <1>4, StretchInduction
<1>6. j \in T
  BY <1>3, <1>5
<1> QED BY <1>6 DEF f
=============================================================================
