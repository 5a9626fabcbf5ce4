--------------------------- MODULE ControllerProofs ---------------------------
(***************************************************************************)
(* Theorems of Controller: whatever operations, exits and restarts meet,   *)
(* the manifest, the marks and the two locks stay as they should.          *)
(***************************************************************************)
EXTENDS ControllerInvariant, FiniteSetTheorems, WellFoundedInduction, TLAPS

-----------------------------------------------------------------------------
(* Sequences and the order of a gather.                                    *)

\* The entries of a queue whose head has left.
LEMMA TailEntries ==
  ASSUME NEW S, NEW q \in Seq(S), Len(q) > 0
  PROVE  /\ Tail(q) \in Seq(S) /\ Len(Tail(q)) = Len(q) - 1 /\ Head(q) = q[1]
         /\ \A i \in 1..Len(Tail(q)) : Tail(q)[i] = q[i + 1]
OBVIOUS

\* The entries of a queue that grew by one.
LEMMA AppendEntries ==
  ASSUME NEW S, NEW q \in Seq(S), NEW x \in S
  PROVE  /\ Append(q, x) \in Seq(S) /\ Len(Append(q, x)) = Len(q) + 1
         /\ \A i \in 1..Len(q) : Append(q, x)[i] = q[i]
         /\ Append(q, x)[Len(q) + 1] = x
OBVIOUS

\* The entries of two queues, one after the other.
LEMMA ConcatEntries ==
  ASSUME NEW S, NEW q \in Seq(S), NEW w \in Seq(S)
  PROVE  /\ q \o w \in Seq(S) /\ Len(q \o w) = Len(q) + Len(w)
         /\ \A i \in 1..Len(q) : (q \o w)[i] = q[i]
         /\ \A i \in 1..Len(w) : (q \o w)[Len(q) + i] = w[i]
OBVIOUS

\* Induction over the naturals, stated of a set.
LEMMA SetInduction ==
  ASSUME NEW T, 0 \in T, \A n \in Nat : n \in T => n + 1 \in T
  PROVE  Nat \subseteq T
<1> DEFINE R == {p \in Nat \X Nat : p[1] < p[2]}
           Rest == Nat \ T
<1>1. IsWellFoundedOn(R, Nat)
  BY NatLessThanWellFounded DEF OpToRel
<1>2. ASSUME Rest # {} PROVE FALSE
  <2>1. Rest \subseteq Nat
    OBVIOUS
  <2>2. PICK x \in Rest : \A y \in Rest : <<y, x>> \notin R
    <3> HIDE DEF R, Rest
    <3> QED BY <1>1, <1>2, <2>1, WFMin
  <2>3. x \in Nat /\ x # 0
    OBVIOUS
  <2>4. x - 1 \in Nat /\ x = (x - 1) + 1 /\ <<x - 1, x>> \in R
    BY <2>3
  <2>5. x - 1 \notin Rest
    <3> HIDE DEF R, Rest
    <3> QED BY <2>2, <2>4
  <2> QED BY <2>4, <2>5
<1> QED BY <1>2

\* The nodes of a gather that are not yet started.
One(S) == CHOOSE n \in S : TRUE
Rests(f, S, last) == f = [k \in 0..last |-> IF k = 0 THEN S ELSE f[k - 1] \ {One(f[k - 1])}]

\* The recursion that lists a set one element at a time has a solution of every length.
LEMMA RestsExist == ASSUME NEW S PROVE \A k \in Nat : \E f : Rests(f, S, k)
<1> DEFINE T == {k \in Nat : \E f : Rests(f, S, k)}
<1>1. 0 \in T
  <2>1. Rests([k \in 0..0 |-> S], S, 0)
    BY DEF Rests
  <2> QED BY <2>1
<1>2. ASSUME NEW k \in Nat, k \in T PROVE k + 1 \in T
  <2>1. PICK f : Rests(f, S, k)
    BY <1>2
  <2> DEFINE g == [i \in 0..(k + 1) |-> IF i = k + 1 THEN f[k] \ {One(f[k])} ELSE f[i]]
  <2>2. \A i \in 0..(k + 1) : g[i] = IF i = 0 THEN S ELSE g[i - 1] \ {One(g[i - 1])}
    <3> TAKE i \in 0..(k + 1)
    <3>1. CASE i = k + 1
      <4>1. k \in 0..(k + 1) /\ k # k + 1 /\ i - 1 = k /\ i # 0
        BY <3>1
      <4>2. g[k] = f[k] /\ g[i] = f[k] \ {One(f[k])}
        BY <3>1, <4>1
      <4> HIDE DEF g
      <4> QED BY <4>1, <4>2
    <3>2. CASE i # k + 1
      <4>1. i \in 0..k
        BY <3>2
      <4>2. f[i] = IF i = 0 THEN S ELSE f[i - 1] \ {One(f[i - 1])}
        BY <2>1, <4>1 DEF Rests
      <4>3. g[i] = f[i]
        BY <3>2, <4>1
      <4>4. ASSUME i # 0 PROVE g[i - 1] = f[i - 1]
        <5>1. i - 1 \in 0..(k + 1) /\ i - 1 # k + 1
          BY <4>1, <4>4
        <5> QED BY <5>1
      <4> HIDE DEF g
      <4> QED BY <4>2, <4>3, <4>4
    <3> QED BY <3>1, <3>2
  <2>3. Rests(g, S, k + 1)
    <3> HIDE DEF g
    <3>1. DOMAIN g = 0..(k + 1) /\ g = [i \in DOMAIN g |-> g[i]]
      BY DEF g
    <3> QED BY <2>2, <3>1 DEF Rests
  <2> QED BY <2>3
<1>3. Nat \subseteq T
  <2> HIDE DEF T
  <2> QED BY <1>1, <1>2, SetInduction
<1> QED BY <1>3

\* What is left after k nodes, and the one that is next.
LEMMA RestsShrink ==
  ASSUME NEW S, IsFiniteSet(S), NEW f, Rests(f, S, Cardinality(S))
  PROVE  /\ \A k \in 0..Cardinality(S) :
              f[k] \subseteq S /\ IsFiniteSet(f[k]) /\ Cardinality(f[k]) = Cardinality(S) - k
         /\ \A k \in 1..Cardinality(S) :
              One(f[k - 1]) \in f[k - 1] /\ f[k] = f[k - 1] \ {One(f[k - 1])}
<1> DEFINE N == Cardinality(S)
           Good(k) == f[k] \subseteq S /\ IsFiniteSet(f[k]) /\ Cardinality(f[k]) = N - k
           T == {k \in Nat : k <= N => Good(k)}
<1>1. N \in Nat
  BY FS_CardinalityType
<1>2. \A k \in 0..N : f[k] = IF k = 0 THEN S ELSE f[k - 1] \ {One(f[k - 1])}
  BY DEF Rests
<1>3. Good(0)
  <2>1. 0 \in 0..N /\ N - 0 = N
    BY <1>1
  <2>2. f[0] = S
    BY <1>2, <2>1
  <2> QED BY <2>1, <2>2
<1>4. ASSUME NEW k \in Nat, k + 1 <= N, Good(k)
      PROVE  One(f[k]) \in f[k] /\ f[k + 1] = f[k] \ {One(f[k])} /\ Good(k + 1)
  <2>1. f[k + 1] = f[k] \ {One(f[k])}
    <3>1. k + 1 \in 0..N /\ k + 1 # 0 /\ (k + 1) - 1 = k
      BY <1>1, <1>4
    <3> HIDE DEF N
    <3> QED BY <1>2, <3>1
  <2>2. f[k] # {}
    BY <1>1, <1>4, FS_EmptySet
  <2>3. One(f[k]) \in f[k]
    BY <2>2 DEF One
  <2>4. IsFiniteSet(f[k + 1]) /\ Cardinality(f[k + 1]) = Cardinality(f[k]) - 1
    BY <1>4, <2>1, <2>3, FS_RemoveElement
  <2> QED BY <1>1, <1>4, <2>1, <2>3, <2>4
<1> HIDE DEF Good
<1>5. 0 \in T
  BY <1>3
<1>6. \A k \in Nat : k \in T => k + 1 \in T
  <2> SUFFICES ASSUME NEW k \in Nat, k \in T, k + 1 <= N PROVE Good(k + 1)
    OBVIOUS
  <2>1. k <= N
    BY <1>1
  <2> QED BY <1>4, <2>1
<1>7. Nat \subseteq T
  <2> HIDE DEF T
  <2> QED BY <1>5, <1>6, SetInduction
<1>8. \A k \in 0..N : Good(k)
  BY <1>1, <1>7
<1>9. \A k \in 1..N : One(f[k - 1]) \in f[k - 1] /\ f[k] = f[k - 1] \ {One(f[k - 1])}
  <2> TAKE k \in 1..N
  <2>1. k - 1 \in Nat /\ (k - 1) + 1 = k /\ k - 1 \in 0..N
    BY <1>1
  <2> QED BY <1>1, <1>4, <1>8, <2>1
<1> QED BY <1>8, <1>9 DEF Good

\* A gather starts each of its nodes' tasks once.
LEMMA InOrderEntries ==
  ASSUME NEW c, NEW S, IsFiniteSet(S)
  PROVE  /\ Cardinality(S) \in Nat
         /\ InOrder(c, S) \in [1..Cardinality(S) -> {c} \X S]
         /\ \A i, j \in 1..Cardinality(S) : InOrder(c, S)[i] = InOrder(c, S)[j] => i = j
<1> DEFINE N == Cardinality(S)
           rest == CHOOSE f : Rests(f, S, N)
<1>1. N \in Nat
  BY FS_CardinalityType
<1>2. Rests(rest, S, N)
  <2>1. \E f : Rests(f, S, N)
    BY <1>1, RestsExist
  <2> QED BY <2>1
<1>3. InOrder(c, S) = [k \in 1..N |-> <<c, One(rest[k - 1])>>]
  BY DEF InOrder, Rests, One
<1> HIDE DEF rest
<1>4. /\ \A k \in 0..N : rest[k] \subseteq S
      /\ \A k \in 1..N : One(rest[k - 1]) \in rest[k - 1] /\ rest[k] = rest[k - 1] \ {One(rest[k - 1])}
  BY <1>2, RestsShrink
<1>5. ASSUME NEW i \in 1..N PROVE One(rest[i - 1]) \in S
  <2>1. i - 1 \in 0..N
    BY <1>1
  <2> QED BY <1>4, <2>1
<1>6. ASSUME NEW i \in 1..N, NEW j \in 1..N, i < j PROVE One(rest[i - 1]) # One(rest[j - 1])
  <2> DEFINE T == {k \in Nat : k + i <= N => One(rest[i - 1]) \notin rest[k + i]}
  <2>1. 0 \in T
    BY <1>1, <1>4
  <2>2. \A k \in Nat : k \in T => k + 1 \in T
    <3> TAKE k \in Nat
    <3> HAVE k \in T
    <3>1. ASSUME (k + 1) + i <= N PROVE One(rest[i - 1]) \notin rest[(k + 1) + i]
      <4>1. k + i <= N /\ (k + 1) + i \in 1..N /\ ((k + 1) + i) - 1 = k + i
        BY <1>1, <3>1
      <4>2. rest[(k + 1) + i] = rest[k + i] \ {One(rest[k + i])}
        BY <1>4, <4>1
      <4> QED BY <4>1, <4>2
    <3>2. k + 1 \in Nat
      OBVIOUS
    <3> QED BY <3>1, <3>2
  <2>3. Nat \subseteq T
    <3> HIDE DEF T
    <3> QED BY <2>1, <2>2, SetInduction
  <2>4. (j - 1) - i \in Nat /\ ((j - 1) - i) + i = j - 1 /\ j - 1 <= N
    BY <1>1, <1>6
  <2>5. One(rest[i - 1]) \notin rest[j - 1]
    BY <2>3, <2>4
  <2> QED BY <1>4, <2>5
<1>7. \A i, j \in 1..N : One(rest[i - 1]) = One(rest[j - 1]) => i = j
  BY <1>1, <1>6
<1> QED BY <1>1, <1>3, <1>5, <1>7

-----------------------------------------------------------------------------
(* The queue of the tasks that await the lock.                             *)

\* A task leaves the head of the queue.
LEMMA TailWaits ==
  ASSUME NEW q \in Seq(Call \X Node), NEW T, NEW U, NEW c \in Call, NEW n \in Node,
         Waits(q, T), Len(q) > 0, Head(q) = <<c, n>>,
         \A d \in Call, m \in Node : <<d, m>> # <<c, n>> => U[d][m].pc = T[d][m].pc
  PROVE  Waits(Tail(q), U) /\ \A i \in DOMAIN Tail(q) : Tail(q)[i] # <<c, n>>
<1>1. /\ Tail(q) \in Seq(Call \X Node) /\ Len(Tail(q)) = Len(q) - 1 /\ q[1] = <<c, n>>
      /\ \A i \in 1..Len(Tail(q)) : Tail(q)[i] = q[i + 1]
  BY TailEntries
<1>2. DOMAIN q = 1..Len(q) /\ DOMAIN Tail(q) = 1..Len(Tail(q)) /\ Len(q) \in Nat
  BY <1>1
<1>3. \A i \in 1..Len(Tail(q)) : i + 1 \in 1..Len(q) /\ i + 1 # 1
  BY <1>1, <1>2
<1> HIDE DEF Waits
<1>4. ASSUME NEW i \in DOMAIN Tail(q) PROVE Tail(q)[i] # <<c, n>>
  <2>1. i + 1 \in DOMAIN q /\ 1 \in DOMAIN q /\ i + 1 # 1 /\ Tail(q)[i] = q[i + 1]
    BY <1>1, <1>2, <1>3
  <2>2. q[i + 1] # q[1]
    BY <2>1 DEF Waits
  <2> QED BY <1>1, <2>1, <2>2
<1>5. ASSUME NEW i \in DOMAIN Tail(q) PROVE U[Tail(q)[i][1]][Tail(q)[i][2]].pc = "lock"
  <2>1. Tail(q)[i] \in Call \X Node /\ Tail(q)[i] = q[i + 1]
    BY <1>1, <1>2
  <2>2. PICK d \in Call, m \in Node : Tail(q)[i] = <<d, m>>
    BY <2>1
  <2>3. T[d][m].pc = "lock"
    BY <1>2, <1>3, <2>1, <2>2 DEF Waits
  <2>4. U[d][m].pc = T[d][m].pc
    BY <1>4, <2>2
  <2> QED BY <2>2, <2>3, <2>4
<1>6. \A i, j \in DOMAIN Tail(q) : Tail(q)[i] = Tail(q)[j] => i = j
  <2> SUFFICES ASSUME NEW i \in DOMAIN Tail(q), NEW j \in DOMAIN Tail(q), Tail(q)[i] = Tail(q)[j]
               PROVE  i = j
    OBVIOUS
  <2>1. i + 1 = j + 1
    BY <1>1, <1>2, <1>3 DEF Waits
  <2> QED BY <1>2, <2>1
<1> QED BY <1>4, <1>5, <1>6 DEF Waits

\* Tasks that are not in the queue await the lock.
LEMMA ConcatWaits ==
  ASSUME NEW q \in Seq(Call \X Node), NEW w \in Seq(Call \X Node), NEW T, NEW U, Waits(q, T),
         \A i \in DOMAIN q : U[q[i][1]][q[i][2]].pc = T[q[i][1]][q[i][2]].pc,
         \A i \in DOMAIN q, j \in DOMAIN w : q[i] # w[j],
         \A i, j \in DOMAIN w : w[i] = w[j] => i = j,
         \A j \in DOMAIN w : U[w[j][1]][w[j][2]].pc = "lock"
  PROVE  Waits(q \o w, U)
<1> DEFINE r == q \o w
<1>1. /\ r \in Seq(Call \X Node) /\ Len(r) = Len(q) + Len(w)
      /\ \A i \in 1..Len(q) : r[i] = q[i]
      /\ \A i \in 1..Len(w) : r[Len(q) + i] = w[i]
  BY ConcatEntries
<1>2. /\ DOMAIN q = 1..Len(q) /\ DOMAIN w = 1..Len(w) /\ DOMAIN r = 1..Len(r)
      /\ Len(q) \in Nat /\ Len(w) \in Nat
  BY <1>1
<1> HIDE DEF r
<1>3. ASSUME NEW i \in DOMAIN r
      PROVE  (i \in DOMAIN q /\ r[i] = q[i]) \/ \E j \in DOMAIN w : i = Len(q) + j /\ r[i] = w[j]
  <2>1. CASE i <= Len(q)
    BY <1>1, <1>2, <2>1
  <2>2. CASE ~(i <= Len(q))
    <3>1. i - Len(q) \in 1..Len(w) /\ i = Len(q) + (i - Len(q))
      BY <1>1, <1>2, <2>2
    <3> QED BY <1>1, <1>2, <3>1
  <2> QED BY <2>1, <2>2
<1>4. ASSUME NEW i \in DOMAIN r
      PROVE  U[r[i][1]][r[i][2]].pc \in (IF i = 1 THEN {"lock", "launch"} ELSE {"lock"})
  BY <1>3 DEF Waits
<1>5. ASSUME NEW i \in DOMAIN r, NEW j \in DOMAIN r, r[i] = r[j] PROVE i = j
  <2>1. CASE i \in DOMAIN q /\ r[i] = q[i]
    <3>1. j \in DOMAIN q /\ r[j] = q[j]
      BY <1>3, <1>5, <2>1
    <3> QED BY <1>5, <2>1, <3>1 DEF Waits
  <2>2. CASE \E k \in DOMAIN w : i = Len(q) + k /\ r[i] = w[k]
    BY <1>3, <1>5, <2>2
  <2> QED BY <1>3, <2>1, <2>2
<1> QED BY <1>4, <1>5 DEF Waits, r

\* To append is to concatenate a queue of one.
LEMMA AppendIsConcat ==
  ASSUME NEW S, NEW q \in Seq(S), NEW x \in S
  PROVE  <<x>> \in Seq(S) /\ Append(q, x) = q \o <<x>>
OBVIOUS

\* A task leaves the head of the queue for its end.
Again(q, x) == Append(Tail(q), x)

\* A task leaves the head of the queue and awaits the lock again, or another one does.
LEMMA AppendWaits ==
  ASSUME NEW q \in Seq(Call \X Node), NEW T, NEW U, NEW c \in Call, NEW n \in Node,
         Waits(q, T), Len(q) > 0, Head(q) = <<c, n>>,
         \A d \in Call, m \in Node : <<d, m>> # <<c, n>> => U[d][m].pc = T[d][m].pc,
         U[c][n].pc = "lock"
  PROVE  Waits(Again(q, <<c, n>>), U)
<1> DEFINE w == << <<c, n>> >>
<1>1. /\ Tail(q) \in Seq(Call \X Node)
      /\ Waits(Tail(q), U) /\ \A i \in DOMAIN Tail(q) : Tail(q)[i] # <<c, n>>
  BY TailEntries, TailWaits
<1>2. w \in Seq(Call \X Node) /\ Append(Tail(q), <<c, n>>) = Tail(q) \o w
  BY <1>1, AppendIsConcat
<1>3. /\ \A j \in DOMAIN w : w[j] = <<c, n>>
      /\ \A i, j \in DOMAIN w : w[i] = w[j] => i = j
  OBVIOUS
<1> HIDE DEF w
<1>4. /\ \A i \in DOMAIN Tail(q), j \in DOMAIN w : Tail(q)[i] # w[j]
      /\ \A j \in DOMAIN w : U[w[j][1]][w[j][2]].pc = "lock"
  BY <1>1, <1>3
<1>5. Waits(Tail(q) \o w, U)
  BY <1>1, <1>2, <1>3, <1>4, ConcatWaits
<1> QED BY <1>2, <1>5 DEF Again

\* The queue stays and so does what its tasks do, or the first one launches.
LEMMA StillWaits ==
  ASSUME NEW q \in Seq(Call \X Node), NEW T, NEW U, Waits(q, T),
         \A i \in DOMAIN q : \/ U[q[i][1]][q[i][2]].pc = T[q[i][1]][q[i][2]].pc
                             \/ i = 1 /\ U[q[i][1]][q[i][2]].pc = "launch"
  PROVE  Waits(q, U)
BY DEF Waits

\* The first task launches.
LEMMA LaunchWaits ==
  ASSUME NEW q \in Seq(Call \X Node), NEW T, NEW U, NEW c \in Call, NEW n \in Node,
         Waits(q, T), Len(q) > 0, Head(q) = <<c, n>>,
         \A d \in Call, m \in Node : <<d, m>> # <<c, n>> => U[d][m].pc = T[d][m].pc,
         U[c][n].pc = "launch"
  PROVE  Waits(q, U)
<1>1. q[1] = <<c, n>> /\ 1 \in DOMAIN q
  OBVIOUS
<1>2. ASSUME NEW i \in DOMAIN q
      PROVE  \/ U[q[i][1]][q[i][2]].pc = T[q[i][1]][q[i][2]].pc
             \/ i = 1 /\ U[q[i][1]][q[i][2]].pc = "launch"
  <2>1. q[i] \in Call \X Node
    OBVIOUS
  <2>2. PICK d \in Call, m \in Node : q[i] = <<d, m>>
    BY <2>1
  <2>3. CASE i = 1
    BY <1>1, <2>3
  <2>4. CASE i # 1
    <3>1. q[i] # <<c, n>>
      BY <1>1, <2>4 DEF Waits
    <3> QED BY <2>2, <3>1
  <2> QED BY <2>3, <2>4
<1> QED BY <1>2, StillWaits
-----------------------------------------------------------------------------
(* The steps of calls.                                                     *)

\* Records of processes and tasks stay records when a reset begins a new epoch.
LEMMA RecordsGrow ==
  ASSUME NEW e \in Nat, NEW f \in Nat, e <= f
  PROVE  TaskRecord(e) \subseteq TaskRecord(f) /\ ProcessRecord(e) \subseteq ProcessRecord(f)
BY DEF TaskRecord, ProcessRecord

\* The tasks of a call that gathers begin.
LEMMA EnterTasks ==
  ASSUME Types, QueueInv, NEW c \in Call, NEW op \in NodeOperation \cup {"start", "stop"},
         NEW ns \in SUBSET Node, Enter(c, op, ns), \A n \in Node : task[c][n].pc \notin Pending,
         NEW e \in Nat, epoch <= e
  PROVE  /\ task' \in [Call -> [Node -> TaskRecord(e)]]
         /\ queue' \in Seq(Call \X Node) /\ QueueInv'
         /\ \A d \in Call \ {c}, n \in Node : task'[d][n] = task[d][n]
         /\ \A n \in Node : /\ task'[c][n].pc \in Pending => n \in ns
                            /\ task'[c][n].op = "kill" /\ task'[c][n].pc \in Pending => n \in Database
<1>1. PICK ok : ok = {n \in ns : Accepts(op, n)'}
  OBVIOUS
<1>2. /\ task' = [task EXCEPT ![c] = [n \in Node |->
            IF n \in ns THEN [op |-> op, pc |-> IF n \in ok THEN "lock" ELSE "failed", process |-> 0, epoch |-> 0]
            ELSE task[c][n]]]
      /\ queue' = queue \o InOrder(c, ok)
  BY <1>1 DEF Enter, Types
<1>3. ok \subseteq ns /\ (op = "kill" => ok \subseteq Database)
  BY <1>1 DEF Accepts
<1>4. IsFiniteSet(ok)
  BY <1>3, NodeAssumption, FS_Subset
<1>5. task \in [Call -> [Node -> TaskRecord(epoch)]] /\ queue \in Seq(Call \X Node) /\ epoch \in Nat
  BY DEF Types
<1>6. task \in [Call -> [Node -> TaskRecord(e)]]
  BY <1>5, RecordsGrow
<1>7. \A n \in Node : task'[c][n] = IF n \in ns THEN [op |-> op, pc |-> IF n \in ok THEN "lock" ELSE "failed",
                                                      process |-> 0, epoch |-> 0]
                                    ELSE task[c][n]
  BY <1>2, <1>5
<1>8. \A d \in Call \ {c}, n \in Node : task'[d][n] = task[d][n]
  BY <1>2, <1>5
<1>9. task' \in [Call -> [Node -> TaskRecord(e)]]
  <2>1. [n \in Node |-> IF n \in ns THEN [op |-> op, pc |-> IF n \in ok THEN "lock" ELSE "failed",
                                           process |-> 0, epoch |-> 0]
                        ELSE task[c][n]] \in [Node -> TaskRecord(e)]
    BY <1>6 DEF TaskRecord, Pending
  <2> QED BY <1>2, <1>6, <2>1
<1>10. PICK N, w : /\ N \in Nat /\ w = InOrder(c, ok) /\ w \in [1..N -> {c} \X ok]
                   /\ \A i, j \in 1..N : w[i] = w[j] => i = j
  BY <1>4, InOrderEntries
<1>11. w \in Seq(Call \X Node) /\ DOMAIN w = 1..N
  <2>1. w \in [1..N -> Call \X Node]
    BY <1>3, <1>10
  <2> QED BY <1>10, <2>1
<1>12. queue' \in Seq(Call \X Node)
  BY <1>2, <1>5, <1>10, <1>11
<1>13. QueueInv'
  <2>1. Waits(queue, task)
    BY DEF QueueInv
  <2>2. ASSUME NEW i \in DOMAIN queue
        PROVE  queue[i][1] \in Call \ {c} /\ queue[i][2] \in Node
    <3>1. queue[i] \in Call \X Node
      BY <1>5
    <3>2. task[queue[i][1]][queue[i][2]].pc \in {"lock", "launch"}
      BY <2>1 DEF Waits
    <3> QED BY <3>1, <3>2 DEF Pending
  <2>3. \A i \in DOMAIN queue : task'[queue[i][1]][queue[i][2]].pc = task[queue[i][1]][queue[i][2]].pc
    BY <1>8, <2>2
  <2>4. \A j \in DOMAIN w : w[j][1] = c /\ w[j][2] \in ok
    BY <1>10, <1>11
  <2>5. \A i \in DOMAIN queue, j \in DOMAIN w : queue[i] # w[j]
    BY <2>2, <2>4
  <2>6. ASSUME NEW j \in DOMAIN w PROVE task'[w[j][1]][w[j][2]].pc = "lock"
    <3>1. PICK n \in Node : n \in ok /\ n \in ns /\ w[j][1] = c /\ w[j][2] = n
      BY <1>3, <2>4
    <3>2. task'[c][n] = [op |-> op, pc |-> "lock", process |-> 0, epoch |-> 0]
      BY <1>7, <3>1
    <3> QED BY <3>1, <3>2
  <2>7. \A i, j \in DOMAIN w : w[i] = w[j] => i = j
    BY <1>10, <1>11
  <2>8. Waits(queue \o w, task')
    BY <1>5, <1>11, <2>1, <2>3, <2>5, <2>6, <2>7, ConcatWaits
  <2> QED BY <1>2, <1>10, <2>8 DEF QueueInv
<1>14. \A n \in Node : /\ task'[c][n].pc \in Pending => n \in ns
                       /\ task'[c][n].op = "kill" /\ task'[c][n].pc \in Pending => n \in Database
  <2> TAKE n \in Node
  <2>1. CASE n \in ns
    <3>1. task'[c][n] = [op |-> op, pc |-> IF n \in ok THEN "lock" ELSE "failed", process |-> 0, epoch |-> 0]
      BY <1>7, <2>1
    <3>2. task'[c][n].op = op /\ (n \notin ok => task'[c][n].pc = "failed")
      BY <3>1
    <3> QED BY <1>3, <2>1, <3>2 DEF Pending
  <2>2. CASE n \notin ns
    BY <1>7, <2>2
  <2> QED BY <2>1, <2>2
<1> QED BY <1>8, <1>9, <1>12, <1>13, <1>14

-----------------------------------------------------------------------------
(* The manifest.                                                           *)

\* What LabManifest.create_subprocess lists is a manifest.
LEMMA ClusterIsManifest ==
  ASSUME NEW S \in SUBSET Database
  PROVE  Manifest(Cluster(S)) /\ Members(Cluster(S)) \subseteq S /\ Joining(Cluster(S)) = {}
<1>1. S \subseteq Node /\ Meta \subseteq Node /\ Meta \cap Database = {}
  BY NodeAssumption DEF Node
<1>2. DOMAIN Cluster(S) = Meta \cup S /\ \A n \in Meta \cup S : Cluster(S)[n] = "member"
  BY DEF Cluster
<1>3. Cluster(S) \in [DOMAIN Cluster(S) -> Standing]
  BY DEF Cluster, Standing
<1>4. Members(Cluster(S)) \subseteq S /\ Joining(Cluster(S)) = {}
  BY <1>1, <1>2 DEF Members, Joining
<1> QED BY <1>1, <1>2, <1>3, <1>4 DEF Manifest

\* A manifest in which some nodes' standing is another, and no more nodes join.
LEMMA StandingChanges ==
  ASSUME NEW old, Manifest(old), NEW new \in [DOMAIN old -> Standing],
         \A m \in Meta : new[m] = "member", Joining(new) \subseteq Joining(old)
  PROVE  Manifest(new) /\ DOMAIN new = DOMAIN old
BY DEF Manifest

\* retire_database_node leaves a manifest.
LEMMA RetireIsManifest ==
  ASSUME NEW old, Manifest(old), NEW n \in Database, n \in DOMAIN old
  PROVE  /\ Manifest([old EXCEPT ![n] = "retired"]) /\ DOMAIN [old EXCEPT ![n] = "retired"] = DOMAIN old
         /\ Members([old EXCEPT ![n] = "retired"]) \subseteq Members(old)
         /\ \A m \in DOMAIN old : old[m] = "retired" => [old EXCEPT ![n] = "retired"][m] = "retired"
<1> DEFINE new == [old EXCEPT ![n] = "retired"]
<1>1. new \in [DOMAIN old -> Standing] /\ \A m \in DOMAIN old : new[m] = IF m = n THEN "retired" ELSE old[m]
  BY DEF Manifest, Standing
<1>2. Meta \subseteq DOMAIN old /\ n \notin Meta /\ \A m \in Meta : old[m] = "member"
  BY NodeAssumption DEF Manifest
<1> HIDE DEF new
<1>3. Joining(new) \subseteq Joining(old) /\ Members(new) \subseteq Members(old)
  BY <1>1 DEF Joining, Members
<1>4. Manifest(new) /\ DOMAIN new = DOMAIN old
  BY <1>1, <1>2, <1>3, StandingChanges
<1> QED BY <1>1, <1>3, <1>4 DEF new

\* mark_database_node_joined leaves a manifest.
LEMMA JoinIsManifest ==
  ASSUME NEW old, Manifest(old), NEW n \in Database
  PROVE  LET new == [old EXCEPT ![n] = IF @ = "joining" THEN "member" ELSE @]
         IN  /\ Manifest(new) /\ DOMAIN new = DOMAIN old
             /\ Members(new) \subseteq Members(old) \cup {n}
             /\ \A m \in DOMAIN old : old[m] = "retired" => new[m] = "retired"
<1> DEFINE new == [old EXCEPT ![n] = IF @ = "joining" THEN "member" ELSE @]
<1>1. \A m \in DOMAIN old : old[m] \in Standing
  BY DEF Manifest
<1>2. /\ new \in [DOMAIN old -> Standing]
      /\ \A m \in DOMAIN old : new[m] = IF m = n /\ old[m] = "joining" THEN "member" ELSE old[m]
  BY <1>1 DEF Standing
<1>3. Meta \subseteq DOMAIN old /\ n \notin Meta /\ \A m \in Meta : old[m] = "member"
  BY NodeAssumption DEF Manifest
<1> HIDE DEF new
<1>4. Joining(new) \subseteq Joining(old) /\ Members(new) \subseteq Members(old) \cup {n}
  BY <1>2 DEF Joining, Members
<1>5. Manifest(new) /\ DOMAIN new = DOMAIN old
  BY <1>2, <1>3, <1>4, StandingChanges
<1> QED BY <1>2, <1>4, <1>5 DEF new

\* A new node is listed.
LEMMA ListedIsManifest ==
  ASSUME Manifest(nodes), NEW n \in Fresh, Joining(nodes) = {}
  PROVE  /\ Manifest(Listed(n)) /\ DOMAIN Listed(n) = DOMAIN nodes \cup {n}
         /\ Members(Listed(n)) \subseteq Members(nodes)
         /\ \A m \in DOMAIN nodes : Listed(n)[m] = nodes[m]
<1> DEFINE new == Listed(n)
<1>1. /\ DOMAIN new = DOMAIN nodes \cup {n}
      /\ \A m \in DOMAIN new : new[m] = IF m = n THEN "joining" ELSE nodes[m]
  BY DEF Listed
<1>2. n \in Database /\ n \notin DOMAIN nodes /\ n \in Node /\ n \notin Meta
  BY NodeAssumption DEF Fresh, Node
<1>3. new \in [DOMAIN new -> Standing]
  BY DEF Listed, Manifest, Standing
<1> HIDE DEF new
<1>4. Members(new) \subseteq Members(nodes) /\ Joining(new) \subseteq {n}
  BY <1>1, <1>2 DEF Members, Joining
<1>5. Manifest(new)
  BY <1>1, <1>2, <1>3, <1>4 DEF Manifest
<1> QED BY <1>1, <1>2, <1>4, <1>5 DEF new
-----------------------------------------------------------------------------
(* A step of one call.                                                     *)

\* One call takes a step that keeps the invariant's parts for that call; the others' hold.
LEMMA OneCallStep ==
  ASSUME ControllerInv, NEW c \in Call, Types',
         \A d \in Call \ {c} : call'[d] = call[d] /\ \A n \in Node : task'[d][n] = task[d][n],
         CallInv(call'[c]), \A n \in Node : TaskInv(task'[c][n], call'[c], n),
         QueueInv',
         deployment' \in {deployment, c, NoCall}, deployment' = c => Holding(call'[c]),
         deployment \notin {c, NoCall} => deployment' = deployment /\ DOMAIN nodes' = DOMAIN nodes,
         Stopping(call'[c]) => deployment' = c /\ call'[c].members \cap DOMAIN nodes' = {},
         UNCHANGED processes \/ \A n \in Node : tracked'[n] = 0,
         Members(nodes') \subseteq admitted'
  PROVE  ControllerInv'
<1>1. NoCall \notin Call
  BY NoneAssumption
<1>2. \A d \in Call : CallInv(call'[d]) /\ \A n \in Node : TaskInv(task'[d][n], call'[d], n)
  BY DEF ControllerInv
<1>3. DeploymentInv'
  <2> SUFFICES ASSUME deployment' # NoCall PROVE Holding(call'[deployment'])
    BY DEF DeploymentInv, Holding
  <2>1. CASE deployment' = c
    BY <2>1
  <2>2. CASE deployment' # c
    <3>1. deployment' = deployment /\ deployment \in Call \ {c}
      BY <2>2 DEF ControllerInv, Types
    <3>2. call'[deployment] = call[deployment] /\ Holding(call[deployment])
      BY <1>1, <3>1 DEF ControllerInv, DeploymentInv, Holding
    <3> QED BY <3>1, <3>2
  <2> QED BY <2>1, <2>2
<1>4. ResetInv'
  <2> SUFFICES ASSUME NEW d \in Call, Stopping(call'[d])
               PROVE  deployment' = d /\ call'[d].members \cap DOMAIN nodes' = {}
    BY DEF ResetInv, Stopping
  <2>1. CASE d = c
    BY <2>1
  <2>2. CASE d # c
    <3>1. call'[d] = call[d]
      BY <2>2
    <3>2. deployment = d /\ call[d].members \cap DOMAIN nodes = {}
      BY <3>1 DEF ControllerInv, ResetInv, Stopping
    <3>3. deployment' = deployment /\ DOMAIN nodes' = DOMAIN nodes
      BY <1>1, <2>2, <3>2
    <3> QED BY <3>1, <3>2, <3>3
  <2> QED BY <2>1, <2>2
<1>5. PauseIsKnown'
  <2>1. CASE UNCHANGED processes
    BY <2>1 DEF ControllerInv, PauseIsKnown, Running, Held, processes
  <2>2. CASE \A n \in Node : tracked'[n] = 0
    BY <2>2 DEF PauseIsKnown, Running
  <2> QED BY <2>1, <2>2
<1> QED BY <1>2, <1>3, <1>4, <1>5 DEF ControllerInv, JoinedWereAdmitted

\* The call ends: its tasks that are under way go on without it.
LEMMA EndCallStep ==
  ASSUME ControllerInv, NEW c \in Call, EndCall(c), queue' = queue
  PROVE  /\ call' \in [Call -> CallRecord] /\ task' \in [Call -> [Node -> TaskRecord(epoch)]]
         /\ \A d \in Call \ {c} : call'[d] = call[d] /\ \A n \in Node : task'[d][n] = task[d][n]
         /\ call'[c].pc = "ended" /\ call'[c].op = "none"
         /\ CallInv(call'[c]) /\ \A n \in Node : TaskInv(task'[c][n], call'[c], n)
         /\ QueueInv'
         /\ deployment' \in Call \cup {NoCall} /\ deployment' # c
         /\ deployment' \in {deployment, NoCall} /\ (deployment # c => deployment' = deployment)
<1>1. /\ task \in [Call -> [Node -> TaskRecord(epoch)]] /\ call \in [Call -> CallRecord]
      /\ queue \in Seq(Call \X Node) /\ epoch \in Nat /\ deployment \in Call \cup {NoCall}
      /\ Waits(queue, task)
  BY DEF ControllerInv, Types, QueueInv
<1>2. PICK ended : ended = [Idle EXCEPT !.pc = "ended"]
  OBVIOUS
<1>3. /\ ended \in CallRecord /\ ended.pc = "ended" /\ ended.op = "none" /\ ended.phase = "none"
      /\ ended.group = {} /\ ended.left = {}
  BY <1>2 DEF CallRecord, Idle
<1>4. call' = [call EXCEPT ![c] = ended]
  BY <1>2 DEF EndCall
<1>5. /\ call' \in [Call -> CallRecord] /\ call'[c] = ended
      /\ \A d \in Call \ {c} : call'[d] = call[d]
  BY <1>1, <1>3, <1>4
<1>6. NoOperation \in TaskRecord(epoch) /\ NoOperation.pc = "none"
  BY <1>1 DEF NoOperation, TaskRecord
<1>7. \A n \in Node : task'[c][n] = IF task[c][n].pc \in {"done", "failed"} THEN NoOperation ELSE task[c][n]
  BY <1>1 DEF EndCall
<1>8. \A d \in Call \ {c} : \A n \in Node : task'[d][n] = task[d][n]
  BY <1>1 DEF EndCall
<1>9. task' \in [Call -> [Node -> TaskRecord(epoch)]]
  <2>1. [n \in Node |-> IF task[c][n].pc \in {"done", "failed"} THEN NoOperation ELSE task[c][n]]
          \in [Node -> TaskRecord(epoch)]
    BY <1>1, <1>6
  <2> QED BY <1>1, <2>1 DEF EndCall
<1>10. \A n \in Node : task'[c][n].pc \in Pending => task'[c][n] = task[c][n]
  BY <1>6, <1>7 DEF Pending
<1>11. CallInv(call'[c]) /\ \A n \in Node : TaskInv(task'[c][n], call'[c], n)
  BY <1>3, <1>5, <1>10 DEF CallInv, TaskInv, ControllerInv
<1>12. QueueInv'
  <2>1. ASSUME NEW i \in DOMAIN queue
        PROVE  task'[queue[i][1]][queue[i][2]].pc = task[queue[i][1]][queue[i][2]].pc
    <3>1. PICK d \in Call, n \in Node : queue[i] = <<d, n>>
      <4>1. queue[i] \in Call \X Node
        BY <1>1
      <4> QED BY <4>1
    <3>2. task[d][n].pc \in {"lock", "launch"}
      <4>1. task[queue[i][1]][queue[i][2]].pc \in {"lock", "launch"}
        BY <1>1 DEF Waits
      <4> QED BY <3>1, <4>1
    <3>3. task'[d][n] = task[d][n]
      BY <1>7, <1>8, <3>2
    <3> QED BY <3>1, <3>3
  <2>2. Waits(queue, task')
    BY <1>1, <2>1, StillWaits
  <2> QED BY <2>2 DEF QueueInv
<1>13. deployment' = IF deployment = c THEN NoCall ELSE deployment
  BY DEF EndCall
<1>14. c # NoCall
  BY NoneAssumption
<1> QED BY <1>1, <1>3, <1>5, <1>8, <1>9, <1>11, <1>12, <1>13, <1>14

\* A call that is not gathering, or has gathered all it waits for, has no task under way.
LEMMA NonePending ==
  ASSUME ControllerInv, NEW c \in Call,
         \/ call[c].pc \in {"idle", "deploy", "health", "join"}
         \/ call[c].pc = "gather" /\ \A n \in call[c].group : task[c][n].pc = "done"
  PROVE  \A n \in Node : task[c][n].pc \notin Pending
BY DEF ControllerInv, TaskInv, Pending

-----------------------------------------------------------------------------
(* The operations on the cluster.                                          *)

\* What the steps of a call need of the invariant.
LEMMA CallFacts ==
  ASSUME ControllerInv, NEW c \in Call
  PROVE  /\ call[c] \in CallRecord /\ CallInv(call[c]) /\ NoCall # c
         /\ Manifest(nodes) /\ saved = nodes /\ epoch \in Nat /\ DOMAIN nodes \subseteq Node
         /\ Meta \subseteq Node /\ Database \subseteq Node
         /\ Members(nodes) \subseteq admitted /\ Members(nodes) \subseteq Database
         /\ Joining(nodes) \subseteq Database /\ admitted \subseteq Database
BY NoneAssumption DEF ControllerInv, Types, Manifest, Members, Joining, JoinedWereAdmitted, Node

\* The call's own fields change and no task does.
LEMMA FieldsStep ==
  ASSUME ControllerInv, NEW c \in Call, NEW x \in CallRecord, call' = [call EXCEPT ![c] = x],
         UNCHANGED <<manifest, processes, queue, deployment, task, admitted, failures>>,
         CallInv(x), \A n \in Node : task[c][n].pc \notin Pending,
         deployment = c => Holding(x), ~Stopping(x)
  PROVE  ControllerInv'
<1>1. call \in [Call -> CallRecord] /\ Types
  BY DEF ControllerInv, Types
<1>2. /\ call' \in [Call -> CallRecord] /\ call'[c] = x
      /\ \A d \in Call \ {c} : call'[d] = call[d]
  BY <1>1
<1>3. Types'
  BY <1>1, <1>2 DEF Types, manifest, processes
<1>4. \A n \in Node : TaskInv(task'[c][n], call'[c], n)
  BY DEF TaskInv
<1>5. QueueInv'
  BY DEF ControllerInv, QueueInv
<1>6. Members(nodes') \subseteq admitted'
  BY CallFacts DEF manifest
<1>7. deployment' = deployment /\ DOMAIN nodes' = DOMAIN nodes /\ task' = task
  BY DEF manifest
<1> QED BY <1>2, <1>3, <1>4, <1>5, <1>6, <1>7, OneCallStep

\* The call ends and nothing else changes but a join that is marked.
LEMMA EndStep ==
  ASSUME ControllerInv, NEW c \in Call, EndCall(c), UNCHANGED <<processes, queue, epoch, failures>>,
         Manifest(nodes'), saved' = nodes', DOMAIN nodes' = DOMAIN nodes,
         Members(nodes') \subseteq admitted', admitted' \subseteq Database
  PROVE  ControllerInv'
<1>1. Types
  BY DEF ControllerInv
<1>2. /\ call' \in [Call -> CallRecord] /\ task' \in [Call -> [Node -> TaskRecord(epoch)]]
      /\ \A d \in Call \ {c} : call'[d] = call[d] /\ \A n \in Node : task'[d][n] = task[d][n]
      /\ call'[c].pc = "ended" /\ call'[c].op = "none"
      /\ CallInv(call'[c]) /\ \A n \in Node : TaskInv(task'[c][n], call'[c], n)
      /\ QueueInv'
      /\ deployment' \in Call \cup {NoCall} /\ deployment' # c
      /\ deployment' \in {deployment, NoCall} /\ (deployment # c => deployment' = deployment)
  BY EndCallStep
<1>3. Types'
  BY <1>1, <1>2 DEF Types, processes
<1>4. ~Stopping(call'[c])
  BY <1>2 DEF Stopping
<1> QED BY <1>2, <1>3, <1>4, OneCallStep

\* start_cluster goes on to the wait for health.
LEMMA StartedInv == ASSUME ControllerInv, NEW c \in Call, Started(c) PROVE ControllerInv'
<1>1. call[c] \in CallRecord /\ CallInv(call[c])
  BY CallFacts
<1>2. /\ call[c].pc = "gather" /\ call[c].phase \in {"metas", "members", "joiner"}
      /\ \A n \in call[c].group : task[c][n].pc = "done"
      /\ Calls(c, [call[c] EXCEPT !.pc = "health", !.left = call[c].group])
      /\ UNCHANGED <<manifest, processes, queue, deployment, task, admitted, failures>>
  BY DEF Started, Gathered
<1>3. PICK x : x = [call[c] EXCEPT !.pc = "health", !.left = call[c].group]
  OBVIOUS
<1>4. /\ x \in CallRecord /\ x.pc = "health" /\ x.left = call[c].group /\ x.group = call[c].group
      /\ x.phase = call[c].phase /\ x.joining = call[c].joining
  BY <1>1, <1>3 DEF CallRecord
<1>5. CallInv(x)
  BY <1>1, <1>2, <1>4 DEF CallInv
<1>6. \A n \in Node : task[c][n].pc \notin Pending
  BY <1>2, NonePending
<1>7. deployment = c => Holding(x)
  BY <1>4, CallFacts DEF Holding, ControllerInv, DeploymentInv
<1>8. call' = [call EXCEPT ![c] = x] /\ ~Stopping(x)
  BY <1>2, <1>3, <1>4 DEF Calls, Stopping
<1> QED BY <1>2, <1>4, <1>5, <1>6, <1>7, <1>8, FieldsStep

\* A node that a call waits for is healthy.
LEMMA HealthyInv == ASSUME ControllerInv, NEW c \in Call, Healthy(c) PROVE ControllerInv'
<1>1. call[c] \in CallRecord /\ CallInv(call[c])
  BY CallFacts
<1>2. PICK x, S : x = [call[c] EXCEPT !.left = call[c].left \ S] /\ call' = [call EXCEPT ![c] = x]
  BY DEF Healthy, Calls
<1>3. /\ call[c].pc = "health"
      /\ UNCHANGED <<manifest, processes, queue, deployment, task, admitted, failures>>
  BY DEF Healthy
<1>4. /\ x \in CallRecord /\ x.pc = call[c].pc /\ x.left \subseteq call[c].left /\ x.group = call[c].group
      /\ x.phase = call[c].phase /\ x.joining = call[c].joining
  BY <1>1, <1>2 DEF CallRecord
<1>5. CallInv(x)
  BY <1>1, <1>3, <1>4 DEF CallInv
<1>6. \A n \in Node : task[c][n].pc \notin Pending
  BY <1>3, NonePending
<1>7. deployment = c => Holding(x)
  BY <1>4, CallFacts DEF Holding, ControllerInv, DeploymentInv
<1>8. ~Stopping(x)
  BY <1>3, <1>4 DEF Stopping
<1> QED BY <1>2, <1>3, <1>4, <1>5, <1>6, <1>7, <1>8, FieldsStep

\* stop_cluster ends.
LEMMA DoneInv == ASSUME ControllerInv, NEW c \in Call, Done(c) PROVE ControllerInv'
<1>1. EndCall(c) /\ UNCHANGED <<manifest, processes, queue, admitted, failures>>
  BY DEF Done
<1>2. nodes' = nodes /\ saved' = saved /\ epoch' = epoch /\ UNCHANGED <<processes, queue, epoch, failures>>
  BY <1>1 DEF manifest
<1>3. Manifest(nodes) /\ saved = nodes /\ Members(nodes) \subseteq admitted /\ admitted \subseteq Database
  BY CallFacts
<1>4. Manifest(nodes') /\ saved' = nodes' /\ Members(nodes') \subseteq admitted' /\ admitted' \subseteq Database
  BY <1>1, <1>2, <1>3
<1> QED BY <1>1, <1>2, <1>4, EndStep

\* A call ends with an error, and gives back the lock that it holds.
LEMMA FailsInv == ASSUME ControllerInv, NEW c \in Call, Fails(c) PROVE ControllerInv'
<1>1. EndCall(c) /\ UNCHANGED <<manifest, processes, queue, failures>>
  BY DEF Fails
<1>2. nodes' = nodes /\ saved' = saved /\ epoch' = epoch /\ UNCHANGED <<processes, queue, epoch, failures>>
  BY <1>1 DEF manifest
<1>3. /\ Manifest(nodes) /\ saved = nodes /\ Members(nodes) \subseteq admitted /\ admitted \subseteq Database
      /\ CallInv(call[c])
  BY CallFacts
<1>4. admitted \subseteq admitted' /\ admitted' \subseteq Database
  <2>1. CASE admitted' = admitted
    BY <1>3, <2>1
  <2>2. CASE admitted' # admitted
    <3>1. call[c].pc = "join" /\ admitted' = admitted \cup call[c].group
      BY <2>2 DEF Fails
    <3> QED BY <1>3, <3>1 DEF CallInv
  <2> QED BY <2>1, <2>2
<1>5. Manifest(nodes') /\ saved' = nodes' /\ Members(nodes') \subseteq admitted'
  BY <1>2, <1>3, <1>4
<1> QED BY <1>1, <1>2, <1>4, <1>5, EndStep

\* The admission of a joining node is over; the node is marked if it still joins.
LEMMA JoinedInv == ASSUME ControllerInv, NEW c \in Call, Joined(c) PROVE ControllerInv'
<1>1. PICK n \in call[c].group : MarkJoined(n) /\ admitted' = admitted \cup {n}
  BY DEF Joined
<1>2. call[c].pc = "join" /\ EndCall(c) /\ UNCHANGED <<processes, queue, failures>>
  BY DEF Joined
<1>3. /\ Manifest(nodes) /\ saved = nodes /\ Members(nodes) \subseteq admitted /\ admitted \subseteq Database
      /\ CallInv(call[c])
  BY CallFacts
<1>4. n \in Database
  BY <1>2, <1>3 DEF CallInv
<1>5. PICK new : /\ new = [nodes EXCEPT ![n] = IF @ = "joining" THEN "member" ELSE @]
                 /\ nodes' = new /\ saved' = new /\ epoch' = epoch
  BY <1>1 DEF MarkJoined, Save
<1>6. Manifest(new) /\ DOMAIN new = DOMAIN nodes /\ Members(new) \subseteq Members(nodes) \cup {n}
  BY <1>3, <1>4, <1>5, JoinIsManifest
<1>7. /\ Manifest(nodes') /\ saved' = nodes' /\ DOMAIN nodes' = DOMAIN nodes
      /\ Members(nodes') \subseteq admitted' /\ admitted' \subseteq Database
  BY <1>1, <1>3, <1>4, <1>5, <1>6
<1>8. UNCHANGED <<processes, queue, epoch, failures>>
  BY <1>2, <1>5
<1> QED BY <1>2, <1>7, <1>8, EndStep

-----------------------------------------------------------------------------
(* The steps that gather.                                                  *)

\* A call gathers and holds what it needs to.
LEMMA GatherInv ==
  ASSUME ControllerInv, NEW c \in Call, NEW op \in NodeOperation \cup {"start", "stop"},
         NEW phase \in {"node", "stops", "metas", "members", "joiner"},
         NEW ns \in SUBSET Node, phase = "joiner" => ns \subseteq Database,
         NEW new \in CallRecord, new.left = {},
         Gather(c, op, phase, ns, new), \A n \in Node : task[c][n].pc \notin Pending,
         epoch' \in Nat, epoch <= epoch', process' = process, failures' = failures,
         \/ UNCHANGED <<tracked, paused>>
         \/ tracked' = [n \in Node |-> 0] /\ paused' = {},
         Manifest(nodes'), saved' = nodes',
         Members(nodes') \subseteq admitted', admitted' \subseteq Database,
         deployment' \in {deployment, c},
         deployment' = c /\ phase \in {"metas", "members"} => new.joining = {},
         deployment \notin {c, NoCall} => deployment' = deployment /\ DOMAIN nodes' = DOMAIN nodes,
         new.op = "reset" /\ phase = "stops" => deployment' = c /\ new.members \cap DOMAIN nodes' = {}
  PROVE  ControllerInv'
<1>1. PICK e : e = epoch' /\ e \in Nat /\ epoch <= e
  OBVIOUS
<1>2. /\ call' \in [Call -> CallRecord] /\ task' \in [Call -> [Node -> TaskRecord(e)]]
      /\ queue' \in Seq(Call \X Node)
      /\ \A d \in Call \ {c} : call'[d] = call[d] /\ \A n \in Node : task'[d][n] = task[d][n]
      /\ call'[c].pc = "gather" /\ call'[c].phase = phase /\ call'[c].op = new.op
      /\ call'[c].members = new.members /\ call'[c].joining = new.joining
      /\ CallInv(call'[c]) /\ \A n \in Node : TaskInv(task'[c][n], call'[c], n)
      /\ QueueInv'
  <2>1. Types /\ QueueInv /\ call \in [Call -> CallRecord]
    BY DEF ControllerInv, Types
  <2>2. PICK x : x = [new EXCEPT !.pc = "gather", !.phase = phase, !.group = ns]
    OBVIOUS
  <2>3. /\ x \in CallRecord /\ x.pc = "gather" /\ x.phase = phase /\ x.group = ns /\ x.op = new.op
        /\ x.members = new.members /\ x.joining = new.joining /\ x.left = {}
    BY <2>2 DEF CallRecord
  <2>4. call' = [call EXCEPT ![c] = x] /\ Enter(c, op, ns)
    BY <2>2 DEF Gather, Calls
  <2>5. /\ call' \in [Call -> CallRecord] /\ call'[c] = x
        /\ \A d \in Call \ {c} : call'[d] = call[d]
    BY <2>1, <2>3, <2>4
  <2>6. /\ task' \in [Call -> [Node -> TaskRecord(e)]]
        /\ queue' \in Seq(Call \X Node) /\ QueueInv'
        /\ \A d \in Call \ {c}, n \in Node : task'[d][n] = task[d][n]
        /\ \A n \in Node : /\ task'[c][n].pc \in Pending => n \in ns
                           /\ task'[c][n].op = "kill" /\ task'[c][n].pc \in Pending => n \in Database
    BY <1>1, <2>1, <2>4, EnterTasks
  <2>7. CallInv(call'[c])
    BY <2>3, <2>5 DEF CallInv
  <2>8. \A n \in Node : TaskInv(task'[c][n], call'[c], n)
    BY <2>3, <2>5, <2>6 DEF TaskInv
  <2> QED BY <2>3, <2>5, <2>6, <2>7, <2>8
<1>3. Types
  BY DEF ControllerInv
<1>4. process' \in [Node -> Seq(ProcessRecord(epoch'))]
  <2>1. ProcessRecord(epoch) \subseteq ProcessRecord(epoch')
    BY <1>3, RecordsGrow DEF Types
  <2>2. \A n \in Node : process[n] \in Seq(ProcessRecord(epoch'))
    BY <1>3, <2>1 DEF Types
  <2> QED BY <1>3, <2>2 DEF Types
<1>5. tracked' \in [Node -> Nat] /\ (\A n \in Node : tracked'[n] <= Len(process'[n])) /\ paused' \subseteq Node
  <2>1. CASE UNCHANGED <<tracked, paused>>
    BY <1>3, <2>1 DEF Types
  <2>2. CASE tracked' = [n \in Node |-> 0] /\ paused' = {}
    <3>1. \A n \in Node : tracked'[n] = 0 /\ Len(process'[n]) \in Nat
      BY <1>4, <2>2
    <3> QED BY <2>2, <3>1
  <2> QED BY <2>1, <2>2
<1>6. Types'
  BY <1>1, <1>2, <1>3, <1>4, <1>5 DEF Types
<1>7. deployment' = c => Holding(call'[c])
  BY <1>2 DEF Holding
<1>8. Stopping(call'[c]) => deployment' = c /\ call'[c].members \cap DOMAIN nodes' = {}
  BY <1>2 DEF Stopping
<1>9. UNCHANGED processes \/ \A n \in Node : tracked'[n] = 0
  BY DEF processes
<1> QED BY <1>2, <1>6, <1>7, <1>8, <1>9, OneCallStep

\* A request begins, on one node or on the cluster.
LEMMA BeginInv == ASSUME ControllerInv, NEW c \in Call, Begin(c) PROVE ControllerInv'
<1>1. /\ call[c] \in CallRecord /\ CallInv(call[c]) /\ NoCall # c
      /\ Manifest(nodes) /\ saved = nodes /\ epoch \in Nat /\ DOMAIN nodes \subseteq Node
      /\ Meta \subseteq Node
      /\ Members(nodes) \subseteq admitted /\ Members(nodes) \subseteq Database
      /\ Joining(nodes) \subseteq Database /\ admitted \subseteq Database
  BY CallFacts
<1>2. call[c].pc = "idle" /\ UNCHANGED <<manifest, processes, deployment, admitted, failures>>
  BY DEF Begin
<1>3. PICK w \in Workload :
        /\ w[1] = c
        /\ \/ w[2] \in NodeOperation /\ Gather(c, w[2], "node", {w[3]}, [call[c] EXCEPT !.op = w[2]])
           \/ w[2] = "start" /\ StartCluster(c, "start", nodes)
           \/ w[2] = "stop" /\ Gather(c, "stop", "stops", DOMAIN nodes, [call[c] EXCEPT !.op = "stop"])
           \/ /\ w[2] \in {"reset", "add"}
              /\ Calls(c, [call[c] EXCEPT !.op = w[2], !.pc = "deploy"])
              /\ UNCHANGED <<task, queue>>
  BY DEF Begin
<1>4. /\ w[2] \in NodeOperation \cup {"start", "stop", "reset", "add"}
      /\ w[2] \in NodeOperation => w[3] \in Node
  BY CallAssumption
<1>5. call[c].left = {} /\ deployment # c
  BY <1>1, <1>2 DEF CallInv, ControllerInv, DeploymentInv, Holding
<1>6. \A n \in Node : task[c][n].pc \notin Pending
  BY <1>2, NonePending
<1>7. /\ nodes' = nodes /\ saved' = saved /\ epoch' = epoch /\ process' = process /\ failures' = failures
      /\ tracked' = tracked /\ paused' = paused /\ deployment' = deployment /\ admitted' = admitted
  BY <1>2 DEF manifest, processes
<1>8. /\ Manifest(nodes') /\ saved' = nodes' /\ Members(nodes') \subseteq admitted' /\ admitted' \subseteq Database
      /\ epoch' \in Nat /\ epoch <= epoch' /\ deployment' # c
  BY <1>1, <1>5, <1>7
<1>9. CASE w[2] \in NodeOperation /\ Gather(c, w[2], "node", {w[3]}, [call[c] EXCEPT !.op = w[2]])
  <2>1. PICK x : x = [call[c] EXCEPT !.op = w[2]]
    OBVIOUS
  <2>2. x \in CallRecord /\ x.left = {} /\ x.op = w[2] /\ x.op # "reset"
    BY <1>1, <1>5, <1>9, <2>1 DEF CallRecord, NodeOperation
  <2>3. {w[3]} \in SUBSET Node /\ Gather(c, w[2], "node", {w[3]}, x)
    BY <1>4, <1>9, <2>1
  <2> QED BY <1>6, <1>7, <1>8, <1>9, <2>2, <2>3, GatherInv
<1>10. CASE w[2] = "start" /\ StartCluster(c, "start", nodes)
  <2>1. PICK x : x = [call[c] EXCEPT !.op = "start", !.members = Members(nodes), !.joining = Joining(nodes)]
    OBVIOUS
  <2>2. x \in CallRecord /\ x.left = {} /\ x.op = "start"
    BY <1>1, <1>5, <2>1 DEF CallRecord, ClusterOperation
  <2>3. Gather(c, "start", "metas", Meta, x)
    BY <1>10, <2>1 DEF StartCluster
  <2> QED BY <1>1, <1>6, <1>7, <1>8, <2>2, <2>3, GatherInv
<1>11. CASE w[2] = "stop" /\ Gather(c, "stop", "stops", DOMAIN nodes, [call[c] EXCEPT !.op = "stop"])
  <2>1. PICK x : x = [call[c] EXCEPT !.op = "stop"]
    OBVIOUS
  <2>2. x \in CallRecord /\ x.left = {} /\ x.op = "stop"
    BY <1>1, <1>5, <2>1 DEF CallRecord, ClusterOperation
  <2>3. Gather(c, "stop", "stops", DOMAIN nodes, x)
    BY <1>11, <2>1
  <2> QED BY <1>1, <1>6, <1>7, <1>8, <2>2, <2>3, GatherInv
<1>12. CASE /\ w[2] \in {"reset", "add"}
            /\ Calls(c, [call[c] EXCEPT !.op = w[2], !.pc = "deploy"])
            /\ UNCHANGED <<task, queue>>
  <2>1. PICK x : x = [call[c] EXCEPT !.op = w[2], !.pc = "deploy"]
    OBVIOUS
  <2>2. /\ x \in CallRecord /\ x.left = {} /\ x.pc = "deploy" /\ x.phase = call[c].phase
        /\ x.group = call[c].group
    BY <1>1, <1>5, <1>12, <2>1 DEF CallRecord, ClusterOperation
  <2>3. CallInv(x) /\ ~Stopping(x)
    BY <1>1, <2>2 DEF CallInv, Stopping
  <2>4. call' = [call EXCEPT ![c] = x]
    BY <1>12, <2>1 DEF Calls
  <2>5. UNCHANGED <<manifest, processes, queue, deployment, task, admitted, failures>>
    BY <1>2, <1>12
  <2> QED BY <1>5, <1>6, <2>2, <2>3, <2>4, <2>5, FieldsStep
<1> QED BY <1>3, <1>9, <1>10, <1>11, <1>12

\* add_database_node lists a node and starts it.
LEMMA AddInv == ASSUME ControllerInv, NEW c \in Call, Add(c) PROVE ControllerInv'
<1>1. /\ call[c] \in CallRecord /\ CallInv(call[c]) /\ NoCall # c
      /\ Manifest(nodes) /\ saved = nodes /\ epoch \in Nat
      /\ Database \subseteq Node
      /\ Members(nodes) \subseteq admitted
      /\ Joining(nodes) \subseteq Database /\ admitted \subseteq Database
  BY CallFacts
<1>2. /\ call[c].pc = "deploy" /\ call[c].op # "reset" /\ deployment = NoCall /\ deployment' = c
      /\ UNCHANGED <<processes, admitted, failures>>
  BY DEF Add
<1>3. PICK ns, new : /\ nodes' = new /\ saved' = new /\ epoch' = epoch
                     /\ ns \subseteq Database
                     /\ Gather(c, "start", "joiner", ns, call[c])
                     /\ Manifest(new) /\ Members(new) \subseteq Members(nodes)
  <2>1. CASE Joining(nodes) # {}
    <3>1. UNCHANGED manifest /\ Gather(c, "start", "joiner", Joining(nodes), call[c])
      BY <2>1 DEF Add
    <3>2. nodes' = nodes /\ saved' = nodes /\ epoch' = epoch
      BY <1>1, <3>1 DEF manifest
    <3> QED BY <1>1, <3>1, <3>2
  <2>2. CASE Joining(nodes) = {}
    <3>1. PICK n : n \in Fresh /\ Save(Listed(n)) /\ Gather(c, "start", "joiner", {n}, call[c])
      BY <2>2 DEF Add
    <3>2. Manifest(Listed(n)) /\ Members(Listed(n)) \subseteq Members(nodes)
      BY <1>1, <2>2, <3>1, ListedIsManifest
    <3>3. n \in Database
      BY <3>1 DEF Fresh
    <3> QED BY <3>1, <3>2, <3>3 DEF Save
  <2> QED BY <2>1, <2>2
<1>4. call[c].left = {}
  BY <1>1, <1>2 DEF CallInv
<1>5. \A n \in Node : task[c][n].pc \notin Pending
  BY <1>2, NonePending
<1>6. /\ process' = process /\ UNCHANGED <<tracked, paused>> /\ failures' = failures /\ admitted' = admitted
  BY <1>2 DEF processes
<1>7. /\ Manifest(nodes') /\ saved' = nodes' /\ Members(nodes') \subseteq admitted' /\ admitted' \subseteq Database
      /\ epoch' \in Nat /\ epoch <= epoch' /\ ns \in SUBSET Node
  BY <1>1, <1>3, <1>6
<1> QED BY <1>1, <1>2, <1>3, <1>4, <1>5, <1>6, <1>7, GatherInv

\* A set has subsets of every smaller size.
LEMMA SubsetOfSize ==
  ASSUME NEW S, IsFiniteSet(S), NEW k \in Nat, k <= Cardinality(S)
  PROVE  \E R \in SUBSET S : Cardinality(R) = k
<1>1. Cardinality(S) \in Nat
  BY FS_CardinalityType
<1>2. PICK f : Rests(f, S, Cardinality(S))
  BY <1>1, RestsExist
<1>3. PICK i : i \in 0..Cardinality(S) /\ Cardinality(S) - i = k
  <2>1. Cardinality(S) - k \in 0..Cardinality(S) /\ Cardinality(S) - (Cardinality(S) - k) = k
    BY <1>1
  <2> QED BY <2>1
<1>4. f[i] \subseteq S /\ Cardinality(f[i]) = Cardinality(S) - i
  BY <1>2, <1>3, RestsShrink
<1> QED BY <1>3, <1>4

\* reset_cluster takes the lock, chooses fresh identifiers and stops the old cluster.
LEMMA ResetStepInv == ASSUME ControllerInv, NEW c \in Call, Reset(c) PROVE ControllerInv'
<1>1. /\ call[c] \in CallRecord /\ CallInv(call[c]) /\ NoCall # c
      /\ Manifest(nodes) /\ saved = nodes /\ epoch \in Nat /\ DOMAIN nodes \subseteq Node
      /\ Members(nodes) \subseteq admitted /\ admitted \subseteq Database
  BY CallFacts
<1>2. /\ call[c].pc = "deploy" /\ call[c].op = "reset" /\ deployment = NoCall /\ deployment' = c
      /\ Cardinality(Fresh) >= Cardinality(Founder)
      /\ UNCHANGED <<manifest, processes, admitted, failures>>
  BY DEF Reset
<1>3. PICK R : /\ R = CHOOSE S \in SUBSET Fresh : Cardinality(S) = Cardinality(Founder)
               /\ Gather(c, "stop", "stops", DOMAIN nodes, [call[c] EXCEPT !.members = R])
  BY DEF Reset
<1>4. R \subseteq Database /\ R \cap DOMAIN nodes = {}
  <2>1. IsFiniteSet(Fresh) /\ IsFiniteSet(Founder)
    <3>1. Fresh \subseteq Node /\ Founder \subseteq Node
      BY NodeAssumption DEF Fresh, Node
    <3> QED BY <3>1, NodeAssumption, FS_Subset
  <2>2. Cardinality(Founder) \in Nat /\ Cardinality(Fresh) \in Nat /\ Cardinality(Founder) <= Cardinality(Fresh)
    BY <1>2, <2>1, FS_CardinalityType
  <2>3. \E S \in SUBSET Fresh : Cardinality(S) = Cardinality(Founder)
    BY <2>1, <2>2, SubsetOfSize
  <2>4. R \subseteq Fresh
    BY <1>3, <2>3
  <2> QED BY <2>4 DEF Fresh
<1>5. PICK x : x = [call[c] EXCEPT !.members = R]
  OBVIOUS
<1>6. x \in CallRecord /\ x.left = {} /\ x.members = R
  BY <1>1, <1>2, <1>4, <1>5 DEF CallRecord, CallInv
<1>7. \A n \in Node : task[c][n].pc \notin Pending
  BY <1>2, NonePending
<1>8. /\ process' = process /\ UNCHANGED <<tracked, paused>> /\ failures' = failures /\ admitted' = admitted
      /\ nodes' = nodes /\ saved' = saved /\ epoch' = epoch
  BY <1>2 DEF processes, manifest
<1>9. /\ Manifest(nodes') /\ saved' = nodes' /\ Members(nodes') \subseteq admitted' /\ admitted' \subseteq Database
      /\ epoch' \in Nat /\ epoch <= epoch' /\ x.members \cap DOMAIN nodes' = {}
  BY <1>1, <1>4, <1>6, <1>8
<1>10. Gather(c, "stop", "stops", DOMAIN nodes, x)
  BY <1>3, <1>5
<1> QED BY <1>1, <1>2, <1>6, <1>7, <1>8, <1>9, <1>10, GatherInv

\* reset_cluster has stopped the old cluster: a new manifest, and its MetaStore starts.
LEMMA ReplacedInv == ASSUME ControllerInv, NEW c \in Call, Replaced(c) PROVE ControllerInv'
<1>1. /\ call[c] \in CallRecord /\ CallInv(call[c]) /\ NoCall # c /\ epoch \in Nat
      /\ Meta \subseteq Node /\ admitted \subseteq Database
  BY CallFacts
<1>2. /\ call[c].pc = "gather" /\ call[c].phase = "stops" /\ call[c].op = "reset"
      /\ \A n \in call[c].group : task[c][n].pc = "done"
  BY DEF Replaced, Gathered
<1>3. PICK ns : /\ ns = Cluster(call[c].members)
                /\ nodes' = ns /\ saved' = ns /\ StartCluster(c, "reset", ns)
  BY DEF Replaced
<1>4. /\ epoch' = epoch + 1 /\ tracked' = [n \in Node |-> 0] /\ paused' = {}
      /\ admitted' = admitted \cup call[c].members
      /\ process' = process /\ deployment' = deployment /\ failures' = failures
  BY DEF Replaced
<1>5. call[c].members \in SUBSET Database
  BY <1>1 DEF CallRecord
<1>6. Manifest(ns) /\ Members(ns) \subseteq call[c].members /\ Joining(ns) = {}
  BY <1>3, <1>5, ClusterIsManifest
<1>7. deployment = c
  BY <1>2 DEF ControllerInv, ResetInv, Stopping
<1>8. call[c].left = {}
  BY <1>1, <1>2 DEF CallInv
<1>9. PICK x : x = [call[c] EXCEPT !.op = "reset", !.members = Members(ns), !.joining = Joining(ns)]
  OBVIOUS
<1>10. x \in CallRecord /\ x.left = {} /\ x.joining = {}
  BY <1>1, <1>5, <1>6, <1>8, <1>9 DEF CallRecord, ClusterOperation
<1>11. Gather(c, "start", "metas", Meta, x)
  BY <1>3, <1>9 DEF StartCluster
<1>12. \A n \in Node : task[c][n].pc \notin Pending
  BY <1>2, NonePending
<1>13. /\ Manifest(nodes') /\ saved' = nodes' /\ Members(nodes') \subseteq admitted' /\ admitted' \subseteq Database
       /\ epoch' \in Nat /\ epoch <= epoch'
  BY <1>1, <1>3, <1>4, <1>5, <1>6
<1> QED BY <1>1, <1>4, <1>7, <1>10, <1>11, <1>12, <1>13, GatherInv

\* Everybody a call waits for is healthy: the databases start, or a join is awaited.
LEMMA AllHealthyInv == ASSUME ControllerInv, NEW c \in Call, AllHealthy(c) PROVE ControllerInv'
<1>1. /\ call[c] \in CallRecord /\ CallInv(call[c]) /\ NoCall # c
      /\ Manifest(nodes) /\ saved = nodes /\ epoch \in Nat
      /\ Database \subseteq Node
      /\ Members(nodes) \subseteq admitted /\ admitted \subseteq Database
  BY CallFacts
<1>2. /\ call[c].pc = "health" /\ call[c].left = {} /\ call[c].phase \in {"metas", "members", "joiner"}
      /\ UNCHANGED <<manifest, processes, admitted, failures>>
  BY <1>1 DEF AllHealthy, CallInv
<1>3. \A n \in Node : task[c][n].pc \notin Pending
  BY <1>2, NonePending
<1>4. /\ process' = process /\ UNCHANGED <<tracked, paused>> /\ failures' = failures /\ admitted' = admitted
      /\ nodes' = nodes /\ saved' = saved /\ epoch' = epoch
  BY <1>2 DEF processes, manifest
<1>5. /\ Manifest(nodes') /\ saved' = nodes' /\ Members(nodes') \subseteq admitted' /\ admitted' \subseteq Database
      /\ epoch' \in Nat /\ epoch <= epoch'
  BY <1>1, <1>4
<1>6. deployment = c => Holding(call[c])
  BY <1>1 DEF Holding, ControllerInv, DeploymentInv
<1>7. CASE call[c].phase = "metas"
  <2>1. Gather(c, "start", "members", call[c].members, call[c]) /\ deployment' = deployment
    BY <1>7 DEF AllHealthy
  <2>2. call[c].members \in SUBSET Node
    BY <1>1 DEF CallRecord
  <2>3. deployment' = c => call[c].joining = {}
    BY <1>6, <1>7, <2>1 DEF Holding
  <2> QED BY <1>1, <1>2, <1>3, <1>4, <1>5, <2>1, <2>2, <2>3, GatherInv
<1>8. CASE call[c].phase = "members" /\ call[c].joining # {}
  <2>1. Calls(c, [call[c] EXCEPT !.pc = "deploy"]) /\ UNCHANGED <<task, queue, deployment>>
    BY <1>8 DEF AllHealthy
  <2>2. PICK x : x = [call[c] EXCEPT !.pc = "deploy"]
    OBVIOUS
  <2>3. x \in CallRecord /\ x.pc = "deploy" /\ x.left = {} /\ x.phase = "members" /\ x.group = call[c].group
    BY <1>1, <1>2, <1>8, <2>2 DEF CallRecord
  <2>4. CallInv(x) /\ ~Stopping(x)
    BY <2>3 DEF CallInv, Stopping
  <2>5. deployment # c
    BY <1>6, <1>8 DEF Holding
  <2>6. call' = [call EXCEPT ![c] = x]
    BY <2>1, <2>2 DEF Calls
  <2>7. UNCHANGED <<manifest, processes, queue, deployment, task, admitted, failures>>
    BY <1>2, <2>1
  <2> QED BY <1>3, <2>3, <2>4, <2>5, <2>6, <2>7, FieldsStep
<1>9. CASE call[c].phase = "members" /\ call[c].joining = {}
  <2>1. EndCall(c) /\ UNCHANGED queue
    BY <1>9 DEF AllHealthy
  <2>2. UNCHANGED <<processes, queue, epoch, failures>>
    BY <1>2, <1>4, <2>1
  <2> QED BY <1>4, <1>5, <2>1, <2>2, EndStep
<1>10. CASE call[c].phase = "joiner"
  <2>1. Calls(c, [call[c] EXCEPT !.pc = "join"]) /\ UNCHANGED <<task, queue, deployment>>
    BY <1>10 DEF AllHealthy
  <2>2. PICK x : x = [call[c] EXCEPT !.pc = "join"]
    OBVIOUS
  <2>3. x \in CallRecord /\ x.pc = "join" /\ x.left = {} /\ x.phase = "joiner" /\ x.group = call[c].group
    BY <1>1, <1>2, <1>10, <2>2 DEF CallRecord
  <2>4. CallInv(x) /\ ~Stopping(x) /\ Holding(x)
    BY <1>1, <1>10, <2>3 DEF CallInv, Stopping, Holding
  <2>5. call' = [call EXCEPT ![c] = x]
    BY <2>1, <2>2 DEF Calls
  <2>6. UNCHANGED <<manifest, processes, queue, deployment, task, admitted, failures>>
    BY <1>2, <2>1
  <2> QED BY <1>3, <2>3, <2>4, <2>5, <2>6, FieldsStep
<1> QED BY <1>2, <1>7, <1>8, <1>9, <1>10

-----------------------------------------------------------------------------
(* The operation on one node.                                              *)

\* One task changes.
OneTask(old, new, c, n, t) ==
  /\ new[c][n] = t
  /\ \A d \in Call, m \in Node : <<d, m>> # <<c, n>> => new[d][m] = old[d][m]

\* A task of another call or node is as it was.
LEMMA TaskChanges ==
  ASSUME NEW R, NEW old \in [Call -> [Node -> R]], NEW c \in Call, NEW n \in Node, NEW t \in R
  PROVE  /\ [old EXCEPT ![c][n] = t] \in [Call -> [Node -> R]]
         /\ OneTask(old, [old EXCEPT ![c][n] = t], c, n, t)
BY DEF OneTask

\* A node's process gets another life.
LEMMA LifeChanges ==
  ASSUME NEW e, NEW ps \in Seq(ProcessRecord(e)), NEW i \in 1..Len(ps), NEW life \in Life
  PROVE  /\ [ps EXCEPT ![i].life = life] \in Seq(ProcessRecord(e))
         /\ Len([ps EXCEPT ![i].life = life]) = Len(ps)
         /\ \A j \in 1..Len(ps) : [ps EXCEPT ![i].life = life][j].life = IF j = i THEN life ELSE ps[j].life
<1>1. PICK r : r = [ps[i] EXCEPT !.life = life]
  OBVIOUS
<1>2. ps[i] \in ProcessRecord(e)
  OBVIOUS
<1>3. r \in ProcessRecord(e) /\ r.life = life
  BY <1>1, <1>2 DEF ProcessRecord
<1>4. [ps EXCEPT ![i].life = life] = [ps EXCEPT ![i] = r]
  BY <1>1
<1>5. [ps EXCEPT ![i] = r] \in Seq(ProcessRecord(e)) /\ Len([ps EXCEPT ![i] = r]) = Len(ps)
  BY <1>3
<1>6. \A j \in 1..Len(ps) : [ps EXCEPT ![i] = r][j] = IF j = i THEN r ELSE ps[j]
  OBVIOUS
<1> QED BY <1>3, <1>4, <1>5, <1>6

\* What PauseIsKnown says of one node, whose processes are ps, with the i-th one held.
PauseKnown(ps, i, marked) ==
  i # 0 /\ ps[i].life \in {"up", "paused"} => (ps[i].life = "paused" <=> marked)

\* A task takes a step for its node.
LEMMA OneTaskStep ==
  ASSUME ControllerInv, NEW c \in Call, NEW n \in Node, task[c][n].pc \in Pending,
         NEW t \in TaskRecord(epoch), task' \in [Call -> [Node -> TaskRecord(epoch)]],
         OneTask(task, task', c, n, t), t.op = "kill" => task[c][n].op = "kill",
         UNCHANGED <<call, deployment, admitted, failures, epoch>>,
         Manifest(nodes'), saved' = nodes', DOMAIN nodes' = DOMAIN nodes, Members(nodes') \subseteq Members(nodes),
         process' \in [Node -> Seq(ProcessRecord(epoch))], tracked' \in [Node -> Nat], paused' \subseteq Node,
         tracked'[n] <= Len(process'[n]),
         \A m \in Node \ {n} : /\ process'[m] = process[m] /\ tracked'[m] = tracked[m]
                               /\ m \in paused' <=> m \in paused,
         PauseKnown(process'[n], tracked'[n], n \in paused'),
         queue' \in Seq(Call \X Node), QueueInv'
  PROVE  ControllerInv'
<1>1. Types
  BY DEF ControllerInv
<1>2. \A m \in Node : tracked'[m] <= Len(process'[m])
  BY <1>1 DEF Types
<1>3. Types'
  BY <1>1, <1>2 DEF Types
<1>4. PauseIsKnown'
  <2> SUFFICES ASSUME NEW m \in Node PROVE PauseKnown(process'[m], tracked'[m], m \in paused')
    BY DEF PauseIsKnown, PauseKnown, Running, Held
  <2>1. CASE m = n
    BY <2>1
  <2>2. CASE m # n
    <3>1. PauseKnown(process[m], tracked[m], m \in paused)
      BY DEF ControllerInv, PauseIsKnown, PauseKnown, Running, Held
    <3>2. process'[m] = process[m] /\ tracked'[m] = tracked[m] /\ (m \in paused' <=> m \in paused)
      BY <2>2
    <3> QED BY <3>1, <3>2 DEF PauseKnown
  <2> QED BY <2>1, <2>2
<1>5. ASSUME NEW d \in Call, NEW m \in Node PROVE TaskInv(task'[d][m], call'[d], m)
  <2>1. TaskInv(task[d][m], call[d], m)
    BY DEF ControllerInv
  <2>2. CASE <<d, m>> = <<c, n>>
    BY <2>1, <2>2 DEF TaskInv, OneTask
  <2>3. CASE <<d, m>> # <<c, n>>
    BY <2>1, <2>3 DEF OneTask
  <2> QED BY <2>2, <2>3
<1>6. \A d \in Call : CallInv(call'[d])
  BY DEF ControllerInv
<1>7. DeploymentInv' /\ ResetInv'
  BY DEF ControllerInv, DeploymentInv, ResetInv
<1>8. JoinedWereAdmitted'
  BY DEF ControllerInv, JoinedWereAdmitted
<1> QED BY <1>3, <1>4, <1>5, <1>6, <1>7, <1>8 DEF ControllerInv

\* The task at the head of the queue gives the lock back, for good or to await it again, or keeps it.
LEMMA OneTaskWaits ==
  ASSUME ControllerInv, NEW c \in Call, NEW n \in Node, Len(queue) > 0, Head(queue) = <<c, n>>,
         NEW t, OneTask(task, task', c, n, t),
         \/ queue' = Tail(queue)
         \/ queue' = Append(Tail(queue), <<c, n>>) /\ t.pc = "lock"
         \/ queue' = queue /\ t.pc = "launch"
  PROVE  queue' \in Seq(Call \X Node) /\ QueueInv'
<1>1. queue \in Seq(Call \X Node) /\ Waits(queue, task)
  BY DEF ControllerInv, Types, QueueInv
<1>2. /\ task'[c][n].pc = t.pc
      /\ \A d \in Call, m \in Node : <<d, m>> # <<c, n>> => task'[d][m].pc = task[d][m].pc
  BY DEF OneTask
<1>3. Tail(queue) \in Seq(Call \X Node) /\ <<c, n>> \in Call \X Node
  BY <1>1, TailEntries
<1>4. CASE queue' = Tail(queue)
  <2>1. Waits(Tail(queue), task')
    BY <1>1, <1>2, TailWaits
  <2> QED BY <1>3, <1>4, <2>1 DEF QueueInv
<1>5. CASE queue' = Append(Tail(queue), <<c, n>>) /\ t.pc = "lock"
  <2>1. Waits(Again(queue, <<c, n>>), task')
    <3>1. task'[c][n].pc = "lock"
      BY <1>2, <1>5
    <3> QED BY <1>1, <1>2, <3>1, AppendWaits
  <2>2. Append(Tail(queue), <<c, n>>) \in Seq(Call \X Node)
    BY <1>3, AppendEntries
  <2> QED BY <1>5, <2>1, <2>2 DEF QueueInv, Again
<1>6. CASE queue' = queue /\ t.pc = "launch"
  <2>1. Waits(queue, task')
    BY <1>1, <1>2, <1>6, LaunchWaits
  <2> QED BY <1>1, <1>6, <2>1 DEF QueueInv
<1> QED BY <1>4, <1>5, <1>6

\* What the steps of a task need of the invariant.
LEMMA TaskFacts ==
  ASSUME ControllerInv, NEW n \in Node
  PROVE  /\ Manifest(nodes) /\ saved = nodes /\ epoch \in Nat
         /\ process \in [Node -> Seq(ProcessRecord(epoch))] /\ process[n] \in Seq(ProcessRecord(epoch))
         /\ tracked \in [Node -> Nat] /\ tracked[n] <= Len(process[n])
         /\ paused \subseteq Node /\ queue \in Seq(Call \X Node)
         /\ task \in [Call -> [Node -> TaskRecord(epoch)]]
         /\ PauseKnown(process[n], tracked[n], n \in paused)
         /\ Running(n) => tracked[n] \in 1..Len(process[n])
BY DEF ControllerInv, Types, PauseIsKnown, PauseKnown, Running, Held

\* A task of the node gets to another point.
LEMMA TaskGetsTo ==
  ASSUME ControllerInv, NEW c \in Call, NEW n \in Node, NEW pc \in Pending \cup {"none", "done", "failed"},
         To(c, n, pc)
  PROVE  \E t \in TaskRecord(epoch) : task' = [task EXCEPT ![c][n] = t] /\ t.pc = pc /\ t.op = task[c][n].op
<1>1. task[c][n] \in TaskRecord(epoch)
  BY TaskFacts
<1>2. PICK t : t = [task[c][n] EXCEPT !.pc = pc]
  OBVIOUS
<1>3. t \in TaskRecord(epoch) /\ t.pc = pc /\ t.op = task[c][n].op
  BY <1>1, <1>2 DEF TaskRecord, Pending
<1>4. task' = [task EXCEPT ![c][n] = t]
  BY <1>2 DEF To
<1> QED BY <1>3, <1>4

\* The manifest and the nodes' processes stay.
LEMMA QuietTaskStep ==
  ASSUME ControllerInv, NEW c \in Call, NEW n \in Node, task[c][n].pc \in Pending,
         NEW t \in TaskRecord(epoch), task' \in [Call -> [Node -> TaskRecord(epoch)]],
         OneTask(task, task', c, n, t), t.op = "kill" => task[c][n].op = "kill",
         UNCHANGED <<manifest, processes, call, deployment, admitted, failures>>,
         queue' \in Seq(Call \X Node), QueueInv'
  PROVE  ControllerInv'
<1>1. /\ Manifest(nodes) /\ saved = nodes
      /\ process \in [Node -> Seq(ProcessRecord(epoch))] /\ tracked \in [Node -> Nat]
      /\ tracked[n] <= Len(process[n]) /\ paused \subseteq Node
      /\ PauseKnown(process[n], tracked[n], n \in paused)
  BY TaskFacts
<1>2. /\ nodes' = nodes /\ saved' = saved /\ epoch' = epoch
      /\ process' = process /\ tracked' = tracked /\ paused' = paused
  BY DEF manifest, processes
<1>3. Manifest(nodes') /\ saved' = nodes' /\ DOMAIN nodes' = DOMAIN nodes /\ Members(nodes') \subseteq Members(nodes)
  BY <1>1, <1>2
<1>4. PauseKnown(process'[n], tracked'[n], n \in paused')
  BY <1>1, <1>2
<1> QED BY <1>1, <1>2, <1>3, <1>4, OneTaskStep

\* start_node has the lock.
LEMMA StartInv == ASSUME ControllerInv, NEW c \in Call, NEW n \in Node, Start(c, n) PROVE ControllerInv'
<1>1. /\ task[c][n].op = "start" /\ task[c][n].pc = "lock" /\ Len(queue) > 0 /\ Head(queue) = <<c, n>>
      /\ Launching(c, n)
      /\ queue' = IF ~Running(n) /\ Active(n) THEN queue ELSE Tail(queue)
      /\ UNCHANGED <<manifest, processes, deployment, call, admitted, failures>>
  BY DEF Start, Turn
<1>2. task \in [Call -> [Node -> TaskRecord(epoch)]] /\ epoch \in Nat
  BY TaskFacts
<1>3. PICK pc : /\ pc = IF Running(n) THEN "done" ELSE IF Active(n) THEN "launch" ELSE "failed"
                /\ pc \in Pending \cup {"none", "done", "failed"}
  BY DEF Pending
<1>4. PICK t : t = [task[c][n] EXCEPT !.pc = pc, !.epoch = epoch]
  OBVIOUS
<1>5. t \in TaskRecord(epoch) /\ t.pc = pc /\ t.op = "start"
  <2>1. task[c][n] \in TaskRecord(epoch)
    BY <1>2
  <2>2. epoch \in 0..epoch
    BY <1>2
  <2>3. PICK r : r = [task[c][n] EXCEPT !.pc = pc]
    OBVIOUS
  <2>4. r \in TaskRecord(epoch) /\ r.pc = pc /\ r.op = "start"
    BY <1>1, <1>3, <2>1, <2>3 DEF TaskRecord, Pending
  <2>5. t = [r EXCEPT !.epoch = epoch]
    BY <1>4, <2>3
  <2> QED BY <2>2, <2>4, <2>5 DEF TaskRecord, Pending
<1>6. task' = [task EXCEPT ![c][n] = t]
  <2>1. task' = [task EXCEPT ![c][n].pc = pc, ![c][n].epoch = epoch]
    BY <1>1, <1>3 DEF Launching
  <2> QED BY <1>2, <1>4, <2>1
<1>7. task' \in [Call -> [Node -> TaskRecord(epoch)]] /\ OneTask(task, task', c, n, t)
  BY <1>2, <1>5, <1>6, TaskChanges
<1>8. queue' = Tail(queue) \/ (queue' = queue /\ t.pc = "launch")
  BY <1>1, <1>3, <1>5
<1>9. queue' \in Seq(Call \X Node) /\ QueueInv'
  BY <1>1, <1>7, <1>8, OneTaskWaits
<1>10. task[c][n].pc \in Pending
  BY <1>1 DEF Pending
<1>11. UNCHANGED <<manifest, processes, call, deployment, admitted, failures>>
  BY <1>1
<1> QED BY <1>5, <1>7, <1>9, <1>10, <1>11, QuietTaskStep

\* start_node has launched its process.
LEMMA LaunchedInv == ASSUME ControllerInv, NEW c \in Call, NEW n \in Node, Launched(c, n) PROVE ControllerInv'
<1>1. /\ task[c][n].op = "start" /\ task[c][n].pc = "launch" /\ Len(queue) > 0 /\ Head(queue) = <<c, n>>
      /\ New(c, n) /\ paused' = paused \ {n} /\ queue' = Tail(queue)
      /\ To(c, n, "done")
      /\ UNCHANGED <<manifest, deployment, call, admitted, failures>>
  BY DEF Launched, Turn
<1>2. /\ Manifest(nodes) /\ saved = nodes /\ epoch \in Nat
      /\ process \in [Node -> Seq(ProcessRecord(epoch))] /\ process[n] \in Seq(ProcessRecord(epoch))
      /\ tracked \in [Node -> Nat] /\ paused \subseteq Node
      /\ task \in [Call -> [Node -> TaskRecord(epoch)]]
  BY TaskFacts
<1>3. PICK t \in TaskRecord(epoch) : task' = [task EXCEPT ![c][n] = t] /\ t.pc = "done" /\ t.op = "start"
  BY <1>1, TaskGetsTo
<1>4. task' \in [Call -> [Node -> TaskRecord(epoch)]] /\ OneTask(task, task', c, n, t)
  BY <1>2, <1>3, TaskChanges
<1>5. queue' \in Seq(Call \X Node) /\ QueueInv'
  BY <1>1, <1>4, OneTaskWaits
<1>6. PICK r : r = [life |-> "up", epoch |-> task[c][n].epoch]
  OBVIOUS
<1>7. r \in ProcessRecord(epoch) /\ r.life = "up"
  <2>1. task[c][n] \in TaskRecord(epoch)
    BY <1>2
  <2> QED BY <1>6, <2>1 DEF ProcessRecord, TaskRecord, Life
<1>8. PICK ps : ps = Append(process[n], r)
  OBVIOUS
<1>9. ps \in Seq(ProcessRecord(epoch)) /\ Len(ps) = Len(process[n]) + 1 /\ ps[Len(process[n]) + 1] = r
  BY <1>2, <1>7, <1>8, AppendEntries
<1>10. Len(process[n]) + 1 \in Nat
  BY <1>2
<1>11. process' = [process EXCEPT ![n] = ps] /\ tracked' = [tracked EXCEPT ![n] = Len(process[n]) + 1]
  BY <1>1, <1>6, <1>8 DEF New
<1>12. /\ process' \in [Node -> Seq(ProcessRecord(epoch))] /\ process'[n] = ps
       /\ tracked' \in [Node -> Nat] /\ tracked'[n] = Len(process[n]) + 1
       /\ \A m \in Node \ {n} : process'[m] = process[m] /\ tracked'[m] = tracked[m]
  BY <1>2, <1>9, <1>10, <1>11
<1>13. tracked'[n] <= Len(process'[n])
  BY <1>9, <1>10, <1>12
<1>14. PauseKnown(process'[n], tracked'[n], n \in paused')
  <2>1. process'[n][tracked'[n]].life = "up" /\ n \notin paused'
    BY <1>1, <1>7, <1>9, <1>12
  <2> QED BY <2>1 DEF PauseKnown
<1>15. /\ paused' \subseteq Node
       /\ \A m \in Node \ {n} : /\ process'[m] = process[m] /\ tracked'[m] = tracked[m]
                                /\ m \in paused' <=> m \in paused
  BY <1>1, <1>2, <1>12
<1>16. /\ Manifest(nodes') /\ saved' = nodes' /\ DOMAIN nodes' = DOMAIN nodes /\ Members(nodes') \subseteq Members(nodes)
       /\ UNCHANGED <<call, deployment, admitted, failures, epoch>>
  BY <1>1, <1>2 DEF manifest
<1>17. task[c][n].pc \in Pending
  BY <1>1 DEF Pending
<1> QED BY <1>3, <1>4, <1>5, <1>12, <1>13, <1>14, <1>15, <1>16, <1>17, OneTaskStep

\* A step of a task with the lock that changes its node's processes and marks, or retires the node.
LEMMA HeldTaskStep ==
  ASSUME ControllerInv, NEW c \in Call, NEW n \in Node, task[c][n].pc = "lock",
         Len(queue) > 0, Head(queue) = <<c, n>>, queue' = Tail(queue),
         NEW t \in TaskRecord(epoch), task' = [task EXCEPT ![c][n] = t], t.op = task[c][n].op,
         UNCHANGED <<call, deployment, admitted, failures>>,
         UNCHANGED manifest \/ (n \in Database /\ n \in DOMAIN nodes /\ Retire(n)),
         NEW ps \in Seq(ProcessRecord(epoch)), Len(ps) = Len(process[n]), process' = [process EXCEPT ![n] = ps],
         tracked' = tracked \/ tracked' = [tracked EXCEPT ![n] = 0],
         paused' \in {paused, paused \cup {n}, paused \ {n}},
         PauseKnown(ps, tracked'[n], n \in paused')
  PROVE  ControllerInv'
<1>1. /\ Manifest(nodes) /\ saved = nodes /\ epoch \in Nat
      /\ process \in [Node -> Seq(ProcessRecord(epoch))] /\ process[n] \in Seq(ProcessRecord(epoch))
      /\ tracked \in [Node -> Nat] /\ tracked[n] <= Len(process[n])
      /\ paused \subseteq Node
      /\ task \in [Call -> [Node -> TaskRecord(epoch)]]
  BY TaskFacts
<1>2. task' \in [Call -> [Node -> TaskRecord(epoch)]] /\ OneTask(task, task', c, n, t)
  BY <1>1, TaskChanges
<1>3. queue' \in Seq(Call \X Node) /\ QueueInv'
  BY <1>2, OneTaskWaits
<1>4. /\ process' \in [Node -> Seq(ProcessRecord(epoch))] /\ process'[n] = ps
      /\ tracked' \in [Node -> Nat] /\ tracked'[n] \in {0, tracked[n]}
      /\ \A m \in Node \ {n} : process'[m] = process[m] /\ tracked'[m] = tracked[m]
  BY <1>1
<1>5. tracked'[n] <= Len(process'[n])
  BY <1>1, <1>4
<1>6. /\ paused' \subseteq Node
      /\ \A m \in Node \ {n} : /\ process'[m] = process[m] /\ tracked'[m] = tracked[m]
                               /\ m \in paused' <=> m \in paused
  BY <1>1, <1>4
<1>7. /\ Manifest(nodes') /\ saved' = nodes' /\ DOMAIN nodes' = DOMAIN nodes
      /\ Members(nodes') \subseteq Members(nodes) /\ epoch' = epoch
  <2>1. CASE UNCHANGED manifest
    BY <1>1, <2>1 DEF manifest
  <2>2. CASE n \in Database /\ n \in DOMAIN nodes /\ Retire(n)
    <3>1. PICK new : new = [nodes EXCEPT ![n] = "retired"] /\ nodes' = new /\ saved' = new /\ epoch' = epoch
      BY <2>2 DEF Retire, Save
    <3>2. Manifest(new) /\ DOMAIN new = DOMAIN nodes /\ Members(new) \subseteq Members(nodes)
      BY <1>1, <2>2, <3>1, RetireIsManifest
    <3> QED BY <3>1, <3>2
  <2> QED BY <2>1, <2>2
<1>8. PauseKnown(process'[n], tracked'[n], n \in paused')
  BY <1>4
<1>9. task[c][n].pc \in Pending /\ UNCHANGED <<call, deployment, admitted, failures, epoch>>
  BY <1>7 DEF Pending
<1> QED BY <1>2, <1>3, <1>4, <1>5, <1>6, <1>7, <1>8, <1>9, OneTaskStep

\* resume_node has the lock.
LEMMA ResumeInv == ASSUME ControllerInv, NEW c \in Call, NEW n \in Node, Resume(c, n) PROVE ControllerInv'
<1>1. /\ task[c][n].op = "resume" /\ task[c][n].pc = "lock" /\ Len(queue) > 0 /\ Head(queue) = <<c, n>>
      /\ UNCHANGED <<manifest, tracked, deployment, call, admitted, failures>>
  BY DEF Resume, Turn
<1>2. /\ epoch \in Nat /\ process \in [Node -> Seq(ProcessRecord(epoch))]
      /\ process[n] \in Seq(ProcessRecord(epoch)) /\ task \in [Call -> [Node -> TaskRecord(epoch)]]
      /\ PauseKnown(process[n], tracked[n], n \in paused)
      /\ Running(n) => tracked[n] \in 1..Len(process[n])
  BY TaskFacts
<1>3. CASE Running(n)
  <2>1. /\ To(c, n, "done") /\ queue' = Tail(queue) /\ paused' = paused \ {n}
        /\ process' = [process EXCEPT ![n][tracked[n]].life = IF n \in paused THEN "up" ELSE @]
    BY <1>3 DEF Resume
  <2>2. PICK t \in TaskRecord(epoch) : task' = [task EXCEPT ![c][n] = t] /\ t.pc = "done" /\ t.op = task[c][n].op
    BY <2>1, TaskGetsTo DEF Pending
  <2>3. PICK i : i = tracked[n] /\ i \in 1..Len(process[n])
    BY <1>2, <1>3
  <2>4. PICK life : life = IF n \in paused THEN "up" ELSE process[n][i].life
    OBVIOUS
  <2>5. life \in Life /\ life # "paused"
    <3>1. process[n][i] \in ProcessRecord(epoch)
      BY <1>2, <2>3
    <3>2. i # 0 /\ process[n][i].life \in {"up", "paused"}
      BY <1>3, <2>3 DEF Running, Held
    <3> QED BY <1>2, <2>3, <2>4, <3>1, <3>2 DEF ProcessRecord, Life, PauseKnown
  <2>6. PICK ps : ps = [process[n] EXCEPT ![i].life = life]
    OBVIOUS
  <2>7. /\ ps \in Seq(ProcessRecord(epoch)) /\ Len(ps) = Len(process[n])
        /\ ps[i].life = life
    BY <1>2, <2>3, <2>5, <2>6, LifeChanges
  <2>8. process' = [process EXCEPT ![n] = ps]
    BY <2>1, <2>3, <2>4, <2>6
  <2>9. PauseKnown(ps, tracked'[n], n \in paused')
    BY <1>1, <2>1, <2>3, <2>5, <2>7 DEF PauseKnown
  <2> QED BY <1>1, <2>1, <2>2, <2>7, <2>8, <2>9, HeldTaskStep
<1>4. CASE ~Running(n)
  <2>1. /\ task' = [task EXCEPT ![c][n].op = "start", ![c][n].pc = IF Active(n) THEN "lock" ELSE "failed"]
        /\ queue' = IF Active(n) THEN Append(Tail(queue), <<c, n>>) ELSE Tail(queue)
        /\ UNCHANGED <<process, paused>>
    BY <1>4 DEF Resume
  <2>2. PICK pc : pc = (IF Active(n) THEN "lock" ELSE "failed") /\ pc \in Pending \cup {"none", "done", "failed"}
    BY DEF Pending
  <2>3. PICK r : r = [task[c][n] EXCEPT !.op = "start"]
    OBVIOUS
  <2>4. PICK t : t = [r EXCEPT !.pc = pc]
    OBVIOUS
  <2>5. t \in TaskRecord(epoch) /\ t.op = "start" /\ t.pc = pc
    <3>1. task[c][n] \in TaskRecord(epoch)
      BY <1>2
    <3>2. r \in TaskRecord(epoch) /\ r.op = "start"
      BY <2>3, <3>1 DEF TaskRecord
    <3> QED BY <2>2, <2>4, <3>2 DEF TaskRecord, Pending
  <2>6. task' = [task EXCEPT ![c][n] = t]
    BY <1>2, <2>1, <2>2, <2>3, <2>4
  <2>7. task' \in [Call -> [Node -> TaskRecord(epoch)]] /\ OneTask(task, task', c, n, t)
    BY <1>2, <2>5, <2>6, TaskChanges
  <2>8. queue' = Tail(queue) \/ (queue' = Append(Tail(queue), <<c, n>>) /\ t.pc = "lock")
    BY <2>1, <2>2, <2>5
  <2>9. queue' \in Seq(Call \X Node) /\ QueueInv'
    BY <1>1, <2>7, <2>8, OneTaskWaits
  <2>10. UNCHANGED <<manifest, processes, call, deployment, admitted, failures>> /\ task[c][n].pc \in Pending
    BY <1>1, <2>1 DEF processes, Pending
  <2> QED BY <2>5, <2>7, <2>9, <2>10, QuietTaskStep
<1> QED BY <1>3, <1>4

\* pause_node has the lock.
LEMMA PauseInv == ASSUME ControllerInv, NEW c \in Call, NEW n \in Node, Pause(c, n) PROVE ControllerInv'
<1>1. /\ task[c][n].op = "pause" /\ task[c][n].pc = "lock" /\ Len(queue) > 0 /\ Head(queue) = <<c, n>>
      /\ To(c, n, "done") /\ queue' = Tail(queue)
      /\ UNCHANGED <<manifest, tracked, deployment, call, admitted, failures>>
  BY DEF Pause, Turn
<1>2. /\ epoch \in Nat /\ process \in [Node -> Seq(ProcessRecord(epoch))]
      /\ process[n] \in Seq(ProcessRecord(epoch)) /\ paused \subseteq Node
      /\ PauseKnown(process[n], tracked[n], n \in paused)
      /\ Running(n) => tracked[n] \in 1..Len(process[n])
  BY TaskFacts
<1>3. PICK t \in TaskRecord(epoch) : task' = [task EXCEPT ![c][n] = t] /\ t.pc = "done" /\ t.op = task[c][n].op
  BY <1>1, TaskGetsTo DEF Pending
<1>4. CASE Running(n) /\ n \notin paused
  <2>1. process' = [process EXCEPT ![n][tracked[n]].life = "paused"] /\ paused' = paused \cup {n}
    BY <1>4 DEF Pause
  <2>2. PICK i : i = tracked[n] /\ i \in 1..Len(process[n])
    BY <1>2, <1>4
  <2>3. PICK ps : ps = [process[n] EXCEPT ![i].life = "paused"]
    OBVIOUS
  <2>4. "paused" \in Life
    BY DEF Life
  <2>5. ps \in Seq(ProcessRecord(epoch)) /\ Len(ps) = Len(process[n]) /\ ps[i].life = "paused"
    BY <1>2, <2>2, <2>3, <2>4, LifeChanges
  <2>6. process' = [process EXCEPT ![n] = ps]
    BY <2>1, <2>2, <2>3
  <2>7. PauseKnown(ps, tracked'[n], n \in paused')
    BY <1>1, <2>1, <2>2, <2>5 DEF PauseKnown
  <2> QED BY <1>1, <1>3, <2>1, <2>5, <2>6, <2>7, HeldTaskStep
<1>5. CASE ~(Running(n) /\ n \notin paused)
  <2>1. process' = process /\ paused' = paused
    BY <1>5 DEF Pause
  <2>2. PICK ps : ps = process[n]
    OBVIOUS
  <2>3. ps \in Seq(ProcessRecord(epoch)) /\ Len(ps) = Len(process[n]) /\ process' = [process EXCEPT ![n] = ps]
    BY <1>2, <2>1, <2>2
  <2>4. PauseKnown(ps, tracked'[n], n \in paused')
    BY <1>1, <1>2, <2>1, <2>2
  <2> QED BY <1>1, <1>3, <2>1, <2>3, <2>4, HeldTaskStep
<1> QED BY <1>4, <1>5

\* The task's process is told to end.
LEMMA EndedFacts ==
  ASSUME ControllerInv, NEW c \in Call, NEW n \in Node, Running(n), Ended(c, n)
  PROVE  /\ \E t \in TaskRecord(epoch) : task' = [task EXCEPT ![c][n] = t] /\ t.op = task[c][n].op
         /\ \E ps \in Seq(ProcessRecord(epoch)) :
              Len(ps) = Len(process[n]) /\ process' = [process EXCEPT ![n] = ps]
<1>1. /\ process[n] \in Seq(ProcessRecord(epoch)) /\ task \in [Call -> [Node -> TaskRecord(epoch)]]
      /\ Running(n) => tracked[n] \in 1..Len(process[n])
      /\ tracked \in [Node -> Nat]
  BY TaskFacts
<1>2. PICK i : i = tracked[n] /\ i \in 1..Len(process[n]) /\ i \in Nat
  BY <1>1
<1>3. /\ process' = [process EXCEPT ![n][i].life = "ending"]
      /\ task' = [task EXCEPT ![c][n].pc = "wait", ![c][n].process = i]
  BY <1>2 DEF Ended
<1>4. "ending" \in Life
  BY DEF Life
<1>5. PICK ps : ps = [process[n] EXCEPT ![i].life = "ending"]
  OBVIOUS
<1>6. ps \in Seq(ProcessRecord(epoch)) /\ Len(ps) = Len(process[n]) /\ process' = [process EXCEPT ![n] = ps]
  BY <1>1, <1>2, <1>3, <1>4, <1>5, LifeChanges
<1>7. PICK r : r = [task[c][n] EXCEPT !.pc = "wait"]
  OBVIOUS
<1>8. PICK t : t = [r EXCEPT !.process = i]
  OBVIOUS
<1>9. t \in TaskRecord(epoch) /\ t.op = task[c][n].op
  <2>1. task[c][n] \in TaskRecord(epoch)
    BY <1>1
  <2>2. r \in TaskRecord(epoch) /\ r.op = task[c][n].op
    BY <1>7, <2>1 DEF TaskRecord, Pending
  <2> QED BY <1>2, <1>8, <2>2 DEF TaskRecord
<1>10. task' = [task EXCEPT ![c][n] = t]
  BY <1>1, <1>3, <1>7, <1>8
<1> QED BY <1>6, <1>9, <1>10

\* A node that a kill finds in the manifest is a database.
LEMMA GoneFacts ==
  ASSUME ControllerInv, NEW c \in Call, NEW n \in Node, Gone(c, n), task[c][n].op = "kill", task[c][n].pc \in Pending
  PROVE  /\ n \in Database
         /\ UNCHANGED manifest \/ (n \in DOMAIN nodes /\ Retire(n))
         /\ \E t \in TaskRecord(epoch) : task' = [task EXCEPT ![c][n] = t] /\ t.op = task[c][n].op
<1>1. n \in Database
  BY DEF ControllerInv, TaskInv
<1>2. \/ n \in DOMAIN nodes /\ Retire(n) /\ To(c, n, "done")
      \/ UNCHANGED manifest /\ To(c, n, "failed")
  BY DEF Gone, Known
<1>3. \E pc \in Pending \cup {"none", "done", "failed"} : To(c, n, pc)
  BY <1>2
<1> QED BY <1>1, <1>2, <1>3, TaskGetsTo

\* kill_node has the lock.
LEMMA KillInv == ASSUME ControllerInv, NEW c \in Call, NEW n \in Node, Kill(c, n) PROVE ControllerInv'
<1>1. /\ task[c][n].op = "kill" /\ task[c][n].pc = "lock" /\ Len(queue) > 0 /\ Head(queue) = <<c, n>>
      /\ queue' = Tail(queue) /\ tracked' = [tracked EXCEPT ![n] = 0] /\ paused' = paused \ {n}
      /\ UNCHANGED <<deployment, call, admitted, failures>>
  BY DEF Kill, Turn
<1>2. /\ process \in [Node -> Seq(ProcessRecord(epoch))] /\ process[n] \in Seq(ProcessRecord(epoch))
      /\ tracked \in [Node -> Nat]
  BY TaskFacts
<1>3. \A ps : PauseKnown(ps, tracked'[n], n \in paused')
  BY <1>1, <1>2 DEF PauseKnown
<1>4. CASE Running(n)
  <2>1. Ended(c, n) /\ UNCHANGED manifest
    BY <1>4 DEF Kill
  <2>2. PICK t \in TaskRecord(epoch) : task' = [task EXCEPT ![c][n] = t] /\ t.op = task[c][n].op
    BY <1>4, <2>1, EndedFacts
  <2>3. PICK ps \in Seq(ProcessRecord(epoch)) : Len(ps) = Len(process[n]) /\ process' = [process EXCEPT ![n] = ps]
    BY <1>4, <2>1, EndedFacts
  <2> QED BY <1>1, <1>3, <2>1, <2>2, <2>3, HeldTaskStep
<1>5. CASE ~Running(n)
  <2>1. Gone(c, n) /\ process' = process
    BY <1>5 DEF Kill
  <2>2. task[c][n].pc \in Pending
    BY <1>1 DEF Pending
  <2>3. n \in Database /\ (UNCHANGED manifest \/ (n \in DOMAIN nodes /\ Retire(n)))
    BY <1>1, <2>1, <2>2, GoneFacts
  <2>4. PICK t \in TaskRecord(epoch) : task' = [task EXCEPT ![c][n] = t] /\ t.op = task[c][n].op
    BY <1>1, <2>1, <2>2, GoneFacts
  <2>5. PICK ps : ps = process[n] /\ ps \in Seq(ProcessRecord(epoch)) /\ process' = [process EXCEPT ![n] = ps]
    BY <1>2, <2>1
  <2> QED BY <1>1, <1>3, <2>3, <2>4, <2>5, HeldTaskStep
<1> QED BY <1>4, <1>5

\* stop_node has the lock.
LEMMA StopInv == ASSUME ControllerInv, NEW c \in Call, NEW n \in Node, Stop(c, n) PROVE ControllerInv'
<1>1. /\ task[c][n].op = "stop" /\ task[c][n].pc = "lock" /\ Len(queue) > 0 /\ Head(queue) = <<c, n>>
      /\ queue' = Tail(queue) /\ tracked' = [tracked EXCEPT ![n] = 0]
      /\ UNCHANGED <<manifest, deployment, call, admitted, failures>>
  BY DEF Stop, Turn
<1>2. /\ process \in [Node -> Seq(ProcessRecord(epoch))] /\ process[n] \in Seq(ProcessRecord(epoch))
      /\ tracked \in [Node -> Nat]
  BY TaskFacts
<1>3. \A ps : PauseKnown(ps, tracked'[n], n \in paused')
  BY <1>1, <1>2 DEF PauseKnown
<1>4. CASE Running(n)
  <2>1. Ended(c, n) /\ paused' = paused \ {n}
    BY <1>4 DEF Stop
  <2>2. PICK t \in TaskRecord(epoch) : task' = [task EXCEPT ![c][n] = t] /\ t.op = task[c][n].op
    BY <1>4, <2>1, EndedFacts
  <2>3. PICK ps \in Seq(ProcessRecord(epoch)) : Len(ps) = Len(process[n]) /\ process' = [process EXCEPT ![n] = ps]
    BY <1>4, <2>1, EndedFacts
  <2> QED BY <1>1, <1>3, <2>1, <2>2, <2>3, HeldTaskStep
<1>5. CASE ~Running(n)
  <2>1. To(c, n, "done") /\ process' = process /\ paused' = paused
    BY <1>5 DEF Stop
  <2>2. PICK t \in TaskRecord(epoch) : task' = [task EXCEPT ![c][n] = t] /\ t.op = task[c][n].op
    BY <2>1, TaskGetsTo DEF Pending
  <2>3. PICK ps : ps = process[n] /\ ps \in Seq(ProcessRecord(epoch)) /\ process' = [process EXCEPT ![n] = ps]
    BY <1>2, <2>1
  <2> QED BY <1>1, <1>3, <2>1, <2>2, <2>3, HeldTaskStep
<1> QED BY <1>4, <1>5

\* The task of a call is not in the queue when it waits for its process to end.
LEMMA WaitedInv == ASSUME ControllerInv, NEW c \in Call, NEW n \in Node, Waited(c, n) PROVE ControllerInv'
<1>1. /\ task[c][n].pc = "wait"
      /\ IF task[c][n].op = "kill" THEN Gone(c, n) ELSE To(c, n, "done") /\ UNCHANGED manifest
      /\ UNCHANGED <<processes, queue, deployment, call, admitted, failures>>
  BY DEF Waited
<1>2. /\ Manifest(nodes) /\ saved = nodes
      /\ process \in [Node -> Seq(ProcessRecord(epoch))] /\ tracked \in [Node -> Nat] /\ paused \subseteq Node
      /\ tracked[n] <= Len(process[n]) /\ PauseKnown(process[n], tracked[n], n \in paused)
      /\ queue \in Seq(Call \X Node) /\ task \in [Call -> [Node -> TaskRecord(epoch)]]
  BY TaskFacts
<1>3. task[c][n].pc \in Pending
  BY <1>1 DEF Pending
<1>4. /\ \E t \in TaskRecord(epoch) : task' = [task EXCEPT ![c][n] = t] /\ t.op = task[c][n].op
      /\ UNCHANGED manifest \/ (n \in Database /\ n \in DOMAIN nodes /\ Retire(n))
  <2>1. CASE task[c][n].op = "kill"
    BY <1>1, <1>3, <2>1, GoneFacts
  <2>2. CASE task[c][n].op # "kill"
    BY <1>1, <2>2, TaskGetsTo DEF Pending
  <2> QED BY <2>1, <2>2
<1>5. PICK t \in TaskRecord(epoch) : task' = [task EXCEPT ![c][n] = t] /\ t.op = task[c][n].op
  BY <1>4
<1>6. task' \in [Call -> [Node -> TaskRecord(epoch)]] /\ OneTask(task, task', c, n, t)
  BY <1>2, <1>5, TaskChanges
<1>7. /\ Manifest(nodes') /\ saved' = nodes' /\ DOMAIN nodes' = DOMAIN nodes
      /\ Members(nodes') \subseteq Members(nodes) /\ epoch' = epoch
  <2>1. CASE UNCHANGED manifest
    BY <1>2, <2>1 DEF manifest
  <2>2. CASE n \in Database /\ n \in DOMAIN nodes /\ Retire(n)
    <3>1. PICK new : new = [nodes EXCEPT ![n] = "retired"] /\ nodes' = new /\ saved' = new /\ epoch' = epoch
      BY <2>2 DEF Retire, Save
    <3>2. Manifest(new) /\ DOMAIN new = DOMAIN nodes /\ Members(new) \subseteq Members(nodes)
      BY <1>2, <2>2, <3>1, RetireIsManifest
    <3> QED BY <3>1, <3>2
  <2> QED BY <1>4, <2>1, <2>2
<1>8. /\ process' = process /\ tracked' = tracked /\ paused' = paused /\ queue' = queue
      /\ UNCHANGED <<call, deployment, admitted, failures, epoch>>
  BY <1>1, <1>7 DEF processes
<1>9. QueueInv'
  <2>1. Waits(queue, task)
    BY DEF ControllerInv, QueueInv
  <2>2. ASSUME NEW i \in DOMAIN queue
        PROVE  task'[queue[i][1]][queue[i][2]].pc = task[queue[i][1]][queue[i][2]].pc
    <3>1. PICK d \in Call, m \in Node : queue[i] = <<d, m>>
      <4>1. queue[i] \in Call \X Node
        BY <1>2
      <4> QED BY <4>1
    <3>2. task[d][m].pc \in {"lock", "launch"}
      <4>1. task[queue[i][1]][queue[i][2]].pc \in {"lock", "launch"}
        BY <2>1 DEF Waits
      <4> QED BY <3>1, <4>1
    <3>3. <<d, m>> # <<c, n>>
      BY <1>1, <3>2
    <3> QED BY <1>6, <3>1, <3>3 DEF OneTask
  <2>3. Waits(queue, task')
    BY <1>2, <2>1, <2>2, StillWaits
  <2> QED BY <1>8, <2>3 DEF QueueInv
<1>10. PauseKnown(process'[n], tracked'[n], n \in paused') /\ tracked'[n] <= Len(process'[n])
  BY <1>2, <1>8
<1> QED BY <1>2, <1>3, <1>5, <1>6, <1>7, <1>8, <1>9, <1>10, OneTaskStep

-----------------------------------------------------------------------------
(* The processes and the controller's restart.                             *)

\* A process of the node that ends or exits.
LEMMA ProcessDies ==
  ASSUME ControllerInv, NEW n \in Node, NEW i \in DOMAIN process[n],
         process' = [process EXCEPT ![n][i].life = "dead"], failures' \in 0..MaxFailures,
         UNCHANGED <<manifest, tracked, paused, queue, deployment, task, call, admitted>>
  PROVE  ControllerInv'
<1>1. /\ process \in [Node -> Seq(ProcessRecord(epoch))] /\ process[n] \in Seq(ProcessRecord(epoch))
      /\ i \in 1..Len(process[n]) /\ "dead" \in Life
  BY TaskFacts DEF Life
<1>2. PICK ps : ps = [process[n] EXCEPT ![i].life = "dead"]
  OBVIOUS
<1>3. /\ ps \in Seq(ProcessRecord(epoch)) /\ Len(ps) = Len(process[n])
      /\ \A j \in 1..Len(process[n]) : ps[j].life = IF j = i THEN "dead" ELSE process[n][j].life
  BY <1>1, <1>2, LifeChanges
<1>4. /\ process' \in [Node -> Seq(ProcessRecord(epoch))] /\ process'[n] = ps
      /\ \A m \in Node \ {n} : process'[m] = process[m]
  BY <1>1, <1>2, <1>3
<1>5. Types /\ \A m \in Node : Len(process'[m]) = Len(process[m])
  BY <1>3, <1>4 DEF ControllerInv
<1>6. Types'
  BY <1>4, <1>5 DEF Types, manifest
<1>7. PauseIsKnown'
  <2> SUFFICES ASSUME NEW m \in Node PROVE PauseKnown(process'[m], tracked[m], m \in paused)
    BY DEF PauseIsKnown, PauseKnown, Running, Held
  <2>1. PauseKnown(process[m], tracked[m], m \in paused) /\ tracked[m] \in 0..Len(process[m])
    BY TaskFacts
  <2>2. CASE m = n
    <3>1. tracked[n] # 0 => ps[tracked[n]].life = (IF tracked[n] = i THEN "dead" ELSE process[n][tracked[n]].life)
      BY <1>1, <1>3, <2>1, <2>2
    <3> QED BY <1>4, <2>1, <2>2, <3>1 DEF PauseKnown
  <2>3. CASE m # n
    BY <1>4, <2>1, <2>3
  <2> QED BY <2>2, <2>3
<1> QED BY <1>6, <1>7 DEF ControllerInv, QueueInv, DeploymentInv, ResetInv, JoinedWereAdmitted, manifest

\* A process that was told to end does.
LEMMA EndsInv == ASSUME ControllerInv, Ends PROVE ControllerInv'
<1>1. PICK n \in Node : \E i \in DOMAIN process[n] : process' = [process EXCEPT ![n][i].life = "dead"]
  BY DEF Ends
<1>2. UNCHANGED <<manifest, tracked, paused, queue, deployment, task, call, admitted>> /\ failures' \in 0..MaxFailures
  BY DEF Ends, ControllerInv, Types
<1> QED BY <1>1, <1>2, ProcessDies

\* Another failure stays within the bound.
LEMMA FailuresGrow ==
  ASSUME ControllerInv, failures < MaxFailures, failures' = failures + 1
  PROVE  failures' \in 0..MaxFailures
BY BoundAssumption DEF ControllerInv, Types

\* A process exits by itself.
LEMMA ExitsInv == ASSUME ControllerInv, Exits PROVE ControllerInv'
<1>1. PICK n \in Node : \E i \in DOMAIN process[n] : process' = [process EXCEPT ![n][i].life = "dead"]
  BY DEF Exits
<1>2. UNCHANGED <<manifest, tracked, paused, queue, deployment, task, call, admitted>> /\ failures' \in 0..MaxFailures
  BY FailuresGrow DEF Exits
<1> QED BY <1>1, <1>2, ProcessDies

\* What a call and its tasks are before they begin is a record.
LEMMA IdleRecords ==
  ASSUME NEW e \in Nat
  PROVE  /\ \A x \in {Idle, [Idle EXCEPT !.pc = "ended"]} :
              x \in CallRecord /\ x.left = {} /\ x.pc \in {"idle", "ended"} /\ x.phase = "none" /\ x.group = {} /\ x.op = "none"
         /\ NoOperation \in TaskRecord(e) /\ NoOperation.pc = "none"
<1>1. PICK ended : ended = [Idle EXCEPT !.pc = "ended"]
  OBVIOUS
<1>2. /\ Idle \in CallRecord /\ Idle.left = {} /\ Idle.pc = "idle" /\ Idle.phase = "none"
      /\ Idle.group = {} /\ Idle.op = "none"
  BY DEF Idle, CallRecord
<1>3. /\ ended \in CallRecord /\ ended.left = {} /\ ended.pc = "ended" /\ ended.phase = "none"
      /\ ended.group = {} /\ ended.op = "none"
  BY <1>1 DEF Idle, CallRecord
<1>4. NoOperation \in TaskRecord(e) /\ NoOperation.pc = "none"
  <2>1. 0 \in 0..e
    OBVIOUS
  <2> QED BY <2>1 DEF NoOperation, TaskRecord
<1> QED BY <1>1, <1>2, <1>3, <1>4

\* The controller restarts from the manifest on disk.
LEMMA RestartInv == ASSUME ControllerInv, Restart PROVE ControllerInv'
<1>1. Types
  BY DEF ControllerInv
<1>2. nodes' = nodes /\ saved' = saved /\ epoch' = epoch /\ admitted' = admitted
  BY <1>1 DEF Restart, Types
<1>3. PICK f : /\ f = [n \in Node |-> [i \in DOMAIN process[n] |->
                         [process[n][i] EXCEPT !.life = IF @ = "dead" THEN @ ELSE "orphan"]]]
               /\ process' = f
  BY DEF Restart
<1>4. ASSUME NEW n \in Node PROVE f[n] \in Seq(ProcessRecord(epoch))
  <2>1. process[n] \in Seq(ProcessRecord(epoch))
    BY <1>1 DEF Types
  <2>2. ASSUME NEW i \in DOMAIN process[n] PROVE f[n][i] \in ProcessRecord(epoch)
    <3>1. PICK r : r = process[n][i] /\ r \in ProcessRecord(epoch)
      BY <2>1
    <3>2. f[n][i] = [r EXCEPT !.life = IF r.life = "dead" THEN r.life ELSE "orphan"]
      BY <1>3, <3>1
    <3> QED BY <3>1, <3>2 DEF ProcessRecord, Life
  <2>3. DOMAIN f[n] = 1..Len(process[n]) /\ f[n] = [i \in 1..Len(process[n]) |-> f[n][i]]
    BY <1>3, <2>1
  <2>4. DOMAIN process[n] = 1..Len(process[n]) /\ Len(process[n]) \in Nat
    BY <2>1
  <2>5. f[n] \in [1..Len(process[n]) -> ProcessRecord(epoch)]
    BY <2>2, <2>3, <2>4
  <2>6. PICK N : N \in Nat /\ f[n] \in [1..N -> ProcessRecord(epoch)]
    BY <2>4, <2>5
  <2> QED BY <2>6
<1>5. process' \in [Node -> Seq(ProcessRecord(epoch'))]
  BY <1>2, <1>3, <1>4
<1>6. tracked' \in [Node -> Nat] /\ (\A n \in Node : tracked'[n] = 0 /\ tracked'[n] <= Len(process'[n]))
  BY <1>5 DEF Restart
<1>7. /\ paused' = {} /\ queue' = <<>> /\ deployment' = NoCall
      /\ task' = [c \in Call |-> [n \in Node |-> NoOperation]]
      /\ call' = [c \in Call |-> IF call[c].pc = "idle" THEN Idle ELSE [Idle EXCEPT !.pc = "ended"]]
  BY DEF Restart
<1>8. Manifest(nodes') /\ saved' = nodes' /\ epoch' \in Nat /\ admitted' \subseteq Database
  BY <1>1, <1>2 DEF Types
<1>9. /\ \A x \in {Idle, [Idle EXCEPT !.pc = "ended"]} :
           x \in CallRecord /\ x.left = {} /\ x.pc \in {"idle", "ended"} /\ x.phase = "none" /\ x.group = {} /\ x.op = "none"
      /\ NoOperation \in TaskRecord(epoch') /\ NoOperation.pc = "none"
  BY <1>8, IdleRecords
<1>10. task' \in [Call -> [Node -> TaskRecord(epoch')]] /\ \A c \in Call, n \in Node : task'[c][n] = NoOperation
  BY <1>7, <1>9
<1>11. call' \in [Call -> CallRecord] /\ \A c \in Call : call'[c] \in {Idle, [Idle EXCEPT !.pc = "ended"]}
  BY <1>7, <1>9
<1>12. failures' \in 0..MaxFailures
  BY FailuresGrow DEF Restart
<1>13. queue' \in Seq(Call \X Node) /\ QueueInv'
  BY <1>7 DEF QueueInv, Waits
<1>14. Types'
  BY <1>5, <1>6, <1>7, <1>10, <1>11, <1>12, <1>8, <1>13 DEF Types
<1>15. \A c \in Call : CallInv(call'[c]) /\ \A n \in Node : TaskInv(task'[c][n], call'[c], n)
  BY <1>9, <1>10, <1>11 DEF CallInv, TaskInv, Pending
<1>16. DeploymentInv' /\ ResetInv'
  BY <1>7, <1>9, <1>11 DEF DeploymentInv, ResetInv, Stopping
<1>17. PauseIsKnown'
  BY <1>6 DEF PauseIsKnown, Running
<1>18. JoinedWereAdmitted'
  BY <1>2 DEF ControllerInv, JoinedWereAdmitted
<1> QED BY <1>13, <1>14, <1>15, <1>16, <1>17, <1>18 DEF ControllerInv
-----------------------------------------------------------------------------
(* The invariant.                                                          *)

\* The invariant holds of a controller that has begun nothing.
LEMMA InitInv == Init => ControllerInv
<1> SUFFICES ASSUME Init PROVE ControllerInv
  OBVIOUS
<1>1. /\ nodes = Cluster(Founder) /\ saved = nodes /\ epoch = 0 /\ process = [n \in Node |-> <<>>]
      /\ tracked = [n \in Node |-> 0] /\ paused = {} /\ queue = <<>> /\ deployment = NoCall
      /\ task = [c \in Call |-> [n \in Node |-> NoOperation]] /\ call = [c \in Call |-> Idle]
      /\ admitted = Founder /\ failures = 0
  BY DEF Init
<1>2. Manifest(nodes) /\ Members(nodes) \subseteq admitted /\ admitted \subseteq Database
  BY <1>1, ClusterIsManifest, NodeAssumption
<1>3. /\ Idle \in CallRecord /\ Idle.left = {} /\ Idle.group = {} /\ Idle.op = "none" /\ Idle.pc = "idle"
      /\ NoOperation \in TaskRecord(epoch) /\ NoOperation.pc = "none"
  <2>1. epoch \in Nat
    BY <1>1
  <2>2. Idle.pc = "idle"
    BY DEF Idle
  <2> QED BY <2>1, <2>2, IdleRecords
<1>4. process \in [Node -> Seq(ProcessRecord(epoch))] /\ \A n \in Node : tracked[n] = 0 /\ tracked[n] <= Len(process[n])
  BY <1>1
<1>5. task \in [Call -> [Node -> TaskRecord(epoch)]] /\ \A c \in Call, n \in Node : task[c][n] = NoOperation
  BY <1>1, <1>3
<1>6. call \in [Call -> CallRecord] /\ \A c \in Call : call[c] = Idle
  BY <1>1, <1>3
<1>7. failures \in 0..MaxFailures
  BY <1>1, BoundAssumption
<1>8. Types
  BY <1>1, <1>2, <1>4, <1>5, <1>6, <1>7 DEF Types
<1>9. \A c \in Call : CallInv(call[c]) /\ \A n \in Node : TaskInv(task[c][n], call[c], n)
  BY <1>3, <1>5, <1>6 DEF CallInv, TaskInv, Pending
<1>10. QueueInv
  BY <1>1 DEF QueueInv, Waits
<1>11. DeploymentInv /\ ResetInv
  BY <1>1, <1>3, <1>6 DEF DeploymentInv, ResetInv, Stopping
<1>12. PauseIsKnown
  BY <1>4 DEF PauseIsKnown, Running
<1> QED BY <1>2, <1>8, <1>9, <1>10, <1>11, <1>12 DEF ControllerInv, JoinedWereAdmitted

\* A step of an operation on a node keeps the invariant.
LEMMA TaskStepInv == ASSUME ControllerInv, NEW c \in Call, NEW n \in Node, TaskStep(c, n) PROVE ControllerInv'
BY StartInv, LaunchedInv, ResumeInv, PauseInv, KillInv, StopInv, WaitedInv DEF TaskStep

\* A step of an operation on the cluster keeps the invariant.
LEMMA CallStepInv == ASSUME ControllerInv, NEW c \in Call, CallStep(c) PROVE ControllerInv'
BY AddInv, ResetStepInv, ReplacedInv, StartedInv, DoneInv, HealthyInv, AllHealthyInv, JoinedInv, FailsInv DEF CallStep

\* A stuttering step keeps the invariant.
LEMMA UnchangedInv == ASSUME ControllerInv, UNCHANGED vars PROVE ControllerInv'
BY DEF ControllerInv, Types, QueueInv, DeploymentInv, ResetInv, PauseIsKnown, JoinedWereAdmitted, Running, Held,
       vars, manifest, processes

\* Every step keeps the invariant.
LEMMA NextInv == ASSUME ControllerInv, [Next]_vars PROVE ControllerInv'
<1>1. ASSUME NEW c \in Call, Begin(c) PROVE ControllerInv'
  BY <1>1, BeginInv
<1>2. ASSUME NEW c \in Call, CallStep(c) PROVE ControllerInv'
  BY <1>2, CallStepInv
<1>3. ASSUME NEW c \in Call, NEW n \in Node, TaskStep(c, n) PROVE ControllerInv'
  BY <1>3, TaskStepInv
<1>4. CASE Ends
  BY <1>4, EndsInv
<1>5. CASE Exits
  BY <1>5, ExitsInv
<1>6. CASE Restart
  BY <1>6, RestartInv
<1>7. CASE UNCHANGED vars
  BY <1>7, UnchangedInv
<1> QED BY <1>1, <1>2, <1>3, <1>4, <1>5, <1>6, <1>7 DEF Next, Runs

\* Whatever operations and failures meet, the manifest, the processes and the two locks stay consistent.
THEOREM ControllerInvariant == Spec => []ControllerInv
<1>1. Init => ControllerInv
  BY InitInv
<1>2. ControllerInv /\ [Next]_vars => ControllerInv'
  BY NextInv
<1> QED BY <1>1, <1>2, PTL DEF Spec

\* The controller's variables keep their types, the manifest on disk is the one in memory, and
\* at most one node's join is pending: add_database_node refuses another one.
THEOREM TypeCorrect == Spec => []TypeOK
<1>1. ControllerInv => TypeOK
  <2> SUFFICES ASSUME ControllerInv PROVE TypeOK
    OBVIOUS
  <2>1. Types
    BY DEF ControllerInv
  <2>2. Cardinality(Joining(nodes)) <= 1
    <3>1. CASE Joining(nodes) = {}
      BY <3>1, FS_EmptySet
    <3>2. CASE Joining(nodes) # {}
      <4>1. \A a, b \in Joining(nodes) : a = b
        BY <2>1 DEF Types, Manifest
      <4>2. PICK a : a \in Joining(nodes)
        BY <3>2
      <4>3. Joining(nodes) = {a}
        BY <4>1, <4>2
      <4>4. Cardinality({a}) = 1
        BY FS_Singleton
      <4> QED BY <4>3, <4>4
    <3> QED BY <3>1, <3>2
  <2>3. \A ns \in {nodes, saved} : /\ Meta \subseteq DOMAIN ns /\ DOMAIN ns \subseteq Node
                                   /\ \A n \in DOMAIN ns : ns[n] \in {"member", "joining", "retired"}
                                   /\ \A m \in Meta : ns[m] = "member"
                                   /\ Cardinality(Joining(ns)) <= 1
    BY <2>1, <2>2 DEF Types, Manifest, Standing
  <2>4. \A n \in Node : tracked[n] \in 0..Len(process[n])
    BY <2>1 DEF Types
  <2>5. process \in [Node -> Seq([life : {"up", "paused", "ending", "dead", "orphan"}, epoch : 0..epoch])]
    BY <2>1 DEF Types, ProcessRecord, Life
  <2>6. task \in [Call -> [Node -> [op : NodeOperation \cup {"none", "start", "stop"},
                                    pc : {"none", "lock", "launch", "wait", "done", "failed"},
                                    process : Nat, epoch : 0..epoch]]]
    <3>1. TaskRecord(epoch) \subseteq [op : NodeOperation \cup {"none", "start", "stop"},
                                       pc : {"none", "lock", "launch", "wait", "done", "failed"},
                                       process : Nat, epoch : 0..epoch]
      BY DEF TaskRecord, Pending
    <3> QED BY <2>1, <3>1 DEF Types
  <2>7. \A c \in Call : /\ call[c].op \in NodeOperation \cup {"none", "start", "stop", "reset", "add"}
                        /\ call[c].pc \in {"idle", "gather", "deploy", "health", "join", "ended"}
                        /\ call[c].group \subseteq Node /\ call[c].left \subseteq call[c].group
    <3> TAKE c \in Call
    <3>1. call[c] \in CallRecord /\ CallInv(call[c])
      BY CallFacts
    <3> QED BY <3>1 DEF CallRecord, CallInv, ClusterOperation
  <2> QED BY <2>1, <2>3, <2>4, <2>5, <2>6, <2>7 DEF TypeOK, Types
<1> QED BY <1>1, ControllerInvariant, PTL

\* The marks in _paused are those of the running processes that are stopped, however resume_node,
\* pause_node, kill_node and launches interleave: a pause or a resume is never taken for done.
THEOREM PauseStaysKnown == Spec => []PauseIsKnown
<1>1. ControllerInv => PauseIsKnown
  BY DEF ControllerInv
<1> QED BY <1>1, ControllerInvariant, PTL

\* mark_database_node_joined makes a member only of a node that a segment's configuration
\* admitted, even when the node was killed or the manifest replaced while the join was awaited.
THEOREM JoinsWereAdmitted == Spec => []JoinedWereAdmitted
<1>1. ControllerInv => JoinedWereAdmitted
  BY DEF ControllerInv
<1> QED BY <1>1, ControllerInvariant, PTL

\* Neither _lock nor _deployment_lock is left with a task or a call that has ended, whatever fails:
\* who holds one is under way and does not wait for it again.
THEOREM LocksReleased == Spec => []LocksAreReleased
<1>1. ControllerInv => LocksAreReleased
  BY DEF ControllerInv, LocksAreReleased, DeploymentInv, Holding, QueueInv, Waits
<1> QED BY <1>1, ControllerInvariant, PTL
-----------------------------------------------------------------------------
(* The tombstones.                                                         *)

\* What a step does to the tombstones of the manifest.
Tombstones ==
  \A n \in DOMAIN nodes : nodes[n] = "retired" =>
    IF n \in DOMAIN nodes' THEN nodes'[n] = "retired" ELSE epoch' # epoch

\* No tombstone goes where the manifest stays.
LEMMA SameTombstones == ASSUME nodes' = nodes PROVE Tombstones
BY DEF Tombstones

\* No tombstone goes where a node is retired.
LEMMA RetireTombstones == ASSUME ControllerInv, NEW n \in Database, n \in DOMAIN nodes, Retire(n) PROVE Tombstones
<1>1. PICK new : new = [nodes EXCEPT ![n] = "retired"] /\ nodes' = new
  BY DEF Retire, Save
<1>2. Manifest(nodes)
  BY DEF ControllerInv, Types
<1>3. \A m \in DOMAIN nodes : nodes[m] = "retired" => new[m] = "retired"
  BY <1>1, <1>2, RetireIsManifest
<1> QED BY <1>1, <1>3 DEF Tombstones

\* No operation on the cluster takes a tombstone away but a reset.
LEMMA CallTombstones == ASSUME ControllerInv, NEW c \in Call, CallStep(c) PROVE Tombstones
<1>1. Manifest(nodes) /\ CallInv(call[c]) /\ call[c] \in CallRecord /\ epoch \in Nat
  BY CallFacts
<1>2. CASE Add(c)
  <2>1. CASE Joining(nodes) # {}
    <3>1. nodes' = nodes
      BY <1>2, <2>1 DEF Add, manifest
    <3> QED BY <3>1, SameTombstones
  <2>2. CASE Joining(nodes) = {}
    <3>1. PICK n : n \in Fresh /\ nodes' = Listed(n)
      BY <1>2, <2>2 DEF Add, Save
    <3>2. DOMAIN Listed(n) = DOMAIN nodes \cup {n} /\ \A m \in DOMAIN nodes : Listed(n)[m] = nodes[m]
      BY <1>1, <2>2, <3>1, ListedIsManifest
    <3> QED BY <3>1, <3>2 DEF Tombstones
  <2> QED BY <2>1, <2>2
<1>3. CASE Replaced(c)
  <2>1. /\ nodes' = Cluster(call[c].members) /\ epoch' = epoch + 1
        /\ call[c].op = "reset" /\ call[c].pc = "gather" /\ call[c].phase = "stops"
    BY <1>3 DEF Replaced, Gathered
  <2>2. call[c].members \cap DOMAIN nodes = {} /\ call[c].members \in SUBSET Database
    BY <1>1, <2>1 DEF ControllerInv, ResetInv, Stopping, CallRecord
  <2>3. DOMAIN nodes' = Meta \cup call[c].members
    BY <2>1 DEF Cluster
  <2>4. \A m \in Meta : nodes[m] = "member"
    BY <1>1 DEF Manifest
  <2> QED BY <1>1, <2>1, <2>2, <2>3, <2>4 DEF Tombstones
<1>4. CASE Joined(c)
  <2>1. PICK n \in call[c].group : MarkJoined(n)
    BY <1>4 DEF Joined
  <2>2. n \in Database
    BY <1>1, <1>4 DEF Joined, CallInv
  <2>3. PICK new : new = [nodes EXCEPT ![n] = IF @ = "joining" THEN "member" ELSE @] /\ nodes' = new
    BY <2>1 DEF MarkJoined, Save
  <2>4. \A m \in DOMAIN nodes : nodes[m] = "retired" => new[m] = "retired"
    BY <1>1, <2>2, <2>3, JoinIsManifest
  <2>5. DOMAIN new = DOMAIN nodes
    BY <2>3
  <2> QED BY <2>3, <2>4, <2>5 DEF Tombstones
<1>5. CASE Reset(c) \/ Started(c) \/ Done(c) \/ Healthy(c) \/ AllHealthy(c) \/ Fails(c)
  <2>1. nodes' = nodes
    BY <1>5 DEF Reset, Started, Done, Healthy, AllHealthy, Fails, manifest
  <2> QED BY <2>1, SameTombstones
<1> QED BY <1>2, <1>3, <1>4, <1>5 DEF CallStep

\* No operation on a node takes a tombstone away.
LEMMA TaskTombstones == ASSUME ControllerInv, NEW c \in Call, NEW n \in Node, TaskStep(c, n) PROVE Tombstones
<1>1. ASSUME task[c][n].op = "kill", task[c][n].pc \in Pending, Gone(c, n) PROVE Tombstones
  <2>1. n \in Database /\ (UNCHANGED manifest \/ (n \in DOMAIN nodes /\ Retire(n)))
    BY <1>1, GoneFacts
  <2>2. CASE UNCHANGED manifest
    BY <2>2, SameTombstones DEF manifest
  <2>3. CASE n \in DOMAIN nodes /\ Retire(n)
    BY <2>1, <2>3, RetireTombstones
  <2> QED BY <2>1, <2>2, <2>3
<1>2. CASE Start(c, n) \/ Launched(c, n) \/ Resume(c, n) \/ Pause(c, n) \/ Stop(c, n)
  <2>1. nodes' = nodes
    BY <1>2 DEF Start, Launched, Resume, Pause, Stop, manifest
  <2> QED BY <2>1, SameTombstones
<1>3. CASE Kill(c, n)
  <2>1. task[c][n].op = "kill" /\ task[c][n].pc \in Pending /\ (UNCHANGED manifest \/ Gone(c, n))
    BY <1>3 DEF Kill, Turn, Pending
  <2>2. CASE UNCHANGED manifest
    BY <2>2, SameTombstones DEF manifest
  <2> QED BY <1>1, <2>1, <2>2
<1>4. CASE Waited(c, n)
  <2>1. task[c][n].pc \in Pending /\ (UNCHANGED manifest \/ (task[c][n].op = "kill" /\ Gone(c, n)))
    BY <1>4 DEF Waited, Pending
  <2>2. CASE UNCHANGED manifest
    BY <2>2, SameTombstones DEF manifest
  <2> QED BY <1>1, <2>1, <2>2
<1> QED BY <1>2, <1>3, <1>4 DEF TaskStep

\* No step takes a tombstone away but a reset.
LEMMA StepTombstones == ASSUME ControllerInv, [Next]_vars PROVE Tombstones
<1>1. ASSUME NEW c \in Call, Begin(c) PROVE nodes' = nodes
  BY <1>1 DEF Begin, manifest
<1>2. CASE Ends \/ Exits \/ UNCHANGED vars
  <2>1. nodes' = nodes
    BY <1>2 DEF Ends, Exits, vars, manifest
  <2> QED BY <2>1, SameTombstones
<1>3. CASE Restart
  <2>1. nodes' = nodes
    BY <1>3 DEF Restart, ControllerInv, Types
  <2> QED BY <2>1, SameTombstones
<1> QED BY <1>1, <1>2, <1>3, SameTombstones, CallTombstones, TaskTombstones DEF Next, Runs

\* What retire_database_node has written stays, through joins, restarts and retries: only a reset,
\* which begins another cluster, forgets a retired identifier.
THEOREM RetiredStay == Spec => RetiredStayRetired
<1>1. ControllerInv /\ [Next]_vars =>
        [\A n \in DOMAIN nodes : nodes[n] = "retired" =>
           IF n \in DOMAIN nodes' THEN nodes'[n] = "retired" ELSE epoch' # epoch]_vars
  BY StepTombstones DEF Tombstones
<1> QED BY <1>1, ControllerInvariant, PTL DEF Spec, RetiredStayRetired
-----------------------------------------------------------------------------
(* The live processes.                                                     *)

\* A queue that grows keeps its head.
LEMMA HeadStays ==
  ASSUME NEW S, NEW s \in Seq(S), NEW w \in Seq(S), Len(s) > 0
  PROVE  Len(s \o w) > 0 /\ Head(s \o w) = Head(s)
BY ConcatEntries

\* A step that launches nothing and tells no process to end.
LEMMA NothingLaunched ==
  ASSUME ControllerInv, ControllerInv', HeldInv, process' = process,
         \A n \in Node : tracked'[n] = tracked[n] \/ (tracked'[n] = 0 /\ ~Running(n)),
         \A d \in Call, n \in Node : /\ task[d][n].pc = "wait" => task'[d][n] = task[d][n]
                                     /\ task'[d][n].pc = "launch" => task[d][n].pc = "launch",
         Len(queue) > 0 => Len(queue') > 0 /\ Head(queue') = Head(queue)
  PROVE  HeldInv'
<1>1. ASSUME NEW n \in Node, Running(n)' PROVE Running(n)
  BY <1>1 DEF Running, Held
<1>2. LaunchInv'
  BY <1>1 DEF HeldInv, LaunchInv
<1>3. ASSUME NEW n \in Node PROVE HeldOf(process'[n], tracked'[n], task', n)
  <2>1. HeldOf(process[n], tracked[n], task, n)
    BY DEF HeldInv
  <2>2. \A i \in DOMAIN process[n] : Awaited(task, n, i) => Awaited(task', n, i)
    BY DEF Awaited
  <2>3. CASE tracked'[n] = tracked[n]
    BY <2>1, <2>2, <2>3 DEF HeldOf
  <2>4. CASE tracked'[n] = 0 /\ ~Running(n)
    <3>1. tracked[n] # 0 => process[n][tracked[n]].life \notin {"up", "paused", "ending"}
      BY <2>1, <2>4 DEF HeldOf, Running, Held
    <3>2. \A i \in DOMAIN process[n] : i # 0
      BY TaskFacts
    <3> QED BY <2>1, <2>2, <2>4, <3>1, <3>2 DEF HeldOf, Live
  <2> QED BY <2>3, <2>4
<1> QED BY <1>2, <1>3 DEF HeldInv

\* The tasks that were under way stay, and so does the head of the queue, when a call gathers.
LEMMA GatherTasks ==
  ASSUME ControllerInv, NEW c \in Call, NEW op, NEW ns \in SUBSET Node, Enter(c, op, ns),
         \A n \in Node : task[c][n].pc \notin Pending
  PROVE  /\ \A d \in Call, n \in Node : /\ task[d][n].pc = "wait" => task'[d][n] = task[d][n]
                                        /\ task'[d][n].pc = "launch" => task[d][n].pc = "launch"
         /\ Len(queue) > 0 => Len(queue') > 0 /\ Head(queue') = Head(queue)
<1>1. task \in [Call -> [Node -> TaskRecord(epoch)]] /\ queue \in Seq(Call \X Node)
  BY DEF ControllerInv, Types
<1>2. PICK ok : ok = {n \in ns : Accepts(op, n)'}
  OBVIOUS
<1>3. /\ task' = [task EXCEPT ![c] = [n \in Node |->
            IF n \in ns THEN [op |-> op, pc |-> IF n \in ok THEN "lock" ELSE "failed", process |-> 0, epoch |-> 0]
            ELSE task[c][n]]]
      /\ queue' = queue \o InOrder(c, ok)
  BY <1>1, <1>2 DEF Enter
<1>4. ASSUME NEW d \in Call, NEW n \in Node
      PROVE  /\ task[d][n].pc = "wait" => task'[d][n] = task[d][n]
             /\ task'[d][n].pc = "launch" => task[d][n].pc = "launch"
  <2>1. CASE d # c
    <3>1. task'[d][n] = task[d][n]
      BY <1>1, <1>3, <2>1
    <3> QED BY <3>1
  <2>2. CASE d = c
    <3>1. task'[c][n] = task[c][n] \/ task'[c][n].pc \in {"lock", "failed"}
      BY <1>1, <1>3
    <3> QED BY <2>2, <3>1 DEF Pending
  <2> QED BY <2>1, <2>2
<1>5. ok \subseteq Node /\ IsFiniteSet(ok)
  BY <1>2, NodeAssumption, FS_Subset
<1>6. PICK N, w : N \in Nat /\ w = InOrder(c, ok) /\ w \in [1..N -> {c} \X ok]
  BY <1>5, InOrderEntries
<1>7. w \in Seq(Call \X Node)
  <2>1. w \in [1..N -> Call \X Node]
    BY <1>5, <1>6
  <2> QED BY <1>6, <2>1
<1>8. Len(queue) > 0 => Len(queue') > 0 /\ Head(queue') = Head(queue)
  BY <1>1, <1>3, <1>6, <1>7, HeadStays
<1> QED BY <1>4, <1>8

\* The tasks that were under way stay when their call ends.
LEMMA EndTasks ==
  ASSUME ControllerInv, NEW c \in Call, EndCall(c)
  PROVE  \A d \in Call, n \in Node : /\ task[d][n].pc = "wait" => task'[d][n] = task[d][n]
                                     /\ task'[d][n].pc = "launch" => task[d][n].pc = "launch"
<1>1. task \in [Call -> [Node -> TaskRecord(epoch)]]
  BY DEF ControllerInv, Types
<1>2. ASSUME NEW d \in Call, NEW n \in Node
      PROVE  task'[d][n] = task[d][n] \/ (task[d][n].pc \in {"done", "failed"} /\ task'[d][n] = NoOperation)
  BY <1>1 DEF EndCall
<1>3. NoOperation.pc = "none"
  BY DEF NoOperation
<1> QED BY <1>2, <1>3

\* Operations on the cluster launch nothing; a reset that finds all down forgets no live process.
LEMMA CallHeld ==
  ASSUME ControllerInv, ControllerInv', HeldInv, ResetFindsAllDown, NEW c \in Call, Begin(c) \/ CallStep(c)
  PROVE  HeldInv'
<1> DEFINE Quiet ==
      /\ process' = process
      /\ \A n \in Node : tracked'[n] = tracked[n] \/ (tracked'[n] = 0 /\ ~Running(n))
<1>1. ASSUME NEW op, NEW ns \in SUBSET Node, Enter(c, op, ns),
             \A n \in Node : task[c][n].pc \notin Pending, Quiet
      PROVE  HeldInv'
  BY <1>1, GatherTasks, NothingLaunched
<1>2. CASE EndCall(c) /\ queue' = queue /\ UNCHANGED processes
  BY <1>2, EndTasks, NothingLaunched DEF processes
<1>3. CASE UNCHANGED <<processes, task, queue>>
  BY <1>3, NothingLaunched DEF processes
<1>4. /\ CallInv(call[c]) /\ call[c] \in CallRecord /\ DOMAIN nodes \subseteq Node /\ Meta \subseteq Node
      /\ Database \subseteq Node /\ Joining(nodes) \subseteq Database /\ Manifest(nodes)
  BY CallFacts
<1>5. CASE Begin(c)
  <2>1. Quiet /\ \A n \in Node : task[c][n].pc \notin Pending
    BY <1>5, NonePending DEF Begin, processes
  <2>2. PICK w \in Workload :
       \/ w[2] \in NodeOperation /\ Enter(c, w[2], {w[3]})
       \/ \E op : Enter(c, op, Meta)
       \/ \E op : Enter(c, op, DOMAIN nodes)
       \/ UNCHANGED <<task, queue>>
    BY <1>5 DEF Begin, StartCluster, Gather
  <2>3. w[2] \in NodeOperation => {w[3]} \in SUBSET Node
    BY CallAssumption DEF NodeOperation
  <2>4. CASE UNCHANGED <<task, queue>>
    BY <1>3, <1>5, <2>4 DEF Begin
  <2> QED BY <1>1, <1>4, <2>1, <2>2, <2>3, <2>4
<1>6. CASE Add(c)
  <2>1. Quiet /\ \A n \in Node : task[c][n].pc \notin Pending
    BY <1>6, NonePending DEF Add, processes
  <2>2. PICK ns : ns \subseteq Database /\ Enter(c, "start", ns)
    <3>1. Fresh # {} => (CHOOSE m \in Fresh : TRUE) \in Database
      BY DEF Fresh
    <3> QED BY <1>4, <1>6, <3>1 DEF Add, Gather
  <2> QED BY <1>1, <1>4, <2>1, <2>2
<1>7. CASE Reset(c)
  <2>1. Quiet /\ Enter(c, "stop", DOMAIN nodes) /\ \A n \in Node : task[c][n].pc \notin Pending
    BY <1>7, NonePending DEF Reset, Gather, processes
  <2> QED BY <1>1, <1>4, <2>1
<1>8. CASE Replaced(c)
  <2>1. Enter(c, "start", Meta) /\ process' = process /\ tracked' = [n \in Node |-> 0]
    BY <1>8 DEF Replaced, StartCluster, Gather
  <2>2. \A n \in Node : task[c][n].pc \notin Pending
    BY <1>8, NonePending DEF Replaced, Gathered
  <2>3. Quiet
    BY <1>8, <2>1 DEF ResetFindsAllDown
  <2> QED BY <1>1, <1>4, <2>1, <2>2, <2>3
<1>9. CASE Started(c) \/ Healthy(c)
  BY <1>3, <1>9 DEF Started, Healthy
<1>10. CASE Done(c) \/ Fails(c) \/ Joined(c)
  BY <1>2, <1>10 DEF Done, Fails, Joined
<1>11. CASE AllHealthy(c)
  <2>1. Quiet /\ UNCHANGED processes /\ \A n \in Node : task[c][n].pc \notin Pending
    BY <1>11, NonePending DEF AllHealthy, processes
  <2>2. \/ Enter(c, "start", call[c].members)
        \/ EndCall(c) /\ queue' = queue
        \/ UNCHANGED <<task, queue>>
    BY <1>4, <1>11 DEF AllHealthy, Gather, CallInv
  <2>3. call[c].members \in SUBSET Node
    BY <1>4 DEF CallRecord
  <2> QED BY <1>1, <1>2, <1>3, <2>1, <2>2, <2>3
<1> QED BY <1>5, <1>6, <1>7, <1>8, <1>9, <1>10, <1>11 DEF CallStep

\* The task at the head of the queue takes a step, which may tell the node's process to end.
LEMMA TaskHeld ==
  ASSUME ControllerInv, HeldInv, NEW c \in Call, NEW n \in Node,
         NEW op, NEW pc \in {"lock", "launch"}, Turn(c, n, op, pc),
         NEW t, OneTask(task, task', c, n, t),
         t.pc = "launch" => queue' = queue /\ ~Running(n)',
         \A m \in Node \ {n} : process'[m] = process[m] /\ tracked'[m] = tracked[m],
         tracked'[n] # 0 => process'[n][tracked'[n]].life \notin {"ending", "orphan"},
         \A i \in DOMAIN process'[n] : process'[n][i].life \in Live =>
           tracked'[n] = i \/ Awaited(task, n, i) \/ (t.pc = "wait" /\ t.process = i)
  PROVE  HeldInv'
<1>1. Len(queue) > 0 /\ Head(queue) = <<c, n>> /\ task[c][n].pc # "wait"
  BY DEF Turn
<1>2. task'[c][n] = t /\ \A d \in Call, m \in Node : <<d, m>> # <<c, n>> => task'[d][m] = task[d][m]
  BY DEF OneTask
<1>3. LaunchInv'
  <2> SUFFICES ASSUME NEW d \in Call, NEW m \in Node, task'[d][m].pc = "launch"
               PROVE  Len(queue') > 0 /\ Head(queue') = <<d, m>> /\ ~Running(m)'
    BY DEF LaunchInv
  <2>1. CASE <<d, m>> = <<c, n>>
    BY <1>1, <1>2, <2>1
  <2>2. CASE <<d, m>> # <<c, n>>
    <3>1. task[d][m].pc = "launch"
      BY <1>2, <2>2
    <3> QED BY <1>1, <2>2, <3>1 DEF HeldInv, LaunchInv
  <2> QED BY <2>1, <2>2
<1>4. \A m \in Node : \A i : Awaited(task, m, i) => Awaited(task', m, i)
  BY <1>1, <1>2 DEF Awaited
<1>5. HeldOf(process'[n], tracked'[n], task', n)
  BY <1>2, <1>4 DEF HeldOf, Awaited, Live
<1>6. \A m \in Node \ {n} : HeldOf(process'[m], tracked'[m], task', m)
  BY <1>4 DEF HeldInv, HeldOf
<1> QED BY <1>3, <1>5, <1>6 DEF HeldInv

\* A task gets to a point other than the launch, and the processes stay.
LEMMA QuietTaskHeld ==
  ASSUME ControllerInv, HeldInv, NEW c \in Call, NEW n \in Node,
         NEW op, NEW pc \in {"lock", "launch"}, Turn(c, n, op, pc),
         NEW t, OneTask(task, task', c, n, t), t.pc = "launch" => queue' = queue /\ ~Running(n)',
         process' = process, tracked' = tracked
  PROVE  HeldInv'
<1>1. HeldOf(process[n], tracked[n], task, n)
  BY DEF HeldInv
<1> QED BY <1>1, TaskHeld DEF HeldOf, Live

\* start_node has the lock.
LEMMA StartHeld == ASSUME ControllerInv, HeldInv, NEW c \in Call, NEW n \in Node, Start(c, n) PROVE HeldInv'
<1>1. task \in [Call -> [Node -> TaskRecord(epoch)]] /\ task[c][n] \in TaskRecord(epoch)
  BY TaskFacts
<1>2. PICK r : r = [task[c][n] EXCEPT !.pc = IF Running(n) THEN "done" ELSE IF Active(n) THEN "launch" ELSE "failed"]
  OBVIOUS
<1>3. PICK t : t = [r EXCEPT !.epoch = epoch]
  OBVIOUS
<1>4. t.pc = IF Running(n) THEN "done" ELSE IF Active(n) THEN "launch" ELSE "failed"
  BY <1>1, <1>2, <1>3 DEF TaskRecord
<1>5. task' = [task EXCEPT ![c][n] = t]
  BY <1>1, <1>2, <1>3 DEF Start, Launching
<1>6. OneTask(task, task', c, n, t)
  BY <1>1, <1>5 DEF OneTask
<1>7. process' = process /\ tracked' = tracked /\ Turn(c, n, "start", "lock")
  BY DEF Start, processes
<1>8. t.pc = "launch" => queue' = queue /\ ~Running(n)'
  BY <1>4, <1>7 DEF Start, Running, Held
<1> QED BY <1>6, <1>7, <1>8, QuietTaskHeld

\* The process that is launched takes the place of one that has ended.
LEMMA LaunchedHeld == ASSUME ControllerInv, HeldInv, NEW c \in Call, NEW n \in Node, Launched(c, n) PROVE HeldInv'
<1>1. /\ process \in [Node -> Seq(ProcessRecord(epoch))] /\ process[n] \in Seq(ProcessRecord(epoch))
      /\ tracked \in [Node -> Nat] /\ task \in [Call -> [Node -> TaskRecord(epoch)]]
  BY TaskFacts
<1>2. Turn(c, n, "start", "launch") /\ New(c, n)
  BY DEF Launched
<1>3. PICK new \in ProcessRecord(epoch) : new = [life |-> "up", epoch |-> task[c][n].epoch]
  <2>1. task[c][n].epoch \in 0..epoch
    BY <1>1 DEF TaskRecord
  <2>2. [life |-> "up", epoch |-> task[c][n].epoch] \in ProcessRecord(epoch)
    BY <2>1 DEF ProcessRecord, Life
  <2> QED BY <2>2
<1>4. /\ process'[n] = Append(process[n], new) /\ tracked'[n] = Len(process[n]) + 1
      /\ \A m \in Node \ {n} : process'[m] = process[m] /\ tracked'[m] = tracked[m]
  BY <1>1, <1>2, <1>3 DEF New
<1>5. /\ DOMAIN process'[n] = 1..(Len(process[n]) + 1) /\ process'[n][Len(process[n]) + 1].life = "up"
      /\ \A i \in 1..Len(process[n]) : process'[n][i] = process[n][i]
  BY <1>1, <1>3, <1>4, AppendEntries
<1>6. ~Running(n) /\ HeldOf(process[n], tracked[n], task, n)
  BY <1>2 DEF HeldInv, LaunchInv, Turn
<1>7. \A i \in 1..Len(process[n]) : process[n][i].life \in Live => Awaited(task, n, i)
  <2> SUFFICES ASSUME NEW i \in 1..Len(process[n]), process[n][i].life \in Live, tracked[n] = i PROVE FALSE
    BY <1>1, <1>6 DEF HeldOf, Live
  <2>1. i # 0
    BY <1>1
  <2> QED BY <1>6, <2>1 DEF HeldOf, Live, Running, Held
<1>8. PICK t \in TaskRecord(epoch) : task' = [task EXCEPT ![c][n] = t] /\ t.pc = "done"
  <2>1. To(c, n, "done")
    BY DEF Launched
  <2> QED BY <2>1, TaskGetsTo
<1>9. OneTask(task, task', c, n, t)
  BY <1>1, <1>8 DEF OneTask
<1>10. \A i \in DOMAIN process'[n] : process'[n][i].life \in Live => tracked'[n] = i \/ Awaited(task, n, i)
  BY <1>1, <1>4, <1>5, <1>7
<1>11. process'[n][tracked'[n]].life \notin {"ending", "orphan"}
  BY <1>4, <1>5
<1> QED BY <1>2, <1>4, <1>8, <1>9, <1>10, <1>11, TaskHeld

\* The running process is stopped or continued, or told to end, and its node's tables cleared.
LEMMA HeldProcessSteps ==
  ASSUME ControllerInv, HeldInv, NEW c \in Call, NEW n \in Node, NEW op, Turn(c, n, op, "lock"), Running(n),
         NEW life \in Life, process' = [process EXCEPT ![n][tracked[n]].life = life],
         NEW t, OneTask(task, task', c, n, t),
         \/ life \in {"up", "paused"} /\ tracked' = tracked /\ t.pc = "done"
         \/ life = "ending" /\ tracked' = [tracked EXCEPT ![n] = 0] /\ t.pc = "wait" /\ t.process = tracked[n]
  PROVE  HeldInv'
<1>1. /\ process \in [Node -> Seq(ProcessRecord(epoch))] /\ process[n] \in Seq(ProcessRecord(epoch))
      /\ tracked \in [Node -> Nat] /\ tracked[n] \in 1..Len(process[n])
  BY TaskFacts
<1>2. PICK i : i = tracked[n] /\ i \in 1..Len(process[n]) /\ i # 0
  BY <1>1
<1>3. PICK ps : ps = [process[n] EXCEPT ![i].life = life]
  OBVIOUS
<1>4. /\ ps \in Seq(ProcessRecord(epoch)) /\ Len(ps) = Len(process[n])
      /\ \A j \in 1..Len(process[n]) : ps[j].life = IF j = i THEN life ELSE process[n][j].life
  BY <1>1, <1>2, <1>3, LifeChanges
<1>5. process'[n] = ps /\ \A m \in Node \ {n} : process'[m] = process[m]
  BY <1>1, <1>2, <1>3
<1>6. (\A m \in Node \ {n} : tracked'[m] = tracked[m]) /\ tracked'[n] = (IF life = "ending" THEN 0 ELSE i)
  BY <1>1, <1>2
<1>7. HeldOf(process[n], tracked[n], task, n)
  BY DEF HeldInv
<1>8. tracked'[n] # 0 => process'[n][tracked'[n]].life \notin {"ending", "orphan"}
  BY <1>2, <1>4, <1>5, <1>6
<1>9. DOMAIN process'[n] = 1..Len(process[n]) /\ DOMAIN process[n] = 1..Len(process[n])
  BY <1>1, <1>4, <1>5
<1>10. ASSUME NEW j \in DOMAIN process'[n], process'[n][j].life \in Live
       PROVE  tracked'[n] = j \/ Awaited(task, n, j) \/ (t.pc = "wait" /\ t.process = j)
  <2>1. CASE j = i
    BY <1>2, <1>6, <2>1
  <2>2. CASE j # i
    <3>1. process[n][j].life \in Live
      BY <1>4, <1>5, <1>9, <1>10, <2>2
    <3> QED BY <1>2, <1>7, <1>9, <2>2, <3>1 DEF HeldOf, Live
  <2> QED BY <2>1, <2>2
<1> QED BY <1>5, <1>6, <1>8, <1>10, TaskHeld

\* resume_node has the lock.
LEMMA ResumeHeld == ASSUME ControllerInv, HeldInv, NEW c \in Call, NEW n \in Node, Resume(c, n) PROVE HeldInv'
<1>1. task \in [Call -> [Node -> TaskRecord(epoch)]] /\ task[c][n] \in TaskRecord(epoch)
  BY TaskFacts
<1>2. Turn(c, n, "resume", "lock") /\ tracked' = tracked
  BY DEF Resume
<1>3. CASE Running(n)
  <2>1. /\ To(c, n, "done")
        /\ process' = [process EXCEPT ![n][tracked[n]].life = IF n \in paused THEN "up" ELSE @]
    BY <1>3 DEF Resume
  <2>2. PICK t \in TaskRecord(epoch) : task' = [task EXCEPT ![c][n] = t] /\ t.pc = "done"
    BY <2>1, TaskGetsTo
  <2>3. OneTask(task, task', c, n, t)
    BY <1>1, <2>2 DEF OneTask
  <2>4. CASE n \in paused
    <3>1. process' = [process EXCEPT ![n][tracked[n]].life = "up"] /\ "up" \in Life
      BY <2>1, <2>4 DEF Life
    <3> QED BY <1>2, <1>3, <2>2, <2>3, <3>1, HeldProcessSteps
  <2>5. CASE n \notin paused
    <3>1. process \in [Node -> Seq(ProcessRecord(epoch))]
      BY TaskFacts
    <3>2. process' = [process EXCEPT ![n][tracked[n]].life = @]
      BY <2>1, <2>5
    <3>3. process' = process
      <4>1. PICK i : i = tracked[n] /\ i \in 1..Len(process[n])
        BY <1>3, TaskFacts
      <4>2. PICK ps : ps = [process[n] EXCEPT ![i].life = @]
        OBVIOUS
      <4>3. process[n] \in Seq(ProcessRecord(epoch)) /\ process[n][i] \in ProcessRecord(epoch)
        BY <3>1, <4>1
      <4>4. [process[n][i] EXCEPT !.life = @] = process[n][i]
        BY <4>3 DEF ProcessRecord
      <4>5. ps = process[n]
        BY <4>1, <4>2, <4>3, <4>4
      <4>6. process' = [process EXCEPT ![n] = ps]
        BY <3>2, <4>1, <4>2
      <4> QED BY <3>1, <4>5, <4>6
    <3> QED BY <1>2, <2>2, <2>3, <3>3, QuietTaskHeld
  <2> QED BY <2>4, <2>5
<1>4. CASE ~Running(n)
  <2>1. PICK r : r = [task[c][n] EXCEPT !.op = "start"]
    OBVIOUS
  <2>2. PICK t : t = [r EXCEPT !.pc = IF Active(n) THEN "lock" ELSE "failed"]
    OBVIOUS
  <2>3. t.pc # "launch"
    BY <1>1, <2>1, <2>2 DEF TaskRecord
  <2>4. task' = [task EXCEPT ![c][n] = t]
    BY <1>1, <1>4, <2>1, <2>2 DEF Resume
  <2>5. OneTask(task, task', c, n, t) /\ process' = process
    BY <1>1, <1>4, <2>4 DEF OneTask, Resume
  <2> QED BY <1>2, <2>3, <2>5, QuietTaskHeld
<1> QED BY <1>3, <1>4

\* pause_node has the lock.
LEMMA PauseHeld == ASSUME ControllerInv, HeldInv, NEW c \in Call, NEW n \in Node, Pause(c, n) PROVE HeldInv'
<1>1. task \in [Call -> [Node -> TaskRecord(epoch)]] /\ "paused" \in Life
  BY TaskFacts DEF Life
<1>2. Turn(c, n, "pause", "lock") /\ tracked' = tracked /\ To(c, n, "done")
  BY DEF Pause
<1>3. PICK t \in TaskRecord(epoch) : task' = [task EXCEPT ![c][n] = t] /\ t.pc = "done"
  BY <1>2, TaskGetsTo
<1>4. OneTask(task, task', c, n, t)
  BY <1>1, <1>3 DEF OneTask
<1>5. \/ Running(n) /\ process' = [process EXCEPT ![n][tracked[n]].life = "paused"]
      \/ process' = process
  BY DEF Pause
<1> QED BY <1>1, <1>2, <1>3, <1>4, <1>5, HeldProcessSteps, QuietTaskHeld

\* kill_node and stop_node forget a process that has ended, or tell it to.
LEMMA ForgetHeld ==
  ASSUME ControllerInv, HeldInv, NEW c \in Call, NEW n \in Node, NEW op, Turn(c, n, op, "lock"),
         tracked' = [tracked EXCEPT ![n] = 0],
         \/ Running(n) /\ Ended(c, n)
         \/ ~Running(n) /\ process' = process /\ (To(c, n, "done") \/ To(c, n, "failed"))
  PROVE  HeldInv'
<1>1. /\ task \in [Call -> [Node -> TaskRecord(epoch)]] /\ task[c][n] \in TaskRecord(epoch)
      /\ process[n] \in Seq(ProcessRecord(epoch)) /\ tracked \in [Node -> Nat]
  BY TaskFacts
<1>2. CASE Running(n) /\ Ended(c, n)
  <2>1. PICK r : r = [task[c][n] EXCEPT !.pc = "wait"]
    OBVIOUS
  <2>2. PICK t : t = [r EXCEPT !.process = tracked[n]]
    OBVIOUS
  <2>3. t.pc = "wait" /\ t.process = tracked[n]
    BY <1>1, <2>1, <2>2 DEF TaskRecord
  <2>4. task' = [task EXCEPT ![c][n] = t]
    BY <1>1, <1>2, <2>1, <2>2 DEF Ended
  <2>5. OneTask(task, task', c, n, t)
    BY <1>1, <2>4 DEF OneTask
  <2>6. process' = [process EXCEPT ![n][tracked[n]].life = "ending"] /\ "ending" \in Life
    BY <1>2 DEF Ended, Life
  <2> QED BY <1>2, <2>3, <2>5, <2>6, HeldProcessSteps
<1>3. CASE ~Running(n) /\ process' = process /\ (To(c, n, "done") \/ To(c, n, "failed"))
  <2>1. PICK t \in TaskRecord(epoch) : task' = [task EXCEPT ![c][n] = t] /\ t.pc \in {"done", "failed"}
    BY <1>3, TaskGetsTo
  <2>2. OneTask(task, task', c, n, t)
    BY <1>1, <2>1 DEF OneTask
  <2>3. HeldOf(process[n], tracked[n], task, n)
    BY DEF HeldInv
  <2>4. ASSUME NEW i \in DOMAIN process[n], process[n][i].life \in Live PROVE Awaited(task, n, i)
    <3>1. i # 0
      BY <1>1
    <3> QED BY <1>3, <2>3, <2>4, <3>1 DEF HeldOf, Live, Running, Held
  <2>5. tracked'[n] = 0 /\ \A m \in Node \ {n} : process'[m] = process[m] /\ tracked'[m] = tracked[m]
    BY <1>1, <1>3
  <2>6. \A i \in DOMAIN process'[n] : process'[n][i].life \in Live =>
           tracked'[n] = i \/ Awaited(task, n, i) \/ (t.pc = "wait" /\ t.process = i)
    BY <1>3, <2>4
  <2> QED BY <2>1, <2>2, <2>5, <2>6, TaskHeld
<1> QED BY <1>2, <1>3

\* kill_node has the lock.
LEMMA KillHeld == ASSUME ControllerInv, HeldInv, NEW c \in Call, NEW n \in Node, Kill(c, n) PROVE HeldInv'
<1>1. Turn(c, n, "kill", "lock") /\ tracked' = [tracked EXCEPT ![n] = 0]
  BY DEF Kill
<1>2. \/ Running(n) /\ Ended(c, n)
      \/ ~Running(n) /\ process' = process /\ (To(c, n, "done") \/ To(c, n, "failed"))
  BY DEF Kill, Gone
<1> QED BY <1>1, <1>2, ForgetHeld

\* stop_node has the lock.
LEMMA StopHeld == ASSUME ControllerInv, HeldInv, NEW c \in Call, NEW n \in Node, Stop(c, n) PROVE HeldInv'
<1>1. Turn(c, n, "stop", "lock") /\ tracked' = [tracked EXCEPT ![n] = 0]
  BY DEF Stop
<1>2. \/ Running(n) /\ Ended(c, n)
      \/ ~Running(n) /\ process' = process /\ To(c, n, "done")
  BY DEF Stop
<1> QED BY <1>1, <1>2, ForgetHeld

\* The process that a task awaited is gone.
LEMMA WaitedHeld == ASSUME ControllerInv, HeldInv, NEW c \in Call, NEW n \in Node, Waited(c, n) PROVE HeldInv'
<1>1. /\ task[c][n].pc = "wait" /\ process[n][task[c][n].process].life = "dead"
      /\ process' = process /\ tracked' = tracked /\ queue' = queue
  BY DEF Waited, processes
<1>2. PICK t : task' = [task EXCEPT ![c][n] = t] /\ t.pc \in {"done", "failed"}
  <2>1. To(c, n, "done") \/ To(c, n, "failed")
    BY DEF Waited, Gone
  <2> QED BY <2>1, TaskGetsTo
<1>3. task'[c][n] = t /\ \A d \in Call, m \in Node : <<d, m>> # <<c, n>> => task'[d][m] = task[d][m]
  BY <1>2, TaskFacts
<1>4. LaunchInv'
  BY <1>1, <1>2, <1>3 DEF HeldInv, LaunchInv, Running, Held
<1>5. ASSUME NEW m \in Node PROVE HeldOf(process'[m], tracked'[m], task', m)
  <2>1. HeldOf(process[m], tracked[m], task, m)
    BY DEF HeldInv
  <2>2. ASSUME NEW i \in DOMAIN process[m], process[m][i].life \in Live, Awaited(task, m, i)
        PROVE  Awaited(task', m, i)
    <3>1. PICK d \in Call : task[d][m].pc = "wait" /\ task[d][m].process = i
      BY <2>2 DEF Awaited
    <3>2. <<d, m>> # <<c, n>>
      BY <1>1, <2>2, <3>1 DEF Live
    <3> QED BY <1>3, <3>1, <3>2 DEF Awaited
  <2> QED BY <1>1, <2>1, <2>2 DEF HeldOf, Live
<1> QED BY <1>4, <1>5 DEF HeldInv

\* A process dies.
LEMMA DeathHeld ==
  ASSUME ControllerInv, HeldInv, NEW n \in Node, NEW i \in DOMAIN process[n],
         process' = [process EXCEPT ![n][i].life = "dead"], UNCHANGED <<tracked, queue, task>>
  PROVE  HeldInv'
<1>1. /\ process \in [Node -> Seq(ProcessRecord(epoch))] /\ process[n] \in Seq(ProcessRecord(epoch))
      /\ i \in 1..Len(process[n]) /\ "dead" \in Life
  BY TaskFacts DEF Life
<1>2. PICK ps : ps = [process[n] EXCEPT ![i].life = "dead"]
  OBVIOUS
<1>3. /\ ps \in Seq(ProcessRecord(epoch)) /\ Len(ps) = Len(process[n])
      /\ \A j \in 1..Len(process[n]) : ps[j].life = IF j = i THEN "dead" ELSE process[n][j].life
  BY <1>1, <1>2, LifeChanges
<1>4. process'[n] = ps /\ \A m \in Node \ {n} : process'[m] = process[m]
  BY <1>1, <1>2
<1>5. DOMAIN ps = 1..Len(process[n]) /\ DOMAIN process[n] = 1..Len(process[n])
  BY <1>1, <1>3
<1>6. tracked[n] # 0 => tracked[n] \in 1..Len(process[n])
  BY TaskFacts
<1>7. \A m \in Node : Running(m)' => Running(m)
  <2> TAKE m \in Node
  <2>1. CASE m = n
    <3>1. tracked[n] # 0 => ps[tracked[n]].life = (IF tracked[n] = i THEN "dead" ELSE process[n][tracked[n]].life)
      BY <1>3, <1>6
    <3> QED BY <1>4, <2>1, <3>1 DEF Running, Held
  <2>2. CASE m # n
    BY <1>4, <2>2 DEF Running, Held
  <2> QED BY <2>1, <2>2
<1>8. LaunchInv'
  BY <1>7 DEF HeldInv, LaunchInv
<1>9. ASSUME NEW m \in Node PROVE HeldOf(process'[m], tracked'[m], task', m)
  <2>1. HeldOf(process[m], tracked[m], task, m)
    BY DEF HeldInv
  <2>2. CASE m = n
    <3>1. tracked[n] # 0 => ps[tracked[n]].life = (IF tracked[n] = i THEN "dead" ELSE process[n][tracked[n]].life)
      BY <1>3, <1>6
    <3> QED BY <1>3, <1>4, <1>5, <2>1, <2>2, <3>1 DEF HeldOf, Live
  <2>3. CASE m # n
    BY <1>4, <2>1, <2>3
  <2> QED BY <2>2, <2>3
<1> QED BY <1>8, <1>9 DEF HeldInv

\* After a restart nothing is tracked, and what runs is an orphan.
LEMMA RestartHeld == ASSUME ControllerInv, Restart PROVE HeldInv'
<1>1. /\ process' = [n \in Node |-> [i \in DOMAIN process[n] |->
                       [process[n][i] EXCEPT !.life = IF @ = "dead" THEN @ ELSE "orphan"]]]
      /\ tracked' = [n \in Node |-> 0]
      /\ task' = [c \in Call |-> [n \in Node |-> NoOperation]]
  BY DEF Restart
<1>2. NoOperation.pc = "none"
  BY DEF NoOperation
<1>3. LaunchInv'
  BY <1>1, <1>2 DEF LaunchInv
<1>4. ASSUME NEW n \in Node PROVE HeldOf(process'[n], tracked'[n], task', n)
  <2>1. DOMAIN process'[n] = DOMAIN process[n] /\ tracked'[n] = 0
    BY <1>1
  <2>2. ASSUME NEW i \in DOMAIN process[n] PROVE process'[n][i].life \in {"dead", "orphan"}
    <3>1. PICK r \in ProcessRecord(epoch) : r = process[n][i]
      <4>1. process[n] \in Seq(ProcessRecord(epoch))
        BY TaskFacts
      <4> QED BY <4>1
    <3>2. process'[n][i] = [r EXCEPT !.life = IF r.life = "dead" THEN r.life ELSE "orphan"]
      BY <1>1, <3>1
    <3> QED BY <3>1, <3>2 DEF ProcessRecord
  <2> QED BY <2>1, <2>2 DEF HeldOf, Live
<1> QED BY <1>3, <1>4 DEF HeldInv

\* Every step keeps the live processes held, but a reset that finds one running.
LEMMA NextHeld == ASSUME ControllerInv, HeldInv, [Next]_vars, ResetFindsAllDown PROVE HeldInv'
<1>1. ControllerInv'
  BY NextInv
<1>2. ASSUME NEW c \in Call, Begin(c) \/ CallStep(c) PROVE HeldInv'
  BY <1>1, <1>2, CallHeld
<1>3. ASSUME NEW c \in Call, NEW n \in Node, TaskStep(c, n) PROVE HeldInv'
  BY <1>3, StartHeld, LaunchedHeld, ResumeHeld, PauseHeld, KillHeld, StopHeld, WaitedHeld DEF TaskStep
<1>4. CASE Ends \/ Exits
  <2>1. /\ \E n \in Node : \E i \in DOMAIN process[n] : process' = [process EXCEPT ![n][i].life = "dead"]
        /\ UNCHANGED <<tracked, queue, task>>
    BY <1>4 DEF Ends, Exits
  <2> QED BY <2>1, DeathHeld
<1>5. CASE Restart
  BY <1>5, RestartHeld
<1>6. CASE UNCHANGED vars
  BY <1>6 DEF vars, processes, HeldInv, LaunchInv, HeldOf, Awaited, Running, Held
<1> QED BY <1>2, <1>3, <1>4, <1>5, <1>6 DEF Next, Runs

\* Nothing runs before the first launch.
LEMMA InitHeld == Init => HeldInv
<1> SUFFICES ASSUME Init PROVE HeldInv
  OBVIOUS
<1>1. /\ process = [n \in Node |-> <<>>] /\ tracked = [n \in Node |-> 0]
      /\ task = [c \in Call |-> [n \in Node |-> NoOperation]]
  BY DEF Init
<1>2. NoOperation.pc = "none"
  BY DEF NoOperation
<1> QED BY <1>1, <1>2 DEF HeldInv, LaunchInv, HeldOf

\* start_node, kill_node, stop_node and the exits of processes never leave a live process that
\* nobody will stop: only a reset that clears the tables while one runs again can.
THEOREM LiveAreHeld == Spec /\ [][ResetFindsAllDown]_vars => []LiveProcessesAreHeld
<1>1. Init => HeldInv
  BY InitHeld
<1>2. ControllerInv /\ HeldInv /\ [Next]_vars /\ [ResetFindsAllDown]_vars => HeldInv'
  <2>1. UNCHANGED vars => ResetFindsAllDown \/ (HeldInv => HeldInv')
    BY DEF vars, processes, HeldInv, LaunchInv, HeldOf, Awaited, Running, Held
  <2> QED BY <2>1, NextHeld
<1>3. HeldInv => LiveProcessesAreHeld
  BY DEF HeldInv, HeldOf, Live, Awaited, LiveProcessesAreHeld
<1> QED BY <1>1, <1>2, <1>3, ControllerInvariant, PTL DEF Spec
===============================================================================
