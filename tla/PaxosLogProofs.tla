--------------------------- MODULE PaxosLogProofs ---------------------------
(***************************************************************************)
(* The replicated log of PaxosMetaStore: LogInv is inductive beside IInv,  *)
(* and from the two follow the results that are kept, the agreement of the *)
(* replicas, the log without holes, one winner per version, fresh answers, *)
(* durable state that only grows, and that the replicated log implements   *)
(* the register that MetaStoreSpec promises.                               *)
(***************************************************************************)
EXTENDS PaxosSafetyProofs

\* What the types say of a member's log.
LEMMA LogType ==
  ASSUME TypeOK, NEW m \in Member
  PROVE  /\ lastApplied[m] \in Nat /\ lastApplied[m] <= MaxSlot /\ MaxSlot \in Nat
         /\ register[m] \in Snapshot
         /\ decided[m] \in [Slot -> Command \cup {NoValue}]
BY BoundAssumption DEF TypeOK

LEMMA InitialType == InitialSnapshot \in Snapshot
BY DEF InitialSnapshot, Snapshot

\* The registers that a prefix of commands passes through.
LEMMA RegistersType ==
  ASSUME NEW log, NEW n \in Nat, \A s \in 1..n : log[s] \in Command
  PROVE  /\ Replay(InitialSnapshot, log, 0, n) \in [0..n -> Snapshot]
         /\ \A s \in 0..n : Replay(InitialSnapshot, log, 0, n)[s] =
              IF s = 0 THEN InitialSnapshot
              ELSE Applied(Replay(InitialSnapshot, log, 0, n)[s - 1], log[s])
<1>1. \A s \in (0 + 1)..n : log[s] \in Command
  OBVIOUS
<1>2. Replay(InitialSnapshot, log, 0, n) \in [0..n -> Snapshot]
  BY <1>1, InitialType, ReplayType
<1> DEFINE f == Replay(InitialSnapshot, log, 0, n)
<1>3. \A s \in 0..n : f[s] = IF s = 0 THEN InitialSnapshot ELSE Applied(f[s - 1], log[s])
  BY ReplayCorrect
<1> QED BY <1>2, <1>3

\* The commands of an applied prefix, and the registers that a member passed through.
LEMMA PrefixType ==
  ASSUME TypeOK, PrefixInv, NEW m \in Member
  PROVE  /\ \A s \in 1..lastApplied[m] : s \in Slot /\ decided[m][s] \in Command
         /\ Registers(m) \in [0..lastApplied[m] -> Snapshot]
         /\ \A s \in 0..lastApplied[m] : Registers(m)[s] =
              IF s = 0 THEN InitialSnapshot ELSE Applied(Registers(m)[s - 1], decided[m][s])
<1>1. lastApplied[m] \in Nat /\ lastApplied[m] <= MaxSlot /\ MaxSlot \in Nat
  BY LogType
<1>2. \A s \in 1..lastApplied[m] : s \in Slot /\ decided[m][s] \in Command
  BY <1>1, LogType DEF PrefixInv, Slot
<1>3. /\ Registers(m) \in [0..lastApplied[m] -> Snapshot]
      /\ \A s \in 0..lastApplied[m] : Registers(m)[s] =
           IF s = 0 THEN InitialSnapshot ELSE Applied(Registers(m)[s - 1], decided[m][s])
  <2> DEFINE log == decided[m]
             n == lastApplied[m]
  <2>1. n \in Nat /\ \A s \in 1..n : log[s] \in Command
    BY <1>1, <1>2
  <2> HIDE DEF log, n
  <2>2. /\ Replay(InitialSnapshot, log, 0, n) \in [0..n -> Snapshot]
        /\ \A s \in 0..n : Replay(InitialSnapshot, log, 0, n)[s] =
             IF s = 0 THEN InitialSnapshot
             ELSE Applied(Replay(InitialSnapshot, log, 0, n)[s - 1], log[s])
    BY <2>1, RegistersType
  <2> QED BY <2>2 DEF Registers, log, n
<1> QED BY <1>2, <1>3

\* What no step takes back of a member's log: the applied prefix, its decisions and
\* the registers passed through.
LogStands(m) ==
  /\ lastApplied[m] <= lastApplied'[m]
  /\ \A s \in Slot : decided[m][s] # NoValue => decided'[m][s] = decided[m][s]
  /\ \A s \in 0..lastApplied[m] : Registers(m)'[s] = Registers(m)[s]

\* A member records a decision and applies what now follows its prefix.
LEMMA DecideApplies ==
  ASSUME TypeOK, TypeOK', PrefixInv, ResultsInv,
         NEW m \in Member, NEW s \in Slot, NEW v \in Command, Decide(m, s, v)
  PROVE  /\ PrefixInv' /\ ResultsInv'
         /\ \A n \in Member : LogStands(n)
         /\ \A n \in Member, t \in Slot : results[n][t] # NoResult => results'[n][t] # NoResult
         /\ \A t \in Slot : lastApplied[m] < t /\ t <= lastApplied'[m] => results'[m][t] # NoResult
         /\ decided'[m][s] # NoValue /\ (decided[m][s] = NoValue => decided'[m][s] = v)
<1>1. CASE decided[m][s] # NoValue
  <2>1. UNCHANGED <<decided, lastApplied, register, results>>
    BY <1>1 DEF Decide
  <2>2. \A n : Registers(n)' = Registers(n)
    BY <2>1 DEF Registers
  <2>3. \A n \in Member : LogStands(n)
    BY <2>1, <2>2, LogType DEF LogStands
  <2>4. PrefixInv' /\ ResultsInv'
    BY <2>1, <2>2 DEF PrefixInv, ResultsInv, OutcomeAt
  <2>5. \A t \in Slot : ~(lastApplied[m] < t /\ t <= lastApplied'[m])
    BY <2>1, LogType DEF Slot
  <2> QED BY <1>1, <2>1, <2>3, <2>4, <2>5
<1>2. CASE decided[m][s] = NoValue
  <2> DEFINE log == [decided[m] EXCEPT ![s] = v]
             first == lastApplied[m]
  <2>1. PICK last \in first..MaxSlot :
          /\ \A t \in (first + 1)..last : log[t] # NoValue
          /\ last < MaxSlot => log[last + 1] = NoValue
          /\ decided' = [decided EXCEPT ![m] = log]
          /\ lastApplied' = [lastApplied EXCEPT ![m] = last]
          /\ register' = [register EXCEPT ![m] = Replay(register[m], log, first, last)[last]]
          /\ results' = [results EXCEPT ![m] =
               [t \in Slot |-> IF t \in (first + 1)..last
                                 THEN ResultOf(Replay(register[m], log, first, last)[t - 1], log[t])
                                 ELSE results[m][t]]]
    BY <1>2 DEF Decide
  <2>2. first \in Nat /\ last \in Nat /\ first <= last /\ last <= MaxSlot /\ MaxSlot \in Nat
    BY LogType
  <2>3. /\ log[s] = v /\ v # NoValue
        /\ \A t \in Slot : t # s => log[t] = decided[m][t]
    BY LogType, NoValueAssumption
  <2>4. \A t \in Slot : decided[m][t] # NoValue => log[t] = decided[m][t]
    BY <1>2, <2>3
  <2>5. \A t \in 1..first : t \in Slot /\ decided[m][t] # NoValue /\ log[t] = decided[m][t]
    <3>1. \A t \in 1..first : t \in Slot
      BY <2>2 DEF Slot
    <3> HIDE DEF log
    <3> QED BY <2>4, <3>1 DEF PrefixInv
  <2>6. /\ decided'[m] = log /\ lastApplied'[m] = last
        /\ register'[m] = Replay(register[m], log, first, last)[last]
        /\ \A t \in Slot : results'[m][t] =
             IF t \in (first + 1)..last
               THEN ResultOf(Replay(register[m], log, first, last)[t - 1], log[t])
               ELSE results[m][t]
    BY <2>1 DEF TypeOK
  <2>7. \A n \in Member \ {m} : /\ decided'[n] = decided[n] /\ lastApplied'[n] = lastApplied[n]
                                /\ register'[n] = register[n] /\ results'[n] = results[n]
    BY <2>1 DEF TypeOK
  <2> HIDE DEF log
  <2>8. register[m] = Replay(InitialSnapshot, decided[m], 0, first)[first]
    BY DEF PrefixInv, Registers
  <2>9. Registers(m)' = Replay(InitialSnapshot, log, 0, last)
    BY <2>6 DEF Registers
  <2>10. \A t \in 0..first : Registers(m)'[t] = Registers(m)[t]
    <3>1. \A t \in 0..first : Replay(InitialSnapshot, decided[m], 0, first)[t]
                                = Replay(InitialSnapshot, log, 0, last)[t]
      BY <2>2, <2>5, ReplayAgrees
    <3> QED BY <2>9, <3>1 DEF Registers
  <2>11. \A t \in first..last : Replay(register[m], log, first, last)[t] = Registers(m)'[t]
    <3> DEFINE old == decided[m]
               initial == InitialSnapshot
    <3>1. \A t \in 1..first : old[t] = log[t]
      BY <2>5
    <3>2. first \in Nat /\ last \in Nat /\ first <= last
      BY <2>2
    <3>3. initial = InitialSnapshot /\ old = decided[m]
      OBVIOUS
    <3> HIDE DEF first, old, initial
    <3>4. \A t \in first..last :
            Replay(Replay(initial, old, 0, first)[first], log, first, last)[t]
              = Replay(initial, log, 0, last)[t]
      BY <3>1, <3>2, ReplayResumes
    <3> QED BY <2>8, <2>9, <3>3, <3>4
  <2>12. \A n \in Member \ {m} : Registers(n)' = Registers(n)
    BY <2>7 DEF Registers
  <2>13. \A n \in Member : LogStands(n)
    <3>1. LogStands(m)
      BY <2>2, <2>4, <2>6, <2>10 DEF LogStands
    <3>2. \A n \in Member \ {m} : LogStands(n)
      BY <2>7, <2>12, LogType DEF LogStands
    <3> QED BY <3>1, <3>2
  <2>14. PrefixInv'
    <3>1. ASSUME NEW n \in Member
          PROVE  /\ \A t \in 1..lastApplied'[n] : decided'[n][t] # NoValue
                 /\ lastApplied'[n] < MaxSlot => decided'[n][lastApplied'[n] + 1] = NoValue
                 /\ register'[n] = Registers(n)'[lastApplied'[n]]
      <4>1. CASE n = m
        <5>1. \A t \in 1..last : t \in 1..first \/ t \in (first + 1)..last
          BY <2>2
        <5>2. \A t \in 1..last : log[t] # NoValue
          BY <2>1, <2>5, <5>1
        <5>3. register'[m] = Registers(m)'[last]
          BY <2>2, <2>6, <2>11
        <5> QED BY <2>1, <2>6, <4>1, <5>2, <5>3
      <4>2. CASE n # m
        BY <2>7, <2>12, <4>2 DEF PrefixInv
      <4> QED BY <4>1, <4>2
    <3> QED BY <3>1 DEF PrefixInv
  <2>15. ResultsInv'
    <3>1. ASSUME NEW n \in Member, NEW t \in Slot, results'[n][t] # NoResult
          PROVE  t <= lastApplied'[n] /\
                 results'[n][t] = ResultOf(Registers(n)'[t - 1], decided'[n][t])
      <4>1. CASE n # m
        BY <2>7, <2>12, <3>1, <4>1 DEF ResultsInv, OutcomeAt
      <4>2. CASE n = m /\ t \in (first + 1)..last
        <5>1. t - 1 \in first..last /\ t <= last
          BY <2>2, <4>2
        <5>2. results'[m][t] = ResultOf(Replay(register[m], log, first, last)[t - 1], log[t])
          BY <2>6, <4>2
        <5> QED BY <2>6, <2>11, <4>2, <5>1, <5>2
      <4>3. CASE n = m /\ t \notin (first + 1)..last
        <5>1. results'[m][t] = results[m][t]
          BY <2>6, <4>3
        <5>2. t <= first /\ results[m][t] = ResultOf(Registers(m)[t - 1], decided[m][t])
          BY <3>1, <4>3, <5>1 DEF ResultsInv, OutcomeAt
        <5>3. t \in 1..first /\ t - 1 \in 0..first /\ t <= last
          BY <2>2, <5>2 DEF Slot
        <5>4. Registers(m)'[t - 1] = Registers(m)[t - 1] /\ log[t] = decided[m][t]
          BY <2>5, <2>10, <5>3
        <5> QED BY <2>6, <4>3, <5>1, <5>2, <5>3, <5>4
      <4> QED BY <4>1, <4>2, <4>3
    <3> QED BY <3>1 DEF ResultsInv, OutcomeAt
  <2>16. \A t \in (first + 1)..last : results'[m][t] # NoResult
    <3> SUFFICES ASSUME NEW t \in (first + 1)..last PROVE results'[m][t] # NoResult
      OBVIOUS
    <3>1. t \in Slot /\ t - 1 \in first..last /\ t - 1 \in 0..last /\ t \in 1..last
      BY <2>2 DEF Slot
    <3>2. Registers(m)'[t - 1] \in Snapshot /\ log[t] \in Command
      <4>1. \A u \in 1..last : u \in Slot
        BY <2>2 DEF Slot
      <4>2. \A u \in 1..last : log[u] \in Command
        BY <2>6, <2>14, <4>1 DEF TypeOK, PrefixInv
      <4>3. Replay(InitialSnapshot, log, 0, last) \in [0..last -> Snapshot]
        BY <2>2, <4>2, RegistersType
      <4> QED BY <2>9, <3>1, <4>2, <4>3
    <3>3. results'[m][t] = ResultOf(Registers(m)'[t - 1], log[t])
      BY <2>6, <2>11, <3>1
    <3>4. results'[m][t] \in Result
      BY <3>2, <3>3, AppliedType
    <3> QED BY <3>4, Absences
  <2>17. \A n \in Member, t \in Slot : results[n][t] # NoResult => results'[n][t] # NoResult
    <3>1. \A t \in Slot : results[m][t] # NoResult => results'[m][t] # NoResult
      BY <2>6, <2>16
    <3> QED BY <2>7, <3>1
  <2>18. \A t \in Slot : lastApplied[m] < t /\ t <= lastApplied'[m] => results'[m][t] # NoResult
    BY <2>2, <2>6, <2>16 DEF Slot
  <2> QED BY <1>2, <2>3, <2>6, <2>13, <2>14, <2>15, <2>17, <2>18
<1> QED BY <1>1, <1>2

\* A step that records no decision; results may be forgotten, at a member whose calls fail.
LEMMA LogUntouched ==
  ASSUME TypeOK, PrefixInv, ResultsInv, UNCHANGED <<decided, lastApplied, register>>,
         \A m \in Member, s \in Slot : results'[m][s] \in {results[m][s], NoResult}
  PROVE  PrefixInv' /\ ResultsInv' /\ \A m \in Member : LogStands(m)
<1>1. \A m : Registers(m)' = Registers(m)
  BY DEF Registers
<1>2. PrefixInv'
  BY <1>1 DEF PrefixInv
<1>3. ResultsInv'
  BY <1>1 DEF ResultsInv, OutcomeAt
<1>4. \A m \in Member : LogStands(m)
  BY <1>1, LogType DEF LogStands
<1> QED BY <1>2, <1>3, <1>4

\* What a call was asked stays, once it has begun.
CommandsStand ==
  \A d \in Call : call'[d].command = call[d].command \/ call[d].command = NoValue

SlotPhase == {"reserve", "prepare", "accept", "learn", "learned"}

\* A call that is still in its slot.
LEMMA SlotStands ==
  ASSUME TypeOK, TypeOK', NEW c \in Call, SlotInv(c), \A m \in Member : LogStands(m),
         call[c].pc \in SlotPhase, call'[c].at = call[c].at, call'[c].slot = call[c].slot,
         call'[c].pc = "learned" => call[c].pc = "learned" /\ call'[c].selected = call[c].selected,
         \A s \in Slot : results[call[c].at][s] # NoResult => results'[call[c].at][s] # NoResult,
         \A s \in Slot : lastApplied[call[c].at] < s /\ s <= lastApplied'[call[c].at]
                           => results'[call[c].at][s] # NoResult
  PROVE  SlotInv(c)'
<1> DEFINE m == call[c].at
           s == call[c].slot
<1>1. m \in Member /\ s \in Slot /\ (call[c].pc = "learned" => call[c].selected \in Command)
  BY DEF TypeOK, WellFormed, Running, SlotPhase
<1>2. /\ s <= lastApplied[m] + 1
      /\ s <= lastApplied[m] => results[m][s] # NoResult
      /\ call[c].pc = "learned" => s <= lastApplied[m] /\ decided[m][s] = call[c].selected
  BY DEF SlotInv, SlotPhase
<1>3. /\ lastApplied[m] \in Nat /\ lastApplied'[m] \in Nat /\ lastApplied[m] <= lastApplied'[m]
      /\ s \in Nat
  BY <1>1, LogType DEF LogStands, TypeOK, Slot
<1>4. s <= lastApplied'[m] + 1
  BY <1>2, <1>3
<1>5. s <= lastApplied'[m] => results'[m][s] # NoResult
  BY <1>1, <1>2, <1>3
<1>6. call'[c].pc = "learned" => s <= lastApplied'[m] /\ decided'[m][s] = call'[c].selected
  <2>1. call'[c].pc = "learned" => decided[m][s] # NoValue
    BY <1>1, <1>2, NoValueAssumption
  <2> QED BY <1>1, <1>2, <1>3, <2>1 DEF LogStands
<1> QED BY <1>4, <1>5, <1>6 DEF SlotInv

\* An answer that was given stays what it was.
LEMMA AnswerStands ==
  ASSUME TypeOK, TypeOK', PrefixInv, NEW c \in Call, AnswerInv(c),
         \A m \in Member : LogStands(m), Done(c)' => Done(c),
         call'[c].command = call[c].command, call'[c].result = call[c].result
  PROVE  AnswerInv(c)'
<1> SUFFICES ASSUME Done(c) PROVE AnswerInv(c)'
  BY DEF AnswerInv
<1>1. PICK m \in Member : \E s \in 1..lastApplied[m] :
        decided[m][s] = call[c].command /\ call[c].result = OutcomeAt(m, s)
  BY DEF AnswerInv
<1>2. PICK s \in 1..lastApplied[m] :
        decided[m][s] = call[c].command /\ call[c].result = OutcomeAt(m, s)
  BY <1>1
<1>3. lastApplied[m] \in Nat /\ lastApplied'[m] \in Nat /\ lastApplied[m] <= lastApplied'[m]
  BY LogType DEF LogStands, TypeOK
<1>4. s \in 1..lastApplied'[m] /\ s - 1 \in 0..lastApplied[m]
  BY <1>3
<1>5. s \in Slot /\ decided[m][s] # NoValue
  BY <1>2, PrefixType, NoValueAssumption
<1>6. decided'[m][s] = decided[m][s] /\ Registers(m)'[s - 1] = Registers(m)[s - 1]
  BY <1>4, <1>5 DEF LogStands
<1>7. OutcomeAt(m, s)' = OutcomeAt(m, s)
  BY <1>6 DEF OutcomeAt
<1> QED BY <1>2, <1>4, <1>6, <1>7 DEF AnswerInv

\* A member that had passed the version reported before still has.
LEMMA FreshStands ==
  ASSUME TypeOK, TypeOK', PrefixInv, NEW c \in Call, FreshInv(c),
         \A m \in Member : LogStands(m), CommandsStand,
         Running(c)' \/ Done(c)' => Running(c) \/ Done(c), call[c].command \in Command,
         call'[c].command = call[c].command, call'[c].floor = call[c].floor
  PROVE  FreshInv(c)'
<1> SUFFICES ASSUME Running(c)' \/ Done(c)', Alone(c)' PROVE FreshInv(c)'
  BY DEF FreshInv
<1>1. Alone(c)
  BY NoValueAssumption DEF Alone, CommandsStand
<1>2. PICK m \in Member : \E t \in 0..lastApplied[m] :
        /\ Registers(m)[t].version >= call[c].floor
        /\ \A s \in 1..t : decided[m][s] # call[c].command
  BY <1>1 DEF FreshInv
<1>3. PICK t \in 0..lastApplied[m] :
        /\ Registers(m)[t].version >= call[c].floor
        /\ \A s \in 1..t : decided[m][s] # call[c].command
  BY <1>2
<1>4. lastApplied[m] \in Nat /\ lastApplied'[m] \in Nat /\ lastApplied[m] <= lastApplied'[m]
  BY LogType DEF LogStands, TypeOK
<1>5. t \in 0..lastApplied'[m] /\ \A s \in 1..t : s \in 1..lastApplied[m]
  BY <1>4
<1>6. \A s \in 1..t : s \in Slot /\ decided[m][s] # NoValue
  BY <1>5, PrefixType, NoValueAssumption
<1>7. Registers(m)'[t] = Registers(m)[t] /\ \A s \in 1..t : decided'[m][s] = decided[m][s]
  BY <1>6 DEF LogStands
<1> QED BY <1>3, <1>5, <1>7 DEF FreshInv

\* Every slot below one that is put to the vote stays decided.
LEMMA HolesStand ==
  ASSUME TypeOK, NoHoles, \A m \in Member : LogStands(m),
         \A r \in msgs' : r.type = "accept" => r \in msgs
  PROVE  NoHoles'
<1> SUFFICES ASSUME NEW s \in Slot, NEW v \in 1..MaxSlot, v < s, VoteRequests(s)' # {}
             PROVE  \E m \in Member : decided'[m][v] # NoValue
  BY DEF NoHoles
<1>1. VoteRequests(s) # {}
  BY DEF VoteRequests
<1>2. PICK m \in Member : decided[m][v] # NoValue
  BY <1>1 DEF NoHoles
<1> QED BY <1>2 DEF LogStands, Slot

LEMMA SentStands ==
  ASSUME TypeOK, SentInv, CommandsStand,
         \A c \in Call : call'[c].pc = "idle" => call'[c].command = call[c].command /\ call[c].pc = "idle",
         \A r \in msgs' : r.type = "accept" => r \in msgs
  PROVE  SentInv'
<1>1. \A c \in Call : call'[c].pc = "idle" => call'[c].command = NoValue
  BY DEF SentInv
<1>2. ASSUME NEW r \in msgs', r.type = "accept" PROVE \E c \in Call : call'[c].command = r.value
  <2>1. r \in msgs /\ r.value \in Command
    BY <1>2, MessageType
  <2>2. PICK c \in Call : call[c].command = r.value
    BY <1>2, <2>1 DEF SentInv
  <2> QED BY <2>1, <2>2, NoValueAssumption DEF CommandsStand
<1> QED BY <1>1, <1>2 DEF SentInv

\* Results are forgotten by no step but a restart, and every slot gets one as it is applied.
ResultsStand ==
  \A m \in Member, s \in Slot :
    results[m][s] # NoResult \/ (lastApplied[m] < s /\ s <= lastApplied'[m])
      => results'[m][s] # NoResult

\* The fields of a call that the log is about.
SameCall(c) ==
  /\ call'[c].pc = call[c].pc /\ call'[c].at = call[c].at /\ call'[c].slot = call[c].slot
  /\ call'[c].command = call[c].command /\ call'[c].selected = call[c].selected
  /\ call'[c].result = call[c].result /\ call'[c].floor = call[c].floor

\* The command of a call that runs or has an answer.
LEMMA CommandType ==
  ASSUME TypeOK, PrefixInv, NEW c \in Call, AnswerInv(c), Running(c) \/ Done(c)
  PROVE  call[c].command \in Command
<1>1. CASE Running(c)
  BY <1>1 DEF TypeOK, WellFormed
<1>2. CASE Done(c)
  <2>1. PICK m \in Member : \E s \in 1..lastApplied[m] : decided[m][s] = call[c].command
    BY <1>2 DEF AnswerInv
  <2> QED BY <2>1, PrefixType
<1> QED BY <1>1, <1>2

\* What the log says of a call that the step leaves where it is.
LEMMA CallStands ==
  ASSUME TypeOK, TypeOK', LogInv, \A m \in Member : LogStands(m), ResultsStand, CommandsStand,
         NEW c \in Call, SameCall(c)
  PROVE  SlotInv(c)' /\ AnswerInv(c)' /\ FreshInv(c)'
<1>1. PrefixInv /\ SlotInv(c) /\ AnswerInv(c) /\ FreshInv(c)
  BY DEF LogInv
<1>2. CASE call[c].pc \in SlotPhase
  <2>1. call[c].at \in Member
    BY <1>2 DEF TypeOK, WellFormed, Running, SlotPhase
  <2> QED BY <1>1, <1>2, <2>1, SlotStands, CommandType, AnswerStands, FreshStands
          DEF SameCall, ResultsStand, Done, Running, SlotPhase
<1>3. CASE call[c].pc \notin SlotPhase
  <2>1. SlotInv(c)'
    BY <1>3 DEF SlotInv, SameCall, SlotPhase
  <2>2. AnswerInv(c)'
    BY <1>1, AnswerStands DEF SameCall, Done
  <2>3. CASE Running(c) \/ Done(c)
    BY <1>1, <2>1, <2>2, <2>3, CommandType, FreshStands DEF SameCall, Done, Running
  <2>4. CASE ~(Running(c) \/ Done(c))
    BY <2>1, <2>2, <2>4 DEF FreshInv, SameCall, Done, Running
  <2> QED BY <2>3, <2>4
<1> QED BY <1>2, <1>3

\* What the log says of a call that goes on in its slot, short of having learned.
LEMMA CallMovesOn ==
  ASSUME TypeOK, TypeOK', LogInv, \A m \in Member : LogStands(m), ResultsStand, CommandsStand,
         NEW c \in Call, call[c].pc \in SlotPhase, call'[c].pc \in SlotPhase \ {"learned"},
         call'[c].at = call[c].at, call'[c].slot = call[c].slot,
         call'[c].command = call[c].command, call'[c].floor = call[c].floor
  PROVE  SlotInv(c)' /\ AnswerInv(c)' /\ FreshInv(c)'
<1>1. PrefixInv /\ SlotInv(c) /\ AnswerInv(c) /\ FreshInv(c)
  BY DEF LogInv
<1>2. call[c].at \in Member /\ Running(c)
  BY DEF TypeOK, WellFormed, Running, SlotPhase
<1>3. SlotInv(c)'
  BY <1>1, <1>2, SlotStands DEF ResultsStand
<1>4. AnswerInv(c)'
  BY DEF AnswerInv, Done, SlotPhase
<1>5. FreshInv(c)'
  BY <1>1, <1>2, CommandType, FreshStands
<1> QED BY <1>3, <1>4, <1>5

\* A step that takes one call on.
LEMMA OneCallStep ==
  ASSUME TypeOK, TypeOK', LogInv, PrefixInv', ResultsInv', NoHoles', SentInv',
         \A m \in Member : LogStands(m), ResultsStand, CommandsStand,
         NEW c \in Call, \A d \in Call : d # c => call'[d] = call[d],
         SlotInv(c)' /\ AnswerInv(c)' /\ FreshInv(c)'
  PROVE  LogInv'
<1>1. \A d \in Call : d # c => SameCall(d)
  BY DEF SameCall
<1>2. \A d \in Call : SlotInv(d)' /\ AnswerInv(d)' /\ FreshInv(d)'
  BY <1>1, CallStands
<1> QED BY <1>2 DEF LogInv

\* What holds after a step that records nothing and asks no vote.
LEMMA QuietLog ==
  ASSUME TypeOK, LogInv, UNCHANGED <<decided, lastApplied, register, results>>,
         CommandsStand,
         \A c \in Call : call'[c].pc = "idle" => call'[c].command = call[c].command /\ call[c].pc = "idle",
         \A r \in msgs' : r.type = "accept" => r \in msgs
  PROVE  /\ PrefixInv' /\ ResultsInv' /\ NoHoles' /\ SentInv'
         /\ (\A m \in Member : LogStands(m)) /\ ResultsStand
<1>1. PrefixInv' /\ ResultsInv' /\ \A m \in Member : LogStands(m)
  BY LogUntouched DEF LogInv
<1>2. NoHoles' /\ SentInv'
  BY <1>1, HolesStand, SentStands DEF LogInv
<1>3. ResultsStand
  BY LogType DEF ResultsStand, Slot
<1> QED BY <1>1, <1>2, <1>3

\* A delivery changes the replies of a call at most.
LEMMA ReplyKeeps ==
  ASSUME call \in [Call -> CallState], NEW phase, NEW b, NEW reply, ReplyTo(phase, b, reply)
  PROVE  \A c \in Call : SameCall(c)
<1>1. CASE UNCHANGED call
  BY <1>1 DEF SameCall
<1>2. CASE \E d \in Call : Deliver(d, phase, b, reply)
  <2>1. PICK d \in Call : \E R : call' = [call EXCEPT ![d].replies = R]
    BY <1>2 DEF Deliver
  <2>2. PICK R : call' = [call EXCEPT ![d].replies = R]
    BY <2>1
  <2> QED BY <2>2 DEF SameCall, CallState
<1> QED BY <1>1, <1>2 DEF ReplyTo

LEMMA VoteHandlersLog ==
  ASSUME TypeOK, TypeOK', LogInv, NEW m \in Member, HandlePrepare(m) \/ HandleAccept(m)
  PROVE  LogInv'
<1>1. UNCHANGED <<decided, lastApplied, register, results, msgs>>
  BY DEF HandlePrepare, HandleAccept
<1>2. \A c \in Call : SameCall(c)
  <2>1. call \in [Call -> CallState]
    BY DEF TypeOK
  <2>2. CASE HandlePrepare(m)
    <3>1. \E phase, b, reply : ReplyTo(phase, b, reply)
      BY <2>2 DEF HandlePrepare
    <3> QED BY <2>1, <3>1, ReplyKeeps
  <2>3. CASE HandleAccept(m)
    <3>1. \E phase, b, reply : ReplyTo(phase, b, reply)
      BY <2>3 DEF HandleAccept
    <3> QED BY <2>1, <3>1, ReplyKeeps
  <2> QED BY <2>2, <2>3
<1>3. CommandsStand
  BY <1>2 DEF SameCall, CommandsStand
<1>4. /\ PrefixInv' /\ ResultsInv' /\ NoHoles' /\ SentInv'
      /\ (\A n \in Member : LogStands(n)) /\ ResultsStand
  BY <1>1, <1>2, <1>3, QuietLog DEF SameCall
<1>5. \A c \in Call : SlotInv(c)' /\ AnswerInv(c)' /\ FreshInv(c)'
  BY <1>2, <1>3, <1>4, CallStands
<1> QED BY <1>4, <1>5 DEF LogInv

\* The steps in which call c goes on in its slot, or leaves it without an answer.
LEMMA QuietStepLog ==
  ASSUME TypeOK, TypeOK', LogInv, NEW c \in Call,
         UNCHANGED <<decided, lastApplied, register, results>>,
         \A d \in Call : d # c => call'[d] = call[d],
         call'[c].command = call[c].command,
         \A r \in msgs' : r.type = "accept" => r \in msgs,
         \/ /\ call[c].pc \in SlotPhase /\ call'[c].pc \in SlotPhase \ {"learned"}
            /\ call'[c].at = call[c].at /\ call'[c].slot = call[c].slot
            /\ call'[c].floor = call[c].floor
         \/ call'[c].pc = "failed"
         \/ call[c].pc = "learned" /\ call'[c].pc = "propose" /\ call'[c].floor = call[c].floor
  PROVE  LogInv'
<1>1. CommandsStand
  BY DEF CommandsStand
<1>2. /\ PrefixInv' /\ ResultsInv' /\ NoHoles' /\ SentInv'
      /\ (\A m \in Member : LogStands(m)) /\ ResultsStand
  <2>1. \A d \in Call : call'[d].pc = "idle" => call'[d].command = call[d].command /\ call[d].pc = "idle"
    BY DEF SlotPhase
  <2> QED BY <1>1, <2>1, QuietLog
<1>3. SlotInv(c)' /\ AnswerInv(c)' /\ FreshInv(c)'
  <2>1. CASE call[c].pc \in SlotPhase /\ call'[c].pc \in SlotPhase \ {"learned"}
    BY <1>1, <1>2, <2>1, CallMovesOn DEF SlotPhase
  <2>2. CASE call'[c].pc = "failed"
    BY <2>2 DEF SlotInv, AnswerInv, FreshInv, Running, Done
  <2>3. CASE call[c].pc = "learned" /\ call'[c].pc = "propose" /\ call'[c].floor = call[c].floor
    <3>1. Running(c) /\ PrefixInv /\ AnswerInv(c) /\ FreshInv(c)
      BY <2>3 DEF Running, LogInv
    <3>2. FreshInv(c)'
      BY <1>1, <1>2, <2>3, <3>1, CommandType, FreshStands
    <3> QED BY <2>3, <3>2 DEF SlotInv, AnswerInv, Done
  <2> QED BY <2>1, <2>2, <2>3
<1> QED BY <1>1, <1>2, <1>3, OneCallStep

\* The proposer's steps that neither take a slot, ask for votes, learn nor answer.
LEMMA QuietProposerLog ==
  ASSUME TypeOK, TypeOK', LogInv, NEW c \in Call,
         \/ ReserveBallot(c) \/ NoQuorum(c) \/ AdoptDecision(c) \/ AcceptedByQuorum(c)
         \/ Outvoted(c) \/ NextSlot(c)
  PROVE  LogInv'
<1>1. call \in [Call -> CallState] /\ call[c] \in CallState
  BY DEF TypeOK
<1>2. CASE ReserveBallot(c)
  <2>1. PICK b, k : /\ call' = [call EXCEPT ![c] = [call[c] EXCEPT !.pc = "prepare", !.ballot = b,
                                        !.attempts = k, !.replies = {}]]
                    /\ msgs' = msgs \cup {[type |-> "prepare", from |-> call[c].at,
                                           slot |-> call[c].slot, ballot |-> b]}
    BY <1>2 DEF ReserveBallot
  <2>2. call'[c] = [call[c] EXCEPT !.pc = "prepare", !.ballot = b, !.attempts = k, !.replies = {}]
    BY <1>1, <2>1
  <2>3. /\ call'[c].pc = "prepare" /\ call'[c].at = call[c].at /\ call'[c].slot = call[c].slot
        /\ call'[c].floor = call[c].floor /\ call'[c].command = call[c].command
    BY <1>1, <2>2 DEF CallState
  <2>4. /\ call[c].pc \in SlotPhase /\ call'[c].pc \in SlotPhase \ {"learned"}
        /\ UNCHANGED <<decided, lastApplied, register, results>>
        /\ \A r \in msgs' : r.type = "accept" => r \in msgs
    BY <1>2, <2>1, <2>3 DEF ReserveBallot, SlotPhase
  <2>5. \A d \in Call : d # c => call'[d] = call[d]
    BY <1>1, <2>1
  <2> QED BY <2>3, <2>4, <2>5, QuietStepLog
<1>3. CASE NoQuorum(c)
  <2>1. call' = [call EXCEPT ![c] = Failed(c)] /\ UNCHANGED <<durable, results, msgs>>
    BY <1>3 DEF NoQuorum, Fail
  <2>2. call'[c].pc = "failed" /\ call'[c].command = call[c].command
    BY <1>1, <2>1 DEF Failed, NewCall
  <2>3. \A d \in Call : d # c => call'[d] = call[d]
    BY <1>1, <2>1
  <2> QED BY <2>1, <2>2, <2>3, QuietStepLog DEF durable
<1>4. CASE AdoptDecision(c)
  <2>1. PICK value : call' = [call EXCEPT ![c] = [call[c] EXCEPT !.pc = "learn", !.selected = value,
                                                    !.replies = {}]]
    BY <1>4 DEF AdoptDecision
  <2>2. /\ call'[c].pc = "learn" /\ call'[c].at = call[c].at /\ call'[c].slot = call[c].slot
        /\ call'[c].floor = call[c].floor /\ call'[c].command = call[c].command
    BY <1>1, <2>1 DEF CallState
  <2>3. \A d \in Call : d # c => call'[d] = call[d]
    BY <1>1, <2>1
  <2>4. call[c].pc = "prepare" /\ UNCHANGED <<durable, results, msgs>>
    BY <1>4 DEF AdoptDecision
  <2> QED BY <2>2, <2>3, <2>4, QuietStepLog DEF durable, SlotPhase
<1>5. CASE AcceptedByQuorum(c)
  <2>1. /\ call' = [call EXCEPT ![c] = [call[c] EXCEPT !.pc = "learn", !.replies = {}]]
        /\ call[c].pc = "accept" /\ UNCHANGED <<durable, results, msgs>>
    BY <1>5 DEF AcceptedByQuorum
  <2>2. /\ call'[c].pc = "learn" /\ call'[c].at = call[c].at /\ call'[c].slot = call[c].slot
        /\ call'[c].floor = call[c].floor /\ call'[c].command = call[c].command
    BY <1>1, <2>1 DEF CallState
  <2>3. \A d \in Call : d # c => call'[d] = call[d]
    BY <1>1, <2>1
  <2> QED BY <2>1, <2>2, <2>3, QuietStepLog DEF durable, SlotPhase
<1>6. CASE Outvoted(c)
  <2>1. PICK n : call' = [call EXCEPT ![c] = [call[c] EXCEPT !.pc = "reserve", !.observed = n,
                                                !.replies = {}]]
    BY <1>6 DEF Outvoted
  <2>2. /\ call'[c].pc = "reserve" /\ call'[c].at = call[c].at /\ call'[c].slot = call[c].slot
        /\ call'[c].floor = call[c].floor /\ call'[c].command = call[c].command
    BY <1>1, <2>1 DEF CallState
  <2>3. \A d \in Call : d # c => call'[d] = call[d]
    BY <1>1, <2>1
  <2>4. call[c].pc \in {"prepare", "accept"} /\ UNCHANGED <<durable, results, msgs>>
    BY <1>6 DEF Outvoted
  <2> QED BY <2>2, <2>3, <2>4, QuietStepLog DEF durable, SlotPhase
<1>7. CASE NextSlot(c)
  <2>1. /\ call' = [call EXCEPT ![c] = [call[c] EXCEPT !.pc = "propose"]]
        /\ call[c].pc = "learned" /\ UNCHANGED <<durable, results, msgs>>
    BY <1>7 DEF NextSlot, Goto
  <2>2. /\ call'[c].pc = "propose" /\ call'[c].floor = call[c].floor
        /\ call'[c].command = call[c].command
    BY <1>1, <2>1 DEF CallState
  <2>3. \A d \in Call : d # c => call'[d] = call[d]
    BY <1>1, <2>1
  <2> QED BY <2>1, <2>2, <2>3, QuietStepLog DEF durable
<1> QED BY <1>2, <1>3, <1>4, <1>5, <1>6, <1>7

\* A call takes the slot after the prefix of its member.
LEMMA TakeSlotLog ==
  ASSUME TypeOK, TypeOK', LogInv, NEW c \in Call, TakeSlot(c)
  PROVE  LogInv'
<1>1. call \in [Call -> CallState] /\ call[c] \in CallState /\ call[c].pc = "propose"
  BY DEF TypeOK, TakeSlot
<1>2. UNCHANGED <<decided, lastApplied, register, results, msgs>>
  BY DEF TakeSlot, durable
<1>3. call' = [call EXCEPT ![c] = [call[c] EXCEPT !.pc = "reserve",
                 !.slot = lastApplied[call[c].at] + 1, !.attempts = 0, !.observed = 0]]
  BY DEF TakeSlot
<1>4. /\ call'[c].pc = "reserve" /\ call'[c].at = call[c].at
      /\ call'[c].slot = lastApplied[call[c].at] + 1
      /\ call'[c].floor = call[c].floor /\ call'[c].command = call[c].command
  BY <1>1, <1>3 DEF CallState
<1>5. (\A d \in Call : d # c => call'[d] = call[d]) /\ CommandsStand
  BY <1>1, <1>3, <1>4 DEF CommandsStand
<1>6. /\ PrefixInv' /\ ResultsInv' /\ NoHoles' /\ SentInv'
      /\ (\A m \in Member : LogStands(m)) /\ ResultsStand
  BY <1>2, <1>4, <1>5, QuietLog
<1>7. SlotInv(c)'
  <2>1. call[c].at \in Member
    BY <1>1 DEF TypeOK, WellFormed, Running
  <2>2. lastApplied[call[c].at] \in Nat
    BY <2>1, LogType
  <2> QED BY <1>2, <1>4, <2>2 DEF SlotInv
<1>8. FreshInv(c)'
  <2>1. Running(c) /\ PrefixInv /\ AnswerInv(c) /\ FreshInv(c)
    BY <1>1 DEF Running, LogInv
  <2> QED BY <1>4, <1>5, <1>6, <2>1, CommandType, FreshStands
<1>9. AnswerInv(c)'
  BY <1>4 DEF AnswerInv, Done
<1> QED BY <1>5, <1>6, <1>7, <1>8, <1>9, OneCallStep

\* A call that won its slot answers with the outcome of its command there.
LEMMA ReturnLog ==
  ASSUME TypeOK, TypeOK', LogInv, NEW c \in Call, Return(c)
  PROVE  LogInv'
<1>1. call \in [Call -> CallState] /\ call[c] \in CallState /\ WellFormed(c)
  BY DEF TypeOK
<1>2. UNCHANGED <<decided, lastApplied, register, results, msgs>>
  BY DEF Return, durable
<1>0. PICK m, s : m = call[c].at /\ s = call[c].slot
  OBVIOUS
<1>3. /\ call[c].pc = "learned" /\ call[c].selected = call[c].command
      /\ results[m][s] # NoResult
      /\ call' = [call EXCEPT ![c] = [call[c] EXCEPT !.pc = "done", !.result = results[m][s]]]
  BY <1>0 DEF Return
<1>4. /\ call'[c].pc = "done" /\ call'[c].result = results[m][s]
      /\ call'[c].floor = call[c].floor /\ call'[c].command = call[c].command
  BY <1>1, <1>3 DEF CallState
<1>5. (\A d \in Call : d # c => call'[d] = call[d]) /\ CommandsStand
  BY <1>1, <1>3, <1>4 DEF CommandsStand
<1>6. /\ PrefixInv' /\ ResultsInv' /\ NoHoles' /\ SentInv'
      /\ (\A n \in Member : LogStands(n)) /\ ResultsStand
  BY <1>2, <1>4, <1>5, QuietLog
<1>7. m \in Member /\ s \in Slot
  BY <1>0, <1>1, <1>3 DEF WellFormed, Running
<1>8. SlotInv(c)'
  BY <1>4 DEF SlotInv
<1>9. FreshInv(c)'
  <2>1. Running(c) /\ PrefixInv /\ AnswerInv(c) /\ FreshInv(c)
    BY <1>3 DEF Running, LogInv
  <2> QED BY <1>4, <1>5, <1>6, <2>1, CommandType, FreshStands
<1>10. AnswerInv(c)'
  <2>1. SlotInv(c) /\ ResultsInv
    BY DEF LogInv
  <2>2. s <= lastApplied[m] /\ decided[m][s] = call[c].command
    BY <1>0, <1>3, <2>1 DEF SlotInv
  <2>3. results[m][s] = OutcomeAt(m, s) /\ OutcomeAt(m, s)' = OutcomeAt(m, s)
    BY <1>2, <1>3, <1>7, <2>1 DEF ResultsInv, OutcomeAt, Registers
  <2>4. s \in 1..lastApplied[m]
    BY <1>7, <2>2, LogType DEF Slot
  <2> QED BY <1>2, <1>4, <1>7, <2>2, <2>3, <2>4 DEF AnswerInv
<1> QED BY <1>5, <1>6, <1>8, <1>9, <1>10, OneCallStep

\* The value that a call puts to the vote was sent by a client.
LEMMA AdoptedWasSent ==
  ASSUME IInv, SentInv, NEW c \in Call, call[c].pc = "prepare", NEW R \in Arrived(c),
         NEW value, Adopts({r \in R : r.promised}, call[c].command, value)
  PROVE  \E d \in Call : call[d].command = value
<1>1. CASE value = call[c].command
  BY <1>1
<1>2. CASE value # call[c].command
  <2>1. PICK r \in R : r.promised /\ r.accepted # Nothing /\ value = r.accepted.value
    BY <1>2 DEF Adopts
  <2>2. r \in call[c].replies
    BY DEF Arrived
  <2>3. VotedFor(r.from, call[c].slot, r.accepted.ballot, r.accepted.value)
    BY <2>1, <2>2 DEF IInv, ProposerInv, PromiseHolds
  <2>4. PICK q \in VoteRequests(call[c].slot) : q.value = r.accepted.value
    <3>1. <<r.from, call[c].slot, r.accepted.ballot, r.accepted.value>> \in votes
      BY <2>3 DEF VotedFor
    <3> QED BY <3>1 DEF IInv, VotesInv
  <2> QED BY <2>1, <2>4 DEF SentInv, VoteRequests
<1> QED BY <1>1, <1>2

\* A call asks for votes in the slot after a prefix that its member has applied.
LEMMA SendAcceptLog ==
  ASSUME IInv, TypeOK', LogInv, NEW c \in Call, SendAccept(c)
  PROVE  LogInv'
<1>1. /\ TypeOK /\ call \in [Call -> CallState] /\ call[c] \in CallState
      /\ call[c].pc = "prepare" /\ WellFormed(c)
  BY DEF IInv, TypeOK, SendAccept
<1>2. UNCHANGED <<decided, lastApplied, register, results>>
  BY DEF SendAccept, durable
<1>3. PICK R \in Arrived(c), value \in Command : \E n :
        /\ Adopts({r \in R : r.promised}, call[c].command, value)
        /\ call' = [call EXCEPT ![c] = [call[c] EXCEPT !.pc = "accept", !.selected = value,
                                          !.observed = n, !.replies = {}]]
        /\ msgs' = msgs \cup {[type |-> "accept", from |-> call[c].at, slot |-> call[c].slot,
                               ballot |-> call[c].ballot, value |-> value]}
  BY DEF SendAccept
<1>4. /\ call'[c].pc = "accept" /\ call'[c].at = call[c].at /\ call'[c].slot = call[c].slot
      /\ call'[c].floor = call[c].floor /\ call'[c].command = call[c].command
  BY <1>1, <1>3 DEF CallState
<1>5. (\A d \in Call : d # c => call'[d] = call[d]) /\ CommandsStand
  BY <1>1, <1>3, <1>4 DEF CommandsStand
<1>6. /\ PrefixInv' /\ ResultsInv' /\ ResultsStand
      /\ \A m \in Member : LogStands(m)
  <2>1. PrefixInv' /\ ResultsInv' /\ \A m \in Member : LogStands(m)
    BY <1>1, <1>2, LogUntouched DEF LogInv
  <2> QED BY <1>1, <1>2, <2>1, LogType DEF ResultsStand, Slot
<1>7. NoHoles'
  <2> SUFFICES ASSUME NEW s \in Slot, NEW v \in 1..MaxSlot, v < s, VoteRequests(s)' # {}
               PROVE  \E m \in Member : decided'[m][v] # NoValue
    BY DEF NoHoles
  <2>1. CASE VoteRequests(s) # {}
    BY <1>2, <2>1 DEF LogInv, NoHoles
  <2>2. CASE VoteRequests(s) = {}
    <3>1. s = call[c].slot
      BY <1>3, <2>2 DEF VoteRequests
    <3>2. call[c].at \in Member
      BY <1>1 DEF WellFormed, Running
    <3>3. s <= lastApplied[call[c].at] + 1
      BY <1>1, <3>1 DEF LogInv, SlotInv
    <3>4. v \in 1..lastApplied[call[c].at]
      BY <1>1, <3>2, <3>3, LogType DEF Slot
    <3> QED BY <1>2, <3>2, <3>4 DEF LogInv, PrefixInv
  <2> QED BY <2>1, <2>2
<1>8. SentInv'
  <2>1. SentInv
    BY DEF LogInv
  <2>2. \E d \in Call : call[d].command = value
    BY <1>1, <1>3, <2>1, AdoptedWasSent
  <2>3. \A d \in Call : call'[d].command = call[d].command
    BY <1>4, <1>5
  <2>4. \A d \in Call : call'[d].pc = "idle" => call'[d].command = NoValue
    BY <1>4, <1>5, <2>1 DEF SentInv
  <2>5. \A r \in msgs' : r.type = "accept" => r \in msgs \/ r.value = value
    BY <1>3
  <2> QED BY <2>1, <2>2, <2>3, <2>4, <2>5 DEF SentInv
<1>9. SlotInv(c)' /\ AnswerInv(c)' /\ FreshInv(c)'
  BY <1>1, <1>4, <1>5, <1>6, CallMovesOn DEF SlotPhase
<1> QED BY <1>1, <1>5, <1>6, <1>7, <1>8, <1>9, OneCallStep

\* What holds after a member has recorded a decision.
LEMMA DecideLog ==
  ASSUME TypeOK, TypeOK', LogInv, NEW m \in Member, NEW s \in Slot, NEW v \in Command,
         Decide(m, s, v)
  PROVE  /\ PrefixInv' /\ ResultsInv' /\ ResultsStand
         /\ \A n \in Member : LogStands(n)
         /\ decided'[m][s] # NoValue /\ (decided[m][s] = NoValue => decided'[m][s] = v)
<1>1. /\ PrefixInv' /\ ResultsInv'
      /\ \A n \in Member : LogStands(n)
      /\ \A n \in Member, t \in Slot : results[n][t] # NoResult => results'[n][t] # NoResult
      /\ \A t \in Slot : lastApplied[m] < t /\ t <= lastApplied'[m] => results'[m][t] # NoResult
      /\ decided'[m][s] # NoValue /\ (decided[m][s] = NoValue => decided'[m][s] = v)
  BY DecideApplies DEF LogInv
<1>2. \A n \in Member \ {m} : lastApplied'[n] = lastApplied[n]
  BY DEF Decide, TypeOK
<1>3. \A n \in Member \ {m}, t \in Slot : ~(lastApplied[n] < t /\ t <= lastApplied'[n])
  BY <1>2, LogType DEF Slot
<1>4. ResultsStand
  BY <1>1, <1>3 DEF ResultsStand
<1> QED BY <1>1, <1>4

LEMMA HandleDecideLog ==
  ASSUME TypeOK, TypeOK', LogInv, NEW m \in Member, HandleDecide(m)
  PROVE  LogInv'
<1>1. PICK r \in msgs : r.type = "decide" /\ Decide(m, r.slot, r.value)
  BY DEF HandleDecide
<1>2. r.slot \in Slot /\ r.value \in Command
  BY <1>1, MessageType
<1>3. PrefixInv' /\ ResultsInv' /\ ResultsStand /\ \A n \in Member : LogStands(n)
  BY <1>1, <1>2, DecideLog
<1>4. call' = call /\ msgs' = msgs
  BY DEF HandleDecide
<1>5. CommandsStand /\ \A c \in Call : SameCall(c)
  BY <1>4 DEF CommandsStand, SameCall
<1>6. NoHoles' /\ SentInv'
  BY <1>3, <1>4, <1>5, HolesStand, SentStands DEF LogInv
<1>7. \A c \in Call : SlotInv(c)' /\ AnswerInv(c)' /\ FreshInv(c)'
  BY <1>3, <1>5, CallStands
<1> QED BY <1>3, <1>6, <1>7 DEF LogInv

\* A call's member learns the decision of the call's slot, and has applied it then.
LEMMA LearnLog ==
  ASSUME TypeOK, TypeOK', LogInv, NEW c \in Call, Learn(c)
  PROVE  LogInv'
<1>1. PICK m, s, v : m = call[c].at /\ s = call[c].slot /\ v = call[c].selected
  OBVIOUS
<1>2. call[c].pc = "learn" /\ call \in [Call -> CallState] /\ call[c] \in CallState /\ WellFormed(c)
  BY DEF Learn, TypeOK
<1>3. m \in Member /\ s \in Slot /\ v \in Command
  BY <1>1, <1>2 DEF WellFormed, Running
<1>4. /\ Decide(m, s, v) /\ ~ConflictingDecision(m, s, v)
      /\ msgs' = msgs \cup {[type |-> "decide", from |-> m, slot |-> s, value |-> v]}
      /\ call' = [call EXCEPT ![c] = [call[c] EXCEPT !.pc = "learned"]]
  BY <1>1 DEF Learn, Goto
<1>5. /\ PrefixInv' /\ ResultsInv' /\ ResultsStand
      /\ \A n \in Member : LogStands(n)
      /\ decided'[m][s] # NoValue /\ (decided[m][s] = NoValue => decided'[m][s] = v)
  BY <1>3, <1>4, DecideLog
<1>6. /\ call'[c].pc = "learned" /\ call'[c].at = m /\ call'[c].slot = s
      /\ call'[c].selected = v
      /\ call'[c].command = call[c].command /\ call'[c].floor = call[c].floor
  BY <1>1, <1>2, <1>4 DEF CallState
<1>7. (\A d \in Call : d # c => call'[d] = call[d]) /\ CommandsStand
  BY <1>2, <1>4, <1>6 DEF CommandsStand
<1>8. NoHoles' /\ SentInv'
  <2>1. \A r \in msgs' : r.type = "accept" => r \in msgs
    BY <1>4
  <2>2. \A d \in Call : call'[d].pc = "idle" => call'[d].command = call[d].command /\ call[d].pc = "idle"
    BY <1>6, <1>7
  <2> QED BY <1>5, <1>7, <2>1, <2>2, HolesStand, SentStands DEF LogInv
<1>9. SlotInv(c)'
  <2>1. /\ s <= lastApplied[m] + 1
        /\ s <= lastApplied[m] => results[m][s] # NoResult
    BY <1>1, <1>2 DEF LogInv, SlotInv
  <2>2. /\ lastApplied[m] \in Nat /\ lastApplied'[m] \in Nat /\ lastApplied[m] <= lastApplied'[m]
        /\ s \in Nat /\ s <= MaxSlot /\ MaxSlot \in Nat
    BY <1>3, <1>5, LogType DEF LogStands, TypeOK, Slot
  <2>3. s <= lastApplied'[m]
    <3>1. lastApplied'[m] < MaxSlot => decided'[m][lastApplied'[m] + 1] = NoValue
      BY <1>3, <1>5 DEF PrefixInv
    <3>2. s # lastApplied'[m] + 1
      BY <1>5, <2>2, <3>1
    <3> QED BY <2>1, <2>2, <3>2
  <2>4. results'[m][s] # NoResult
    BY <1>3, <1>5, <2>1, <2>2, <2>3 DEF ResultsStand
  <2>5. decided'[m][s] = v
    BY <1>3, <1>4, <1>5 DEF ConflictingDecision, LogStands
  <2>6. s <= lastApplied'[m] + 1
    BY <2>2, <2>3
  <2> QED BY <1>6, <2>3, <2>4, <2>5, <2>6 DEF SlotInv
<1>10. AnswerInv(c)'
  BY <1>6 DEF AnswerInv, Done
<1>11. FreshInv(c)'
  <2>1. Running(c) /\ PrefixInv /\ AnswerInv(c) /\ FreshInv(c)
    BY <1>2 DEF Running, LogInv
  <2> QED BY <1>5, <1>6, <1>7, <2>1, CommandType, FreshStands
<1> QED BY <1>5, <1>7, <1>8, <1>9, <1>10, <1>11, OneCallStep

\* A command that no call was sent is in no slot.
LEMMA UnsentIsUndecided ==
  ASSUME IInv, SentInv, NEW v \in Command, \A d \in Call : call[d].command # v,
         NEW m \in Member, NEW s \in Slot
  PROVE  decided[m][s] # v
<1> SUFFICES ASSUME decided[m][s] = v PROVE FALSE
  OBVIOUS
<1>1. decided[m][s] # NoValue
  BY NoValueAssumption
<1>2. PICK r \in VoteRequests(s) : r.value = v
  BY <1>1 DEF IInv, DecisionsAreChosen, Chosen
<1> QED BY <1>2 DEF SentInv, VoteRequests

\* Whatever version was reported, some member has passed it.
LEMMA ReportedIsApplied ==
  ASSUME TypeOK, LogInv, NEW n \in Member, NEW floor \in Reported
  PROVE  \E m \in Member : \E t \in 0..lastApplied[m] : Registers(m)[t].version >= floor
<1>0. PrefixInv
  BY DEF LogInv
<1>1. CASE floor = 0
  <2>1. 0 \in 0..lastApplied[n]
    BY LogType
  <2>2. Registers(n)[0] \in Snapshot
    BY <1>0, <2>1, PrefixType
  <2> QED BY <1>1, <2>1, <2>2 DEF Snapshot
<1>2. CASE floor # 0
  <2>1. PICK d \in Call : call[d].pc = "done" /\ floor = call[d].result.snapshot.version
    BY <1>2 DEF Reported
  <2>2. PICK m \in Member : \E s \in 1..lastApplied[m] : call[d].result = OutcomeAt(m, s)
    BY <2>1 DEF LogInv, AnswerInv, Done
  <2>3. PICK s \in 1..lastApplied[m] : call[d].result = OutcomeAt(m, s)
    BY <2>2
  <2>4. s \in 0..lastApplied[m] /\ s - 1 \in 0..lastApplied[m] /\ s # 0
    BY LogType
  <2>5. decided[m][s] \in Command /\ Registers(m)[s - 1] \in Snapshot /\ Registers(m)[s] \in Snapshot
    BY <1>0, <2>4, PrefixType
  <2>6. Registers(m)[s] = Applied(Registers(m)[s - 1], decided[m][s])
    BY <1>0, <2>4, PrefixType
  <2>7. call[d].result.snapshot = Registers(m)[s]
    BY <2>3, <2>5, <2>6, AppliedRises DEF OutcomeAt
  <2>8. Registers(m)[s].version >= floor
    BY <2>1, <2>5, <2>7 DEF Snapshot
  <2> QED BY <2>4, <2>8
<1> QED BY <1>1, <1>2

\* A call begins: if its command is its own, no slot holds it yet.
LEMMA StartLog ==
  ASSUME IInv, TypeOK', LogInv, NEW c \in Call, NEW n \in Member, Start(c, n)
  PROVE  LogInv'
<1>1. TypeOK /\ call \in [Call -> CallState] /\ call[c].pc = "idle" /\ PrefixInv /\ SentInv
  BY DEF IInv, TypeOK, Start, LogInv
<1>2. UNCHANGED <<decided, lastApplied, register, results, msgs>>
  BY DEF Start, durable
<1>3. PICK command \in Command, floor \in Reported :
        call' = [call EXCEPT ![c] = NewCall("propose", n, command, floor)]
  BY DEF Start
<1>4. call'[c].pc = "propose" /\ call'[c].command = command /\ call'[c].floor = floor
  BY <1>1, <1>3 DEF NewCall
<1>5. \A d \in Call : d # c => call'[d] = call[d]
  BY <1>1, <1>3
<1>6. call[c].command = NoValue /\ CommandsStand
  BY <1>1, <1>5 DEF SentInv, CommandsStand
<1>7. /\ PrefixInv' /\ ResultsInv' /\ NoHoles' /\ SentInv'
      /\ (\A m \in Member : LogStands(m)) /\ ResultsStand
  BY <1>1, <1>2, <1>4, <1>5, <1>6, QuietLog
<1>8. SlotInv(c)' /\ AnswerInv(c)'
  BY <1>4 DEF SlotInv, AnswerInv, Done
<1>9. FreshInv(c)'
  <2> SUFFICES ASSUME Alone(c)' PROVE FreshInv(c)'
    BY DEF FreshInv
  <2>1. \A d \in Call : call[d].command # command
    <3>1. \A d \in Call \ {c} : call'[d].command # call'[c].command
      BY DEF Alone
    <3> QED BY <1>4, <1>5, <1>6, <3>1, NoValueAssumption
  <2>2. PICK m \in Member : \E t \in 0..lastApplied[m] : Registers(m)[t].version >= floor
    BY <1>1, ReportedIsApplied
  <2>3. PICK t \in 0..lastApplied[m] : Registers(m)[t].version >= floor
    BY <2>2
  <2>4. \A s \in 1..t : s \in 1..lastApplied[m]
    BY LogType, <1>1
  <2>5. \A s \in 1..t : s \in Slot
    BY <1>1, <2>4, PrefixType
  <2>6. \A s \in 1..t : decided[m][s] # command
    BY <1>1, <2>1, <2>5, UnsentIsUndecided
  <2>7. Registers(m)' = Registers(m)
    BY <1>2 DEF Registers
  <2> QED BY <1>2, <1>4, <2>3, <2>6, <2>7 DEF FreshInv
<1> QED BY <1>1, <1>5, <1>6, <1>7, <1>8, <1>9, OneCallStep

\* A member restarts: the results of its slots are gone, and so are its calls.
LEMMA RestartLog ==
  ASSUME TypeOK, TypeOK', LogInv, NEW m \in Member, Restart(m)
  PROVE  LogInv'
<1>1. UNCHANGED <<decided, lastApplied, register, msgs>>
  BY DEF Restart, durable
<1>2. \A n \in Member, s \in Slot : results'[n][s] = IF n = m THEN NoResult ELSE results[n][s]
  BY DEF Restart, TypeOK
<1>3. \A c \in Call : call'[c] = IF Running(c) /\ call[c].at = m THEN Failed(c) ELSE call[c]
  BY DEF Restart
<1>4. \A c \in Call : Failed(c).pc = "failed" /\ Failed(c).command = call[c].command
  BY DEF Failed, NewCall
<1>5. CommandsStand
  BY <1>3, <1>4 DEF CommandsStand
<1>6. PrefixInv' /\ ResultsInv' /\ \A n \in Member : LogStands(n)
  BY <1>1, <1>2, LogUntouched DEF LogInv
<1>7. NoHoles' /\ SentInv'
  <2>1. \A c \in Call : call'[c].pc = "idle" => call'[c].command = call[c].command /\ call[c].pc = "idle"
    BY <1>3, <1>4
  <2> QED BY <1>1, <1>5, <1>6, <2>1, HolesStand, SentStands DEF LogInv
<1>8. ASSUME NEW c \in Call PROVE SlotInv(c)' /\ AnswerInv(c)' /\ FreshInv(c)'
  <2>1. CASE Running(c) /\ call[c].at = m
    <3>1. call'[c].pc = "failed"
      BY <1>3, <1>4, <2>1
    <3> QED BY <3>1 DEF SlotInv, AnswerInv, FreshInv, Running, Done
  <2>2. CASE ~(Running(c) /\ call[c].at = m)
    <3>1. call'[c] = call[c] /\ PrefixInv /\ SlotInv(c) /\ AnswerInv(c) /\ FreshInv(c)
      BY <1>3, <2>2 DEF LogInv
    <3>2. SlotInv(c)'
      <4>1. CASE call[c].pc \in SlotPhase
        <5>1. call[c].at \in Member /\ call[c].at # m
          BY <2>2, <4>1 DEF TypeOK, WellFormed, Running, SlotPhase
        <5>2. /\ \A s \in Slot : results[call[c].at][s] # NoResult
                                   => results'[call[c].at][s] # NoResult
              /\ \A s \in Slot : ~(lastApplied[call[c].at] < s /\ s <= lastApplied'[call[c].at])
          BY <1>1, <1>2, <5>1, LogType DEF Slot
        <5> QED BY <1>6, <3>1, <4>1, <5>2, SlotStands
      <4>2. CASE call[c].pc \notin SlotPhase
        BY <3>1, <4>2 DEF SlotInv, SlotPhase
      <4> QED BY <4>1, <4>2
    <3>3. AnswerInv(c)'
      BY <1>6, <3>1, AnswerStands DEF Done
    <3>4. FreshInv(c)'
      <4>1. CASE Running(c) \/ Done(c)
        BY <1>5, <1>6, <3>1, <4>1, CommandType, FreshStands DEF Done, Running
      <4>2. CASE ~(Running(c) \/ Done(c))
        BY <3>1, <4>2 DEF FreshInv, Done, Running
      <4> QED BY <4>1, <4>2
    <3> QED BY <3>2, <3>3, <3>4
  <2> QED BY <2>1, <2>2
<1> QED BY <1>6, <1>7, <1>8 DEF LogInv

LEMMA InitLog == Init => LogInv
<1> SUFFICES ASSUME Init PROVE LogInv
  OBVIOUS
<1>1. TypeOK
  BY InitType
<1>2. PrefixInv
  <2>1. ASSUME NEW m \in Member PROVE register[m] = Registers(m)[lastApplied[m]]
    <3>1. PICK log, n : log = decided[m] /\ n = 0
      OBVIOUS
    <3>2. Replay(InitialSnapshot, log, 0, n)[0] = InitialSnapshot
      <4>1. n \in Nat /\ \A s \in 1..n : log[s] \in Command
        BY <3>1
      <4>2. 0 \in 0..n
        BY <3>1
      <4> QED BY <4>1, <4>2, RegistersType
    <3>3. lastApplied[m] = 0 /\ register[m] = InitialSnapshot
      BY DEF Init
    <3> QED BY <3>1, <3>2, <3>3 DEF Registers
  <2>2. \A m \in Member : lastApplied[m] = 0 /\ \A s \in Slot : decided[m][s] = NoValue
    BY DEF Init
  <2>3. \A m \in Member : lastApplied[m] < MaxSlot => decided[m][lastApplied[m] + 1] = NoValue
    BY <2>2, BoundAssumption DEF Slot
  <2> QED BY <2>1, <2>2, <2>3 DEF PrefixInv
<1>3. ResultsInv /\ NoHoles
  BY DEF Init, ResultsInv, NoHoles, VoteRequests
<1>4. \A c \in Call : call[c].pc = "idle" /\ call[c].command = NoValue
  BY DEF Init, Idle, NewCall
<1>5. SentInv
  BY <1>4 DEF Init, SentInv
<1>6. \A c \in Call : SlotInv(c) /\ AnswerInv(c) /\ FreshInv(c)
  BY <1>4 DEF SlotInv, AnswerInv, FreshInv, Running, Done
<1> QED BY <1>2, <1>3, <1>5, <1>6 DEF LogInv

LEMMA NextLog == IInv /\ LogInv /\ [Next]_vars => LogInv' /\ (\A m \in Member : LogStands(m))
<1> SUFFICES ASSUME IInv, LogInv, [Next]_vars
             PROVE  LogInv' /\ (\A m \in Member : LogStands(m))
  OBVIOUS
<1>1. TypeOK /\ TypeOK'
  BY NextType DEF IInv
<1>2. CASE UNCHANGED vars
  <2>1. UNCHANGED <<decided, lastApplied, register, results, msgs, call>>
    BY <1>2 DEF vars
  <2>2. CommandsStand /\ \A c \in Call : SameCall(c)
    BY <2>1 DEF CommandsStand, SameCall
  <2>3. /\ PrefixInv' /\ ResultsInv' /\ NoHoles' /\ SentInv'
        /\ (\A m \in Member : LogStands(m)) /\ ResultsStand
    BY <1>1, <2>1, <2>2, QuietLog
  <2>4. \A c \in Call : SlotInv(c)' /\ AnswerInv(c)' /\ FreshInv(c)'
    BY <1>1, <2>2, <2>3, CallStands
  <2> QED BY <2>3, <2>4 DEF LogInv
<1>3. LogInv'
  <2>1. ASSUME NEW c \in Call, Proposer(c) PROVE LogInv'
    BY <1>1, <2>1, QuietProposerLog, TakeSlotLog, ReturnLog, SendAcceptLog, LearnLog DEF Proposer
  <2>2. ASSUME NEW m \in Member, Acceptor(m) PROVE LogInv'
    BY <1>1, <2>2, VoteHandlersLog, HandleDecideLog DEF Acceptor
  <2> QED BY <1>1, <1>2, <2>1, <2>2, StartLog, RestartLog DEF Next
<1>4. \A m \in Member : LogStands(m)
  <2>1. CASE UNCHANGED <<decided, lastApplied, register>>
    <3>1. \A m : Registers(m)' = Registers(m)
      BY <2>1 DEF Registers
    <3> QED BY <1>1, <2>1, <3>1, LogType DEF LogStands
  <2>2. CASE \E m \in Member : HandleDecide(m)
    <3>1. PICK m \in Member, r \in msgs : r.type = "decide" /\ Decide(m, r.slot, r.value)
      BY <2>2 DEF HandleDecide
    <3> QED BY <1>1, <3>1, MessageType, DecideLog
  <2>3. CASE \E c \in Call : Learn(c)
    <3>1. PICK c \in Call : Learn(c)
      BY <2>3
    <3>2. WellFormed(c) /\ call[c].pc = "learn"
      BY <1>1, <3>1 DEF TypeOK, Learn
    <3>3. call[c].at \in Member /\ call[c].slot \in Slot /\ call[c].selected \in Command
      BY <3>2 DEF WellFormed, Running
    <3> QED BY <1>1, <3>1, <3>3, DecideLog DEF Learn
  <2>4. CASE ~(\/ UNCHANGED <<decided, lastApplied, register>>
               \/ \E m \in Member : HandleDecide(m)
               \/ \E c \in Call : Learn(c))
    <3>1. ASSUME NEW c \in Call, Proposer(c) PROVE FALSE
      BY <2>4, <3>1 DEF Proposer, TakeSlot, ReserveBallot, NoQuorum, AdoptDecision, SendAccept,
         AcceptedByQuorum, Outvoted, Return, NextSlot, durable
    <3>2. ASSUME NEW c \in Call, NEW m \in Member, Start(c, m) PROVE FALSE
      BY <2>4, <3>2 DEF Start, durable
    <3>3. ASSUME NEW m \in Member, Acceptor(m) \/ Restart(m) PROVE FALSE
      BY <2>4, <3>3 DEF Acceptor, HandlePrepare, HandleAccept, Restart, durable
    <3>4. CASE UNCHANGED vars
      BY <2>4, <3>4 DEF vars
    <3> QED BY <3>1, <3>2, <3>3, <3>4 DEF Next
  <2> QED BY <2>1, <2>2, <2>3, <2>4
<1> QED BY <1>3, <1>4

\* The invariant of the replicated log holds in every reachable state.
THEOREM LogInvariant == Spec => []LogInv
<1>1. Init => LogInv
  BY InitLog
<1>2. IInv /\ LogInv /\ [Next]_vars => LogInv'
  BY NextLog
<1> QED BY <1>1, <1>2, InvariantHolds, PTL DEF Spec

\* The log of the member that has applied less is a prefix of the other's, and both
\* passed through the same registers.
LEMMA PrefixesMeet ==
  ASSUME IInv, LogInv, NEW m \in Member, NEW n \in Member, lastApplied[m] <= lastApplied[n]
  PROVE  /\ \A s \in 1..lastApplied[m] : decided[m][s] = decided[n][s]
         /\ \A s \in 0..lastApplied[m] : Registers(m)[s] = Registers(n)[s]
<1>1. TypeOK /\ PrefixInv /\ Agreement
  BY AgreementFollows DEF IInv, LogInv
<1>2. /\ lastApplied[m] \in Nat /\ lastApplied[n] \in Nat
      /\ \A s \in 1..lastApplied[m] : s \in Slot /\ decided[m][s] \in Command
      /\ \A s \in 1..lastApplied[n] : s \in Slot /\ decided[n][s] \in Command
  BY <1>1, LogType, PrefixType
<1>3. \A s \in 1..lastApplied[m] : decided[m][s] = decided[n][s]
  BY <1>1, <1>2, NoValueAssumption DEF Agreement
<1>4. \A s \in 0..lastApplied[m] : Registers(m)[s] = Registers(n)[s]
  <2>1. PICK a, b, log1, log2 : /\ a = lastApplied[m] /\ b = lastApplied[n]
                                /\ log1 = decided[m] /\ log2 = decided[n]
    OBVIOUS
  <2>2. a \in Nat /\ b \in Nat /\ a <= b /\ \A s \in 1..a : log1[s] = log2[s]
    BY <1>2, <1>3, <2>1
  <2>3. \A s \in 0..a : Replay(InitialSnapshot, log1, 0, a)[s] = Replay(InitialSnapshot, log2, 0, b)[s]
    BY <2>2, ReplayAgrees
  <2> QED BY <2>1, <2>3 DEF Registers
<1> QED BY <1>3, <1>4

\* A member's registers only rise in version, and an applied command raises it by one.
LEMMA RegistersRise ==
  ASSUME TypeOK, PrefixInv, NEW m \in Member
  PROVE  /\ \A i, j \in 0..lastApplied[m] :
              i <= j => Registers(m)[i].version <= Registers(m)[j].version
         /\ \A s \in 1..lastApplied[m] :
              /\ OutcomeAt(m, s).snapshot = Registers(m)[s]
              /\ OutcomeAt(m, s).kind = "applied" =>
                   /\ Registers(m)[s].version = Registers(m)[s - 1].version + 1
                   /\ Registers(m)[s].chain = decided[m][s].chain
<1>1. /\ lastApplied[m] \in Nat
      /\ \A s \in 1..lastApplied[m] : decided[m][s] \in Command
      /\ Registers(m) \in [0..lastApplied[m] -> Snapshot]
      /\ \A s \in 0..lastApplied[m] : Registers(m)[s] =
           IF s = 0 THEN InitialSnapshot ELSE Applied(Registers(m)[s - 1], decided[m][s])
  BY LogType, PrefixType
<1>2. ASSUME NEW i \in 0..lastApplied[m], NEW j \in 0..lastApplied[m], i <= j
      PROVE  Registers(m)[i].version <= Registers(m)[j].version
  <2>1. PICK b, log : b = lastApplied[m] /\ log = decided[m]
    OBVIOUS
  <2>2. b \in Nat /\ (\A s \in 1..b : log[s] \in Command) /\ i \in 0..b /\ j \in 0..b
    BY <1>1, <2>1
  <2>3. Replay(InitialSnapshot, log, 0, b)[i].version <= Replay(InitialSnapshot, log, 0, b)[j].version
    BY <1>2, <2>2, InitialType, VersionsRise
  <2> QED BY <2>1, <2>3 DEF Registers
<1>3. ASSUME NEW s \in 1..lastApplied[m]
      PROVE  /\ OutcomeAt(m, s).snapshot = Registers(m)[s]
             /\ OutcomeAt(m, s).kind = "applied" =>
                  /\ Registers(m)[s].version = Registers(m)[s - 1].version + 1
                  /\ Registers(m)[s].chain = decided[m][s].chain
  <2>1. PICK reg, cmd : reg = Registers(m)[s - 1] /\ cmd = decided[m][s]
    OBVIOUS
  <2>2. s - 1 \in 0..lastApplied[m] /\ s \in 0..lastApplied[m] /\ s # 0
    BY <1>1
  <2>3. reg \in Snapshot /\ cmd \in Command /\ Registers(m)[s] = Applied(reg, cmd)
    BY <1>1, <2>1, <2>2
  <2>4. OutcomeAt(m, s) = ResultOf(reg, cmd)
    BY <2>1 DEF OutcomeAt
  <2> QED BY <2>1, <2>3, <2>4, AppliedRises
<1> QED BY <1>2, <1>3

\* Two commands in one member's prefix that were applied to make the same version
\* are one command.
LEMMA VersionsAreMadeOnce ==
  ASSUME TypeOK, PrefixInv, NEW m \in Member,
         NEW s \in 1..lastApplied[m], NEW t \in 1..lastApplied[m],
         OutcomeAt(m, s).kind = "applied", OutcomeAt(m, t).kind = "applied",
         Registers(m)[s].version = Registers(m)[t].version
  PROVE  s = t
<1>1. lastApplied[m] \in Nat /\ Registers(m) \in [0..lastApplied[m] -> Snapshot]
  BY LogType, PrefixType
<1>2. \A i \in 0..lastApplied[m] : Registers(m)[i].version \in Nat
  BY <1>1 DEF Snapshot
<1>3. ASSUME NEW i \in 1..lastApplied[m], NEW j \in 1..lastApplied[m], i < j,
             OutcomeAt(m, j).kind = "applied"
      PROVE  Registers(m)[i].version # Registers(m)[j].version
  <2>1. i \in 0..lastApplied[m] /\ j - 1 \in 0..lastApplied[m] /\ i <= j - 1
    BY <1>1, <1>3
  <2>2. Registers(m)[i].version <= Registers(m)[j - 1].version
    BY <2>1, RegistersRise
  <2>3. Registers(m)[j].version = Registers(m)[j - 1].version + 1
    BY <1>3, RegistersRise
  <2> QED BY <1>2, <2>1, <2>2, <2>3
<1> QED BY <1>1, <1>3

\* Outcomes and commands of a slot that two members have applied are the same.
LEMMA OutcomesMeet ==
  ASSUME IInv, LogInv, NEW m \in Member, NEW n \in Member, lastApplied[m] <= lastApplied[n],
         NEW s \in 1..lastApplied[m]
  PROVE  /\ s \in 1..lastApplied[n]
         /\ OutcomeAt(m, s) = OutcomeAt(n, s) /\ decided[m][s] = decided[n][s]
<1>1. lastApplied[m] \in Nat /\ lastApplied[n] \in Nat
  BY LogType DEF IInv
<1>2. s - 1 \in 0..lastApplied[m] /\ s \in 1..lastApplied[n]
  BY <1>1
<1> QED BY <1>2, PrefixesMeet DEF OutcomeAt

\* One of two members has applied all that the other has.
LEMMA LongerPrefix ==
  ASSUME TypeOK, NEW m \in Member, NEW n \in Member
  PROVE  \E k \in Member : lastApplied[m] <= lastApplied[k] /\ lastApplied[n] <= lastApplied[k]
<1>1. lastApplied[m] \in Nat /\ lastApplied[n] \in Nat
  BY LogType
<1> QED BY <1>1

\* A call that won its slot finds the slot's result, which is kept in memory only
\* (ResultsAreKept: proposer.propose reads acceptor.result).
THEOREM ResultsKept == Spec => []ResultsAreKept
<1>1. IInv /\ LogInv => ResultsAreKept
  BY DEF LogInv, SlotInv, ResultsAreKept
<1> QED BY <1>1, InvariantHolds, LogInvariant, PTL

\* A value is put to the vote in a slot only when every earlier slot is decided
\* somewhere (NoHoles: proposer.propose takes last_applied + 1).
THEOREM LogHasNoHoles == Spec => []NoHoles
<1>1. LogInv => NoHoles
  BY DEF LogInv
<1> QED BY <1>1, LogInvariant, PTL

\* Members that applied the same prefix hold the same register, across restarts
\* (ReplicasAgree: acceptor.decide applies each slot once, in order).
THEOREM ReplicasHoldTheSame == Spec => []ReplicasAgree
<1>1. IInv /\ LogInv => ReplicasAgree
  <2> SUFFICES ASSUME IInv, LogInv, NEW m \in Member, NEW n \in Member,
                      lastApplied[m] = lastApplied[n]
               PROVE  register[m] = register[n]
    BY DEF ReplicasAgree
  <2>1. lastApplied[m] \in Nat
    BY LogType DEF IInv
  <2>2. lastApplied[m] <= lastApplied[n] /\ lastApplied[m] \in 0..lastApplied[m]
    BY <2>1
  <2>3. Registers(m)[lastApplied[m]] = Registers(n)[lastApplied[m]]
    BY <2>2, PrefixesMeet
  <2> QED BY <2>3 DEF LogInv, PrefixInv
<1> QED BY <1>1, InvariantHolds, LogInvariant, PTL

\* Two callers that are told that they installed the same version installed the same
\* chain (OneWinnerPerVersion: state_machine.apply, proposer.propose).
THEOREM OneWinner == Spec => []OneWinnerPerVersion
<1>1. IInv /\ LogInv => OneWinnerPerVersion
  <2> SUFFICES ASSUME IInv, LogInv, NEW c \in Call, NEW d \in Call,
                      Done(c), call[c].result.kind = "applied",
                      Done(d), call[d].result.kind = "applied",
                      call[c].result.snapshot.version = call[d].result.snapshot.version
               PROVE  call[c].command.chain = call[d].command.chain
    BY DEF OneWinnerPerVersion
  <2>1. TypeOK /\ PrefixInv /\ AnswerInv(c) /\ AnswerInv(d)
    BY DEF IInv, LogInv
  <2>2. PICK m \in Member : \E s \in 1..lastApplied[m] :
          decided[m][s] = call[c].command /\ call[c].result = OutcomeAt(m, s)
    BY <2>1 DEF AnswerInv
  <2>3. PICK n \in Member : \E t \in 1..lastApplied[n] :
          decided[n][t] = call[d].command /\ call[d].result = OutcomeAt(n, t)
    BY <2>1 DEF AnswerInv
  <2>4. PICK k \in Member : lastApplied[m] <= lastApplied[k] /\ lastApplied[n] <= lastApplied[k]
    BY <2>1, LongerPrefix
  <2>5. PICK s \in 1..lastApplied[k] :
          decided[k][s] = call[c].command /\ call[c].result = OutcomeAt(k, s)
    BY <2>2, <2>4, OutcomesMeet
  <2>6. PICK t \in 1..lastApplied[k] :
          decided[k][t] = call[d].command /\ call[d].result = OutcomeAt(k, t)
    BY <2>3, <2>4, OutcomesMeet
  <2>7. Registers(k)[s].version = Registers(k)[t].version
    BY <2>1, <2>5, <2>6, RegistersRise
  <2>8. s = t
    BY <2>1, <2>5, <2>6, <2>7, VersionsAreMadeOnce
  <2> QED BY <2>5, <2>6, <2>8
<1> QED BY <1>1, InvariantHolds, LogInvariant, PTL

\* An answer accounts for all that was reported before its call began, provided no
\* other call sent an equal command (AnswersAreFresh: proposer.propose).
THEOREM AnswersFresh == Spec => []AnswersAreFresh
<1>1. IInv /\ LogInv => AnswersAreFresh
  <2> SUFFICES ASSUME IInv, LogInv, NEW c \in Call, Done(c), Alone(c)
               PROVE  call[c].result.snapshot.version >= call[c].floor
    BY DEF AnswersAreFresh, Alone
  <2>1. TypeOK /\ PrefixInv /\ AnswerInv(c) /\ FreshInv(c) /\ call[c].floor \in Nat
    BY DEF IInv, LogInv, TypeOK, CallState
  <2>2. PICK m \in Member : \E s \in 1..lastApplied[m] :
          decided[m][s] = call[c].command /\ call[c].result = OutcomeAt(m, s)
    BY <2>1 DEF AnswerInv
  <2>3. PICK n \in Member : \E t \in 0..lastApplied[n] :
          /\ Registers(n)[t].version >= call[c].floor
          /\ \A s \in 1..t : decided[n][s] # call[c].command
    BY <2>1 DEF FreshInv
  <2>4. PICK k \in Member : lastApplied[m] <= lastApplied[k] /\ lastApplied[n] <= lastApplied[k]
    BY <2>1, LongerPrefix
  <2>5. PICK s \in 1..lastApplied[k] :
          decided[k][s] = call[c].command /\ call[c].result = OutcomeAt(k, s)
    BY <2>2, <2>4, OutcomesMeet
  <2>6. PICK t \in 0..lastApplied[n] :
          /\ Registers(n)[t].version >= call[c].floor
          /\ \A i \in 1..t : decided[n][i] # call[c].command
    BY <2>3
  <2>7. lastApplied[n] \in Nat /\ lastApplied[k] \in Nat
    BY <2>1, LogType
  <2>8. ~(s <= t)
    <3> SUFFICES ASSUME s <= t PROVE FALSE
      OBVIOUS
    <3>1. s \in 1..t /\ s \in 1..lastApplied[n]
      BY <2>7
    <3>2. decided[n][s] = decided[k][s]
      BY <2>4, <3>1, PrefixesMeet
    <3> QED BY <2>5, <2>6, <3>1, <3>2
  <2>9. t \in 0..lastApplied[k] /\ s \in 0..lastApplied[k] /\ t <= s
    BY <2>4, <2>7, <2>8
  <2>10. Registers(k)[t].version >= call[c].floor
    BY <2>4, <2>6, PrefixesMeet
  <2>11. Registers(k)[t].version <= Registers(k)[s].version
    BY <2>1, <2>9, RegistersRise
  <2>12. call[c].result.snapshot = Registers(k)[s]
    BY <2>1, <2>5, RegistersRise
  <2>13. Registers(k)[t].version \in Nat /\ Registers(k)[s].version \in Nat
    BY <2>1, <2>9, PrefixType DEF Snapshot
  <2> QED BY <2>1, <2>10, <2>11, <2>12, <2>13
<1> QED BY <1>1, InvariantHolds, LogInvariant, PTL

\* The votes of a step raise a member's accepted ballot.
LEMMA AcceptedRises ==
  ASSUME TypeOK, TypeOK', VotesInv, [Next]_vars, NEW m \in Member, NEW s \in Slot
  PROVE  ~Below(accepted'[m][s].ballot, accepted[m][s].ballot)
<1> DEFINE old == accepted[m][s].ballot
<1>1. old \in Ballot \cup {NoBallot}
  BY SlotType DEF Vote, Nothing
<1>2. promised[m][s] \in Ballot \cup {NoBallot}
  BY SlotType
<1>3. ~Below(promised[m][s], old)
  <2>1. CASE accepted[m][s] = Nothing
    BY <1>2, <2>1, BallotOrder DEF Nothing
  <2>2. CASE accepted[m][s] # Nothing
    BY <2>2 DEF VotesInv, HasPromised
  <2> QED BY <2>1, <2>2
<1>4. CASE accepted' = accepted
  BY <1>1, <1>4, BallotOrder
<1>5. CASE \E n \in Member : HandleAccept(n)
  <2>1. PICK n \in Member, r \in msgs :
          /\ r.type = "accept"
          /\ \/ accepted' = accepted
             \/ /\ ~Below(r.ballot, promised[n][r.slot])
                /\ accepted' = [accepted EXCEPT ![n][r.slot] = [ballot |-> r.ballot, value |-> r.value]]
    BY <1>5 DEF HandleAccept
  <2>2. CASE accepted' = accepted \/ ~(n = m /\ r.slot = s)
    <3>1. accepted'[m][s] = accepted[m][s]
      BY <2>1, <2>2 DEF TypeOK
    <3> QED BY <1>1, <3>1, BallotOrder
  <2>3. CASE accepted' # accepted /\ n = m /\ r.slot = s
    <3>1. accepted'[m][s].ballot = r.ballot /\ ~Below(r.ballot, promised[m][s])
      BY <2>1, <2>3 DEF TypeOK
    <3>2. r.ballot \in Ballot
      BY <2>1, MessageType
    <3> QED BY <1>1, <1>2, <1>3, <3>1, <3>2, BallotOrder
  <2> QED BY <2>2, <2>3
<1>6. CASE ~(accepted' = accepted \/ \E n \in Member : HandleAccept(n))
  <2>1. ASSUME NEW c \in Call, Proposer(c) PROVE FALSE
    BY <1>6, <2>1 DEF Proposer, TakeSlot, ReserveBallot, NoQuorum, AdoptDecision, SendAccept,
       AcceptedByQuorum, Outvoted, Learn, Return, NextSlot, durable
  <2>2. ASSUME NEW c \in Call, NEW n \in Member, Start(c, n) PROVE FALSE
    BY <1>6, <2>2 DEF Start, durable
  <2>3. ASSUME NEW n \in Member, Acceptor(n) \/ Restart(n) PROVE FALSE
    BY <1>6, <2>3 DEF Acceptor, HandlePrepare, HandleDecide, Restart, durable
  <2>4. CASE UNCHANGED vars
    BY <1>6, <2>4 DEF vars
  <2> QED BY <2>1, <2>2, <2>3, <2>4 DEF Next
<1> QED BY <1>4, <1>5, <1>6

\* A promise is raised or left alone.
LEMMA PromiseRises ==
  ASSUME TypeOK, TypeOK', [Next]_vars, NEW m \in Member, NEW s \in Slot
  PROVE  ~Below(promised'[m][s], promised[m][s])
<1>1. promised[m][s] \in Ballot \cup {NoBallot}
  BY SlotType
<1>2. CASE promised' = promised
  BY <1>1, <1>2, BallotOrder
<1>3. CASE \E n \in Member : HandlePrepare(n) \/ HandleAccept(n)
  <2>1. PICK n \in Member, r \in msgs :
          \/ promised' = promised
          \/ /\ ~Below(r.ballot, promised[n][r.slot])
             /\ promised' = [promised EXCEPT ![n][r.slot] = r.ballot]
          \/ promised' = [promised EXCEPT ![n][r.slot] = @]
    BY <1>3 DEF HandlePrepare, HandleAccept
  <2>2. promised \in [Member -> [Slot -> Ballot \cup {NoBallot}]]
    BY DEF TypeOK
  <2>3. promised'[m][s] = promised[m][s] \/ ~Below(promised'[m][s], promised[m][s])
    <3>1. CASE n = m /\ r.slot = s
      BY <2>1, <2>2, <3>1
    <3>2. CASE ~(n = m /\ r.slot = s)
      BY <2>1, <2>2, <3>2
    <3> QED BY <3>1, <3>2
  <2> QED BY <1>1, <2>3, BallotOrder
<1>4. CASE ~(promised' = promised \/ \E n \in Member : HandlePrepare(n) \/ HandleAccept(n))
  <2>1. ASSUME NEW c \in Call, Proposer(c) PROVE FALSE
    BY <1>4, <2>1 DEF Proposer, TakeSlot, ReserveBallot, NoQuorum, AdoptDecision, SendAccept,
       AcceptedByQuorum, Outvoted, Learn, Return, NextSlot, durable
  <2>2. ASSUME NEW c \in Call, NEW n \in Member, Start(c, n) PROVE FALSE
    BY <1>4, <2>2 DEF Start, durable
  <2>3. ASSUME NEW n \in Member, Acceptor(n) \/ Restart(n) PROVE FALSE
    BY <1>4, <2>3 DEF Acceptor, HandleDecide, Restart, durable
  <2>4. CASE UNCHANGED vars
    BY <1>4, <2>4 DEF vars
  <2> QED BY <2>1, <2>2, <2>3, <2>4 DEF Next
<1> QED BY <1>2, <1>3, <1>4

\* The register's version only rises.
LEMMA RegisterRises ==
  ASSUME TypeOK, TypeOK', PrefixInv, PrefixInv', NEW m \in Member, LogStands(m)
  PROVE  lastApplied'[m] >= lastApplied[m] /\ register'[m].version >= register[m].version
<1>1. lastApplied[m] \in Nat /\ lastApplied'[m] \in Nat /\ lastApplied[m] <= lastApplied'[m]
  BY LogType DEF LogStands, TypeOK
<1>2. PICK a, b, log : a = lastApplied[m] /\ b = lastApplied'[m] /\ log = decided'[m]
  OBVIOUS
<1>3. \A s \in 1..b : log[s] \in Command
  <2>1. \A s \in 1..b : log[s] # NoValue
    BY <1>2 DEF PrefixInv
  <2>2. \A s \in 1..b : s \in Slot
    BY <1>1, <1>2, BoundAssumption DEF TypeOK, Slot
  <2>3. log \in [Slot -> Command \cup {NoValue}]
    BY <1>2 DEF TypeOK
  <2> QED BY <2>1, <2>2, <2>3
<1>4. /\ register[m] = Replay(InitialSnapshot, log, 0, b)[a]
      /\ register'[m] = Replay(InitialSnapshot, log, 0, b)[b]
  <2>1. a \in 0..a
    BY <1>1, <1>2
  <2>2. register[m] = Registers(m)[a] /\ Registers(m)'[a] = Registers(m)[a]
    BY <1>2, <2>1 DEF PrefixInv, LogStands
  <2>3. register'[m] = Registers(m)'[b]
    BY <1>2 DEF PrefixInv, Registers
  <2> QED BY <1>2, <2>2, <2>3 DEF Registers
<1>5. a \in 0..b /\ b \in 0..b /\ a <= b /\ b \in Nat
  BY <1>1, <1>2
<1>6. Replay(InitialSnapshot, log, 0, b)[a].version <= Replay(InitialSnapshot, log, 0, b)[b].version
  BY <1>3, <1>5, InitialType, VersionsRise
<1>7. register[m].version \in Nat /\ register'[m].version \in Nat
  BY DEF TypeOK, Snapshot
<1> QED BY <1>1, <1>4, <1>6, <1>7

\* What a member saved stays, restarts included (DurableStateOnlyGrows: the saves of
\* acceptor.prepare, acceptor.accept and acceptor.decide).
THEOREM DurableStateGrows == Spec => DurableStateOnlyGrows
<1>1. ASSUME IInv, LogInv, [Next]_vars
      PROVE  [\A m \in Member :
                /\ lastApplied'[m] >= lastApplied[m] /\ register'[m].version >= register[m].version
                /\ \A s \in Slot :
                     /\ ~Below(promised'[m][s], promised[m][s])
                     /\ ~Below(accepted'[m][s].ballot, accepted[m][s].ballot)
                     /\ decided[m][s] # NoValue => decided'[m][s] = decided[m][s]]_vars
  <2>1. TypeOK /\ TypeOK' /\ VotesInv
    BY <1>1, NextType DEF IInv
  <2>2. PrefixInv /\ PrefixInv' /\ \A m \in Member : LogStands(m)
    BY <1>1, NextLog DEF LogInv
  <2>3. ASSUME NEW m \in Member, NEW s \in Slot
        PROVE  /\ ~Below(promised'[m][s], promised[m][s])
               /\ ~Below(accepted'[m][s].ballot, accepted[m][s].ballot)
               /\ decided[m][s] # NoValue => decided'[m][s] = decided[m][s]
    BY <1>1, <2>1, <2>2, AcceptedRises, PromiseRises DEF LogStands
  <2>4. ASSUME NEW m \in Member
        PROVE  lastApplied'[m] >= lastApplied[m] /\ register'[m].version >= register[m].version
    BY <2>1, <2>2, RegisterRises
  <2> QED BY <2>3, <2>4
<1> QED BY <1>1, InvariantHolds, LogInvariant, PTL DEF Spec, DurableStateOnlyGrows
-----------------------------------------------------------------------------
(* The refinement of MetaStoreSpec.                                        *)

\* The chains installed when one more command takes effect.
Grown(before, value) ==
  IF value \in CompareAndSet /\ value.expected = Len(before)
    THEN Append(before, value.chain) ELSE before

\* f passes through the chains that the commands log[1] .. log[n] install.
Installs(f, log, n) ==
  f = [s \in 0..n |-> IF s = 0 THEN <<>> ELSE Grown(f[s - 1], log[s])]

ChosenLog == [s \in Slot |-> ChosenValue(s)]

\* The register that stands after the chains h.
Latest(h) == [version |-> Len(h), chain |-> IF Len(h) = 0 THEN NoChain ELSE h[Len(h)]]

\* h is what g was, or has come of it.
Follows(h, g) == Len(g) <= Len(h) /\ \A i \in 1..Len(g) : h[i] = g[i]

\* Any log can be run through.
LEMMA InstallsExist ==
  ASSUME NEW log
  PROVE  \A n \in Nat : \E f : Installs(f, log, n)
<1> DEFINE T == {n \in Nat : \E f : Installs(f, log, n)}
<1>1. 0 \in T
  <2>1. Installs([s \in 0..0 |-> <<>>], log, 0)
    BY DEF Installs
  <2> QED BY <2>1
<1>2. ASSUME NEW n \in Nat, n \in T PROVE n + 1 \in T
  <2>1. PICK f : Installs(f, log, n)
    BY <1>2
  <2> DEFINE g == [s \in 0..(n + 1) |-> IF s = n + 1 THEN Grown(f[n], log[s]) ELSE f[s]]
  <2>2. \A s \in 0..(n + 1) : g[s] = IF s = 0 THEN <<>> ELSE Grown(g[s - 1], log[s])
    <3> TAKE s \in 0..(n + 1)
    <3>1. CASE s = n + 1
      BY <3>1
    <3>2. CASE s # n + 1
      <4>1. s \in 0..n /\ (s # 0 => s - 1 \in 0..n)
        BY <3>2
      <4>2. f[s] = IF s = 0 THEN <<>> ELSE Grown(f[s - 1], log[s])
        BY <2>1, <4>1 DEF Installs
      <4> QED BY <4>1, <4>2
    <3> QED BY <3>1, <3>2
  <2>3. DOMAIN g = 0..(n + 1) /\ g = [s \in DOMAIN g |-> g[s]]
    OBVIOUS
  <2>4. Installs(g, log, n + 1)
    <3> HIDE DEF g
    <3> QED BY <2>2, <2>3 DEF Installs
  <2> QED BY <2>4
<1>3. Nat \subseteq T
  <2> HIDE DEF T
  <2> QED BY <1>1, <1>2, SetInduction
<1> QED BY <1>3

\* The abstract history is what the chosen log installs.
LEMMA InstalledByLog == \E f : Installs(f, ChosenLog, MaxSlot) /\ Installed = f[MaxSlot]
<1> DEFINE By(f) == f = [s \in 0..MaxSlot |->
                          IF s = 0 THEN <<>>
                          ELSE LET before == f[s - 1]
                                   value == ChosenValue(s)
                               IN  IF value \in CompareAndSet /\ value.expected = Len(before)
                                     THEN Append(before, value.chain) ELSE before]
<1>1. Installed = (CHOOSE f : By(f))[MaxSlot]
  BY DEF Installed
<1>2. \A f : Installs(f, ChosenLog, MaxSlot) <=> By(f)
  <2> TAKE f
  <2>1. \A s \in 0..MaxSlot : s # 0 => ChosenLog[s] = ChosenValue(s)
    BY BoundAssumption DEF ChosenLog, Slot
  <2> QED BY <2>1 DEF Installs, Grown
<1>3. \E f : By(f)
  BY <1>2, InstallsExist, BoundAssumption
<1> HIDE DEF By
<1>4. By(CHOOSE f : By(f))
  BY <1>3
<1> QED BY <1>1, <1>2, <1>4

\* One slot after the other.
LEMMA InstallsSteps ==
  ASSUME NEW n \in Nat, NEW log, NEW f, Installs(f, log, n)
  PROVE  f[0] = <<>> /\ \A s \in 1..n : f[s] = Grown(f[s - 1], log[s])
<1>1. \A s \in 0..n : f[s] = IF s = 0 THEN <<>> ELSE Grown(f[s - 1], log[s])
  BY DEF Installs
<1> QED BY <1>1

\* A command adds at most one chain.
LEMMA GrownType ==
  ASSUME NEW h \in Seq(Chain), NEW value
  PROVE  /\ Grown(h, value) \in Seq(Chain)
         /\ Follows(Grown(h, value), h)
         /\ Grown(h, value) = h \/
              /\ value \in CompareAndSet /\ value.expected = Len(h)
              /\ Grown(h, value) = Append(h, value.chain)
<1>1. CASE value \in CompareAndSet /\ value.expected = Len(h)
  <2>1. Grown(h, value) = Append(h, value.chain) /\ value.chain \in Chain
    BY <1>1 DEF Grown, CompareAndSet
  <2> QED BY <1>1, <2>1 DEF Follows
<1>2. CASE ~(value \in CompareAndSet /\ value.expected = Len(h))
  <2>1. Grown(h, value) = h
    BY <1>2 DEF Grown
  <2> QED BY <2>1 DEF Follows
<1> QED BY <1>1, <1>2

\* The history is a sequence of chains, and grows along the log.
LEMMA InstallsType ==
  ASSUME NEW n \in Nat, NEW log, NEW f, Installs(f, log, n)
  PROVE  \A s \in 0..n : f[s] \in Seq(Chain)
<1> DEFINE T == {s \in Nat : f[s] \in Seq(Chain)}
<1>1. 0 \in T
  <2>1. f[0] = <<>>
    BY InstallsSteps
  <2>2. <<>> \in Seq(Chain)
    OBVIOUS
  <2>3. f[0] \in Seq(Chain)
    BY <2>1, <2>2, Zenon
  <2> QED BY <2>3
<1>2. \A s \in Nat : 0 <= s /\ s < n /\ s \in T => s + 1 \in T
  <2> SUFFICES ASSUME NEW s \in Nat, s < n, f[s] \in Seq(Chain) PROVE f[s + 1] \in Seq(Chain)
    OBVIOUS
  <2>1. s + 1 \in 1..n /\ (s + 1) - 1 = s
    OBVIOUS
  <2>2. f[s + 1] = Grown(f[s], log[s + 1])
    BY <2>1, InstallsSteps
  <2> QED BY <2>2, GrownType
<1>3. 0..n \subseteq T
  <2> HIDE DEF T
  <2> QED BY <1>1, <1>2, StretchInduction
<1> QED BY <1>3

LEMMA InstallsGrows ==
  ASSUME NEW n \in Nat, NEW log, NEW f, Installs(f, log, n),
         NEW s \in 0..n, NEW t \in 0..n, s <= t
  PROVE  Follows(f[t], f[s])
<1> DEFINE T == {u \in Nat : Follows(f[u], f[s])}
<1>1. \A u \in 0..n : f[u] \in Seq(Chain)
  BY InstallsType
<1>2. s \in T
  BY <1>1 DEF Follows
<1>3. \A u \in Nat : s <= u /\ u < t /\ u \in T => u + 1 \in T
  <2> SUFFICES ASSUME NEW u \in Nat, s <= u, u < t, Follows(f[u], f[s])
               PROVE  Follows(f[u + 1], f[s])
    OBVIOUS
  <2>1. u + 1 \in 1..n /\ (u + 1) - 1 = u /\ u \in 0..n /\ u + 1 \in 0..n
    OBVIOUS
  <2>2. f[u + 1] = Grown(f[u], log[u + 1])
    BY <2>1, InstallsSteps
  <2>3. Follows(f[u + 1], f[u])
    BY <1>1, <2>1, <2>2, GrownType
  <2>4. Len(f[s]) \in Nat /\ Len(f[u]) \in Nat /\ Len(f[u + 1]) \in Nat
    BY <1>1, <2>1
  <2> QED BY <2>3, <2>4 DEF Follows
<1>4. s..t \subseteq T
  <2>1. s \in Nat /\ t \in Nat
    OBVIOUS
  <2> HIDE DEF T
  <2> QED BY <1>2, <1>3, <2>1, StretchInduction
<1>5. t \in s..t
  OBVIOUS
<1> QED BY <1>4, <1>5

\* The register after a command is the last chain installed.
LEMMA LatestGrows ==
  ASSUME NEW h \in Seq(Chain), NEW value \in Command
  PROVE  Applied(Latest(h), value) = Latest(Grown(h, value))
<1>1. Latest(h).version = Len(h) /\ Len(h) \in Nat
  BY DEF Latest
<1>2. value.kind = "compare_and_set" <=> value \in CompareAndSet
  BY DEF Command, CompareAndSet, ReadBarrier
<1>3. CASE value \in CompareAndSet /\ value.expected = Len(h)
  <2>1. Grown(h, value) = Append(h, value.chain) /\ value.chain \in Chain
    BY <1>3 DEF Grown, CompareAndSet
  <2>2. Matches(Latest(h), value)
    BY <1>1, <1>2, <1>3 DEF Matches
  <2>3. Len(Append(h, value.chain)) = Len(h) + 1 /\ Append(h, value.chain)[Len(h) + 1] = value.chain
    BY <2>1
  <2>4. Latest(Append(h, value.chain)) = [version |-> Len(h) + 1, chain |-> value.chain]
    BY <1>1, <2>3 DEF Latest
  <2> QED BY <1>3, <2>1, <2>2, <2>4 DEF Applied
<1>4. CASE ~(value \in CompareAndSet /\ value.expected = Len(h))
  <2>1. Grown(h, value) = h
    BY <1>4 DEF Grown
  <2>2. ~Matches(Latest(h), value)
    BY <1>1, <1>2, <1>4 DEF Matches
  <2> QED BY <2>1, <2>2 DEF Applied
<1> QED BY <1>3, <1>4

\* The register of a member that has applied a prefix of the log is that of the chains
\* which the prefix installs.
LEMMA ReplayInstalls ==
  ASSUME NEW n \in Nat, NEW log, NEW f, Installs(f, log, n),
         NEW a \in 0..n, NEW g, \A s \in 1..a : g[s] \in Command /\ g[s] = log[s]
  PROVE  \A s \in 0..a : Replay(InitialSnapshot, g, 0, a)[s] = Latest(f[s])
<1> DEFINE r == Replay(InitialSnapshot, g, 0, a)
           T == {s \in Nat : r[s] = Latest(f[s])}
<1>1. \A s \in 0..a : r[s] = IF s = 0 THEN InitialSnapshot ELSE Applied(r[s - 1], g[s])
  BY RegistersType
<1> HIDE DEF r
<1>2. 0 \in T
  <2>1. r[0] = InitialSnapshot /\ f[0] = <<>>
    BY <1>1, InstallsSteps
  <2> QED BY <2>1 DEF Latest, InitialSnapshot
<1>3. \A s \in Nat : 0 <= s /\ s < a /\ s \in T => s + 1 \in T
  <2> SUFFICES ASSUME NEW s \in Nat, s < a, r[s] = Latest(f[s]) PROVE r[s + 1] = Latest(f[s + 1])
    OBVIOUS
  <2>1. s + 1 \in 1..n /\ s + 1 \in 1..a /\ (s + 1) - 1 = s /\ s \in 0..n /\ s + 1 \in 0..a /\ s + 1 # 0
    OBVIOUS
  <2>2. f[s + 1] = Grown(f[s], g[s + 1]) /\ g[s + 1] \in Command
    BY <2>1, InstallsSteps
  <2>3. r[s + 1] = Applied(Latest(f[s]), g[s + 1])
    BY <1>1, <2>1
  <2>4. f[s] \in Seq(Chain)
    BY <2>1, InstallsType
  <2> QED BY <2>2, <2>3, <2>4, LatestGrows
<1>4. 0..a \subseteq T
  <2> HIDE DEF T
  <2> QED BY <1>2, <1>3, StretchInduction
<1> QED BY <1>4 DEF r

\* Where two logs agree, they install the same.
LEMMA InstallsMeet ==
  ASSUME NEW n \in Nat, NEW log, NEW log2, NEW f, NEW g, Installs(f, log, n), Installs(g, log2, n),
         NEW k \in 0..n, \A s \in 1..k : log[s] = log2[s]
  PROVE  f[k] = g[k]
<1> DEFINE T == {s \in Nat : f[s] = g[s]}
<1>1. 0 \in T
  BY InstallsSteps
<1>2. \A s \in Nat : 0 <= s /\ s < k /\ s \in T => s + 1 \in T
  <2> SUFFICES ASSUME NEW s \in Nat, s < k, f[s] = g[s] PROVE f[s + 1] = g[s + 1]
    OBVIOUS
  <2>1. s + 1 \in 1..n /\ s + 1 \in 1..k /\ (s + 1) - 1 = s
    OBVIOUS
  <2>2. f[s + 1] = Grown(f[s], log[s + 1]) /\ g[s + 1] = Grown(g[s], log2[s + 1])
    BY <2>1, InstallsSteps
  <2> QED BY <2>1, <2>2
<1>3. 0..k \subseteq T
  <2> HIDE DEF T
  <2> QED BY <1>1, <1>2, StretchInduction
<1> QED BY <1>3

\* Slots that nothing is chosen for install nothing.
LEMMA InstallsStop ==
  ASSUME NEW n \in Nat, NEW log, NEW f, Installs(f, log, n),
         NEW k \in 0..n, \A s \in (k + 1)..n : log[s] = NoValue
  PROVE  f[n] = f[k]
<1> DEFINE T == {s \in Nat : f[s] = f[k]}
<1>1. k \in T
  OBVIOUS
<1>2. \A s \in Nat : k <= s /\ s < n /\ s \in T => s + 1 \in T
  <2> SUFFICES ASSUME NEW s \in Nat, k <= s, s < n, f[s] = f[k] PROVE f[s + 1] = f[k]
    OBVIOUS
  <2>1. s + 1 \in 1..n /\ s + 1 \in (k + 1)..n /\ (s + 1) - 1 = s
    OBVIOUS
  <2>2. f[s + 1] = Grown(f[s], NoValue)
    BY <2>1, InstallsSteps
  <2> QED BY <2>2, NoValueAssumption DEF Grown, Command
<1>3. k..n \subseteq T
  <2> HIDE DEF T
  <2> QED BY <1>1, <1>2, StretchInduction
<1> QED BY <1>3

ChosenRequests(s) == {q \in VoteRequests(s) : Voters(q) \in Quorum}

\* The value of a slot is the one that is chosen for it.
ValuesAreChosen ==
  \A s \in Slot :
    /\ ChosenValue(s) \in Command \cup {NoValue}
    /\ ChosenValue(s) # NoValue => Chosen(s, ChosenValue(s))
    /\ \A v : Chosen(s, v) => v \in Command /\ ChosenValue(s) = v

LEMMA ChosenValueIs == IInv => ValuesAreChosen
<1> SUFFICES ASSUME IInv, NEW s \in Slot
             PROVE  /\ ChosenValue(s) \in Command \cup {NoValue}
                    /\ ChosenValue(s) # NoValue => Chosen(s, ChosenValue(s))
                    /\ \A v : Chosen(s, v) => v \in Command /\ ChosenValue(s) = v
  BY DEF ValuesAreChosen
<1> DEFINE values == {r.value : r \in ChosenRequests(s)}
<1>1. \A v : v \in values <=> Chosen(s, v)
  BY DEF Chosen, ChosenRequests
<1>2. \A v : Chosen(s, v) => v \in Command
  BY MessageType DEF Chosen, VoteRequests, IInv
<1>3. ChosenValue(s) = IF values = {} THEN NoValue ELSE CHOOSE v \in values : TRUE
  BY DEF ChosenValue, ChosenRequests
<1> HIDE DEF values
<1>4. CASE values = {}
  BY <1>1, <1>3, <1>4
<1>5. CASE values # {}
  <2>1. ChosenValue(s) \in values
    BY <1>3, <1>5
  <2>2. \A v : Chosen(s, v) => ChosenValue(s) = v
    BY <1>1, <1>2, <2>1, ChosenOnce DEF IInv
  <2> QED BY <1>1, <1>2, <2>1, <2>2
<1> QED BY <1>4, <1>5

LEMMA DecidedIsChosen ==
  ASSUME IInv, NEW m \in Member, NEW s \in Slot, decided[m][s] # NoValue
  PROVE  ChosenValue(s) = decided[m][s]
BY ChosenValueIs DEF IInv, DecisionsAreChosen, ValuesAreChosen

\* Nothing is chosen behind a slot that is not.
LEMMA ChosenInOrder ==
  ASSUME IInv, LogInv, NEW s \in Slot, NEW t \in Slot, s < t, ChosenValue(s) = NoValue
  PROVE  ChosenValue(t) = NoValue
<1> SUFFICES ASSUME ChosenValue(t) # NoValue PROVE FALSE
  OBVIOUS
<1>1. VoteRequests(t) # {}
  BY ChosenValueIs DEF Chosen, ValuesAreChosen
<1>2. \E m \in Member : decided[m][s] # NoValue
  BY <1>1 DEF LogInv, NoHoles, Slot
<1> QED BY <1>2, DecidedIsChosen

\* The same requests have a quorum.
LEMMA SameChosen ==
  ASSUME NEW s, ChosenRequests(s)' = ChosenRequests(s)
  PROVE  ChosenValue(s)' = ChosenValue(s)
BY DEF ChosenValue, ChosenRequests

NothingChosen == \A s \in Slot : ChosenRequests(s)' = ChosenRequests(s)

\* Only a vote can choose a value.
LEMMA NoVoteNoChoice ==
  ASSUME votes' = votes, \A r \in msgs' : r.type = "accept" => r \in msgs, msgs \subseteq msgs'
  PROVE  NothingChosen
<1>1. \A s \in Slot : VoteRequests(s)' = VoteRequests(s)
  BY DEF VoteRequests
<1>2. \A r : Voters(r)' = Voters(r)
  BY DEF Voters
<1> QED BY <1>1, <1>2 DEF NothingChosen, ChosenRequests

\* A request that was just sent has no votes yet.
LEMMA SendAcceptChooses ==
  ASSUME IInv, NEW c \in Call, SendAccept(c)
  PROVE  NothingChosen
<1>1. PICK r : /\ msgs' = msgs \cup {r} /\ r.type = "accept"
               /\ r.slot = call[c].slot /\ r.ballot = call[c].ballot
  <2>1. PICK value : msgs' = msgs \cup {[type |-> "accept", from |-> call[c].at,
                              slot |-> call[c].slot, ballot |-> call[c].ballot, value |-> value]}
    BY DEF SendAccept
  <2> DEFINE q == [type |-> "accept", from |-> call[c].at, slot |-> call[c].slot,
                   ballot |-> call[c].ballot, value |-> value]
  <2>2. /\ msgs' = msgs \cup {q} /\ q.type = "accept"
        /\ q.slot = call[c].slot /\ q.ballot = call[c].ballot
    BY <2>1
  <2> HIDE DEF q
  <2> QED BY <2>2
<1>2. votes' = votes /\ call[c].pc = "prepare"
  BY DEF SendAccept, durable
<1>3. Voters(r) = {}
  <2> SUFFICES ASSUME NEW m \in Member, <<m, r.slot, r.ballot, r.value>> \in votes PROVE FALSE
    BY DEF Voters
  <2>1. \E q \in VoteRequests(r.slot) : q.ballot = r.ballot
    BY DEF IInv, VotesInv
  <2> QED BY <1>1, <1>2, <2>1 DEF IInv, ProposerInv, VoteRequests
<1>4. Voters(r) \notin Quorum
  BY <1>3, QuorumsMeet
<1>5. \A q : Voters(q)' = Voters(q)
  BY <1>2 DEF Voters
<1>6. ASSUME NEW s \in Slot PROVE ChosenRequests(s)' = ChosenRequests(s)
  <2>1. \A q : q \in VoteRequests(s)' => q \in VoteRequests(s) \/ q = r
    BY <1>1 DEF VoteRequests
  <2>2. \A q : q \in VoteRequests(s) => q \in VoteRequests(s)'
    BY <1>1 DEF VoteRequests
  <2> QED BY <1>4, <1>5, <2>1, <2>2 DEF ChosenRequests
<1> QED BY <1>6 DEF NothingChosen

\* A vote can choose a value for its own slot only.
LEMMA HandleAcceptChooses ==
  ASSUME TypeOK, NEW m \in Member, HandleAccept(m)
  PROVE  NothingChosen \/ \E s \in Slot : \A t \in Slot \ {s} : ChosenRequests(t)' = ChosenRequests(t)
<1>1. PICK r \in msgs : \/ votes' = votes
                        \/ votes' = votes \cup {<<m, r.slot, r.ballot, r.value>>}
  BY DEF HandleAccept
<1>2. r.slot \in Slot /\ msgs' = msgs
  BY MessageType DEF HandleAccept
<1>3. ASSUME NEW t \in Slot \ {r.slot} PROVE ChosenRequests(t)' = ChosenRequests(t)
  <2>1. VoteRequests(t)' = VoteRequests(t)
    BY <1>2 DEF VoteRequests
  <2>2. \A q \in VoteRequests(t) : Voters(q)' = Voters(q)
    BY <1>1, <1>3 DEF VoteRequests, Voters
  <2> QED BY <2>1, <2>2 DEF ChosenRequests
<1> QED BY <1>2, <1>3

\* A step that chooses nothing leaves what is installed.
LEMMA NothingInstalled ==
  ASSUME NothingChosen
  PROVE  Installed' = Installed
<1>1. (\E f : Installs(f, ChosenLog, MaxSlot) /\ Installed = f[MaxSlot])'
  BY InstalledByLog, PTL
<1>2. PICK f : Installs(f, ChosenLog, MaxSlot) /\ Installed = f[MaxSlot]
  BY InstalledByLog
<1>3. PICK g : Installs(g, ChosenLog', MaxSlot) /\ Installed' = g[MaxSlot]
  BY <1>1 DEF Installs
<1>4. ChosenLog' = ChosenLog
  BY SameChosen DEF NothingChosen, ChosenLog
<1> QED BY <1>2, <1>3, <1>4, InstallsMeet, BoundAssumption

\* When a value is chosen, its command takes effect: the slot is the first that nothing
\* was chosen for.
LEMMA ChoiceInstalls ==
  ASSUME IInv, LogInv, IInv', LogInv', NEW s \in Slot,
         \A t \in Slot \ {s} : ChosenRequests(t)' = ChosenRequests(t),
         ChosenValue(s) # NoValue => ChosenValue(s)' = ChosenValue(s)
  PROVE  \/ Installed' = Installed
         \/ \E c \in Call : /\ call'[c].command \in CompareAndSet
                            /\ call'[c].command.expected = Len(Installed)
                            /\ Installed' = Append(Installed, call'[c].command.chain)
<1>1. (\E f : Installs(f, ChosenLog, MaxSlot) /\ Installed = f[MaxSlot])'
  BY InstalledByLog, PTL
<1>2. PICK f : Installs(f, ChosenLog, MaxSlot) /\ Installed = f[MaxSlot]
  BY InstalledByLog
<1>3. PICK g : Installs(g, ChosenLog', MaxSlot) /\ Installed' = g[MaxSlot]
  BY <1>1 DEF Installs
<1>4. \A t \in Slot \ {s} : ChosenValue(t)' = ChosenValue(t)
  BY SameChosen
<1>5. MaxSlot \in Nat /\ s \in 1..MaxSlot /\ s - 1 \in 0..MaxSlot /\ s \in 0..MaxSlot
  BY BoundAssumption DEF Slot
<1>6. \A t \in Slot : ChosenLog[t] = ChosenValue(t) /\ ChosenLog'[t] = ChosenValue(t)'
  BY DEF ChosenLog
<1>7. CASE ChosenValue(s) # NoValue \/ ChosenValue(s)' = NoValue
  <2>1. \A t \in 1..MaxSlot : ChosenLog[t] = ChosenLog'[t]
    BY <1>4, <1>6, <1>7 DEF Slot
  <2> QED BY <1>2, <1>3, <1>5, <2>1, InstallsMeet
<1>8. CASE ChosenValue(s) = NoValue /\ ChosenValue(s)' # NoValue
  <2>1. \A t \in Slot : s < t => ChosenValue(t) = NoValue /\ ChosenValue(t)' = NoValue
    BY <1>4, <1>5, <1>8, ChosenInOrder DEF Slot
  <2>2. f[MaxSlot] = f[s - 1]
    <3>1. \A t \in ((s - 1) + 1)..MaxSlot : ChosenLog[t] = NoValue
      BY <1>5, <1>6, <1>8, <2>1 DEF Slot
    <3> QED BY <1>2, <1>5, <3>1, InstallsStop
  <2>3. g[MaxSlot] = g[s]
    <3>1. \A t \in (s + 1)..MaxSlot : ChosenLog'[t] = NoValue
      BY <1>5, <1>6, <2>1 DEF Slot
    <3> QED BY <1>3, <1>5, <3>1, InstallsStop
  <2>4. g[s] = Grown(g[s - 1], ChosenValue(s)')
    BY <1>3, <1>5, <1>6, InstallsSteps
  <2>5. f[s - 1] = g[s - 1]
    <3>1. \A t \in 1..(s - 1) : ChosenLog[t] = ChosenLog'[t]
      BY <1>4, <1>5, <1>6 DEF Slot
    <3> QED BY <1>2, <1>3, <1>5, <3>1, InstallsMeet
  <2>6. Installed' = Grown(Installed, ChosenValue(s)')
    BY <1>2, <1>3, <2>2, <2>3, <2>4, <2>5
  <2>7. Installed \in Seq(Chain)
    BY <1>2, <1>5, InstallsType
  <2>8. ValuesAreChosen'
    BY ChosenValueIs, PTL
  <2>9. Chosen(s, ChosenValue(s))'
    BY <1>8, <2>8 DEF ValuesAreChosen
  <2>10. PICK c \in Call : call'[c].command = ChosenValue(s)'
    BY <2>9 DEF LogInv, SentInv, Chosen, VoteRequests
  <2> QED BY <2>6, <2>7, <2>10, GrownType
<1> QED BY <1>7, <1>8

\* What is chosen stays chosen.
LEMMA ChoiceStands ==
  ASSUME IInv, IInv', msgs' = msgs, votes \subseteq votes', NEW s \in Slot, ChosenValue(s) # NoValue
  PROVE  ChosenValue(s)' = ChosenValue(s)
<1>0. PICK v : v = ChosenValue(s)
  OBVIOUS
<1>1. Chosen(s, v)
  BY <1>0, ChosenValueIs DEF ValuesAreChosen
<1>2. Chosen(s, v)'
  <2>1. PICK r \in VoteRequests(s) : r.value = v /\ Voters(r) \in Quorum
    BY <1>1 DEF Chosen
  <2>2. r \in VoteRequests(s)' /\ Voters(r) \subseteq Voters(r)' /\ Voters(r)' \subseteq Member
    BY <2>1 DEF VoteRequests, Voters
  <2>3. Voters(r)' \in Quorum
    BY <2>1, <2>2, QuorumGrows
  <2>4. Quorum' = Quorum
    BY DEF Quorum
  <2> QED BY <2>1, <2>2, <2>3, <2>4 DEF Chosen
<1>3. ValuesAreChosen'
  BY ChosenValueIs, PTL
<1>4. ChosenValue(s)' = v
  BY <1>2, <1>3 DEF ValuesAreChosen
<1> QED BY <1>0, <1>4

\* A call that has no answer has no result either.
Unanswered == \A c \in Call : Done(c) \/ call[c].result = NoResult

Asked == [c \in Call |-> call[c].command]
Answers == [c \in Call |-> call[c].result]

\* No call is sent a command, and none is answered.
NothingTold == Unanswered' /\ Asked' = Asked /\ Answers' = Answers

LEMMA SameTold ==
  ASSUME Unanswered, \A c \in Call : /\ call'[c].command = call[c].command
                                     /\ call'[c].result = call[c].result
                                     /\ Done(c) => Done(c)'
  PROVE  NothingTold
BY DEF NothingTold, Unanswered, Asked, Answers

LEMMA AcceptorTells ==
  ASSUME TypeOK, Unanswered, NEW m \in Member, Acceptor(m)
  PROVE  NothingTold
<1>1. \A c \in Call : SameCall(c)
  <2>1. CASE HandlePrepare(m)
    BY <2>1, ReplyKeeps DEF HandlePrepare, TypeOK
  <2>2. CASE HandleAccept(m)
    BY <2>2, ReplyKeeps DEF HandleAccept, TypeOK
  <2>3. CASE HandleDecide(m)
    BY <2>3 DEF HandleDecide, SameCall
  <2> QED BY <2>1, <2>2, <2>3 DEF Acceptor
<1> QED BY <1>1, SameTold DEF SameCall, Done

LEMMA RestartTells ==
  ASSUME TypeOK, Unanswered, NEW m \in Member, Restart(m)
  PROVE  NothingTold
<1>1. \A c \in Call : call'[c] = IF Running(c) /\ call[c].at = m THEN Failed(c) ELSE call[c]
  BY DEF Restart
<1>2. \A c \in Call : Failed(c).command = call[c].command /\ Failed(c).result = NoResult
  BY DEF Failed, NewCall
<1>3. \A c \in Call : Running(c) => call[c].result = NoResult /\ ~Done(c)
  BY DEF Unanswered, Running, Done
<1> QED BY <1>1, <1>2, <1>3, SameTold DEF Done

\* A step of the proposer, but for the return of its result.
LEMMA ProposerTells ==
  ASSUME TypeOK, Unanswered, NEW c \in Call, Proposer(c), ~Return(c)
  PROVE  NothingTold
<1>1. call \in [Call -> CallState] /\ call[c] \in CallState
  BY DEF TypeOK
<1>2. \A d \in Call : d # c => call'[d] = call[d]
  BY <1>1 DEF Proposer, TakeSlot, ReserveBallot, NoQuorum, AdoptDecision, SendAccept,
     AcceptedByQuorum, Outvoted, Learn, NextSlot, Goto, Fail
<1>3. ~Done(c) /\ call[c].result = NoResult
  BY DEF Unanswered, Done, Proposer, TakeSlot, ReserveBallot, NoQuorum, AdoptDecision, SendAccept,
     AcceptedByQuorum, Outvoted, Learn, NextSlot
<1>4. call'[c].command = call[c].command /\ call'[c].result = call[c].result
  <2>1. CASE NoQuorum(c)
    BY <1>1, <1>3, <2>1 DEF NoQuorum, Fail, Failed, NewCall
  <2>2. CASE TakeSlot(c)
    BY <1>1, <2>2 DEF TakeSlot, CallState
  <2>3. CASE ReserveBallot(c)
    BY <1>1, <2>3 DEF ReserveBallot, CallState
  <2>4. CASE AdoptDecision(c)
    BY <1>1, <2>4 DEF AdoptDecision, CallState
  <2>5. CASE SendAccept(c)
    BY <1>1, <2>5 DEF SendAccept, CallState
  <2>6. CASE AcceptedByQuorum(c)
    BY <1>1, <2>6 DEF AcceptedByQuorum, CallState
  <2>7. CASE Outvoted(c)
    BY <1>1, <2>7 DEF Outvoted, CallState
  <2>8. CASE Learn(c) \/ NextSlot(c)
    BY <1>1, <2>8 DEF Learn, NextSlot, Goto, CallState
  <2> QED BY <2>1, <2>2, <2>3, <2>4, <2>5, <2>6, <2>7, <2>8 DEF Proposer
<1> QED BY <1>2, <1>3, <1>4, SameTold DEF Done

\* Steps that vote for nothing choose nothing.
LEMMA OthersChooseNothing ==
  ASSUME IInv, [Next]_vars, \A m \in Member : ~HandleAccept(m)
  PROVE  NothingChosen
<1>1. CASE \E c \in Call : SendAccept(c)
  BY <1>1, SendAcceptChooses
<1>2. CASE \A c \in Call : ~SendAccept(c)
  <2>1. /\ votes' = votes /\ msgs \subseteq msgs'
        /\ \A r \in msgs' : r.type = "accept" => r \in msgs
    <3>1. ASSUME NEW c \in Call, Proposer(c)
          PROVE  /\ votes' = votes /\ msgs \subseteq msgs'
                 /\ \A r \in msgs' : r.type = "accept" => r \in msgs
      <4>1. CASE ReserveBallot(c)
        BY <4>1 DEF ReserveBallot
      <4>2. CASE Learn(c)
        BY <4>2 DEF Learn
      <4>3. CASE ~ReserveBallot(c) /\ ~Learn(c)
        BY <1>2, <3>1, <4>3 DEF Proposer, TakeSlot, NoQuorum, AdoptDecision,
           AcceptedByQuorum, Outvoted, Return, NextSlot, durable
      <4> QED BY <4>1, <4>2, <4>3
    <3>2. ASSUME NEW c \in Call, NEW m \in Member, Start(c, m)
          PROVE  votes' = votes /\ msgs' = msgs
      BY <3>2 DEF Start, durable
    <3>3. ASSUME NEW m \in Member, HandlePrepare(m) \/ HandleDecide(m) \/ Restart(m)
          PROVE  votes' = votes /\ msgs' = msgs
      BY <3>3 DEF HandlePrepare, HandleDecide, Restart, durable
    <3>4. CASE UNCHANGED vars
      BY <3>4 DEF vars
    <3> QED BY <3>1, <3>2, <3>3, <3>4 DEF Next, Acceptor
  <2> QED BY <2>1, NoVoteNoChoice
<1> QED BY <1>1, <1>2

\* What a call may be told, of the chains that have been installed.
LEMMA OutcomeIsTruthful ==
  ASSUME IInv, LogInv, NEW m \in Member, NEW s \in 1..lastApplied[m], NEW c \in Call,
         decided[m][s] = call[c].command
  PROVE  \E v \in 0..Len(Installed) :
           /\ OutcomeAt(m, s).kind \in MetaStore!Truthful(c, v)
           /\ OutcomeAt(m, s) = [kind |-> OutcomeAt(m, s).kind, snapshot |-> MetaStore!VersionOf(v)]
<1>1. PICK f : Installs(f, ChosenLog, MaxSlot) /\ Installed = f[MaxSlot]
  BY InstalledByLog
<1> DEFINE a == lastApplied[m]
           cmd == decided[m][s]
<1>2. TypeOK /\ PrefixInv
  BY DEF IInv, LogInv
<1>3. a \in 0..MaxSlot /\ MaxSlot \in Nat /\ \A t \in 1..a : t \in Slot /\ decided[m][t] \in Command
  BY <1>2, PrefixType, LogType
<1>4. s \in 1..MaxSlot /\ s \in 0..MaxSlot /\ s - 1 \in 0..MaxSlot /\ s - 1 \in 0..a /\ s \in 0..a
  BY <1>3
<1>5. \A t \in 1..a : decided[m][t] \in Command /\ decided[m][t] = ChosenLog[t]
  <2> SUFFICES ASSUME NEW t \in 1..a PROVE decided[m][t] = ChosenLog[t]
    BY <1>3
  <2>1. t \in Slot /\ decided[m][t] # NoValue
    BY <1>3, NoValueAssumption
  <2> QED BY <2>1, DecidedIsChosen DEF ChosenLog
<1>6. \A t \in 0..a : Registers(m)[t] = Latest(f[t])
  BY <1>1, <1>3, <1>5, ReplayInstalls DEF Registers
<1>7. f[s] = Grown(f[s - 1], cmd) /\ cmd \in Command
  BY <1>1, <1>3, <1>4, <1>5, InstallsSteps
<1>8. f[s - 1] \in Seq(Chain) /\ f[s] \in Seq(Chain) /\ Installed \in Seq(Chain)
  <2>1. \A t \in 0..MaxSlot : f[t] \in Seq(Chain)
    BY <1>1, <1>3, InstallsType
  <2>2. MaxSlot \in 0..MaxSlot
    BY <1>3
  <2> QED BY <1>1, <1>4, <2>1, <2>2
<1>9. Len(f[s]) <= Len(Installed) /\ \A i \in 1..Len(f[s]) : Installed[i] = f[s][i]
  BY <1>1, <1>3, <1>4, InstallsGrows DEF Follows
<1> HIDE DEF a, cmd
<1> DEFINE v == Len(f[s])
           h == f[s - 1]
<1>10. v \in 0..Len(Installed) /\ v \in Nat /\ Len(h) \in Nat
  BY <1>8, <1>9
<1>11. MetaStore!VersionOf(v) = Latest(f[s])
  <2>1. v # 0 => Installed[v] = f[s][v]
    BY <1>9, <1>10
  <2> QED BY <2>1 DEF MetaStore!VersionOf, Latest
<1>12. OutcomeAt(m, s) = ResultOf(Latest(h), cmd) /\ Applied(Latest(h), cmd) = Latest(f[s])
  BY <1>4, <1>6, <1>7, <1>8, LatestGrows DEF OutcomeAt, cmd
<1>13. /\ OutcomeAt(m, s).snapshot = Latest(f[s])
       /\ OutcomeAt(m, s) = [kind |-> OutcomeAt(m, s).kind, snapshot |-> Latest(f[s])]
       /\ OutcomeAt(m, s).kind = IF cmd.kind = "read_barrier" THEN "snapshot"
                                 ELSE IF Matches(Latest(h), cmd) THEN "applied" ELSE "mismatch"
  BY <1>12 DEF ResultOf
<1>14. Asked[c] = cmd
  BY DEF Asked, cmd
<1>15. OutcomeAt(m, s).kind \in MetaStore!Truthful(c, v)
  <2>1. CASE cmd.kind = "read_barrier"
    BY <1>13, <1>14, <2>1 DEF MetaStore!Truthful, Asked
  <2>2. CASE cmd.kind # "read_barrier"
    <3>1. cmd \in CompareAndSet /\ cmd.kind = "compare_and_set" /\ cmd.expected \in Nat
      BY <1>7, <2>2, MaxVersionAssumption DEF Command, ReadBarrier, CompareAndSet
    <3>2. CASE cmd.expected = Len(h)
      <4>1. f[s] = Append(h, cmd.chain) /\ cmd.chain \in Chain
        BY <1>7, <3>1, <3>2 DEF Grown, CompareAndSet
      <4>2. v = Len(h) + 1 /\ f[s][v] = cmd.chain
        BY <1>8, <4>1
      <4>3. v = cmd.expected + 1 /\ Installed[v] = cmd.chain
        BY <1>9, <1>10, <3>2, <4>2
      <4>4. OutcomeAt(m, s).kind = "applied"
        BY <1>13, <2>2, <3>1, <3>2 DEF Matches, Latest
      <4> QED BY <1>14, <2>2, <4>3, <4>4 DEF MetaStore!Truthful, Asked
    <3>3. CASE cmd.expected # Len(h)
      <4>1. f[s] = h
        BY <1>7, <3>3 DEF Grown
      <4>2. OutcomeAt(m, s).kind = "mismatch"
        BY <1>13, <2>2, <3>1, <3>3 DEF Matches, Latest
      <4> QED BY <1>14, <2>2, <3>3, <4>1, <4>2 DEF MetaStore!Truthful, Asked
    <3> QED BY <3>2, <3>3
  <2> QED BY <2>1, <2>2
<1> QED BY <1>10, <1>11, <1>13, <1>15

\* A step of the log is a step of the register, or none.
RegisterStep == [MetaStore!Next]_<<Installed, Asked, Answers>>

LEMMA StartRefines ==
  ASSUME IInv, LogInv, Unanswered, NEW c \in Call, NEW m \in Member, Start(c, m)
  PROVE  RegisterStep /\ Unanswered'
<1>1. PICK command \in Command, floor \in Reported :
        call' = [call EXCEPT ![c] = NewCall("propose", m, command, floor)]
  BY WorkloadAssumption DEF Start
<1>2. call \in [Call -> CallState] /\ call[c].pc = "idle" /\ call[c].command = NoValue
  BY DEF IInv, TypeOK, Start, LogInv, SentInv
<1>3. call[c].result = NoResult
  BY <1>2 DEF Unanswered, Done
<1>4. /\ call'[c].command = command /\ call'[c].result = NoResult
      /\ \A d \in Call : d # c => call'[d] = call[d]
  BY <1>1, <1>2 DEF NewCall
<1>5. Unanswered'
  BY <1>4 DEF Unanswered, Done
<1>6. Asked' = [Asked EXCEPT ![c] = command]
  BY <1>4 DEF Asked
<1>7. Answers' = Answers
  BY <1>3, <1>4 DEF Answers
<1>8. Installed' = Installed
  BY NothingInstalled, NoVoteNoChoice DEF Start, durable
<1>9. MetaStore!Ask(c)
  BY <1>2, <1>6, <1>7, <1>8 DEF MetaStore!Ask, Asked, Answers, MetaStore!Command, Command,
     MetaStore!ReadBarrier, ReadBarrier, MetaStore!CompareAndSet, CompareAndSet
<1> QED BY <1>5, <1>9 DEF RegisterStep, MetaStore!Next

LEMMA ReturnRefines ==
  ASSUME IInv, LogInv, Unanswered, NEW c \in Call, Return(c)
  PROVE  RegisterStep /\ Unanswered'
<1> DEFINE m == call[c].at
           s == call[c].slot
<1>1. /\ call[c].pc = "learned" /\ call[c].selected = call[c].command
      /\ results[m][s] # NoResult
      /\ call' = [call EXCEPT ![c] = [call[c] EXCEPT !.pc = "done", !.result = results[m][s]]]
  BY DEF Return
<1>2. call \in [Call -> CallState] /\ call[c] \in CallState /\ WellFormed(c)
  BY DEF IInv, TypeOK
<1>3. m \in Member /\ s \in Slot /\ call[c].command \in Command
  BY <1>1, <1>2 DEF WellFormed, Running
<1>4. s <= lastApplied[m] /\ decided[m][s] = call[c].command
  BY <1>1 DEF LogInv, SlotInv
<1>5. results[m][s] = OutcomeAt(m, s)
  BY <1>1, <1>3 DEF LogInv, ResultsInv
<1>6. s \in 1..lastApplied[m]
  BY <1>3, <1>4, LogType DEF Slot, IInv
<1> HIDE DEF m, s
<1>7. PICK v \in 0..Len(Installed) :
        /\ OutcomeAt(m, s).kind \in MetaStore!Truthful(c, v)
        /\ OutcomeAt(m, s) = [kind |-> OutcomeAt(m, s).kind, snapshot |-> MetaStore!VersionOf(v)]
  BY <1>3, <1>4, <1>6, OutcomeIsTruthful
<1>8. /\ call'[c].pc = "done" /\ call'[c].command = call[c].command
      /\ call'[c].result = OutcomeAt(m, s)
      /\ \A d \in Call : d # c => call'[d] = call[d]
  BY <1>1, <1>2, <1>5 DEF CallState
<1>9. Unanswered'
  BY <1>8 DEF Unanswered, Done
<1>10. Asked' = Asked
  BY <1>8 DEF Asked
<1>11. Answers' = [Answers EXCEPT ![c] = OutcomeAt(m, s)]
  BY <1>8 DEF Answers
<1>12. Installed' = Installed
  BY NothingInstalled, NoVoteNoChoice DEF Return, durable
<1>13. Asked[c] # NoValue /\ Answers[c] = NoResult
  <2>1. call[c].command # NoValue
    BY <1>3, NoValueAssumption
  <2> QED BY <1>1, <2>1 DEF Asked, Answers, Unanswered, Done
<1>14. MetaStore!Answer(c)
  <2>1. PICK kind \in MetaStore!Truthful(c, v) :
          Answers' = [Answers EXCEPT ![c] = [kind |-> kind, snapshot |-> MetaStore!VersionOf(v)]]
    BY <1>7, <1>11, Zenon
  <2> QED BY <1>10, <1>12, <1>13, <2>1 DEF MetaStore!Answer, Asked, Answers
<1> QED BY <1>9, <1>14 DEF RegisterStep, MetaStore!Next

LEMMA VoteRefines ==
  ASSUME IInv, LogInv, IInv', LogInv', Unanswered, NEW m \in Member, HandleAccept(m)
  PROVE  RegisterStep /\ Unanswered'
<1>1. NothingTold
  BY AcceptorTells DEF Acceptor, IInv
<1>2. msgs' = msgs /\ votes \subseteq votes'
  BY DEF HandleAccept
<1>3. CASE NothingChosen
  BY <1>1, <1>3, NothingInstalled DEF RegisterStep, NothingTold
<1>4. CASE \E s \in Slot : \A t \in Slot \ {s} : ChosenRequests(t)' = ChosenRequests(t)
  <2>1. PICK s \in Slot : \A t \in Slot \ {s} : ChosenRequests(t)' = ChosenRequests(t)
    BY <1>4
  <2>2. ChosenValue(s) # NoValue => ChosenValue(s)' = ChosenValue(s)
    BY <1>2, ChoiceStands
  <2>3. CASE Installed' = Installed
    BY <1>1, <2>3 DEF RegisterStep, NothingTold
  <2>4. CASE \E c \in Call : /\ call'[c].command \in CompareAndSet
                             /\ call'[c].command.expected = Len(Installed)
                             /\ Installed' = Append(Installed, call'[c].command.chain)
    <3>1. PICK c \in Call : /\ call'[c].command \in CompareAndSet
                            /\ call'[c].command.expected = Len(Installed)
                            /\ Installed' = Append(Installed, call'[c].command.chain)
      BY <2>4
    <3>2. Asked[c] = call'[c].command
      BY <1>1 DEF NothingTold, Asked
    <3>3. Asked[c] # NoValue /\ Asked[c].kind = "compare_and_set"
      BY <3>1, <3>2, NoValueAssumption DEF Command, CompareAndSet
    <3>4. MetaStore!Install(c)
      BY <1>1, <3>1, <3>2, <3>3 DEF MetaStore!Install, NothingTold, Asked, Answers
    <3> QED BY <1>1, <3>4 DEF RegisterStep, MetaStore!Next, NothingTold
  <2> QED BY <2>1, <2>2, <2>3, <2>4, ChoiceInstalls
<1> QED BY <1>3, <1>4, HandleAcceptChooses DEF IInv

LEMMA StepRefines ==
  IInv /\ LogInv /\ IInv' /\ LogInv' /\ Unanswered /\ [Next]_vars => RegisterStep /\ Unanswered'
<1> SUFFICES ASSUME IInv, LogInv, IInv', LogInv', Unanswered, [Next]_vars
             PROVE  RegisterStep /\ Unanswered'
  OBVIOUS
<1>1. CASE \E c \in Call, m \in Member : Start(c, m)
  BY <1>1, StartRefines
<1>2. CASE \E c \in Call : Return(c)
  BY <1>2, ReturnRefines
<1>3. CASE \E m \in Member : HandleAccept(m)
  BY <1>3, VoteRefines
<1>4. CASE /\ ~\E c \in Call, m \in Member : Start(c, m)
           /\ ~\E c \in Call : Return(c)
           /\ ~\E m \in Member : HandleAccept(m)
  <2>1. Installed' = Installed
    BY <1>4, OthersChooseNothing, NothingInstalled
  <2>2. NothingTold
    <3>1. CASE UNCHANGED vars
      <4>1. call' = call
        BY <3>1 DEF vars
      <4> QED BY <4>1, SameTold DEF Done
    <3> QED BY <1>4, <3>1, ProposerTells, AcceptorTells, RestartTells DEF Next, IInv
  <2> QED BY <2>1, <2>2 DEF RegisterStep, NothingTold
<1> QED BY <1>1, <1>2, <1>3, <1>4

LEMMA InitRefines == Init => MetaStore!Init /\ Unanswered
<1> SUFFICES ASSUME Init PROVE MetaStore!Init /\ Unanswered
  OBVIOUS
<1>1. \A c \in Call : call[c].command = NoValue /\ call[c].result = NoResult
  BY DEF Init, Idle, NewCall
<1>2. Installed = <<>>
  <2>1. PICK f : Installs(f, ChosenLog, MaxSlot) /\ Installed = f[MaxSlot]
    BY InstalledByLog
  <2>2. \A s \in Slot : ChosenLog[s] = NoValue
    BY DEF Init, ChosenLog, ChosenValue, VoteRequests
  <2>3. f[MaxSlot] = f[0]
    <3>1. \A s \in (0 + 1)..MaxSlot : ChosenLog[s] = NoValue
      BY <2>2 DEF Slot
    <3> QED BY <2>1, <3>1, InstallsStop, BoundAssumption
  <2> QED BY <2>1, <2>3, InstallsSteps, BoundAssumption
<1> QED BY <1>1, <1>2 DEF MetaStore!Init, Unanswered

\* The replicated log implements the register: a compare-and-set takes effect at the vote
\* that completes a quorum, once and for the version it named, whatever is outvoted, late
\* or restarted, and every answer tells of a version that was installed.
THEOREM MetaStoreImplemented == Spec => ImplementsMetaStore
<1>1. Init => MetaStore!Init /\ Unanswered
  BY InitRefines
<1>2. IInv /\ LogInv /\ IInv' /\ LogInv' /\ Unanswered /\ [Next]_vars
        => Unanswered' /\ [MetaStore!Next]_<<Installed, [c \in Call |-> call[c].command],
                                             [c \in Call |-> call[c].result]>>
  BY StepRefines DEF RegisterStep, Asked, Answers
<1> QED BY <1>1, <1>2, InvariantHolds, LogInvariant, PTL DEF Spec, ImplementsMetaStore, MetaStore!Spec
=============================================================================
