------------------------ MODULE MoonepBarrierProofs ------------------------
(* Theorems about the rank barrier, for every number of ranks, every set of *)
(* groups and every length of the program.                                  *)
EXTENDS MoonepBarrier, TLAPS, SequenceTheorems

(* Updating one entry of a table keeps its type.                            *)
LEMMA UpdateTable ==
    ASSUME NEW A, NEW B, NEW T, NEW f \in [A -> [B -> T]],
           NEW a \in A, NEW b \in B, NEW t \in T
    PROVE  [f EXCEPT ![a][b] = t] \in [A -> [B -> T]]
<1>1. [f[a] EXCEPT ![b] = t] \in [B -> T]
  OBVIOUS
<1> QED
  BY <1>1

(* Updating one entry of a table leaves the others alone.                   *)
LEMMA ReadUpdated ==
    ASSUME NEW A, NEW B, NEW T, NEW f \in [A -> [B -> T]],
           NEW a \in A, NEW b \in B, NEW t, NEW x \in A, NEW y \in B
    PROVE  [f EXCEPT ![a][b] = t][x][y]
               = IF x = a /\ y = b THEN t ELSE f[x][y]
OBVIOUS

(* Every variable keeps its type.                                           *)
THEOREM TypeCorrect == Spec => []TypeOK
<1>1. Init => TypeOK
  BY NumRanksAssumption, MaxRoundsAssumption DEF Init, TypeOK
<1>2. TypeOK /\ [Next]_vars => TypeOK'
  <2> SUFFICES ASSUME TypeOK, [Next]_vars PROVE TypeOK'
    OBVIOUS
  <2> USE NumRanksAssumption, MaxRoundsAssumption, MembersAssumption
  <2>1. ASSUME NEW r \in Ranks, NEW p \in Ranks, PutData(r, p) PROVE TypeOK'
    <3> PICK k \in 1..MaxRounds :
          /\ sent' = [sent EXCEPT ![r][p] = @ \cup {k}]
          /\ chan' = [chan EXCEPT ![r][p] = Append(@, Data(k))]
      BY <2>1 DEF PutData
    <3>1. Data(k) \in Message
      BY DEF Data, Message
    <3>2. chan[r][p] \in Seq(Message) /\ sent[r][p] \in SUBSET (1..MaxRounds)
      BY DEF TypeOK
    <3>3. Append(chan[r][p], Data(k)) \in Seq(Message)
      BY <3>1, <3>2
    <3>4. chan' \in [Ranks -> [Ranks -> Seq(Message)]]
      BY <3>3, UpdateTable DEF TypeOK
    <3>5. sent[r][p] \cup {k} \in SUBSET (1..MaxRounds)
      BY <3>2
    <3>6. sent' \in [Ranks -> [Ranks -> SUBSET (1..MaxRounds)]]
      BY <3>5, UpdateTable DEF TypeOK
    <3> QED
      BY <2>1, <3>4, <3>6 DEF PutData, TypeOK
  <2>2. ASSUME NEW r \in Ranks, SymBarrier(r) PROVE TypeOK'
    <3> PICK k \in 1..MaxRounds :
          /\ round' = [round EXCEPT ![r] = k]
          /\ todo' = [todo EXCEPT ![r] = Peers(r, script[k])]
      BY <2>2 DEF SymBarrier
    <3>1. Peers(r, script[k]) \in SUBSET Ranks
      BY DEF Peers, TypeOK
    <3>2. round' \in [Ranks -> 0..MaxRounds] /\ round'[r] \in 1..MaxRounds
      BY DEF TypeOK
    <3>3. todo' \in [Ranks -> SUBSET Ranks]
      BY <3>1 DEF TypeOK
    <3>4. epoch' \in [Ranks -> Nat]
      BY <2>2 DEF SymBarrier, TypeOK
    <3> QED
      BY <2>2, <3>2, <3>3, <3>4 DEF SymBarrier, TypeOK
  <2>3. ASSUME NEW r \in Ranks, PutFlag(r) PROVE TypeOK'
    <3> PICK p \in todo[r] :
          /\ chan' = [chan EXCEPT ![r][p] = Append(@, Flag(Group(r), epoch[r]))]
          /\ todo' = [todo EXCEPT ![r] = @ \ {p}]
      BY <2>3 DEF PutFlag
    <3>0. p \in Ranks
      BY DEF TypeOK
    <3>1. Flag(Group(r), epoch[r]) \in Message
      BY <2>3 DEF Flag, Message, Group, TypeOK, PutFlag
    <3>2. Append(chan[r][p], Flag(Group(r), epoch[r])) \in Seq(Message)
      BY <3>0, <3>1 DEF TypeOK
    <3>3. chan' \in [Ranks -> [Ranks -> Seq(Message)]]
      BY <3>0, <3>2, UpdateTable DEF TypeOK
    <3> QED
      BY <2>3, <3>3 DEF PutFlag, TypeOK
  <2>4. ASSUME NEW r \in Ranks, PutDone(r) \/ FlushDone(r) PROVE TypeOK'
    <3>1. Peers(r, Group(r)) \in SUBSET Ranks
      BY <2>4 DEF PutDone, FlushDone, TypeOK, Peers, Group
    <3>2. todo' \in [Ranks -> SUBSET Ranks]
      BY <2>4, <3>1 DEF PutDone, FlushDone, TypeOK
    <3> QED
      BY <2>4, <3>2 DEF PutDone, FlushDone, TypeOK
  <2>5. ASSUME NEW r \in Ranks, Flush(r) \/ PollFlag(r) PROVE TypeOK'
    <3> PICK p \in todo[r] : todo' = [todo EXCEPT ![r] = @ \ {p}]
      BY <2>5 DEF Flush, PollFlag
    <3>1. todo[r] \in SUBSET Ranks
      BY DEF TypeOK
    <3>2. todo[r] \ {p} \in SUBSET Ranks
      BY <3>1
    <3>3. todo' \in [Ranks -> SUBSET Ranks]
      BY <3>2 DEF TypeOK
    <3>4. UNCHANGED <<script, round, epoch, pc, flags, chan, sent, got>>
      BY <2>5 DEF Flush, PollFlag
    <3> QED
      BY <3>3, <3>4 DEF TypeOK
  <2>6. ASSUME NEW r \in Ranks, Return(r) PROVE TypeOK'
    BY <2>6 DEF Return, TypeOK
  <2>7. ASSUME NEW s \in Ranks, NEW r \in Ranks, Land(s, r) PROVE TypeOK'
    <3> DEFINE m == Head(chan[s][r])
    <3>0. chan[s][r] \in Seq(Message) /\ chan[s][r] # << >>
      BY <2>7 DEF Land, TypeOK
    <3>1. m \in Message /\ Tail(chan[s][r]) \in Seq(Message)
      BY <3>0
    <3>2. chan' \in [Ranks -> [Ranks -> Seq(Message)]]
      BY <2>7, <3>1, UpdateTable DEF Land, TypeOK
    <3>3. CASE m.kind = "flag"
      <4>1. m.group \in Groups /\ m.val \in Nat
        BY <3>1, <3>3 DEF Message
      <4>2. flags[m.group] \in [Ranks -> [Ranks -> Nat]]
        BY <4>1 DEF TypeOK
      <4>3. [flags[m.group] EXCEPT ![r][s] = m.val]
                \in [Ranks -> [Ranks -> Nat]]
        BY <4>1, <4>2, UpdateTable
      <4>4. flags' = [flags EXCEPT
                        ![m.group] = [flags[m.group] EXCEPT ![r][s] = m.val]]
        BY <2>7, <3>3, <4>1 DEF Land, TypeOK
      <4> HIDE DEF m
      <4>5. flags' \in [Groups -> [Ranks -> [Ranks -> Nat]]]
        BY <4>1, <4>3, <4>4 DEF TypeOK
      <4> QED
        BY <2>7, <3>2, <3>3, <4>5 DEF Land, TypeOK, m
    <3>4. CASE m.kind = "data"
      <4>1. m.val \in 1..MaxRounds
        BY <3>1, <3>4 DEF Message
      <4>2. got' = [got EXCEPT ![r][s] = got[r][s] \cup {m.val}]
        BY <2>7, <3>4 DEF Land
      <4> HIDE DEF m
      <4>0. got[r][s] \in SUBSET (1..MaxRounds)
        BY DEF TypeOK
      <4>3. got[r][s] \cup {m.val} \in SUBSET (1..MaxRounds)
        BY <4>0, <4>1
      <4>4. got' \in [Ranks -> [Ranks -> SUBSET (1..MaxRounds)]]
        BY <4>2, <4>3, UpdateTable DEF TypeOK
      <4> QED
        BY <2>7, <3>2, <3>4, <4>4 DEF Land, TypeOK, m
    <3> QED
      BY <2>7, <3>3, <3>4 DEF Land
  <2>8. ASSUME UNCHANGED vars PROVE TypeOK'
    BY <2>8 DEF vars, TypeOK
  <2> QED
    BY <2>1, <2>2, <2>3, <2>4, <2>5, <2>6, <2>7, <2>8
    DEF Next, RankStep, Finished
<1> QED
  BY <1>1, <1>2, PTL DEF Spec

-----------------------------------------------------------------------------
(* With full groups the next barrier is the next position of the program.   *)
LEMMA NextIsSuccessor ==
    ASSUME FullGroups, TypeOK, NEW r \in Ranks, NEW k \in 1..MaxRounds,
           IsNextBarrier(r, round[r], k)
    PROVE  k = round[r] + 1
<1>1. round[r] \in Nat /\ round[r] < k
  BY MaxRoundsAssumption DEF TypeOK, IsNextBarrier
<1>2. SUFFICES ASSUME round[r] + 1 \in round[r] + 1 .. k - 1 PROVE FALSE
  BY <1>1
<1>3. r \notin Members[script[round[r] + 1]]
  BY <1>2 DEF IsNextBarrier
<1>4. script[round[r] + 1] \in Groups
  BY <1>1, <1>2, MaxRoundsAssumption DEF TypeOK
<1> QED
  BY <1>3, <1>4 DEF FullGroups

(* The invariant is inductive: one step per action.                         *)
LEMMA BarrierInvInductive ==
    ASSUME FullGroups, BarrierInv, TypeOK', [Next]_vars
    PROVE  BarrierInv'
<1> USE NumRanksAssumption, MaxRoundsAssumption, MembersAssumption
<1>a. \A x \in Ranks : round[x] \in Nat /\ epoch[x] \in Nat
  BY DEF BarrierInv, TypeOK
<1>1. ASSUME NEW r \in Ranks, NEW p \in Ranks, PutData(r, p)
      PROVE  BarrierInv'
  <2> PICK k \in 1..MaxRounds :
        chan' = [chan EXCEPT ![r][p] = Append(@, Data(k))]
    BY <1>1 DEF PutData
  <2>1. FlagsHonest'
    <3> SUFFICES ASSUME NEW s \in Ranks, NEW q \in Ranks,
                        NEW i \in 1..Len(chan'[s][q]),
                        chan'[s][q][i].kind = "flag"
                 PROVE  chan'[s][q][i].val <= epoch[s]
      BY <1>1 DEF PutData, FlagsHonest, BarrierInv
    <3>1. chan[s][q] \in Seq(Message)
      BY DEF BarrierInv, TypeOK
    <3>2. CASE s = r /\ q = p
      <4>1. chan'[s][q] = Append(chan[s][q], Data(k))
        BY <3>2 DEF BarrierInv, TypeOK
      <4>2. i \in 1..Len(chan[s][q])
        BY <3>1, <4>1 DEF Data
      <4> QED
        BY <3>1, <4>1, <4>2 DEF BarrierInv, FlagsHonest
    <3>3. CASE ~(s = r /\ q = p)
      <4>1. chan'[s][q] = chan[s][q]
        BY <3>3, ReadUpdated DEF BarrierInv, TypeOK
      <4> QED
        BY <4>1 DEF BarrierInv, FlagsHonest
    <3> QED
      BY <3>2, <3>3
  <2> QED
    BY <1>1, <2>1 DEF PutData, BarrierInv, EpochIsRound, PolledHaveCalled,
                      PassedHaveCalled, Passed
<1>2. ASSUME NEW r \in Ranks, SymBarrier(r) PROVE BarrierInv'
  <2>0. PICK k \in 1..MaxRounds : /\ IsNextBarrier(r, round[r], k)
                                  /\ round' = [round EXCEPT ![r] = k]
    BY <1>2 DEF SymBarrier
  <2>1. k = round[r] + 1
    BY <2>0, NextIsSuccessor DEF BarrierInv
  <2>2. /\ round' = [round EXCEPT ![r] = round[r] + 1]
        /\ epoch' = [epoch EXCEPT ![r] = epoch[r] + 1]
        /\ pc' = [pc EXCEPT ![r] = "put"]
        /\ pc[r] = "host"
        /\ UNCHANGED <<flags, chan>>
        /\ \A x \in Ranks \ {r} : todo'[x] = todo[x]
    BY <1>2, <2>0, <2>1 DEF SymBarrier, BarrierInv, TypeOK
  <2>3. \A x \in Ranks : /\ round[x] <= round'[x]
                         /\ epoch[x] <= epoch'[x]
    <3>1. /\ round \in [Ranks -> 0..MaxRounds]
          /\ epoch \in [Ranks -> Nat]
      BY DEF BarrierInv, TypeOK
    <3> QED
      BY <2>2, <3>1, <1>a
  <2>4. EpochIsRound'
    BY <2>2 DEF BarrierInv, TypeOK, EpochIsRound
  <2>5. FlagsHonest'
    <3>1. ASSUME NEW s \in Ranks, NEW q \in Ranks, NEW g \in Groups
          PROVE  flags[g][q][s] <= epoch'[s]
      <4>1. flags[g][q][s] \in Nat /\ epoch[s] \in Nat /\ epoch'[s] \in Nat
        BY DEF BarrierInv, TypeOK
      <4> QED
        BY <2>3, <4>1 DEF BarrierInv, FlagsHonest
    <3>2. ASSUME NEW s \in Ranks, NEW q \in Ranks,
                 NEW i \in 1..Len(chan[s][q]), chan[s][q][i].kind = "flag"
          PROVE  chan[s][q][i].val <= epoch'[s]
      <4>0. chan[s][q] \in Seq(Message)
        BY DEF BarrierInv, TypeOK
      <4>1. chan[s][q][i] \in Message
        BY <4>0
      <4>2. chan[s][q][i].val \in Nat /\ epoch[s] \in Nat /\ epoch'[s] \in Nat
        BY <3>2, <4>1 DEF BarrierInv, TypeOK, Message
      <4> QED
        BY <2>3, <3>2, <4>2 DEF BarrierInv, FlagsHonest
    <3> QED
      BY <2>2, <3>1, <3>2 DEF FlagsHonest
  <2>6. PolledHaveCalled'
    <3> SUFFICES ASSUME NEW x \in Ranks, pc'[x] = "poll",
                        NEW s \in Ranks \ (todo'[x] \cup {x})
                 PROVE  round'[x] <= round'[s]
      BY DEF PolledHaveCalled
    <3>1. x # r /\ pc[x] = "poll" /\ s \notin todo[x]
      BY <2>2 DEF BarrierInv, TypeOK
    <3>2. round[x] <= round[s] /\ round'[x] = round[x]
      BY <2>2, <3>1 DEF BarrierInv, TypeOK, PolledHaveCalled
    <3> QED
      BY <2>3, <3>2, <1>a DEF BarrierInv, TypeOK
  <2>7. PassedHaveCalled'
    <3> SUFFICES ASSUME NEW x \in Ranks, NEW s \in Ranks
                 PROVE  Passed(x)' <= round'[s]
      BY DEF PassedHaveCalled
    <3>1. Passed(x)' = Passed(x)
      <4>1. /\ round \in [Ranks -> 0..MaxRounds]
            /\ pc \in [Ranks -> {"host", "put", "flush", "poll"}]
        BY DEF BarrierInv, TypeOK
      <4> QED
        BY <2>2, <4>1, <1>a DEF Passed
    <3>2. Passed(x) <= round[s]
      BY DEF BarrierInv, PassedHaveCalled
    <3>3. Passed(x) \in Int /\ round'[s] \in Int
      <4>1. round' \in [Ranks -> 0..MaxRounds]
        BY DEF TypeOK
      <4> QED
        BY <4>1, <1>a DEF Passed
    <3> QED
      BY <2>3, <3>1, <3>2, <3>3, <1>a
  <2> QED
    BY <2>4, <2>5, <2>6, <2>7 DEF BarrierInv
<1>3. ASSUME NEW r \in Ranks, PutFlag(r) PROVE BarrierInv'
  <2>0. PICK p \in todo[r] :
        chan' = [chan EXCEPT ![r][p] = Append(@, Flag(Group(r), epoch[r]))]
    BY <1>3 DEF PutFlag
  <2>1. p \in Ranks
    BY DEF BarrierInv, TypeOK
  <2>2. FlagsHonest'
    <3> SUFFICES ASSUME NEW s \in Ranks, NEW q \in Ranks,
                        NEW i \in 1..Len(chan'[s][q]),
                        chan'[s][q][i].kind = "flag"
                 PROVE  chan'[s][q][i].val <= epoch[s]
      BY <1>3 DEF PutFlag, FlagsHonest, BarrierInv
    <3>1. chan[s][q] \in Seq(Message)
      BY DEF BarrierInv, TypeOK
    <3>2. CASE s = r /\ q = p
      <4> DEFINE f == Flag(Group(r), epoch[r])
      <4>1. chan'[s][q] = Append(chan[s][q], f)
        BY <2>0, <2>1, <3>2 DEF BarrierInv, TypeOK
      <4>2. f.val = epoch[s]
        BY <3>2 DEF Flag
      <4> HIDE DEF f
      <4>3. CASE i \in 1..Len(chan[s][q])
        BY <3>1, <4>1, <4>3 DEF BarrierInv, FlagsHonest
      <4>4. CASE i = Len(chan[s][q]) + 1
        BY <3>1, <4>1, <4>2, <4>4, <1>a
      <4> QED
        BY <3>1, <4>1, <4>3, <4>4
    <3>3. CASE ~(s = r /\ q = p)
      <4>1. chan'[s][q] = chan[s][q]
        BY <2>0, <2>1, <3>3, ReadUpdated DEF BarrierInv, TypeOK
      <4> QED
        BY <4>1 DEF BarrierInv, FlagsHonest
    <3> QED
      BY <3>2, <3>3
  <2>3. PolledHaveCalled'
    BY <1>3 DEF PutFlag, BarrierInv, TypeOK, PolledHaveCalled
  <2> QED
    BY <1>3, <2>2, <2>3 DEF PutFlag, BarrierInv, EpochIsRound,
                            PassedHaveCalled, Passed
<1>4. ASSUME NEW r \in Ranks, PutDone(r) \/ Flush(r) \/ FlushDone(r)
      PROVE  BarrierInv'
  <2>1. /\ UNCHANGED <<script, round, epoch, flags, chan>>
        /\ pc[r] # "host" /\ pc'[r] # "host"
        /\ \A x \in Ranks \ {r} : pc'[x] = pc[x] /\ todo'[x] = todo[x]
    BY <1>4 DEF PutDone, Flush, FlushDone, BarrierInv, TypeOK
  <2>2. pc'[r] = "poll" => todo'[r] = Peers(r, Group(r))
    BY <1>4 DEF PutDone, Flush, FlushDone, BarrierInv, TypeOK
  <2>3. pc'[r] = "poll" => todo'[r] = Ranks \ {r}
    BY <1>4, <2>1, <2>2 DEF BarrierInv, TypeOK, Peers, Group, FullGroups
  <2>4. PolledHaveCalled'
    BY <2>1, <2>3 DEF BarrierInv, PolledHaveCalled
  <2>5. PassedHaveCalled'
    <3>1. \A x \in Ranks : Passed(x)' = Passed(x)
      BY <2>1 DEF Passed
    <3> QED
      BY <2>1, <3>1 DEF BarrierInv, PassedHaveCalled
  <2> QED
    BY <2>1, <2>4, <2>5 DEF BarrierInv, EpochIsRound, FlagsHonest
<1>5. ASSUME NEW r \in Ranks, PollFlag(r) PROVE BarrierInv'
  <2>0. PICK p \in todo[r] :
          /\ FlagReady(flags[Group(r)][r][p], epoch[r])
          /\ todo' = [todo EXCEPT ![r] = @ \ {p}]
    BY <1>5 DEF PollFlag
  <2>1. p \in Ranks /\ Group(r) \in Groups
    BY <1>5 DEF BarrierInv, TypeOK, Group, PollFlag
  <2>2. round[r] <= round[p]
    <3>1. flags[Group(r)][r][p] \in Nat
      BY <2>1 DEF BarrierInv, TypeOK
    <3>2. flags[Group(r)][r][p] <= epoch[p]
      BY <2>1 DEF BarrierInv, FlagsHonest
    <3>3. epoch[r] <= epoch[p]
      BY <2>0, <2>1, <3>1, <3>2, <1>a DEF FlagReady
    <3> QED
      BY <2>1, <3>3 DEF BarrierInv, EpochIsRound
  <2>3. PolledHaveCalled'
    BY <1>5, <2>0, <2>2 DEF PollFlag, BarrierInv, TypeOK, PolledHaveCalled
  <2> QED
    BY <1>5, <2>3 DEF PollFlag, BarrierInv, EpochIsRound, FlagsHonest,
                      PassedHaveCalled, Passed
<1>6. ASSUME NEW r \in Ranks, Return(r) PROVE BarrierInv'
  <2>1. /\ UNCHANGED <<script, round, epoch, flags, chan, todo>>
        /\ pc[r] = "poll" /\ todo[r] = {} /\ pc' = [pc EXCEPT ![r] = "host"]
    BY <1>6 DEF Return
  <2>2. PolledHaveCalled'
    BY <2>1 DEF BarrierInv, TypeOK, PolledHaveCalled
  <2>3. PassedHaveCalled'
    <3> SUFFICES ASSUME NEW x \in Ranks, NEW s \in Ranks
                 PROVE  Passed(x)' <= round[s]
      BY <2>1 DEF PassedHaveCalled
    <3>1. CASE x = r
      <4>1. round[r] <= round[s]
        BY <2>1, <1>a DEF BarrierInv, PolledHaveCalled
      <4> QED
        BY <2>1, <3>1, <4>1 DEF Passed, BarrierInv, TypeOK
    <3>2. CASE x # r
      BY <2>1, <3>2 DEF Passed, BarrierInv, TypeOK, PassedHaveCalled
    <3> QED
      BY <3>1, <3>2
  <2> QED
    BY <2>1, <2>2, <2>3 DEF BarrierInv, EpochIsRound, FlagsHonest
<1>7. ASSUME NEW s \in Ranks, NEW r \in Ranks, Land(s, r) PROVE BarrierInv'
  <2>1. chan[s][r] \in Seq(Message) /\ chan[s][r] # << >>
    BY <1>7 DEF Land, BarrierInv, TypeOK
  <2>2. chan' = [chan EXCEPT ![s][r] = Tail(@)]
    BY <1>7 DEF Land
  <2>3. ASSUME NEW x \in Ranks, NEW y \in Ranks,
               NEW i \in 1..Len(chan'[x][y]), chan'[x][y][i].kind = "flag"
        PROVE  chan'[x][y][i].val <= epoch[x]
    <3>1. CASE x = s /\ y = r
      <4>1. chan'[x][y] = Tail(chan[s][r])
        BY <2>2, <3>1 DEF BarrierInv, TypeOK
      <4>2. i + 1 \in 1..Len(chan[s][r]) /\ chan'[x][y][i] = chan[s][r][i + 1]
        BY <2>1, <2>3, <4>1
      <4> QED
        BY <2>3, <3>1, <4>2 DEF BarrierInv, FlagsHonest
    <3>2. CASE ~(x = s /\ y = r)
      <4>1. chan'[x][y] = chan[x][y]
        BY <2>2, <3>2, ReadUpdated DEF BarrierInv, TypeOK
      <4> QED
        BY <2>3, <4>1 DEF BarrierInv, FlagsHonest
    <3> QED
      BY <3>1, <3>2
  <2>4. ASSUME NEW x \in Ranks, NEW y \in Ranks, NEW g \in Groups
        PROVE  flags'[g][y][x] <= epoch[x]
    <3>1. flags[g][y][x] <= epoch[x]
      BY DEF BarrierInv, FlagsHonest
    <3> DEFINE m == Head(chan[s][r])
    <3>2. m = chan[s][r][1] /\ 1 \in 1..Len(chan[s][r]) /\ m \in Message
      BY <2>1
    <3>3. m.kind = "flag" => m.val <= epoch[s]
      BY <3>2 DEF BarrierInv, FlagsHonest
    <3>4. \/ flags' = flags
          \/ /\ m.kind = "flag"
             /\ flags' = [flags EXCEPT ![m.group][r][s] = m.val]
      BY <1>7 DEF Land
    <3>5. m.kind = "flag" => m.group \in Groups
      BY <3>2 DEF Message
    <3> HIDE DEF m
    <3>6. flags'[g][y][x] = flags[g][y][x]
            \/ (y = r /\ x = s /\ m.kind = "flag" /\ flags'[g][y][x] = m.val)
      <4>1. flags \in [Groups -> [Ranks -> [Ranks -> Nat]]]
        BY DEF BarrierInv, TypeOK
      <4>2. CASE m.kind = "flag" /\ flags' = [flags EXCEPT ![m.group][r][s] = m.val]
        <5>1. flags'[g] = IF g = m.group THEN [flags[g] EXCEPT ![r][s] = m.val]
                                         ELSE flags[g]
          BY <4>1, <4>2
        <5>2. flags[g] \in [Ranks -> [Ranks -> Nat]]
          BY <4>1
        <5> QED
          BY <4>2, <5>1, <5>2, ReadUpdated
      <4> QED
        BY <3>4, <4>2
    <3> QED
      BY <3>1, <3>3, <3>6
  <2>5. FlagsHonest'
    BY <1>7, <2>3, <2>4 DEF FlagsHonest, Land
  <2> QED
    BY <1>7, <2>5 DEF Land, BarrierInv, EpochIsRound, PolledHaveCalled,
                      PassedHaveCalled, Passed
<1>8. ASSUME UNCHANGED vars PROVE BarrierInv'
  BY <1>8 DEF vars, BarrierInv, EpochIsRound, FlagsHonest, PolledHaveCalled,
              PassedHaveCalled, Passed
<1> QED
  BY <1>1, <1>2, <1>3, <1>4, <1>5, <1>6, <1>7, <1>8
  DEF Next, RankStep, Finished

(* The invariant holds throughout.                                          *)
LEMMA BarrierInvariant ==
    ASSUME FullGroups PROVE Spec => [](BarrierInv /\ TypeOK)
<1>1. Init => BarrierInv
  BY NumRanksAssumption, MaxRoundsAssumption
  DEF Init, BarrierInv, TypeOK, EpochIsRound, FlagsHonest, PolledHaveCalled,
      PassedHaveCalled, Passed
<1>2. BarrierInv /\ TypeOK' /\ [Next]_vars => BarrierInv'
  BY BarrierInvInductive
<1> QED
  BY <1>1, <1>2, TypeCorrect, PTL DEF Spec

(* If every group is the whole world, no rank ever returns from a barrier   *)
(* that another rank has not called.                                        *)
THEOREM BarrierSafety ==
    ASSUME FullGroups PROVE Spec => []NoEarlyRelease
<1>1. BarrierInv => NoEarlyRelease
  <2> SUFFICES ASSUME BarrierInv, NEW r \in Ranks, NEW k \in 1..MaxRounds,
                      Returned(r, k), NEW s \in Ranks
               PROVE  k <= round[s]
    BY MembersAssumption DEF NoEarlyRelease, BarrierInv, TypeOK
  <2>1. round[r] \in Int /\ round[s] \in Int
    BY MaxRoundsAssumption DEF BarrierInv, TypeOK
  <2>2. k <= Passed(r) /\ Passed(r) \in Int
    BY <2>1 DEF Returned, Passed
  <2>3. Passed(r) <= round[s]
    BY DEF BarrierInv, PassedHaveCalled
  <2> QED
    BY <2>1, <2>2, <2>3
<1> QED
  BY <1>1, BarrierInvariant, PTL

-----------------------------------------------------------------------------
(* Two more theorems: the protocol implements RankBarrier, and data put      *)
(* before the barrier has landed when it returns.  Both are for groups that  *)
(* span all ranks, and build on BarrierInv.                                  *)

-----------------------------------------------------------------------------
(* The abstract barrier.                                                    *)

(* Calling a barrier is arriving at it.                                     *)
LEMMA CallArrives ==
    ASSUME TypeOK, NEW r \in Ranks, SymBarrier(r) PROVE Abstract!Arrive(r)
<1>1. PICK k \in 1..MaxRounds : /\ IsNextBarrier(r, round[r], k)
                                /\ round' = [round EXCEPT ![r] = k]
  BY DEF SymBarrier
<1>2. Abstract!IsNextBarrier(r, round[r], k)
  BY <1>1 DEF IsNextBarrier, Abstract!IsNextBarrier
<1>3. pc' = [pc EXCEPT ![r] = "put"] /\ pc[r] = "host" /\ script' = script
  BY DEF SymBarrier
<1>4. [x \in Ranks |-> pc'[x] # "host"]
        = [[x \in Ranks |-> pc[x] # "host"] EXCEPT ![r] = TRUE]
  BY <1>3, Zenon DEF TypeOK
<1> QED
  BY <1>1, <1>2, <1>3, <1>4 DEF Abstract!Arrive

(* Returning is leaving: whom the poller has heard of has arrived.          *)
LEMMA ReturnLeaves ==
    ASSUME FullGroups, BarrierInv, NEW r \in Ranks, Return(r)
    PROVE  Abstract!Leave(r)
<1>1. /\ pc[r] = "poll" /\ todo[r] = {} /\ pc' = [pc EXCEPT ![r] = "host"]
      /\ script' = script /\ round' = round
  BY DEF Return
<1>2. \A s \in Ranks : round[r] <= round[s]
  <2>1. round[r] \in Nat
    BY MaxRoundsAssumption DEF BarrierInv, TypeOK
  <2> QED
    BY <1>1, <2>1 DEF BarrierInv, PolledHaveCalled
<1>3. Members[script[round[r]]] = Ranks
  BY <1>1 DEF BarrierInv, TypeOK, FullGroups
<1>4. [x \in Ranks |-> pc'[x] # "host"]
        = [[x \in Ranks |-> pc[x] # "host"] EXCEPT ![r] = FALSE]
  BY <1>1, Zenon DEF BarrierInv, TypeOK
<1> QED
  BY <1>1, <1>2, <1>3, <1>4 DEF Abstract!Leave

(* No other step shows.                                                     *)
LEMMA OthersStutter ==
    ASSUME TypeOK,
           \/ \E r \in Ranks : PutFlag(r) \/ PutDone(r) \/ Flush(r)
                               \/ FlushDone(r) \/ PollFlag(r)
           \/ \E r, p \in Ranks : PutData(r, p) \/ Land(r, p)
           \/ UNCHANGED vars
    PROVE  UNCHANGED Abstract!avars
<1>1. script' = script /\ round' = round
  BY DEF PutFlag, PutDone, Flush, FlushDone, PollFlag, PutData, Land, vars
<1>2. \A x \in Ranks : (pc'[x] # "host") = (pc[x] # "host")
  BY DEF PutFlag, PutDone, Flush, FlushDone, PollFlag, PutData, Land, vars,
         TypeOK
<1>3. [x \in Ranks |-> pc'[x] # "host"] = [x \in Ranks |-> pc[x] # "host"]
  BY <1>2, Zenon
<1> QED
  BY <1>1, <1>3 DEF Abstract!avars

(* Seen in the positions of the ranks, flags, channels and epochs are the   *)
(* abstract barrier: a rank leaves only when all have arrived.              *)
THEOREM BarrierRefines ==
    ASSUME FullGroups PROVE Spec => RefinesRankBarrier
<1>1. Init => Abstract!AInit
  <2> SUFFICES ASSUME Init PROVE Abstract!AInit
    OBVIOUS
  <2>1. [r \in Ranks |-> pc[r] # "host"] = [r \in Ranks |-> FALSE]
    BY Zenon DEF Init
  <2> QED
    BY <2>1 DEF Init, Abstract!AInit
<1>2. BarrierInv /\ TypeOK /\ [Next]_vars => [Abstract!ANext]_(Abstract!avars)
  <2> SUFFICES ASSUME BarrierInv, TypeOK, [Next]_vars
               PROVE  Abstract!ANext \/ UNCHANGED Abstract!avars
    OBVIOUS
  <2>1. CASE \E r \in Ranks : SymBarrier(r)
    BY <2>1, CallArrives DEF Abstract!ANext
  <2>2. CASE \E r \in Ranks : Return(r)
    BY <2>2, ReturnLeaves DEF Abstract!ANext
  <2> QED
    BY <2>1, <2>2, OthersStutter DEF Next, RankStep, Finished
<1> QED
  BY <1>1, <1>2, BarrierInvariant, PTL
  DEF Spec, RefinesRankBarrier, Abstract!ASpec

-----------------------------------------------------------------------------
(* The data.                                                                *)

(* What a channel holds after a put, and after the oldest put has landed.   *)
LEMMA AppendKeeps ==
    ASSUME NEW T, NEW q \in Seq(T), NEW x \in T
    PROVE  /\ Append(q, x) \in Seq(T)
           /\ Len(Append(q, x)) = Len(q) + 1
           /\ Append(q, x)[Len(q) + 1] = x
           /\ \A i \in 1..Len(q) : Append(q, x)[i] = q[i]
OBVIOUS

(* The rest of a channel is the channel moved up by one.                    *)
LEMMA TailShifts ==
    ASSUME NEW T, NEW q \in Seq(T), q # << >>
    PROVE  /\ Tail(q) \in Seq(T)
           /\ Len(q) \in Nat /\ Len(q) >= 1 /\ Len(Tail(q)) = Len(q) - 1
           /\ \A i \in 1..Len(q) - 1 : Tail(q)[i] = q[i + 1]
OBVIOUS

(* Data of a barrier that its sender has yet to call is behind all flags.   *)
LEMMA DataIsPut ==
    ASSUME FullGroups, BarrierInv, DataInv,
           NEW r \in Ranks, NEW p \in Ranks, PutData(r, p)
    PROVE  DataBeforeFlags' /\ NoDataToSelf' /\ PolledHaveLanded'
             /\ PassedHaveLanded'
<1> USE NumRanksAssumption, MaxRoundsAssumption, MembersAssumption
<1>1. PICK k \in 1..MaxRounds :
        /\ IsNextBarrier(r, round[r], k)
        /\ p \in Peers(r, script[k])
        /\ sent' = [sent EXCEPT ![r][p] = @ \cup {k}]
        /\ chan' = [chan EXCEPT ![r][p] = Append(@, Data(k))]
  BY DEF PutData
<1>2. k = round[r] + 1 /\ p # r
  BY <1>1, NextIsSuccessor DEF BarrierInv, Peers
<1>3. UNCHANGED <<script, round, epoch, pc, todo, flags, got>>
  BY DEF PutData
<1>4. \A s, q \in Ranks :
        /\ (s = r /\ q = p) => /\ sent'[s][q] = sent[s][q] \cup {k}
                               /\ chan'[s][q] = Append(chan[s][q], Data(k))
        /\ ~(s = r /\ q = p) => /\ sent'[s][q] = sent[s][q]
                                /\ chan'[s][q] = chan[s][q]
  <2> SUFFICES ASSUME NEW s \in Ranks, NEW q \in Ranks
               PROVE  /\ (s = r /\ q = p) =>
                            /\ sent'[s][q] = sent[s][q] \cup {k}
                            /\ chan'[s][q] = Append(chan[s][q], Data(k))
                      /\ ~(s = r /\ q = p) => /\ sent'[s][q] = sent[s][q]
                                              /\ chan'[s][q] = chan[s][q]
    OBVIOUS
  <2>1. /\ chan \in [Ranks -> [Ranks -> Seq(Message)]]
        /\ sent \in [Ranks -> [Ranks -> SUBSET (1..MaxRounds)]]
    BY DEF BarrierInv, TypeOK
  <2> DEFINE f == Append(chan[r][p], Data(k))
  <2>2. chan' = [chan EXCEPT ![r][p] = f]
    BY <1>1
  <2> HIDE DEF f
  <2>3. chan'[s][q] = IF s = r /\ q = p THEN f ELSE chan[s][q]
    BY <2>1, <2>2
  <2>4. sent'[s][q] = IF s = r /\ q = p THEN sent[r][p] \cup {k} ELSE sent[s][q]
    BY <1>1, <2>1
  <2> QED
    BY <2>3, <2>4 DEF f
<1>t. \A s \in Ranks : round[s] \in Nat /\ epoch[s] \in Nat /\ epoch[s] = round[s]
  BY DEF BarrierInv, TypeOK, EpochIsRound
<1>u. \A s, q \in Ranks : chan[s][q] \in Seq(Message)
  BY DEF BarrierInv, TypeOK
<1>5. NoDataToSelf'
  BY <1>2, <1>4 DEF DataInv, NoDataToSelf
<1>6. ASSUME NEW s \in Ranks, NEW q \in Ranks, NEW j \in sent'[s][q]
      PROVE  (Landed(s, q, j) \/ InFlight(s, q, j))'
  <2>1. CASE j = k /\ s = r /\ q = p
    <3>1. \A g \in Groups : flags'[g][q][s] < j
      <4>1. \A g \in Groups : flags[g][q][s] \in Nat /\ flags[g][q][s] <= epoch[s]
        BY DEF BarrierInv, TypeOK, FlagsHonest
      <4> QED
        BY <1>2, <1>3, <1>t, <2>1, <4>1
    <3> DEFINE n == Len(chan[s][q]) + 1
    <3>2. n \in 1..Len(chan'[s][q]) /\ chan'[s][q][n] = Data(j)
      BY <1>4, <1>u, <2>1
    <3>3. ASSUME NEW h \in 1..n, chan'[s][q][h].kind = "flag"
          PROVE  chan'[s][q][h].val < j
      <4>1. h \in 1..Len(chan[s][q])
        BY <1>4, <1>u, <2>1, <3>2, <3>3 DEF Data
      <4>2. chan'[s][q][h] = chan[s][q][h] /\ chan[s][q][h] \in Message
        <5>1. chan'[s][q] = Append(chan[s][q], Data(k))
          BY <1>4, <2>1
        <5>2. chan[s][q] \in Seq(Message) /\ Data(k) \in Message
          BY <1>u DEF Data, Message
        <5> QED
          BY <4>1, <5>1, <5>2, AppendKeeps
      <4>3. chan[s][q][h].val \in Nat /\ chan[s][q][h].val <= epoch[s]
        BY <3>3, <4>1, <4>2 DEF Message, BarrierInv, FlagsHonest
      <4> QED
        BY <1>2, <1>t, <2>1, <4>2, <4>3
    <3> QED
      BY <3>1, <3>2, <3>3 DEF InFlight
  <2>2. CASE ~(j = k /\ s = r /\ q = p)
    <3>1. j \in sent[s][q]
      BY <1>4, <2>2
    <3>2. CASE Landed(s, q, j)
      BY <1>3, <3>2 DEF Landed
    <3>3. CASE InFlight(s, q, j)
      <4>1. PICK i \in 1..Len(chan[s][q]) :
              /\ chan[s][q][i] = Data(j)
              /\ \A h \in 1..i : chan[s][q][h].kind = "flag"
                                    => chan[s][q][h].val < j
        BY <3>3 DEF InFlight
      <4>2. chan'[s][q] \in {chan[s][q], Append(chan[s][q], Data(k))}
        BY <1>4
      <4>3. /\ \A h \in 1..i : chan'[s][q][h] = chan[s][q][h]
            /\ i \in 1..Len(chan'[s][q])
        <5>1. chan[s][q] \in Seq(Message) /\ Data(k) \in Message
          BY <1>u DEF Data, Message
        <5>2. /\ Len(chan[s][q]) \in Nat
              /\ \A h \in 1..i : h \in 1..Len(chan[s][q])
          BY <5>1
        <5> QED
          BY <4>2, <5>1, <5>2, AppendKeeps
      <4>4. i \in 1..i
        OBVIOUS
      <4> QED
        BY <1>3, <3>3, <4>1, <4>2, <4>3, <4>4 DEF InFlight
    <3> QED
      BY <3>1, <3>2, <3>3 DEF DataInv, DataBeforeFlags
  <2> QED
    BY <2>1, <2>2
<1>7. PolledHaveLanded'
  <2> SUFFICES ASSUME NEW x \in Ranks, pc'[x] = "poll",
                      NEW s \in Ranks \ (todo'[x] \cup {x}),
                      NEW j \in sent'[s][x], j <= round'[x]
               PROVE  Landed(s, x, j)'
    BY DEF PolledHaveLanded
  <2>1. round[x] <= round[s]
    BY <1>3 DEF BarrierInv, PolledHaveCalled
  <2>2. j \in sent[s][x]
    <3>1. round[x] \in Nat /\ round[s] \in Nat /\ round'[x] = round[x]
      BY <1>3, <1>t
    <3>2. CASE s = r /\ x = p
      BY <1>2, <1>4, <2>1, <3>1, <3>2
    <3>3. CASE ~(s = r /\ x = p)
      BY <1>4, <3>3
    <3> QED
      BY <3>2, <3>3
  <2> QED
    BY <1>3, <2>2 DEF DataInv, PolledHaveLanded, Landed
<1>8. PassedHaveLanded'
  <2> SUFFICES ASSUME NEW x \in Ranks, NEW s \in Ranks,
                      NEW j \in sent'[s][x], j <= Passed(x)'
               PROVE  Landed(s, x, j)'
    BY DEF PassedHaveLanded
  <2>1. Passed(x)' = Passed(x) /\ Passed(x) \in Int /\ Passed(x) <= round[s]
    BY <1>3, <1>t DEF Passed, BarrierInv, PassedHaveCalled
  <2>2. j \in sent[s][x]
    <3>1. CASE s = r /\ x = p
      BY <1>2, <1>4, <1>t, <2>1, <3>1
    <3>2. CASE ~(s = r /\ x = p)
      BY <1>4, <3>2
    <3> QED
      BY <3>1, <3>2
  <2> QED
    BY <1>3, <2>1, <2>2 DEF DataInv, PassedHaveLanded, Landed
<1> QED
  BY <1>5, <1>6, <1>7, <1>8 DEF DataBeforeFlags

(* A flag goes behind all data that is under way.                           *)
LEMMA FlagIsPut ==
    ASSUME BarrierInv, DataInv, NEW r \in Ranks, PutFlag(r)
    PROVE  DataBeforeFlags'
<1>1. PICK p \in Ranks :
        chan' = [chan EXCEPT ![r][p] = Append(@, Flag(Group(r), epoch[r]))]
  BY DEF PutFlag, BarrierInv, TypeOK
<1>2. UNCHANGED <<sent, got, flags>>
  BY DEF PutFlag
<1> SUFFICES ASSUME NEW s \in Ranks, NEW q \in Ranks, NEW j \in sent[s][q]
             PROVE  (Landed(s, q, j) \/ InFlight(s, q, j))'
  BY <1>2 DEF DataBeforeFlags
<1>3. CASE Landed(s, q, j)
  BY <1>2, <1>3 DEF Landed
<1>4. CASE InFlight(s, q, j)
  <2>1. chan[s][q] \in Seq(Message)
    BY DEF BarrierInv, TypeOK
  <2>2. /\ Len(chan[s][q]) <= Len(chan'[s][q])
        /\ \A h \in 1..Len(chan[s][q]) : chan'[s][q][h] = chan[s][q][h]
    <3>1. chan'[s][q] \in {chan[s][q], Append(chan[s][q], Flag(Group(r), epoch[r]))}
      BY <1>1, ReadUpdated DEF BarrierInv, TypeOK
    <3> QED
      BY <2>1, <3>1
  <2>3. PICK i \in 1..Len(chan[s][q]) :
          /\ chan[s][q][i] = Data(j)
          /\ \A h \in 1..i : chan[s][q][h].kind = "flag" => chan[s][q][h].val < j
    BY <1>4 DEF InFlight
  <2>4. i \in 1..Len(chan'[s][q]) /\ \A h \in 1..i : h \in 1..Len(chan[s][q])
    BY <2>1, <2>2
  <2>5. chan'[s][q][i] = Data(j)
    BY <2>2, <2>3
  <2> QED
    BY <1>2, <1>4, <2>2, <2>3, <2>4, <2>5 DEF InFlight
<1> QED
  BY <1>3, <1>4 DEF DataInv, DataBeforeFlags

(* The oldest put lands: if it is a flag, no data it announces is behind it. *)
LEMMA PutLands ==
    ASSUME BarrierInv, DataInv, NEW t \in Ranks, NEW r \in Ranks, Land(t, r)
    PROVE  DataBeforeFlags' /\ PolledHaveLanded' /\ PassedHaveLanded'
<1> DEFINE m == Head(chan[t][r])
<1>1. /\ chan[t][r] \in Seq(Message) /\ chan[t][r] # << >>
      /\ chan' = [chan EXCEPT ![t][r] = Tail(@)]
      /\ UNCHANGED <<script, round, epoch, pc, todo, sent>>
  BY DEF Land, BarrierInv, TypeOK
<1>2. m = chan[t][r][1] /\ m \in Message
  BY <1>1
<1>3. \/ /\ m.kind = "flag" /\ got' = got
         /\ flags' = [flags EXCEPT ![m.group][r][t] = m.val]
      \/ /\ m.kind = "data" /\ flags' = flags
         /\ got' = [got EXCEPT ![r][t] = @ \cup {m.val}]
  BY DEF Land
<1> HIDE DEF m
<1>4. \A x, y \in Ranks : got[x][y] \subseteq got'[x][y]
  <2>1. got \in [Ranks -> [Ranks -> SUBSET (1..MaxRounds)]]
    BY DEF BarrierInv, TypeOK
  <2> QED
    BY <1>3, <2>1
<1>5. ASSUME NEW s \in Ranks, NEW q \in Ranks, NEW j \in sent[s][q]
      PROVE  (Landed(s, q, j) \/ InFlight(s, q, j))'
  <2>1. CASE Landed(s, q, j)
    BY <1>4, <2>1 DEF Landed
  <2>2. CASE InFlight(s, q, j) /\ ~(s = t /\ q = r)
    <3>1. chan'[s][q] = chan[s][q]
      BY <1>1, <2>2, ReadUpdated DEF BarrierInv, TypeOK
    <3>2. \A g \in Groups : flags'[g][q][s] = flags[g][q][s]
      <4>1. flags \in [Groups -> [Ranks -> [Ranks -> Nat]]]
        BY DEF BarrierInv, TypeOK
      <4> QED
        BY <1>3, <2>2, <4>1
    <3> QED
      BY <2>2, <3>1, <3>2 DEF InFlight
  <2>3. CASE InFlight(s, q, j) /\ s = t /\ q = r
    <3>1. PICK i \in 1..Len(chan[t][r]) :
            /\ chan[t][r][i] = Data(j)
            /\ \A h \in 1..i : chan[t][r][h].kind = "flag"
                                  => chan[t][r][h].val < j
      BY <2>3 DEF InFlight
    <3>2. CASE i = 1
      <4>1. m.kind = "data" /\ m.val = j
        BY <1>2, <3>1, <3>2 DEF Data
      <4>2. j \in got'[r][t]
        BY <1>3, <4>1 DEF BarrierInv, TypeOK
      <4> QED
        BY <2>3, <4>2 DEF Landed
    <3>3. CASE i # 1
      <4>1. /\ chan'[t][r] = Tail(chan[t][r])
            /\ Len(chan[t][r]) \in Nat
            /\ Len(chan'[t][r]) = Len(chan[t][r]) - 1
            /\ \A h \in 1..Len(chan[t][r]) - 1 : chan'[t][r][h] = chan[t][r][h + 1]
        <5>1. chan'[t][r] = Tail(chan[t][r])
          BY <1>1, ReadUpdated DEF BarrierInv, TypeOK
        <5> QED
          BY <1>1, <5>1, TailShifts
      <4>2. i - 1 \in 1..Len(chan[t][r]) - 1 /\ (i - 1) + 1 = i
        BY <3>1, <3>3, <4>1
      <4>3. i - 1 \in 1..Len(chan'[t][r]) /\ chan'[t][r][i - 1] = Data(j)
        BY <3>1, <4>1, <4>2
      <4>4. ASSUME NEW h \in 1..(i - 1), chan'[t][r][h].kind = "flag"
            PROVE  chan'[t][r][h].val < j
        <5>1. h \in 1..Len(chan[t][r]) - 1 /\ h + 1 \in 1..i
          BY <4>1, <4>2
        <5> QED
          BY <3>1, <4>1, <4>4, <5>1
      <4>5. ASSUME NEW g \in Groups PROVE flags'[g][r][t] < j
        <5>1. flags[g][r][t] < j
          BY <2>3 DEF InFlight
        <5>2. m.kind = "flag" => m.val < j
          BY <1>1, <1>2, <3>1
        <5>3. flags \in [Groups -> [Ranks -> [Ranks -> Nat]]]
          BY DEF BarrierInv, TypeOK
        <5>4. CASE flags' = [flags EXCEPT ![m.group][r][t] = m.val]
                     /\ m.kind = "flag"
          <6>1. flags'[g] = IF g = m.group THEN [flags[g] EXCEPT ![r][t] = m.val]
                                           ELSE flags[g]
            BY <5>3, <5>4
          <6>2. flags[g] \in [Ranks -> [Ranks -> Nat]]
            BY <5>3
          <6> QED
            BY <5>1, <5>2, <5>4, <6>1, <6>2, ReadUpdated
        <5> QED
          BY <1>3, <5>1, <5>4
      <4> QED
        BY <2>3, <4>3, <4>4, <4>5 DEF InFlight
    <3> QED
      BY <3>2, <3>3
  <2> QED
    BY <2>1, <2>2, <2>3 DEF DataInv, DataBeforeFlags
<1>6. PolledHaveLanded'
  BY <1>1, <1>4 DEF DataInv, PolledHaveLanded, Landed
<1>7. PassedHaveLanded'
  BY <1>1, <1>4 DEF DataInv, PassedHaveLanded, Landed, Passed
<1> QED
  BY <1>1, <1>5, <1>6, <1>7 DEF DataBeforeFlags

(* A flag that has arrived vouches for the data before it.                  *)
LEMMA FlagIsPolled ==
    ASSUME BarrierInv, DataInv, NEW r \in Ranks, PollFlag(r)
    PROVE  PolledHaveLanded'
<1>1. PICK p \in todo[r] :
        /\ FlagReady(flags[Group(r)][r][p], epoch[r])
        /\ todo' = [todo EXCEPT ![r] = @ \ {p}]
  BY DEF PollFlag
<1>2. UNCHANGED <<round, pc, sent, got>>
  BY DEF PollFlag
<1>3. p \in Ranks /\ Group(r) \in Groups
  BY DEF BarrierInv, TypeOK, Group, PollFlag
<1>4. ASSUME NEW j \in sent[p][r], j <= round[r] PROVE Landed(p, r, j)
  <2>1. SUFFICES ASSUME InFlight(p, r, j) PROVE FALSE
    BY <1>3 DEF DataInv, DataBeforeFlags
  <2>2. flags[Group(r)][r][p] < j /\ flags[Group(r)][r][p] \in Nat /\ j \in Nat
    BY <1>3, <2>1, MaxRoundsAssumption DEF InFlight, BarrierInv, TypeOK
  <2>3. epoch[r] \in Nat /\ epoch[r] = round[r]
    BY DEF BarrierInv, TypeOK, EpochIsRound
  <2> QED
    BY <1>1, <1>4, <2>2, <2>3 DEF FlagReady
<1> SUFFICES ASSUME NEW x \in Ranks, pc'[x] = "poll",
                    NEW s \in Ranks \ (todo'[x] \cup {x}),
                    NEW j \in sent'[s][x], j <= round'[x]
             PROVE  Landed(s, x, j)
  BY <1>2 DEF PolledHaveLanded, Landed
<1>5. CASE x = r /\ s = p
  BY <1>2, <1>4, <1>5
<1>6. CASE ~(x = r /\ s = p)
  <2>1. s \notin todo[x]
    BY <1>1, <1>6 DEF BarrierInv, TypeOK
  <2> QED
    BY <1>2, <2>1 DEF DataInv, PolledHaveLanded
<1> QED
  BY <1>5, <1>6

(* The invariant is inductive.                                              *)
LEMMA DataInvInductive ==
    ASSUME FullGroups, BarrierInv, BarrierInv', DataInv, [Next]_vars
    PROVE  DataInv'
<1> USE NumRanksAssumption, MaxRoundsAssumption, MembersAssumption
<1>a. ASSUME UNCHANGED <<flags, chan, sent, got>>
      PROVE  NoDataToSelf' /\ DataBeforeFlags'
  BY <1>a DEF DataInv, NoDataToSelf, DataBeforeFlags, Landed, InFlight
<1>1. ASSUME NEW r \in Ranks, NEW p \in Ranks, PutData(r, p) PROVE DataInv'
  BY <1>1, DataIsPut DEF DataInv
<1>2. ASSUME NEW r \in Ranks, PutFlag(r) PROVE DataInv'
  <2>1. /\ UNCHANGED <<round, pc, sent, got>> /\ pc[r] = "put"
        /\ \A x \in Ranks \ {r} : todo'[x] = todo[x]
    BY <1>2 DEF PutFlag, BarrierInv, TypeOK
  <2> QED
    BY <1>2, <2>1, FlagIsPut
    DEF DataInv, NoDataToSelf, PolledHaveLanded, PassedHaveLanded, Landed, Passed
<1>3. ASSUME NEW t \in Ranks, NEW r \in Ranks, Land(t, r) PROVE DataInv'
  BY <1>3, PutLands DEF DataInv, NoDataToSelf, Land
<1>4. ASSUME NEW r \in Ranks, PollFlag(r) PROVE DataInv'
  <2>1. UNCHANGED <<round, pc, flags, chan, sent, got>>
    BY <1>4 DEF PollFlag
  <2> QED
    BY <1>4, <1>a, <2>1, FlagIsPolled
    DEF DataInv, PassedHaveLanded, Landed, Passed
<1>5. ASSUME NEW r \in Ranks, SymBarrier(r) PROVE DataInv'
  <2>1. PICK k \in 1..MaxRounds : /\ IsNextBarrier(r, round[r], k)
                                  /\ round' = [round EXCEPT ![r] = k]
    BY <1>5 DEF SymBarrier
  <2>2. k = round[r] + 1
    BY <2>1, NextIsSuccessor DEF BarrierInv
  <2>3. /\ UNCHANGED <<flags, chan, sent, got>>
        /\ pc[r] = "host" /\ pc' = [pc EXCEPT ![r] = "put"]
        /\ \A x \in Ranks \ {r} : todo'[x] = todo[x] /\ round'[x] = round[x]
    BY <1>5, <2>1 DEF SymBarrier, BarrierInv, TypeOK
  <2>4. \A x \in Ranks : Passed(x)' = Passed(x)
    <3>1. /\ round \in [Ranks -> 0..MaxRounds]
          /\ pc \in [Ranks -> {"host", "put", "flush", "poll"}]
      BY DEF BarrierInv, TypeOK
    <3> QED
      BY <2>1, <2>2, <2>3, <3>1 DEF Passed
  <2>5. PolledHaveLanded'
    BY <2>3 DEF DataInv, PolledHaveLanded, Landed, BarrierInv, TypeOK
  <2> QED
    BY <1>a, <2>3, <2>4, <2>5 DEF DataInv, PassedHaveLanded, Landed
<1>6. ASSUME NEW r \in Ranks, PutDone(r) \/ Flush(r) \/ FlushDone(r)
      PROVE  DataInv'
  <2>1. /\ UNCHANGED <<script, round, flags, chan, sent, got>>
        /\ pc[r] # "host" /\ pc'[r] # "host"
        /\ \A x \in Ranks \ {r} : pc'[x] = pc[x] /\ todo'[x] = todo[x]
    BY <1>6 DEF PutDone, Flush, FlushDone, BarrierInv, TypeOK
  <2>2. pc'[r] = "poll" => todo'[r] = Ranks \ {r}
    <3>1. pc'[r] = "poll" => todo'[r] = Peers(r, Group(r))
      BY <1>6 DEF PutDone, Flush, FlushDone, BarrierInv, TypeOK
    <3> QED
      BY <1>6, <2>1, <3>1 DEF BarrierInv, TypeOK, Peers, Group, FullGroups
  <2>3. PolledHaveLanded'
    BY <2>1, <2>2 DEF DataInv, PolledHaveLanded, Landed
  <2>4. PassedHaveLanded'
    <3>1. \A x \in Ranks : Passed(x)' = Passed(x)
      BY <2>1 DEF Passed
    <3> QED
      BY <2>1, <3>1 DEF DataInv, PassedHaveLanded, Landed
  <2> QED
    BY <1>a, <2>1, <2>3, <2>4 DEF DataInv
<1>7. ASSUME NEW r \in Ranks, Return(r) PROVE DataInv'
  <2>1. /\ UNCHANGED <<round, flags, chan, sent, got, todo>>
        /\ pc[r] = "poll" /\ todo[r] = {} /\ pc' = [pc EXCEPT ![r] = "host"]
    BY <1>7 DEF Return
  <2>2. PolledHaveLanded'
    BY <2>1 DEF DataInv, PolledHaveLanded, Landed, BarrierInv, TypeOK
  <2>3. PassedHaveLanded'
    <3> SUFFICES ASSUME NEW x \in Ranks, NEW s \in Ranks,
                        NEW j \in sent[s][x], j <= Passed(x)'
                 PROVE  Landed(s, x, j)
      BY <2>1 DEF PassedHaveLanded, Landed
    <3>1. CASE x = r /\ s = r
      BY <3>1 DEF DataInv, NoDataToSelf
    <3>2. CASE x = r /\ s # r
      <4>1. j <= round[r]
        BY <2>1, <3>2 DEF Passed, BarrierInv, TypeOK
      <4> QED
        BY <2>1, <3>2, <4>1 DEF DataInv, PolledHaveLanded
    <3>3. CASE x # r
      <4>1. Passed(x)' = Passed(x)
        BY <2>1, <3>3 DEF Passed, BarrierInv, TypeOK
      <4> QED
        BY <4>1 DEF DataInv, PassedHaveLanded
    <3> QED
      BY <3>1, <3>2, <3>3
  <2> QED
    BY <1>a, <2>1, <2>2, <2>3 DEF DataInv
<1>8. ASSUME UNCHANGED vars PROVE DataInv'
  BY <1>8, <1>a DEF vars, DataInv, PolledHaveLanded, PassedHaveLanded, Landed,
                    Passed
<1> QED
  BY <1>1, <1>2, <1>3, <1>4, <1>5, <1>6, <1>7, <1>8
  DEF Next, RankStep, Finished

(* If every group is the whole world, then all the data that a rank has put *)
(* into another's window before a barrier has landed when that one returns  *)
(* from it: the flag it waited for has travelled behind the data.           *)
THEOREM DataLands ==
    ASSUME FullGroups PROVE Spec => []DataLandedOnReturn
<1>1. Init => DataInv
  BY DEF Init, DataInv, NoDataToSelf, DataBeforeFlags, PolledHaveLanded,
         PassedHaveLanded
<1>2. BarrierInv /\ BarrierInv' /\ DataInv /\ [Next]_vars => DataInv'
  BY DataInvInductive
<1>3. BarrierInv /\ DataInv => DataLandedOnReturn
  <2> SUFFICES ASSUME BarrierInv, DataInv, NEW r \in Ranks,
                      NEW k \in 1..MaxRounds, Returned(r, k), NEW s \in Ranks,
                      NEW j \in sent[s][r], j <= k
               PROVE  j \in got[r][s]
    BY MembersAssumption DEF DataLandedOnReturn, BarrierInv, TypeOK
  <2>1. round[r] \in Int /\ j \in Int
    BY MaxRoundsAssumption DEF BarrierInv, TypeOK
  <2>2. j <= Passed(r)
    BY <2>1 DEF Returned, Passed
  <2> QED
    BY <2>2 DEF DataInv, PassedHaveLanded, Landed
<1> QED
  BY <1>1, <1>2, <1>3, BarrierInvariant, PTL DEF Spec
=============================================================================
