------------------------ MODULE MoonepExchangeProofs -----------------------
(* Theorems about the demand exchange, for every number of ranks and every  *)
(* sequence of calls, closed with the barrier or without.                   *)
EXTENDS MoonepExchange, TLAPS, SequenceTheorems

(* Updating one entry of a table keeps its type.                            *)
LEMMA UpdateTable ==
    ASSUME NEW A, NEW B, NEW T, NEW f \in [A -> [B -> T]],
           NEW a \in A, NEW b \in B, NEW t \in T
    PROVE  [f EXCEPT ![a][b] = t] \in [A -> [B -> T]]
<1>1. [f[a] EXCEPT ![b] = t] \in [B -> T]
  OBVIOUS
<1> QED
  BY <1>1

(* Updating one entry of a table leaves the others alone.                   *)
LEMMA ReadUpdated ==
    ASSUME NEW A, NEW B, NEW T, NEW f \in [A -> [B -> T]],
           NEW a \in A, NEW b \in B, NEW t, NEW x \in A, NEW y \in B
    PROVE  [f EXCEPT ![a][b] = t][x][y]
               = IF x = a /\ y = b THEN t ELSE f[x][y]
OBVIOUS

Stages == {"host", "put", "flush", "poll", "read", "close", "barrier"}

(* Every variable keeps its type.                                           *)
THEOREM TypeCorrect == Spec => []TypeOK
<1>1. Init => TypeOK
  BY NumRanksAssumption, MaxRoundsAssumption, ClosingsAssumption
  DEF Init, TypeOK, NoRow
<1>2. TypeOK /\ [Next]_vars => TypeOK'
  <2> SUFFICES ASSUME TypeOK, [Next]_vars PROVE TypeOK'
    OBVIOUS
  <2> USE NumRanksAssumption, MaxRoundsAssumption
  <2>1. ASSUME NEW r \in Ranks, MoonepPlan(r) PROVE TypeOK'
    <3>1. Peers(r) \in SUBSET Ranks
      BY DEF Peers
    <3>2. round[r] + 1 \in 1..MaxRounds
      BY <2>1 DEF MoonepPlan, TypeOK
    <3>3. /\ pc' \in [Ranks -> Stages]
          /\ todo' \in [Ranks -> SUBSET Ranks]
      BY <2>1, <3>1 DEF MoonepPlan, TypeOK, Stages
    <3>4. /\ round' \in [Ranks -> 0..MaxRounds]
          /\ \A x \in Ranks : pc'[x] # "host" => round'[x] \in 1..MaxRounds
      BY <2>1, <3>2 DEF MoonepPlan, TypeOK
    <3> QED
      BY <2>1, <3>3, <3>4 DEF MoonepPlan, TypeOK, Stages
  <2>2. ASSUME NEW r \in Ranks, PutRowAndFlag(r) PROVE TypeOK'
    <3>a. PICK p \in todo[r] :
          chan' = [chan EXCEPT
                     ![r][p] = @ \o <<Row(round[r]), Ready(round[r])>>]
      BY <2>2 DEF PutRowAndFlag
    <3>0. p \in Ranks /\ round[r] \in 1..MaxRounds
      BY <2>2 DEF PutRowAndFlag, TypeOK
    <3>1. Row(round[r]) \in Message /\ Ready(round[r]) \in Message
      BY <3>0 DEF Row, Ready, Message
    <3>2. <<Row(round[r]), Ready(round[r])>> \in Seq(Message)
      BY <3>1
    <3>3. chan[r][p] \o <<Row(round[r]), Ready(round[r])>> \in Seq(Message)
      BY <3>0, <3>2, ConcatProperties DEF TypeOK
    <3>4. chan' \in [Ranks -> [Ranks -> Seq(Message)]]
      BY <3>a, <3>0, <3>3, UpdateTable DEF TypeOK
    <3>5. pc' \in [Ranks -> Stages]
      BY <2>2 DEF PutRowAndFlag, TypeOK, Stages
    <3>6. \A x \in Ranks : pc'[x] # "host" => round'[x] \in 1..MaxRounds
      BY <2>2, <3>0 DEF PutRowAndFlag, TypeOK
    <3> QED
      BY <2>2, <3>4, <3>5, <3>6 DEF PutRowAndFlag, TypeOK, Stages
  <2>3. ASSUME NEW r \in Ranks, Flush(r) \/ PollReady(r) PROVE TypeOK'
    <3>a. PICK p \in todo[r] : todo' = [todo EXCEPT ![r] = @ \ {p}]
      BY <2>3 DEF Flush, PollReady
    <3>1. todo[r] \ {p} \in SUBSET Ranks
      BY DEF TypeOK
    <3>2. todo' \in [Ranks -> SUBSET Ranks]
      BY <3>a, <3>1 DEF TypeOK
    <3>3. pc' \in [Ranks -> Stages]
      BY <2>3 DEF Flush, PollReady, TypeOK, Stages
    <3>4. \A x \in Ranks : pc'[x] # "host" => round'[x] \in 1..MaxRounds
      BY <2>3 DEF Flush, PollReady, TypeOK
    <3> QED
      BY <2>3, <3>2, <3>3, <3>4 DEF Flush, PollReady, TypeOK, Stages
  <2>4. ASSUME NEW r \in Ranks, CopyOwnRow(r) PROVE TypeOK'
    <3>1. Peers(r) \in SUBSET Ranks /\ round[r] \in 0..MaxRounds
      BY DEF Peers, TypeOK
    <3>2. dem' \in [Ranks -> [Ranks -> 0..MaxRounds]]
      BY <2>4, <3>1, UpdateTable DEF CopyOwnRow, TypeOK
    <3> QED
      BY <2>4, <3>1, <3>2 DEF CopyOwnRow, TypeOK
  <2>5. ASSUME NEW r \in Ranks, PollDone(r) PROVE TypeOK'
    BY <2>5 DEF PollDone, TypeOK
  <2>6. ASSUME NEW r \in Ranks, CopyRow(r) PROVE TypeOK'
    <3>a. PICK s \in todo[r] :
          /\ plan' = [plan EXCEPT ![r][round[r]][s] = dem[r][s]]
          /\ todo' = [todo EXCEPT ![r] = @ \ {s}]
      BY <2>6 DEF CopyRow
    <3>0. s \in Ranks /\ round[r] \in 1..MaxRounds
      BY <2>6 DEF CopyRow, TypeOK
    <3>1. plan[r] \in [1..MaxRounds -> [Ranks -> 0..MaxRounds]]
      BY DEF TypeOK
    <3>7. dem[r] \in [Ranks -> 0..MaxRounds]
      BY DEF TypeOK
    <3>2. [plan[r] EXCEPT ![round[r]][s] = dem[r][s]]
             \in [1..MaxRounds -> [Ranks -> 0..MaxRounds]]
      BY <3>0, <3>1, <3>7, UpdateTable
    <3>3. plan' = [plan EXCEPT
                     ![r] = [plan[r] EXCEPT ![round[r]][s] = dem[r][s]]]
      BY <3>a DEF TypeOK
    <3>4. plan' \in [Ranks -> [1..MaxRounds -> [Ranks -> 0..MaxRounds]]]
      BY <3>2, <3>3 DEF TypeOK
    <3>5. todo[r] \ {s} \in SUBSET Ranks
      BY DEF TypeOK
    <3>6. todo' \in [Ranks -> SUBSET Ranks]
      BY <3>a, <3>5 DEF TypeOK
    <3> QED
      BY <2>6, <3>4, <3>6 DEF CopyRow, TypeOK
  <2>7. ASSUME NEW r \in Ranks, PlanDone(r) \/ FinishAsync(r) PROVE TypeOK'
    <3>1. pc' \in [Ranks -> Stages]
      BY <2>7 DEF PlanDone, FinishAsync, TypeOK, Stages
    <3>2. \A x \in Ranks : pc'[x] # "host" => round'[x] \in 1..MaxRounds
      BY <2>7 DEF PlanDone, FinishAsync, TypeOK
    <3>3. UNCHANGED <<script, at, inside, round, todo, dem, ready, chan, plan>>
      BY <2>7 DEF PlanDone, FinishAsync
    <3> QED
      BY <3>1, <3>2, <3>3 DEF TypeOK, Stages
  <2>8. ASSUME NEW r \in Ranks, FinishSync(r) PROVE TypeOK'
    <3>a. PICK k \in 1..MaxRounds : at' = [at EXCEPT ![r] = k]
      BY <2>8 DEF FinishSync, Barrier!Arrive
    <3>1. at' \in [Ranks -> 0..MaxRounds] /\ inside' \in [Ranks -> BOOLEAN]
      BY <2>8, <3>a DEF FinishSync, Barrier!Arrive, TypeOK
    <3>2. pc' \in [Ranks -> Stages]
      BY <2>8 DEF FinishSync, TypeOK, Stages
    <3>3. \A x \in Ranks : pc'[x] # "host" => round'[x] \in 1..MaxRounds
      BY <2>8 DEF FinishSync, TypeOK
    <3> QED
      BY <2>8, <3>1, <3>2, <3>3 DEF FinishSync, Barrier!Arrive, TypeOK, Stages
  <2>9. ASSUME NEW r \in Ranks, LeaveBarrier(r) PROVE TypeOK'
    BY <2>9 DEF LeaveBarrier, Barrier!Leave, TypeOK
  <2>10. ASSUME NEW s \in Ranks, NEW r \in Ranks, Land(s, r) PROVE TypeOK'
    <3> DEFINE m == Head(chan[s][r])
    <3>0. chan[s][r] \in Seq(Message) /\ chan[s][r] # << >>
      BY <2>10 DEF Land, TypeOK
    <3>1. m \in Message /\ Tail(chan[s][r]) \in Seq(Message)
      BY <3>0
    <3>2. m.val \in 0..MaxRounds
      BY <3>1 DEF Message
    <3>3. chan' \in [Ranks -> [Ranks -> Seq(Message)]]
      BY <2>10, <3>1, UpdateTable DEF Land, TypeOK
    <3>4. /\ dem' = [dem EXCEPT ![r][s] = m.val] \/ dem' = dem
          /\ ready' = [ready EXCEPT ![r][s] = m.val] \/ ready' = ready
      BY <2>10 DEF Land
    <3> HIDE DEF m
    <3>5. dem' \in [Ranks -> [Ranks -> 0..MaxRounds]]
      <4>1. dem \in [Ranks -> [Ranks -> 0..MaxRounds]]
        BY DEF TypeOK
      <4>2. [dem EXCEPT ![r][s] = m.val] \in [Ranks -> [Ranks -> 0..MaxRounds]]
        BY <3>2, <4>1, UpdateTable
      <4> QED
        BY <3>4, <4>1, <4>2
    <3>6. ready' \in [Ranks -> [Ranks -> 0..MaxRounds]]
      <4>1. ready \in [Ranks -> [Ranks -> 0..MaxRounds]]
        BY DEF TypeOK
      <4>2. [ready EXCEPT ![r][s] = m.val] \in [Ranks -> [Ranks -> 0..MaxRounds]]
        BY <3>2, <4>1, UpdateTable
      <4> QED
        BY <3>4, <4>1, <4>2
    <3> QED
      BY <2>10, <3>3, <3>5, <3>6 DEF Land, TypeOK
  <2>11. ASSUME UNCHANGED vars PROVE TypeOK'
    BY <2>11 DEF vars, TypeOK
  <2> QED
    BY <2>1, <2>2, <2>3, <2>4, <2>5, <2>6, <2>7, <2>8, <2>9, <2>10, <2>11
    DEF Next, RankStep, Finished
<1> QED
  BY <1>1, <1>2, PTL DEF Spec

-----------------------------------------------------------------------------
(* The entries of the tables are numbers.                                   *)
LEMMA Entries ==
    ASSUME TypeOK
    PROVE  /\ \A x \in Ranks : round[x] \in Nat /\ at[x] \in Nat
           /\ \A x, y \in Ranks : dem[x][y] \in Nat /\ ready[x][y] \in Nat
           /\ \A x \in Ranks : todo[x] \subseteq Ranks
<1> USE MaxRoundsAssumption
<1>1. \A x \in Ranks : round[x] \in Nat /\ at[x] \in Nat
  BY DEF TypeOK
<1>2. ASSUME NEW x \in Ranks, NEW y \in Ranks
      PROVE  dem[x][y] \in Nat /\ ready[x][y] \in Nat
  <2>1. dem[x] \in [Ranks -> 0..MaxRounds] /\ ready[x] \in [Ranks -> 0..MaxRounds]
    BY DEF TypeOK
  <2> QED
    BY <2>1
<1>3. \A x \in Ranks : todo[x] \subseteq Ranks
  BY DEF TypeOK
<1> QED
  BY <1>1, <1>2, <1>3

(* A rank that begins a call has closed the one before.                     *)
LEMMA BeginKeepsInv ==
    ASSUME ExchangeInv, TypeOK', NEW r \in Ranks, MoonepPlan(r)
    PROVE  ExchangeInv'
<1>1. /\ pc[r] = "host" /\ pc'[r] = "put"
      /\ round'[r] = round[r] + 1
      /\ \A x \in Ranks \ {r} : /\ pc'[x] = pc[x] /\ round'[x] = round[x]
                               /\ todo'[x] = todo[x]
      /\ UNCHANGED <<script, at, inside, dem, ready, chan, plan>>
  BY DEF MoonepPlan, ExchangeInv, TypeOK
<1>2. /\ \A x \in Ranks : round[x] \in Nat /\ at[x] \in Nat
      /\ \A x, y \in Ranks : dem[x][y] \in Nat /\ ready[x][y] \in Nat
  BY Entries DEF ExchangeInv
<1>3. \A x \in Ranks : round'[x] \in Nat /\ round[x] <= round'[x]
  BY <1>1, <1>2
<1>4. ChannelsHoldOnePut'
  <2> SUFFICES ASSUME NEW s \in Ranks, NEW q \in Ranks, chan[s][q] # << >>
               PROVE  /\ pc'[s] = "flush" /\ IsFirst(q, todo'[s])
                      /\ \/ chan[s][q] = <<Row(round'[s]), Ready(round'[s])>>
                         \/ chan[s][q] = <<Ready(round'[s])>> /\ dem[q][s] = round'[s]
    BY <1>1 DEF ChannelsHoldOnePut, IsFirst, Row, Ready
  <2>1. pc[s] = "flush" /\ s # r
    BY <1>1 DEF ExchangeInv, ChannelsHoldOnePut
  <2>2. pc'[s] = pc[s] /\ round'[s] = round[s] /\ todo'[s] = todo[s]
    BY <1>1, <2>1
  <2> QED
    BY <2>1, <2>2 DEF ExchangeInv, ChannelsHoldOnePut
<1>5. FlagsFollowRows'
  BY <1>1, <1>2, <1>3 DEF ExchangeInv, FlagsFollowRows
<1>6. AwaitedRowsAreHere'
  BY <1>1 DEF ExchangeInv, AwaitedRowsAreHere
<1>7. EndedCallsHaveBegun'
  BY <1>1, <1>2, <1>3 DEF ExchangeInv, EndedCallsHaveBegun
<1>8. BarriersClose'
  BY <1>1, <1>2, <1>3 DEF ExchangeInv, BarriersClose
<1>9. PassedHaveReached'
  BY <1>1, <1>2, <1>3 DEF ExchangeInv, PassedHaveReached
<1>10. CopiesAreRight'
  BY <1>1, <1>2, <1>3 DEF ExchangeInv, CopiesAreRight, Copied
<1> QED
  BY <1>4, <1>5, <1>6, <1>7, <1>8, <1>9, <1>10 DEF ExchangeInv

(* The put for one peer finds all channels of its rank empty.               *)
LEMMA PutKeepsInv ==
    ASSUME ExchangeInv, TypeOK', NEW r \in Ranks, PutRowAndFlag(r)
    PROVE  ExchangeInv'
<1>1. PICK p \in todo[r] :
        /\ IsFirst(p, todo[r])
        /\ chan' = [chan EXCEPT
                      ![r][p] = @ \o <<Row(round[r]), Ready(round[r])>>]
  BY DEF PutRowAndFlag
<1>2. /\ pc[r] = "put" /\ pc'[r] = "flush"
      /\ \A x \in Ranks \ {r} : pc'[x] = pc[x]
      /\ UNCHANGED <<script, at, inside, round, todo, dem, ready, plan>>
  BY DEF PutRowAndFlag, ExchangeInv, TypeOK
<1>3. p \in Ranks
  BY Entries DEF ExchangeInv
<1>4. ChannelsHoldOnePut'
  <2> SUFFICES ASSUME NEW s \in Ranks, NEW q \in Ranks, chan'[s][q] # << >>
               PROVE  /\ pc'[s] = "flush" /\ IsFirst(q, todo[s])
                      /\ \/ chan'[s][q] = <<Row(round[s]), Ready(round[s])>>
                         \/ chan'[s][q] = <<Ready(round[s])>> /\ dem[q][s] = round[s]
    BY <1>2 DEF ChannelsHoldOnePut, IsFirst, Row, Ready
  <2>0. chan \in [Ranks -> [Ranks -> Seq(Message)]]
    BY DEF ExchangeInv, TypeOK
  <2>1. CASE s = r /\ q = p
    <3>1. chan[r][p] = << >>
      BY <1>2, <1>3 DEF ExchangeInv, ChannelsHoldOnePut
    <3>2. chan'[s][q] = << >> \o <<Row(round[s]), Ready(round[s])>>
      BY <1>1, <1>3, <2>0, <2>1, <3>1, ReadUpdated
    <3>3. chan'[s][q] = <<Row(round[s]), Ready(round[s])>>
      BY <3>2
    <3> QED
      BY <1>1, <1>2, <2>1, <3>3
  <2>2. CASE ~(s = r /\ q = p)
    <3>1. chan'[s][q] = chan[s][q]
      BY <1>1, <1>3, <2>0, <2>2, ReadUpdated
    <3>2. pc[s] = "flush" /\ s # r
      BY <1>2, <3>1 DEF ExchangeInv, ChannelsHoldOnePut
    <3> QED
      BY <1>2, <3>1, <3>2 DEF ExchangeInv, ChannelsHoldOnePut
  <2> QED
    BY <2>1, <2>2
<1>5. FlagsFollowRows' /\ AwaitedRowsAreHere' /\ EndedCallsHaveBegun'
  BY <1>2 DEF ExchangeInv, FlagsFollowRows, AwaitedRowsAreHere,
              EndedCallsHaveBegun
<1>6. BarriersClose' /\ PassedHaveReached'
  BY <1>2 DEF ExchangeInv, BarriersClose, PassedHaveReached
<1>7. CopiesAreRight'
  BY <1>2 DEF ExchangeInv, CopiesAreRight, Copied
<1> QED
  BY <1>4, <1>5, <1>6, <1>7 DEF ExchangeInv

(* The flush of a peer leaves all channels of its rank empty.               *)
LEMMA FlushKeepsInv ==
    ASSUME ExchangeInv, TypeOK', NEW r \in Ranks, Flush(r)
    PROVE  ExchangeInv'
<1>1. PICK p \in todo[r] : IsFirst(p, todo[r]) /\ chan[r][p] = << >>
  BY DEF Flush
<1>2. /\ pc[r] = "flush" /\ pc'[r] = "put"
      /\ \A x \in Ranks \ {r} : pc'[x] = pc[x] /\ todo'[x] = todo[x]
      /\ UNCHANGED <<script, at, inside, round, dem, ready, chan, plan>>
  BY DEF Flush, ExchangeInv, TypeOK
<1>3. p \in Ranks
  BY Entries DEF ExchangeInv
<1>4. ChannelsHoldOnePut'
  <2> SUFFICES ASSUME NEW s \in Ranks, NEW q \in Ranks, chan[s][q] # << >>
               PROVE  /\ pc'[s] = "flush" /\ IsFirst(q, todo'[s])
                      /\ \/ chan[s][q] = <<Row(round[s]), Ready(round[s])>>
                         \/ chan[s][q] = <<Ready(round[s])>> /\ dem[q][s] = round[s]
    BY <1>2 DEF ChannelsHoldOnePut, IsFirst, Row, Ready
  <2>1. s # r
    <3> SUFFICES ASSUME s = r PROVE FALSE
      OBVIOUS
    <3>1. IsFirst(q, todo[r])
      BY DEF ExchangeInv, ChannelsHoldOnePut
    <3>2. p <= q /\ q <= p
      BY <1>1, <3>1 DEF IsFirst
    <3>3. p = q
      BY <1>3, <3>2, NumRanksAssumption DEF Ranks
    <3> QED
      BY <1>1, <3>3
  <2> QED
    BY <1>2, <2>1 DEF ExchangeInv, ChannelsHoldOnePut
<1>5. FlagsFollowRows' /\ AwaitedRowsAreHere' /\ EndedCallsHaveBegun'
  BY <1>2 DEF ExchangeInv, FlagsFollowRows, AwaitedRowsAreHere,
              EndedCallsHaveBegun
<1>6. BarriersClose' /\ PassedHaveReached'
  BY <1>2 DEF ExchangeInv, BarriersClose, PassedHaveReached
<1>7. CopiesAreRight'
  BY <1>2 DEF ExchangeInv, CopiesAreRight, Copied
<1> QED
  BY <1>4, <1>5, <1>6, <1>7 DEF ExchangeInv

(* The copy of the own row stands in for a put to oneself.                  *)
LEMMA CopyOwnKeepsInv ==
    ASSUME ExchangeInv, TypeOK', NEW r \in Ranks, CopyOwnRow(r)
    PROVE  ExchangeInv'
<1>1. /\ pc[r] = "put" /\ pc'[r] = "poll" /\ todo'[r] = Peers(r)
      /\ \A x \in Ranks \ {r} : pc'[x] = pc[x] /\ todo'[x] = todo[x]
      /\ UNCHANGED <<script, at, inside, round, ready, chan, plan>>
      /\ dem' = [dem EXCEPT ![r][r] = round[r]]
  BY DEF CopyOwnRow, ExchangeInv, TypeOK
<1>2. \A x, y \in Ranks : dem'[x][y] = IF x = r /\ y = r THEN round[r]
                                                        ELSE dem[x][y]
  <2>1. dem \in [Ranks -> [Ranks -> 0..MaxRounds]]
    BY DEF ExchangeInv, TypeOK
  <2> QED
    BY <1>1, <2>1, ReadUpdated
<1>3. /\ \A x \in Ranks : round[x] \in Nat /\ at[x] \in Nat
      /\ \A x, y \in Ranks : dem[x][y] \in Nat /\ ready[x][y] \in Nat
  BY Entries DEF ExchangeInv
<1>4. ChannelsHoldOnePut'
  <2> SUFFICES ASSUME NEW s \in Ranks, NEW q \in Ranks, chan[s][q] # << >>
               PROVE  /\ pc'[s] = "flush" /\ IsFirst(q, todo'[s])
                      /\ \/ chan[s][q] = <<Row(round[s]), Ready(round[s])>>
                         \/ chan[s][q] = <<Ready(round[s])>> /\ dem'[q][s] = round[s]
    BY <1>1 DEF ChannelsHoldOnePut, IsFirst, Row, Ready
  <2>1. s # r
    BY <1>1 DEF ExchangeInv, ChannelsHoldOnePut
  <2> QED
    BY <1>1, <1>2, <2>1 DEF ExchangeInv, ChannelsHoldOnePut
<1>5. FlagsFollowRows'
  BY <1>1, <1>2, <1>3 DEF ExchangeInv, FlagsFollowRows
<1>6. AwaitedRowsAreHere'
  <2> SUFFICES ASSUME NEW x \in Ranks, NEW s \in Ranks,
                      pc'[x] = "read" \/ (pc'[x] = "poll" /\ s \notin todo'[x])
               PROVE  round[x] <= dem'[x][s]
    BY <1>1 DEF AwaitedRowsAreHere
  <2>1. CASE x = r
    BY <1>1, <1>2, <1>3, <2>1 DEF Peers
  <2>2. CASE x # r
    BY <1>1, <1>2, <2>2 DEF ExchangeInv, AwaitedRowsAreHere
  <2> QED
    BY <2>1, <2>2
<1>7. EndedCallsHaveBegun' /\ BarriersClose' /\ PassedHaveReached'
  BY <1>1 DEF ExchangeInv, EndedCallsHaveBegun, BarriersClose,
              PassedHaveReached
<1>8. CopiesAreRight'
  BY <1>1 DEF ExchangeInv, CopiesAreRight, Copied
<1> QED
  BY <1>4, <1>5, <1>6, <1>7, <1>8 DEF ExchangeInv

(* A flag that is accepted vouches for the row before it.                   *)
LEMMA PollKeepsInv ==
    ASSUME ExchangeInv, TypeOK', NEW r \in Ranks, PollReady(r)
    PROVE  ExchangeInv'
<1>1. PICK p \in todo[r] : /\ IsReady(ready[r][p], round[r])
                           /\ todo' = [todo EXCEPT ![r] = @ \ {p}]
  BY DEF PollReady
<1>2. /\ pc[r] = "poll"
      /\ todo'[r] = todo[r] \ {p}
      /\ \A x \in Ranks \ {r} : todo'[x] = todo[x]
      /\ UNCHANGED <<script, at, inside, round, pc, dem, ready, chan, plan>>
  BY <1>1 DEF PollReady, ExchangeInv, TypeOK
<1>3. /\ p \in Ranks
      /\ \A x \in Ranks : round[x] \in Nat
      /\ \A x, y \in Ranks : dem[x][y] \in Nat /\ ready[x][y] \in Nat
  BY Entries DEF ExchangeInv
<1>4. ChannelsHoldOnePut'
  <2> SUFFICES ASSUME NEW s \in Ranks, NEW q \in Ranks, chan[s][q] # << >>
               PROVE  /\ pc[s] = "flush" /\ IsFirst(q, todo'[s])
                      /\ \/ chan[s][q] = <<Row(round[s]), Ready(round[s])>>
                         \/ chan[s][q] = <<Ready(round[s])>> /\ dem[q][s] = round[s]
    BY <1>2 DEF ChannelsHoldOnePut, IsFirst, Row, Ready
  <2>1. s # r
    BY <1>2 DEF ExchangeInv, ChannelsHoldOnePut
  <2> QED
    BY <1>2, <2>1 DEF ExchangeInv, ChannelsHoldOnePut
<1>5. AwaitedRowsAreHere'
  <2> SUFFICES ASSUME NEW x \in Ranks, NEW s \in Ranks,
                      pc[x] = "read" \/ (pc[x] = "poll" /\ s \notin todo'[x])
               PROVE  round[x] <= dem[x][s]
    BY <1>2 DEF AwaitedRowsAreHere
  <2>1. CASE x = r /\ s = p
    <3>1. round[r] <= ready[r][p] /\ ready[r][p] <= dem[r][p]
      BY <1>1, <1>3 DEF IsReady, ExchangeInv, FlagsFollowRows
    <3> QED
      BY <1>3, <2>1, <3>1
  <2>2. CASE ~(x = r /\ s = p)
    BY <1>2, <2>2 DEF ExchangeInv, AwaitedRowsAreHere
  <2> QED
    BY <2>1, <2>2
<1>6. FlagsFollowRows' /\ EndedCallsHaveBegun' /\ BarriersClose'
  BY <1>2 DEF ExchangeInv, FlagsFollowRows, EndedCallsHaveBegun, BarriersClose
<1>7. PassedHaveReached' /\ CopiesAreRight'
  BY <1>2 DEF ExchangeInv, PassedHaveReached, CopiesAreRight, Copied
<1> QED
  BY <1>4, <1>5, <1>6, <1>7 DEF ExchangeInv

(* When all flags are there, all ranks have begun this call.                *)
LEMMA PollDoneKeepsInv ==
    ASSUME ExchangeInv, TypeOK', NEW r \in Ranks, PollDone(r)
    PROVE  ExchangeInv'
<1>1. /\ pc[r] = "poll" /\ pc'[r] = "read"
      /\ todo[r] = {} /\ todo'[r] = Ranks
      /\ \A x \in Ranks \ {r} : pc'[x] = pc[x] /\ todo'[x] = todo[x]
      /\ UNCHANGED <<script, at, inside, round, dem, ready, chan, plan>>
  BY DEF PollDone, ExchangeInv, TypeOK
<1>2. /\ \A x \in Ranks : round[x] \in Nat
      /\ \A x, y \in Ranks : dem[x][y] \in Nat
  BY Entries DEF ExchangeInv
<1>3. \A s \in Ranks : round[r] <= dem[r][s]
  BY <1>1 DEF ExchangeInv, AwaitedRowsAreHere
<1>4. ChannelsHoldOnePut'
  <2> SUFFICES ASSUME NEW s \in Ranks, NEW q \in Ranks, chan[s][q] # << >>
               PROVE  /\ pc'[s] = "flush" /\ IsFirst(q, todo'[s])
                      /\ \/ chan[s][q] = <<Row(round[s]), Ready(round[s])>>
                         \/ chan[s][q] = <<Ready(round[s])>> /\ dem[q][s] = round[s]
    BY <1>1 DEF ChannelsHoldOnePut, IsFirst, Row, Ready
  <2>1. s # r
    BY <1>1 DEF ExchangeInv, ChannelsHoldOnePut
  <2> QED
    BY <1>1, <2>1 DEF ExchangeInv, ChannelsHoldOnePut
<1>5. EndedCallsHaveBegun'
  <2>1. \A s \in Ranks : round[r] <= round[s]
    BY <1>2, <1>3 DEF ExchangeInv, FlagsFollowRows
  <2> QED
    BY <1>1, <2>1 DEF ExchangeInv, EndedCallsHaveBegun
<1>6. FlagsFollowRows' /\ AwaitedRowsAreHere'
  BY <1>1, <1>3 DEF ExchangeInv, FlagsFollowRows, AwaitedRowsAreHere
<1>7. BarriersClose' /\ PassedHaveReached'
  BY <1>1 DEF ExchangeInv, BarriersClose, PassedHaveReached
<1>8. CopiesAreRight'
  BY <1>1 DEF ExchangeInv, CopiesAreRight, Copied
<1> QED
  BY <1>4, <1>5, <1>6, <1>7, <1>8 DEF ExchangeInv

(* While r copies, nobody who must wait for it in the barrier has gone on   *)
(* to overwrite a row.                                                      *)
LEMMA CopyKeepsInv ==
    ASSUME ExchangeInv, TypeOK', NEW r \in Ranks, CopyRow(r)
    PROVE  ExchangeInv'
<1>1. PICK p \in todo[r] :
        /\ plan' = [plan EXCEPT ![r][round[r]][p] = dem[r][p]]
        /\ todo' = [todo EXCEPT ![r] = @ \ {p}]
  BY DEF CopyRow
<1>2. /\ pc[r] = "read"
      /\ todo'[r] = todo[r] \ {p}
      /\ \A x \in Ranks \ {r} : todo'[x] = todo[x]
      /\ UNCHANGED <<script, at, inside, round, pc, dem, ready, chan>>
  BY <1>1 DEF CopyRow, ExchangeInv, TypeOK
<1>3. /\ p \in Ranks /\ round[r] \in 1..MaxRounds
      /\ \A x \in Ranks : round[x] \in Nat /\ at[x] \in Nat
      /\ \A x, y \in Ranks : dem[x][y] \in Nat
  BY <1>2, Entries DEF ExchangeInv, TypeOK
<1>4. \A x, s \in Ranks : \A k \in 1..MaxRounds :
        plan'[x][k][s] = IF x = r /\ k = round[r] /\ s = p THEN dem[r][p]
                                                         ELSE plan[x][k][s]
  <2>1. plan \in [Ranks -> [1..MaxRounds -> [Ranks -> 0..MaxRounds]]]
    BY DEF ExchangeInv, TypeOK
  <2> QED
    BY <1>1, <1>3, <2>1
<1>5. script[round[r]] = "sync" => dem[r][p] = round[r]
  <2> SUFFICES ASSUME script[round[r]] = "sync" PROVE dem[r][p] = round[r]
    OBVIOUS
  <2>1. round[r] <= dem[r][p] /\ dem[r][p] <= round[p]
    BY <1>2, <1>3 DEF ExchangeInv, AwaitedRowsAreHere, FlagsFollowRows
  <2>2. at[r] < round[r]
    BY <1>2 DEF ExchangeInv, BarriersClose
  <2>3. ~(round[r] < round[p])
    BY <1>3, <2>2 DEF ExchangeInv, PassedHaveReached
  <2> QED
    BY <1>3, <2>1, <2>3
<1>6. ChannelsHoldOnePut'
  <2> SUFFICES ASSUME NEW s \in Ranks, NEW q \in Ranks, chan[s][q] # << >>
               PROVE  /\ pc[s] = "flush" /\ IsFirst(q, todo'[s])
                      /\ \/ chan[s][q] = <<Row(round[s]), Ready(round[s])>>
                         \/ chan[s][q] = <<Ready(round[s])>> /\ dem[q][s] = round[s]
    BY <1>2 DEF ChannelsHoldOnePut, IsFirst, Row, Ready
  <2>1. s # r
    BY <1>2 DEF ExchangeInv, ChannelsHoldOnePut
  <2> QED
    BY <1>2, <2>1 DEF ExchangeInv, ChannelsHoldOnePut
<1>7. FlagsFollowRows' /\ AwaitedRowsAreHere' /\ EndedCallsHaveBegun'
  BY <1>2 DEF ExchangeInv, FlagsFollowRows, AwaitedRowsAreHere,
              EndedCallsHaveBegun
<1>8. BarriersClose' /\ PassedHaveReached'
  BY <1>2 DEF ExchangeInv, BarriersClose, PassedHaveReached
<1>9. CopiesAreRight'
  <2> SUFFICES ASSUME NEW x \in Ranks, NEW s \in Ranks,
                      NEW k \in 1..MaxRounds, script[k] = "sync",
                      \/ Copied(x, k)
                      \/ k = round[x] /\ pc[x] = "read" /\ s \notin todo'[x]
               PROVE  plan'[x][k][s] = k
    BY <1>2 DEF CopiesAreRight, Copied
  <2>1. CASE x = r /\ k = round[r] /\ s = p
    BY <1>4, <1>5, <2>1
  <2>2. CASE ~(x = r /\ k = round[r] /\ s = p)
    <3>1. \/ Copied(x, k)
          \/ k = round[x] /\ pc[x] = "read" /\ s \notin todo[x]
      BY <1>2, <2>2
    <3>2. plan[x][k][s] = k
      BY <3>1 DEF ExchangeInv, CopiesAreRight
    <3> QED
      BY <1>4, <2>2, <3>2
  <2> QED
    BY <2>1, <2>2
<1> QED
  BY <1>6, <1>7, <1>8, <1>9 DEF ExchangeInv

(* Unaffected channels stay as they are when a rank leaves the stages after *)
(* the flush.                                                               *)
LEMMA ChannelsIgnoreLaterStages ==
    ASSUME ChannelsHoldOnePut, NEW r \in Ranks, pc[r] # "flush",
           \A x \in Ranks \ {r} : pc'[x] = pc[x],
           UNCHANGED <<round, todo, dem, chan>>
    PROVE  ChannelsHoldOnePut'
<1> SUFFICES ASSUME NEW s \in Ranks, NEW q \in Ranks, chan[s][q] # << >>
             PROVE  /\ pc'[s] = "flush" /\ IsFirst(q, todo[s])
                    /\ \/ chan[s][q] = <<Row(round[s]), Ready(round[s])>>
                       \/ chan[s][q] = <<Ready(round[s])>> /\ dem[q][s] = round[s]
  BY DEF ChannelsHoldOnePut, IsFirst, Row, Ready
<1>1. s # r
  BY DEF ChannelsHoldOnePut
<1> QED
  BY <1>1 DEF ChannelsHoldOnePut

(* A call that has copied every row has copied them right.                  *)
LEMMA DoneKeepsInv ==
    ASSUME ExchangeInv, TypeOK', NEW r \in Ranks, PlanDone(r)
    PROVE  ExchangeInv'
<1>1. /\ pc[r] = "read" /\ pc'[r] = "close" /\ todo[r] = {}
      /\ \A x \in Ranks \ {r} : pc'[x] = pc[x]
      /\ UNCHANGED <<script, at, inside, round, todo, dem, ready, chan, plan>>
  BY DEF PlanDone, ExchangeInv, TypeOK
<1>2. ChannelsHoldOnePut'
  BY <1>1, ChannelsIgnoreLaterStages DEF ExchangeInv
<1>3. FlagsFollowRows' /\ AwaitedRowsAreHere' /\ EndedCallsHaveBegun'
  BY <1>1 DEF ExchangeInv, FlagsFollowRows, AwaitedRowsAreHere,
              EndedCallsHaveBegun
<1>4. BarriersClose' /\ PassedHaveReached'
  BY <1>1 DEF ExchangeInv, BarriersClose, PassedHaveReached
<1>5. CopiesAreRight'
  BY <1>1 DEF ExchangeInv, CopiesAreRight, Copied
<1> QED
  BY <1>2, <1>3, <1>4, <1>5 DEF ExchangeInv

(* A step that ends without the barrier promises nothing.                   *)
LEMMA AsyncKeepsInv ==
    ASSUME ExchangeInv, TypeOK', NEW r \in Ranks, FinishAsync(r)
    PROVE  ExchangeInv'
<1>1. /\ pc[r] = "close" /\ pc'[r] = "host"
      /\ script[round[r]] # "sync"
      /\ \A x \in Ranks \ {r} : pc'[x] = pc[x]
      /\ UNCHANGED <<script, at, inside, round, todo, dem, ready, chan, plan>>
  BY DEF FinishAsync, ExchangeInv, TypeOK
<1>2. ChannelsHoldOnePut'
  BY <1>1, ChannelsIgnoreLaterStages DEF ExchangeInv
<1>3. FlagsFollowRows' /\ AwaitedRowsAreHere' /\ EndedCallsHaveBegun'
  BY <1>1 DEF ExchangeInv, FlagsFollowRows, AwaitedRowsAreHere,
              EndedCallsHaveBegun
<1>4. BarriersClose' /\ PassedHaveReached'
  BY <1>1 DEF ExchangeInv, BarriersClose, PassedHaveReached
<1>5. CopiesAreRight'
  BY <1>1 DEF ExchangeInv, CopiesAreRight, Copied
<1> QED
  BY <1>2, <1>3, <1>4, <1>5 DEF ExchangeInv

(* The barrier that a rank reaches is that of the call it closes.           *)
LEMMA BarrierOfThisCall ==
    ASSUME ExchangeInv, NEW r \in Ranks, FinishSync(r)
    PROVE  at' = [at EXCEPT ![r] = round[r]]
<1>1. PICK k \in 1..MaxRounds : /\ Barrier!IsNextBarrier(r, at[r], k)
                                /\ at' = [at EXCEPT ![r] = k]
  BY DEF FinishSync, Barrier!Arrive
<1>2. /\ pc[r] = "close" /\ script[round[r]] = "sync"
      /\ round[r] \in 1..MaxRounds
      /\ at[r] \in Nat /\ round[r] \in Nat /\ k \in Nat
  BY Entries, MaxRoundsAssumption DEF FinishSync, ExchangeInv, TypeOK
<1>3. at[r] < round[r]
  BY <1>2 DEF ExchangeInv, BarriersClose
<1>4. script[k] \in {"sync", "async"}
  BY ClosingsAssumption DEF ExchangeInv, TypeOK
<1>5. at[r] < k /\ script[k] = "sync"
  BY <1>1, <1>4 DEF Barrier!IsNextBarrier
<1>6. ~(k < round[r])
  BY <1>2, <1>5 DEF ExchangeInv, BarriersClose
<1>7. ~(round[r] < k)
  <2> SUFFICES ASSUME round[r] < k PROVE FALSE
    OBVIOUS
  <2>1. round[r] \in at[r] + 1 .. k - 1
    BY <1>2, <1>3
  <2> QED
    BY <1>1, <1>2, <2>1 DEF Barrier!IsNextBarrier
<1>8. k = round[r]
  BY <1>2, <1>6, <1>7
<1> QED
  BY <1>1, <1>8

(* Reaching the barrier is all that others wait for.                        *)
LEMMA SyncKeepsInv ==
    ASSUME ExchangeInv, TypeOK', NEW r \in Ranks, FinishSync(r)
    PROVE  ExchangeInv'
<1>1. /\ pc[r] = "close" /\ pc'[r] = "barrier"
      /\ \A x \in Ranks \ {r} : pc'[x] = pc[x]
      /\ UNCHANGED <<script, round, todo, dem, ready, chan, plan>>
  BY DEF FinishSync, Barrier!Arrive, ExchangeInv, TypeOK
<1>2. at'[r] = round[r] /\ \A x \in Ranks \ {r} : at'[x] = at[x]
  <2>1. at' = [at EXCEPT ![r] = round[r]]
    BY BarrierOfThisCall
  <2>2. at \in [Ranks -> 0..MaxRounds]
    BY DEF ExchangeInv, TypeOK
  <2> QED
    BY <2>1, <2>2
<1>3. \A x \in Ranks : round[x] \in Nat /\ at[x] \in Nat
  BY Entries DEF ExchangeInv
<1>4. at[r] < round[r]
  BY <1>1 DEF ExchangeInv, BarriersClose
<1>5. ChannelsHoldOnePut'
  BY <1>1, ChannelsIgnoreLaterStages DEF ExchangeInv
<1>6. FlagsFollowRows' /\ AwaitedRowsAreHere' /\ EndedCallsHaveBegun'
  BY <1>1 DEF ExchangeInv, FlagsFollowRows, AwaitedRowsAreHere,
              EndedCallsHaveBegun
<1>7. BarriersClose'
  BY <1>1, <1>2, <1>3 DEF ExchangeInv, BarriersClose
<1>8. PassedHaveReached'
  BY <1>1, <1>2, <1>3, <1>4 DEF ExchangeInv, PassedHaveReached
<1>9. CopiesAreRight'
  BY <1>1 DEF ExchangeInv, CopiesAreRight, Copied
<1> QED
  BY <1>5, <1>6, <1>7, <1>8, <1>9 DEF ExchangeInv

(* A rank leaves the barrier of its call when all have reached it.          *)
LEMMA LeaveKeepsInv ==
    ASSUME ExchangeInv, TypeOK', NEW r \in Ranks, LeaveBarrier(r)
    PROVE  ExchangeInv'
<1>1. /\ pc[r] = "barrier" /\ pc'[r] = "host"
      /\ \A x \in Ranks \ {r} : pc'[x] = pc[x]
      /\ UNCHANGED <<script, at, round, todo, dem, ready, chan, plan>>
  BY DEF LeaveBarrier, Barrier!Leave, ExchangeInv, TypeOK
<1>2. at[r] = round[r]
  BY <1>1 DEF ExchangeInv, BarriersClose
<1>3. script[round[r]] = "sync" => \A s \in Ranks : round[r] <= at[s]
  BY <1>2 DEF LeaveBarrier, Barrier!Leave
<1>4. ChannelsHoldOnePut'
  BY <1>1, ChannelsIgnoreLaterStages DEF ExchangeInv
<1>5. FlagsFollowRows' /\ AwaitedRowsAreHere' /\ EndedCallsHaveBegun'
  BY <1>1 DEF ExchangeInv, FlagsFollowRows, AwaitedRowsAreHere,
              EndedCallsHaveBegun
<1>6. BarriersClose'
  BY <1>1 DEF ExchangeInv, BarriersClose
<1>7. PassedHaveReached'
  BY <1>1, <1>3 DEF ExchangeInv, PassedHaveReached
<1>8. CopiesAreRight'
  BY <1>1 DEF ExchangeInv, CopiesAreRight, Copied
<1> QED
  BY <1>4, <1>5, <1>6, <1>7, <1>8 DEF ExchangeInv


(* A put lands: the row before its flag, and never behind an older row.     *)
LEMMA LandKeepsInv ==
    ASSUME ExchangeInv, TypeOK', NEW s \in Ranks, NEW r \in Ranks, Land(s, r)
    PROVE  ExchangeInv'
<1> DEFINE n == round[s]
<1>1. /\ chan[s][r] # << >>
      /\ chan' = [chan EXCEPT ![s][r] = Tail(@)]
      /\ UNCHANGED <<script, at, inside, round, pc, todo, plan>>
  BY DEF Land
<1>2. /\ chan \in [Ranks -> [Ranks -> Seq(Message)]]
      /\ dem \in [Ranks -> [Ranks -> 0..MaxRounds]]
      /\ ready \in [Ranks -> [Ranks -> 0..MaxRounds]]
  BY DEF ExchangeInv, TypeOK
<1>3. /\ \A x \in Ranks : round[x] \in Nat
      /\ \A x, y \in Ranks : dem[x][y] \in Nat /\ ready[x][y] \in Nat
  BY Entries DEF ExchangeInv
<1>4. pc[s] = "flush" /\ IsFirst(r, todo[s])
  BY <1>1 DEF ExchangeInv, ChannelsHoldOnePut
<1>5. \A x, y \in Ranks : ~(x = s /\ y = r) => chan'[x][y] = chan[x][y]
  BY <1>1, <1>2, ReadUpdated
<1>6. chan'[s][r] = Tail(chan[s][r])
  BY <1>1, <1>2, ReadUpdated
<1>7. \/ /\ chan'[s][r] = <<Ready(n)>>
         /\ UNCHANGED ready
         /\ \A x, y \in Ranks : dem'[x][y] = IF x = r /\ y = s THEN n
                                                              ELSE dem[x][y]
      \/ /\ chan'[s][r] = << >>
         /\ dem[r][s] = n
         /\ UNCHANGED dem
         /\ \A x, y \in Ranks : ready'[x][y] = IF x = r /\ y = s THEN n
                                                                ELSE ready[x][y]
  <2>1. \/ chan[s][r] = <<Row(n), Ready(n)>>
        \/ chan[s][r] = <<Ready(n)>> /\ dem[r][s] = n
    BY <1>1 DEF ExchangeInv, ChannelsHoldOnePut
  <2>2. CASE chan[s][r] = <<Row(n), Ready(n)>>
    <3>1. Head(chan[s][r]) = Row(n) /\ Tail(chan[s][r]) = <<Ready(n)>>
      BY <2>2
    <3>2. dem' = [dem EXCEPT ![r][s] = n] /\ UNCHANGED ready
      BY <3>1 DEF Land, Row
    <3>3. \A x, y \in Ranks : dem'[x][y] = IF x = r /\ y = s THEN n
                                                             ELSE dem[x][y]
      BY <1>2, <3>2, ReadUpdated
    <3> QED
      BY <1>6, <3>1, <3>2, <3>3
  <2>3. CASE chan[s][r] = <<Ready(n)>> /\ dem[r][s] = n
    <3>1. Head(chan[s][r]) = Ready(n) /\ Tail(chan[s][r]) = << >>
      BY <2>3
    <3>2. ready' = [ready EXCEPT ![r][s] = n] /\ UNCHANGED dem
      BY <3>1 DEF Land, Ready
    <3>3. \A x, y \in Ranks : ready'[x][y] = IF x = r /\ y = s THEN n
                                                               ELSE ready[x][y]
      BY <1>2, <3>2, ReadUpdated
    <3> QED
      BY <1>6, <2>3, <3>1, <3>2, <3>3
  <2> QED
    BY <2>1, <2>2, <2>3
<1> HIDE DEF n
<1>8. n = round[s] /\ n \in Nat
  BY <1>3 DEF n
<1>9. ChannelsHoldOnePut'
  <2> SUFFICES ASSUME NEW x \in Ranks, NEW q \in Ranks, chan'[x][q] # << >>
               PROVE  /\ pc[x] = "flush" /\ IsFirst(q, todo[x])
                      /\ \/ chan'[x][q] = <<Row(round[x]), Ready(round[x])>>
                         \/ chan'[x][q] = <<Ready(round[x])>> /\ dem'[q][x] = round[x]
    BY <1>1 DEF ChannelsHoldOnePut, IsFirst, Row, Ready
  <2>1. CASE x = s /\ q = r
    BY <1>4, <1>7, <1>8, <2>1
  <2>2. CASE ~(x = s /\ q = r)
    <3>1. chan'[x][q] = chan[x][q] /\ dem'[q][x] = dem[q][x]
      BY <1>5, <1>7, <2>2
    <3> QED
      BY <3>1 DEF ExchangeInv, ChannelsHoldOnePut
  <2> QED
    BY <2>1, <2>2
<1>10. \A x, y \in Ranks : dem[x][y] <= round[y] /\ ready[x][y] <= dem[x][y]
  BY DEF ExchangeInv, FlagsFollowRows
<1>11. \A x, y \in Ranks : dem[x][y] <= dem'[x][y] /\ dem'[x][y] \in Nat
  BY <1>3, <1>7, <1>8, <1>10
<1>12. FlagsFollowRows'
  <2>1. ASSUME NEW x \in Ranks, NEW y \in Ranks
        PROVE  ready'[x][y] <= dem'[x][y] /\ dem'[x][y] <= round[y]
    <3>1. /\ round[y] \in Nat /\ dem[x][y] \in Nat /\ ready[x][y] \in Nat
          /\ dem[x][y] <= round[y] /\ ready[x][y] <= dem[x][y]
      BY <1>3, <1>10
    <3>2. CASE x = r /\ y = s
      <4>1. \/ dem'[x][y] = n /\ ready'[x][y] = ready[x][y]
            \/ dem'[x][y] = n /\ ready'[x][y] = n
        BY <1>7, <3>2
      <4> QED
        BY <1>8, <3>1, <3>2, <4>1
    <3>3. CASE ~(x = r /\ y = s)
      <4>1. dem'[x][y] = dem[x][y] /\ ready'[x][y] = ready[x][y]
        BY <1>7, <3>3
      <4> QED
        BY <3>1, <4>1
    <3> QED
      BY <3>2, <3>3
  <2> QED
    BY <1>1, <2>1 DEF FlagsFollowRows
<1>13. AwaitedRowsAreHere'
  <2>1. ASSUME NEW x \in Ranks, NEW y \in Ranks, round[x] <= dem[x][y]
        PROVE  round[x] <= dem'[x][y]
    BY <1>3, <1>11, <2>1
  <2> QED
    BY <1>1, <2>1 DEF ExchangeInv, AwaitedRowsAreHere
<1>14. EndedCallsHaveBegun' /\ BarriersClose'
  BY <1>1 DEF ExchangeInv, EndedCallsHaveBegun, BarriersClose
<1>15. PassedHaveReached' /\ CopiesAreRight'
  BY <1>1 DEF ExchangeInv, PassedHaveReached, CopiesAreRight, Copied
<1> QED
  BY <1>9, <1>12, <1>13, <1>14, <1>15 DEF ExchangeInv

(* The invariant holds in every state of every execution.                   *)
THEOREM ExchangeInvariant == Spec => []ExchangeInv
<1>1. Init => ExchangeInv
  <2> SUFFICES ASSUME Init PROVE ExchangeInv
    OBVIOUS
  <2>1. TypeOK
    BY NumRanksAssumption, MaxRoundsAssumption, ClosingsAssumption
    DEF Init, TypeOK, NoRow
  <2>2. /\ \A x \in Ranks : round[x] = 0 /\ at[x] = 0 /\ pc[x] = "host"
        /\ \A x, y \in Ranks : /\ dem[x][y] = 0 /\ ready[x][y] = 0
                               /\ chan[x][y] = << >>
    BY DEF Init, NoRow
  <2>3. ChannelsHoldOnePut /\ FlagsFollowRows /\ AwaitedRowsAreHere
    BY <2>2 DEF ChannelsHoldOnePut, FlagsFollowRows, AwaitedRowsAreHere
  <2>4. EndedCallsHaveBegun
    BY <2>2 DEF EndedCallsHaveBegun
  <2>5. \A x \in Ranks : \A k \in 1..MaxRounds :
          ~(k < round[x]) /\ k # round[x]
    BY <2>2, MaxRoundsAssumption
  <2>6. BarriersClose /\ PassedHaveReached /\ CopiesAreRight
    BY <2>2, <2>5 DEF BarriersClose, PassedHaveReached, CopiesAreRight, Copied
  <2> QED
    BY <2>1, <2>3, <2>4, <2>6 DEF ExchangeInv
<1>2. ExchangeInv /\ TypeOK' /\ [Next]_vars => ExchangeInv'
  <2> SUFFICES ASSUME ExchangeInv, TypeOK', [Next]_vars PROVE ExchangeInv'
    OBVIOUS
  <2>1. ASSUME NEW r \in Ranks, RankStep(r) PROVE ExchangeInv'
    BY <2>1, BeginKeepsInv, PutKeepsInv, FlushKeepsInv, CopyOwnKeepsInv,
       PollKeepsInv, PollDoneKeepsInv, CopyKeepsInv, DoneKeepsInv,
       AsyncKeepsInv, SyncKeepsInv, LeaveKeepsInv DEF RankStep
  <2>2. ASSUME NEW s \in Ranks, NEW r \in Ranks, Land(s, r)
        PROVE  ExchangeInv'
    BY <2>2, LandKeepsInv
  <2>3. ASSUME UNCHANGED vars PROVE ExchangeInv'
    <3>1. UNCHANGED <<script, at, round, pc, todo, dem, ready, chan, plan>>
      BY <2>3 DEF vars
    <3>2. ChannelsHoldOnePut' /\ FlagsFollowRows' /\ AwaitedRowsAreHere'
      BY <3>1 DEF ExchangeInv, ChannelsHoldOnePut, IsFirst, FlagsFollowRows,
                  AwaitedRowsAreHere, Row, Ready
    <3>3. EndedCallsHaveBegun' /\ BarriersClose'
      BY <3>1 DEF ExchangeInv, EndedCallsHaveBegun, BarriersClose
    <3>4. PassedHaveReached' /\ CopiesAreRight'
      BY <3>1 DEF ExchangeInv, PassedHaveReached, CopiesAreRight, Copied
    <3> QED
      BY <3>2, <3>3, <3>4 DEF ExchangeInv
  <2> QED
    BY <2>1, <2>2, <2>3 DEF Next, Finished
<1> QED
  BY <1>1, <1>2, TypeCorrect, PTL DEF Spec

(* All ranks plan a call that the barrier closes from the rows that were     *)
(* written for it, whatever the other calls end with: _exchange needs no     *)
(* more than one row and one flag per peer.                                  *)
THEOREM PlansAgree == Spec => []ClosedCallsAgree
<1>1. ExchangeInv => ClosedCallsAgree
  BY DEF ExchangeInv, CopiesAreRight, ClosedCallsAgree
<1> QED
  BY <1>1, ExchangeInvariant, PTL

(* No rank gets two calls ahead of one that is still in its kernel, with or  *)
(* without barriers: the polling of _exchange alone sees to it.              *)
THEOREM LeadBounded == Spec => []LeadAtMostOne
<1>1. ExchangeInv => LeadAtMostOne
  BY DEF ExchangeInv, EndedCallsHaveBegun, LeadAtMostOne
<1> QED
  BY <1>1, ExchangeInvariant, PTL
=============================================================================
