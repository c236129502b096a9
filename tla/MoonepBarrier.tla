--------------------------- MODULE MoonepBarrier ---------------------------
(***************************************************************************)
(* sym_barrier of samples/mc2/moonep/moonep_context.py: the barrier between *)
(* the ranks of an expert-parallel group, built from one-sided puts into   *)
(* the symmetric heap instead of an HCCL collective.                       *)
(*                                                                         *)
(* Each call takes the next value of the process-global counter _BAR_EPOCH *)
(* and launches a one-block kernel that puts that value into its own slot  *)
(* of every peer's flag array, flushes, and polls its own flag array until *)
(* every peer's slot is >= the value.  A process owns one counter and one  *)
(* flag array per context, and may hold several contexts.                  *)
(*                                                                         *)
(* The transport (SymBuffer, put, flush) is external: a put to a peer      *)
(* joins an ordered channel and lands later, in order ("flag and data keep *)
(* the order of one channel"); flush waits until the channel is drained.   *)
(***************************************************************************)
EXTENDS Naturals, Sequences

CONSTANTS NumRanks,     \* ranks of the world, 0 .. NumRanks-1
          Groups,       \* communication groups; a context belongs to one
          Members,      \* Members[g]: the ranks of group g
          MaxRounds,    \* bound: barriers in the program of every rank
          Traffic       \* bound: pairs <<s, r>> where s puts data to r

Ranks == 0 .. NumRanks - 1

ASSUME NumRanksAssumption == NumRanks \in Nat \ {0}
ASSUME MaxRoundsAssumption == MaxRounds \in Nat
ASSUME MembersAssumption == Members \in [Groups -> SUBSET Ranks]

VARIABLES
    script,  \* the program all ranks run: the group of its k-th barrier
    round,   \* round[r]: position in script of the last barrier r started
    epoch,   \* epoch[r]: _BAR_EPOCH of process r
    pc,      \* pc[r]: where process r is: host, put, flush or poll
    todo,    \* todo[r]: peers still to be served by the kernel's current loop
    flags,   \* flags[g][r][s]: slot s of r's flag array in the context of g
    chan,    \* chan[s][r]: puts from s to r that have not landed
    sent,    \* sent[s][r]: rounds for which s put data into r's window
    got      \* got[r][s]: those whose data has landed

vars == <<script, round, epoch, pc, todo, flags, chan, sent, got>>

Flag(g, e) == [kind |-> "flag", group |-> g, val |-> e]
Data(k)    == [kind |-> "data", val |-> k]

Group(r) == script[round[r]]                \* of the barrier r is or was in
Peers(r, g) == Members[g] \ {r}

\* The loops of the kernel visit the peers in rank order.
IsFirst(p, S) == p \in S /\ \A q \in S : p <= q

IsNextBarrier(r, from, k) ==
    /\ from < k
    /\ r \in Members[script[k]]
    /\ \A j \in from + 1 .. k - 1 : r \notin Members[script[j]]

Init ==
    /\ script \in [1..MaxRounds -> Groups]
    /\ round = [r \in Ranks |-> 0]
    /\ epoch = [r \in Ranks |-> 0]
    /\ pc = [r \in Ranks |-> "host"]
    /\ todo = [r \in Ranks |-> {}]
    /\ flags = [g \in Groups |-> [r \in Ranks |-> [s \in Ranks |-> 0]]]
    /\ chan = [s \in Ranks |-> [r \in Ranks |-> << >>]]
    /\ sent = [s \in Ranks |-> [r \in Ranks |-> {}]]
    /\ got = [r \in Ranks |-> [s \in Ranks |-> {}]]

-----------------------------------------------------------------------------
\* An operator kernel launched before the barrier of round k puts a block of
\* data into the window of a peer of that barrier's group.
PutData(r, p) ==
    /\ <<r, p>> \in Traffic
    /\ pc[r] = "host"
    /\ \E k \in 1..MaxRounds :
          /\ IsNextBarrier(r, round[r], k)
          /\ p \in Peers(r, script[k])
          /\ k \notin sent[r][p]
          /\ sent' = [sent EXCEPT ![r][p] = @ \cup {k}]
          /\ chan' = [chan EXCEPT ![r][p] = Append(@, Data(k))]
    /\ UNCHANGED <<script, round, epoch, pc, todo, flags, got>>

\* sym_barrier: advance the counter, fill the epoch tensor, launch the kernel.
SymBarrier(r) ==
    /\ pc[r] = "host"
    /\ \E k \in 1..MaxRounds :
          /\ IsNextBarrier(r, round[r], k)
          /\ round' = [round EXCEPT ![r] = k]
          /\ todo' = [todo EXCEPT ![r] = Peers(r, script[k])]
    /\ epoch' = [epoch EXCEPT ![r] = @ + 1]
    /\ pc' = [pc EXCEPT ![r] = "put"]
    /\ UNCHANGED <<script, flags, chan, sent, got>>

\* Mutant: the flag travels apart from the data and overtakes it.
PutFlagOvertaking(r) ==
    /\ pc[r] = "put"
    /\ \E p \in todo[r] :
          /\ IsFirst(p, todo[r])
          /\ chan' = [chan EXCEPT ![r][p] = <<Flag(Group(r), epoch[r])>> \o @]
          /\ todo' = [todo EXCEPT ![r] = @ \ {p}]
    /\ UNCHANGED <<script, round, epoch, pc, flags, sent, got>>

\* xfer.put(r, flags[me].peer(r), gm_epoch)
PutFlag(r) ==
    /\ pc[r] = "put"
    /\ \E p \in todo[r] :
          /\ IsFirst(p, todo[r])
          /\ chan' = [chan EXCEPT ![r][p] = Append(@, Flag(Group(r), epoch[r]))]
          /\ todo' = [todo EXCEPT ![r] = @ \ {p}]
    /\ UNCHANGED <<script, round, epoch, pc, flags, sent, got>>

\* Mutant: the flush loop counts the ranks from 1.
PutDoneShifted(r) ==
    /\ pc[r] = "put"
    /\ todo[r] = {}
    /\ pc' = [pc EXCEPT ![r] = "flush"]
    /\ todo' = [todo EXCEPT ![r] = 1..NumRanks]
    /\ UNCHANGED <<script, round, epoch, flags, chan, sent, got>>

PutDone(r) ==
    /\ pc[r] = "put"
    /\ todo[r] = {}
    /\ pc' = [pc EXCEPT ![r] = "flush"]
    /\ todo' = [todo EXCEPT ![r] = Peers(r, Group(r))]
    /\ UNCHANGED <<script, round, epoch, flags, chan, sent, got>>

\* xfer.flush(r): every put to that peer has left the channel.
Flush(r) ==
    /\ pc[r] = "flush"
    /\ \E p \in todo[r] :
          /\ IsFirst(p, todo[r])
          /\ chan[r][p] = << >>
          /\ todo' = [todo EXCEPT ![r] = @ \ {p}]
    /\ UNCHANGED <<script, round, epoch, pc, flags, chan, sent, got>>

FlushDone(r) ==
    /\ pc[r] = "flush"
    /\ todo[r] = {}
    /\ pc' = [pc EXCEPT ![r] = "poll"]
    /\ todo' = [todo EXCEPT ![r] = Peers(r, Group(r))]
    /\ UNCHANGED <<script, round, epoch, flags, chan, sent, got>>

\* Mutants: the exact=True form, and a comparison that is one too lax.
FlagReadyExact(flag, e) == flag = e
FlagReadyLax(flag, e) == flag + 1 >= e

\* The comparison of busy_wait_flag, in its default form.
FlagReady(flag, e) == flag >= e

\* busy_wait_flag on the slot of one peer.
PollFlag(r) ==
    /\ pc[r] = "poll"
    /\ \E p \in todo[r] :
          /\ IsFirst(p, todo[r])
          /\ FlagReady(flags[Group(r)][r][p], epoch[r])
          /\ todo' = [todo EXCEPT ![r] = @ \ {p}]
    /\ UNCHANGED <<script, round, epoch, pc, flags, chan, sent, got>>

\* The kernel ends and current_stream().synchronize() returns to the caller.
Return(r) ==
    /\ pc[r] = "poll"
    /\ todo[r] = {}
    /\ pc' = [pc EXCEPT ![r] = "host"]
    /\ UNCHANGED <<script, round, epoch, todo, flags, chan, sent, got>>

\* The transport lands the oldest put from s to r.
Land(s, r) ==
    /\ chan[s][r] # << >>
    /\ LET m == Head(chan[s][r])
       IN  \/ /\ m.kind = "flag"
              /\ flags' = [flags EXCEPT ![m.group][r][s] = m.val]
              /\ UNCHANGED got
           \/ /\ m.kind = "data"
              /\ got' = [got EXCEPT ![r][s] = @ \cup {m.val}]
              /\ UNCHANGED flags
    /\ chan' = [chan EXCEPT ![s][r] = Tail(@)]
    /\ UNCHANGED <<script, round, epoch, pc, todo, sent>>

\* Every rank has run its program to the end and every put has landed.
Finished ==
    /\ \A r \in Ranks : /\ pc[r] = "host"
                        /\ \A k \in 1..MaxRounds : ~IsNextBarrier(r, round[r], k)
    /\ \A r, s \in Ranks : chan[s][r] = << >>
    /\ UNCHANGED vars

RankStep(r) == \/ SymBarrier(r) \/ PutFlag(r) \/ PutDone(r)
               \/ Flush(r) \/ FlushDone(r) \/ PollFlag(r) \/ Return(r)

Next == \/ \E r \in Ranks : RankStep(r)
        \/ \E r, p \in Ranks : PutData(r, p)
        \/ \E s, r \in Ranks : Land(s, r)
        \/ Finished

Spec == Init /\ [][Next]_vars

\* Every rank keeps running its program, and the transport delivers.  Putting
\* data is up to the operators and is never owed.
Fairness == /\ \A r \in Ranks : WF_vars(RankStep(r))
            /\ \A s, r \in Ranks : WF_vars(Land(s, r))

FairSpec == Spec /\ Fairness

-----------------------------------------------------------------------------
Message == [kind : {"flag"}, group : Groups, val : Nat]
           \cup [kind : {"data"}, val : 1..MaxRounds]

(* Every variable has the type its comment gives. *)
TypeOK ==
    /\ script \in [1..MaxRounds -> Groups]
    /\ round \in [Ranks -> 0..MaxRounds]
    /\ epoch \in [Ranks -> Nat]
    /\ pc \in [Ranks -> {"host", "put", "flush", "poll"}]
    /\ todo \in [Ranks -> SUBSET Ranks]
    /\ flags \in [Groups -> [Ranks -> [Ranks -> Nat]]]
    /\ chan \in [Ranks -> [Ranks -> Seq(Message)]]
    /\ sent \in [Ranks -> [Ranks -> SUBSET (1..MaxRounds)]]
    /\ got \in [Ranks -> [Ranks -> SUBSET (1..MaxRounds)]]
    /\ \A r \in Ranks : pc[r] # "host" => round[r] \in 1..MaxRounds

\* Rank r has returned from its barriers up to position Passed(r) of script.
Returned(r, k) == k < round[r] \/ (k = round[r] /\ pc[r] = "host")

(* A rank has returned from a barrier only if every member of its group has *)
(* called that barrier: no slot that holds an older epoch, and no slot that *)
(* a faster peer has already overwritten with a newer one, releases a rank  *)
(* early.                                                                   *)
NoEarlyRelease ==
    \A r \in Ranks : \A k \in 1..MaxRounds :
        (Returned(r, k) /\ r \in Members[script[k]])
            => \A s \in Members[script[k]] : k <= round[s]

(* When a rank returns from a barrier, all the data that any member of the  *)
(* group put into its window before calling the barrier has landed.         *)
DataLandedOnReturn ==
    \A r \in Ranks : \A k \in 1..MaxRounds :
        (Returned(r, k) /\ r \in Members[script[k]])
            => \A s \in Members[script[k]] :
                  \A j \in sent[s][r] : j <= k => j \in got[r][s]

\* The abstract barrier, seen in the positions of the ranks.
Abstract == INSTANCE RankBarrier
              WITH at <- round, inside <- [r \in Ranks |-> pc[r] # "host"]

(* The flags, channels and epochs implement the abstract barrier.           *)
RefinesRankBarrier == Abstract!ASpec

(* Every rank gets through every barrier of its program.                    *)
EveryBarrierReturns ==
    <>[](\A r \in Ranks : \A k \in 1..MaxRounds :
            r \in Members[script[k]] => Returned(r, k))

\* Every group consists of all ranks: the case the epochs are designed for.
FullGroups == \A g \in Groups : Members[g] = Ranks

-----------------------------------------------------------------------------
(* What makes the barrier work, as an inductive invariant for full groups.  *)

\* The barriers r has returned from are those up to Passed(r).
Passed(r) == IF pc[r] = "host" THEN round[r] ELSE round[r] - 1

\* All processes call every barrier, so the counter is the position.
EpochIsRound == \A r \in Ranks : epoch[r] = round[r]

\* Nobody's flag announces a barrier that its owner has not called.
FlagsHonest ==
    \A s, r \in Ranks :
        /\ \A g \in Groups : flags[g][r][s] <= epoch[s]
        /\ \A i \in 1..Len(chan[s][r]) :
              chan[s][r][i].kind = "flag" => chan[s][r][i].val <= epoch[s]

\* The peers whose slot a poller has already accepted have called too.
PolledHaveCalled ==
    \A r \in Ranks : pc[r] = "poll" =>
        \A s \in Ranks \ (todo[r] \cup {r}) : round[r] <= round[s]

\* Nobody has returned from a barrier that somebody has yet to call.
PassedHaveCalled == \A r, s \in Ranks : Passed(r) <= round[s]

BarrierInv == /\ TypeOK
              /\ EpochIsRound
              /\ FlagsHonest
              /\ PolledHaveCalled
              /\ PassedHaveCalled

(* What makes the data arrive in time, on top of that.                      *)

\* A rank puts data to its peers only.
NoDataToSelf == \A r \in Ranks : sent[r][r] = {}

\* The data of barrier j is in got, or the flags from j on are behind it.
Landed(s, r, j) == j \in got[r][s]
InFlight(s, r, j) ==
    /\ \A g \in Groups : flags[g][r][s] < j
    /\ \E i \in 1..Len(chan[s][r]) :
          /\ chan[s][r][i] = Data(j)
          /\ \A h \in 1..i : chan[s][r][h].kind = "flag" => chan[s][r][h].val < j

DataBeforeFlags ==
    \A s, r \in Ranks : \A j \in sent[s][r] : Landed(s, r, j) \/ InFlight(s, r, j)

\* The data of the peers a poller has accepted is there, and all the data of
\* the barriers a rank has returned from.
PolledHaveLanded ==
    \A r \in Ranks : pc[r] = "poll" =>
        \A s \in Ranks \ (todo[r] \cup {r}) : \A j \in sent[s][r] :
            j <= round[r] => Landed(s, r, j)

PassedHaveLanded ==
    \A r, s \in Ranks : \A j \in sent[s][r] : j <= Passed(r) => Landed(s, r, j)

DataInv == NoDataToSelf /\ DataBeforeFlags /\ PolledHaveLanded /\ PassedHaveLanded
=============================================================================
