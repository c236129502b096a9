-------------------------- MODULE MoonepExchange ---------------------------
(***************************************************************************)
(* How the ranks of an expert-parallel group agree on the demand matrix:   *)
(* phase 0 of the plan kernel (_PlanKernel._exchange, moonep_plan.py), call *)
(* after call, with whatever closes the step between two calls.            *)
(*                                                                         *)
(* A call puts this rank's row of token counts and then a ready flag into  *)
(* every peer's symmetric heap, polls its own ready flags until all peers  *)
(* have announced this call, and copies the R rows out of the heap.  There *)
(* is one row and one flag per peer, reused by every call, and plan itself *)
(* ends with no barrier.  The step between two calls ends with finish_op   *)
(* of the prefetch: with a rank barrier ("sync"), or with an event on the  *)
(* local stream only ("async").  The barrier is the abstract one, which    *)
(* MoonepBarrier implements.                                               *)
(*                                                                         *)
(* Every call computes its greedy plan from the copied matrix alone, so    *)
(* the ranks agree on the plan exactly if they copied the same rows.  The  *)
(* row of rank s for its k-th call is represented by k.                    *)
(***************************************************************************)
EXTENDS Naturals, Sequences

CONSTANTS NumRanks,     \* ranks of the group, 0 .. NumRanks-1
          MaxRounds,    \* bound: calls of moonep_plan per rank
          Closings      \* the ways a step may end: "sync", "async" or both

Ranks == 0 .. NumRanks - 1

ASSUME NumRanksAssumption == NumRanks \in Nat \ {0}
ASSUME MaxRoundsAssumption == MaxRounds \in Nat
ASSUME ClosingsAssumption == Closings \subseteq {"sync", "async"}

VARIABLES
    script,  \* script[k]: how the step of the k-th call ends, on every rank
    at,      \* at[r]: the last call whose closing barrier r has reached
    inside,  \* inside[r]: r waits in that barrier
    round,   \* round[r]: calls of moonep_plan by r, the counter _EPOCH
    pc,      \* pc[r]: host, put, flush, poll, read, close or barrier
    todo,    \* todo[r]: ranks still to be served by the current loop
    dem,     \* dem[r][s]: row s of r's dem_all region
    ready,   \* ready[r][s]: slot s of r's ready flags
    chan,    \* chan[s][r]: puts from s to r that have not landed
    plan     \* plan[r][k]: the rows r copied in its k-th call

vars == <<script, at, inside, round, pc, todo, dem, ready, chan, plan>>
kernel == <<round, pc, todo, dem, ready, chan, plan>>

\* The rank barrier of a step that ends with one.  The steps that end
\* without are barriers nobody takes part in.
Barrier == INSTANCE RankBarrier
             WITH Groups <- {"sync", "async"},
                  Members <- [c \in {"sync", "async"} |->
                                IF c = "sync" THEN Ranks ELSE {}]

Peers(r) == Ranks \ {r}

Row(k)   == [kind |-> "row", val |-> k]
Ready(k) == [kind |-> "ready", val |-> k]

\* The loops of the kernel visit the ranks in order.
IsFirst(p, S) == p \in S /\ \A q \in S : p <= q

NoRow == [s \in Ranks |-> 0]

Init ==
    /\ script \in [1..MaxRounds -> Closings]
    /\ at = [r \in Ranks |-> 0]
    /\ inside = [r \in Ranks |-> FALSE]
    /\ round = [r \in Ranks |-> 0]
    /\ pc = [r \in Ranks |-> "host"]
    /\ todo = [r \in Ranks |-> {}]
    /\ dem = [r \in Ranks |-> NoRow]
    /\ ready = [r \in Ranks |-> NoRow]
    /\ chan = [s \in Ranks |-> [r \in Ranks |-> << >>]]
    /\ plan = [r \in Ranks |-> [k \in 1..MaxRounds |-> NoRow]]

-----------------------------------------------------------------------------
\* moonep_plan: take the next epoch and launch the kernel.
MoonepPlan(r) ==
    /\ pc[r] = "host"
    /\ round[r] < MaxRounds
    /\ round' = [round EXCEPT ![r] = @ + 1]
    /\ pc' = [pc EXCEPT ![r] = "put"]
    /\ todo' = [todo EXCEPT ![r] = Peers(r)]
    /\ UNCHANGED <<script, at, inside, dem, ready, chan, plan>>

\* The two puts for one peer: its row of my counts, then its ready flag.
PutRowAndFlag(r) ==
    /\ pc[r] = "put"
    /\ \E p \in todo[r] :
          /\ IsFirst(p, todo[r])
          /\ chan' = [chan EXCEPT
                        ![r][p] = @ \o <<Row(round[r]), Ready(round[r])>>]
    /\ pc' = [pc EXCEPT ![r] = "flush"]
    /\ UNCHANGED <<script, at, inside, round, todo, dem, ready, plan>>

\* xfer.flush(p), then on to the next peer.
Flush(r) ==
    /\ pc[r] = "flush"
    /\ \E p \in todo[r] :
          /\ IsFirst(p, todo[r])
          /\ chan[r][p] = << >>
          /\ todo' = [todo EXCEPT ![r] = @ \ {p}]
    /\ pc' = [pc EXCEPT ![r] = "put"]
    /\ UNCHANGED <<script, at, inside, round, dem, ready, chan, plan>>

\* All peers are served: copy the own row locally and start polling.
CopyOwnRow(r) ==
    /\ pc[r] = "put"
    /\ todo[r] = {}
    /\ dem' = [dem EXCEPT ![r][r] = round[r]]
    /\ pc' = [pc EXCEPT ![r] = "poll"]
    /\ todo' = [todo EXCEPT ![r] = Peers(r)]
    /\ UNCHANGED <<script, at, inside, round, ready, chan, plan>>

\* Mutants: the exact comparison, and one that is too lax by one.
ReadyExact(flag, e) == flag = e
ReadyLax(flag, e) == flag + 1 >= e

\* busy_wait_flag, in its default form.
IsReady(flag, e) == flag >= e

PollReady(r) ==
    /\ pc[r] = "poll"
    /\ \E p \in todo[r] :
          /\ IsFirst(p, todo[r])
          /\ IsReady(ready[r][p], round[r])
          /\ todo' = [todo EXCEPT ![r] = @ \ {p}]
    /\ UNCHANGED <<script, at, inside, round, pc, dem, ready, chan, plan>>

\* Mutant: the copy takes one row too many.
PollDoneWide(r) ==
    /\ pc[r] = "poll"
    /\ todo[r] = {}
    /\ pc' = [pc EXCEPT ![r] = "read"]
    /\ todo' = [todo EXCEPT ![r] = 0 .. NumRanks]
    /\ UNCHANGED <<script, at, inside, round, dem, ready, chan, plan>>

PollDone(r) ==
    /\ pc[r] = "poll"
    /\ todo[r] = {}
    /\ pc' = [pc EXCEPT ![r] = "read"]
    /\ todo' = [todo EXCEPT ![r] = Ranks]
    /\ UNCHANGED <<script, at, inside, round, dem, ready, chan, plan>>

\* mem_copy(ub_demand, dem_all): one transfer of R rows, which the puts of
\* a peer may overlap.
CopyRow(r) ==
    /\ pc[r] = "read"
    /\ \E s \in todo[r] :
          /\ IsFirst(s, todo[r])
          /\ plan' = [plan EXCEPT ![r][round[r]][s] = dem[r][s]]
          /\ todo' = [todo EXCEPT ![r] = @ \ {s}]
    /\ UNCHANGED <<script, at, inside, round, pc, dem, ready, chan>>

\* The rest of the kernel is local; the call is over.
PlanDone(r) ==
    /\ pc[r] = "read"
    /\ todo[r] = {}
    /\ pc' = [pc EXCEPT ![r] = "close"]
    /\ UNCHANGED <<script, at, inside, round, todo, dem, ready, chan, plan>>

\* finish_op(context, async_finish=True): an event on the own stream.
FinishAsync(r) ==
    /\ pc[r] = "close"
    /\ script[round[r]] = "async"
    /\ pc' = [pc EXCEPT ![r] = "host"]
    /\ UNCHANGED <<script, at, inside, round, todo, dem, ready, chan, plan>>

\* finish_op(context): sym_barrier.
FinishSync(r) ==
    /\ pc[r] = "close"
    /\ script[round[r]] = "sync"
    /\ Barrier!Arrive(r)
    /\ pc' = [pc EXCEPT ![r] = "barrier"]
    /\ UNCHANGED <<round, todo, dem, ready, chan, plan>>

\* Mutant: finish_op returns without waiting for its barrier.
LeaveBarrierEarly(r) ==
    /\ pc[r] = "barrier"
    /\ inside' = [inside EXCEPT ![r] = FALSE]
    /\ pc' = [pc EXCEPT ![r] = "host"]
    /\ UNCHANGED <<script, at, round, todo, dem, ready, chan, plan>>

\* The return of that sym_barrier.
LeaveBarrier(r) ==
    /\ pc[r] = "barrier"
    /\ Barrier!Leave(r)
    /\ pc' = [pc EXCEPT ![r] = "host"]
    /\ UNCHANGED <<round, todo, dem, ready, chan, plan>>

\* The transport lands the oldest put from s to r.
Land(s, r) ==
    /\ chan[s][r] # << >>
    /\ LET m == Head(chan[s][r])
       IN  \/ /\ m.kind = "row"
              /\ dem' = [dem EXCEPT ![r][s] = m.val]
              /\ UNCHANGED ready
           \/ /\ m.kind = "ready"
              /\ ready' = [ready EXCEPT ![r][s] = m.val]
              /\ UNCHANGED dem
    /\ chan' = [chan EXCEPT ![s][r] = Tail(@)]
    /\ UNCHANGED <<script, at, inside, round, pc, todo, plan>>

Finished ==
    /\ \A r \in Ranks : pc[r] = "host" /\ round[r] = MaxRounds
    /\ UNCHANGED vars

RankStep(r) == \/ MoonepPlan(r) \/ PutRowAndFlag(r) \/ Flush(r)
               \/ CopyOwnRow(r) \/ PollReady(r) \/ PollDone(r)
               \/ CopyRow(r) \/ PlanDone(r)
               \/ FinishAsync(r) \/ FinishSync(r) \/ LeaveBarrier(r)

Next == \/ \E r \in Ranks : RankStep(r)
        \/ \E s, r \in Ranks : Land(s, r)
        \/ Finished

Spec == Init /\ [][Next]_vars

\* Every rank runs its program and the transport delivers.
FairSpec == /\ Spec
            /\ \A r \in Ranks : WF_vars(RankStep(r))
            /\ \A s, r \in Ranks : WF_vars(Land(s, r))

-----------------------------------------------------------------------------
Message == [kind : {"row", "ready"}, val : 1..MaxRounds]

(* Every variable has the type its comment gives.                           *)
TypeOK ==
    /\ script \in [1..MaxRounds -> Closings]
    /\ at \in [Ranks -> 0..MaxRounds]
    /\ inside \in [Ranks -> BOOLEAN]
    /\ round \in [Ranks -> 0..MaxRounds]
    /\ pc \in [Ranks -> {"host", "put", "flush", "poll", "read", "close",
                         "barrier"}]
    /\ todo \in [Ranks -> SUBSET Ranks]
    /\ dem \in [Ranks -> [Ranks -> 0..MaxRounds]]
    /\ ready \in [Ranks -> [Ranks -> 0..MaxRounds]]
    /\ chan \in [Ranks -> [Ranks -> Seq(Message)]]
    /\ plan \in [Ranks -> [1..MaxRounds -> [Ranks -> 0..MaxRounds]]]
    /\ \A r \in Ranks : pc[r] # "host" => round[r] \in 1..MaxRounds

\* r has copied the whole matrix of its k-th call.
Copied(r, k) == k < round[r] \/ (k = round[r] /\ pc[r] \notin
                                    {"put", "flush", "poll", "read"})

(* All ranks plan a call from the same matrix if its step is closed by the  *)
(* barrier, however the steps before and after it are closed: each row is   *)
(* the one its owner wrote for this call, neither a stale one nor one of a  *)
(* call that a faster rank has started since.  Two ranks that break this    *)
(* route tokens to slots that do not expect them.                           *)
ClosedCallsAgree ==
    \A r \in Ranks : \A k \in 1..MaxRounds :
        script[k] = "sync" /\ Copied(r, k) => \A s \in Ranks : plan[r][k][s] = k

(* No rank runs more than one call ahead of a rank that is still in its     *)
(* kernel: the reason why one slot and a comparison with >= lose no call.   *)
LeadAtMostOne ==
    \A r, s \in Ranks : pc[r] \in {"put", "flush", "poll", "read"}
        => round[s] <= round[r] + 1

(* Every call ends: a flag that a faster rank has overwritten with the next *)
(* epoch still releases the slower one.                                     *)
EveryPlanReturns ==
    <>[](\A r \in Ranks : round[r] = MaxRounds /\ pc[r] = "host")

-----------------------------------------------------------------------------
(* Why calls that are closed by the barrier agree, as an inductive          *)
(* invariant.                                                               *)

\* A channel holds at most one row and its flag: those of the peer that is
\* being flushed, in the call under way.
ChannelsHoldOnePut ==
    \A s, r \in Ranks : chan[s][r] # << >> =>
        /\ pc[s] = "flush" /\ IsFirst(r, todo[s])
        /\ \/ chan[s][r] = <<Row(round[s]), Ready(round[s])>>
           \/ chan[s][r] = <<Ready(round[s])>> /\ dem[r][s] = round[s]

\* A flag is never ahead of its row, nor a row of its owner's call.
FlagsFollowRows ==
    \A r, s \in Ranks : ready[r][s] <= dem[r][s] /\ dem[r][s] <= round[s]

\* The rows that r has waited for are those of this call or a later one.
AwaitedRowsAreHere ==
    \A r, s \in Ranks :
        pc[r] = "read" \/ (pc[r] = "poll" /\ s \notin todo[r])
            => round[r] <= dem[r][s]

\* Nobody ends a call that another has not begun.
EndedCallsHaveBegun ==
    \A r, s \in Ranks :
        /\ round[r] <= round[s] + 1
        /\ pc[r] \notin {"put", "flush", "poll"} => round[r] <= round[s]

\* The barriers a rank has reached are those of the calls it has closed.
BarriersClose ==
    \A r \in Ranks :
        /\ at[r] <= round[r]
        /\ pc[r] \notin {"barrier", "host"} => at[r] < round[r]
        /\ pc[r] = "barrier" => at[r] = round[r]
        /\ \A k \in 1..MaxRounds :
              /\ script[k] = "sync"
              /\ k < round[r] \/ (k = round[r] /\ pc[r] \in {"barrier", "host"})
              => k <= at[r]

\* Nobody has left a barrier that another has not reached.
PassedHaveReached ==
    \A r, s \in Ranks : \A k \in 1..MaxRounds :
        /\ script[k] = "sync"
        /\ k < round[r] \/ (k = round[r] /\ pc[r] = "host")
        => k <= at[s]

\* What has been copied so far is right.
CopiesAreRight ==
    \A r, s \in Ranks : \A k \in 1..MaxRounds :
        /\ script[k] = "sync"
        /\ Copied(r, k) \/ (k = round[r] /\ pc[r] = "read" /\ s \notin todo[r])
        => plan[r][k][s] = k

ExchangeInv == /\ TypeOK
               /\ ChannelsHoldOnePut
               /\ FlagsFollowRows
               /\ AwaitedRowsAreHere
               /\ EndedCallsHaveBegun
               /\ BarriersClose
               /\ PassedHaveReached
               /\ CopiesAreRight
=============================================================================
