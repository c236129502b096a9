----------------------------- MODULE MoonepPlan ----------------------------
(***************************************************************************)
(* The plan that every rank derives from the balanced tables: phases 1 and *)
(* 2 of the plan kernel (_tables, _pfx, _assign) and the outputs of         *)
(* moonep_plan: cu_seqlens, experts_to_copy and vtopk.                      *)
(*                                                                         *)
(* Rank q owns 2*Epn slots, numbered q*2*Epn + j: its own experts first,   *)
(* then the replicas it hosts.  vtopk sends every token to a slot.  Each    *)
(* rank computes its own vtopk from the shared matrix and its own tokens,   *)
(* without knowing what the others compute, so the slots come out right     *)
(* only if the ranks cut the rows of each expert into the same segments and *)
(* each finds its own place in them.                                        *)
(***************************************************************************)
EXTENDS MoonepGreedy

CONSTANTS Chunk,        \* tokens per chunk; the chunks of a rank run in parallel
          Inputs        \* bound: the token lists considered, one per rank

Tokens == 0 .. NumRows - 1
Chunks == 0 .. (NumRows \div Chunk) - 1

ASSUME ChunkAssumption == Chunk \in Nat \ {0} /\ NumRows % Chunk = 0
ASSUME InputsAssumption == \A t \in Inputs : t \in [Ranks -> [Tokens -> Experts]]

VARIABLE topk           \* topk[r][i]: the expert of token i of rank r

pvars == <<vars, topk>>

\* tokens_per_expert of rank r, and _count: the tokens of expert e in chunk c.
Demand(r, e) == Cardinality({i \in Tokens : topk[r][i] = e})
Counts(r, c, e) ==
    Cardinality({i \in c * Chunk .. (c + 1) * Chunk - 1 : topk[r][i] = e})

PlanInit ==
    /\ topk \in Inputs
    /\ InitFrom([e \in Experts |-> SumFunction([r \in Ranks |-> Demand(r, e)])])

PlanNext == Next /\ UNCHANGED topk

PlanSpec == PlanInit /\ [][PlanNext]_pvars

-----------------------------------------------------------------------------
\* _fill_jrep_etc and _fill_sizes_cu: the replicas of rank r are compressed
\* into its replica slots in the order of their experts.
ReplicasOn(r) ==
    IF rhome[r] < 0 THEN {}
    ELSE {e \in ExpertsOf(rhome[r]) : order[e][r] >= FirstReplica}

JRep(r, e) == Cardinality({f \in ReplicasOn(r) : f < e})

ExpertsToCopy(r, j) ==
    IF \E e \in ReplicasOn(r) : JRep(r, e) = j
    THEN CHOOSE e \in ReplicasOn(r) : JRep(r, e) = j
    ELSE -1

SlotRows(r, j) ==
    IF j < Epn THEN rem[r * Epn + j][r]
    ELSE IF ExpertsToCopy(r, j - Epn) = -1 THEN 0
    ELSE rem[ExpertsToCopy(r, j - Epn)][r]

CuSeqlens(r, j) == SumFunction([i \in 0 .. j |-> SlotRows(r, i)])

\* The slot that serves expert e on rank r.
HomeSlot(r, e)    == r * 2 * Epn + (e % Epn)
ReplicaSlot(r, e) == r * 2 * Epn + Epn + JRep(r, e)

\* Experts without remote rows take the fast path: one slot for all tokens.
IsFast(e) == \A r \in Ranks : r # HomeOf(e) => rem[e][r] <= 0

\* _build_pfx_row: the segments of expert e are those of its home and its
\* replicas, in the order of their numbers; OrdEnd is where each ends.
Segments(e) == {r \in Ranks : order[e][r] >= Home}
OrdRank(e, o) == CHOOSE r \in Segments(e) : order[e][r] = o + 1
OrdEnd(e, o) ==
    SumFunction([p \in 0 .. o |->
                    IF \E r \in Segments(e) : order[e][r] = p + 1
                    THEN rem[e][OrdRank(e, p)] ELSE 0])

\* Mutant: the loop over the ranks that do not serve e is lost.
BeforeServingOnly(r, q, e) ==
    /\ order[e][r] # Unserved
    /\ order[e][q] # Unserved => order[e][r] < order[e][q]

\* The order in which the ranks' tokens for e are laid along the segments:
\* the home, the replica hosts by segment, then the ranks that do not serve e.
Before(r, q, e) ==
    \/ /\ order[e][r] # Unserved
       /\ order[e][q] # Unserved => order[e][r] < order[e][q]
    \/ order[e][r] = Unserved /\ order[e][q] = Unserved /\ r < q

PcntBase(q, e) ==
    SumFunctionOnSet([r \in Ranks |-> Demand(r, e)],
                     {r \in Ranks : r # q /\ Before(r, q, e)})

\* The place of the first token of e in chunk c of rank q.
Pcnt(q, e, c) ==
    PcntBase(q, e)
      + SumFunction([b \in 0 .. c - 1 |-> Counts(q, b, e)])

\* _relocate: the first segment that ends behind the place, which the binary
\* search of MoonepRelocate finds, and the slot it stands for.
SegmentAt(e, pos) ==
    CHOOSE o \in 0 .. NumRanks - 1 :
        pos < OrdEnd(e, o) /\ \A p \in 0 .. o - 1 : OrdEnd(e, p) <= pos

\* Mutant: off by one in the test for a replica segment.
SlotOfSegmentLate(e, o) ==
    IF o <= 1 THEN HomeSlot(OrdRank(e, o), e) ELSE ReplicaSlot(OrdRank(e, o), e)

SlotOfSegment(e, o) ==
    IF o = 0 THEN HomeSlot(OrdRank(e, o), e) ELSE ReplicaSlot(OrdRank(e, o), e)

\* _assign_chunk: the tokens of a chunk in order, with a cursor per expert
\* that looks the segment up again only when it has come to its end.
AssignChunk(q, c) ==
    LET Start == [vid |-> [i \in {} |-> 0],
                  pos |-> [e \in Experts |-> IF IsFast(e) THEN 0
                                             ELSE Pcnt(q, e, c)],
                  segEnd |-> [e \in Experts |-> 0],
                  cur |-> [e \in Experts |-> 0]]
        Run[n \in 0 .. Chunk] ==
            IF n = 0 THEN Start
            ELSE LET s == Run[n - 1]
                     i == c * Chunk + n - 1
                     e == topk[q][i]
                     o == SegmentAt(e, s.pos[e])
                     hit == s.pos[e] < s.segEnd[e]
                     v == IF IsFast(e) THEN HomeSlot(HomeOf(e), e)
                          ELSE IF hit THEN s.cur[e] ELSE SlotOfSegment(e, o)
                 IN  [vid |-> [k \in DOMAIN s.vid \cup {i} |->
                                 IF k = i THEN v ELSE s.vid[k]],
                      pos |-> [s.pos EXCEPT ![e] = @ + 1],
                      segEnd |-> IF IsFast(e) \/ hit THEN s.segEnd
                                 ELSE [s.segEnd EXCEPT ![e] = OrdEnd(e, o)],
                      cur |-> [s.cur EXCEPT ![e] = v]]
    IN  Run[Chunk].vid

Vtopk(q) == [i \in Tokens |-> AssignChunk(q, i \div Chunk)[i]]

-----------------------------------------------------------------------------
\* The expert whose weights are in slot j of rank r; -1 if it is empty.
ExpertInSlot(r, j) == IF j < Epn THEN r * Epn + j ELSE ExpertsToCopy(r, j - Epn)

Slots == 0 .. 2 * Epn - 1

\* Where all the ranks send all their tokens.
Sent == {[rank |-> q, token |-> i, vid |-> Vtopk(q)[i]] :
            q \in Ranks, i \in Tokens}

(* Every token goes to a slot that holds the weights of its expert.         *)
TokensReachTheirExpert ==
    pc = "done" =>
        \A s \in Sent :
            /\ s.vid \in 0 .. NumRanks * 2 * Epn - 1
            /\ ExpertInSlot(s.vid \div (2 * Epn), s.vid % (2 * Epn))
                   = topk[s.rank][s.token]

(* The ranks, each on its own, send every slot exactly as many tokens as    *)
(* its owner has announced in cu_seqlens.                                   *)
SlotsFillExactly ==
    pc = "done" =>
        LET sent == Sent
        IN  \A r \in Ranks, j \in Slots :
                Cardinality({s \in sent : s.vid = r * 2 * Epn + j})
                    = CuSeqlens(r, j) - (IF j = 0 THEN 0 ELSE CuSeqlens(r, j - 1))
=============================================================================
