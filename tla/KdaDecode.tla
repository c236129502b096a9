----------------------------- MODULE KdaDecode -----------------------------
(***************************************************************************)
(* Speculative decoding with the KDA kernels.  On one stream, round after  *)
(* round, the caller launches the verify kernel, picks what it accepts of  *)
(* each sequence and launches the commit kernel.  A caller that accepts at *)
(* least one candidate a round may keep snapshots instead: the snapshot    *)
(* kernel then runs on the same candidates, and the two ways of keeping    *)
(* the state have to give the same decoding.                               *)
(***************************************************************************)
EXTENDS KdaConv, KdaReplay, KdaSnapshot

CONSTANTS
  Shapes,   (* the calls: [N, aic, length, cache, least, rounds] *)
  None      (* where the rows of a state do not agree                 *)

(* Every sequence has candidates, and a slot of conv_state that is its own *)
(* unless it is padding; or no call has any slots.                         *)
ASSUME ShapesAssumption ==
  \A s \in Shapes :
    /\ s.N \in Nat \ {0} /\ s.aic \in Nat \ {0}
    /\ s.length \in Seq(Nat \ {0}) /\ s.length # <<>>
    /\ s.cache \in Seq(Nat) /\ Len(s.cache) \in {0, Len(s.length)}
    /\ \A a, b \in DOMAIN s.cache : a # b /\ s.cache[a] = s.cache[b] => s.cache[a] = Nowhere
    /\ s.least \in Nat /\ s.rounds \in Nat \ {0}

VARIABLE stage  (* the part of the round that runs *)

vars == <<shape, round, lane, accepted, cache, convOut, checkpoint, replayU, replayK, out,
          slots, count, pool, snapOut, stage>>

Works(kernel) ==
  [l \in Lanes |->
     Start(IF kernel = "commit" THEN CommitWorks(BatchHeads, LaneCount, l)
           ELSE VerifyWorks(BatchHeads, LaneCount, l))]

Init ==
  /\ shape \in Shapes
  /\ round = 1
  /\ stage = "conv"
  /\ lane = Works("verify")
  /\ accepted = [s \in Seqs |-> 0]
  /\ ConvInit
  /\ ReplayInit
  /\ SnapshotInit

WithSnapshots == shape.least > 0

Conv(s) ==
  /\ stage = "conv" /\ round <= shape.rounds
  /\ Convolve(s)
  /\ UNCHANGED stage /\ UNCHANGED replayVars /\ UNCHANGED snapshotVars

(* The whole grid has met before the recurrence starts. *)
ConvEnds ==
  /\ stage = "conv" /\ round <= shape.rounds
  /\ \A s \in DOMAIN convOut : convOut[s] # <<>>
  /\ stage' = "verify"
  /\ UNCHANGED <<shape, round, lane, accepted>> /\ UNCHANGED convVars
  /\ UNCHANGED replayVars /\ UNCHANGED snapshotVars

Verify(l) ==
  /\ stage = "verify"
  /\ VerifyToken(l)
  /\ UNCHANGED stage /\ UNCHANGED convVars /\ UNCHANGED snapshotVars

VerifyEnds ==
  /\ stage = "verify" /\ AllIdle
  /\ stage' = IF WithSnapshots THEN "snapshot" ELSE "accept"
  /\ lane' = IF WithSnapshots THEN Works("snapshot") ELSE lane
  /\ UNCHANGED <<shape, round, accepted>> /\ UNCHANGED convVars
  /\ UNCHANGED replayVars /\ UNCHANGED snapshotVars

Snapshot(l) ==
  /\ stage = "snapshot"
  /\ SnapshotToken(l)
  /\ UNCHANGED <<stage, accepted>> /\ UNCHANGED convVars /\ UNCHANGED replayVars

SnapshotEnds ==
  /\ stage = "snapshot" /\ AllIdle
  /\ stage' = "accept"
  /\ UNCHANGED <<shape, round, lane, accepted>> /\ UNCHANGED convVars
  /\ UNCHANGED replayVars /\ UNCHANGED snapshotVars

(* The caller accepts a prefix of every sequence's candidates and launches *)
(* the commit.  A slot of the pool keeps no state from before the first    *)
(* candidate, so with snapshots at least one candidate is accepted.        *)
Accept ==
  /\ stage = "accept"
  /\ accepted' \in [Seqs -> 0 .. LongestSequence]
  /\ \A s \in Seqs : /\ accepted'[s] <= shape.length[s]
                     /\ accepted'[s] >= shape.least
  /\ IF WithSnapshots THEN Renumber(accepted') ELSE UNCHANGED snapshotVars
  /\ stage' = "commit"
  /\ lane' = Works("commit")
  /\ UNCHANGED <<shape, round>> /\ UNCHANGED convVars /\ UNCHANGED replayVars

Commit(l) ==
  /\ stage = "commit"
  /\ CommitSkip(l) \/ CommitToken(l)
  /\ UNCHANGED stage /\ UNCHANGED convVars /\ UNCHANGED snapshotVars

CommitEnds ==
  /\ stage = "commit" /\ AllIdle
  /\ round' = round + 1
  /\ stage' = "conv"
  /\ lane' = Works("verify")
  /\ convOut' = [s \in DOMAIN convOut |-> <<>>]
  /\ UNCHANGED <<shape, accepted, cache>> /\ UNCHANGED replayVars /\ UNCHANGED snapshotVars

Next ==
  \/ \E s \in DOMAIN convOut : Conv(s)
  \/ \E l \in Lanes : Verify(l) \/ Snapshot(l) \/ Commit(l)
  \/ ConvEnds \/ VerifyEnds \/ SnapshotEnds \/ Accept \/ CommitEnds

Spec == Init /\ [][Next]_vars

-----------------------------------------------------------------------------
HeadsOf(s) == {h \in Heads : SeqOf(h) = s}

(* What a set of rows agrees on. *)
Common(hists) == IF \E x \in hists : hists = {x} THEN CHOOSE x \in hists : TRUE ELSE <<None>>

(* Types of the variables: who owns a row, u, k or slot never changes. *)
TypeOK ==
  /\ stage \in {"conv", "verify", "snapshot", "accept", "commit"}
  /\ round \in 1 .. shape.rounds + 1
  /\ \A p \in Heads \X Rows : /\ checkpoint[p].head = p[1]
                              /\ checkpoint[p].row = p[2]
  /\ \A c \in Cells : pool[c].head = c[2] /\ pool[c].row = c[3]
  /\ accepted \in [Seqs -> 0 .. LongestSequence]
  /\ \A s \in Seqs : count[s] \in 0 .. shape.length[s] /\ Len(slots[s]) = shape.length[s]

(* No two lanes of a running kernel, and no two of a lane's own works, ever *)
(* have the same state row before them: whichever of the schedules is used, *)
(* for heads cut into small blocks, halves or pairs.                        *)
RowsApart ==
  LET ahead(l) == UNION {{<<l, w, at>> : at \in DOMAIN lane[l].works[w]} :
                           w \in DOMAIN lane[l].works}
      item(x) == lane[x[1]].works[x[2]][x[3]]
  IN  \A x, y \in UNION {ahead(l) : l \in Lanes} :
        x # y /\ item(x).head = item(y).head => ItemRows(item(x)) \cap ItemRows(item(y)) = {}

(* The reader of a ring never overtakes the writer, and the writer is never *)
(* more than the depth ahead: a prefetch overwrites no input still unread,  *)
(* also where a pair of items shares the ring.                              *)
RingInOrder ==
  \A l \in Lanes : /\ lane[l].ring.tail <= lane[l].ring.head
                   /\ lane[l].ring.head <= lane[l].ring.tail + DEPTH

(* Between rounds, the slot from which the snapshot kernel will start holds *)
(* for every row the state to which the replay brought the checkpoint.      *)
SnapshotAgrees ==
  stage \in {"conv", "verify"} /\ WithSnapshots =>
    \A s \in Seqs : \A p \in HeadsOf(s) \X Rows :
      pool[<<InitialSlot(s), p[1], p[2]>>] = checkpoint[p]

(* The decoding that the kernels' memory stands for: a text is accepted when *)
(* its commit has ended, on every row of every head; a candidate is scored   *)
(* when the outputs of all rows and heads, and of both kernels, are.         *)
Scored(s) ==
  IF stage \in {"conv", "verify", "snapshot"} THEN <<>>
  ELSE [t \in 1 .. shape.length[s] |->
          Common({out[<<p[1], p[2], t - 1>>] : p \in HeadsOf(s) \X Rows}
                 \cup IF WithSnapshots
                      THEN {snapOut[<<p[1], p[2], t - 1>>] : p \in HeadsOf(s) \X Rows}
                      ELSE {})]

Text(s) ==
  IF stage = "commit" THEN SubSeq(Scored(s)[1], 1, Len(Scored(s)[1]) - 1)
  ELSE Common({checkpoint[p].hist : p \in HeadsOf(s) \X Rows})

Decoding == INSTANCE SpecDecode
              WITH length <- shape.length,
                   text   <- [s \in Seqs |-> Text(s)],
                   scores <- [s \in Seqs |-> Scored(s)]

(* Every candidate is convolved with the three tokens before it, of the     *)
(* accepted text and the candidates; padding has left its slot alone.  The  *)
(* slot keeps two tokens from before the candidates, so this is promised    *)
(* to callers that accept at least one of them in every round.              *)
ConvWindow ==
  stage # "conv" /\ shape.least > 0 =>
    /\ cache[Nowhere] = FreshSlot
    /\ \A s \in DOMAIN convOut : shape.cache[s] # Nowhere =>
         \A t \in DOMAIN convOut[s] :
           convOut[s][t] = Suffix(Prompt \o Text(s) \o [i \in 1 .. t |-> <<round, i - 1>>],
                                  CONV_KERNEL)

(* The kernels implement speculative decoding: every candidate is scored on *)
(* top of exactly the accepted text, and after each commit the checkpoint   *)
(* is the text with the accepted prefix, whole and on every row.            *)
DecodeRefines == Decoding!Spec
=============================================================================
