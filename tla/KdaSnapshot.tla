---------------------------- MODULE KdaSnapshot ----------------------------
(***************************************************************************)
(* Snapshot decoding: a kernel call scores the candidates and stores the   *)
(* state after every one of them in a slot of the state pool.  The next    *)
(* call is told which slots belong to its tokens (ssm_state_indices) and   *)
(* how many candidates were accepted (num_accepted_tokens), and starts     *)
(* from the slot of the last accepted one.                                 *)
(***************************************************************************)
EXTENDS KdaLanes

VARIABLES
  slots,    (* ssm_state_indices: per sequence, the slot of each token     *)
  count,    (* num_accepted_tokens of the coming call                      *)
  pool,     (* <<slot, head, row>> to the row                              *)
  snapOut   (* <<head, row, token>> to the text its output stands for      *)

snapshotVars == <<slots, count, pool, snapOut>>

(* Every sequence has a slot per token, and they are its own. *)
SlotsOf(s) == {<<s, t>> : t \in 0 .. shape.length[s] - 1}

Cells == UNION {SlotsOf(SeqOf(h)) \X {h} \X Rows : h \in Heads}

(* Mutant: the accepted count is not looked at. *)
InitialSlotFirst(s) == slots[s][1]

(* The slot the call starts from: of the last accepted token, the first *)
(* token's when the count is 0.                                         *)
InitialSlot(s) == slots[s][IF count[s] > 0 THEN count[s] ELSE 1]

(* The caller put the initial state in the first token's slot; what the *)
(* others hold is from another use of the pool.                         *)
SnapshotInit ==
  /\ slots = [s \in Seqs |-> [i \in 1 .. shape.length[s] |-> <<s, i - 1>>]]
  /\ count = [s \in Seqs |-> 1]
  /\ pool = [c \in Cells |-> Row(c[2], c[3], IF c[1][2] = 0 THEN <<>> ELSE <<NoToken>>)]
  /\ snapOut = [p \in Heads \X Rows \X (0 .. LongestSequence - 1) |-> <<>>]

(* One token of the snapshot kernel's _run_recurrent_item.  The initial   *)
(* state is loaded whole before the item stores its first snapshot; later *)
(* tokens go on from the working state, not from a slot.                  *)
SnapshotToken(l) ==
  /\ ~Idle(l)
  /\ LET st == lane[l]
         i == CurrentItem(l)
         s == SeqOf(i.head)
         t == st.tok
         len == shape.length[s]
         loaded == IF t = 0
                   THEN [q \in ItemRows(i) |-> pool[<<InitialSlot(s), i.head, q>>]]
                   ELSE st.ub[1]
         in == Front(Opened(st, i))
         state == [q \in ItemRows(i) |->
                     Apply(loaded[q], Delta(loaded[q], in), [head |-> in.head, tok |-> in.tok])]
         step == [st EXCEPT !.ub[1] = state, !.ring = Ahead(st, i, len), !.tok = t + 1]
     IN  /\ snapOut' = [p \in DOMAIN snapOut |->
                          IF p[1] = i.head /\ p[2] \in ItemRows(i) /\ p[3] = t
                          THEN state[p[2]].hist ELSE snapOut[p]]
         /\ pool' = [c \in Cells |->
                       IF c[1] = slots[s][t + 1] /\ c[2] = i.head /\ c[3] \in ItemRows(i)
                       THEN state[c[3]] ELSE pool[c]]
         /\ lane' = [lane EXCEPT ![l] = IF t + 1 < len THEN step ELSE NextItem(step)]
  /\ UNCHANGED <<shape, round, slots, count>>

(* Between calls the caller may deal a sequence's slots to its tokens anew, *)
(* as long as the count picks the slot of the last accepted token, number n. *)
Renumber(n) ==
  /\ slots' \in [Seqs -> UNION {[1 .. shape.length[s] -> SlotsOf(s)] : s \in Seqs}]
  /\ count' \in [Seqs -> 0 .. LongestSequence]
  /\ \A s \in Seqs :
       /\ DOMAIN slots'[s] = 1 .. shape.length[s]
       /\ {slots'[s][i] : i \in DOMAIN slots'[s]} = SlotsOf(s)
       /\ count'[s] <= shape.length[s]
       /\ slots'[s][IF count'[s] > 0 THEN count'[s] ELSE 1] = slots[s][n[s]]
  /\ UNCHANGED <<pool, snapOut>>
=============================================================================
