------------------------------ MODULE KdaLanes ------------------------------
(***************************************************************************)
(* The vector lanes on which the KDA decode kernels run, and what they     *)
(* work on: state rows that know which tokens went into them.  One kernel  *)
(* runs at a time, its lanes side by side; each lane drains its works in   *)
(* order, one token of one item per step.                                  *)
(***************************************************************************)
EXTENDS KdaSchedule

VARIABLES
  shape,  (* [N, aic, length, cache, least]: heads; device blocks; for every *)
          (* sequence 1..B the number of its candidates in a round, and its  *)
          (* slot of conv_state (no slots when the inputs come convolved);   *)
          (* the least number of candidates the caller accepts               *)
  round,
  accepted, (* per sequence, what was accepted of the last round that ended *)
            (* or is being committed: num_accepted_tokens                   *)
  lane    (* per lane [works, at, tok, ub, ring]: the works left, the item  *)
          (* of the first work and the token it is at, its UB state tiles   *)
          (* and the ring of prefetched inputs                              *)

Seqs == DOMAIN shape.length
BatchHeads == Len(shape.length) * shape.N
Heads == 0 .. BatchHeads - 1
Rows == 0 .. TILE - 1
LaneCount == Launch(BatchHeads, shape.aic)
Lanes == 0 .. LaneCount - 1

(* idx2crd(item, [batch_size, num_heads]), sequences counted from 1. *)
SeqOf(h) == h \div shape.N + 1

LongestSequence ==
  CHOOSE n \in {shape.length[s] : s \in Seqs} : \A s \in Seqs : shape.length[s] <= n

-----------------------------------------------------------------------------
(* A row remembers whose it is and the tokens applied to it. *)
Row(h, q, hist) == [head |-> h, row |-> q, hist |-> hist]

NoToken == <<0, 0>>
Spoilt(v) == [v EXCEPT !.hist = <<NoToken>>]

(* u of a row: computed for that row and token from the state before it. *)
Delta(v, in) ==
  [head |-> v.head, row |-> v.row, base |-> v.hist,
   tok |-> IF in.head = v.head /\ v.row \in in.rows THEN in.tok ELSE NoToken]

(* state * decay + u * k is the state after the token only when u, k and *)
(* decay are that token's, and u was computed from this very state.      *)
Apply(v, u, k) ==
  IF /\ u.head = v.head /\ u.row = v.row /\ u.base = v.hist
     /\ k.head = v.head /\ k.tok = u.tok /\ u.tok # NoToken
  THEN [v EXCEPT !.hist = Append(@, u.tok)]
  ELSE Spoilt(v)

-----------------------------------------------------------------------------
(* The inputs of token t for the rows of item i, as the prefetch copies them. *)
Input(i, t) == [head |-> i.head, rows |-> ItemRows(i), tok |-> <<round, t>>]

(* A RingBuffer of two slots with cursors of its own for writing and for *)
(* reading; a write does not look at the reader.                         *)
DEPTH == 2

EmptyRing == [slot |-> [i \in 0 .. DEPTH - 1 |-> <<>>], head |-> 0, tail |-> 0]
Push(r, x) == [r EXCEPT !.slot[r.head % DEPTH] = x, !.head = @ + 1]
Front(r) == r.slot[r.tail % DEPTH]
Pop(r) == [r EXCEPT !.tail = @ + 1]

(* The inputs of a verify item travel through the ring one token ahead: the  *)
(* first token's are fetched as the item opens, the next token's while this  *)
(* one is computed.  The ring in which token t is in front, and that after.  *)
Opened(st, i) == IF st.tok = 0 THEN Push(st.ring, Input(i, 0)) ELSE st.ring

Ahead(st, i, len) ==
  LET popped == Pop(Opened(st, i))
  IN  IF st.tok + 1 < len THEN Push(popped, Input(i, st.tok + 1)) ELSE popped

Start(works) == [works |-> works, at |-> 1, tok |-> 0,
                 ub |-> << <<>>, <<>> >>, ring |-> EmptyRing]

Idle(l) == lane[l].works = <<>>
AllIdle == \A l \in Lanes : Idle(l)

Work(l) == Head(lane[l].works)
CurrentItem(l) == Work(l)[lane[l].at]

(* The lane after the last token of its item: the work's next item, or the next work. *)
NextItem(st) ==
  IF st.at < Len(Head(st.works))
  THEN [st EXCEPT !.at = @ + 1, !.tok = 0]
  ELSE [st EXCEPT !.works = Tail(@), !.at = 1, !.tok = 0]
=============================================================================
