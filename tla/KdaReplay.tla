----------------------------- MODULE KdaReplay -----------------------------
(***************************************************************************)
(* ReplaySSM: the verify kernel scores the candidates on top of a          *)
(* checkpoint it leaves alone and writes down, per token, the update of    *)
(* every row (u) and the key and decay of the head (k); the commit kernel  *)
(* applies the records of the accepted prefix to the checkpoint.           *)
(***************************************************************************)
EXTENDS KdaLanes

VARIABLES
  checkpoint,  (* recurrent_state: <<head, row>> to the row                *)
  replayU,     (* <<head, row, token>> to the update of the row            *)
  replayK,     (* <<head, token>> to the key and decay                     *)
  out          (* <<head, row, token>> to the text its output stands for   *)

replayVars == <<checkpoint, replayU, replayK, out>>

Tokens == 0 .. LongestSequence - 1

ReplayInit ==
  /\ checkpoint = [p \in Heads \X Rows |-> Row(p[1], p[2], <<>>)]
  /\ replayU = [p \in Heads \X Rows \X Tokens |->
                  [head |-> p[1], row |-> p[2], base |-> <<>>, tok |-> NoToken]]
  /\ replayK = [p \in Heads \X Tokens |-> [head |-> p[1], tok |-> NoToken]]
  /\ out = [p \in Heads \X Rows \X Tokens |-> <<>>]

(* Mutant: the rows of a tile are counted from its first one. *)
LoadRowsFromTop(i) == [q \in ItemRows(i) |-> checkpoint[<<i.head, q - i.first>>]]

LoadRows(i) == [q \in ItemRows(i) |-> checkpoint[<<i.head, q>>]]

(* One token of _run_recurrent_item. The first one of an item loads the   *)
(* state and its own inputs; the inputs of the next are fetched meanwhile. *)
VerifyToken(l) ==
  /\ ~Idle(l)
  /\ LET st == lane[l]
         i == CurrentItem(l)
         t == st.tok
         len == shape.length[SeqOf(i.head)]
         loaded == IF t = 0 THEN LoadRows(i) ELSE st.ub[1]
         in == Front(Opened(st, i))
         k == [head |-> in.head, tok |-> in.tok]
         u == [q \in ItemRows(i) |-> Delta(loaded[q], in)]
         state == [q \in ItemRows(i) |-> Apply(loaded[q], u[q], k)]
         mine == {p \in DOMAIN out : p[1] = i.head /\ p[2] \in ItemRows(i) /\ p[3] = t}
         step == [st EXCEPT !.ub[1] = state, !.ring = Ahead(st, i, len), !.tok = t + 1]
     IN  /\ replayK' = IF i.first = 0 THEN [replayK EXCEPT ![<<i.head, t>>] = k]
                       ELSE replayK
         /\ replayU' = [p \in DOMAIN replayU |-> IF p \in mine THEN u[p[2]] ELSE replayU[p]]
         /\ out' = [p \in DOMAIN out |-> IF p \in mine THEN state[p[2]].hist ELSE out[p]]
         /\ lane' = [lane EXCEPT ![l] = IF t + 1 < len THEN step ELSE NextItem(step)]
  /\ UNCHANGED <<shape, round, accepted, checkpoint>>

(* prefetch_record: u of the item's rows, k and decay of its head. *)
Record(i, t) == [u |-> [q \in ItemRows(i) |-> replayU[<<i.head, q, t>>]],
                 k |-> replayK[<<i.head, t>>]]

AcceptedOf(i) == accepted[SeqOf(i.head)]

(* An item whose sequence accepted nothing is passed over. *)
CommitSkip(l) ==
  /\ ~Idle(l)
  /\ AcceptedOf(CurrentItem(l)) = 0
  /\ lane' = [lane EXCEPT ![l] = NextItem(@)]
  /\ UNCHANGED <<shape, round, accepted>> /\ UNCHANGED replayVars

(* Mutant: the second item of a pair fetches its first record once more. *)
FetchedAheadNever(l) == FALSE

(* The state tile and the first record of an item: fetched as it starts,    *)
(* unless the item before it in the work did so during its own last token. *)
FetchedAhead(l) == lane[l].at = 2 /\ AcceptedOf(Work(l)[1]) # 0

(* Mutant: the record of the current token is fetched once more. *)
FetchNextTokenAgain(st, i) ==
  [st EXCEPT !.ring = Push(@, Record(i, st.tok))]

FetchNextToken(st, i) ==
  [st EXCEPT !.ring = Push(@, Record(i, st.tok + 1))]

FetchItem(st, at) ==
  LET i == Head(st.works)[at]
  IN  [st EXCEPT !.ub[at] = LoadRows(i), !.ring = Push(@, Record(i, 0))]

(* One record of execute_item or execute_pair: fetch what comes next (the *)
(* next record, or the next item of the pair), apply this one, and after  *)
(* the last store the tile.                                               *)
CommitToken(l) ==
  /\ ~Idle(l)
  /\ AcceptedOf(CurrentItem(l)) > 0
  /\ LET st == lane[l]
         i == CurrentItem(l)
         a == AcceptedOf(i)
         last == st.tok + 1 = a
         opened == IF st.tok = 0 /\ ~FetchedAhead(l) THEN FetchItem(st, st.at) ELSE st
         fetched == CASE ~last -> FetchNextToken(opened, i)
                      [] last /\ st.at < Len(Work(l)) /\ AcceptedOf(Work(l)[2]) > 0 ->
                           FetchItem(opened, 2)
                      [] OTHER -> opened
         rec == Front(fetched.ring)
         state == [q \in ItemRows(i) |->
                     IF q \in DOMAIN rec.u
                     THEN Apply(fetched.ub[st.at][q], rec.u[q], rec.k)
                     ELSE Spoilt(fetched.ub[st.at][q])]
         step == [fetched EXCEPT !.ub[st.at] = state, !.ring = Pop(@), !.tok = @ + 1]
     IN  /\ lane' = [lane EXCEPT ![l] = IF last THEN NextItem(step) ELSE step]
         /\ checkpoint' = IF last
                          THEN [p \in DOMAIN checkpoint |->
                                  IF p[1] = i.head /\ p[2] \in ItemRows(i)
                                  THEN state[p[2]] ELSE checkpoint[p]]
                          ELSE checkpoint
  /\ UNCHANGED <<shape, round, accepted, replayU, replayK, out>>
=============================================================================
