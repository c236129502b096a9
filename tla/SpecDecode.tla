----------------------------- MODULE SpecDecode -----------------------------
(***************************************************************************)
(* What speculative decoding with a recurrent state promises, whichever    *)
(* way the state is kept.  Every round scores length[s] candidate tokens   *)
(* of each sequence s, the t-th one on top of the accepted text and the    *)
(* candidates before it; the caller then accepts a prefix of the           *)
(* candidates, which becomes part of the text.  KdaDecode implements it    *)
(* twice over: by replaying records and by keeping snapshots.              *)
(***************************************************************************)
EXTENDS Naturals, Sequences

VARIABLES
  length,  (* candidates of a round, per sequence; fixed for a behaviour *)
  round,   (* number of the round                                        *)
  text,    (* per sequence, the accepted tokens                          *)
  scores   (* per sequence, for every candidate scored in this round the *)
           (* text its output stands for; empty before the scoring       *)

vars == <<length, round, text, scores>>

Seqs == DOMAIN length

(* The candidates of round r are told apart by their place. *)
Candidates(r, n) == [t \in 1 .. n |-> <<r, t - 1>>]

Unscored == [s \in Seqs |-> <<>>]

Init ==
  /\ round = 1
  /\ text = [s \in Seqs |-> <<>>]
  /\ scores = Unscored

Score ==
  /\ scores = Unscored
  /\ scores' = [s \in Seqs |->
                  [t \in 1 .. length[s] |-> text[s] \o Candidates(round, t)]]
  /\ UNCHANGED <<length, round, text>>

Accept ==
  /\ scores # Unscored
  /\ DOMAIN text' = Seqs
  /\ \A s \in Seqs : \E n \in 0 .. length[s] :
       text'[s] = text[s] \o Candidates(round, n)
  /\ scores' = Unscored
  /\ round' = round + 1
  /\ UNCHANGED length

Next == Score \/ Accept

Spec == Init /\ [][Next]_vars
=============================================================================
