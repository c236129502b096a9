------------------------------- MODULE KdaConv -------------------------------
(***************************************************************************)
(* The causal convolution in front of the recurrence.  A sequence's slot   *)
(* of the conv_state pool keeps the raw projections of the last tokens; a  *)
(* call takes its history from there, at an offset given by the previous   *)
(* call's accepted count, and leaves the slot for any count of this one.   *)
(* The channel panels are disjoint columns treated alike: one is modelled. *)
(***************************************************************************)
EXTENDS KdaLanes

VARIABLES
  cache,     (* conv_state: slot to the tokens of its rows                *)
  convOut    (* per sequence and candidate, the window convolved          *)

convVars == <<cache, convOut>>

CONV_KERNEL == 4

Nowhere == 0  (* the slot index of padding, never read or written *)

CacheRows == 1 .. LongestSequence + 2

(* The tokens before the first round. *)
Prompt == [i \in 1 .. CONV_KERNEL - 1 |-> <<0, i>>]

FreshSlot == [r \in CacheRows |-> IF r < CONV_KERNEL THEN Prompt[r] ELSE NoToken]

ConvInit ==
  /\ cache = [c \in {Nowhere} \cup {shape.cache[s] : s \in DOMAIN shape.cache} |-> FreshSlot]
  /\ convOut = [s \in DOMAIN shape.cache |-> <<>>]

Suffix(seq, n) == SubSeq(seq, Len(seq) - n + 1, Len(seq))

(* Mutant: the history is taken as if every candidate had been accepted. *)
HistoryAll(s) ==
  [i \in 1 .. CONV_KERNEL - 1 |->
     cache[shape.cache[s]][(IF round > 1 THEN shape.length[s] - 1 ELSE 0) + i]]

(* The rows from which a call takes the three tokens of history. *)
History(s) ==
  LET offset == IF accepted[s] > 0 THEN accepted[s] - 1 ELSE 0
  IN  [i \in 1 .. CONV_KERNEL - 1 |-> cache[shape.cache[s]][offset + i]]

Raw(s) == [t \in 1 .. shape.length[s] |-> <<round, t - 1>>]

(* The four tokens that the t-th candidate is convolved from. *)
Window(s, t) == Suffix(History(s) \o SubSeq(Raw(s), 1, t), CONV_KERNEL)

(* What a call leaves in the slot: the newer two rows of its history and the raw candidates. *)
Kept(s) == SubSeq(History(s), 2, CONV_KERNEL - 1) \o Raw(s)

(* A sequence in _run_qkvg_task: its history is fetched before anything of *)
(* the slot is written.  Padding gives zeros.                              *)
Convolve(s) ==
  /\ convOut[s] = <<>>
  /\ LET slot == shape.cache[s]
     IN  IF slot = Nowhere
         THEN /\ convOut' = [convOut EXCEPT ![s] = [t \in DOMAIN Raw(s) |-> <<NoToken>>]]
              /\ UNCHANGED cache
         ELSE /\ convOut' = [convOut EXCEPT ![s] = [t \in DOMAIN Raw(s) |-> Window(s, t)]]
              /\ cache' = [cache EXCEPT ![slot] =
                    [r \in CacheRows |-> IF r \in DOMAIN Kept(s) THEN Kept(s)[r] ELSE @[r]]]
  /\ UNCHANGED <<shape, round, lane, accepted>>
=============================================================================
