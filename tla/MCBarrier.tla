----------------------------- MODULE MCBarrier -----------------------------
(* A small instance of MoonepBarrier: two groups that are all of the world. *)
EXTENDS MoonepBarrier

CONSTANTS ga, gb

MCFull == [g \in Groups |-> Ranks]

\* One pair is enough to see data and flags share a channel.
MCTraffic == {<<0, 1>>}
=============================================================================
