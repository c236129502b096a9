---------------------------- MODULE RankBarrier ----------------------------
(***************************************************************************)
(* What sym_barrier promises its callers, with no flags and no channels.   *)
(*                                                                         *)
(* Every process runs the same program, whose k-th barrier is on the       *)
(* communication group script[k]; a process takes part in the barriers of  *)
(* the groups it is a member of and in no other.  A process may leave a    *)
(* barrier only when every member of that barrier's group has reached it.  *)
(***************************************************************************)
EXTENDS Naturals

CONSTANTS Ranks,        \* the processes
          Groups,       \* the communication groups (one context each)
          Members,      \* Members[g]: the processes of group g
          MaxRounds     \* barriers in the program

VARIABLES script,       \* the program: the group of each barrier
          at,           \* at[r]: the last barrier that r has reached
          inside        \* inside[r]: r has reached it and not left it

avars == <<script, at, inside>>

\* The next barrier of the program that r takes part in is the k-th.
IsNextBarrier(r, from, k) ==
    /\ from < k
    /\ r \in Members[script[k]]
    /\ \A j \in from + 1 .. k - 1 : r \notin Members[script[j]]

AInit ==
    /\ script \in [1..MaxRounds -> Groups]
    /\ at = [r \in Ranks |-> 0]
    /\ inside = [r \in Ranks |-> FALSE]

Arrive(r) ==
    /\ ~inside[r]
    /\ \E k \in 1..MaxRounds :
          /\ IsNextBarrier(r, at[r], k)
          /\ at' = [at EXCEPT ![r] = k]
    /\ inside' = [inside EXCEPT ![r] = TRUE]
    /\ UNCHANGED script

Leave(r) ==
    /\ inside[r]
    /\ \A s \in Members[script[at[r]]] : at[r] <= at[s]
    /\ inside' = [inside EXCEPT ![r] = FALSE]
    /\ UNCHANGED <<script, at>>

ANext == \E r \in Ranks : Arrive(r) \/ Leave(r)

ASpec == AInit /\ [][ANext]_avars
=============================================================================
