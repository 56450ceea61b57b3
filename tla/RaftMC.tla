------------------------------- MODULE RaftMC -------------------------------
(* A three-server cluster: behaviours with two elections and entries, and   *)
(* behaviours with appendentries that carry entries, as the tests build.    *)
EXTENDS Raft, TLC

AE(p, pt, ids, t) ==
    {[type |-> "appendentries", from |-> n, to |-> s, term |-> t,
      prev_log_idx |-> p, prev_log_term |-> pt, entries |-> ids] :
        n \in Nodes, s \in Nodes}

MCForeign ==
    AE(0, 0, <<3, 4>>, 1) \union AE(1, 1, <<5>>, 1) \union AE(1, 1, <<5>>, 2)
        \union AE(1, 2, <<>>, 1) \union AE(2, 1, <<2, 0>>, 1)

MCBudgets ==
    {[elections |-> 2, heartbeats |-> 0, entries |-> 0, foreign |-> 0],
     [elections |-> 1, heartbeats |-> 1, entries |-> 1, foreign |-> 0],
     [elections |-> 1, heartbeats |-> 0, entries |-> 0, foreign |-> 1],
     [elections |-> 0, heartbeats |-> 0, entries |-> 0, foreign |-> 3]}

MCClusterBudgets ==
    {[elections |-> 1, heartbeats |-> 0, entries |-> 1, foreign |-> 0]}

Symmetry == Permutations(Nodes)
=============================================================================
