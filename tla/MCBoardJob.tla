------------------------------ MODULE MCBoardJob ------------------------------
(***************************************************************************)
(* BoardJob with basenames whose labels collide: a, a_2, dl1, and those of  *)
(* which nothing is left.                                                  *)
(***************************************************************************)
EXTENDS BoardJob, TLC

Named(s, t) == [stem |-> s, tail |-> t]

MCStem == {"a", "dl0", "dl1", "dl2"}
MCDefaultStem == [i \in 0..2 |-> <<"dl0", "dl1", "dl2">>[i + 1]]
MCBasename == {Named("a", <<>>), Named("a", <<2>>), Named("dl1", <<>>)}
MCSymmetry == Permutations(Device)
=============================================================================
