---------------------------- MODULE MCShutdown ----------------------------
(***************************************************************************)
(* Small instances of Shutdown.                                            *)
(***************************************************************************)
EXTENDS Shutdown, TLC

CONSTANTS c1, c2, k1, o1, o2

MCOneCaller == {c1}
MCTwoCallers == {c1, c2}
MCOneClient == {k1}
MCOneOp == {o1}
MCTwoOps == {o1, o2}
=============================================================================
