----------------------------- MODULE MCTcpProxy -----------------------------
(***************************************************************************)
(* Small instances of TcpProxy for TLC.                                    *)
(***************************************************************************)
EXTENDS TcpProxy, TLC

\* The programs that connect are interchangeable.
Symmetry == Permutations(Peers)
=============================================================================
