---------------------------- MODULE MCTcpServer ----------------------------
(***************************************************************************)
(* TcpServer for TLC: three peers that may be swapped and two descriptors, *)
(* so that numbers are used again and accept fails.  A message is a header *)
(* of two bytes and one more; a peer may end inside its header.            *)
(***************************************************************************)
EXTENDS TcpServer

PeerSymmetry == Permutations(Peer)
=============================================================================
