---------------------------- MODULE MCConnBuffer ----------------------------
(***************************************************************************)
(* ConnBuffer for TLC: two connections that may be swapped, six addresses, *)
(* mbufs of two bytes, so that a message spans up to three of them and a   *)
(* read ends inside, at the end of and beyond an mbuf.  The free list      *)
(* keeps one mbuf (the code: eleven), so that mbufs are freed as well as   *)
(* reused.                                                                 *)
(***************************************************************************)
EXTENDS ConnBuffer

ConnSymmetry == Permutations(Conn)
=============================================================================
