--------------------------- MODULE MCLibraryVectors ---------------------------
(***************************************************************************)
(* Tables of two vectors and of one.  The vector of <<0, 45319>> sums to 0 *)
(* modulo 2^16, and those of <<1, 1>> and <<2, 0>> to the same.            *)
(***************************************************************************)
EXTENDS LibraryVectors

MCAddresses == { <<0, 0>>, <<0, 45319>>, <<1, 1>>, <<2, 0>> }

MCTables == { << <<1, 1>>, <<2, 0>> >>, << <<0, 0>>, <<0, 45319>> >>, << <<2, 0>> >> }
=============================================================================
