--------------------------- MODULE MCFullyAsync ---------------------------
(* FullyAsync for TLC: its constants are numbers, which the cfg files give. *)
EXTENDS FullyAsync
=============================================================================
