------------------------------ MODULE MCParser ------------------------------
(* IFJ's statement() on its own.                                            *)
EXTENDS Parser
=============================================================================
