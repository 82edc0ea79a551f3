------------------------------ MODULE MCParser ------------------------------
(* Statements of a length that the configuration chooses. *)
EXTENDS Parser
=============================================================================
