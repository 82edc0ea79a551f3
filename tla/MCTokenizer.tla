----------------------------- MODULE MCTokenizer -----------------------------
(* The instance of Tokenizer for TLC.  A punctuation mark and the wildcard   *)
(* are scanned as an operator is, n, t and r as letters outside a string and *)
(* as other escapes inside.                                                  *)
EXTENDS Tokenizer

LineAlphabet == AllChars \ {"punctuation", "wildcard", "control"}
=============================================================================
