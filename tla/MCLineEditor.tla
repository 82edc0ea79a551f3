---------------------------- MODULE MCLineEditor ----------------------------
(* The instance of LineEditor for TLC: buffers of three characters and a NUL, *)
(* so that a line can fill its buffer, and terminals that show one character  *)
(* less, as many, or none.                                                    *)
EXTENDS LineEditor

MCPipeLines == {<<"a">>, <<"a", "return">>, <<"a", "a", "blank", "a">>}
MCExitLines == {<<"blank">>}
=============================================================================
