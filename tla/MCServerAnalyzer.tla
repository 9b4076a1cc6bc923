-------------------------- MODULE MCServerAnalyzer --------------------------
(* Small instances of ServerAnalyzer for TLC. *)
EXTENDS ServerAnalyzer

CONSTANTS c1, c2, c3
=============================================================================
