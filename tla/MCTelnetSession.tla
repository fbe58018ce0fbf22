-------------------------- MODULE MCTelnetSession --------------------------
(* Instances of TelnetSession for TLC. *)
EXTENDS TelnetSession

NoPassword == <<>>

(* two window sizes, one with a byte that must be doubled on the wire      *)
TwoSizes == {<<"NUL", "x", "NUL", "y">>, <<"IAC", "SE", "NUL", "y">>}
=============================================================================
