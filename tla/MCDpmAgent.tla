------------------------------ MODULE MCDpmAgent ------------------------------
(***************************************************************************)
(* Models for TLC: two interfaces, in the order of their names, and three  *)
(* port numbers, two of them with the same first digit.                    *)
(***************************************************************************)
EXTENDS DpmAgent

CONSTANT s1

MCInterfaces == {1, 2}
MCStations == {s1}
MCPortNumbers == {1, 2, 10}
=============================================================================
