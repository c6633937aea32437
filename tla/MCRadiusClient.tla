---------------------------- MODULE MCRadiusClient ----------------------------
(* RadiusClient with two servers of each kind, whose secrets differ. *)
EXTENDS RadiusClient

CONSTANTS s1, s2
TwoServers == <<s1, s2>>
=============================================================================
