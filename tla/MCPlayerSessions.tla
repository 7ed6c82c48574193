------------------------- MODULE MCPlayerSessions -------------------------
(* PlayerSessions on a small instance: s1 and s2 claim the same uuid, s1    *)
(* and s3 the same name; s2 and s3 are different players.                   *)
EXTENDS PlayerSessions

CONSTANTS s1, s2, s3, a, b, m, n

MCUuid == [s \in Sessions |-> IF s = s3 THEN b ELSE a]
MCName == [s \in Sessions |-> IF s = s2 THEN m ELSE n]
=============================================================================
