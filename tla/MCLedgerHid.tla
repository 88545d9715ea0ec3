---------------------------- MODULE MCLedgerHid ----------------------------
(* Three runs, of one, two and three chunks, for TLC. *)
EXTENDS LedgerHid, TLC

CONSTANTS r1, r2, r3

MCRuns   == {r1, r2, r3}
MCChunks == r1 :> 1 @@ r2 :> 2 @@ r3 :> 3
=============================================================================
