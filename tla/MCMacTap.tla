------------------------------ MODULE MCMacTap ------------------------------
(***************************************************************************)
(* An instance of MacTap: two applications, one of them GlowKey, and the   *)
(* counters scaled down with their order kept (2 failures before the       *)
(* warning, 4 before giving up for the thirty of the code), in a world     *)
(* without trouble and in one with all of it.                              *)
(***************************************************************************)
EXTENDS MacTap

CONSTANTS own, other, none, h1, h2

CalmAndTroubled == {{}, Troubles}
=============================================================================
