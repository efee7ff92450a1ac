-------------------------- MODULE MCBagelWorkload --------------------------
(* A small instance of BagelWorkload for TLC.                              *)
EXTENDS BagelWorkload, TLC

CONSTANTS r1, r2

TwoCases == <<r1, r2>>

=============================================================================
