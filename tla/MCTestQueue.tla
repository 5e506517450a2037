---------------------------- MODULE MCTestQueue ----------------------------
(***************************************************************************)
(* Three files, two of which test an exception and an error.       *)
(***************************************************************************)
EXTENDS TestQueue, TLC

MCNames == (1 :> {}) @@ (2 :> {"exc"}) @@ (3 :> {"err"})
=============================================================================
