----------------------------- MODULE MCSyncPool -----------------------------
(***************************************************************************)
(* Pools of one item, without threads; of five schedules, in shares of two *)
(* and of one; and of three shapes, in shares of one.                      *)
(***************************************************************************)
EXTENDS SyncPool

Single == [kind : {"schedule", "loadshape", "enduse"}, interpolated : {FALSE}, items : {1}]
Plans  == [kind : {"schedule"}, interpolated : BOOLEAN, items : {1, 5}]
Shapes == [kind : {"loadshape", "enduse"}, interpolated : {FALSE}, items : {3}]
MCPools == Single \cup Plans \cup Shapes
=============================================================================
