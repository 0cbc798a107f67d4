----------------------------- MODULE MCSidePages -----------------------------
(* Small instances of SidePages. *)
EXTENDS SidePages
=============================================================================
