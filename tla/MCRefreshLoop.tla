--------------------------- MODULE MCRefreshLoop ---------------------------
(* Small instances of RefreshLoop for TLC. *)
EXTENDS RefreshLoop
=============================================================================
