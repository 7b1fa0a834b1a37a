------------------------------ MODULE MCPaging ------------------------------
(* Paging for TLC.                                                          *)
EXTENDS Paging
=============================================================================
