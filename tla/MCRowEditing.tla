---------------------------- MODULE MCRowEditing ----------------------------
(* RowEditing for TLC.                                                     *)
EXTENDS RowEditing

CONSTANTS a, b
=============================================================================
