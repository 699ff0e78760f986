------------------------------ MODULE MCSqlReads ------------------------------
(* SqlReads for TLC. *)
EXTENDS SqlReads
================================================================================
