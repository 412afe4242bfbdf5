---------------------------- MODULE MCSearchBatch ----------------------------
(* Four queries for two workers; two full answers fill the budget, three     *)
(* go beyond it.                                                             *)
EXTENDS SearchBatch
=============================================================================
