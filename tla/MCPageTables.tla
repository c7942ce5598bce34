----------------------------- MODULE MCPageTables -----------------------------
(* Two threads of a process that allocate heap pages at the same time, over  *)
(* tables of two entries.                                                    *)
EXTENDS PageTables
=============================================================================
