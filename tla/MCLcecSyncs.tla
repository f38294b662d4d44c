---------------------------- MODULE MCLcecSyncs ----------------------------
(* LcecSyncs with small tables: without autoflow, and with autoflow for a  *)
(* device that supports fewer or more PDOs than the table holds and one or *)
(* two entries in each.                                                    *)
EXTENDS LcecSyncs

MCLimits ==
  {[flow |-> FALSE, pdos |-> 0, entries |-> 1],
   [flow |-> TRUE, pdos |-> 1, entries |-> 2],
   [flow |-> TRUE, pdos |-> 9, entries |-> 2],
   [flow |-> TRUE, pdos |-> 9, entries |-> 1]}
=============================================================================
