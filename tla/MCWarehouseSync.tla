--------------------------- MODULE MCWarehouseSync ---------------------------
(* Instances of WarehouseSync for TLC.                                       *)
EXTENDS WarehouseSync

\* Syncs that overlap, or that fail; not both in one behaviour.
MCCalm == {{"overlap"}, {"failure"}}
=============================================================================
