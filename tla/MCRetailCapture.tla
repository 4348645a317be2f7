-------------------------- MODULE MCRetailCapture --------------------------
(* Instances of RetailCapture for TLC: two products under one label, or each  *)
(* under its own, and versions of the bundle that map, remap and drop them.   *)
EXTENDS RetailCapture, TLC

CONSTANTS carrot, leek, none

MCRow == 1..2

MCName == <<"carrots", "leeks">>

\* two packs of one label
MCLabel == <<"carrots", "carrots">>

MCPack == <<"carrots 500 g", "carrots 1 kg">>

MCItem == << <<carrot, carrot>>, <<leek, leek>>, <<none, none>> >>

MCItemOne == << <<carrot, leek>> >>
=============================================================================
