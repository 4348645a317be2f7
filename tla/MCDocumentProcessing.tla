------------------------ MODULE MCDocumentProcessing ------------------------
(* Instances of DocumentProcessing for TLC: one `foundry sync` timer, with and *)
(* without an operator at the admin.                                           *)
EXTENDS DocumentProcessing

CONSTANTS timer, admin
=============================================================================
