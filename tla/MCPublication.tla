---------------------------- MODULE MCPublication ----------------------------
(* Small instances of Publication.                                           *)
EXTENDS Publication, TLC

=============================================================================
