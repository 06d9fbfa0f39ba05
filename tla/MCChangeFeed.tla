---------------------------- MODULE MCChangeFeed ----------------------------
(* Instances of ChangeFeed for TLC. *)
EXTENDS ChangeFeed, TLC

AllKinds == {"rows", "schema", "foreign"}
=============================================================================
