------------------------------ MODULE Delivery ------------------------------
(***************************************************************************)
(* What the engine may rely on from the change feed, connections, slots    *)
(* and redelivery forgotten: a process starts at one location, and from    *)
(* there every commit is routed exactly once, in commit order, the         *)
(* engine's position never passing one that was not.  A process that ends  *)
(* starts over at a later location.  LiveReads takes its Commit and Mark   *)
(* steps to be this module's.                                              *)
(***************************************************************************)
EXTENDS Naturals, Sequences

VARIABLES
    committed,  \* how many transactions the database has committed
    start,      \* the location this process reads its first rows at; 0: none
    position,   \* where the engine is; 0 before it has heard from the feed
    routed      \* the locations of the writes it has routed, in order

vars == <<committed, start, position, routed>>

Init == committed = 1 /\ start = 0 /\ position = 0 /\ routed = <<>>

Grow == committed' = committed + 1 /\ UNCHANGED <<start, position, routed>>

Begin ==
    /\ start = 0 /\ start' \in 1 .. committed
    /\ UNCHANGED <<committed, position, routed>>

(* The engine learns that nothing was committed since the start. *)
Mark ==
    /\ start # 0 /\ position = 0 /\ position' = start
    /\ UNCHANGED <<committed, start, routed>>

Deliver ==
    /\ start # 0
    /\ position' = start + Len(routed) + 1 /\ position' <= committed
    /\ routed' = Append(routed, position')
    /\ UNCHANGED <<committed, start>>

End == start' = 0 /\ position' = 0 /\ routed' = <<>> /\ UNCHANGED committed

Next == Grow \/ Begin \/ Mark \/ Deliver \/ End

Spec == Init /\ [][Next]_vars
=============================================================================
