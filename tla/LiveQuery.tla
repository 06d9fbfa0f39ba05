------------------------------ MODULE LiveQuery ------------------------------
(***************************************************************************)
(* What streamgres promises its clients about live queries, with no reads, *)
(* snapshots, buffers or shared rows in it: the database has a history of  *)
(* tables, the engine stands at one position of it and moves one commit at *)
(* a time, and a live query is either settled, showing exactly its answer  *)
(* at that position, or hidden while its rows are being fetched.           *)
(***************************************************************************)
EXTENDS Naturals, Sequences

CONSTANTS
    SubIds, Queries, NoQuery,
    Hidden,            \* shown by a query still fetching rows
    Tables,            \* the states of the table
    Initial,           \* the first of them
    Answer(_, _)       \* a query's rows in a table

VARIABLES history, position, live, shown

vars == <<history, position, live, shown>>

Now(pos) == history[IF pos = 0 THEN 1 ELSE pos]

Init ==
    /\ history = <<Initial>>
    /\ position = 0
    /\ live = [s \in SubIds |-> NoQuery]
    /\ shown = [s \in SubIds |-> Hidden]

Write ==
    /\ \E table \in Tables : history' = Append(history, table)
    /\ UNCHANGED <<position, live, shown>>

(* The engine moves one commit on (or learns that it stands on the first    *)
(* table): every settled query moves with it in the same step, or hides to  *)
(* fetch a row it cannot show whole; no hidden one appears.                 *)
Apply ==
    /\ \/ position' = (IF position = 0 THEN 2 ELSE position + 1)
       \/ position = 0 /\ position' = 1
    /\ position' <= Len(history)
    /\ \A s \in SubIds :
        IF shown[s] = Hidden THEN shown'[s] = Hidden
        ELSE shown'[s] \in {Hidden, Answer(live[s], Now(position'))}
    /\ DOMAIN shown' = SubIds
    /\ UNCHANGED <<history, live>>

(* Queries whose fetches are over appear, whole and current. *)
Settle ==
    /\ \E S \in SUBSET {s \in SubIds : live[s] # NoQuery /\ shown[s] = Hidden} :
        shown' = [s \in SubIds |->
                    IF s \in S THEN Answer(live[s], Now(position)) ELSE shown[s]]
    /\ UNCHANGED <<history, position, live>>

(* A query opens hidden, or settled when a twin is. *)
Open(s, query) ==
    /\ live[s] = NoQuery
    /\ live' = [live EXCEPT ![s] = query]
    /\ \/ UNCHANGED shown
       \/ shown' = [shown EXCEPT ![s] = Answer(query, Now(position))]
    /\ UNCHANGED <<history, position>>

(* Queries are closed: unregistered, or together with a refused read. *)
Close ==
    /\ \E gone \in SUBSET SubIds :
        /\ live' = [s \in SubIds |-> IF s \in gone THEN NoQuery ELSE live[s]]
        /\ shown' = [s \in SubIds |-> IF s \in gone THEN Hidden ELSE shown[s]]
    /\ UNCHANGED <<history, position>>

Next ==
    \/ Write \/ Apply \/ Settle \/ Close
    \/ \E s \in SubIds, query \in Queries : Open(s, query)

Spec == Init /\ [][Next]_vars
=============================================================================
