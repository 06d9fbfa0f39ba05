--------------------------- MODULE LiveReadsProofs ---------------------------
(***************************************************************************)
(* Theorems about LiveReads for every value of its constants.  Its control *)
(* state keeps its types; a read is never positioned ahead of the engine   *)
(* or below the floor it was issued under; every delivered write a read in *)
(* flight may need is still remembered when it lands.  On that rests what  *)
(* the clients see: the recursion that brings a result up to date yields   *)
(* rows of the database, so no client is ever shown a stale or a partial   *)
(* one; and where no query has a condition on a column that an image may   *)
(* lack, LiveReads implements LiveQuery.                                   *)
(***************************************************************************)
EXTENDS LiveReads, WellFoundedInduction, TLAPS

-----------------------------------------------------------------------------
(* Types *)

LEMMA TrimmedIsSubset ==
    ASSUME NEW locations, NEW reads, NEW low
    PROVE  Trimmed(locations, reads, low) \subseteq locations
BY DEF Trimmed

LEMMA MatchingTyped == ASSUME NEW image PROVE Matching(image) \subseteq SubIds
BY DEF Matching, Registered

LEMMA WithTwinsTyped == ASSUME NEW S PROVE WithTwins(S) \subseteq SubIds
BY DEF WithTwins, Registered

LEMMA AskedTyped ==
    ASSUME ControlTypes, NEW query \in Queries \cup {NoQuery}
    PROVE  Asked(query) \in Flights
BY ConstantsAssumption DEF Asked, Flights, ControlTypes

LEMMA NoFlightTyped == NoFlight \in Flights
BY ConstantsAssumption DEF NoFlight, Flights

LEMMA WokenTyped ==
    ASSUME ControlTypes, NEW reads \in [ReadIds -> Flights]
    PROVE  Woken(reads) \in [ReadIds -> Flights]
<1>1. ASSUME NEW id \in ReadIds PROVE Asked(reads[id].query) \in Flights
  BY AskedTyped DEF Flights
<1> QED BY <1>1 DEF Woken

LEMMA RereadTyped ==
    ASSUME ControlTypes, NEW reads \in [ReadIds -> Flights], NEW needs
    PROVE  Reread(reads, needs) \in [ReadIds -> Flights]
BY AskedTyped DEF Reread

LEMMA JoinedTyped ==
    ASSUME NEW waiters \in [ReadIds -> SUBSET SubIds],
           NEW needs, \A k \in Keys : needs[k] \subseteq SubIds
    PROVE  Joined(waiters, needs) \in [ReadIds -> SUBSET SubIds]
BY DEF Joined

(* The alias rotation keeps its types whenever the stream moves. *)
LEMMA MovedTyped ==
    ASSUME ControlTypes, NEW to \in 0 .. MaxLsn, Moved(to)
    PROVE  /\ position' \in 0 .. MaxLsn /\ floor' \in 0 .. MaxLsn
           /\ current' \in 0 .. MaxLsn /\ minting' \in 0 .. MaxLsn
           /\ waiting' \in Seq(1 .. MaxLsn)
<1>1. PICK n \in 0 .. Len(waiting) :
        /\ current' = IF n = 0 THEN current ELSE waiting[n]
        /\ waiting' = SubSeq(waiting, n + 1, Len(waiting))
  BY DEF Moved, Advance
<1>2. current' \in 0 .. MaxLsn
  BY <1>1, ConstantsAssumption, SMTT(30) DEF ControlTypes
<1>3. waiting' \in Seq(1 .. MaxLsn)
  <2>1. PICK S, q : S = 1 .. MaxLsn /\ q = waiting
    OBVIOUS
  <2>2. q \in Seq(S) /\ Len(q) \in Nat /\ n + 1 \in 1 .. Len(q) + 1
    BY <1>1, <2>1 DEF ControlTypes
  <2>3. SubSeq(q, n + 1, Len(q)) \in Seq(S)
    BY <2>2
  <2> QED BY <1>1, <2>1, <2>3
<1> QED BY <1>2, <1>3, ConstantsAssumption DEF Moved, ControlTypes, Later

LEMMA InitTypes == Init => ControlTypes
<1> SUFFICES ASSUME Init PROVE ControlTypes
  OBVIOUS
<1>1. << <<>> >> \in Seq(Writes) /\ Len(<< <<>> >>) = 1
  <2>1. <<>> \in [{} -> Images \cup PartialImages \cup {NoRow}]
    OBVIOUS
  <2>2. <<>> \in Writes
    BY <2>1 DEF Writes
  <2> QED BY <2>2
<1>2. <<Initial>> \in Seq(Tables) /\ Len(<<Initial>>) = 1
  BY ConstantsAssumption
<1>3. <<1>> \in Seq(1 .. MaxLsn)
  BY ConstantsAssumption
<1>4. flights \in [ReadIds -> Flights]
  BY NoFlightTyped DEF Init
<1> QED BY <1>1, <1>2, <1>3, <1>4, ConstantsAssumption DEF Init, ControlTypes

LEMMA StoredTyped ==
    ASSUME NEW new \in Images \cup PartialImages \cup {NoRow},
           NEW old \in Images \cup {NoRow},
           new \in PartialImages => old # NoRow
    PROVE  Stored(new, old) \in Images \cup {NoRow}
BY ConstantsAssumption DEF Stored, Images, PartialImages

LEMMA DbCommitTypes == ASSUME ControlTypes, DbCommit PROVE ControlTypes'
<1>1. PICK txn \in Transactions :
        /\ Possible(txn)
        /\ wal' = Append(wal, txn)
        /\ db' = Append(db, [k \in Keys |-> IF k \in DOMAIN txn
                                            THEN Stored(txn[k], db[Len(db)][k])
                                            ELSE db[Len(db)][k]])
  BY DEF DbCommit
<1> DEFINE next == [k \in Keys |-> IF k \in DOMAIN txn
                                   THEN Stored(txn[k], db[Len(db)][k])
                                   ELSE db[Len(db)][k]]
<1>2. txn \in Writes
  BY ConstantsAssumption
<1>3. PICK S \in SUBSET Keys : txn \in [S -> Images \cup PartialImages \cup {NoRow}]
  BY <1>2 DEF Writes
<1>4. db[Len(db)] \in Tables
  BY DEF ControlTypes
<1>5. ASSUME NEW k \in Keys PROVE next[k] \in Images \cup {NoRow}
  <2>1. CASE k \in DOMAIN txn
    <3>1. txn[k] \in PartialImages => db[Len(db)][k] # NoRow
      BY <1>1, <2>1 DEF Possible
    <3>2. db[Len(db)][k] \in Images \cup {NoRow}
      BY <1>4 DEF Tables
    <3> QED BY <1>3, <2>1, <3>1, <3>2, StoredTyped
  <2>2. CASE k \notin DOMAIN txn
    BY <1>4, <2>2 DEF Tables
  <2> QED BY <2>1, <2>2
<1>6. next \in Tables
  BY <1>5 DEF Tables
<1>7. wal' \in Seq(Writes) /\ Len(wal') = Len(wal) + 1
  BY <1>1, <1>2 DEF ControlTypes
<1>8. db' \in Seq(Tables) /\ Len(db') = Len(db) + 1
  BY <1>1, <1>6 DEF ControlTypes
<1>9. Len(wal') \in 1 .. MaxLsn
  BY <1>7, ConstantsAssumption DEF DbCommit, ControlTypes
<1> QED
  BY <1>7, <1>8, <1>9
     DEF DbCommit, ControlTypes, aliases, runtime, engine, outbox

LEMMA LetGoTypes ==
    ASSUME ControlTypes, NEW gone, LetGo(gone)
    PROVE  /\ subs' \in [SubIds -> Queries \cup {NoQuery}]
           /\ readers' \in [ReadIds -> SUBSET SubIds]
           /\ held' \in [Keys -> SUBSET SubIds]
           /\ awaiting' \subseteq SubIds
BY DEF LetGo, ControlTypes

LEMMA RouteTypes ==
    ASSUME ControlTypes, NEW txn, NEW reads \in [ReadIds -> Flights], Route(txn, reads)
    PROVE  /\ flights' \in [ReadIds -> Flights]
           /\ readers' \in [ReadIds -> SUBSET SubIds]
           /\ held' \in [Keys -> SUBSET SubIds]
<1> DEFINE image == [k \in DOMAIN txn |-> Completed(txn[k], frame[k])]
           again == {k \in DOMAIN txn : IsPartial(image[k]) /\ Matching(image[k]) # {}}
           needs == [k \in Keys |-> IF k \in again THEN WithTwins(Matching(image[k])) ELSE {}]
           fits  == [k \in DOMAIN txn \ again |-> Matching(image[k])]
<1>1. /\ held' = [k \in Keys |-> IF k \in DOMAIN fits THEN fits[k] ELSE held[k]]
      /\ flights' = Reread(reads, needs)
      /\ readers' = Joined(readers, needs)
  BY DEF Route
<1>2. \A k \in Keys : needs[k] \subseteq SubIds
  BY WithTwinsTyped
<1>3. \A k \in DOMAIN fits : fits[k] \subseteq SubIds
  BY MatchingTyped
<1>4. flights' \in [ReadIds -> Flights]
  BY <1>1, RereadTyped
<1>5. readers' \in [ReadIds -> SUBSET SubIds]
  <2> HIDE DEF needs
  <2> QED BY <1>1, <1>2, JoinedTyped DEF ControlTypes
<1>6. held' \in [Keys -> SUBSET SubIds]
  <2> HIDE DEF fits
  <2> QED BY <1>1, <1>3 DEF ControlTypes
<1> QED BY <1>4, <1>5, <1>6

LEMMA LandRowsTypes ==
    ASSUME ControlTypes, NEW id \in ReadIds, NEW rows, LandRows(id, rows)
    PROVE  /\ flights' \in [ReadIds -> Flights]
           /\ readers' \in [ReadIds -> SUBSET SubIds]
           /\ held' \in [Keys -> SUBSET SubIds]
<1> DEFINE image == [k \in Keys |-> IF frame[k] # NoRow THEN frame[k] ELSE rows[k]]
           takers == [k \in Keys |-> IF rows[k] = NoRow THEN {}
                                     ELSE readers[id] \cap Matching(image[k])]
           joins == [k \in Keys |-> IF IsPartial(image[k]) THEN {} ELSE takers[k] \ held[k]]
           needs == [k \in Keys |-> IF IsPartial(image[k]) THEN WithTwins(takers[k]) ELSE {}]
           over == [flights EXCEPT ![id] = NoFlight]
           left == [readers EXCEPT ![id] = {}]
<1>1. /\ held' = [k \in Keys |-> held[k] \cup joins[k]]
      /\ flights' = Reread(over, needs)
      /\ readers' = Joined(left, needs)
  BY DEF LandRows
<1>2. \A k \in Keys : needs[k] \subseteq SubIds
  BY WithTwinsTyped
<1>3. \A k \in Keys : joins[k] \subseteq SubIds
  BY DEF ControlTypes
<1>4. flights' \in [ReadIds -> Flights]
  <2>1. over \in [ReadIds -> Flights]
    BY NoFlightTyped DEF ControlTypes
  <2> QED BY <1>1, <2>1, RereadTyped
<1>5. readers' \in [ReadIds -> SUBSET SubIds]
  <2>1. left \in [ReadIds -> SUBSET SubIds]
    BY DEF ControlTypes
  <2> HIDE DEF needs, left
  <2> QED BY <1>1, <1>2, <2>1, JoinedTyped
<1>6. held' \in [Keys -> SUBSET SubIds]
  <2> HIDE DEF joins
  <2> QED BY <1>1, <1>3 DEF ControlTypes
<1> QED BY <1>4, <1>5, <1>6

LEMMA CommitTypes == ASSUME ControlTypes, Commit PROVE ControlTypes'
<1> DEFINE at == Later(position, 1) + 1
<1>1. /\ at <= Len(wal)
      /\ Route(wal[at], Woken(flights))
      /\ Moved(at)
      /\ recent' = Trimmed(recent \cup {at}, flights', floor')
      /\ UNCHANGED <<database, subs, awaiting>>
  BY DEF Commit
<1>2. at \in 1 .. MaxLsn
  BY <1>1, ConstantsAssumption DEF ControlTypes, Later
<1> HIDE DEF at
<1>3. Woken(flights) \in [ReadIds -> Flights]
  BY WokenTyped DEF ControlTypes
<1>4. /\ flights' \in [ReadIds -> Flights]
      /\ readers' \in [ReadIds -> SUBSET SubIds]
      /\ held' \in [Keys -> SUBSET SubIds]
  BY <1>1, <1>3, RouteTypes
<1>5. /\ position' \in 0 .. MaxLsn /\ floor' \in 0 .. MaxLsn
      /\ current' \in 0 .. MaxLsn /\ minting' \in 0 .. MaxLsn
      /\ waiting' \in Seq(1 .. MaxLsn)
  <2>1. at \in 0 .. MaxLsn
    BY <1>2
  <2> QED BY <1>1, <2>1, MovedTyped
<1>6. recent' \subseteq 1 .. MaxLsn
  <2>1. recent \cup {at} \subseteq 1 .. MaxLsn
    BY <1>2 DEF ControlTypes
  <2>2. recent' \subseteq recent \cup {at}
    BY <1>1, TrimmedIsSubset
  <2> QED BY <2>1, <2>2
<1> QED BY <1>1, <1>4, <1>5, <1>6 DEF ControlTypes, database

LEMMA MarkTypes == ASSUME ControlTypes, Mark PROVE ControlTypes'
<1>1. Later(position, 1) \in 0 .. MaxLsn
  BY ConstantsAssumption DEF ControlTypes, Later
<1>2. /\ position' \in 0 .. MaxLsn /\ floor' \in 0 .. MaxLsn
      /\ current' \in 0 .. MaxLsn /\ minting' \in 0 .. MaxLsn
      /\ waiting' \in Seq(1 .. MaxLsn)
  BY <1>1, MovedTyped DEF Mark
<1>3. flights' \in [ReadIds -> Flights]
  BY WokenTyped DEF Mark, ControlTypes
<1>4. recent' \subseteq 1 .. MaxLsn
  BY TrimmedIsSubset DEF Mark, ControlTypes
<1> QED BY <1>2, <1>3, <1>4 DEF Mark, ControlTypes, database, engine, outbox

LEMMA RegisterTypes ==
    ASSUME ControlTypes, NEW s \in SubIds, NEW query \in Queries, Register(s, query)
    PROVE  ControlTypes'
<1>1. subs' \in [SubIds -> Queries \cup {NoQuery}] /\ awaiting' \subseteq SubIds
  BY DEF Register, ControlTypes
<1>2. /\ flights' \in [ReadIds -> Flights]
      /\ readers' \in [ReadIds -> SUBSET SubIds]
      /\ held' \in [Keys -> SUBSET SubIds]
  <2>1. CASE /\ held' \in [Keys -> SUBSET SubIds]
             /\ \E twin \in Registered : readers' = JoinReads(s, twin)
             /\ UNCHANGED flights
    BY <2>1 DEF JoinReads, ControlTypes
  <2>2. CASE /\ \E id \in Slots : /\ flights' = [flights EXCEPT ![id] = Asked(query)]
                                   /\ readers' = [readers EXCEPT ![id] = {s}]
             /\ UNCHANGED <<held, view>>
    <3>1. PICK id \in Slots : /\ flights' = [flights EXCEPT ![id] = Asked(query)]
                              /\ readers' = [readers EXCEPT ![id] = {s}]
      BY <2>2
    <3>2. Asked(query) \in Flights
      BY AskedTyped
    <3> QED BY <2>2, <3>1, <3>2 DEF ControlTypes
  <2>3. \A twin \in Registered :
            [k \in Keys |-> held[k] \cup (IF twin \in held[k] THEN {s} ELSE {})]
                \in [Keys -> SUBSET SubIds]
    BY DEF ControlTypes
  <2> QED BY <2>1, <2>2, <2>3 DEF Register
<1> QED BY <1>1, <1>2 DEF Register, ControlTypes, database, aliases

(* Every step keeps the types. *)
LEMMA NextTypes == ASSUME ControlTypes, [Next]_vars PROVE ControlTypes'
<1>1. CASE DbCommit
  BY <1>1, DbCommitTypes
<1>2. CASE Mint
  BY <1>2, ConstantsAssumption DEF Mint, ControlTypes, database, runtime, engine, outbox
<1>3. CASE MintDone
  BY <1>3, ConstantsAssumption DEF MintDone, ControlTypes, database, runtime, engine, outbox
<1>4. CASE MintFails
  BY <1>4, ConstantsAssumption DEF MintFails, ControlTypes, database, runtime, engine, outbox
<1>5. CASE Commit
  BY <1>5, CommitTypes
<1>6. CASE Mark
  BY <1>6, MarkTypes
<1>7. CASE \E s \in SubIds : Unregister(s)
  BY <1>7, LetGoTypes DEF Unregister, ControlTypes, database, aliases, runtime
<1>8. CASE \E s \in SubIds, query \in Queries : Register(s, query)
  BY <1>8, RegisterTypes
<1>9. ASSUME NEW id \in ReadIds, StorageRead(id) PROVE ControlTypes'
  <2>1. flights' \in [ReadIds -> Flights]
    <3>1. PICK x : x = [flights[id] EXCEPT !.state = "read", !.at = current]
      OBVIOUS
    <3>2. x \in Flights
      BY <3>1, ZenonT(40) DEF ControlTypes, Flights
    <3>3. flights' = [flights EXCEPT ![id] = x]
      BY <1>9, <3>1, Zenon DEF StorageRead
    <3> QED BY <3>2, <3>3 DEF ControlTypes
  <2> QED BY <1>9, <2>1 DEF StorageRead, ControlTypes, database, aliases, engine, outbox
<1>10. ASSUME NEW id \in ReadIds, StorageFails(id) \/ StorageRefuses(id) PROVE ControlTypes'
  <2>1. PICK how \in {"failed", "refused"} : StorageEnds(id, how)
    BY <1>10 DEF StorageFails, StorageRefuses
  <2>2. flights[id] \in Flights
    BY DEF ControlTypes
  <2>3. [flights[id] EXCEPT !.state = how, !.at = 0] \in Flights
    <3>1. 0 \in 0 .. MaxLsn
      BY ConstantsAssumption
    <3>2. how \in {"idle", "asked", "read", "failed", "refused", "parked"}
      OBVIOUS
    <3> QED BY <2>2, <3>1, <3>2 DEF Flights
  <2>4. flights' = [flights EXCEPT ![id] = [flights[id] EXCEPT !.state = how, !.at = 0]]
    BY <2>1 DEF StorageEnds, ControlTypes
  <2>5. flights' \in [ReadIds -> Flights]
    BY <2>3, <2>4 DEF ControlTypes
  <2> QED
    BY <2>1, <2>5 DEF StorageEnds, ControlTypes, database, aliases, engine, outbox
<1>11. ASSUME NEW id \in ReadIds, Park(id) PROVE ControlTypes'
  BY <1>11, ZenonT(40) DEF Park, ControlTypes, Flights, database, aliases, engine, outbox
<1>12. ASSUME NEW id \in ReadIds, Refuse(id) PROVE ControlTypes'
  <2>1. flights' \in [ReadIds -> Flights]
    BY <1>12, NoFlightTyped DEF Refuse, ControlTypes
  <2>2. recent' \subseteq 1 .. MaxLsn
    BY <1>12, TrimmedIsSubset DEF Refuse, ControlTypes
  <2>3. /\ subs' \in [SubIds -> Queries \cup {NoQuery}]
        /\ readers' \in [ReadIds -> SUBSET SubIds]
        /\ held' \in [Keys -> SUBSET SubIds]
        /\ awaiting' \subseteq SubIds
    BY <1>12, LetGoTypes DEF Refuse
  <2> QED BY <1>12, <2>1, <2>2, <2>3 DEF Refuse, ControlTypes, database, aliases
<1>13. ASSUME NEW id \in ReadIds, Land(id) PROVE ControlTypes'
  <2>1. /\ flights' \in [ReadIds -> Flights]
        /\ readers' \in [ReadIds -> SUBSET SubIds]
        /\ held' \in [Keys -> SUBSET SubIds]
    BY <1>13, LandRowsTypes DEF Land
  <2>2. recent' \subseteq 1 .. MaxLsn
    BY <1>13, TrimmedIsSubset DEF Land, ControlTypes
  <2>3. awaiting' \subseteq SubIds
    BY <1>13 DEF Land, Unsettled, ControlTypes
  <2> QED BY <1>13, <2>1, <2>2, <2>3 DEF Land, ControlTypes, database, aliases
<1>14. CASE UNCHANGED vars
  BY <1>14 DEF ControlTypes, vars, database, aliases, runtime, engine, outbox
<1> QED
  BY <1>1, <1>2, <1>3, <1>4, <1>5, <1>6, <1>7, <1>8, <1>9, <1>10, <1>11, <1>12, <1>13, <1>14
     DEF Next

(* The database, aliases, runtime and subscription state keep their types   *)
(* and bounds, whatever the keys, queries and transactions.                *)
THEOREM ControlTypesHold == Spec => []ControlTypes
<1>1. ControlTypes /\ [Next]_vars => ControlTypes'
  BY NextTypes
<1> QED BY InitTypes, <1>1, PTL DEF Spec

-----------------------------------------------------------------------------
(* Reads, snapshots and the remembered writes *)

(* Aliases are ordered as they were minted, the current one oldest and at   *)
(* or below the engine; the runtime's floor is the current one.            *)
SnapshotsInOrder ==
    /\ floor = current /\ current <= position /\ position <= Len(wal)
    /\ \A i \in 1 .. Len(waiting) : current <= waiting[i] /\ waiting[i] <= Len(wal)
    /\ \A i, j \in 1 .. Len(waiting) : i <= j => waiting[i] <= waiting[j]
    /\ minting # 0 =>
        /\ current <= minting /\ minting <= Len(wal)
        /\ \A i \in 1 .. Len(waiting) : waiting[i] <= minting

(* No read was issued under a floor the runtime has not reached, and an     *)
(* answered one is between its floor and the current alias.                *)
FlightsInOrder ==
    \A id \in ReadIds :
        /\ flights[id].floor <= floor
        /\ flights[id].state = "read" =>
            flights[id].floor <= flights[id].at /\ flights[id].at <= current

(* A read asked from now on, and every read out, finds what it needs.       *)
WritesRemembered ==
    \A l \in 2 .. position :
        /\ l > floor => l \in recent
        /\ \A id \in ReadIds : Out(flights[id]) /\ l > flights[id].floor => l \in recent

ReadInv == ControlTypes /\ SnapshotsInOrder /\ FlightsInOrder /\ WritesRemembered

(* What a step of the engine does to a read: nothing, ends it, or asks it   *)
(* (again) under the floor of the moment.                                  *)
KeptOrAsked(id) ==
    \/ flights'[id] = flights[id] \/ flights'[id] = NoFlight
    \/ \E query : flights'[id] = Asked(query)

LEMMA WokenOrAsked ==
    ASSUME NEW reads, NEW needs, NEW id \in ReadIds
    PROVE  \/ Reread(reads, needs)[id] = reads[id]
           \/ \E query : Reread(reads, needs)[id] = Asked(query)
BY DEF Reread

LEMMA WokenKept ==
    ASSUME NEW id \in ReadIds
    PROVE  Woken(flights)[id] = flights[id] \/ \E query : Woken(flights)[id] = Asked(query)
BY DEF Woken

LEMMA MovedInOrder ==
    ASSUME ControlTypes, SnapshotsInOrder, UNCHANGED database,
           NEW to \in Nat, position <= to, to <= Len(wal), Moved(to)
    PROVE  SnapshotsInOrder' /\ floor <= floor' /\ current <= current' /\ position' = to
<1>1. PICK n \in 0 .. Len(waiting) :
        /\ \A i \in 1 .. n : waiting[i] <= to
        /\ current' = IF n = 0 THEN current ELSE waiting[n]
        /\ waiting' = SubSeq(waiting, n + 1, Len(waiting))
  BY DEF Moved, Advance
<1>2. /\ waiting \in Seq(Nat) /\ Len(waiting) \in Nat /\ current \in Nat /\ floor \in Nat
      /\ position \in Nat /\ minting \in Nat /\ Len(wal) \in Nat
  BY ConstantsAssumption DEF ControlTypes
<1>3. /\ Len(waiting') = Len(waiting) - n
      /\ \A i \in 1 .. Len(waiting') : waiting'[i] = waiting[n + i] /\ n + i \in 1 .. Len(waiting)
  <2>1. n + 1 \in 1 .. Len(waiting) + 1 /\ Len(waiting) \in n .. Len(waiting)
    BY <1>2
  <2>2. Len(waiting') = Len(waiting) - n
    BY <1>1, <1>2, <2>1
  <2>3. ASSUME NEW i \in 1 .. Len(waiting')
        PROVE  waiting'[i] = waiting[n + i] /\ n + i \in 1 .. Len(waiting)
    <3>1. n + i \in 1 .. Len(waiting) /\ (n + 1) + i - 1 = n + i
      BY <1>2, <2>2
    <3>2. waiting'[i] = waiting[(n + 1) + i - 1]
      BY <1>1, <1>2, <2>1, <2>2, <2>3
    <3> QED BY <3>1, <3>2
  <2> QED BY <2>2, <2>3
<1>4. current' \in Nat /\ current <= current' /\ current' <= to
  BY <1>1, <1>2 DEF SnapshotsInOrder
<1>5. floor' = current' /\ floor <= floor' /\ position' = to /\ minting' = minting
  BY <1>2, <1>4 DEF Moved, Later, SnapshotsInOrder
<1>6. \A i \in 1 .. Len(waiting') : current' <= waiting'[i] /\ waiting'[i] <= Len(wal)
  <2>1. CASE n = 0
    BY <1>1, <1>2, <1>3, <2>1 DEF SnapshotsInOrder
  <2>2. CASE n # 0
    <3>1. n \in 1 .. Len(waiting) /\ current' = waiting[n]
      BY <1>1, <1>2, <2>2
    <3>2. ASSUME NEW i \in 1 .. Len(waiting')
          PROVE  current' <= waiting'[i] /\ waiting'[i] <= Len(wal)
      <4>1. waiting'[i] = waiting[n + i] /\ n + i \in 1 .. Len(waiting) /\ n <= n + i
        BY <1>2, <1>3
      <4> QED BY <3>1, <4>1 DEF SnapshotsInOrder
    <3> QED BY <3>2
  <2> QED BY <2>1, <2>2
<1>7. \A i, j \in 1 .. Len(waiting') : i <= j => waiting'[i] <= waiting'[j]
  <2> SUFFICES ASSUME NEW i \in 1 .. Len(waiting'), NEW j \in 1 .. Len(waiting'), i <= j
               PROVE  waiting'[i] <= waiting'[j]
    OBVIOUS
  <2>1. n + i \in 1 .. Len(waiting) /\ n + j \in 1 .. Len(waiting) /\ n + i <= n + j
    BY <1>2, <1>3
  <2>2. waiting[n + i] <= waiting[n + j]
    BY <2>1 DEF SnapshotsInOrder
  <2> QED BY <1>3, <2>2
<1>8. minting' # 0 =>
        /\ current' <= minting' /\ minting' <= Len(wal)
        /\ \A i \in 1 .. Len(waiting') : waiting'[i] <= minting'
  BY <1>1, <1>2, <1>3, <1>5 DEF SnapshotsInOrder
<1>9. wal' = wal
  BY DEF database
<1> QED BY <1>4, <1>5, <1>6, <1>7, <1>8, <1>9 DEF SnapshotsInOrder

(* The runtime's buffer argument: whatever a step does to the reads, the    *)
(* trim after it keeps what they need, because no read's floor is above    *)
(* the runtime's and a read asked now starts from it.                      *)
LEMMA TrimKeepsCover ==
    ASSUME ReadInv, ControlTypes', \A id \in ReadIds : KeptOrAsked(id),
           floor <= floor', current <= current',
           NEW locations, recent \subseteq locations,
           recent' = Trimmed(locations, flights', floor'),
           \A l \in 2 .. position' : l \in 2 .. position \/ l \in locations
    PROVE  FlightsInOrder' /\ WritesRemembered'
<1> USE DEF ReadInv
<1>1. /\ floor \in Nat /\ floor' \in Nat /\ current \in Nat /\ current' \in Nat
      /\ position \in Nat /\ position' \in Nat
      /\ \A id \in ReadIds : flights[id].floor \in Nat /\ flights[id].at \in Nat
  BY ConstantsAssumption, SMTT(30) DEF ControlTypes, Flights
<1>2. ASSUME NEW id \in ReadIds
      PROVE  /\ flights'[id].floor <= floor'
             /\ flights'[id].state = "read" =>
                    flights'[id].floor <= flights'[id].at /\ flights'[id].at <= current'
  <2>1. CASE flights'[id] = flights[id]
    BY <1>1, <2>1 DEF FlightsInOrder
  <2>2. CASE flights'[id] = NoFlight
    BY <1>1, <2>2 DEF NoFlight
  <2>3. CASE \E query : flights'[id] = Asked(query)
    BY <1>1, <2>3 DEF Asked
  <2> QED BY <2>1, <2>2, <2>3 DEF KeptOrAsked
<1>3. ASSUME NEW l \in 2 .. position', l > floor' PROVE l \in recent'
  <2>1. l > floor
    BY <1>1, <1>3
  <2>2. l \in locations
    BY <2>1 DEF WritesRemembered
  <2> QED BY <1>3, <2>2 DEF Trimmed
<1>4. ASSUME NEW l \in 2 .. position', NEW id \in ReadIds,
             Out(flights'[id]), l > flights'[id].floor
      PROVE  l \in recent'
  <2>1. l \in locations
    <3>1. CASE flights'[id] = flights[id]
      BY <1>4, <3>1 DEF WritesRemembered
    <3>2. CASE flights'[id] = NoFlight
      BY <1>4, <3>2 DEF NoFlight, Out
    <3>3. CASE \E query : flights'[id] = Asked(query)
      BY <1>4, <3>3 DEF Asked, WritesRemembered
    <3> QED BY <3>1, <3>2, <3>3 DEF KeptOrAsked
  <2> QED BY <1>4, <2>1 DEF Trimmed
<1> QED BY <1>2, <1>3, <1>4 DEF FlightsInOrder, WritesRemembered
LEMMA InitReadInv == Init => ReadInv
<1> SUFFICES ASSUME Init PROVE ReadInv
  OBVIOUS
<1>1. Len(wal) = 1 /\ Len(waiting) = 1 /\ waiting[1] = 1
  BY DEF Init
<1>2. SnapshotsInOrder
  BY <1>1 DEF Init, SnapshotsInOrder
<1>3. FlightsInOrder
  BY DEF Init, FlightsInOrder, NoFlight
<1>4. WritesRemembered
  BY DEF Init, WritesRemembered
<1> QED BY <1>2, <1>3, <1>4, InitTypes DEF ReadInv

(* A step that delivers no write and leaves the floor and the remembered    *)
(* writes alone may keep reads, end them, or issue them anew.               *)
LEMMA ReadsKeepCover ==
    ASSUME ReadInv, ControlTypes', UNCHANGED <<floor, recent>>,
           \A l \in 2 .. position' : l \in 2 .. position, current <= current',
           \A id \in ReadIds : KeptOrAsked(id)
    PROVE  FlightsInOrder' /\ WritesRemembered'
<1> USE DEF ReadInv
<1>1. /\ floor \in Nat /\ current \in Nat /\ current' \in Nat
      /\ \A id \in ReadIds : flights[id].floor \in Nat /\ flights[id].at \in Nat
  BY ConstantsAssumption, SMTT(30) DEF ControlTypes, Flights
<1>2. ASSUME NEW id \in ReadIds
      PROVE  /\ flights'[id].floor <= floor'
             /\ flights'[id].state = "read" =>
                    flights'[id].floor <= flights'[id].at /\ flights'[id].at <= current'
             /\ \A l \in 2 .. position' :
                    Out(flights'[id]) /\ l > flights'[id].floor => l \in recent'
  <2>1. CASE flights'[id] = flights[id]
    BY <1>1, <2>1 DEF FlightsInOrder, WritesRemembered
  <2>2. CASE flights'[id] = NoFlight
    BY <1>1, <2>2 DEF NoFlight, Out
  <2>3. CASE \E query : flights'[id] = Asked(query)
    BY <1>1, <2>3 DEF Asked, WritesRemembered
  <2> QED BY <2>1, <2>2, <2>3 DEF KeptOrAsked
<1>3. \A l \in 2 .. position' : l > floor' => l \in recent'
  BY DEF WritesRemembered
<1> QED BY <1>2, <1>3 DEF FlightsInOrder, WritesRemembered

(* Progress of one read: answered at the current alias, failed, refused or  *)
(* parked, it keeps the floor it was issued under.                         *)
LEMMA OneReadMoves ==
    ASSUME ReadInv, ControlTypes', UNCHANGED <<position, floor, recent, current>>,
           NEW id \in ReadIds, Out(flights[id]),
           \A other \in ReadIds \ {id} : flights'[other] = flights[other],
           flights'[id].floor = flights[id].floor,
           flights'[id].state = "read" => flights'[id].at = current
    PROVE  FlightsInOrder' /\ WritesRemembered'
<1> USE DEF ReadInv
<1>1. floor = current /\ current \in Nat
  BY ConstantsAssumption DEF SnapshotsInOrder, ControlTypes
<1>2. flights'[id].floor <= floor' /\ flights'[id].floor <= current'
  BY <1>1 DEF FlightsInOrder
<1>3. FlightsInOrder'
  BY <1>1, <1>2 DEF FlightsInOrder
<1>4. WritesRemembered'
  BY DEF WritesRemembered
<1> QED BY <1>3, <1>4
(* Reads before and after a transaction is routed or a read lands. *)
LEMMA CommitKeeps ==
    ASSUME Commit, NEW id \in ReadIds PROVE KeptOrAsked(id)
<1>1. \E needs : flights' = Reread(Woken(flights), needs)
  BY DEF Commit, Route
<1>2. Woken(flights)[id] = flights[id] \/ \E query : Woken(flights)[id] = Asked(query)
  BY WokenKept
<1>3. flights'[id] = Woken(flights)[id] \/ \E query : flights'[id] = Asked(query)
  BY <1>1, WokenOrAsked
<1> QED BY <1>2, <1>3 DEF KeptOrAsked

LEMMA LandKeeps ==
    ASSUME ControlTypes, NEW landed \in ReadIds, Land(landed), NEW id \in ReadIds
    PROVE  KeptOrAsked(id)
<1> DEFINE over == [flights EXCEPT ![landed] = NoFlight]
<1>1. PICK needs : flights' = Reread(over, needs)
  BY DEF Land, LandRows
<1>2. over[id] = flights[id] \/ over[id] = NoFlight
  BY DEF ControlTypes
<1> HIDE DEF over
<1>3. flights'[id] = over[id] \/ \E query : flights'[id] = Asked(query)
  BY <1>1, WokenOrAsked
<1> QED BY <1>2, <1>3 DEF KeptOrAsked

LEMMA CommitReadInv == ASSUME ReadInv, Commit PROVE ReadInv'
<1> DEFINE at == Later(position, 1) + 1
<1>1. ControlTypes /\ ControlTypes'
  BY CommitTypes DEF ReadInv
<1>2. /\ at \in Nat /\ position <= at /\ at <= Len(wal) /\ Moved(at) /\ UNCHANGED database
      /\ recent' = Trimmed(recent \cup {at}, flights', floor')
      /\ \A l \in 2 .. at : l \in 2 .. position \/ l = at
  BY <1>1, ConstantsAssumption, SMTT(30) DEF Commit, Later, ControlTypes
<1> HIDE DEF at
<1>3. SnapshotsInOrder' /\ floor <= floor' /\ current <= current' /\ position' = at
  BY <1>1, <1>2, MovedInOrder DEF ReadInv
<1>4. \A id \in ReadIds : KeptOrAsked(id)
  BY CommitKeeps
<1>5. FlightsInOrder' /\ WritesRemembered'
  <2>1. recent \subseteq recent \cup {at}
    OBVIOUS
  <2>2. \A l \in 2 .. position' : l \in 2 .. position \/ l \in recent \cup {at}
    BY <1>2, <1>3
  <2> QED BY <1>1, <1>2, <1>3, <1>4, <2>1, <2>2, TrimKeepsCover
<1> QED BY <1>1, <1>3, <1>5 DEF ReadInv

LEMMA MarkReadInv == ASSUME ReadInv, Mark PROVE ReadInv'
<1> DEFINE to == Later(position, 1)
<1>1. ControlTypes /\ ControlTypes'
  BY MarkTypes DEF ReadInv
<1>2. /\ to \in Nat /\ position <= to /\ to <= Len(wal) /\ Moved(to) /\ UNCHANGED database
      /\ \A l \in 2 .. to : l \in 2 .. position
  BY <1>1, ConstantsAssumption, SMTT(30) DEF Mark, Later, ControlTypes, ReadInv, SnapshotsInOrder
<1> HIDE DEF to
<1>3. SnapshotsInOrder' /\ floor <= floor' /\ current <= current' /\ position' = to
  BY <1>1, <1>2, MovedInOrder DEF ReadInv
<1>4. \A id \in ReadIds : KeptOrAsked(id)
  BY WokenKept DEF Mark, KeptOrAsked
<1>5. FlightsInOrder' /\ WritesRemembered'
  <2>1. CASE floor' > floor
    <3>1. recent' = Trimmed(recent, flights', floor')
      BY <2>1 DEF Mark
    <3>2. \A l \in 2 .. position' : l \in 2 .. position \/ l \in recent
      BY <1>2, <1>3
    <3> QED BY <1>1, <1>3, <1>4, <3>1, <3>2, TrimKeepsCover
  <2>2. CASE ~(floor' > floor)
    <3>1. floor' = floor /\ recent' = recent
      BY <1>1, <1>3, <2>2, ConstantsAssumption DEF Mark, ControlTypes
    <3> QED BY <1>1, <1>2, <1>3, <1>4, <3>1, ReadsKeepCover
  <2> QED BY <2>1, <2>2
<1> QED BY <1>1, <1>3, <1>5 DEF ReadInv

LEMMA RegisterReadInv ==
    ASSUME ReadInv, NEW s \in SubIds, NEW query \in Queries, Register(s, query)
    PROVE  ReadInv'
<1>1. ControlTypes /\ ControlTypes'
  BY RegisterTypes DEF ReadInv
<1>2. UNCHANGED <<database, aliases, position, floor, recent>>
  BY DEF Register
<1>3. ASSUME NEW id \in ReadIds PROVE KeptOrAsked(id)
  <2>1. \/ UNCHANGED flights
        \/ \E slot \in Slots : flights' = [flights EXCEPT ![slot] = Asked(query)]
    BY DEF Register
  <2> QED BY <1>1, <2>1 DEF KeptOrAsked, ControlTypes
<1>4. FlightsInOrder' /\ WritesRemembered'
  <2>1. current' \in Nat /\ current = current' /\ position = position'
    BY <1>1, <1>2, ConstantsAssumption DEF ControlTypes, aliases
  <2> QED BY <1>1, <1>2, <1>3, <2>1, ReadsKeepCover
<1>5. SnapshotsInOrder'
  BY <1>2 DEF ReadInv, SnapshotsInOrder, database, aliases
<1> QED BY <1>1, <1>4, <1>5 DEF ReadInv

LEMMA StorageReadInv ==
    ASSUME ReadInv, NEW id \in ReadIds, ControlTypes',
           \/ StorageRead(id) \/ StorageFails(id) \/ StorageRefuses(id) \/ Park(id)
    PROVE  ReadInv'
<1>1. /\ UNCHANGED <<database, aliases, position, floor, recent>>
      /\ Out(flights[id])
      /\ \A other \in ReadIds \ {id} : flights'[other] = flights[other]
      /\ flights'[id].floor = flights[id].floor
      /\ flights'[id].state = "read" => flights'[id].at = current
  <2>1. flights \in [ReadIds -> Flights]
    BY DEF ReadInv, ControlTypes
  <2>2. CASE StorageRead(id)
    BY <2>1, <2>2 DEF StorageRead, Out, Flights
  <2>3. CASE StorageFails(id) \/ StorageRefuses(id)
    BY <2>1, <2>3 DEF StorageFails, StorageRefuses, StorageEnds, Out, Flights
  <2>4. CASE Park(id)
    BY <2>1, <2>4 DEF Park, Out, Flights
  <2> QED BY <2>2, <2>3, <2>4
<1>2. FlightsInOrder' /\ WritesRemembered'
  BY <1>1, OneReadMoves DEF aliases
<1>3. SnapshotsInOrder'
  BY <1>1 DEF ReadInv, SnapshotsInOrder, database, aliases
<1> QED BY <1>2, <1>3 DEF ReadInv

(* A read taken up, refused or landed, is over; the trim forgets what only  *)
(* it needed.                                                              *)
LEMMA TakenUpReadInv ==
    ASSUME ReadInv, NEW id \in ReadIds, ControlTypes', Refuse(id) \/ Land(id)
    PROVE  ReadInv'
<1>1. /\ UNCHANGED <<database, aliases, position, floor>>
      /\ recent' = Trimmed(recent, flights', floor')
  BY DEF Refuse, Land
<1>2. ASSUME NEW other \in ReadIds PROVE KeptOrAsked(other)
  <2>1. CASE Refuse(id)
    BY <2>1 DEF Refuse, KeptOrAsked, ReadInv, ControlTypes
  <2>2. CASE Land(id)
    BY <2>2, LandKeeps DEF ReadInv
  <2> QED BY <2>1, <2>2
<1>3. floor <= floor' /\ current <= current'
  BY <1>1, ConstantsAssumption DEF ReadInv, ControlTypes, aliases
<1>4. FlightsInOrder' /\ WritesRemembered'
  <2>1. \A l \in 2 .. position' : l \in 2 .. position \/ l \in recent
    BY <1>1
  <2> QED BY <1>1, <1>2, <1>3, <2>1, TrimKeepsCover
<1>5. SnapshotsInOrder'
  BY <1>1 DEF ReadInv, SnapshotsInOrder, database, aliases
<1> QED BY <1>4, <1>5 DEF ReadInv

(* Every step keeps the reads' invariant. *)
LEMMA NextReadInv == ASSUME ReadInv, [Next]_vars PROVE ReadInv'
<1>1. ControlTypes /\ ControlTypes'
  BY NextTypes DEF ReadInv
<1>2. /\ \A i \in 1 .. Len(waiting) : waiting[i] \in Nat
      /\ current \in Nat /\ minting \in Nat /\ position \in Nat
      /\ Len(wal) \in Nat /\ Len(waiting) \in Nat
  <2>1. waiting \in Seq(1 .. MaxLsn) /\ Len(wal) \in 1 .. MaxLsn
    BY <1>1 DEF ControlTypes
  <2>2. current \in 0 .. MaxLsn /\ minting \in 0 .. MaxLsn /\ position \in 0 .. MaxLsn
    BY <1>1 DEF ControlTypes
  <2>3. Len(waiting) \in Nat /\ \A i \in 1 .. Len(waiting) : waiting[i] \in 1 .. MaxLsn
    <3>1. PICK S, q : S = 1 .. MaxLsn /\ q = waiting
      OBVIOUS
    <3>2. q \in Seq(S)
      BY <2>1, <3>1
    <3>3. Len(q) \in Nat /\ \A i \in 1 .. Len(q) : q[i] \in S
      BY <3>2
    <3> QED BY <3>1, <3>3
  <2> QED BY <2>1, <2>2, <2>3, ConstantsAssumption
<1>3. CASE DbCommit
  <2>1. Len(wal') = Len(wal) + 1
    BY <1>1, <1>3 DEF DbCommit, ControlTypes
  <2>2. SnapshotsInOrder'
    BY <1>2, <1>3, <2>1 DEF DbCommit, ReadInv, SnapshotsInOrder, aliases, runtime
  <2>3. FlightsInOrder' /\ WritesRemembered'
    BY <1>3 DEF DbCommit, ReadInv, FlightsInOrder, WritesRemembered, aliases, runtime
  <2> QED BY <1>1, <2>2, <2>3 DEF ReadInv
<1>4. CASE Mint \/ MintDone \/ MintFails
  <2>1. FlightsInOrder' /\ WritesRemembered'
    BY <1>4 DEF Mint, MintDone, MintFails, ReadInv, FlightsInOrder, WritesRemembered, runtime
  <2>2. ASSUME Mint PROVE SnapshotsInOrder'
    BY <1>2, <2>2 DEF Mint, ReadInv, SnapshotsInOrder, database, runtime
  <2>3. ASSUME MintDone PROVE SnapshotsInOrder'
    <3>1. /\ Len(waiting') = Len(waiting) + 1 /\ waiting'[Len(waiting) + 1] = minting
          /\ \A i \in 1 .. Len(waiting) : waiting'[i] = waiting[i]
      BY <1>1, <2>3, ConstantsAssumption DEF MintDone, ControlTypes
    <3>2. \A i \in 1 .. Len(waiting') : current <= waiting'[i] /\ waiting'[i] <= Len(wal)
      BY <1>2, <2>3, <3>1 DEF MintDone, ReadInv, SnapshotsInOrder
    <3>3. \A i, j \in 1 .. Len(waiting') : i <= j => waiting'[i] <= waiting'[j]
      BY <1>2, <2>3, <3>1 DEF MintDone, ReadInv, SnapshotsInOrder
    <3> QED BY <2>3, <3>2, <3>3 DEF MintDone, ReadInv, SnapshotsInOrder, database, runtime
  <2>4. ASSUME MintFails PROVE SnapshotsInOrder'
    BY <2>4 DEF MintFails, ReadInv, SnapshotsInOrder, database, runtime
  <2> QED BY <1>1, <1>4, <2>1, <2>2, <2>3, <2>4 DEF ReadInv
<1>5. CASE Commit
  BY <1>5, CommitReadInv
<1>6. CASE Mark
  BY <1>6, MarkReadInv
<1>7. CASE \E s \in SubIds : Unregister(s)
  BY <1>1, <1>7
     DEF Unregister, ReadInv, SnapshotsInOrder, FlightsInOrder, WritesRemembered,
         database, aliases, runtime
<1>8. CASE \E s \in SubIds, query \in Queries : Register(s, query)
  BY <1>8, RegisterReadInv
<1>9. CASE \E id \in ReadIds :
             StorageRead(id) \/ StorageFails(id) \/ StorageRefuses(id) \/ Park(id)
  BY <1>1, <1>9, StorageReadInv
<1>10. CASE \E id \in ReadIds : Refuse(id) \/ Land(id)
  BY <1>1, <1>10, TakenUpReadInv
<1>11. CASE UNCHANGED vars
  BY <1>1, <1>11
     DEF ReadInv, SnapshotsInOrder, FlightsInOrder, WritesRemembered,
         vars, database, aliases, runtime
<1> QED BY <1>3, <1>4, <1>5, <1>6, <1>7, <1>8, <1>9, <1>10, <1>11 DEF Next

THEOREM ReadInvHolds == Spec => []ReadInv
<1>1. ReadInv /\ [Next]_vars => ReadInv'
  BY NextReadInv
<1> QED BY InitReadInv, <1>1, PTL DEF Spec

(* A read is never positioned ahead of the engine nor below the floor it    *)
(* was issued under: the assertion of Runtime::fetched never fires.         *)
THEOREM ReadsStayWithinReach == Spec => []ReadsWithinReach
<1>1. ReadInv => ReadsWithinReach
  <2> SUFFICES ASSUME ReadInv, NEW id \in ReadIds, flights[id].state = "read"
               PROVE  flights[id].floor <= flights[id].at /\ flights[id].at <= position
    BY DEF ReadsWithinReach
  <2>1. flights[id].at \in Nat /\ current \in Nat /\ position \in Nat
    BY ConstantsAssumption DEF ReadInv, ControlTypes, Flights
  <2> QED BY <2>1 DEF ReadInv, FlightsInOrder, SnapshotsInOrder
<1> QED BY <1>1, ReadInvHolds, PTL

(* Runtime::trim never forgets a write that a read in flight may need.      *)
THEOREM BufferAlwaysCovers == Spec => []BufferCoversReads
<1>1. ReadInv => BufferCoversReads
  <2> SUFFICES ASSUME ReadInv, NEW id \in ReadIds, Out(flights[id]), NEW l \in 2 .. position,
                      l > (IF flights[id].state = "read" THEN flights[id].at
                                                         ELSE flights[id].floor)
               PROVE  l \in recent
    BY DEF BufferCoversReads
  <2>1. flights[id].at \in Nat /\ flights[id].floor \in Nat /\ position \in Nat
    BY ConstantsAssumption DEF ReadInv, ControlTypes, Flights
  <2>2. l > flights[id].floor
    BY <2>1 DEF ReadInv, FlightsInOrder
  <2> QED BY <2>2 DEF ReadInv, WritesRemembered
<1> QED BY <1>1, ReadInvHolds, PTL
-----------------------------------------------------------------------------
(* What clients are shown *)

(* Each table is the one before it with the transaction's writes stored;    *)
(* only an existing row is deleted or written without its large value.      *)
DbFollows ==
    \A l \in 2 .. Len(wal) : \A k \in Keys :
        /\ k \notin DOMAIN wal[l] => db[l][k] = db[l - 1][k]
        /\ k \in DOMAIN wal[l] =>
            /\ db[l][k] = Stored(wal[l][k], db[l - 1][k])
            /\ wal[l][k] \in PartialImages \cup {NoRow} => db[l - 1][k] # NoRow

(* A shared row is somebody's, the database's at the engine's position, and *)
(* fits each query it is tagged for.                                       *)
FrameCurrent ==
    \A k \in Keys :
        /\ frame[k] = NoRow <=> held[k] = {}
        /\ frame[k] # NoRow => frame[k] = Applied[k]
        /\ \A s \in held[k] : Matches(subs[s], frame[k])

(* A client's rows are the shared rows tagged for it. *)
ViewsFollow ==
    view = [s \in SubIds |-> [k \in Keys |-> IF s \in held[k] THEN frame[k] ELSE NoRow]]

AnsweredSomewhere ==
    \A id \in ReadIds : flights[id].state = "read" => flights[id].at # 0

ShownInv ==
    /\ ReadInv /\ DbFollows /\ FrameCurrent /\ ViewsFollow /\ AnsweredSomewhere
    /\ \A k \in Keys : held[k] \subseteq Registered

\* Every set of naturals has a least element: what the provers have for induction.
LEMMA LeastNat ==
    ASSUME NEW T \in SUBSET Nat, T # {}
    PROVE  \E m \in T : \A n \in T : m <= n
<1>1. PICK m \in T : \A n \in T : ~ (<<n, m>> \in OpToRel(<, Nat))
  BY WFMin, NatLessThanWellFounded, Zenon
<1>2. \A n \in T : ~(n < m)
  BY <1>1, Zenon DEF OpToRel
<1> QED BY <1>2

\* One remembered write applied to a result, and the result as it came.
Step(id, l, old) ==
    [k \in Keys |-> IF l \in recent /\ k \in DOMAIN wal[l]
                    THEN Refreshed(id, k, old[k], wal[l][k]) ELSE old[k]]
Came(id) ==
    [k \in Keys |-> IF Admits(id, k, db[flights[id].at][k]) THEN db[flights[id].at][k] ELSE NoRow]
Brings(f, id, top) ==
    f = [l \in flights[id].at .. top |->
            IF l = flights[id].at THEN Came(id) ELSE Step(id, l, f[l - 1])]

LEMMA BringsFirst ==
    ASSUME NEW id, flights[id].at \in Nat
    PROVE  \E f : Brings(f, id, flights[id].at)
<1> DEFINE at == flights[id].at
           f == [l \in at .. at |-> Came(id)]
<1>1. \A l \in at .. at : l = at
  OBVIOUS
<1>2. f = [l \in at .. at |-> IF l = at THEN Came(id) ELSE Step(id, l, f[l - 1])]
  BY <1>1
<1> HIDE DEF f
<1> QED BY <1>2 DEF Brings

LEMMA BringsNext ==
    ASSUME NEW id, flights[id].at \in Nat, NEW n \in Nat, n > flights[id].at,
           NEW f, Brings(f, id, n - 1)
    PROVE  \E g : Brings(g, id, n)
<1> DEFINE at == flights[id].at
           body(h, l) == IF l = at THEN Came(id) ELSE Step(id, l, h[l - 1])
           g == [l \in at .. n |-> IF l = n THEN Step(id, n, f[n - 1]) ELSE f[l]]
<1>1. n - 1 \in at .. n - 1 /\ n # at /\ n \in at .. n /\ n - 1 # n
  OBVIOUS
<1>2. \A l \in at .. n : l # n => l \in at .. n - 1
  OBVIOUS
<1>3. \A l \in at .. n : l # n /\ l # at => l - 1 \in at .. n - 1 /\ l - 1 # n /\ l - 1 \in at .. n
  OBVIOUS
<1>4. \A l \in at .. n - 1 : f[l] = body(f, l)
  BY DEF Brings
<1>5. ASSUME NEW l \in at .. n PROVE g[l] = body(g, l)
  <2>1. CASE l = n
    <3>1. g[n - 1] = f[n - 1]
      BY <1>1
    <3>2. g[n] = Step(id, n, f[n - 1])
      BY <1>1
    <3> HIDE DEF g
    <3> QED BY <1>1, <2>1, <3>1, <3>2
  <2>2. CASE l # n /\ l = at
    <3>1. g[l] = f[l]
      BY <2>2
    <3> QED BY <1>2, <1>4, <2>2, <3>1
  <2>3. CASE l # n /\ l # at
    <3>1. g[l] = f[l] /\ g[l - 1] = f[l - 1]
      BY <1>3, <2>3
    <3>2. f[l] = Step(id, l, f[l - 1])
      BY <1>2, <1>4, <2>3
    <3> HIDE DEF g
    <3> QED BY <2>3, <3>1, <3>2
  <2> QED BY <2>1, <2>2, <2>3
<1>6. g = [l \in at .. n |-> g[l]]
  OBVIOUS
<1> HIDE DEF g
<1>7. g = [l \in at .. n |-> body(g, l)]
  BY <1>5, <1>6
<1> QED BY <1>7 DEF Brings

LEMMA BringsExists ==
    ASSUME NEW id, flights[id].at \in Nat, NEW top \in Nat, top >= flights[id].at
    PROVE  \E f : Brings(f, id, top)
<1> DEFINE at == flights[id].at
           Bad == {n \in Nat : n >= at /\ ~ \E f : Brings(f, id, n)}
<1> SUFFICES ASSUME Bad # {} PROVE FALSE
  OBVIOUS
<1>1. PICK n \in Bad : \A m \in Bad : n <= m
  BY LeastNat
<1>2. n # at
  BY <1>1, BringsFirst
<1>3. n - 1 \in Nat /\ n - 1 >= at /\ n > at /\ n \in Nat
  BY <1>1, <1>2
<1>4. n - 1 \notin Bad
  BY <1>1, <1>3
<1>5. PICK f : Brings(f, id, n - 1)
  BY <1>3, <1>4
<1>6. \E g : Brings(g, id, n)
  BY <1>3, <1>5, BringsNext
<1> QED BY <1>1, <1>6

\* What BroughtUp computes, write by write.
LEMMA BroughtUpStepwise ==
    ASSUME NEW id, flights[id].at \in Nat, Later(position, flights[id].at) \in Nat,
           Later(position, flights[id].at) >= flights[id].at
    PROVE  \E rows : /\ Brings(rows, id, Later(position, flights[id].at))
                     /\ BroughtUp(id) = rows[Later(position, flights[id].at)]
<1> DEFINE top == Later(position, flights[id].at)
           rows == CHOOSE f : Brings(f, id, top)
<1>1. Brings(rows, id, top)
  BY BringsExists, Zenon
<1>2. BroughtUp(id) = rows[top]
  BY Zenon DEF BroughtUp, Brings, Step, Came
<1> QED BY <1>1, <1>2, Zenon

-----------------------------------------------------------------------------
(* A result brought up to date *)

(* An image as much as the feed and a read tell of a row: whole, or without *)
(* its large value.                                                        *)
Tells(image, row) ==
    /\ image \in Images \cup PartialImages /\ row # NoRow
    /\ image.small = row.small /\ image.large \in {Omitted, row.large}

LEMMA RowTells == ASSUME NEW row \in Images PROVE Tells(row, row)
BY ConstantsAssumption DEF Tells, Images

LEMMA WholeTells ==
    ASSUME NEW row \in Images, NEW image, Tells(image, row), ~IsPartial(image)
    PROVE  image = row
BY ConstantsAssumption DEF Tells, IsPartial, Images, PartialImages

LEMMA ImageParts ==
    ASSUME NEW image \in Images \cup PartialImages \cup {NoRow}
    PROVE  /\ IsPartial(image) <=> image \in PartialImages
           /\ image \in Images => image # NoRow /\ image \notin PartialImages
           /\ image \in PartialImages => image # NoRow
BY ConstantsAssumption DEF IsPartial, Images, PartialImages

(* A write completed from an earlier image tells of the row it makes. *)
LEMMA CompletedTells ==
    ASSUME NEW new \in Images \cup PartialImages, NEW was \in Images \cup {NoRow},
           new \in PartialImages => was # NoRow,
           NEW old, old # NoRow => Tells(old, was)
    PROVE  Tells(Completed(new, old), Stored(new, was))
<1>1. IsPartial(new) <=> new \in PartialImages
  BY ImageParts
<1>2. CASE new \in Images
  <2>1. new \notin PartialImages
    BY <1>2, ImageParts
  <2>2. Completed(new, old) = new /\ Stored(new, was) = new
    BY <1>1, <2>1 DEF Completed, Stored
  <2> QED BY <1>2, <2>2, RowTells
<1>3. CASE new \in PartialImages /\ old = NoRow
  <2>1. Completed(new, old) = new
    BY <1>3 DEF Completed
  <2>2. Stored(new, was) = [new EXCEPT !.large = was.large] /\ was \in Images
    BY <1>3 DEF Stored
  <2>3. Stored(new, was) \in Images /\ Stored(new, was).small = new.small /\ new.large = Omitted
    BY <1>3, <2>2 DEF Images, PartialImages
  <2> QED BY <1>3, <2>1, <2>3, ImageParts DEF Tells
<1>4. CASE new \in PartialImages /\ old # NoRow
  <2>1. Completed(new, old) = [new EXCEPT !.large = old.large]
    BY <1>1, <1>4 DEF Completed
  <2>2. Stored(new, was) = [new EXCEPT !.large = was.large] /\ was \in Images
    BY <1>4 DEF Stored
  <2>3. Stored(new, was) \in Images /\ Stored(new, was).small = new.small
        /\ Stored(new, was).large = was.large
    BY <1>4, <2>2 DEF Images, PartialImages
  <2>4. old.large \in {Omitted, was.large} /\ was.large \in Large
    BY <1>4, <2>2 DEF Tells, Images
  <2>5. /\ Completed(new, old) \in Images \cup PartialImages
        /\ Completed(new, old).small = new.small /\ Completed(new, old).large = old.large
    BY <1>4, <2>1, <2>4 DEF Images, PartialImages
  <2> QED BY <2>3, <2>4, <2>5, ImageParts DEF Tells
<1> QED BY <1>2, <1>3, <1>4

LEMMA NoWriteCompleted == ASSUME NEW old PROVE Completed(NoRow, old) = NoRow
BY DEF Completed, IsPartial

LEMMA LogTyped ==
    ASSUME ControlTypes, NEW l \in 1 .. Len(wal)
    PROVE  /\ db[l] \in Tables /\ DOMAIN wal[l] \subseteq Keys
           /\ \A k \in DOMAIN wal[l] : wal[l][k] \in Images \cup PartialImages \cup {NoRow}
<1>1. wal[l] \in Writes /\ db[l] \in Tables
  BY DEF ControlTypes
<1>2. PICK S \in SUBSET Keys : wal[l] \in [S -> Images \cup PartialImages \cup {NoRow}]
  BY <1>1 DEF Writes
<1> QED BY <1>1, <1>2

(* What one transaction's write does to a row of the database, and to what  *)
(* was known of the row.                                                   *)
LEMMA WriteTells ==
    ASSUME ControlTypes, DbFollows, NEW l \in 2 .. Len(wal), NEW k \in Keys, k \in DOMAIN wal[l],
           NEW old, old # NoRow => Tells(old, db[l - 1][k])
    PROVE  /\ Completed(wal[l][k], old) # NoRow => Tells(Completed(wal[l][k], old), db[l][k])
           /\ db[l][k] # NoRow => Completed(wal[l][k], old) # NoRow
<1> DEFINE new == wal[l][k]
           was == db[l - 1][k]
<1>1. l - 1 \in 1 .. Len(wal) /\ l \in 1 .. Len(wal) /\ Len(wal) \in Nat
  BY DEF ControlTypes
<1>2. was \in Images \cup {NoRow} /\ new \in Images \cup PartialImages \cup {NoRow}
  BY <1>1, LogTyped DEF Tables
<1>3. db[l][k] = Stored(new, was) /\ (new \in PartialImages \cup {NoRow} => was # NoRow)
  BY DEF DbFollows
<1> HIDE DEF new, was
<1>4. CASE new = NoRow
  <2>1. Completed(new, old) = NoRow
    BY <1>4, NoWriteCompleted
  <2>2. NoRow \notin PartialImages
    BY ConstantsAssumption
  <2>3. Stored(new, was) = NoRow
    BY <1>4, <2>2 DEF Stored
  <2> QED BY <1>3, <2>1, <2>3 DEF new
<1>5. CASE new \in Images \cup PartialImages
  <2>1. old # NoRow => Tells(old, was)
    BY DEF was
  <2>2. new \in PartialImages => was # NoRow
    BY <1>3
  <2>3. Tells(Completed(new, old), Stored(new, was))
    BY <1>2, <1>5, <2>1, <2>2, CompletedTells
  <2>4. Completed(new, old) # NoRow
    BY <2>3, ConstantsAssumption DEF Tells
  <2> QED BY <1>3, <2>3, <2>4 DEF new
<1> QED BY <1>2, <1>4, <1>5

\* What a read may bring of a row: nothing, or what tells of it.
Sound(rows, l) == \A k \in Keys : rows[k] # NoRow => Tells(rows[k], db[l][k])

LEMMA CameSound ==
    ASSUME ControlTypes, NEW id \in ReadIds, flights[id].at \in 1 .. Len(wal)
    PROVE  Sound(Came(id), flights[id].at)
<1> SUFFICES ASSUME NEW k \in Keys, Came(id)[k] # NoRow
             PROVE  Tells(Came(id)[k], db[flights[id].at][k])
  BY DEF Sound
<1>1. Came(id)[k] = db[flights[id].at][k]
  BY DEF Came
<1>2. db[flights[id].at][k] \in Images \cup {NoRow}
  BY LogTyped DEF Tables
<1> QED BY <1>1, <1>2, RowTells

LEMMA StepSound ==
    ASSUME ControlTypes, DbFollows, NEW id \in ReadIds, NEW l \in 2 .. Len(wal), l \in recent,
           NEW old, Sound(old, l - 1)
    PROVE  Sound(Step(id, l, old), l)
<1> SUFFICES ASSUME NEW k \in Keys, Step(id, l, old)[k] # NoRow
             PROVE  Tells(Step(id, l, old)[k], db[l][k])
  BY DEF Sound
<1>1. CASE k \in DOMAIN wal[l]
  <2>1. Step(id, l, old)[k] = Refreshed(id, k, old[k], wal[l][k])
    BY <1>1 DEF Step
  <2>2. Step(id, l, old)[k] = Completed(wal[l][k], old[k])
    BY <2>1 DEF Refreshed
  <2> QED BY <1>1, <2>2, WriteTells DEF Sound
<1>2. CASE k \notin DOMAIN wal[l]
  <2>1. Step(id, l, old)[k] = old[k] /\ db[l][k] = db[l - 1][k]
    BY <1>2 DEF Step, DbFollows
  <2> QED BY <2>1 DEF Sound
<1> QED BY <1>1, <1>2

\* Otherwise there is a first location at which it does not hold: not the
\* snapshot's, by CameSound, nor a later one, by StepSound.
LEMMA BroughtSound ==
    ASSUME ControlTypes, DbFollows, NEW id \in ReadIds, NEW top \in 1 .. Len(wal),
           flights[id].at \in 1 .. top,
           \A l \in flights[id].at + 1 .. top : l \in recent,
           NEW rows, Brings(rows, id, top)
    PROVE  \A l \in flights[id].at .. top : Sound(rows[l], l)
<1> DEFINE at == flights[id].at
           Bad == {l \in at .. top : ~Sound(rows[l], l)}
<1>0. Len(wal) \in Nat /\ at \in Nat /\ top \in Nat /\ at \in 1 .. Len(wal)
  BY DEF ControlTypes
<1> SUFFICES ASSUME Bad # {} PROVE FALSE
  OBVIOUS
<1>1. PICK l \in Bad : \A m \in Bad : l <= m
  <2>1. Bad \in SUBSET Nat
    BY <1>0
  <2> HIDE DEF Bad
  <2> QED BY <2>1, LeastNat
<1>2. rows[l] = IF l = at THEN Came(id) ELSE Step(id, l, rows[l - 1])
  BY <1>1 DEF Brings
<1>3. l # at
  BY <1>0, <1>1, <1>2, CameSound
<1>4. l - 1 \in at .. top /\ l \in 2 .. Len(wal) /\ l \in at + 1 .. top
  BY <1>0, <1>1, <1>3
<1>5. Sound(rows[l - 1], l - 1)
  BY <1>0, <1>1, <1>4
<1>6. Sound(Step(id, l, rows[l - 1]), l)
  BY <1>4, <1>5, StepSound
<1> QED BY <1>1, <1>2, <1>3, <1>6

-----------------------------------------------------------------------------
(* What a step leaves shown *)

LEMMA PositionInLog ==
    ASSUME ReadInv PROVE Later(position, 1) \in 1 .. Len(wal) /\ Len(wal) \in Nat /\ position \in Nat
BY ConstantsAssumption DEF ReadInv, ControlTypes, SnapshotsInOrder, Later

LEMMA InitShown == Init => ShownInv
<1> SUFFICES ASSUME Init PROVE ShownInv
  OBVIOUS
<1>1. ReadInv
  BY InitReadInv
<1>2. DbFollows
  BY DEF Init, DbFollows
<1>3. FrameCurrent /\ ViewsFollow /\ \A k \in Keys : held[k] \subseteq Registered
  BY DEF Init, FrameCurrent, ViewsFollow
<1>4. AnsweredSomewhere
  BY DEF Init, AnsweredSomewhere, NoFlight
<1> QED BY <1>1, <1>2, <1>3, <1>4 DEF ShownInv

\* A step that leaves the log, the engine and what is shown alone.
LEMMA ShownStays ==
    ASSUME ShownInv, ReadInv', AnsweredSomewhere', UNCHANGED <<database, subs, frame, held, view>>,
           Later(position', 1) = Later(position, 1)
    PROVE  ShownInv'
<1>1. Applied' = Applied
  BY DEF Applied, database
<1>2. DbFollows' /\ FrameCurrent' /\ ViewsFollow' /\ \A k \in Keys : held'[k] \subseteq Registered'
  BY <1>1 DEF ShownInv, DbFollows, FrameCurrent, ViewsFollow, Registered, database
<1> QED BY <1>2 DEF ShownInv

LEMMA DbCommitShown == ASSUME ShownInv, DbCommit PROVE ShownInv'
<1>1. ReadInv'
  BY NextReadInv DEF ShownInv, Next
<1>2. PICK txn \in Transactions :
        /\ Possible(txn)
        /\ wal' = Append(wal, txn)
        /\ db' = Append(db, [k \in Keys |-> IF k \in DOMAIN txn
                                            THEN Stored(txn[k], db[Len(db)][k])
                                            ELSE db[Len(db)][k]])
  BY DEF DbCommit
<1> DEFINE n == Len(wal)
           next == [k \in Keys |-> IF k \in DOMAIN txn
                                   THEN Stored(txn[k], db[Len(db)][k]) ELSE db[Len(db)][k]]
<1>3. wal \in Seq(Writes) /\ db \in Seq(Tables) /\ Len(db) = n /\ n \in Nat /\ n >= 1
  BY DEF ShownInv, ReadInv, ControlTypes
<1>4. /\ Len(wal') = n + 1 /\ wal'[n + 1] = txn /\ \A l \in 1 .. n : wal'[l] = wal[l]
      /\ db'[n + 1] = next /\ \A l \in 1 .. n : db'[l] = db[l]
  <2> HIDE DEF next
  <2> QED BY <1>2, <1>3 DEF next
<1>5. DbFollows'
  <2> SUFFICES ASSUME NEW l \in 2 .. Len(wal'), NEW k \in Keys
               PROVE  /\ k \notin DOMAIN wal'[l] => db'[l][k] = db'[l - 1][k]
                      /\ k \in DOMAIN wal'[l] =>
                          /\ db'[l][k] = Stored(wal'[l][k], db'[l - 1][k])
                          /\ wal'[l][k] \in PartialImages \cup {NoRow} => db'[l - 1][k] # NoRow
    BY DEF DbFollows
  <2>1. CASE l \in 2 .. n
    <3>1. l \in 1 .. n /\ l - 1 \in 1 .. n
      BY <1>3, <2>1
    <3>2. wal'[l] = wal[l] /\ db'[l] = db[l] /\ db'[l - 1] = db[l - 1]
      BY <1>4, <3>1
    <3> QED BY <2>1, <3>2 DEF ShownInv, DbFollows
  <2>2. CASE l = n + 1
    <3>1. l - 1 = n /\ n \in 1 .. n
      BY <1>3, <2>2
    <3>2. wal'[l] = txn /\ db'[l] = next /\ db'[l - 1] = db[n]
      BY <1>4, <2>2, <3>1
    <3> QED BY <1>2, <1>3, <3>2 DEF Possible
  <2> QED BY <1>3, <1>4, <2>1, <2>2
<1>6. Applied' = Applied
  <2>1. Later(position, 1) \in 1 .. n /\ position' = position
    BY PositionInLog DEF ShownInv, DbCommit, runtime
  <2> QED BY <1>4, <2>1 DEF Applied
<1>7. FrameCurrent' /\ ViewsFollow' /\ AnsweredSomewhere' /\ \A k \in Keys : held'[k] \subseteq Registered'
  BY <1>6 DEF ShownInv, FrameCurrent, ViewsFollow, AnsweredSomewhere, Registered, DbCommit,
              runtime, engine, outbox
<1> QED BY <1>1, <1>5, <1>7 DEF ShownInv

\* Subscriptions let go take nothing from the others.
LEMMA LetGoShown ==
    ASSUME ShownInv, ReadInv', AnsweredSomewhere', NEW gone, LetGo(gone),
           UNCHANGED <<database, position>>
    PROVE  ShownInv'
<1>1. Applied' = Applied /\ DbFollows'
  BY DEF Applied, ShownInv, DbFollows, database
<1>2. held \in [Keys -> SUBSET SubIds]
  BY DEF ShownInv, ReadInv, ControlTypes
<1>3. ASSUME NEW k \in Keys
      PROVE  /\ held'[k] = held[k] \ gone
             /\ frame'[k] = IF held[k] \subseteq gone THEN NoRow ELSE frame[k]
  BY DEF LetGo
<1>4. \A s \in SubIds : s \notin gone => subs'[s] = subs[s]
  BY DEF LetGo
<1>5. FrameCurrent'
  <2> SUFFICES ASSUME NEW k \in Keys
               PROVE  /\ frame'[k] = NoRow <=> held'[k] = {}
                      /\ frame'[k] # NoRow => frame'[k] = Applied'[k]
                      /\ \A s \in held'[k] : Matches(subs'[s], frame'[k])
    BY DEF FrameCurrent
  <2>1. /\ frame[k] = NoRow <=> held[k] = {}
        /\ frame[k] # NoRow => frame[k] = Applied[k]
        /\ \A s \in held[k] : Matches(subs[s], frame[k])
    BY DEF ShownInv, FrameCurrent
  <2>2. held[k] \subseteq gone <=> held'[k] = {}
    BY <1>3
  <2>3. frame'[k] = NoRow <=> held'[k] = {}
    BY <1>3, <2>1, <2>2
  <2>4. \A s \in held'[k] : s \in held[k] /\ subs'[s] = subs[s] /\ frame'[k] = frame[k]
    BY <1>2, <1>3, <1>4, <2>2
  <2> QED BY <1>1, <1>3, <2>1, <2>3, <2>4
<1>6. ViewsFollow'
  <2>1. view' = [s \in SubIds |-> IF s \in gone THEN [k \in Keys |-> NoRow] ELSE view[s]]
    BY DEF LetGo
  <2>2. view = [s \in SubIds |-> [k \in Keys |-> IF s \in held[k] THEN frame[k] ELSE NoRow]]
    BY DEF ShownInv, ViewsFollow
  <2>3. ASSUME NEW s \in SubIds, NEW k \in Keys
        PROVE  (IF s \in gone THEN NoRow ELSE IF s \in held[k] THEN frame[k] ELSE NoRow)
                 = IF s \in held'[k] THEN frame'[k] ELSE NoRow
    BY <1>3
  <2>4. ASSUME NEW s \in SubIds
        PROVE  view'[s] = [k \in Keys |-> IF s \in held'[k] THEN frame'[k] ELSE NoRow]
    <3>1. view'[s] = [k \in Keys |-> IF s \in gone THEN NoRow
                                     ELSE IF s \in held[k] THEN frame[k] ELSE NoRow]
      BY <2>1, <2>2
    <3> QED BY <2>3, <3>1
  <2> QED BY <2>1, <2>4 DEF ViewsFollow
<1>7. \A k \in Keys : held'[k] \subseteq Registered'
  BY <1>2, <1>3, <1>4 DEF ShownInv, Registered
<1> QED BY <1>1, <1>5, <1>6, <1>7 DEF ShownInv

LEMMA RegisterShown ==
    ASSUME ShownInv, NEW s \in SubIds, NEW query \in Queries, Register(s, query)
    PROVE  ShownInv'
<1>1. ReadInv'
  BY RegisterReadInv DEF ShownInv
<1>2. AnsweredSomewhere'
  <2>1. \A id \in ReadIds : flights'[id] = flights[id] \/ flights'[id] = Asked(query)
    BY DEF Register, ShownInv, ReadInv, ControlTypes
  <2> QED BY <2>1 DEF AnsweredSomewhere, ShownInv, Asked
<1>3. Applied' = Applied /\ DbFollows'
  BY DEF Register, Applied, ShownInv, DbFollows, database
<1>4. /\ subs[s] = NoQuery /\ s \notin Registered /\ \A k \in Keys : s \notin held[k]
      /\ held \in [Keys -> SUBSET SubIds] /\ query # NoQuery
      /\ frame' = frame
  BY ConstantsAssumption DEF Register, ShownInv, ReadInv, ControlTypes, Registered
<1>5. \A t \in SubIds : t # s => subs'[t] = subs[t]
  BY DEF Register, ShownInv, ReadInv, ControlTypes
<1>6. subs'[s] = query
  BY DEF Register, ShownInv, ReadInv, ControlTypes
<1>7. CASE UNCHANGED <<held, view>>
  <2>1. FrameCurrent'
    BY <1>3, <1>4, <1>5, <1>7 DEF ShownInv, FrameCurrent
  <2>2. ViewsFollow' /\ \A k \in Keys : held'[k] \subseteq Registered'
    BY <1>4, <1>5, <1>7 DEF ShownInv, ViewsFollow, Registered
  <2> QED BY <1>1, <1>2, <1>3, <2>1, <2>2 DEF ShownInv
<1>8. ASSUME NEW twin \in Registered, subs[twin] = query,
             held' = [k \in Keys |-> held[k] \cup (IF twin \in held[k] THEN {s} ELSE {})],
             view' = [view EXCEPT ![s] =
                            [k \in Keys |-> IF twin \in held[k] THEN frame[k] ELSE NoRow]]
      PROVE  ShownInv'
  <2>1. ASSUME NEW k \in Keys
        PROVE  held'[k] = held[k] \cup (IF twin \in held[k] THEN {s} ELSE {})
    BY <1>8
  <2>2. FrameCurrent'
    <3> SUFFICES ASSUME NEW k \in Keys
                 PROVE  /\ frame'[k] = NoRow <=> held'[k] = {}
                        /\ frame'[k] # NoRow => frame'[k] = Applied'[k]
                        /\ \A t \in held'[k] : Matches(subs'[t], frame'[k])
      BY DEF FrameCurrent
    <3>1. /\ frame[k] = NoRow <=> held[k] = {}
          /\ frame[k] # NoRow => frame[k] = Applied[k]
          /\ \A t \in held[k] : Matches(subs[t], frame[k])
      BY DEF ShownInv, FrameCurrent
    <3>2. held'[k] = {} <=> held[k] = {}
      BY <2>1
    <3>3. ASSUME NEW t \in held'[k] PROVE Matches(subs'[t], frame'[k])
      <4>1. CASE t = s
        <5>1. twin \in held[k]
          BY <1>4, <2>1, <3>3, <4>1
        <5> QED BY <1>4, <1>6, <1>8, <3>1, <4>1, <5>1
      <4>2. CASE t # s
        BY <1>4, <1>5, <2>1, <3>1, <3>3, <4>2
      <4> QED BY <4>1, <4>2
    <3> QED BY <1>3, <1>4, <3>1, <3>2, <3>3
  <2>3. ViewsFollow'
    <3>1. view = [t \in SubIds |-> [k \in Keys |-> IF t \in held[k] THEN frame[k] ELSE NoRow]]
      BY DEF ShownInv, ViewsFollow
    <3>2. ASSUME NEW t \in SubIds
          PROVE  view'[t] = [k \in Keys |-> IF t \in held'[k] THEN frame'[k] ELSE NoRow]
      <4>1. CASE t = s
        <5>1. view'[t] = [k \in Keys |-> IF twin \in held[k] THEN frame[k] ELSE NoRow]
          BY <1>8, <3>1, <4>1
        <5>2. \A k \in Keys : t \in held'[k] <=> twin \in held[k]
          BY <1>4, <2>1, <4>1
        <5> QED BY <1>4, <5>1, <5>2
      <4>2. CASE t # s
        <5>1. view'[t] = [k \in Keys |-> IF t \in held[k] THEN frame[k] ELSE NoRow]
          BY <1>8, <3>1, <4>2
        <5>2. \A k \in Keys : t \in held'[k] <=> t \in held[k]
          BY <2>1, <4>2
        <5> QED BY <1>4, <5>1, <5>2
      <4> QED BY <4>1, <4>2
    <3>3. view' = [t \in SubIds |-> view'[t]]
      BY <1>8, <3>1
    <3> HIDE DEF ViewsFollow
    <3> QED BY <3>2, <3>3 DEF ViewsFollow
  <2>4. \A k \in Keys : held'[k] \subseteq Registered'
    BY <1>4, <1>5, <1>6, <2>1 DEF ShownInv, Registered
  <2> QED BY <1>1, <1>2, <1>3, <2>2, <2>3, <2>4 DEF ShownInv
<1> QED BY <1>7, <1>8 DEF Register

LEMMA StillRead ==
    ASSUME NEW id, KeptOrAsked(id), flights'[id].state = "read"
    PROVE  flights'[id] = flights[id]
<1>1. CASE flights'[id] = NoFlight
  BY <1>1 DEF NoFlight
<1>2. CASE \E query : flights'[id] = Asked(query)
  <2>1. PICK query : flights'[id] = Asked(query)
    BY <1>2
  <2>2. Asked(query).state = "asked"
    BY DEF Asked
  <2> QED BY <2>1, <2>2
<1> QED BY <1>1, <1>2 DEF KeptOrAsked

\* The location a transaction is applied at: one past the engine's.
LEMMA CommitMoves ==
    ASSUME ShownInv, Commit
    PROVE  /\ Later(position, 1) + 1 \in 2 .. Len(wal)
           /\ Later(position', 1) = Later(position, 1) + 1
           /\ Applied' = db[Later(position, 1) + 1] /\ Applied = db[Later(position, 1)]
           /\ UNCHANGED <<database, subs>>
<1>1. Later(position, 1) \in 1 .. Len(wal) /\ Len(wal) \in Nat
  BY PositionInLog DEF ShownInv
<1>2. /\ Later(position, 1) + 1 <= Len(wal) /\ position' = Later(position, 1) + 1
      /\ UNCHANGED <<database, subs>>
  BY DEF Commit, Moved
<1>3. Later(position, 1) + 1 \in 2 .. Len(wal)
  BY <1>1, <1>2
<1>4. Later(position', 1) = Later(position, 1) + 1
  BY <1>2, <1>3 DEF Later
<1> QED BY <1>2, <1>3, <1>4 DEF Applied, database

(* A write of the next transaction, completed from the shared row, tells of *)
(* the row it makes.                                                       *)
LEMMA RoutedTells ==
    ASSUME ShownInv, NEW at, at = Later(position, 1) + 1, at \in 2 .. Len(wal),
           NEW k \in Keys, k \in DOMAIN wal[at]
    PROVE  /\ Completed(wal[at][k], frame[k]) # NoRow
                => Tells(Completed(wal[at][k], frame[k]), db[at][k])
           /\ db[at][k] # NoRow => Completed(wal[at][k], frame[k]) # NoRow
<1> DEFINE old == frame[k]
<1>1. ControlTypes /\ DbFollows /\ at - 1 = Later(position, 1) /\ at - 1 \in 1 .. Len(wal)
  BY PositionInLog DEF ShownInv, ReadInv
<1>2. old # NoRow => old = db[at - 1][k] /\ db[at - 1] \in Tables
  BY <1>1, LogTyped DEF ShownInv, FrameCurrent, Applied
<1>3. old # NoRow => Tells(old, db[at - 1][k])
  BY <1>2, RowTells DEF Tables
<1> HIDE DEF old
<1>4. /\ Completed(wal[at][k], old) # NoRow => Tells(Completed(wal[at][k], old), db[at][k])
      /\ db[at][k] # NoRow => Completed(wal[at][k], old) # NoRow
  BY <1>1, <1>3, WriteTells
<1> QED BY <1>4 DEF old

LEMMA CommitShown == ASSUME ShownInv, Commit PROVE ShownInv'
<1> DEFINE at == Later(position, 1) + 1
           txn == wal[at]
           image == [k \in DOMAIN txn |-> Completed(txn[k], frame[k])]
           again == {k \in DOMAIN txn : IsPartial(image[k]) /\ Matching(image[k]) # {}}
           fits  == [k \in DOMAIN txn \ again |-> Matching(image[k])]
<1>1. ReadInv' /\ ReadInv /\ ControlTypes
  BY CommitReadInv DEF ShownInv, ReadInv
<1>2. /\ at \in 2 .. Len(wal) /\ Later(position', 1) = at /\ Applied' = db[at]
      /\ Applied = db[at - 1] /\ UNCHANGED <<database, subs>>
  <2>1. Later(position, 1) \in Nat
    BY <1>1, PositionInLog
  <2> QED BY <2>1, CommitMoves
<1>3. /\ frame' = [k \in Keys |-> IF k \notin DOMAIN fits THEN frame[k]
                                  ELSE IF fits[k] = {} THEN NoRow ELSE image[k]]
      /\ held' = [k \in Keys |-> IF k \in DOMAIN fits THEN fits[k] ELSE held[k]]
      /\ view' = [s \in SubIds |-> [k \in Keys |->
                        IF k \in DOMAIN fits /\ s \in fits[k] THEN image[k]
                        ELSE IF k \in DOMAIN fits /\ s \in held[k] THEN NoRow
                        ELSE view[s][k]]]
  BY DEF Commit, Route
<1> HIDE DEF at
<1>4. DOMAIN txn \subseteq Keys /\ DOMAIN fits = DOMAIN txn \ again
  <2>1. at \in 1 .. Len(wal)
    BY <1>1, <1>2 DEF ControlTypes
  <2> QED BY <1>1, <2>1, LogTyped
<1>5. AnsweredSomewhere'
  <2>1. \A id \in ReadIds : flights'[id].state = "read" => flights'[id] = flights[id]
    BY CommitKeeps, StillRead
  <2> QED BY <2>1 DEF AnsweredSomewhere, ShownInv
<1>6. \A k \in Keys : /\ frame[k] = NoRow <=> held[k] = {}
                      /\ frame[k] # NoRow => frame[k] = Applied[k]
                      /\ \A s \in held[k] : Matches(subs[s], frame[k]) /\ s \in Registered
  BY DEF ShownInv, FrameCurrent
\* a write shown to somebody is whole and the row's, at the new position
<1>7. ASSUME NEW k \in DOMAIN fits, NEW s \in fits[k]
      PROVE  image[k] # NoRow /\ image[k] = db[at][k] /\ Matches(subs[s], image[k]) /\ s \in Registered
  <2>1. k \in DOMAIN txn /\ k \in Keys /\ k \notin again /\ s \in Matching(image[k])
    BY <1>4, <1>7
  <2>2. Matches(subs[s], image[k]) /\ s \in Registered /\ ~IsPartial(image[k]) /\ image[k] # NoRow
    BY <2>1, Zenon DEF Matching, Matches
  <2>3. at \in 1 .. Len(wal) /\ at = Later(position, 1) + 1
    BY <1>1, <1>2 DEF ControlTypes, at
  <2>4. db[at] \in Tables
    BY <1>1, <2>3, LogTyped
  <2>5. image[k] = Completed(wal[at][k], frame[k])
    BY <2>1
  <2>6. Tells(image[k], db[at][k])
    BY <1>2, <2>1, <2>2, <2>3, <2>5, RoutedTells
  <2>7. db[at][k] \in Images
    BY <2>1, <2>4, <2>6 DEF Tells, Tables
  <2> QED BY <2>2, <2>6, <2>7, WholeTells
<1>8. ASSUME NEW k \in Keys, k \notin DOMAIN fits, frame[k] # NoRow PROVE Applied'[k] = frame[k]
  <2>1. CASE k \notin DOMAIN txn
    BY <1>2, <1>6, <1>8, <2>1 DEF ShownInv, DbFollows
  <2>2. CASE k \in again
    <3>1. IsPartial(image[k]) /\ image[k] = Completed(txn[k], frame[k]) /\ frame[k] # NoRow
      BY <1>8, <2>2
    <3>2. frame[k] = db[at - 1][k] /\ db[at - 1][k] \in Images
      <4>1. at - 1 \in 1 .. Len(wal)
        BY <1>1, <1>2 DEF ControlTypes
      <4>2. db[at - 1] \in Tables
        BY <1>1, <4>1, LogTyped
      <4> QED BY <1>2, <1>6, <1>8, <4>2 DEF Tables
    <3>3. frame[k].large # Omitted
      BY <3>2, ConstantsAssumption DEF Images
    <3>4. txn[k] \in Images \cup PartialImages \cup {NoRow}
      <4>1. at \in 1 .. Len(wal)
        BY <1>1, <1>2 DEF ControlTypes
      <4> QED BY <1>1, <2>2, <4>1, LogTyped
    <3>5. CASE IsPartial(txn[k])
      <4>1. image[k] = [txn[k] EXCEPT !.large = frame[k].large]
        BY <3>1, <3>5 DEF Completed
      <4>2. txn[k] \in PartialImages
        BY <3>4, <3>5, ImageParts
      <4>3. image[k].large = frame[k].large
        BY <4>1, <4>2 DEF PartialImages
      <4> QED BY <3>1, <3>3, <4>3 DEF IsPartial
    <3>6. CASE ~IsPartial(txn[k])
      BY <3>1, <3>6 DEF Completed
    <3> QED BY <3>5, <3>6
  <2> QED BY <1>4, <1>8, <2>1, <2>2
<1> HIDE DEF image, fits
<1>9. FrameCurrent'
  <2> SUFFICES ASSUME NEW k \in Keys
               PROVE  /\ frame'[k] = NoRow <=> held'[k] = {}
                      /\ frame'[k] # NoRow => frame'[k] = Applied'[k]
                      /\ \A s \in held'[k] : Matches(subs'[s], frame'[k])
    BY DEF FrameCurrent
  <2>1. CASE k \in DOMAIN fits
    <3>1. held'[k] = fits[k] /\ frame'[k] = (IF fits[k] = {} THEN NoRow ELSE image[k])
      BY <1>3, <2>1
    <3> QED BY <1>2, <1>7, <2>1, <3>1
  <2>2. CASE k \notin DOMAIN fits
    <3>1. held'[k] = held[k] /\ frame'[k] = frame[k]
      BY <1>3, <2>2
    <3> QED BY <1>2, <1>6, <1>8, <2>2, <3>1
  <2> QED BY <2>1, <2>2
<1>10. ViewsFollow'
  <2>1. view = [s \in SubIds |-> [k \in Keys |-> IF s \in held[k] THEN frame[k] ELSE NoRow]]
    BY DEF ShownInv, ViewsFollow
  <2>2. ASSUME NEW s \in SubIds, NEW k \in Keys
        PROVE  (IF k \in DOMAIN fits /\ s \in fits[k] THEN image[k]
                ELSE IF k \in DOMAIN fits /\ s \in held[k] THEN NoRow ELSE view[s][k])
                 = IF s \in held'[k] THEN frame'[k] ELSE NoRow
    <3>1. view[s][k] = IF s \in held[k] THEN frame[k] ELSE NoRow
      BY <2>1
    <3>2. CASE k \in DOMAIN fits
      BY <1>3, <3>1, <3>2
    <3>3. CASE k \notin DOMAIN fits
      BY <1>3, <3>1, <3>3
    <3> QED BY <3>2, <3>3
  <2> QED BY <1>3, <2>2 DEF ViewsFollow
<1>11. \A k \in Keys : held'[k] \subseteq Registered'
  BY <1>2, <1>3, <1>6, <1>7 DEF Registered
<1>12. DbFollows'
  BY <1>2 DEF ShownInv, DbFollows, database
<1> QED BY <1>1, <1>5, <1>9, <1>10, <1>11, <1>12 DEF ShownInv

\* An answered read is between its snapshot and the engine's position, and
\* every write in between is remembered.
LEMMA AnsweredReach ==
    ASSUME ShownInv, NEW id \in ReadIds, flights[id].state = "read"
    PROVE  /\ position \in 1 .. Len(wal) /\ flights[id].at \in 1 .. position
           /\ Later(position, 1) = position /\ Later(position, flights[id].at) = position
           /\ \A l \in flights[id].at + 1 .. position : l \in recent
           /\ \E rows : Brings(rows, id, position) /\ BroughtUp(id) = rows[position]
           /\ position \in flights[id].at .. position
<1>1. ControlTypes /\ DbFollows /\ ReadInv
  BY DEF ShownInv, ReadInv
<1>2. /\ flights[id].at \in Nat /\ flights[id].floor \in Nat /\ position \in Nat /\ Len(wal) \in Nat
      /\ current \in Nat
  BY <1>1, ConstantsAssumption DEF ControlTypes, Flights
<1>3. /\ flights[id].at # 0 /\ flights[id].at <= position /\ position <= Len(wal)
      /\ flights[id].floor <= flights[id].at
  BY <1>1, <1>2 DEF ShownInv, AnsweredSomewhere, ReadInv, FlightsInOrder, SnapshotsInOrder
<1>4. /\ position \in 1 .. Len(wal) /\ flights[id].at \in 1 .. position
      /\ Later(position, 1) = position /\ Later(position, flights[id].at) = position
  BY <1>2, <1>3 DEF Later
<1>5. \A l \in flights[id].at + 1 .. position : l \in recent
  <2> SUFFICES ASSUME NEW l \in flights[id].at + 1 .. position PROVE l \in recent
    OBVIOUS
  <2>1. l \in 2 .. position /\ l > flights[id].floor
    BY <1>2, <1>3, <1>4
  <2> QED BY <1>1, <2>1 DEF ReadInv, WritesRemembered, Out
<1>6. \E rows : Brings(rows, id, position) /\ BroughtUp(id) = rows[position]
  BY <1>2, <1>3, <1>4, BroughtUpStepwise
<1>7. position \in flights[id].at .. position
  BY <1>2, <1>4
<1> QED BY <1>4, <1>5, <1>6, <1>7

(* A read lands what tells of the database's rows at the engine's position. *)
LEMMA BroughtTells ==
    ASSUME ShownInv, NEW id \in ReadIds, flights[id].state = "read"
    PROVE  Sound(BroughtUp(id), Later(position, 1))
<1>1. ControlTypes /\ DbFollows
  BY DEF ShownInv, ReadInv
<1>2. PICK rows : Brings(rows, id, position) /\ BroughtUp(id) = rows[position]
  BY AnsweredReach
<1>3. \A l \in flights[id].at .. position : Sound(rows[l], l)
  BY <1>1, <1>2, AnsweredReach, BroughtSound
<1> QED BY <1>2, <1>3, AnsweredReach

LEMMA LandShown == ASSUME ShownInv, NEW id \in ReadIds, Land(id) PROVE ShownInv'
<1> DEFINE rows == BroughtUp(id)
           image == [k \in Keys |-> IF frame[k] # NoRow THEN frame[k] ELSE rows[k]]
           takers == [k \in Keys |-> IF rows[k] = NoRow THEN {}
                                     ELSE readers[id] \cap Matching(image[k])]
           joins == [k \in Keys |-> IF IsPartial(image[k]) THEN {} ELSE takers[k] \ held[k]]
<1>1. ReadInv' /\ ControlTypes
  <2>1. [Next]_vars /\ ReadInv
    BY DEF Next, ShownInv
  <2> QED BY <2>1, NextReadInv DEF ReadInv
<1>2. UNCHANGED <<database, position, subs>> /\ Applied' = Applied
  BY DEF Land, Applied, database
<1>3. /\ frame' = [k \in Keys |-> IF joins[k] = {} THEN frame[k] ELSE image[k]]
      /\ held' = [k \in Keys |-> held[k] \cup joins[k]]
      /\ view' = [s \in SubIds |-> [k \in Keys |->
                        IF s \in joins[k] THEN image[k] ELSE view[s][k]]]
  BY DEF Land, LandRows
<1>4. AnsweredSomewhere'
  <2>1. \A other \in ReadIds : KeptOrAsked(other)
    BY <1>1, LandKeeps
  <2>2. \A other \in ReadIds : flights'[other].state = "read" => flights'[other] = flights[other]
    BY <2>1, StillRead
  <2> QED BY <2>2 DEF AnsweredSomewhere, ShownInv
<1>5. \A k \in Keys : /\ frame[k] = NoRow <=> held[k] = {}
                      /\ frame[k] # NoRow => frame[k] = Applied[k]
                      /\ \A s \in held[k] : Matches(subs[s], frame[k]) /\ s \in Registered
  BY DEF ShownInv, FrameCurrent
<1>6. Applied \in Tables
  BY <1>1, PositionInLog, LogTyped DEF ShownInv, Applied
<1>7. Sound(rows, Later(position, 1))
  BY BroughtTells DEF Land
<1> HIDE DEF rows
<1>8. ASSUME NEW k \in Keys, NEW s \in joins[k]
      PROVE  /\ image[k] # NoRow /\ image[k] = Applied[k] /\ Matches(subs[s], image[k])
             /\ s \in Registered /\ (frame[k] # NoRow => image[k] = frame[k])
  <2>1. ~IsPartial(image[k]) /\ rows[k] # NoRow /\ s \in Matching(image[k])
    BY <1>8
  <2>2. Matches(subs[s], image[k]) /\ s \in Registered /\ image[k] # NoRow
    BY <2>1 DEF Matching, Matches
  <2>3. CASE frame[k] # NoRow
    BY <1>5, <2>2, <2>3
  <2>4. CASE frame[k] = NoRow
    <3>1. image[k] = rows[k]
      BY <2>4
    <3>2. Tells(rows[k], Applied[k])
      BY <1>7, <2>1 DEF Sound, Applied
    <3>3. Applied[k] \in Images
      BY <1>6, <3>2 DEF Tells, Tables
    <3>4. rows[k] = Applied[k]
      BY <2>1, <3>1, <3>2, <3>3, WholeTells
    <3> QED BY <2>2, <2>4, <3>1, <3>4
  <2> QED BY <2>3, <2>4
<1> HIDE DEF image, joins
<1>9. FrameCurrent'
  <2> SUFFICES ASSUME NEW k \in Keys
               PROVE  /\ frame'[k] = NoRow <=> held'[k] = {}
                      /\ frame'[k] # NoRow => frame'[k] = Applied'[k]
                      /\ \A s \in held'[k] : Matches(subs'[s], frame'[k])
    BY DEF FrameCurrent
  <2>1. CASE joins[k] = {}
    <3>1. held'[k] = held[k] /\ frame'[k] = frame[k]
      BY <1>3, <2>1
    <3> QED BY <1>2, <1>5, <3>1
  <2>2. CASE joins[k] # {}
    <3>1. held'[k] = held[k] \cup joins[k] /\ frame'[k] = image[k]
      BY <1>3, <2>2
    <3>2. image[k] # NoRow /\ image[k] = Applied[k] /\ (frame[k] # NoRow => image[k] = frame[k])
      BY <1>8, <2>2
    <3>3. \A s \in held[k] : frame[k] # NoRow
      BY <1>5
    <3> QED BY <1>2, <1>5, <1>8, <2>2, <3>1, <3>2, <3>3
  <2> QED BY <2>1, <2>2
<1>10. ViewsFollow'
  <2>1. view = [s \in SubIds |-> [k \in Keys |-> IF s \in held[k] THEN frame[k] ELSE NoRow]]
    BY DEF ShownInv, ViewsFollow
  <2>2. ASSUME NEW s \in SubIds, NEW k \in Keys
        PROVE  (IF s \in joins[k] THEN image[k] ELSE view[s][k])
                 = IF s \in held'[k] THEN frame'[k] ELSE NoRow
    <3>1. view[s][k] = IF s \in held[k] THEN frame[k] ELSE NoRow
      BY <2>1
    <3>2. held'[k] = held[k] \cup joins[k] /\ frame'[k] = IF joins[k] = {} THEN frame[k] ELSE image[k]
      BY <1>3
    <3>3. s \in held[k] => frame[k] # NoRow
      BY <1>5
    <3>4. joins[k] # {} /\ frame[k] # NoRow => image[k] = frame[k]
      BY <1>8
    <3> QED BY <3>1, <3>2, <3>3, <3>4
  <2> QED BY <1>3, <2>2 DEF ViewsFollow
<1>11. \A k \in Keys : held'[k] \subseteq Registered'
  BY <1>2, <1>3, <1>5, <1>8 DEF Registered
<1>12. DbFollows'
  BY <1>2 DEF ShownInv, DbFollows, database
<1> QED BY <1>1, <1>4, <1>9, <1>10, <1>11, <1>12 DEF ShownInv

LEMMA MarkShown == ASSUME ShownInv, Mark PROVE ShownInv'
<1>1. ReadInv'
  BY MarkReadInv DEF ShownInv
<1>2. UNCHANGED <<database, subs, frame, held, view>> /\ position' = Later(position, 1)
  BY DEF Mark, Moved, engine, outbox
<1>3. Later(position', 1) = Later(position, 1)
  <2>1. position \in Nat
    BY PositionInLog DEF ShownInv
  <2> QED BY <1>2, <2>1 DEF Later
<1>4. AnsweredSomewhere'
  <2>1. \A id \in ReadIds : KeptOrAsked(id)
    BY WokenKept DEF Mark, KeptOrAsked
  <2>2. \A id \in ReadIds : flights'[id].state = "read" => flights'[id] = flights[id]
    BY <2>1, StillRead
  <2> QED BY <2>2 DEF AnsweredSomewhere, ShownInv
<1> QED BY <1>1, <1>2, <1>3, <1>4, ShownStays

LEMMA StorageShown ==
    ASSUME ShownInv, NEW id \in ReadIds,
           \/ StorageRead(id) \/ StorageFails(id) \/ StorageRefuses(id) \/ Park(id)
    PROVE  ShownInv'
<1>1. ReadInv'
  <2>1. [Next]_vars /\ ReadInv
    BY DEF Next, ShownInv
  <2> QED BY <2>1, NextReadInv
<1>2. UNCHANGED <<database, subs, frame, held, view, position>>
  BY DEF StorageRead, StorageFails, StorageRefuses, StorageEnds, Park, engine, outbox
<1>3. AnsweredSomewhere'
  <2>1. flights \in [ReadIds -> Flights] /\ AnsweredSomewhere
    BY DEF ShownInv, ReadInv, ControlTypes
  <2>2. CASE StorageRead(id)
    BY <2>1, <2>2 DEF StorageRead, AnsweredSomewhere, Flights
  <2>3. CASE StorageFails(id) \/ StorageRefuses(id)
    BY <2>1, <2>3 DEF StorageFails, StorageRefuses, StorageEnds, AnsweredSomewhere, Flights
  <2>4. CASE Park(id)
    BY <2>1, <2>4 DEF Park, AnsweredSomewhere, Flights
  <2> QED BY <2>2, <2>3, <2>4
<1> QED BY <1>1, <1>2, <1>3, ShownStays

LEMMA NextShown == ASSUME ShownInv, [Next]_vars PROVE ShownInv'
<1>1. ReadInv'
  BY NextReadInv DEF ShownInv
<1>2. CASE DbCommit
  BY <1>2, DbCommitShown
<1>3. CASE Mint \/ MintDone \/ MintFails \/ UNCHANGED vars
  <2>1. UNCHANGED <<database, flights, position, subs, frame, held, view>>
    BY <1>3 DEF Mint, MintDone, MintFails, vars, database, runtime, engine, outbox
  <2>2. AnsweredSomewhere'
    BY <2>1 DEF AnsweredSomewhere, ShownInv
  <2> QED BY <1>1, <2>1, <2>2, ShownStays
<1>4. CASE Commit
  BY <1>4, CommitShown
<1>5. CASE Mark
  BY <1>5, MarkShown
<1>6. CASE \E s \in SubIds : Unregister(s)
  <2>1. PICK s \in SubIds : Unregister(s)
    BY <1>6
  <2>2. LetGo({s}) /\ UNCHANGED <<database, position, flights>>
    BY <2>1 DEF Unregister, runtime
  <2>3. AnsweredSomewhere'
    BY <2>2 DEF AnsweredSomewhere, ShownInv
  <2> QED BY <1>1, <2>2, <2>3, LetGoShown
<1>7. CASE \E s \in SubIds, query \in Queries : Register(s, query)
  BY <1>7, RegisterShown
<1>8. CASE \E id \in ReadIds : StorageRead(id) \/ StorageFails(id) \/ StorageRefuses(id) \/ Park(id)
  BY <1>8, StorageShown
<1>9. CASE \E id \in ReadIds : Refuse(id)
  <2>1. PICK id \in ReadIds : Refuse(id)
    BY <1>9
  <2>2. LetGo(readers[id]) /\ UNCHANGED <<database, position>>
    BY <2>1 DEF Refuse
  <2>3. AnsweredSomewhere'
    BY <2>1 DEF Refuse, AnsweredSomewhere, ShownInv, ReadInv, ControlTypes, NoFlight
  <2> QED BY <1>1, <2>2, <2>3, LetGoShown
<1>10. CASE \E id \in ReadIds : Land(id)
  BY <1>10, LandShown
<1> QED BY <1>2, <1>3, <1>4, <1>5, <1>6, <1>7, <1>8, <1>9, <1>10 DEF Next

LEMMA ShownInvHolds == Spec => []ShownInv
<1>1. ShownInv /\ [Next]_vars => ShownInv'
  BY NextShown
<1> QED BY InitShown, <1>1, PTL DEF Spec

(* No step of the engine or the reads, in any order, leaves a client with   *)
(* a stale row or one its query does not admit: Engine::route and land.     *)
THEOREM ShownStaysCurrent == Spec => []ShownRowsCurrent
<1>1. ShownInv => ShownRowsCurrent
  <2> SUFFICES ASSUME ShownInv, NEW s \in SubIds, NEW k \in Keys, view[s][k] # NoRow
               PROVE  view[s][k] = Applied[k] /\ Matches(subs[s], view[s][k])
    BY DEF ShownRowsCurrent
  <2>1. s \in held[k] /\ view[s][k] = frame[k]
    BY DEF ShownInv, ViewsFollow
  <2> QED BY <2>1 DEF ShownInv, FrameCurrent
<1> QED BY <1>1, ShownInvHolds, PTL

FrameOfKeys == frame = [k \in Keys |-> frame[k]]

LEMMA FrameStaysOfKeys == ASSUME FrameOfKeys, [Next]_vars PROVE FrameOfKeys'
<1>1. CASE UNCHANGED frame
  BY <1>1 DEF FrameOfKeys
<1>3. CASE Commit
  BY <1>3, Zenon DEF Commit, Route, FrameOfKeys
<1>4. CASE \E s \in SubIds : Unregister(s)
  BY <1>4 DEF Unregister, LetGo, FrameOfKeys
<1>5. CASE \E id \in ReadIds : Refuse(id)
  BY <1>5 DEF Refuse, LetGo, FrameOfKeys
<1>6. CASE \E id \in ReadIds : Land(id)
  BY <1>6 DEF Land, LandRows, FrameOfKeys
<1>7. \/ UNCHANGED frame \/ Commit \/ \E s \in SubIds : Unregister(s)
      \/ \E id \in ReadIds : Refuse(id) \/ Land(id)
  BY DEF Next, DbCommit, Mint, MintDone, MintFails, Mark, Register, StorageRead, StorageFails,
         StorageRefuses, StorageEnds, Park, vars, engine
<1> QED BY <1>1, <1>3, <1>4, <1>5, <1>6, <1>7

(* The frame never holds a partial image, and no client is ever sent one.   *)
THEOREM WholeRowsOnly == Spec => []TypeOK
<1>1. Init => FrameOfKeys
  BY DEF Init, FrameOfKeys
<1>2. FrameOfKeys /\ [Next]_vars => FrameOfKeys'
  BY FrameStaysOfKeys
<1>3. Spec => []FrameOfKeys
  BY <1>1, <1>2, PTL DEF Spec
<1>4. ShownInv /\ FrameOfKeys => TypeOK
  <2> SUFFICES ASSUME ShownInv, FrameOfKeys PROVE TypeOK
    OBVIOUS
  <2>1. Applied \in Tables
    BY PositionInLog, LogTyped DEF ShownInv, ReadInv, Applied
  <2>2. \A k \in Keys : frame[k] \in Images \cup {NoRow}
    BY <2>1 DEF ShownInv, FrameCurrent, Tables
  <2>3. frame \in Tables
    BY <2>2 DEF FrameOfKeys, Tables
  <2>4. \A s \in SubIds : [k \in Keys |-> IF s \in held[k] THEN frame[k] ELSE NoRow] \in Tables
    BY <2>2 DEF Tables
  <2>5. view \in [SubIds -> Tables]
    BY <2>4 DEF ShownInv, ViewsFollow
  <2> QED BY <2>3, <2>5 DEF TypeOK, ShownInv, ReadInv
<1> QED BY <1>3, <1>4, ShownInvHolds, PTL

-----------------------------------------------------------------------------
(* Nothing is missing *)

(* No query has a condition on a column that an image may lack.             *)
Unconditioned == \A query \in Queries : query.large = Large \cup {Omitted}

\* Whoever has it, so have those with the same query.
Together(S) == \A s, t \in Registered : subs[s] = subs[t] /\ s \in S => t \in S

(* Whoever waits for a read is registered, the read is out, and the query   *)
(* of a snapshot's read is that of its readers.                            *)
Awaited(reads, waiters) ==
    \A id \in ReadIds : \A s \in waiters[id] :
        /\ Out(reads[id]) /\ s \in Registered
        /\ id \in Slots => reads[id].query = subs[s]

TwinsAlike ==
    /\ \A id \in ReadIds : Together(readers[id])
    /\ \A k \in Keys : Together(held[k])

(* A row a client lacks of its answer is coming with a read it waits for.   *)
RowsOwed ==
    \A s \in Registered, k \in Keys :
        Matches(subs[s], Applied[k]) /\ s \notin held[k] =>
            \E id \in ReadIds : s \in readers[id] /\ (id \in Keys => id = k)

WholeInv == ShownInv /\ Awaited(flights, readers) /\ TwinsAlike /\ RowsOwed

LEMMA MatchesTold ==
    ASSUME Unconditioned, NEW query \in Queries, NEW row \in Images, NEW image, Tells(image, row)
    PROVE  Matches(query, image) <=> Matches(query, row)
<1>1. image # NoRow /\ row # NoRow /\ image.small = row.small
  BY ConstantsAssumption DEF Tells
<1>2. row.large \in Large /\ image.large \in {Omitted, row.large} /\ query.large = Large \cup {Omitted}
  BY DEF Tells, Unconditioned, Images
<1> QED BY <1>1, <1>2 DEF Matches

LEMMA AdmitsTold ==
    ASSUME Unconditioned, NEW id \in ReadIds, id \in Slots => flights[id].query \in Queries,
           NEW k \in Keys, NEW row \in Images, NEW image, Tells(image, row), Admits(id, k, row)
    PROVE  Admits(id, k, image)
<1>1. image # NoRow
  BY ConstantsAssumption DEF Tells
<1>2. CASE id \in Keys
  BY <1>1, <1>2 DEF Admits
<1>3. CASE id \notin Keys
  <2>1. flights[id].query \in Queries
    BY <1>3 DEF ReadIds
  <2> DEFINE query == flights[id].query
  <2>2. Matches(query, row)
    BY <1>3 DEF Admits
  <2> HIDE DEF query
  <2>3. Matches(query, image)
    BY <2>1, <2>2, MatchesTold DEF query
  <2> QED BY <1>3, <2>3 DEF Admits, query
<1> QED BY <1>2, <1>3

\* A read brings every row it is for.
Full(rows, id, l) == \A k \in Keys : Admits(id, k, db[l][k]) => rows[k] # NoRow

LEMMA AdmitsARow ==
    ASSUME NEW id, NEW k, NEW image, Admits(id, k, image) PROVE image # NoRow
BY DEF Admits, Matches

LEMMA StepFull ==
    ASSUME ControlTypes, DbFollows, Unconditioned, NEW id \in ReadIds,
           id \in Slots => flights[id].query \in Queries,
           NEW l \in 2 .. Len(wal), l \in recent,
           NEW old, Sound(old, l - 1), Full(old, id, l - 1)
    PROVE  Full(Step(id, l, old), id, l)
<1> SUFFICES ASSUME NEW k \in Keys, Admits(id, k, db[l][k])
             PROVE  Step(id, l, old)[k] # NoRow
  BY DEF Full
<1>1. l \in 1 .. Len(wal) /\ db[l][k] # NoRow
  BY AdmitsARow DEF ControlTypes
<1>2. db[l][k] \in Images
  BY <1>1, LogTyped DEF Tables
<1>3. CASE k \in DOMAIN wal[l]
  <2> DEFINE image == Completed(wal[l][k], old[k])
  <2>1. image # NoRow /\ Tells(image, db[l][k])
    BY <1>1, <1>3, WriteTells DEF Sound
  <2>2. Step(id, l, old)[k] = IF Admits(id, k, image) THEN image ELSE NoRow
    BY <1>3 DEF Step, Refreshed
  <2> HIDE DEF image
  <2>3. Admits(id, k, image)
    BY <1>2, <2>1, AdmitsTold
  <2> QED BY <2>1, <2>2, <2>3
<1>4. CASE k \notin DOMAIN wal[l]
  <2>1. Step(id, l, old)[k] = old[k] /\ db[l][k] = db[l - 1][k]
    BY <1>4 DEF Step, DbFollows
  <2> QED BY <2>1 DEF Full
<1> QED BY <1>3, <1>4

LEMMA BroughtFull ==
    ASSUME ControlTypes, DbFollows, Unconditioned, NEW id \in ReadIds,
           id \in Slots => flights[id].query \in Queries, NEW top \in 1 .. Len(wal),
           flights[id].at \in 1 .. top,
           \A l \in flights[id].at + 1 .. top : l \in recent,
           NEW rows, Brings(rows, id, top)
    PROVE  \A l \in flights[id].at .. top : Full(rows[l], id, l)
<1> DEFINE at == flights[id].at
           Bad == {l \in at .. top : ~Full(rows[l], id, l)}
<1>0. Len(wal) \in Nat /\ at \in Nat /\ top \in Nat /\ at \in 1 .. Len(wal)
  BY DEF ControlTypes
<1> SUFFICES ASSUME Bad # {} PROVE FALSE
  OBVIOUS
<1>1. PICK l \in Bad : \A m \in Bad : l <= m
  <2>1. Bad \in SUBSET Nat
    BY <1>0
  <2> HIDE DEF Bad
  <2> QED BY <2>1, LeastNat
<1>2. rows[l] = IF l = at THEN Came(id) ELSE Step(id, l, rows[l - 1])
  BY <1>1 DEF Brings
<1>3. Full(Came(id), id, at)
  BY AdmitsARow DEF Full, Came
<1>4. l # at
  BY <1>1, <1>2, <1>3
<1>5. l - 1 \in at .. top /\ l \in 2 .. Len(wal) /\ l \in at + 1 .. top
  BY <1>0, <1>1, <1>4
<1>6. Full(rows[l - 1], id, l - 1) /\ Sound(rows[l - 1], l - 1)
  BY <1>0, <1>1, <1>5, BroughtSound
<1>7. Full(Step(id, l, rows[l - 1]), id, l)
  BY <1>5, <1>6, StepFull
<1> QED BY <1>1, <1>2, <1>4, <1>7

LEMMA BroughtWhole ==
    ASSUME ShownInv, Unconditioned, NEW id \in ReadIds, flights[id].state = "read",
           id \in Slots => flights[id].query \in Queries
    PROVE  Full(BroughtUp(id), id, Later(position, 1))
<1>1. ControlTypes /\ DbFollows
  BY DEF ShownInv, ReadInv
<1>2. PICK rows : Brings(rows, id, position) /\ BroughtUp(id) = rows[position]
  BY AnsweredReach
<1>3. \A l \in flights[id].at .. position : Full(rows[l], id, l)
  BY <1>1, <1>2, AnsweredReach, BroughtFull
<1> QED BY <1>2, <1>3, AnsweredReach

LEMMA MatchingTogether == ASSUME NEW image PROVE Together(Matching(image))
BY DEF Together, Matching

LEMMA TwinsTogether == ASSUME NEW S PROVE Together(WithTwins(S)) /\ WithTwins(S) \subseteq Registered
BY DEF Together, WithTwins

\* Twins are added to the set they belong to.
LEMMA WithTwinsHolds == ASSUME NEW S, S \subseteq Registered PROVE S \subseteq WithTwins(S)
BY DEF WithTwins

LEMMA WithTwinsSame ==
    ASSUME NEW S, S \subseteq Registered, Together(S) PROVE WithTwins(S) = S
BY DEF WithTwins, Together

LEMMA AskedIsOut == ASSUME NEW query PROVE Out(Asked(query))
BY DEF Out, Asked

LEMMA WokenWaits ==
    ASSUME Awaited(flights, readers), ControlTypes
    PROVE  Awaited(Woken(flights), readers)
<1> SUFFICES ASSUME NEW id \in ReadIds, NEW s \in readers[id]
             PROVE  /\ Out(Woken(flights)[id]) /\ s \in Registered
                    /\ id \in Slots => Woken(flights)[id].query = subs[s]
  BY DEF Awaited
<1>1. Out(flights[id]) /\ s \in Registered /\ (id \in Slots => flights[id].query = subs[s])
  BY DEF Awaited
<1>2. CASE flights[id].state = "parked"
  <2>1. Woken(flights)[id] = Asked(flights[id].query)
    BY <1>2 DEF Woken
  <2>2. Asked(flights[id].query).query = flights[id].query
    BY DEF Asked
  <2> QED BY <1>1, <2>1, <2>2, AskedIsOut
<1>3. CASE flights[id].state # "parked"
  <2>1. Woken(flights)[id] = flights[id]
    BY <1>3 DEF Woken
  <2> QED BY <1>1, <2>1
<1> QED BY <1>2, <1>3

\* The readers of new row reads wait for them, twins together.
LEMMA JoinedWaits ==
    ASSUME NEW reads, NEW waiters, NEW needs, Awaited(reads, waiters),
           \A id \in ReadIds : Together(waiters[id]),
           \A k \in Keys : needs[k] \subseteq Registered /\ Together(needs[k])
    PROVE  /\ Awaited(Reread(reads, needs), Joined(waiters, needs))
           /\ \A id \in ReadIds : Together(Joined(waiters, needs)[id])
<1>1. ASSUME NEW id \in ReadIds, NEW s \in Joined(waiters, needs)[id]
      PROVE  /\ Out(Reread(reads, needs)[id]) /\ s \in Registered
             /\ id \in Slots => Reread(reads, needs)[id].query = subs[s]
  <2>1. s \in waiters[id] \/ (id \in Keys /\ s \in needs[id])
    BY <1>1 DEF Joined
  <2>2. CASE s \in waiters[id]
    <3>1. Out(reads[id]) /\ s \in Registered /\ (id \in Slots => reads[id].query = subs[s])
      BY <2>2 DEF Awaited
    <3>2. Reread(reads, needs)[id] = reads[id]
      BY <3>1 DEF Reread
    <3> QED BY <3>1, <3>2
  <2>3. CASE id \in Keys /\ s \in needs[id]
    <3>1. s \in Registered /\ id \notin Slots
      BY <2>3, ConstantsAssumption
    <3>2. CASE Out(reads[id])
      <4>1. Reread(reads, needs)[id] = reads[id]
        BY <3>2 DEF Reread
      <4> QED BY <3>1, <3>2, <4>1
    <3>3. CASE ~Out(reads[id])
      <4>1. Reread(reads, needs)[id] = Asked(NoQuery)
        BY <2>3, <3>3 DEF Reread
      <4> QED BY <3>1, <4>1, AskedIsOut
    <3> QED BY <3>2, <3>3
  <2> QED BY <2>1, <2>2, <2>3
<1>2. ASSUME NEW id \in ReadIds PROVE Together(Joined(waiters, needs)[id])
  <2>1. Joined(waiters, needs)[id] = waiters[id] \cup (IF id \in Keys THEN needs[id] ELSE {})
    BY DEF Joined
  <2> QED BY <2>1 DEF Together
<1> QED BY <1>1, <1>2 DEF Awaited

\* Steps that move no subscription and end no read.
LEMMA WholeStays ==
    ASSUME WholeInv, ShownInv', UNCHANGED <<subs, readers, held>>, Applied' = Applied,
           \A id \in ReadIds : Out(flights[id]) =>
               Out(flights'[id]) /\ flights'[id].query = flights[id].query
    PROVE  WholeInv'
<1>1. Registered' = Registered
  BY DEF Registered
<1>2. Awaited(flights, readers)'
  BY <1>1 DEF WholeInv, Awaited
<1>3. TwinsAlike' /\ RowsOwed'
  BY <1>1 DEF WholeInv, TwinsAlike, Together, RowsOwed
<1> QED BY <1>2, <1>3 DEF WholeInv

\* Subscriptions let go were nobody's twin's loss.
LEMMA LetGoWhole ==
    ASSUME WholeInv, ShownInv', NEW gone, LetGo(gone), Applied' = Applied,
           \A id \in ReadIds : readers[id] \subseteq gone \/ flights'[id] = flights[id]
    PROVE  WholeInv'
<1>1. /\ \A s \in SubIds : subs'[s] = IF s \in gone THEN NoQuery ELSE subs[s]
      /\ \A id \in ReadIds : readers'[id] = readers[id] \ gone
      /\ \A k \in Keys : held'[k] = held[k] \ gone
  BY DEF LetGo
<1>2. Registered' = Registered \ gone
  BY <1>1 DEF Registered
<1>3. \A s \in Registered' : s \in SubIds /\ s \notin gone /\ s \in Registered /\ subs'[s] = subs[s]
  BY <1>1, <1>2 DEF Registered
<1>4. Awaited(flights, readers)'
  <2> SUFFICES ASSUME NEW id \in ReadIds, NEW s \in readers'[id]
               PROVE  /\ Out(flights'[id]) /\ s \in Registered'
                      /\ id \in Slots => flights'[id].query = subs'[s]
    BY DEF Awaited
  <2>1. s \in readers[id] /\ s \notin gone /\ flights'[id] = flights[id]
    BY <1>1
  <2>2. Out(flights[id]) /\ s \in Registered /\ (id \in Slots => flights[id].query = subs[s])
    BY <2>1 DEF WholeInv, Awaited
  <2> QED BY <1>2, <1>3, <2>1, <2>2
<1>5. TwinsAlike'
  <2>1. ASSUME NEW S, NEW T, Together(S), T = S \ gone,
               NEW s \in Registered', NEW t \in Registered', subs'[s] = subs'[t], s \in T
        PROVE  t \in T
    BY <1>3, <2>1 DEF Together
  <2>2. ASSUME NEW id \in ReadIds, NEW s \in Registered', NEW t \in Registered',
               subs'[s] = subs'[t], s \in readers'[id]
        PROVE  t \in readers'[id]
    BY <1>1, <2>1, <2>2 DEF WholeInv, TwinsAlike
  <2>3. ASSUME NEW k \in Keys, NEW s \in Registered', NEW t \in Registered',
               subs'[s] = subs'[t], s \in held'[k]
        PROVE  t \in held'[k]
    BY <1>1, <2>1, <2>3 DEF WholeInv, TwinsAlike
  <2> QED BY <2>2, <2>3 DEF TwinsAlike, Together
<1>6. RowsOwed'
  <2> SUFFICES ASSUME NEW s \in Registered', NEW k \in Keys,
                      Matches(subs'[s], Applied'[k]), s \notin held'[k]
               PROVE  \E id \in ReadIds : s \in readers'[id] /\ (id \in Keys => id = k)
    BY DEF RowsOwed
  <2>1. s \in Registered /\ s \notin gone /\ Matches(subs[s], Applied[k]) /\ s \notin held[k]
    BY <1>1, <1>3
  <2>2. PICK id \in ReadIds : s \in readers[id] /\ (id \in Keys => id = k)
    BY <2>1 DEF WholeInv, RowsOwed
  <2> QED BY <1>1, <2>1, <2>2
<1> QED BY <1>4, <1>5, <1>6 DEF WholeInv

LEMMA RegisterWhole ==
    ASSUME WholeInv, ShownInv', NEW s \in SubIds, NEW query \in Queries, Register(s, query)
    PROVE  WholeInv'
<1>1. /\ ControlTypes /\ query # NoQuery /\ s \notin Registered
      /\ subs' = [subs EXCEPT ![s] = query] /\ UNCHANGED <<database, position>>
  BY ConstantsAssumption DEF WholeInv, ShownInv, ReadInv, Register, Registered
<1>2. Applied' = Applied
  BY <1>1 DEF Applied, database
<1>3. /\ Registered' = Registered \cup {s} /\ subs'[s] = query
      /\ \A t \in Registered : t # s /\ subs'[t] = subs[t]
  BY <1>1 DEF Registered, ControlTypes
<1>4. /\ \A id \in ReadIds : s \notin readers[id]
      /\ \A k \in Keys : s \notin held[k]
      /\ \A id \in ReadIds : readers[id] \subseteq Registered
      /\ \A k \in Keys : held[k] \subseteq Registered
  BY <1>1 DEF WholeInv, ShownInv, Awaited
<1>5. ASSUME NEW twin \in Registered, subs[twin] = query, UNCHANGED flights,
             held' = [k \in Keys |-> held[k] \cup (IF twin \in held[k] THEN {s} ELSE {})],
             readers' = JoinReads(s, twin)
      PROVE  WholeInv'
  <2>1. /\ \A id \in ReadIds : readers'[id] = readers[id] \cup (IF twin \in readers[id] THEN {s} ELSE {})
        /\ \A k \in Keys : held'[k] = held[k] \cup (IF twin \in held[k] THEN {s} ELSE {})
    BY <1>5 DEF JoinReads
  <2>2. Awaited(flights, readers)'
    <3> SUFFICES ASSUME NEW id \in ReadIds, NEW t \in readers'[id]
                 PROVE  /\ Out(flights'[id]) /\ t \in Registered'
                        /\ id \in Slots => flights'[id].query = subs'[t]
      BY DEF Awaited
    <3>1. CASE t \in readers[id]
      <4>1. Out(flights[id]) /\ t \in Registered /\ (id \in Slots => flights[id].query = subs[t])
        BY <3>1 DEF WholeInv, Awaited
      <4> QED BY <1>3, <1>5, <4>1
    <3>2. CASE t = s /\ twin \in readers[id]
      <4>1. Out(flights[id]) /\ (id \in Slots => flights[id].query = subs[twin])
        BY <3>2 DEF WholeInv, Awaited
      <4> QED BY <1>3, <1>5, <3>2, <4>1
    <3> QED BY <2>1, <3>1, <3>2
  <2>3. ASSUME NEW S, S \subseteq Registered, Together(S),
               NEW T, T = S \cup (IF twin \in S THEN {s} ELSE {}),
               NEW t \in Registered', NEW u \in Registered', subs'[t] = subs'[u], t \in T
        PROVE  u \in T
    <3>1. CASE t = s /\ u = s
      BY <2>3, <3>1
    <3>2. CASE t = s /\ u # s
      <4>1. twin \in S /\ subs[u] = subs[twin] /\ u \in Registered
        BY <1>1, <1>3, <1>5, <2>3, <3>2
      <4> QED BY <2>3, <4>1 DEF Together
    <3>3. CASE t # s /\ u = s
      <4>1. t \in S /\ subs[t] = subs[twin] /\ t \in Registered
        BY <1>1, <1>3, <1>5, <2>3, <3>3
      <4> QED BY <2>3, <3>3, <4>1 DEF Together
    <3>4. CASE t # s /\ u # s
      <4>1. t \in S /\ subs[t] = subs[u] /\ t \in Registered /\ u \in Registered
        BY <1>3, <2>3, <3>4
      <4> QED BY <2>3, <4>1 DEF Together
    <3> QED BY <3>1, <3>2, <3>3, <3>4
  <2>4. TwinsAlike'
    <3>1. ASSUME NEW id \in ReadIds, NEW t \in Registered', NEW u \in Registered',
                 subs'[t] = subs'[u], t \in readers'[id]
          PROVE  u \in readers'[id]
      <4>1. readers[id] \subseteq Registered /\ Together(readers[id])
        BY <1>4 DEF WholeInv, TwinsAlike
      <4> QED BY <2>1, <2>3, <3>1, <4>1
    <3>2. ASSUME NEW k \in Keys, NEW t \in Registered', NEW u \in Registered',
                 subs'[t] = subs'[u], t \in held'[k]
          PROVE  u \in held'[k]
      <4>1. held[k] \subseteq Registered /\ Together(held[k])
        BY <1>4 DEF WholeInv, TwinsAlike
      <4> QED BY <2>1, <2>3, <3>2, <4>1
    <3> QED BY <3>1, <3>2 DEF TwinsAlike, Together
  <2>5. RowsOwed'
    <3> SUFFICES ASSUME NEW t \in Registered', NEW k \in Keys,
                        Matches(subs'[t], Applied'[k]), t \notin held'[k]
                 PROVE  \E id \in ReadIds : t \in readers'[id] /\ (id \in Keys => id = k)
      BY DEF RowsOwed
    <3> DEFINE like == IF t = s THEN twin ELSE t
    <3>1. like \in Registered /\ Matches(subs[like], Applied[k]) /\ like \notin held[k]
      BY <1>2, <1>3, <1>5, <2>1
    <3>2. PICK id \in ReadIds : like \in readers[id] /\ (id \in Keys => id = k)
      BY <3>1 DEF WholeInv, RowsOwed
    <3>3. t \in readers'[id]
      BY <2>1, <3>2
    <3> QED BY <3>2, <3>3
  <2> QED BY <2>2, <2>4, <2>5 DEF WholeInv
<1>6. ASSUME \A t \in SubIds : subs[t] # query, UNCHANGED held, NEW slot \in Slots,
             ~Out(flights[slot]), flights' = [flights EXCEPT ![slot] = Asked(query)],
             readers' = [readers EXCEPT ![slot] = {s}]
      PROVE  WholeInv'
  <2>1. /\ slot \in ReadIds /\ slot \notin Keys /\ readers[slot] = {}
        /\ \A id \in ReadIds : readers'[id] = IF id = slot THEN {s} ELSE readers[id]
        /\ \A id \in ReadIds : flights'[id] = IF id = slot THEN Asked(query) ELSE flights[id]
    BY <1>1, <1>6, ConstantsAssumption DEF ReadIds, WholeInv, Awaited, ControlTypes
  <2>2. Out(flights'[slot]) /\ flights'[slot].query = query
    <3>1. flights'[slot] = Asked(query)
      BY <2>1
    <3> QED BY <3>1, AskedIsOut DEF Asked
  <2>3. Awaited(flights, readers)'
    <3> SUFFICES ASSUME NEW id \in ReadIds, NEW t \in readers'[id]
                 PROVE  /\ Out(flights'[id]) /\ t \in Registered'
                        /\ id \in Slots => flights'[id].query = subs'[t]
      BY DEF Awaited
    <3>1. CASE id = slot
      BY <1>3, <2>1, <2>2, <3>1
    <3>2. CASE id # slot
      <4>1. Out(flights[id]) /\ t \in Registered /\ (id \in Slots => flights[id].query = subs[t])
        BY <2>1, <3>2 DEF WholeInv, Awaited
      <4> QED BY <1>3, <2>1, <3>2, <4>1
    <3> QED BY <3>1, <3>2
  <2>4. ASSUME NEW t \in Registered', NEW u \in Registered', subs'[t] = subs'[u]
        PROVE  (t = s <=> u = s) /\ (t # s => t \in Registered /\ u \in Registered /\ subs[t] = subs[u])
    BY <1>3, <1>6, <2>4 DEF Registered
  <2>5. TwinsAlike'
    <3>1. ASSUME NEW S, Together(S), S \subseteq Registered,
                 NEW t \in Registered', NEW u \in Registered', subs'[t] = subs'[u], t \in S
          PROVE  u \in S
      BY <1>1, <2>4, <3>1 DEF Together
    <3>2. ASSUME NEW id \in ReadIds, NEW t \in Registered', NEW u \in Registered',
                 subs'[t] = subs'[u], t \in readers'[id]
          PROVE  u \in readers'[id]
      <4>1. CASE id = slot
        BY <2>1, <2>4, <3>2, <4>1
      <4>2. CASE id # slot
        <5>1. readers[id] \subseteq Registered /\ Together(readers[id]) /\ readers'[id] = readers[id]
          BY <1>4, <2>1, <4>2 DEF WholeInv, TwinsAlike
        <5> QED BY <3>1, <3>2, <5>1
      <4> QED BY <4>1, <4>2
    <3>3. ASSUME NEW k \in Keys, NEW t \in Registered', NEW u \in Registered',
                 subs'[t] = subs'[u], t \in held'[k]
          PROVE  u \in held'[k]
      <4>1. held[k] \subseteq Registered /\ Together(held[k]) /\ held'[k] = held[k]
        BY <1>4, <1>6 DEF WholeInv, TwinsAlike
      <4> QED BY <3>1, <3>3, <4>1
    <3> QED BY <3>2, <3>3 DEF TwinsAlike, Together
  <2>6. RowsOwed'
    <3> SUFFICES ASSUME NEW t \in Registered', NEW k \in Keys,
                        Matches(subs'[t], Applied'[k]), t \notin held'[k]
                 PROVE  \E id \in ReadIds : t \in readers'[id] /\ (id \in Keys => id = k)
      BY DEF RowsOwed
    <3>1. CASE t = s
      BY <2>1, <3>1
    <3>2. CASE t # s
      <4>1. t \in Registered /\ Matches(subs[t], Applied[k]) /\ t \notin held[k]
        BY <1>2, <1>3, <1>6, <3>2
      <4>2. PICK id \in ReadIds : t \in readers[id] /\ (id \in Keys => id = k)
        BY <4>1 DEF WholeInv, RowsOwed
      <4>3. id # slot
        BY <2>1, <4>2
      <4> QED BY <2>1, <4>2, <4>3
    <3> QED BY <3>1, <3>2
  <2> QED BY <2>3, <2>5, <2>6 DEF WholeInv
<1> QED BY <1>5, <1>6 DEF Register

LEMMA CommitWhole == ASSUME WholeInv, Unconditioned, ShownInv', Commit PROVE WholeInv'
<1> DEFINE at == Later(position, 1) + 1
           txn == wal[at]
           image == [k \in DOMAIN txn |-> Completed(txn[k], frame[k])]
           again == {k \in DOMAIN txn : IsPartial(image[k]) /\ Matching(image[k]) # {}}
           needs == [k \in Keys |-> IF k \in again THEN WithTwins(Matching(image[k])) ELSE {}]
           fits  == [k \in DOMAIN txn \ again |-> Matching(image[k])]
<1>1. ShownInv /\ ControlTypes
  BY DEF WholeInv, ShownInv, ReadInv
<1>2. /\ at \in 2 .. Len(wal) /\ Applied' = db[at]
      /\ Applied = db[at - 1] /\ UNCHANGED <<database, subs>>
  <2>1. Later(position, 1) \in Nat
    BY <1>1, PositionInLog DEF ShownInv
  <2> QED BY <1>1, <2>1, CommitMoves
<1>3. /\ held' = [k \in Keys |-> IF k \in DOMAIN fits THEN fits[k] ELSE held[k]]
      /\ flights' = Reread(Woken(flights), needs)
      /\ readers' = Joined(readers, needs)
  BY Zenon DEF Commit, Route
<1>4. /\ at = Later(position, 1) + 1 /\ at \in 1 .. Len(wal)
      /\ Registered' = Registered
  BY <1>1, <1>2 DEF Registered, ControlTypes
<1> HIDE DEF at
<1>5. DOMAIN txn \subseteq Keys /\ DOMAIN fits = DOMAIN txn \ again /\ db[at] \in Tables
  BY <1>1, <1>4, LogTyped
<1>6. \A k \in Keys : needs[k] \subseteq Registered /\ Together(needs[k])
  BY TwinsTogether DEF Together
<1>7. Awaited(flights', readers') /\ \A id \in ReadIds : Together(readers'[id])
  <2> HIDE DEF needs
  <2>1. Awaited(Woken(flights), readers)
    BY <1>1, WokenWaits DEF WholeInv
  <2> QED BY <1>3, <1>6, <2>1, JoinedWaits DEF WholeInv, TwinsAlike
<1>8. \A k \in Keys : Together(held'[k])
  <2> SUFFICES ASSUME NEW k \in Keys PROVE Together(held'[k])
    OBVIOUS
  <2>1. held'[k] = held[k] \/ (k \in DOMAIN txn /\ held'[k] = Matching(image[k]))
    BY <1>3, <1>5
  <2> QED BY <2>1, MatchingTogether DEF WholeInv, TwinsAlike
<1>9. \A id \in ReadIds : readers[id] \subseteq readers'[id]
  BY <1>3 DEF Joined
<1>10. RowsOwed'
  <2> SUFFICES ASSUME NEW s \in Registered, NEW k \in Keys,
                      Matches(subs[s], db[at][k]), s \notin held'[k]
               PROVE  \E id \in ReadIds : s \in readers'[id] /\ (id \in Keys => id = k)
    BY <1>2, <1>4 DEF RowsOwed
  <2>1. CASE k \in DOMAIN txn
    <3>1. db[at][k] # NoRow /\ db[at][k] \in Images
      BY <1>5 DEF Matches, Tables
    <3>2. image[k] = Completed(wal[at][k], frame[k])
      BY <2>1
    <3>3. Tells(image[k], db[at][k])
      BY <1>1, <1>2, <1>4, <2>1, <3>1, <3>2, RoutedTells
    <3>4. subs[s] \in Queries
      BY <1>1 DEF Registered, ControlTypes
    <3>5. Matches(subs[s], image[k])
      BY <3>1, <3>3, <3>4, MatchesTold
    <3>6. s \in Matching(image[k])
      BY <3>5 DEF Matching
    <3>7. k \in again
      BY <1>3, <1>5, <2>1, <3>6
    <3>8. s \in needs[k]
      <4>1. needs[k] = WithTwins(Matching(image[k]))
        BY <3>7
      <4>2. Matching(image[k]) \subseteq Registered
        BY DEF Matching
      <4> QED BY <3>6, <4>1, <4>2, WithTwinsHolds
    <3>9. k \in ReadIds /\ s \in readers'[k]
      BY <1>3, <3>8 DEF Joined, ReadIds
    <3> QED BY <3>9
  <2>2. CASE k \notin DOMAIN txn
    <3>1. db[at][k] = Applied[k]
      BY <1>1, <1>2, <2>2 DEF ShownInv, DbFollows
    <3>2. held'[k] = held[k]
      BY <1>3, <1>5, <2>2
    <3>3. \E id \in ReadIds : s \in readers[id] /\ (id \in Keys => id = k)
      BY <3>1, <3>2 DEF WholeInv, RowsOwed
    <3> QED BY <1>9, <3>3
  <2> QED BY <2>1, <2>2
<1>11. Awaited(flights, readers)' /\ TwinsAlike'
  BY <1>2, <1>4, <1>7, <1>8 DEF Awaited, TwinsAlike, Together
<1> QED BY <1>10, <1>11 DEF WholeInv

LEMMA LandWhole ==
    ASSUME WholeInv, Unconditioned, ShownInv', NEW id \in ReadIds, Land(id)
    PROVE  WholeInv'
<1> DEFINE rows == BroughtUp(id)
           image == [k \in Keys |-> IF frame[k] # NoRow THEN frame[k] ELSE rows[k]]
           takers == [k \in Keys |-> IF rows[k] = NoRow THEN {}
                                     ELSE readers[id] \cap Matching(image[k])]
           joins == [k \in Keys |-> IF IsPartial(image[k]) THEN {} ELSE takers[k] \ held[k]]
           needs == [k \in Keys |-> IF IsPartial(image[k]) THEN WithTwins(takers[k]) ELSE {}]
           over == [flights EXCEPT ![id] = NoFlight]
           left == [readers EXCEPT ![id] = {}]
<1>1. ShownInv /\ ControlTypes /\ flights[id].state = "read"
  BY DEF WholeInv, ShownInv, ReadInv, Land
<1>2. /\ UNCHANGED <<database, position, subs>> /\ Applied' = Applied /\ Registered' = Registered
  BY DEF Land, Applied, database, Registered
<1>3. /\ held' = [k \in Keys |-> held[k] \cup joins[k]]
      /\ flights' = Reread(over, needs)
      /\ readers' = Joined(left, needs)
  BY DEF Land, LandRows
<1>4. Applied \in Tables
  BY <1>1, PositionInLog, LogTyped DEF ShownInv, Applied
<1>5. Sound(rows, Later(position, 1))
  BY <1>1, BroughtTells
<1>6. (\E s \in SubIds : s \in readers[id]) => Full(rows, id, Later(position, 1))
  <2> SUFFICES ASSUME NEW s \in readers[id] PROVE Full(rows, id, Later(position, 1))
    OBVIOUS
  <2>1. id \in Slots => flights[id].query \in Queries
    BY <1>1 DEF WholeInv, Awaited, Registered, ControlTypes
  <2> QED BY <1>1, <2>1, BroughtWhole
<1> HIDE DEF rows
<1>7. \A k \in Keys : Together(takers[k]) /\ takers[k] \subseteq readers[id]
  <2> SUFFICES ASSUME NEW k \in Keys PROVE Together(takers[k]) /\ takers[k] \subseteq readers[id]
    OBVIOUS
  <2>1. takers[k] = {} \/ takers[k] = readers[id] \cap Matching(image[k])
    OBVIOUS
  <2>2. Together(readers[id]) /\ Together(Matching(image[k]))
    BY MatchingTogether DEF WholeInv, TwinsAlike
  <2> QED BY <2>1, <2>2 DEF Together
<1>8. \A k \in Keys : needs[k] \subseteq Registered /\ Together(needs[k])
  BY TwinsTogether DEF Together
<1>9. \A other \in ReadIds : left[other] = IF other = id THEN {} ELSE readers[other]
  BY <1>1 DEF ControlTypes
<1>10. Awaited(flights', readers') /\ \A other \in ReadIds : Together(readers'[other])
  <2>1. Awaited(over, left)
    <3>1. \A other \in ReadIds : other # id => over[other] = flights[other]
      BY <1>1 DEF ControlTypes
    <3> HIDE DEF over, left
    <3> QED BY <1>9, <3>1 DEF WholeInv, Awaited
  <2>2. \A other \in ReadIds : Together(left[other])
    <3> HIDE DEF left
    <3> QED BY <1>9 DEF WholeInv, TwinsAlike, Together
  <2> HIDE DEF needs, over, left
  <2> QED BY <1>3, <1>8, <2>1, <2>2, JoinedWaits
<1>11. \A k \in Keys : Together(held'[k])
  <2> SUFFICES ASSUME NEW k \in Keys PROVE Together(held'[k])
    OBVIOUS
  <2>1. held'[k] = held[k] \/ held'[k] = held[k] \cup takers[k]
    BY <1>3
  <2>2. Together(held[k]) /\ Together(takers[k])
    BY <1>7 DEF WholeInv, TwinsAlike
  <2> HIDE DEF takers
  <2> QED BY <2>1, <2>2 DEF Together
<1>12. RowsOwed'
  <2> SUFFICES ASSUME NEW s \in Registered, NEW k \in Keys,
                      Matches(subs[s], Applied[k]), s \notin held'[k]
               PROVE  \E other \in ReadIds : s \in readers'[other] /\ (other \in Keys => other = k)
    BY <1>2 DEF RowsOwed
  <2>1. s \notin held[k]
    BY <1>3
  <2>2. PICK other \in ReadIds : s \in readers[other] /\ (other \in Keys => other = k)
    BY <2>1 DEF WholeInv, RowsOwed
  <2>3. CASE other # id
    <3>1. left[other] \subseteq readers'[other]
      <4> HIDE DEF left
      <4> QED BY <1>3 DEF Joined
    <3> QED BY <1>9, <2>2, <2>3, <3>1
  <2>4. CASE other = id
    <3>1. Applied[k] # NoRow /\ Applied[k] \in Images /\ s \in SubIds
      BY <1>4 DEF Matches, Tables, Registered
    <3>2. Admits(id, k, Applied[k])
      BY <2>2, <2>4, <3>1 DEF Admits, WholeInv, Awaited, ReadIds
    <3>3. rows[k] # NoRow
      BY <1>6, <2>2, <2>4, <3>1, <3>2 DEF Full, Applied
    <3>4. Tells(image[k], Applied[k])
      <4>1. CASE frame[k] # NoRow
        BY <1>1, <3>1, <4>1, RowTells DEF ShownInv, FrameCurrent
      <4>2. CASE frame[k] = NoRow
        BY <1>5, <3>3, <4>2 DEF Sound, Applied
      <4> QED BY <4>1, <4>2
    <3>5. subs[s] \in Queries
      BY <1>1 DEF Registered, ControlTypes
    <3> DEFINE it == image[k]
    <3>6. Matches(subs[s], it)
      <4>1. Tells(it, Applied[k])
        BY <3>4
      <4> HIDE DEF it
      <4> QED BY <3>1, <3>5, <4>1, MatchesTold
    <3>7. s \in takers[k]
      BY <2>2, <2>4, <3>3, <3>6 DEF Matching
    <3>8. IsPartial(image[k])
      BY <1>3, <2>1, <3>7
    <3>9. s \in needs[k]
      <4>1. takers[k] \subseteq Registered
        BY DEF Matching
      <4>2. needs[k] = WithTwins(takers[k])
        BY <3>8
      <4> HIDE DEF takers, needs
      <4> QED BY <3>7, <4>1, <4>2, WithTwinsHolds
    <3>10. k \in ReadIds /\ s \in readers'[k]
      BY <1>3, <3>9 DEF Joined, ReadIds
    <3> QED BY <3>10
  <2> QED BY <2>3, <2>4
<1>13. Awaited(flights, readers)' /\ TwinsAlike'
  BY <1>2, <1>10, <1>11 DEF Awaited, TwinsAlike, Together
<1> QED BY <1>12, <1>13 DEF WholeInv

LEMMA InitWhole == Init => WholeInv
<1> SUFFICES ASSUME Init PROVE WholeInv
  OBVIOUS
<1>1. Registered = {}
  BY DEF Init, Registered
<1>2. Awaited(flights, readers) /\ TwinsAlike /\ RowsOwed
  BY <1>1 DEF Init, Awaited, TwinsAlike, Together, RowsOwed
<1> QED BY <1>2, InitShown DEF WholeInv

\* A read keeps its query on its way through the storage and the service.
LEMMA StorageWhole ==
    ASSUME WholeInv, ShownInv', NEW id \in ReadIds,
           \/ StorageRead(id) \/ StorageFails(id) \/ StorageRefuses(id) \/ Park(id)
    PROVE  WholeInv'
<1>1. flights \in [ReadIds -> Flights]
  BY DEF WholeInv, ShownInv, ReadInv, ControlTypes
<1>2. UNCHANGED <<subs, readers, held>> /\ Applied' = Applied
  BY DEF StorageRead, StorageFails, StorageRefuses, StorageEnds, Park, engine, Applied, database
<1>3. ASSUME NEW other \in ReadIds, Out(flights[other])
      PROVE  Out(flights'[other]) /\ flights'[other].query = flights[other].query
  <2>1. CASE StorageRead(id)
    BY <1>1, <1>3, <2>1 DEF StorageRead, Out, Flights
  <2>2. CASE StorageFails(id) \/ StorageRefuses(id)
    BY <1>1, <1>3, <2>2 DEF StorageFails, StorageRefuses, StorageEnds, Out, Flights
  <2>3. CASE Park(id)
    BY <1>1, <1>3, <2>3 DEF Park, Out, Flights
  <2> QED BY <2>1, <2>2, <2>3
<1> QED BY <1>2, <1>3, WholeStays

LEMMA NextWhole == ASSUME WholeInv, Unconditioned, [Next]_vars PROVE WholeInv'
<1>1. ShownInv' /\ ShownInv
  BY NextShown DEF WholeInv
<1>2. CASE DbCommit
  <2>1. UNCHANGED <<subs, readers, held, flights, position>>
    BY <1>2 DEF DbCommit, runtime, engine
  <2>2. Applied' = Applied
    <3>1. Later(position, 1) \in 1 .. Len(wal) /\ Len(db) = Len(wal) /\ db \in Seq(Tables)
      BY <1>1, PositionInLog DEF ShownInv, ReadInv, ControlTypes
    <3>2. PICK next : db' = Append(db, next)
      BY <1>2 DEF DbCommit
    <3>3. db'[Later(position, 1)] = db[Later(position, 1)]
      BY <3>1, <3>2
    <3> QED BY <2>1, <3>3 DEF Applied
  <2> QED BY <1>1, <2>1, <2>2, WholeStays
<1>3. CASE Mint \/ MintDone \/ MintFails \/ UNCHANGED vars
  <2>1. UNCHANGED <<subs, readers, held, flights, position, database>>
    BY <1>3 DEF Mint, MintDone, MintFails, vars, database, runtime, engine, outbox
  <2>2. Applied' = Applied
    BY <2>1 DEF Applied, database
  <2> QED BY <1>1, <2>1, <2>2, WholeStays
<1>4. CASE Commit
  BY <1>1, <1>4, CommitWhole
<1>5. CASE Mark
  <2>1. UNCHANGED <<subs, readers, held, database>> /\ position' = Later(position, 1)
    BY <1>5 DEF Mark, Moved, engine
  <2>2. Applied' = Applied
    <3>1. position \in Nat
      BY <1>1, PositionInLog DEF ShownInv
    <3> QED BY <2>1, <3>1 DEF Applied, Later, database
  <2>3. ASSUME NEW id \in ReadIds, Out(flights[id])
        PROVE  Out(flights'[id]) /\ flights'[id].query = flights[id].query
    <3>1. flights'[id] = flights[id] \/ flights'[id] = Asked(flights[id].query)
      BY <1>5 DEF Mark, Woken
    <3>2. Asked(flights[id].query).query = flights[id].query
      BY DEF Asked
    <3> QED BY <2>3, <3>1, <3>2, AskedIsOut
  <2> QED BY <1>1, <2>1, <2>2, <2>3, WholeStays
<1>6. CASE \E s \in SubIds : Unregister(s)
  <2>1. PICK s \in SubIds : Unregister(s)
    BY <1>6
  <2>2. LetGo({s}) /\ UNCHANGED flights /\ Applied' = Applied
    BY <2>1 DEF Unregister, runtime, Applied, database
  <2> QED BY <1>1, <2>2, LetGoWhole
<1>7. CASE \E s \in SubIds, query \in Queries : Register(s, query)
  BY <1>1, <1>7, RegisterWhole
<1>8. CASE \E id \in ReadIds : StorageRead(id) \/ StorageFails(id) \/ StorageRefuses(id) \/ Park(id)
  BY <1>1, <1>8, StorageWhole
<1>9. CASE \E id \in ReadIds : Refuse(id)
  <2>1. PICK id \in ReadIds : Refuse(id)
    BY <1>9
  <2>2. LetGo(readers[id]) /\ Applied' = Applied
    BY <2>1 DEF Refuse, Applied, database
  <2>3. \A other \in ReadIds : readers[other] \subseteq readers[id] \/ flights'[other] = flights[other]
    BY <1>1, <2>1 DEF Refuse, ShownInv, ReadInv, ControlTypes
  <2> QED BY <1>1, <2>2, <2>3, LetGoWhole
<1>10. CASE \E id \in ReadIds : Land(id)
  BY <1>1, <1>10, LandWhole
<1> QED BY <1>2, <1>3, <1>4, <1>5, <1>6, <1>7, <1>8, <1>9, <1>10 DEF Next

LEMMA WholeInvHolds == ASSUME Unconditioned PROVE Spec => []WholeInv
<1>1. WholeInv /\ [Next]_vars => WholeInv'
  BY NextWhole
<1> QED BY InitWhole, <1>1, PTL DEF Spec

\* A hydrated client has every row of its answer, and no other.
LEMMA HydratedIsWhole ==
    ASSUME WholeInv, NEW s \in SubIds, Hydrated(s)
    PROVE  view[s] = Answer(subs[s], Applied)
<1>1. view[s] = [k \in Keys |-> IF s \in held[k] THEN frame[k] ELSE NoRow]
  BY DEF WholeInv, ShownInv, ViewsFollow
<1>2. ASSUME NEW k \in Keys
      PROVE  (IF s \in held[k] THEN frame[k] ELSE NoRow)
               = IF Matches(subs[s], Applied[k]) THEN Applied[k] ELSE NoRow
  <2>1. CASE s \in held[k]
    BY <2>1 DEF WholeInv, ShownInv, FrameCurrent
  <2>2. CASE s \notin held[k]
    <3>1. ~Matches(subs[s], Applied[k])
      BY <2>2 DEF WholeInv, RowsOwed, Hydrated, Pending
    <3> QED BY <2>2, <3>1
  <2> QED BY <2>1, <2>2
<1> QED BY <1>1, <1>2 DEF Answer

(* A hydrated client shows every row of its answer, when no query has a     *)
(* condition on the column the feed may leave out: Engine::route's re-reads. *)
THEOREM EnteringRowsAlwaysReach == ASSUME Unconditioned PROVE Spec => []EnteringRowsReach
<1>1. WholeInv => EnteringRowsReach
  <2> SUFFICES ASSUME WholeInv, NEW s \in SubIds, NEW k \in Keys,
                      Hydrated(s), Matches(subs[s], Applied[k])
               PROVE  view[s][k] # NoRow
    BY DEF EnteringRowsReach
  <2>1. view[s][k] = Applied[k]
    BY HydratedIsWhole DEF Answer
  <2> QED BY <2>1 DEF Matches
<1> QED BY <1>1, WholeInvHolds, PTL

-----------------------------------------------------------------------------
(* The promise to the clients *)

\* What LiveQuery calls shown, and what it is.
Shows == [s \in SubIds |-> IF Hydrated(s) THEN view[s] ELSE NoRow]
ShowsAnswers ==
    Shows = [s \in SubIds |-> IF Hydrated(s) THEN Answer(subs[s], Applied) ELSE NoRow]

LEMMA AnswersShown == WholeInv => ShowsAnswers
BY HydratedIsWhole DEF Shows, ShowsAnswers

\* An answer is a table, hence not what stands for none.
LEMMA AnswerIsThere ==
    ASSUME ShownInv, NEW query PROVE Answer(query, Applied) # NoRow /\ Applied \in Tables
<1>1. Applied \in Tables
  BY PositionInLog, LogTyped DEF ShownInv, ReadInv, Applied
<1>2. Answer(query, Applied) \in Tables
  BY <1>1 DEF Answer, Tables
<1> QED BY <1>1, <1>2, ConstantsAssumption

LEMMA NowIsApplied ==
    ASSUME ShownInv PROVE Applied = db[IF position = 0 THEN 1 ELSE position]
<1>1. position \in Nat
  BY PositionInLog DEF ShownInv
<1>2. Later(position, 1) = IF position = 0 THEN 1 ELSE position
  BY <1>1 DEF Later
<1> QED BY <1>2 DEF Applied

\* Who waits for what decides who is hydrated, and that what is shown.
LEMMA SameShown ==
    ASSUME ShowsAnswers, ShowsAnswers', UNCHANGED <<subs, readers>>, Applied' = Applied
    PROVE  Shows' = Shows
<1>1. \A s \in SubIds : Hydrated(s)' <=> Hydrated(s)
  BY DEF Hydrated, Pending, Registered
<1> QED BY <1>1 DEF ShowsAnswers

LEMMA InitPromise == Init => Promise!Init
<1> SUFFICES ASSUME Init PROVE Promise!Init
  OBVIOUS
<1>1. \A s \in SubIds : ~Hydrated(s)
  BY DEF Init, Hydrated, Registered
<1> QED BY <1>1 DEF Init, Promise!Init

LEMMA DbCommitPromise ==
    ASSUME WholeInv, ShowsAnswers, ShowsAnswers', WholeInv', DbCommit PROVE Promise!Next
<1>1. UNCHANGED <<subs, readers, position>>
  BY DEF DbCommit, runtime, engine
<1>2. db \in Seq(Tables) /\ db' \in Seq(Tables) /\ ShownInv
  BY DEF WholeInv, ShownInv, ReadInv, ControlTypes
<1>3. PICK next : db' = Append(db, next)
  BY DEF DbCommit
<1>4. Len(db') = Len(db) + 1 /\ Len(db) \in Nat /\ db'[Len(db) + 1] = next
  BY <1>2, <1>3
<1>5. next \in Tables
  BY <1>2, <1>4
<1>6. Applied' = Applied
  <2>1. Later(position, 1) \in 1 .. Len(db)
    BY <1>2, PositionInLog DEF ShownInv, ReadInv, ControlTypes
  <2> QED BY <1>1, <1>2, <1>3, <2>1 DEF Applied
<1>7. Shows' = Shows
  BY <1>1, <1>6, SameShown
<1> QED BY <1>1, <1>3, <1>5, <1>7 DEF Promise!Next, Promise!Write, Shows

LEMMA CommitPromise ==
    ASSUME WholeInv, ShowsAnswers, ShowsAnswers', WholeInv', Commit PROVE Promise!Next
<1>1. ShownInv /\ ShownInv' /\ position \in Nat /\ Len(wal) \in Nat /\ Len(db) = Len(wal)
  BY PositionInLog DEF WholeInv, ShownInv, ReadInv, ControlTypes
<1>2. /\ position' = (IF position = 0 THEN 2 ELSE position + 1) /\ position' <= Len(db)
      /\ UNCHANGED <<db, subs>>
  <2>1. position' = Later(position, 1) + 1 /\ position' <= Len(wal) /\ UNCHANGED <<database, subs>>
    BY DEF Commit, Moved
  <2> QED BY <1>1, <2>1 DEF Later, database
<1>3. Applied' = db[IF position' = 0 THEN 1 ELSE position']
  <2>1. Later(position', 1) = IF position' = 0 THEN 1 ELSE position'
    BY <1>1, <1>2 DEF Later
  <2> QED BY <1>2, <2>1 DEF Applied
<1>4. \A s \in SubIds : Hydrated(s)' => Hydrated(s)
  <2>1. \E needs : readers' = Joined(readers, needs)
    BY DEF Commit, Route
  <2>2. \A id \in ReadIds : readers[id] \subseteq readers'[id]
    BY <2>1 DEF Joined
  <2> QED BY <1>2, <2>2 DEF Hydrated, Pending, Registered
<1>5. ASSUME NEW s \in SubIds
      PROVE  IF Shows[s] = NoRow THEN Shows'[s] = NoRow
             ELSE Shows'[s] \in {NoRow, Answer(subs[s], db[IF position' = 0 THEN 1 ELSE position'])}
  <2>1. Shows[s] = IF Hydrated(s) THEN Answer(subs[s], Applied) ELSE NoRow
    BY DEF ShowsAnswers
  <2>2. Shows'[s] = IF Hydrated(s)' THEN Answer(subs[s], Applied') ELSE NoRow
    BY <1>2 DEF ShowsAnswers
  <2>3. Answer(subs[s], Applied) # NoRow
    BY <1>1, AnswerIsThere
  <2> QED BY <1>3, <1>4, <2>1, <2>2, <2>3
<1>6. DOMAIN Shows' = SubIds
  BY DEF Shows
<1> QED BY <1>2, <1>5, <1>6 DEF Promise!Next, Promise!Apply, Promise!Now, Shows

LEMMA MarkPromise ==
    ASSUME WholeInv, ShowsAnswers, ShowsAnswers', WholeInv', Mark
    PROVE  Promise!Next \/ UNCHANGED Promise!vars
<1>1. ShownInv /\ position \in Nat /\ Len(db) = Len(wal) /\ Len(wal) \in Nat /\ Len(wal) >= 1
  <2>1. ShownInv /\ Len(db) = Len(wal) /\ Len(wal) \in 1 .. MaxLsn
    BY DEF WholeInv, ShownInv, ReadInv, ControlTypes
  <2>2. position \in Nat /\ Len(wal) \in Nat
    BY <2>1, PositionInLog DEF ShownInv
  <2> QED BY <2>1, <2>2, ConstantsAssumption
<1>2. UNCHANGED <<db, subs, readers>> /\ position' = (IF position = 0 THEN 1 ELSE position)
  BY <1>1 DEF Mark, Moved, Later, database, engine
<1>3. Applied' = Applied
  BY <1>1, <1>2 DEF Applied, Later
<1>4. Shows' = Shows
  BY <1>2, <1>3, SameShown
<1>5. CASE position = 0
  <2>1. position' = 1 /\ Applied = db[1]
    BY <1>2, <1>5, <1>1, NowIsApplied
  <2>2. ASSUME NEW s \in SubIds
        PROVE  IF Shows[s] = NoRow THEN Shows'[s] = NoRow
               ELSE Shows'[s] \in {NoRow, Answer(subs[s], db[IF position' = 0 THEN 1 ELSE position'])}
    <3>1. Shows[s] = IF Hydrated(s) THEN Answer(subs[s], Applied) ELSE NoRow
      BY DEF ShowsAnswers
    <3> QED BY <1>4, <2>1, <3>1
  <2>3. DOMAIN Shows' = SubIds
    BY DEF Shows
  <2> QED BY <1>1, <1>2, <1>5, <2>1, <2>2, <2>3 DEF Promise!Next, Promise!Apply, Promise!Now, Shows
<1>6. CASE position # 0
  BY <1>2, <1>4, <1>6 DEF Promise!vars, Shows
<1> QED BY <1>5, <1>6

LEMMA LetGoPromise ==
    ASSUME WholeInv, ShowsAnswers, ShowsAnswers', WholeInv', NEW gone \in SUBSET SubIds, LetGo(gone),
           UNCHANGED <<database, position>>
    PROVE  Promise!Next
<1>1. /\ subs' = [s \in SubIds |-> IF s \in gone THEN NoQuery ELSE subs[s]]
      /\ \A id \in ReadIds : readers'[id] = readers[id] \ gone
      /\ UNCHANGED db /\ Applied' = Applied
  BY DEF LetGo, database, Applied
<1>2. \A s \in SubIds : Hydrated(s)' <=> s \notin gone /\ Hydrated(s)
  BY <1>1 DEF Hydrated, Pending, Registered
<1>3. Shows' = [s \in SubIds |-> IF s \in gone THEN NoRow ELSE Shows[s]]
  BY <1>1, <1>2 DEF ShowsAnswers
<1> QED BY <1>1, <1>3 DEF Promise!Next, Promise!Close, Shows

LEMMA RegisterPromise ==
    ASSUME WholeInv, ShowsAnswers, ShowsAnswers', WholeInv',
           NEW s \in SubIds, NEW query \in Queries, Register(s, query)
    PROVE  Promise!Next
<1>1. /\ ShownInv /\ ControlTypes /\ s \notin Registered /\ subs[s] = NoQuery
      /\ subs' = [subs EXCEPT ![s] = query] /\ UNCHANGED <<db, position>>
      /\ \A id \in ReadIds : s \notin readers[id]
  BY DEF WholeInv, ShownInv, ReadInv, Register, Registered, Awaited, database
<1>2. Applied' = Applied /\ subs'[s] = query /\ \A t \in SubIds \ {s} : subs'[t] = subs[t]
  BY <1>1 DEF Applied, ControlTypes
<1>3. \A id \in ReadIds : \A t \in SubIds \ {s} : t \in readers'[id] <=> t \in readers[id]
  <2>1. CASE \E twin \in Registered : readers' = JoinReads(s, twin)
    BY <2>1 DEF JoinReads
  <2>2. CASE \E id \in Slots : ~Out(flights[id]) /\ readers' = [readers EXCEPT ![id] = {s}]
    <3>1. PICK slot \in Slots : ~Out(flights[slot]) /\ readers' = [readers EXCEPT ![slot] = {s}]
      BY <2>2
    <3>2. readers[slot] = {}
      BY <3>1 DEF WholeInv, Awaited, ReadIds
    <3> QED BY <1>1, <3>1, <3>2 DEF ControlTypes
  <2> QED BY <2>1, <2>2 DEF Register
<1>4. \A t \in SubIds \ {s} : Hydrated(t)' <=> Hydrated(t)
  BY <1>2, <1>3 DEF Hydrated, Pending, Registered
<1>5. ~Hydrated(s)
  BY <1>1 DEF Hydrated
<1>6. \A t \in SubIds \ {s} : Shows'[t] = Shows[t]
  BY <1>2, <1>4 DEF ShowsAnswers
<1>7. Shows[s] = NoRow /\ Shows'[s] \in {NoRow, Answer(query, Applied)}
  BY <1>2, <1>5 DEF ShowsAnswers
<1>8. \/ Shows' = Shows
      \/ Shows' = [Shows EXCEPT ![s] = Answer(query, Applied)]
  <2>1. Shows = [t \in SubIds |-> Shows[t]] /\ Shows' = [t \in SubIds |-> Shows'[t]]
    BY DEF Shows
  <2> QED BY <1>6, <1>7, <2>1
<1>9. Applied = db[IF position = 0 THEN 1 ELSE position]
  BY <1>1, NowIsApplied
<1>10. Promise!Open(s, query)
  BY <1>1, <1>8, <1>9 DEF Promise!Open, Promise!Now, Shows
<1> QED BY <1>10 DEF Promise!Next

LEMMA LandPromise ==
    ASSUME WholeInv, ShowsAnswers, ShowsAnswers', WholeInv', NEW id \in ReadIds, Land(id)
    PROVE  Promise!Next
<1> DEFINE rows == BroughtUp(id)
           image == [k \in Keys |-> IF frame[k] # NoRow THEN frame[k] ELSE rows[k]]
           takers == [k \in Keys |-> IF rows[k] = NoRow THEN {}
                                     ELSE readers[id] \cap Matching(image[k])]
           needs == [k \in Keys |-> IF IsPartial(image[k]) THEN WithTwins(takers[k]) ELSE {}]
           left == [readers EXCEPT ![id] = {}]
<1>1. ShownInv /\ ControlTypes
  BY DEF WholeInv, ShownInv, ReadInv
<1>2. UNCHANGED <<db, position, subs>> /\ Applied' = Applied
  BY DEF Land, Applied, database
<1>3. readers' = Joined(left, needs)
  BY DEF Land, LandRows
<1> HIDE DEF rows
<1>4. \A k \in Keys : needs[k] \subseteq readers[id]
  <2> SUFFICES ASSUME NEW k \in Keys PROVE WithTwins(takers[k]) \subseteq readers[id]
    OBVIOUS
  <2>1. takers[k] = {} \/ takers[k] = readers[id] \cap Matching(image[k])
    OBVIOUS
  <2>2. Together(readers[id]) /\ Together(Matching(image[k]))
    BY MatchingTogether DEF WholeInv, TwinsAlike
  <2>3. takers[k] \subseteq readers[id] /\ takers[k] \subseteq Registered /\ Together(takers[k])
    BY <2>1, <2>2 DEF Together, Matching
  <2> HIDE DEF takers
  <2> QED BY <2>3, WithTwinsSame
<1>5. \A other \in ReadIds : readers'[other] \subseteq readers[other] \cup readers[id]
  <2>1. \A other \in ReadIds : left[other] \subseteq readers[other]
    BY <1>1 DEF ControlTypes
  <2> HIDE DEF left, needs
  <2> QED BY <1>3, <1>4, <2>1 DEF Joined
<1>6. \A s \in SubIds : Hydrated(s) => Hydrated(s)'
  BY <1>2, <1>5 DEF Hydrated, Pending, Registered
<1> DEFINE S == {s \in SubIds : ~Hydrated(s) /\ Hydrated(s)'}
<1>7. S \in SUBSET {s \in SubIds : subs[s] # NoQuery /\ Shows[s] = NoRow}
  BY <1>2 DEF Hydrated, Registered, Shows
<1>8. Shows' = [s \in SubIds |-> IF s \in S THEN Answer(subs[s], Applied) ELSE Shows[s]]
  BY <1>2, <1>6 DEF ShowsAnswers
<1>9. Applied = db[IF position = 0 THEN 1 ELSE position]
  BY <1>1, NowIsApplied
<1> HIDE DEF S
<1>10. Promise!Settle
  BY <1>2, <1>7, <1>8, <1>9 DEF Promise!Settle, Promise!Now, Shows
<1> QED BY <1>10 DEF Promise!Next

LEMMA NextPromise ==
    ASSUME WholeInv, ShowsAnswers, ShowsAnswers', WholeInv', [Next]_vars
    PROVE  [Promise!Next]_(Promise!vars)
<1>1. ASSUME UNCHANGED <<subs, readers, database, position>> PROVE UNCHANGED Promise!vars
  <2>1. Applied' = Applied
    BY <1>1 DEF Applied, database
  <2>2. Shows' = Shows
    BY <1>1, <2>1, SameShown
  <2> QED BY <1>1, <2>2 DEF Promise!vars, Shows, database
<1>2. CASE DbCommit
  BY <1>2, DbCommitPromise
<1>3. CASE Mint \/ MintDone \/ MintFails \/ UNCHANGED vars
           \/ \E id \in ReadIds : StorageRead(id) \/ StorageFails(id) \/ StorageRefuses(id) \/ Park(id)
  <2>1. UNCHANGED <<subs, readers, database, position>>
    BY <1>3 DEF Mint, MintDone, MintFails, vars, StorageRead, StorageFails, StorageRefuses,
                StorageEnds, Park, database, runtime, engine, outbox
  <2> QED BY <1>1, <2>1
<1>4. CASE Commit
  BY <1>4, CommitPromise
<1>5. CASE Mark
  BY <1>5, MarkPromise
<1>6. CASE \E s \in SubIds : Unregister(s)
  <2>1. PICK s \in SubIds : Unregister(s)
    BY <1>6
  <2>2. LetGo({s}) /\ UNCHANGED <<database, position>> /\ {s} \in SUBSET SubIds
    BY <2>1 DEF Unregister, runtime
  <2> QED BY <2>2, LetGoPromise
<1>7. CASE \E s \in SubIds, query \in Queries : Register(s, query)
  BY <1>7, RegisterPromise
<1>8. CASE \E id \in ReadIds : Refuse(id)
  <2>1. PICK id \in ReadIds : Refuse(id)
    BY <1>8
  <2>2. LetGo(readers[id]) /\ UNCHANGED <<database, position>> /\ readers[id] \in SUBSET SubIds
    BY <2>1 DEF Refuse, WholeInv, ShownInv, ReadInv, ControlTypes
  <2> QED BY <2>2, LetGoPromise
<1>9. CASE \E id \in ReadIds : Land(id)
  BY <1>9, LandPromise
<1> QED BY <1>2, <1>3, <1>4, <1>5, <1>6, <1>7, <1>8, <1>9 DEF Next

(* The live reads keep the promise: each step, whatever reads are out,      *)
(* lands, fails or is refused, is one of LiveQuery's or stutters, when no   *)
(* query has a condition on the column the feed may leave out.             *)
THEOREM PromiseKept == ASSUME Unconditioned PROVE Spec => ImplementsLiveQuery
<1>1. Spec => []WholeInv
  BY WholeInvHolds
<1>2. WholeInv /\ WholeInv' /\ [Next]_vars => [Promise!Next]_(Promise!vars)
  <2>1. WholeInv' => ShowsAnswers'
    BY AnswersShown, PTL
  <2> QED BY <2>1, AnswersShown, NextPromise
<1> QED BY <1>1, <1>2, InitPromise, PTL DEF Spec, ImplementsLiveQuery, Promise!Spec
=============================================================================
