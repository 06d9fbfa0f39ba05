------------------------------ MODULE LiveReads ------------------------------
(***************************************************************************)
(* The live-read core of streamgres: PostgreSQL commits, the snapshots     *)
(* (aliases) the storage reads by, the runtime that brings a read's result *)
(* up to the engine's position, the single-table engine that routes writes *)
(* to subscriptions, and the service loop that ties them together.         *)
(*                                                                         *)
(* A write is delivered by the change feed at its own location, a read is  *)
(* answered at the location of an older snapshot, and the engine sits at   *)
(* one position at every moment.  What a subscription shows must be its    *)
(* query's answer at that position, whatever the order in which reads are  *)
(* asked, answered, failed, retried and landed around the commits.         *)
(*                                                                         *)
(* One table, no ORDER BY and no LIMIT (so no windows).  A row's columns   *)
(* are a small one and a large one; PostgreSQL leaves an untouched large   *)
(* value out of an update's image.  Locations count committed             *)
(* transactions: 1 is the state the first snapshot was minted on.          *)
(***************************************************************************)
EXTENDS Naturals, Sequences, FiniteSets

CONSTANTS
    Keys,            \* primary keys; a read of one row has its key as id
    Slots,           \* ids of snapshot reads, reused once a read is over
    SubIds,          \* subscription ids, reused once unregistered
    Small, Large,    \* values of the two columns
    Omitted,         \* the large column of an image the feed left it out of
    NoRow,           \* no row / a delete
    NoQuery,         \* an id that is not registered
    Queries,         \* what clients may subscribe to
    Transactions,    \* what the database may commit: key -> image written
    Initial,         \* the table when the first snapshot is minted
    MaxLsn,          \* bound on the commits explored
    WaitingAliases,  \* minting pauses while this many aliases wait
    Faults           \* what may go wrong: reads "failed", "refused", a "mint"

ReadIds == Keys \cup Slots
Images == [small : Small, large : Large]
PartialImages == [small : Small, large : {Omitted}]
Tables == [Keys -> Images \cup {NoRow}]
Writes == UNION {[S -> Images \cup PartialImages \cup {NoRow}] : S \in SUBSET Keys}

(* A query admits sets of values; Omitted among the large ones says that it *)
(* has no condition on the large column (a missing column fails any).       *)
AllQueries == [small : SUBSET Small, large : SUBSET (Large \cup {Omitted})]

ASSUME ConstantsAssumption ==
    /\ Keys \cap Slots = {}
    /\ Omitted \notin Large
    /\ NoRow \notin Images \cup PartialImages \cup Tables
    /\ NoQuery \notin Queries
    /\ Queries \subseteq AllQueries
    /\ Transactions \subseteq Writes
    /\ \A txn \in Transactions : DOMAIN txn # {}
    /\ Initial \in Tables
    /\ MaxLsn \in Nat \ {0}
    /\ WaitingAliases \in Nat \ {0}
    /\ Faults \subseteq {"failed", "refused", "mint"}

VARIABLES
    wal,        \* the committed transactions, in commit order
    db,         \* the table as of each of them
    current,    \* location of the alias reads use; 0 while there is none
    waiting,    \* locations of aliases the stream has not passed, oldest first
    minting,    \* location of the alias being minted; 0 when none is
    position,   \* where the engine is
    floor,      \* lowest location a read asked from now on can be at
    recent,     \* locations of the delivered writes still remembered
    flights,    \* the reads handed to the storage, by id
    subs,       \* registered queries
    readers,    \* the subscriptions each read will land into
    frame,      \* the shared row images
    held,       \* the subscriptions tagged on each shared row
    awaiting,   \* registered, not yet reported hydrated
    view        \* each client's rows: the deltas sent to it, applied

database == <<wal, db>>
aliases  == <<current, waiting, minting>>
runtime  == <<position, floor, recent, flights>>
engine   == <<subs, readers, frame, held>>
outbox   == <<awaiting, view>>
vars     == <<database, aliases, runtime, engine, outbox>>

Later(a, b) == IF a >= b THEN a ELSE b

NoFlight == [state |-> "idle", query |-> NoQuery, floor |-> 0, at |-> 0]
Out(read) == read.state # "idle"

(* A read freshly handed to the storage, issued under the current floor. *)
Asked(query) == [state |-> "asked", query |-> query, floor |-> floor, at |-> 0]

PartialForgotten(image) == FALSE
IsPartial(image) == image # NoRow /\ image.large = Omitted

Matches(query, image) ==
    image # NoRow /\ image.small \in query.small /\ image.large \in query.large

Registered == {s \in SubIds : subs[s] # NoQuery}
Matching(image) == {s \in Registered : Matches(subs[s], image)}
WithTwins(S) == {s \in Registered : \E t \in S : subs[t] = subs[s]}

(* A write's image with the column the feed left out taken from an earlier *)
(* image of the row, when there is one.                                    *)
Completed(new, old) ==
    IF IsPartial(new) /\ old # NoRow THEN [new EXCEPT !.large = old.large] ELSE new

-----------------------------------------------------------------------------
(* The database and the snapshot rotation *)

Init ==
    /\ wal = << <<>> >> /\ db = <<Initial>>
    /\ current = 0 /\ waiting = <<1>> /\ minting = 0
    /\ position = 0 /\ floor = 0 /\ recent = {}
    /\ flights = [id \in ReadIds |-> NoFlight]
    /\ subs = [s \in SubIds |-> NoQuery]
    /\ readers = [id \in ReadIds |-> {}]
    /\ frame = [k \in Keys |-> NoRow]
    /\ held = [k \in Keys |-> {}]
    /\ awaiting = {}
    /\ view = [s \in SubIds |-> [k \in Keys |-> NoRow]]

(* Only an existing row can be deleted or updated without its large value. *)
Possible(txn) ==
    \A k \in DOMAIN txn :
        txn[k] \in PartialImages \cup {NoRow} => db[Len(db)][k] # NoRow

Stored(new, old) == IF new \in PartialImages THEN [new EXCEPT !.large = old.large] ELSE new

DbCommit ==
    /\ Len(wal) < MaxLsn
    /\ \E txn \in Transactions :
        /\ Possible(txn)
        /\ wal' = Append(wal, txn)
        /\ db' = Append(db, [k \in Keys |-> IF k \in DOMAIN txn
                                            THEN Stored(txn[k], db[Len(db)][k])
                                            ELSE db[Len(db)][k]])
    /\ UNCHANGED <<aliases, runtime, engine, outbox>>

(* The rotation takes a consistent point; the alias is usable only when the *)
(* mint returns, by when the stream may have passed the point.             *)
Mint ==
    /\ minting = 0 /\ Len(waiting) < WaitingAliases
    /\ minting' = Len(wal)
    /\ UNCHANGED <<database, current, waiting, runtime, engine, outbox>>

MintDone ==
    /\ minting # 0
    /\ waiting' = Append(waiting, minting)
    /\ minting' = 0
    /\ UNCHANGED <<database, current, runtime, engine, outbox>>

MintFails ==
    /\ "mint" \in Faults /\ minting # 0
    /\ minting' = 0
    /\ UNCHANGED <<database, current, waiting, runtime, engine, outbox>>

AdvanceEagerly(feed) ==
    /\ waiting # <<>>
    /\ current' = waiting[Len(waiting)] /\ waiting' = <<>>

(* The newest waiting alias the stream has passed becomes current. *)
Advance(feed) ==
    \E n \in 0 .. Len(waiting) :
        /\ \A i \in 1 .. n : waiting[i] <= feed
        /\ n < Len(waiting) => waiting[n + 1] > feed
        /\ current' = IF n = 0 THEN current ELSE waiting[n]
        /\ waiting' = SubSeq(waiting, n + 1, Len(waiting))

-----------------------------------------------------------------------------
(* The change feed: a transaction, or a mark of the feed's position *)

TrimmedAtFloor(locations, reads, low) == {l \in locations : l > low}
TrimmedWhenStarted(locations, reads, low) ==
    {l \in locations :
        l > low \/ \E id \in ReadIds : reads[id].state = "asked" /\ l > reads[id].floor}

(* What is left of the remembered writes once those at or below the floor  *)
(* and below every read in flight are forgotten.                           *)
Trimmed(locations, reads, low) ==
    {l \in locations :
        l > low \/ \E id \in ReadIds : Out(reads[id]) /\ l > reads[id].floor}

WokenNever(reads) == reads

(* Parked reads are handed out again, under the floor of this moment. *)
Woken(reads) ==
    [id \in ReadIds |->
        IF reads[id].state = "parked" THEN Asked(reads[id].query) ELSE reads[id]]

(* The row reads needs[k] # {} calls for: one per row, joined if it is out. *)
Reread(reads, needs) ==
    [id \in ReadIds |->
        IF id \in Keys /\ ~Out(reads[id]) /\ needs[id] # {}
        THEN Asked(NoQuery) ELSE reads[id]]

Joined(waiters, needs) ==
    [id \in ReadIds |-> waiters[id] \cup (IF id \in Keys THEN needs[id] ELSE {})]

MovedFloorOnce(to) ==
    /\ position' = to
    /\ Advance(to)
    /\ floor' = IF floor = 0 THEN current' ELSE floor
    /\ UNCHANGED minting

(* The stream moved: the storage is told, and its floor learned. *)
Moved(to) ==
    /\ position' = to
    /\ Advance(to)
    /\ floor' = Later(floor, current')
    /\ UNCHANGED minting

(* A transaction's writes routed to the subscriptions that hold their rows *)
(* or match them now.  A partial image of a row the frame holds is         *)
(* completed from it; of a row nobody holds, it is shown to nobody and the *)
(* row is read again for those it enters.  The writes of a transaction are *)
(* on distinct keys, so their order does not matter.                       *)
Route(txn, reads) ==
    LET image == [k \in DOMAIN txn |-> Completed(txn[k], frame[k])]
        again == {k \in DOMAIN txn : IsPartial(image[k]) /\ Matching(image[k]) # {}}
        needs == [k \in Keys |-> IF k \in again THEN WithTwins(Matching(image[k])) ELSE {}]
        fits  == [k \in DOMAIN txn \ again |-> Matching(image[k])]
    IN  /\ frame' = [k \in Keys |-> IF k \notin DOMAIN fits THEN frame[k]
                                    ELSE IF fits[k] = {} THEN NoRow ELSE image[k]]
        /\ held' = [k \in Keys |-> IF k \in DOMAIN fits THEN fits[k] ELSE held[k]]
        /\ view' = [s \in SubIds |-> [k \in Keys |->
                        IF k \in DOMAIN fits /\ s \in fits[k] THEN image[k]
                        ELSE IF k \in DOMAIN fits /\ s \in held[k] THEN NoRow
                        ELSE view[s][k]]]
        /\ flights' = Reread(reads, needs)
        /\ readers' = Joined(readers, needs)

(* The next transaction is applied as one step: its writes routed, parked   *)
(* reads woken, the writes remembered, the storage advanced.               *)
Commit ==
    LET at == Later(position, 1) + 1
    IN  /\ at <= Len(wal)
        /\ Route(wal[at], Woken(flights))
        /\ Moved(at)
        /\ recent' = Trimmed(recent \cup {at}, flights', floor')
        /\ UNCHANGED <<database, subs, awaiting>>

(* A position mark: the same step with nothing to route. *)
Mark ==
    /\ flights' = Woken(flights)
    /\ Moved(Later(position, 1))
    /\ recent' = IF floor' > floor THEN Trimmed(recent, flights', floor') ELSE recent
    /\ UNCHANGED <<database, engine, outbox>>

-----------------------------------------------------------------------------
(* Commands of the clients' side *)

Pending(s, waiters) == \E id \in ReadIds : s \in waiters[id]
Hydrated(s) == s \in Registered /\ ~Pending(s, readers)

(* The readers of every read once s joins those its twin waits on. *)
JoinReads(s, twin) ==
    [id \in ReadIds |-> readers[id] \cup (IF twin \in readers[id] THEN {s} ELSE {})]

(* A query somebody already has is served from the shared rows and joins   *)
(* the reads its twin waits on; any other is read from the storage.        *)
Register(s, query) ==
    /\ subs[s] = NoQuery
    /\ subs' = [subs EXCEPT ![s] = query]
    /\ \/ \E twin \in Registered :
            /\ subs[twin] = query
            /\ held' = [k \in Keys |-> held[k] \cup (IF twin \in held[k] THEN {s} ELSE {})]
            /\ view' = [view EXCEPT ![s] =
                            [k \in Keys |-> IF twin \in held[k] THEN frame[k] ELSE NoRow]]
            /\ readers' = JoinReads(s, twin)
            /\ UNCHANGED flights
       \/ /\ \A t \in SubIds : subs[t] # query
          /\ \E id \in Slots :
                /\ ~Out(flights[id])
                /\ flights' = [flights EXCEPT ![id] = Asked(query)]
                /\ readers' = [readers EXCEPT ![id] = {s}]
          /\ UNCHANGED <<held, view>>
    /\ awaiting' = IF Pending(s, readers') THEN awaiting \cup {s} ELSE awaiting
    /\ UNCHANGED <<database, aliases, position, floor, recent, frame>>

(* Subscriptions let go: untagged everywhere, out of every read's readers, *)
(* rows nobody holds dropped.  Their reads still out land as no-ops.       *)
LetGo(gone) ==
    /\ subs' = [s \in SubIds |-> IF s \in gone THEN NoQuery ELSE subs[s]]
    /\ readers' = [id \in ReadIds |-> readers[id] \ gone]
    /\ held' = [k \in Keys |-> held[k] \ gone]
    /\ frame' = [k \in Keys |-> IF held[k] \subseteq gone THEN NoRow ELSE frame[k]]
    /\ awaiting' = awaiting \ gone
    /\ view' = [s \in SubIds |-> IF s \in gone THEN [k \in Keys |-> NoRow] ELSE view[s]]

Unregister(s) ==
    /\ s \in Registered
    /\ LetGo({s})
    /\ UNCHANGED <<database, aliases, runtime>>

-----------------------------------------------------------------------------
(* The storage side of a read *)

(* The read starts: it takes the current alias, and its answer with it. *)
StorageRead(id) ==
    /\ flights[id].state = "asked" /\ current # 0
    /\ flights' = [flights EXCEPT ![id].state = "read", ![id].at = current]
    /\ UNCHANGED <<database, aliases, position, floor, recent, engine, outbox>>

(* No alias yet, a broken connection, a snapshot gone with its minter; or   *)
(* an answer that will never come (too many rows, too slow, invalid).       *)
StorageEnds(id, how) ==
    /\ how \in Faults
    /\ flights[id].state \in {"asked", "read"}
    /\ flights' = [flights EXCEPT ![id].state = how, ![id].at = 0]
    /\ UNCHANGED <<database, aliases, position, floor, recent, engine, outbox>>

StorageFails(id) == StorageEnds(id, "failed")
StorageRefuses(id) == StorageEnds(id, "refused")

-----------------------------------------------------------------------------
(* The service takes up a read's outcome *)

Park(id) ==
    /\ flights[id].state = "failed"
    /\ flights' = [flights EXCEPT ![id].state = "parked"]
    /\ UNCHANGED <<database, aliases, position, floor, recent, engine, outbox>>

Refuse(id) ==
    /\ flights[id].state = "refused"
    /\ flights' = [flights EXCEPT ![id] = NoFlight]
    /\ LetGo(readers[id])
    /\ recent' = Trimmed(recent, flights', floor)
    /\ UNCHANGED <<database, aliases, position, floor>>

(* Whether the read selects the row: its key, or its query's filter. *)
Admits(id, k, image) ==
    IF id \in Keys THEN k = id /\ image # NoRow ELSE Matches(flights[id].query, image)

RefreshedStaying(id, k, old, write) ==
    LET image == Completed(write, old)
    IN  IF Admits(id, k, image) THEN image ELSE old

(* One remembered write applied to the result's row: dropped, replaced, or *)
(* brought in; an image with its large value left out is completed first.  *)
Refreshed(id, k, old, write) ==
    LET image == Completed(write, old)
    IN  IF Admits(id, k, image) THEN image ELSE NoRow

(* A read's result with every remembered write past its snapshot applied. *)
BroughtUp(id) ==
    LET at == flights[id].at
        rows[l \in at .. Later(position, at)] ==
            IF l = at THEN [k \in Keys |-> IF Admits(id, k, db[at][k]) THEN db[at][k] ELSE NoRow]
            ELSE [k \in Keys |->
                    IF l \in recent /\ k \in DOMAIN wal[l]
                    THEN Refreshed(id, k, rows[l - 1][k], wal[l][k])
                    ELSE rows[l - 1][k]]
    IN  rows[Later(position, at)]

(* Those awaited once every candidate with nothing left to wait for has     *)
(* been reported hydrated.                                                 *)
Unsettled(candidates, waiters) ==
    {s \in awaiting : s \in candidates => Pending(s, waiters)}

(* Rows land into each of the read's readers through its own filter; a row *)
(* the frame holds keeps the frame's image, a partial one nobody holds is  *)
(* read again.                                                             *)
LandRows(id, rows) ==
    LET image == [k \in Keys |-> IF frame[k] # NoRow THEN frame[k] ELSE rows[k]]
        takers == [k \in Keys |-> IF rows[k] = NoRow THEN {}
                                  ELSE readers[id] \cap Matching(image[k])]
        joins == [k \in Keys |-> IF IsPartial(image[k]) THEN {} ELSE takers[k] \ held[k]]
        needs == [k \in Keys |-> IF IsPartial(image[k]) THEN WithTwins(takers[k]) ELSE {}]
    IN  /\ frame' = [k \in Keys |-> IF joins[k] = {} THEN frame[k] ELSE image[k]]
        /\ held' = [k \in Keys |-> held[k] \cup joins[k]]
        /\ view' = [s \in SubIds |-> [k \in Keys |->
                        IF s \in joins[k] THEN image[k] ELSE view[s][k]]]
        /\ flights' = Reread([flights EXCEPT ![id] = NoFlight], needs)
        /\ readers' = Joined([readers EXCEPT ![id] = {}], needs)

(* The answer is brought up to the engine's position and landed; those of   *)
(* its readers with nothing left to wait for are reported hydrated.        *)
Land(id) ==
    /\ flights[id].state = "read"
    /\ LandRows(id, BroughtUp(id))
    /\ recent' = Trimmed(recent, flights', floor)
    /\ awaiting' = Unsettled(readers[id], readers')
    /\ UNCHANGED <<database, aliases, position, floor, subs>>

-----------------------------------------------------------------------------
Next ==
    \/ DbCommit
    \/ Mint \/ MintDone \/ MintFails
    \/ Commit \/ Mark
    \/ \E s \in SubIds : Unregister(s) \/ \E query \in Queries : Register(s, query)
    \/ \E id \in ReadIds :
        \/ StorageRead(id) \/ StorageFails(id) \/ StorageRefuses(id)
        \/ Park(id) \/ Refuse(id) \/ Land(id)

Spec == Init /\ [][Next]_vars

(* What the processes' loops justify.  The feed's ticker and the service    *)
(* loop keep running; the rotation mints again and again, and now and then  *)
(* succeeds; a read that is asked again and again is now and then answered  *)
(* and its answer taken up.  Nothing is owed by the database or the clients.*)
Fairness ==
    /\ WF_vars(Commit) /\ WF_vars(Mark)
    /\ WF_vars(Mint) /\ SF_vars(MintDone)
    /\ \A id \in ReadIds :
        /\ SF_vars(StorageRead(id)) /\ SF_vars(Land(id))
        /\ WF_vars(Park(id)) /\ WF_vars(Refuse(id))

FairSpec == Spec /\ Fairness

-----------------------------------------------------------------------------
(* Properties *)

Flights ==
    [state : {"idle", "asked", "read", "failed", "refused", "parked"},
     query : Queries \cup {NoQuery}, floor : 0 .. MaxLsn, at : 0 .. MaxLsn]

ControlTypes ==
    /\ wal \in Seq(Writes) /\ db \in Seq(Tables)
    /\ Len(wal) \in 1 .. MaxLsn /\ Len(db) = Len(wal)
    /\ current \in 0 .. MaxLsn /\ minting \in 0 .. MaxLsn
    /\ waiting \in Seq(1 .. MaxLsn)
    /\ position \in 0 .. MaxLsn /\ floor \in 0 .. MaxLsn
    /\ recent \subseteq 1 .. MaxLsn
    /\ flights \in [ReadIds -> Flights]
    /\ subs \in [SubIds -> Queries \cup {NoQuery}]
    /\ readers \in [ReadIds -> SUBSET SubIds]
    /\ held \in [Keys -> SUBSET SubIds]
    /\ awaiting \subseteq SubIds

(* Types; a frame never holds a partial image and no client is ever sent    *)
(* one (ivm/mod.rs:99).                                                    *)
TypeOK ==
    /\ ControlTypes
    /\ frame \in Tables
    /\ view \in [SubIds -> Tables]

(* A read is never positioned ahead of the engine, nor below the floor it  *)
(* was issued under: the assertion of Runtime::fetched and what trim       *)
(* relies on, whatever the aliases did while the read was out.             *)
ReadsWithinReach ==
    \A id \in ReadIds : flights[id].state = "read" =>
        flights[id].floor <= flights[id].at /\ flights[id].at <= position

(* Every delivered write past the point a read is at, or may still be      *)
(* answered at, is remembered until the read is over: Runtime::trim never  *)
(* forgets a write a landing needs.                                        *)
BufferCoversReads ==
    \A id \in ReadIds : Out(flights[id]) =>
        \A l \in 2 .. position :
            l > (IF flights[id].state = "read" THEN flights[id].at ELSE flights[id].floor)
                => l \in recent

(* The table as of everything the engine has applied. *)
Applied == db[Later(position, 1)]

(* What a client shows is never stale: each of its rows is the database's  *)
(* row at the engine's position and belongs to its query, even while its   *)
(* own reads are still out.                                                *)
ShownRowsCurrent ==
    \A s \in SubIds, k \in Keys : view[s][k] # NoRow =>
        view[s][k] = Applied[k] /\ Matches(subs[s], view[s][k])

(* Every registration is answered: hydrated, or refused. *)
EventuallyHydrated == \A s \in SubIds : s \in awaiting ~> s \notin awaiting

(* Every remembered write is forgotten in time, although reads fail and    *)
(* are retried: the buffer drains.                                         *)
BufferDrains == \A l \in 2 .. MaxLsn : l \in recent ~> l \notin recent

(* A partial image of a row nobody holds costs nobody the row: "a row with  *)
(* no whole image at hand is read again by primary key before anyone is     *)
(* sent it" (model/query.rs:316), so a hydrated client shows every row of   *)
(* its answer, conditions on the column the feed left out included.         *)
EnteringRowsReach ==
    \A s \in SubIds, k \in Keys :
        Hydrated(s) /\ Matches(subs[s], Applied[k]) => view[s][k] # NoRow

\* a query's rows in a table
Answer(query, table) ==
    [k \in Keys |-> IF Matches(query, table[k]) THEN table[k] ELSE NoRow]

(* The promise, the reads and the sharing forgotten: a hydrated query is    *)
(* settled and shows its client's rows.  Every step of this module is a     *)
(* step of LiveQuery or leaves what it describes alone.                     *)
Promise == INSTANCE LiveQuery WITH
    history <- db, live <- subs, Hidden <- NoRow,
    shown <- [s \in SubIds |-> IF Hydrated(s) THEN view[s] ELSE NoRow]

ImplementsLiveQuery == Promise!Spec
=============================================================================
