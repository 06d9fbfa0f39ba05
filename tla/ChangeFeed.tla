----------------------------- MODULE ChangeFeed -----------------------------
(***************************************************************************)
(* The change feed of streamgres, from the process's start to the engine:  *)
(* the replication slot and what it has confirmed, the connection that     *)
(* streams each committed transaction as events and may be lost between    *)
(* any two of them, the decoder that outlives it, the channel to the       *)
(* service, and the schema changes that travel with the transactions to    *)
(* the engine, to the snapshots reads use and to the clients' side.        *)
(*                                                                         *)
(* Locations count committed transactions, as in LiveReads.  A transaction *)
(* writes one row, and a catalog is the set of the schema changes it has:  *)
(* the locations of the transactions that made them.                       *)
(***************************************************************************)
EXTENDS Naturals, Sequences, FiniteSets

CONSTANTS
    Kinds,           \* of transactions: "rows", a "schema" change with a row,
                     \* or a "foreign" one, which the server cannot follow
    MaxLsn,          \* bound on the commits explored
    QueueCapacity,   \* of the channel from the feed to the service
    WaitingAliases,  \* minting pauses while this many aliases wait
    MaxAccidents,    \* bound on lost connections and crashes
    Accidents        \* "crash"; a connection lost with deliveries "unconfirmed";
                     \* a schema change while the process starts ("startup")

ASSUME ConstantsAssumption ==
    /\ Kinds \subseteq {"rows", "schema", "foreign"}
    /\ MaxLsn \in Nat \ {0}
    /\ QueueCapacity \in Nat \ {0} /\ WaitingAliases \in Nat \ {0}
    /\ MaxAccidents \in Nat
    /\ Accidents \subseteq {"crash", "unconfirmed", "startup"}

VARIABLES
    wal,        \* the kinds of the committed transactions, in commit order
    confirmed,  \* the position the slot has confirmed; it streams from there
    phase,      \* how far the process is: down, loaded, prepared, minted, serving
    first,      \* location of the first snapshot; 0 before it is minted
    link,       \* the replication connection: up, next (what it streams),
                \* stage (the last event of it absorbed), acked
    feed,       \* the decoder: catalog, changes, pending, progress, outgoing
    queue,      \* the channel to the service
    engine,     \* position, layout of the held rows, routed (the writes)
    aliases,    \* current, waiting, minting, rung, catalog, upcoming
    clients,    \* floor, catalog, pending (catalogs waiting for the floor)
    accidents   \* how many connections were lost and processes killed, and
                \* whether this process has met a redelivery or a schema
                \* change while it started (apart)

process == <<phase, first, link, feed, queue, engine, aliases, clients>>
vars == <<wal, confirmed, process, accidents>>

Later(a, b) == IF a >= b THEN a ELSE b

(* The catalog of the database as of a location. *)
CatalogAt(at) == {l \in 1 .. at : wal[l] # "rows"}

(* How many entries at the front of a sequence of locations are reached.    *)
Leading(locations, limit) ==
    Cardinality({i \in 1 .. Len(locations) : \A j \in 1 .. i : locations[j] <= limit})

After(s, n) == SubSeq(s, n + 1, Len(s))

NoLink == [up |-> FALSE, next |-> 0, stage |-> "between", acked |-> 0]
Nothing == [at |-> 0, progress |-> 0, writes |-> <<>>, changes |-> {}, catalog |-> {}]
NewFeed(catalog) ==
    [catalog |-> catalog, changes |-> {}, pending |-> <<>>, progress |-> 0,
     outgoing |-> Nothing]
NewEngine(catalog) == [position |-> 0, layout |-> catalog, routed |-> <<>>]
NewAliases(catalog) ==
    [current |-> 0, waiting |-> <<>>, minting |-> 0, rung |-> FALSE,
     catalog |-> catalog, upcoming |-> <<>>]
NewClients(catalog) == [floor |-> 0, catalog |-> catalog, pending |-> <<>>]

(* A position mark: a transaction of no write and no commit time. *)
MarkOf(progress) == [Nothing EXCEPT !.progress = progress]
IsMark(transaction) == transaction.at = 0

Init ==
    /\ wal = <<"rows">>
    /\ confirmed = 0 /\ phase = "down" /\ first = 0
    /\ link = NoLink /\ feed = NewFeed({}) /\ queue = <<>>
    /\ engine = NewEngine({}) /\ aliases = NewAliases({}) /\ clients = NewClients({})
    /\ accidents = [count |-> 0, apart |-> FALSE]

Starting == phase \in {"loaded", "prepared"}

(* The database commits.  Unless the accident is explored, nobody changes   *)
(* the schema between the process's load of the catalog and its first       *)
(* snapshot.                                                               *)
DbCommit ==
    /\ Len(wal) < MaxLsn
    /\ \E kind \in Kinds :
        /\ kind = "rows" \/ ~Starting \/ "startup" \in Accidents
        /\ wal' = Append(wal, kind)
        /\ accidents' = [accidents EXCEPT !.apart = @ \/ (kind # "rows" /\ Starting)]
    /\ UNCHANGED <<confirmed, process>>

-----------------------------------------------------------------------------
(* A process starts, and ends *)

LoadCatalog ==
    LET catalog == CatalogAt(Len(wal))
    IN  /\ phase = "down"
        /\ phase' = "loaded"
        /\ feed' = NewFeed(catalog) /\ engine' = NewEngine(catalog)
        /\ aliases' = NewAliases(catalog) /\ clients' = NewClients(catalog)
        /\ UNCHANGED <<wal, confirmed, first, link, queue, accidents>>

(* The process's own slot is created; it holds the log from here on. *)
Prepare ==
    /\ phase = "loaded"
    /\ phase' = "prepared" /\ confirmed' = Len(wal)
    /\ UNCHANGED <<wal, first, link, feed, queue, engine, aliases, clients, accidents>>

MintFirst ==
    /\ phase = "prepared"
    /\ phase' = "minted" /\ first' = Len(wal)
    /\ aliases' = [aliases EXCEPT !.waiting = <<Len(wal)>>]
    /\ UNCHANGED <<wal, confirmed, link, feed, queue, engine, clients, accidents>>

Streaming(from) == [up |-> TRUE, next |-> from + 1, stage |-> "between", acked |-> from]

PreparedPoint == confirmed

(* The slot is moved up to the first snapshot's point when it is behind it. *)
StartingPoint == Later(confirmed, first)

OpenFirst ==
    /\ phase = "minted"
    /\ phase' = "serving" /\ confirmed' = StartingPoint
    /\ link' = Streaming(confirmed')
    /\ UNCHANGED <<wal, first, feed, queue, engine, aliases, clients, accidents>>

(* A stopped process keeps nothing: its successor makes a slot of its own.  *)
Stop ==
    /\ phase' = "down" /\ first' = 0 /\ link' = NoLink /\ confirmed' = 0
    /\ feed' = NewFeed({}) /\ queue' = <<>>
    /\ engine' = NewEngine({}) /\ aliases' = NewAliases({}) /\ clients' = NewClients({})
    /\ UNCHANGED wal

Crash ==
    /\ "crash" \in Accidents /\ accidents.count < MaxAccidents
    /\ phase # "down"
    /\ Stop
    /\ accidents' = [count |-> accidents.count + 1, apart |-> FALSE]

-----------------------------------------------------------------------------
(* The connection and the decoder *)

Lose ==
    /\ link.up /\ link.stage # "sending" /\ accidents.count < MaxAccidents
    /\ "unconfirmed" \in Accidents \/ feed.progress <= confirmed
    /\ link' = NoLink
    /\ accidents' = [count |-> accidents.count + 1,
                     apart |-> accidents.apart \/ feed.progress > confirmed]
    /\ UNCHANGED <<wal, confirmed, phase, first, feed, queue, engine, aliases, clients>>

DecoderForgotten == [feed EXCEPT !.changes = {}]

(* The decoder is kept across the connections of the slot. *)
DecoderKept == feed

(* The slot is opened again: it streams from what it has confirmed. *)
Reopen ==
    /\ phase = "serving" /\ ~link.up
    /\ link' = Streaming(confirmed)
    /\ feed' = DecoderKept
    /\ UNCHANGED <<wal, confirmed, phase, first, queue, engine, aliases, clients, accidents>>

(* The server learns what was acknowledged to the client library. *)
Confirm ==
    /\ link.up /\ link.acked > confirmed
    /\ confirmed' = link.acked
    /\ UNCHANGED <<wal, process, accidents>>

(* One event is absorbed and the feed's progress acknowledged. *)
Absorbed(decoder, stage) ==
    /\ feed' = decoder
    /\ link' = [link EXCEPT !.stage = stage, !.acked = decoder.progress]
    /\ UNCHANGED <<wal, confirmed, phase, first, queue, engine, aliases, clients, accidents>>

PendingCleared == [feed EXCEPT !.pending = <<>>]

BeginEvent ==
    /\ link.up /\ link.stage = "between" /\ link.next <= Len(wal)
    /\ Absorbed(PendingCleared, "begun")

(* The trigger's message: the catalog grows and the changes wait for the    *)
(* commit; heard a second time it changes nothing.  One that cannot be      *)
(* followed ends the process.                                              *)
Grown(change) ==
    IF change \in feed.catalog THEN feed
    ELSE [feed EXCEPT !.catalog = @ \cup {change}, !.changes = @ \cup {change}]

SchemaMessage ==
    /\ link.up /\ link.stage = "begun" /\ wal[link.next] = "schema"
    /\ Absorbed(Grown(link.next), "told")

ForeignMessage ==
    /\ link.up /\ link.stage = "begun" /\ wal[link.next] = "foreign"
    /\ Stop
    /\ accidents' = [accidents EXCEPT !.apart = FALSE]

RowEvent ==
    /\ link.up /\ link.stage \in {"begun", "told"}
    /\ link.stage = "begun" => wal[link.next] = "rows"
    /\ Absorbed([feed EXCEPT !.pending = Append(@, link.next)], "filled")

(* The commit takes the writes, and every change heard since the last one. *)
CommitEvent ==
    LET at == link.next
        progress == Later(feed.progress, at)
    IN  /\ link.up /\ link.stage = "filled"
        /\ feed' = [feed EXCEPT
            !.pending = <<>>, !.changes = {}, !.progress = progress,
            !.outgoing = [at |-> at, progress |-> progress, writes |-> feed.pending,
                          changes |-> feed.changes,
                          catalog |-> IF feed.changes = {} THEN {} ELSE feed.catalog]]
        /\ link' = [link EXCEPT !.stage = "sending", !.next = at + 1, !.acked = progress]
        /\ UNCHANGED <<wal, confirmed, phase, first, queue, engine, aliases, clients, accidents>>

(* The feed waits for room in the channel; it hears nothing meanwhile. *)
Send ==
    /\ link.up /\ link.stage = "sending" /\ Len(queue) < QueueCapacity
    /\ queue' = Append(queue, feed.outgoing)
    /\ feed' = [feed EXCEPT !.outgoing = Nothing]
    /\ link' = [link EXCEPT !.stage = "between"]
    /\ UNCHANGED <<wal, confirmed, phase, first, engine, aliases, clients, accidents>>

KeepAliveIgnored == 0

(* What a keepalive names: below the commit record of any transaction being *)
(* streamed.                                                               *)
DeliveredUpTo == link.next - 1

KeepAlive ==
    /\ link.up /\ link.stage # "sending"
    /\ Absorbed([feed EXCEPT !.progress = Later(@, DeliveredUpTo)], link.stage)

(* Now and then the engine is told the feed's position without a           *)
(* transaction to carry it.                                                *)
Tick ==
    /\ link.up /\ link.stage # "sending"
    /\ feed.progress > 0 /\ Len(queue) < QueueCapacity
    /\ queue' = Append(queue, MarkOf(feed.progress))
    /\ UNCHANGED <<wal, confirmed, phase, first, link, feed, engine, aliases, clients, accidents>>

-----------------------------------------------------------------------------
(* The snapshots *)

(* At the rotation's tick, unless enough aliases wait; or at once when rung. *)
Mint ==
    /\ phase \in {"minted", "serving"} /\ aliases.minting = 0
    /\ aliases.rung \/ Len(aliases.waiting) < WaitingAliases
    /\ aliases' = [aliases EXCEPT !.minting = Len(wal), !.rung = FALSE]
    /\ UNCHANGED <<wal, confirmed, phase, first, link, feed, queue, engine, clients, accidents>>

MintDone ==
    /\ aliases.minting # 0
    /\ aliases' = [aliases EXCEPT !.waiting = Append(@, aliases.minting), !.minting = 0]
    /\ UNCHANGED <<wal, confirmed, phase, first, link, feed, queue, engine, clients, accidents>>

(* How many of the catalogs handed in the current alias brings into force.  *)
InForce(ats, current) == IF current = 0 THEN 0 ELSE Leading(ats, current)

(* The aliases once the stream has passed a position: the newest one it     *)
(* reaches is current, with the newest catalog that one reaches.            *)
Advanced(all, to) ==
    LET n == Leading(all.waiting, to)
        current == IF n = 0 THEN all.current ELSE all.waiting[n]
        m == InForce([i \in 1 .. Len(all.upcoming) |-> all.upcoming[i].at], current)
    IN  [all EXCEPT
            !.current = current, !.waiting = After(@, n),
            !.catalog = IF m = 0 THEN @ ELSE all.upcoming[m].catalog,
            !.upcoming = After(@, m)]

-----------------------------------------------------------------------------
(* The service takes up what the feed sent *)

Followed(catalogs, transaction) ==
    IF transaction.changes = {} THEN catalogs
    ELSE Append(catalogs, [at |-> transaction.at, catalog |-> transaction.catalog])

AdoptedAtOnce(all, floor) ==
    [all EXCEPT
        !.floor = floor, !.pending = <<>>,
        !.catalog = IF all.pending = <<>> THEN @ ELSE all.pending[Len(all.pending)].catalog]

(* The clients' side once the storage's floor is learned: it sees every     *)
(* waiting catalog the floor has reached.                                  *)
Adopted(all, floor) ==
    LET n == Leading([i \in 1 .. Len(all.pending) |-> all.pending[i].at], floor)
    IN  [all EXCEPT
            !.floor = floor, !.pending = After(@, n),
            !.catalog = IF n = 0 THEN @ ELSE all.pending[n].catalog]

(* The feed delivers it a second time. *)
Repeats(transaction) == ~IsMark(transaction) /\ transaction.at <= engine.position

(* One step: the schema changes, the writes, the mark, the storage told, the *)
(* catalogs whose snapshot is here published.                              *)
Apply(transaction) ==
    /\ engine' = [position |-> Later(engine.position, transaction.progress),
                  layout |-> engine.layout \cup transaction.changes,
                  routed |-> engine.routed \o transaction.writes]
    /\ aliases' = Advanced(
            [aliases EXCEPT !.upcoming = Followed(@, transaction),
                            !.rung = @ \/ transaction.changes # {}], engine'.position)
    /\ clients' = Adopted(
            [clients EXCEPT !.pending = Followed(@, transaction)],
            Later(clients.floor, aliases'.current))

Take ==
    /\ queue # <<>>
    /\ queue' = Tail(queue)
    /\ IF Repeats(Head(queue)) THEN UNCHANGED <<engine, aliases, clients>>
       ELSE Apply(Head(queue))
    /\ UNCHANGED <<wal, confirmed, phase, first, link, feed, accidents>>

-----------------------------------------------------------------------------
Next ==
    \/ DbCommit
    \/ LoadCatalog \/ Prepare \/ MintFirst \/ OpenFirst \/ Crash
    \/ Lose \/ Reopen \/ Confirm
    \/ BeginEvent \/ SchemaMessage \/ ForeignMessage \/ RowEvent \/ CommitEvent
    \/ Send \/ KeepAlive \/ Tick
    \/ Mint \/ MintDone \/ Take

Spec == Init /\ [][Next]_vars

(* Every loop of the process keeps running, the slot is opened again until  *)
(* it is, and the server keeps streaming and minting.  The accidents are    *)
(* bounded, and nothing is owed by the database's writers.                 *)
Fairness ==
    /\ WF_vars(LoadCatalog) /\ WF_vars(Prepare) /\ WF_vars(MintFirst)
    /\ WF_vars(OpenFirst) /\ WF_vars(Reopen)
    /\ WF_vars(BeginEvent) /\ WF_vars(SchemaMessage \/ ForeignMessage)
    /\ WF_vars(RowEvent) /\ WF_vars(CommitEvent) /\ WF_vars(Send)
    /\ WF_vars(KeepAlive) /\ SF_vars(Tick)
    /\ WF_vars(Mint) /\ WF_vars(MintDone) /\ WF_vars(Take)

FairSpec == Spec /\ Fairness

-----------------------------------------------------------------------------
(* Properties *)

Catalogs == SUBSET (1 .. MaxLsn)
Locations == 0 .. MaxLsn
Sent == [at : Locations, progress : Locations, writes : Seq(Locations),
         changes : Catalogs, catalog : Catalogs]
Handed == Seq([at : Locations, catalog : Catalogs])

Links == [up : BOOLEAN, next : 0 .. MaxLsn + 1, acked : Locations,
          stage : {"between", "begun", "told", "filled", "sending"}]
Feeds == [catalog : Catalogs, changes : Catalogs, pending : Seq(Locations),
          progress : Locations, outgoing : Sent]
Engines == [position : Locations, layout : Catalogs, routed : Seq(Locations)]
AliasLists == [current : Locations, waiting : Seq(1 .. MaxLsn), minting : Locations,
               rung : BOOLEAN, catalog : Catalogs, upcoming : Handed]
Sides == [floor : Locations, catalog : Catalogs, pending : Handed]

(* Types and bounds of the feed's state. *)
TypeOK ==
    /\ wal \in Seq(Kinds \cup {"rows"}) /\ Len(wal) \in 1 .. MaxLsn
    /\ confirmed \in Locations /\ first \in Locations
    /\ phase \in {"down", "loaded", "prepared", "minted", "serving"}
    /\ link \in Links /\ feed \in Feeds
    /\ queue \in Seq(Sent) /\ Len(queue) <= QueueCapacity
    /\ engine \in Engines /\ aliases \in AliasLists /\ clients \in Sides
    /\ accidents \in [count : 0 .. MaxAccidents, apart : BOOLEAN]

(* Nothing a client can name is missing from the snapshot its query will be *)
(* read from: "from here on every read it plans and every query it          *)
(* translates meets a snapshot that has the change" (Service::adopt).       *)
ClientsMeetTheChange ==
    clients.floor # 0 => clients.catalog \subseteq CatalogAt(clients.floor)

(* The engine is delivered what it relies on. *)
Contract == INSTANCE Delivery WITH
    committed <- Len(wal), start <- first,
    position <- engine.position, routed <- engine.routed

ImplementsDelivery == Contract!Spec

(* Every commit is applied in time, by this process or seen by the first    *)
(* snapshot of a later one.                                                *)
EveryCommitApplied == \A l \in 1 .. MaxLsn : l <= Len(wal) ~> l <= engine.position

(* Every schema change reaches the clients' side in time, a change that     *)
(* ends the process through the next one: the decoder's changes "outlive a  *)
(* lost connection on purpose ... the engine must still be told".  A        *)
(* process that met a redelivery, or a schema change while it started, may  *)
(* have missed one.                                                         *)
EveryChangeReachesClients ==
    \A l \in 2 .. MaxLsn :
        (l <= Len(wal) /\ wal[l] # "rows")
            ~> (accidents.apart \/ (clients.floor # 0 /\ l \in clients.catalog))
=============================================================================
