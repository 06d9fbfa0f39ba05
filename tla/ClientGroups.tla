---------------------------- MODULE ClientGroups ----------------------------
(***************************************************************************)
(* One client group of streamgres: its tabs, their connections, the group  *)
(* thread that keeps the group's view and the engine side it registers     *)
(* queries with.  Connections come and go unnoticed, requests and engine   *)
(* events reach the thread through two channels and in batches, and every  *)
(* batch ends with one poke.                                               *)
(*                                                                         *)
(* The engine side is reduced to what its events promise (LiveReads has    *)
(* the rest): a subscription is served at once or after a read, every      *)
(* commit's deltas name who enters and who leaves, and a read may be       *)
(* refused.  The tabs are the Zero clients outside the repository.         *)
(***************************************************************************)
EXTENDS GroupView

CONSTANTS
    Values,     \* contents of a row
    Shows,      \* per query, the contents it asks for
    NoTab, NoKey,
    Earlier,    \* the transactions before the server's start
    MaxLsn,     \* bound on the log
    MaxWires,   \* bound on the connections opened
    MaxAsks,    \* bound on each tab's changes of its desired queries
    MaxLines,   \* bound on the times the group is made anew
    LogPokes,   \* how many pokes fit the log's budget at the most
    Writers,    \* what commits: "outside" writes, "mutation"s, "refusal"s of them
    Faults      \* "drop" of a connection, "refuse"d reads, "unplanned" queries,
                \* mutation tables "unread" at a connect, a "race" of a refusal
                \* with a connect, a "late" message of an earlier connection

ASSUME ConstantsAssumption ==
    /\ Shows \in [Queries -> SUBSET Values] /\ NoRow \notin Values
    /\ NoTab \notin Tabs /\ NoKey \notin Keys
    /\ Earlier \in Seq([key : Keys, value : Values \cup {NoRow}, by : {NoTab}, refused : {FALSE}])
    /\ MaxLsn \in Nat /\ MaxWires \in Nat /\ MaxAsks \in Nat /\ LogPokes \in Nat
    /\ MaxLines \in Nat \ {0}
    /\ Writers \subseteq {"outside", "mutation", "refusal"}
    /\ Faults \subseteq {"drop", "refuse", "unplanned", "unread", "race", "late"}

VARIABLES
    wal,       \* committed transactions: key, value, by (the mutating tab), refused
    engine,    \* position, and per subscription its query, settled, shown keys
    commands,  \* from the group thread to the engine side
    events,    \* from the engine side to the group thread
    group,     \* the group's view (GroupView)
    awaiting,  \* registrations in flight: the query of each token
    minted,    \* tokens handed out
    pending,   \* deltas waiting for the next poke
    changes,   \* ids and results heard since the last flush; dirty
    turn,      \* what the batch under way takes: requests, events, or idle
    wires,     \* the connections
    tabs       \* the clients

thread == <<group, awaiting, minted, pending, changes, turn>>
vars == <<wal, engine, commands, events, thread, wires, tabs>>

Wires == 1 .. MaxWires
NoIds == [t \in Tabs |-> 0]

(* The table, the mutation ids and the waiting results as of a location.    *)
RowsAt(at) ==
    [k \in Keys |->
        LET written == {i \in 1 .. at : wal[i].key = k}
        IN  IF written = {} THEN NoRow ELSE wal[Max(written)].value]
IdsAt(at) == [t \in Tabs |-> Cardinality({i \in 1 .. at : wal[i].by = t})]
ResultsAt(at) ==
    {[tab |-> wal[i].by, id |-> IdsAt(i)[wal[i].by]] : i \in {i \in 1 .. at : wal[i].refused}}

InQuery(h, value) == value # NoRow /\ value \in Shows[h]
Answer(h, at) == {k \in Keys : InQuery(h, RowsAt(at)[k])}

NoChanges == [ids |-> <<>>, results |-> {}, dirty |-> FALSE]
NoWire == [stage |-> "unused", tab |-> NoTab, cookie |-> 0, ids |-> NoIds,
           waiting |-> {}, asks |-> <<>>, down |-> <<>>, line |-> 0]
NewTab == [cookie |-> 0, line |-> 0, rows |-> [k \in Keys |-> NoRow], got |-> {},
           ids |-> NoIds, heard |-> {}, trusted |-> {}, told |-> {}, desires |-> {},
           asked |-> 0, wire |-> 0, left |-> FALSE]

Init ==
    /\ wal = Earlier /\ commands = <<>> /\ events = <<>>
    /\ engine = [position |-> Len(Earlier), subs |-> <<>>]
    /\ group = NoGroup(1) /\ awaiting = <<>> /\ minted = 0
    /\ pending = <<>> /\ changes = NoChanges /\ turn = "idle"
    /\ wires = [w \in Wires |-> NoWire]
    /\ tabs = [t \in Tabs |-> NewTab]

-----------------------------------------------------------------------------
(* The database *)

Committed(commit) ==
    /\ Len(wal) < MaxLsn
    /\ wal' = Append(wal, commit)
    /\ UNCHANGED <<engine, commands, events, thread, wires, tabs>>

OutsideWrite ==
    /\ "outside" \in Writers
    /\ \E k \in Keys, v \in Values \cup {NoRow} :
        /\ v # RowsAt(Len(wal))[k]
        /\ Committed([key |-> k, value |-> v, by |-> NoTab, refused |-> FALSE])

Connecting == {w \in Wires : wires[w].stage \in {"reading", "asking"}}

(* A push is read from a joined connection, and sent on even when the       *)
(* connection has ended since.                                             *)
Pushed(t) ==
    ~tabs[t].left /\ \E w \in Wires : wires[w].tab = t /\ wires[w].stage \in {"joined", "gone"}

(* The application server runs a mutation a tab pushed: its row and its id  *)
(* commit together.                                                        *)
Mutate(t) ==
    /\ "mutation" \in Writers /\ Pushed(t)
    /\ \E k \in Keys, v \in Values \cup {NoRow} :
        /\ v # RowsAt(Len(wal))[k]
        /\ Committed([key |-> k, value |-> v, by |-> t, refused |-> FALSE])

(* It refuses one: its id commits with the error.  Unless the race is       *)
(* explored, not while a connection has read the tables and is not yet      *)
(* joined.                                                                 *)
RefuseMutation(t) ==
    /\ "refusal" \in Writers /\ Pushed(t)
    /\ "race" \in Faults \/ Connecting = {}
    /\ Committed([key |-> NoKey, value |-> NoRow, by |-> t, refused |-> TRUE])

-----------------------------------------------------------------------------
(* The engine side *)

Delta(k, image, subs) == [key |-> k, image |-> image, subs |-> subs]

(* A subscription's rows, one delta each. *)
RowsFor(keys, sub) ==
    SetToSeq({Delta(k, RowsAt(engine.position)[k], {sub}) : k \in keys})

Registered(token, deltas) == [kind |-> "registered", token |-> token, deltas |-> deltas]
Landed(deltas) == [kind |-> "landed", deltas |-> deltas]
Hydrated(token) == [kind |-> "hydrated", token |-> token]
RefusedEvent(token) == [kind |-> "refused", token |-> token]
CommittedEvent(at, deltas) == [kind |-> "committed", at |-> at, deltas |-> deltas]

(* A registration is answered at once when its rows are held (a twin's), or *)
(* waits for a read.                                                       *)
TakeRegister ==
    LET command == Head(commands)
        answer == Answer(command.hash, engine.position)
        Sub(settled, shown) ==
            [hash |-> command.hash, settled |-> settled, shown |-> shown]
    IN  /\ commands # <<>> /\ command.kind = "register"
        /\ commands' = Tail(commands)
        /\ \/ /\ engine' = [engine EXCEPT !.subs = With(@, command.token, Sub(TRUE, answer))]
              /\ events' = events \o <<Registered(command.token, RowsFor(answer, command.token)),
                                       Hydrated(command.token)>>
           \/ /\ engine' = [engine EXCEPT !.subs = With(@, command.token, Sub(FALSE, {}))]
              /\ events' = Append(events, Registered(command.token, <<>>))
        /\ UNCHANGED <<wal, thread, wires, tabs>>

TakeUnregister ==
    LET command == Head(commands)
    IN  /\ commands # <<>> /\ command.kind = "unregister"
        /\ commands' = Tail(commands)
        /\ engine' = [engine EXCEPT !.subs = Restrict(@, DOMAIN @ \ command.tokens)]
        /\ UNCHANGED <<wal, events, thread, wires, tabs>>

Land(token) ==
    LET sub == engine.subs[token]
        answer == Answer(sub.hash, engine.position)
        arrived == RowsFor(answer \ sub.shown, token)
    IN  /\ ~sub.settled
        /\ engine' = [engine EXCEPT !.subs[token].settled = TRUE, !.subs[token].shown = answer]
        /\ events' = events \o (IF arrived = <<>> THEN <<>> ELSE <<Landed(arrived)>>)
                            \o <<Hydrated(token)>>
        /\ UNCHANGED <<wal, commands, thread, wires, tabs>>

RefuseRead(token) ==
    /\ "refuse" \in Faults
    /\ engine' = [engine EXCEPT !.subs = Restrict(@, DOMAIN @ \ {token})]
    /\ events' = Append(events, RefusedEvent(token))
    /\ UNCHANGED <<wal, commands, thread, wires, tabs>>

(* One transaction routed: who leaves is told before who holds the row.     *)
Route ==
    LET at == engine.position + 1
        write == wal[at]
        live == DOMAIN engine.subs
        holders == {s \in live : write.key \in Keys /\ InQuery(engine.subs[s].hash, write.value)}
        leavers == {s \in live : write.key \in engine.subs[s].shown} \ holders
        Shown(s) == (engine.subs[s].shown \ {write.key})
                        \cup (IF s \in holders THEN {write.key} ELSE {})
        Told(image, subs) == IF subs = {} THEN <<>> ELSE <<Delta(write.key, image, subs)>>
    IN  /\ at <= Len(wal)
        /\ engine' = [position |-> at,
                      subs |-> [s \in live |-> [engine.subs[s] EXCEPT !.shown = Shown(s)]]]
        /\ events' = Append(events,
                CommittedEvent(at, Told(NoRow, leavers) \o Told(write.value, holders)))
        /\ UNCHANGED <<wal, commands, thread, wires, tabs>>

-----------------------------------------------------------------------------
(* The group thread: requests *)

Requests == turn \in {"idle", "requests"} /\ turn' = "requests"
Dirty == changes' = [changes EXCEPT !.dirty = TRUE]

(* What is put on a connection whose client is gone reaches nobody. *)
Listening(w) == wires[w].tab \in Tabs /\ tabs[wires[w].tab].wire = w
Sent(w, messages) == IF Listening(w) THEN wires[w].down \o messages ELSE <<>>

PokeFrame(poke) == [kind |-> "poke", poke |-> poke]
Errored(h) == [kind |-> "errored", hash |-> h]
Reset == [kind |-> "reset"]

Framed(pokes) == [i \in 1 .. Len(pokes) |-> PokeFrame(pokes[i])]

Refusal(w) ==
    /\ wires' = [wires EXCEPT ![w] = [NoWire EXCEPT
            !.stage = "gone", !.tab = wires[w].tab, !.down = Sent(w, <<Reset>>)]]
    /\ UNCHANGED <<group, changes>>

Join(w) ==
    LET wire == wires[w]
        base == IF group.open THEN group ELSE NewGroup(group.line)
        merged == Merged(base, wire.ids, wire.waiting)
    IN  /\ group' = [merged EXCEPT !.sockets = @ \cup {w}]
        /\ Dirty
        /\ wires' = [wires EXCEPT ![w] = [wire EXCEPT
                !.stage = "joined", !.cookie = 0, !.ids = NoIds, !.waiting = {},
                !.line = group.line,
                !.down = Sent(w, Framed(CatchUp(merged, wire.cookie, wire.waiting)))]]

Connect(w) ==
    /\ wires[w].stage = "asking" /\ Requests
    /\ IF Owed(group, wires[w].cookie) = "reset" THEN Refusal(w) ELSE Join(w)
    /\ UNCHANGED <<wal, engine, commands, events, awaiting, minted, pending, tabs>>

(* The connection's task finds its client gone once it has read everything  *)
(* the client sent.                                                        *)
Disconnect(w) ==
    /\ wires[w].stage = "joined" /\ ~Listening(w) /\ wires[w].asks = <<>>
    /\ Requests
    /\ group' = [group EXCEPT !.sockets = @ \ {w}]
    /\ wires' = [wires EXCEPT ![w] = [NoWire EXCEPT !.stage = "gone", !.tab = wires[w].tab]]
    /\ UNCHANGED <<wal, engine, commands, events, awaiting, minted, pending, changes, tabs>>

LetGoAll == Subs(group)

(* The grace period of a group with no connection ran out. *)
Expire ==
    /\ group.open /\ group.sockets = {} /\ group.line < MaxLines
    /\ Requests
    /\ group' = NoGroup(group.line + 1)
    /\ commands' = IF LetGoAll = {} THEN commands
                   ELSE Append(commands, [kind |-> "unregister", tokens |-> LetGoAll])
    /\ pending' = <<>> /\ changes' = NoChanges
    /\ UNCHANGED <<wal, engine, events, awaiting, minted, wires, tabs>>

(* The next message of a connection's client, which the connection's task   *)
(* hands on with the query planned, or could not.                          *)
NextAsk(w, op) ==
    /\ wires[w].stage = "joined" /\ wires[w].asks # <<>> /\ Head(wires[w].asks).op = op
    /\ Requests

Answered(w, messages) ==
    wires' = [wires EXCEPT ![w].asks = Tail(@), ![w].down = Sent(w, messages)]

Desiring(g, client, h) ==
    [g EXCEPT !.desired[client] = @ \cup {h}, !.queued.echo = TRUE]

Remembering(g, h, query) == [g EXCEPT !.queries = With(@, h, query)]

Registering(h) ==
    /\ minted' = minted + 1
    /\ awaiting' = With(awaiting, minted', h)
    /\ commands' = Append(commands, [kind |-> "register", token |-> minted', hash |-> h])

(* A query the group does not know, or refused long enough ago. *)
Anew(h) == h \in Known(group) => group.queries[h].refused = "cooled"

(* The connection tells its client of a query that could not be planned,    *)
(* whatever the group knows of it.                                         *)
NotPlannedUnsaid(w, h) == "unplanned" \in Faults /\ Answered(w, <<>>)
NotPlanned(w, h) == "unplanned" \in Faults /\ Answered(w, <<Errored(h)>>)

(* A query that is anew is registered when it arrived planned.  A known one *)
(* keeps what it has: no subscription, if it was not planned then or was    *)
(* refused a moment ago.  The reason of a fresh refusal is looked up by the *)
(* client's id among sockets, which are under their connections' ids, and   *)
(* so goes to nobody.                                                      *)
Put(w) ==
    LET h == Head(wires[w].asks).hash
        desiring == Desiring(group, wires[w].tab, h)
    IN  /\ NextAsk(w, "put")
        /\ Dirty
        /\ \/ /\ Anew(h)
              /\ Registering(h)
              /\ group' = Remembering(desiring, h, NewQuery(minted'))
              /\ Answered(w, <<>>)
           \/ /\ Anew(h)
              /\ group' = Remembering(desiring, h, NewQuery(0))
              /\ NotPlanned(w, h)
              /\ UNCHANGED <<minted, awaiting, commands>>
           \/ /\ ~Anew(h)
              /\ group' = [desiring EXCEPT !.queries[h].inactive = FALSE]
              /\ Answered(w, <<>>) \/ NotPlanned(w, h)
              /\ UNCHANGED <<minted, awaiting, commands>>
        /\ UNCHANGED <<wal, engine, events, pending, tabs>>

Del(w) ==
    /\ NextAsk(w, "del")
    /\ Dirty
    /\ group' = [LetGo(group, wires[w].tab, {Head(wires[w].asks).hash})
                    EXCEPT !.queued.echo = TRUE]
    /\ Answered(w, <<>>)
    /\ UNCHANGED <<wal, engine, commands, events, awaiting, minted, pending, tabs>>

(* A client says another is gone: what only it desired goes. *)
DeleteClient(w) ==
    LET client == Head(wires[w].asks).client
    IN  /\ NextAsk(w, "delete")
        /\ Dirty
        /\ group' = LetGo(group, client, group.desired[client])
        /\ Answered(w, <<>>)
        /\ UNCHANGED <<wal, engine, commands, events, awaiting, minted, pending, tabs>>

(* A query's lifetime after its last client ran out. *)
ExpireQuery(h) ==
    LET sub == group.queries[h].sub
    IN  /\ group.queries[h].inactive /\ Requests
        /\ group' = Unsubscribed(group, h)
        /\ Dirty
        /\ commands' = IF sub = 0 THEN commands
                       ELSE Append(commands, [kind |-> "unregister", tokens |-> {sub}])
        /\ UNCHANGED <<wal, engine, events, awaiting, minted, pending, wires, tabs>>

(* A refusal is remembered for a while only. *)
Cool(h) ==
    /\ group.queries[h].refused = "fresh"
    /\ group' = [group EXCEPT !.queries[h].refused = "cooled"]
    /\ UNCHANGED <<wal, engine, commands, events, awaiting, minted, pending, changes,
                   turn, wires, tabs>>

-----------------------------------------------------------------------------
(* The group thread: events *)

NextEvent(kind) ==
    /\ events # <<>> /\ Head(events).kind = kind
    /\ events' = Tail(events)
    /\ turn \in {"idle", "events"} /\ turn' = "events"

(* Deltas are kept when one of their subscriptions is the group's. *)
Absorb(g, deltas) ==
    /\ pending' = pending \o Ours(g, deltas)
    /\ changes' = [changes EXCEPT !.dirty = @ \/ Ours(g, deltas) # <<>>]

Adopts(h, token) == h \in Known(group) /\ group.queries[h].awaiting = token

(* Adopted, unless the query was released meanwhile: then let go at once.   *)
TakeRegistered ==
    LET token == Head(events).token
        h == awaiting[token]
        adopted == Adopts(h, token)
    IN  /\ NextEvent("registered")
        /\ awaiting' = Restrict(awaiting, DOMAIN awaiting \ {token})
        /\ IF adopted
           THEN /\ group' = [group EXCEPT !.queries[h].awaiting = 0, !.queries[h].sub = token]
                /\ commands' = commands
           ELSE /\ group' = group
                /\ commands' = Append(commands, [kind |-> "unregister", tokens |-> {token}])
        /\ Absorb(group', Head(events).deltas)
        /\ UNCHANGED <<wal, engine, minted, wires, tabs>>

TakeLanded ==
    /\ NextEvent("landed")
    /\ Absorb(group, Head(events).deltas)
    /\ UNCHANGED <<wal, engine, commands, group, awaiting, minted, wires, tabs>>

TakeHydrated ==
    LET token == Head(events).token
        ours == token \in Subs(group) /\ ~group.queries[QueryOf(group, token)].got
    IN  /\ NextEvent("hydrated")
        /\ IF ours THEN group' = Hydrate(group, QueryOf(group, token)) /\ Dirty
           ELSE UNCHANGED <<group, changes>>
        /\ UNCHANGED <<wal, engine, commands, awaiting, minted, pending, wires, tabs>>

(* Every connection of the group hears why. *)
TakeRefused ==
    LET token == Head(events).token
        h == QueryOf(group, token)
    IN  /\ NextEvent("refused")
        /\ IF token \in Subs(group)
           THEN /\ group' = Refuse(group, h)
                /\ Dirty
                /\ wires' = [w \in Wires |->
                        IF w \in group.sockets
                        THEN [wires[w] EXCEPT !.down = Sent(w, <<Errored(h)>>)]
                        ELSE wires[w]]
           ELSE UNCHANGED <<group, changes, wires>>
        /\ UNCHANGED <<wal, engine, commands, awaiting, minted, pending, tabs>>

(* A transaction's deltas, with the mutation id and the result it wrote.    *)
TakeCommitted ==
    LET event == Head(events)
        by == wal[event.at].by
        id == IdsAt(event.at)[by]
    IN  /\ NextEvent("committed")
        /\ pending' = pending \o Ours(group, event.deltas)
        /\ changes' =
            [ids |-> [t \in DOMAIN changes.ids \cup (Tabs \cap {by}) |->
                         IF t = by THEN id ELSE changes.ids[t]],
             results |-> IF wal[event.at].refused
                         THEN changes.results \cup {[tab |-> by, id |-> id]}
                         ELSE changes.results,
             dirty |-> changes.dirty \/ pending' # pending \/ by \in Tabs]
        /\ UNCHANGED <<wal, engine, commands, group, awaiting, minted, wires, tabs>>

-----------------------------------------------------------------------------
(* The end of a batch *)

(* The log keeps its most recent pokes, as many as fit. *)
LastOf(log, kept) == SubSeq(log, Len(log) - kept + 1, Len(log))

(* One poke, logged and sent to every connection. *)
SendPoke(g) ==
    LET poke == QueuedPoke(g)
    IN  /\ \E kept \in 0 .. LogPokes :
            /\ kept <= Len(g.log) + 1
            /\ group' = [g EXCEPT !.version = @ + 1, !.queued = NothingQueued,
                                  !.log = LastOf(Append(@, poke), kept)]
        /\ wires' = [w \in Wires |->
                IF w \in g.sockets THEN [wires[w] EXCEPT !.down = Sent(w, <<PokeFrame(poke)>>)]
                ELSE wires[w]]

(* A group with no connection keeps its ledger current and stands still.    *)
Flush ==
    LET heard == Noted(Accounted(group, pending), changes)
    IN  /\ turn # "idle" /\ turn' = "idle"
        /\ changes' = NoChanges /\ pending' = <<>>
        /\ IF group.open /\ changes.dirty
           THEN IF heard.sockets # {} /\ heard.queued # NothingQueued
                THEN SendPoke(heard)
                ELSE group' = heard /\ wires' = wires
           ELSE UNCHANGED <<group, wires>>
        /\ UNCHANGED <<wal, engine, commands, events, awaiting, minted, tabs>>

-----------------------------------------------------------------------------
(* Connections and tabs *)

Outlived(t) == {w \in Wires : wires[w].tab = t /\ wires[w].stage # "gone"}

(* A tab without a connection opens one and says what it desires. *)
Open(w, t) ==
    LET Ask(h) == [op |-> "put", hash |-> h]
        statement == SetToSeq(tabs[t].desires)
    IN  /\ wires[w].stage = "unused" /\ \A v \in 1 .. w - 1 : wires[v].stage # "unused"
        /\ tabs[t].wire = 0 /\ ~tabs[t].left
        /\ "late" \in Faults \/ Outlived(t) = {}
        /\ tabs' = [tabs EXCEPT ![t].wire = w, ![t].told = {}]
        /\ wires' = [wires EXCEPT ![w] = [NoWire EXCEPT
                !.stage = "reading", !.tab = t, !.cookie = tabs[t].cookie,
                !.asks = [i \in 1 .. Len(statement) |-> Ask(statement[i])]]]
        /\ UNCHANGED <<wal, engine, commands, events, thread>>

(* The ids and results recorded are read before the group is asked; a read  *)
(* that fails leaves both empty.                                           *)
ReadMutations(w) ==
    /\ wires[w].stage = "reading"
    /\ \/ wires' = [wires EXCEPT ![w].stage = "asking",
                                 ![w].ids = IdsAt(Len(wal)), ![w].waiting = ResultsAt(Len(wal))]
       \/ /\ "unread" \in Faults
          /\ wires' = [wires EXCEPT ![w].stage = "asking"]
    /\ UNCHANGED <<wal, engine, commands, events, thread, tabs>>

(* A connection dies; what was on its way to the tab is lost. *)
Drop(t) ==
    /\ "drop" \in Faults /\ tabs[t].wire # 0
    /\ tabs' = [tabs EXCEPT ![t].wire = 0]
    /\ wires' = [wires EXCEPT ![tabs[t].wire].down = <<>>]
    /\ UNCHANGED <<wal, engine, commands, events, thread>>

Say(t, ask) ==
    /\ tabs[t].wire # 0 /\ tabs[t].asked < MaxAsks
    /\ wires' = [wires EXCEPT ![tabs[t].wire].asks = Append(@, ask)]

Desire(t, h) ==
    /\ h \notin tabs[t].desires \/ h \in tabs[t].told
    /\ Say(t, [op |-> "put", hash |-> h])
    /\ tabs' = [tabs EXCEPT ![t].desires = @ \cup {h}, ![t].told = @ \ {h},
                            ![t].asked = @ + 1]
    /\ UNCHANGED <<wal, engine, commands, events, thread>>

Undesire(t, h) ==
    /\ h \in tabs[t].desires
    /\ Say(t, [op |-> "del", hash |-> h])
    /\ tabs' = [tabs EXCEPT ![t].desires = @ \ {h}, ![t].told = @ \ {h},
                            ![t].asked = @ + 1]
    /\ UNCHANGED <<wal, engine, commands, events, thread>>

(* A tab knows of a client that started over as another. *)
Forget(t, gone) ==
    /\ tabs[gone].left
    /\ Say(t, [op |-> "delete", client |-> gone])
    /\ tabs' = [tabs EXCEPT ![t].asked = @ + 1]
    /\ UNCHANGED <<wal, engine, commands, events, thread>>

(* A poke applied whole: its results settle mutations before its ids do,    *)
(* and a pending mutation the ids settle without a result was a success.    *)
Applied(tab, t, poke, line) ==
    LET heard == tab.heard \cup {r.id : r \in {r \in poke.results : r.tab = t}}
        confirmed == {i \in tab.ids[t] + 1 .. poke.ids[t] : i \notin heard}
        put == {h \in DOMAIN poke.got : poke.got[h]}
    IN  [tab EXCEPT
            !.cookie = poke.cookie, !.line = IF poke.base = 0 THEN line ELSE @,
            !.rows = [k \in Keys |-> IF k \in DOMAIN poke.rows THEN poke.rows[k] ELSE @[k]],
            !.got = (@ \ DOMAIN poke.got) \cup put,
            !.ids = [u \in Tabs |-> IF poke.ids[u] = 0 THEN @[u] ELSE poke.ids[u]],
            !.heard = heard, !.trusted = @ \cup confirmed]

(* A tab told to start over does so as a new client. *)
Hear(t) ==
    LET w == tabs[t].wire
        message == Head(wires[w].down)
        left == [NewTab EXCEPT !.left = TRUE]
    IN  /\ w # 0 /\ wires[w].down # <<>>
        /\ wires' = [wires EXCEPT ![w].down = Tail(@)]
        /\ \/ /\ message.kind = "poke"
              /\ tabs' = [tabs EXCEPT ![t] = Applied(@, t, message.poke, wires[w].line)]
           \/ /\ message.kind = "errored"
              /\ tabs' = [tabs EXCEPT ![t].told = @ \cup {message.hash}]
           \/ /\ message.kind = "reset"
              /\ tabs' = [tabs EXCEPT ![t] = left]
        /\ UNCHANGED <<wal, engine, commands, events, thread>>

-----------------------------------------------------------------------------
Next ==
    \/ OutsideWrite
    \/ \E t \in Tabs : Mutate(t) \/ RefuseMutation(t) \/ Drop(t) \/ Hear(t)
    \/ \E t \in Tabs, h \in Queries : Desire(t, h) \/ Undesire(t, h)
    \/ \E t, gone \in Tabs : Forget(t, gone)
    \/ \E w \in Wires, t \in Tabs : Open(w, t)
    \/ \E w \in Wires : ReadMutations(w) \/ Connect(w) \/ Disconnect(w)
    \/ \E w \in Wires : Put(w) \/ Del(w) \/ DeleteClient(w)
    \/ \E h \in Known(group) : ExpireQuery(h) \/ Cool(h)
    \/ Expire
    \/ TakeRegistered \/ TakeLanded \/ TakeHydrated \/ TakeRefused \/ TakeCommitted
    \/ Flush
    \/ TakeRegister \/ TakeUnregister \/ Route
    \/ \E token \in DOMAIN engine.subs : Land(token) \/ RefuseRead(token)

Spec == Init /\ [][Next]_vars

(* What is next for a connection, of the commands and of the events: each   *)
(* line is served in its order, so that one action at most is enabled.     *)
NextOfWire(w) ==
    ReadMutations(w) \/ Connect(w) \/ Disconnect(w) \/ Put(w) \/ Del(w) \/ DeleteClient(w)
NextCommand == TakeRegister \/ TakeUnregister
NextOfEvents == TakeRegistered \/ TakeLanded \/ TakeHydrated \/ TakeRefused \/ TakeCommitted

(* Every task of the server runs and every connection delivers; reads land. *)
(* Nothing is owed by writers, by tabs or by the timers.                   *)
Fairness ==
    /\ WF_vars(Flush) /\ WF_vars(Route)
    /\ WF_vars(NextCommand) /\ WF_vars(NextOfEvents)
    /\ WF_vars(\E token \in DOMAIN engine.subs : Land(token))
    /\ \A w \in Wires : WF_vars(NextOfWire(w))
    /\ \A t \in Tabs : WF_vars(Hear(t))

FairSpec == Spec /\ Fairness

-----------------------------------------------------------------------------
(* Properties *)

Images == Values \cup {NoRow}
Ids == 0 .. MaxLsn
Tokens == Nat
Results == SUBSET [tab : Tabs, id : Ids]

(* Types of the group's, the connections' and the clients' state. *)
TypeOK ==
    /\ engine.position \in 0 .. Len(wal)
    /\ group.version \in Nat /\ group.line \in 1 .. MaxLines
    /\ group.sockets \subseteq Wires
    /\ group.desired \in [Tabs -> SUBSET Queries] /\ Known(group) \subseteq Queries
    /\ \A h \in Known(group) :
        group.queries[h] \in [sub : Tokens, awaiting : Tokens, got : BOOLEAN,
                              inactive : BOOLEAN, refused : {"no", "fresh", "cooled"}]
    /\ \A k \in Keys : group.rows[k].image \in Images
    /\ group.lmids \in [Tabs -> Ids] /\ group.queued.results \in Results
    /\ Len(group.log) <= LogPokes
    /\ turn \in {"idle", "requests", "events"}
    /\ \A w \in Wires : wires[w].stage \in {"unused", "reading", "asking", "joined", "gone"}
    /\ \A t \in Tabs :
        /\ tabs[t].rows \in [Keys -> Images] /\ tabs[t].got \subseteq Queries
        /\ tabs[t].desires \subseteq Queries /\ tabs[t].wire \in 0 .. MaxWires

(* The tab's store was written by this group, not by an earlier one. *)
OurTab(t) == tabs[t].cookie # 0 /\ tabs[t].line = group.line /\ group.open

(* Whatever reaches a tab continues from the cookie it has: across          *)
(* reconnects, replays and pokes broadcast meanwhile, none is skipped,      *)
(* repeated or out of order.                                                *)
PokesContinue ==
    \A t \in Tabs :
        LET down == wires[tabs[t].wire].down
            IsPoke(i) == down[i].kind = "poke"
            Follows(j, i) == IsPoke(i) /\ \A k \in j + 1 .. i - 1 : ~IsPoke(k)
        IN  tabs[t].wire # 0 => \A i \in 1 .. Len(down) :
                /\ Follows(0, i) => down[i].poke.base = tabs[t].cookie
                /\ \A j \in 1 .. i - 1 :
                    IsPoke(j) /\ Follows(j, i) => down[i].poke.base = down[j].poke.cookie

(* A tab's store is always the table as of one commit: every got query has  *)
(* its whole answer as of it, and no row is older or newer.                *)
WholeCommits ==
    \A t \in Tabs : OurTab(t) =>
        \E at \in Len(Earlier) .. Len(wal) :
            /\ \A k \in Keys : tabs[t].rows[k] \in {NoRow, RowsAt(at)[k]}
            /\ \A h \in tabs[t].got : \A k \in Answer(h, at) : tabs[t].rows[k] # NoRow

(* A mutation's row never reaches its tab before its id does: a client      *)
(* would run the mutation again over its own effect.  Of a group that is    *)
(* never made anew (MaxLines = 1): one made anew by a connection that read  *)
(* the tables before a commit heard while there was no group lacks it.      *)
RowsBringTheirIds ==
    \A t \in Tabs : OurTab(t) =>
        \E at \in Len(Earlier) .. Len(wal) :
            /\ \A k \in Keys : tabs[t].rows[k] \in {NoRow, RowsAt(at)[k]}
            /\ \A u \in Tabs : tabs[t].ids[u] >= IdsAt(at)[u]

ThreadRests ==
    /\ turn = "idle" /\ events = <<>> /\ commands = <<>> /\ Connecting = {}
    /\ engine.position = Len(wal)
    /\ \A token \in DOMAIN engine.subs : engine.subs[token].settled

Caught(t) ==
    LET w == tabs[t].wire
    IN  w # 0 /\ wires[w].stage = "joined" /\ wires[w].down = <<>> /\ OurTab(t)

(* A connected tab to which nothing is on the way has all of it: the        *)
(* group's version, ids and got queries, and exactly their answers.        *)
CaughtUpTabsCurrent ==
    \A t \in Tabs : (ThreadRests /\ Caught(t)) =>
        /\ tabs[t].cookie = group.version
        /\ tabs[t].got = {h \in Known(group) : group.queries[h].sub # 0}
        /\ {k \in Keys : tabs[t].rows[k] # NoRow}
               = UNION {Answer(h, Len(wal)) : h \in tabs[t].got}
        /\ \A k \in Keys : tabs[t].rows[k] \in {NoRow, RowsAt(Len(wal))[k]}
        /\ tabs[t].ids = group.lmids

(* Every subscription of the engine is the group's, or on its way to it, or *)
(* on its way to be let go; and every one of the group's is the engine's or *)
(* its refusal is on its way.  None is leaked, none is waited for in vain. *)
SubscriptionsOwned ==
    LET Told(kind, token) ==
            \E i \in 1 .. Len(events) : events[i].kind = kind /\ events[i].token = token
        LetGoAlready(token) ==
            \E i \in 1 .. Len(commands) :
                commands[i].kind = "unregister" /\ token \in commands[i].tokens
    IN  /\ \A token \in DOMAIN engine.subs :
            token \in Subs(group) \/ Told("registered", token) \/ LetGoAlready(token)
        /\ \A token \in Subs(group) :
            token \in DOMAIN engine.subs \/ Told("refused", token)

(* "A pending mutation the ids settle is rejected with its error, not taken *)
(* for a success" (groups.rs, the test of a replayed poke).                *)
RefusedNeverTrusted ==
    \A t \in Tabs : \A i \in tabs[t].trusted : [tab |-> t, id |-> i] \notin ResultsAt(Len(wal))

(* "Anything else (a cookie older than the log, or from a server that is    *)
(* gone): the client is told to start over."                               *)
AcceptedCookiesAreOurs ==
    \A t \in Tabs :
        LET w == tabs[t].wire
        IN  (w # 0 /\ wires[w].stage = "joined" /\ tabs[t].cookie # 0)
                => tabs[t].line = wires[w].line

(* The ids a tab of this group has been told never fall: the client refuses *)
(* a poke in which one does, on every reconnect since the replay is the     *)
(* same.                                                                   *)
IdsNeverGoBack ==
    [][\A t, u \in Tabs :
        (OurTab(t) /\ ~tabs'[t].left) => tabs'[t].ids[u] >= tabs[t].ids[u]]_vars

(* A query with a subscription, or one on the way to it. *)
Served(h) ==
    h \in Known(group) /\ (group.queries[h].sub # 0 \/ group.queries[h].awaiting # 0)

(* The tab asks for it; what it asks next is a query the group knows and    *)
(* has given up on, because it was not planned or was refused a moment ago. *)
PutOf(h) == [op |-> "put", hash |-> h]
AsksFor(t, h) == tabs[t].wire # 0 /\ PutOf(h) \in ToSet(wires[tabs[t].wire].asks)
AsksInVain(t, h) ==
    LET wire == wires[tabs[t].wire]
    IN  AsksFor(t, h) /\ wire.stage = "joined" /\ Head(wire.asks) = PutOf(h)
            /\ ~Served(h) /\ ~Anew(h)

(* A tab that stays connected gets every query it asks for, or is told why  *)
(* not: when it cannot be planned, when it is refused on the way, and when  *)
(* it is asked for again after the cool-down.  Only an ask for a query the  *)
(* group has given up on may go unanswered (groups.rs:1107 and 1115).      *)
EveryAskAnswered ==
    \A t \in Tabs, h \in Queries :
        h \in tabs[t].desires /\ (AsksFor(t, h) \/ Served(h))
        ~> \/ h \in tabs[t].got \cup tabs[t].told \/ AsksInVain(t, h)
           \/ h \notin tabs[t].desires \/ tabs[t].wire = 0
=============================================================================
