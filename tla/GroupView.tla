----------------------------- MODULE GroupView -----------------------------
(***************************************************************************)
(* What a client group of streamgres holds, and how it changes: the ledger *)
(* of the rows shipped with who shows each, its queries, what waits for    *)
(* its next poke, and the log of the pokes sent.  The operators take a     *)
(* group and return the group; ClientGroups makes actions of them.         *)
(*                                                                         *)
(* A cookie is a version, 0 being none; a subscription is the token it was *)
(* registered with, 0 being none.                                          *)
(***************************************************************************)
EXTENDS Naturals, Sequences, FiniteSets, Functions, SequencesExt, TLC

CONSTANTS
    Tabs,     \* the clients of the group
    Keys,     \* rows, of one table
    Queries   \* query hashes

NoRow == "none"

NothingHeld == [holders |-> {}, image |-> NoRow]

(* What waits for the next poke: an operation per row (the last one, as     *)
(* `coalesce' keeps it), got queries put (TRUE) or deleted, the clients     *)
(* whose ids are told, results, and whether desired queries are echoed.     *)
NothingQueued == [rows |-> <<>>, got |-> <<>>, ids |-> {}, results |-> {}, echo |-> FALSE]

NewGroup(line) ==
    [open |-> TRUE, line |-> line, version |-> 0, sockets |-> {},
     desired |-> [t \in Tabs |-> {}], queries |-> <<>>,
     rows |-> [k \in Keys |-> NothingHeld], lmids |-> [t \in Tabs |-> 0],
     queued |-> NothingQueued, log |-> <<>>]

NoGroup(line) == [NewGroup(line) EXCEPT !.open = FALSE]

NewQuery(token) ==
    [sub |-> 0, awaiting |-> token, got |-> FALSE, inactive |-> FALSE, refused |-> "no"]

Known(g) == DOMAIN g.queries
Subs(g) == {g.queries[h].sub : h \in Known(g)} \ {0}
QueryOf(g, sub) == CHOOSE h \in Known(g) : g.queries[h].sub = sub
Wanted(g, h) == \E t \in Tabs : h \in g.desired[t]

(* A function with one more entry, or another value for one it has. *)
With(f, x, value) == [y \in DOMAIN f \cup {x} |-> IF y = x THEN value ELSE f[y]]

-----------------------------------------------------------------------------
(* The ledger *)

(* What a row's operations come down to: the last one. *)
FirstKept(queued, key, image) == IF key \in DOMAIN queued THEN queued ELSE With(queued, key, image)
Coalesced(queued, key, image) == With(queued, key, image)

(* One delta accounted, in the ledger's rows and what is queued of them: a  *)
(* put when the row is new to the group or its image changed, a del when    *)
(* its last holder let go, else nothing.                                    *)
Account(ledger, delta, holders) ==
    LET held == ledger.rows[delta.key]
        left == held.holders \ holders
        Tell(image) == Coalesced(ledger.queued, delta.key, image)
        Hold(h, image) == [holders |-> h, image |-> image]
    IN  CASE delta.image # NoRow /\ holders = {} -> ledger
          [] delta.image # NoRow /\ holders # {} ->
                [rows |-> [ledger.rows EXCEPT ![delta.key] =
                               Hold(held.holders \cup holders, delta.image)],
                 queued |-> IF held.image = delta.image THEN ledger.queued
                            ELSE Tell(delta.image)]
          [] delta.image = NoRow /\ left = {} /\ held.holders # {} ->
                [rows |-> [ledger.rows EXCEPT ![delta.key] = NothingHeld],
                 queued |-> Tell(NoRow)]
          [] OTHER -> [ledger EXCEPT !.rows[delta.key].holders = left]

(* A step's deltas, each for the subscriptions the group still has. *)
Accounted(g, deltas) ==
    LET ledger[i \in 0 .. Len(deltas)] ==
            IF i = 0 THEN [rows |-> g.rows, queued |-> g.queued.rows]
            ELSE Account(ledger[i - 1], deltas[i], deltas[i].subs \cap Subs(g))
    IN  [g EXCEPT !.rows = ledger[Len(deltas)].rows, !.queued.rows = ledger[Len(deltas)].queued]

(* Those of them that are for one of the group's subscriptions. *)
Ours(g, deltas) ==
    LET kept[i \in 0 .. Len(deltas)] ==
            IF i = 0 THEN <<>>
            ELSE IF deltas[i].subs \cap Subs(g) = {} THEN kept[i - 1]
            ELSE Append(kept[i - 1], deltas[i])
    IN  kept[Len(deltas)]

AnyHeld(g, sub) == {k \in Keys : sub \in g.rows[k].holders}
OnlyHeld(g, sub) == {k \in Keys : g.rows[k].holders = {sub}}

(* Every row the group shows only through `sub' is deleted. *)
Released(g, sub) ==
    LET emptied == OnlyHeld(g, sub)
        Left(held) == [held EXCEPT !.holders = @ \ {sub}]
    IN  [g EXCEPT
            !.rows = [k \in Keys |-> IF k \in emptied THEN NothingHeld ELSE Left(@[k])],
            !.queued.rows = [k \in emptied \cup DOMAIN @ |-> IF k \in emptied THEN NoRow ELSE @[k]]]

-----------------------------------------------------------------------------
(* Queries *)

HydrateIfHeard(g, h) ==
    [g EXCEPT !.queries[h].got = TRUE,
              !.queued.got = IF g.sockets = {} THEN @ ELSE With(@, h, TRUE)]

Hydrate(g, h) ==
    [g EXCEPT !.queries[h].got = TRUE, !.queued.got = With(@, h, TRUE)]

GotWithdrawn(g, h) ==
    IF g.queries[h].got THEN [g EXCEPT !.queued.got = With(@, h, FALSE)] ELSE g

RefuseGot(g, h) ==
    [Released(GotWithdrawn(g, h), g.queries[h].sub) EXCEPT
        !.queries[h] = [@ EXCEPT !.got = FALSE, !.refused = "fresh"]]

(* The subscription is gone and its rows with it; the query stays, refused. *)
Refuse(g, h) ==
    [Released(GotWithdrawn(g, h), g.queries[h].sub) EXCEPT
        !.queries[h] = [@ EXCEPT !.sub = 0, !.awaiting = 0, !.got = FALSE,
                                 !.refused = "fresh"]]

Unsubscribed(g, h) ==
    LET sub == g.queries[h].sub
        withdrawn == GotWithdrawn(g, h)
        released == IF sub = 0 THEN withdrawn ELSE Released(withdrawn, sub)
    IN  [released EXCEPT !.queries = Restrict(@, DOMAIN @ \ {h})]

Named(g, hashes) == hashes

(* A client desires `hashes' no more: what nobody else does goes inactive. *)
LetGo(g, client, hashes) ==
    LET kept == [g EXCEPT !.desired[client] = @ \ Named(g, hashes),
                          !.queued.echo = @ \/ hashes # {}]
        Left(query, h) ==
            [query EXCEPT !.inactive = @ \/ (h \in hashes /\ ~Wanted(kept, h))]
    IN  [kept EXCEPT !.queries = [h \in DOMAIN @ |-> Left(@[h], h)]]

-----------------------------------------------------------------------------
(* Pokes *)

RaisedIfHeard(g, ids) == {t \in DOMAIN ids : ids[t] >= g.lmids[t] /\ g.sockets # {}}
Raised(g, ids) == {t \in DOMAIN ids : ids[t] >= g.lmids[t]}

(* What the feed told of mutations since the last flush. *)
Noted(g, changes) ==
    LET raised == Raised(g, changes.ids)
    IN  [g EXCEPT !.lmids = [t \in Tabs |-> IF t \in raised THEN changes.ids[t] ELSE @[t]],
                  !.queued.ids = @ \cup raised,
                  !.queued.results = @ \cup changes.results]

QueuedPoke(g) ==
    [base |-> g.version, cookie |-> g.version + 1,
     rows |-> g.queued.rows, got |-> g.queued.got,
     ids |-> [t \in Tabs |-> IF t \in g.queued.ids THEN g.lmids[t] ELSE 0],
     results |-> g.queued.results]

Listed(g) == Known(g)
Complete(g) == {h \in Known(g) : g.queries[h].got}

(* The group's whole state as one poke from nothing. *)
StatePoke(g, waiting) ==
    [base |-> 0, cookie |-> g.version,
     rows |-> [k \in {k \in Keys : g.rows[k].holders # {}} |-> g.rows[k].image],
     got |-> [h \in Complete(g) |-> TRUE],
     ids |-> g.lmids, results |-> waiting]

WithIdsOnly(poke, g, waiting) == [poke EXCEPT !.ids = g.lmids]

(* A logged poke as it is replayed: a last part tells the ids as they are   *)
(* now, and the results waiting.                                           *)
WithCurrent(poke, g, waiting) ==
    [poke EXCEPT !.ids = g.lmids, !.results = @ \cup waiting]

ReachesAlmost(log, version) == log # <<>> /\ log[1].cookie <= version + 2

(* The log reaches back to the poke after a version. *)
Reaches(log, version) == log # <<>> /\ log[1].cookie <= version + 1

(* Those above a version, in the log's order. *)
PokesAfter(log, version) ==
    LET above == {i \in DOMAIN log : log[i].cookie > version}
        Nth(i) == CHOOSE k \in above : Cardinality({j \in above : j <= k}) = i
    IN  [i \in 1 .. Cardinality(above) |-> log[Nth(i)]]

(* What a connecting client is owed since its cookie. *)
Owed(g, cookie) ==
    CASE ~g.open /\ cookie # 0                   -> "reset"
      [] ~g.open /\ cookie = 0                   -> "nothing"
      [] g.open /\ cookie = g.version            -> "nothing"
      [] g.open /\ cookie # g.version /\ cookie = 0 -> "everything"
      [] OTHER -> IF cookie < g.version /\ Reaches(g.log, cookie) THEN "pokes" ELSE "reset"

(* The pokes that make up what is owed. *)
CatchUp(g, cookie, waiting) ==
    CASE Owed(g, cookie) = "everything" -> <<StatePoke(g, waiting)>>
      [] Owed(g, cookie) = "pokes" ->
            [i \in 1 .. Len(PokesAfter(g.log, cookie)) |->
                WithCurrent(PokesAfter(g.log, cookie)[i], g, waiting)]
      [] OTHER -> <<>>

AsRead(known, read) == read
NeverLower(known, read) == [t \in Tabs |-> IF read[t] > known[t] THEN read[t] ELSE known[t]]

(* A connection's reading of the mutation tables merged into the group: the *)
(* ids never fall, and all of them and the results are told again.         *)
Merged(g, ids, waiting) ==
    LET lmids == NeverLower(g.lmids, ids)
    IN  [g EXCEPT !.lmids = lmids,
                  !.queued.ids = @ \cup {t \in Tabs : lmids[t] > 0},
                  !.queued.results = @ \cup waiting]
=============================================================================
