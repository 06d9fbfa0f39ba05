------------------------- MODULE ClientGroupsProofs -------------------------
(***************************************************************************)
(* Proofs about ClientGroups: whatever reaches a tab continues from the    *)
(* cookie it has, the mutation ids a tab was told never fall, no           *)
(* subscription is leaked or waited for in vain, and a refused mutation is *)
(* never taken for a success.                                              *)
(*                                                                         *)
(* Only what the four are about has a shape here: connections, their       *)
(* frames on the way, the tabs' cookies, ids and results, the group's      *)
(* version, log, ids, sockets and queries.  What a poke says of rows is    *)
(* left open.                                                              *)
(***************************************************************************)
EXTENDS ClientGroups, SequenceTheorems, FiniteSetTheorems, WellFoundedInduction, TLAPS

-----------------------------------------------------------------------------
(* Sequences of anything *)

IsSeq(s) == s \in Seq({s[i] : i \in DOMAIN s})

LEMMA AnySeq == ASSUME NEW S, NEW s \in Seq(S) PROVE IsSeq(s)
<1>1. Len(s) \in Nat /\ DOMAIN s = 1 .. Len(s) /\ s \in [1 .. Len(s) -> S]
  BY LenProperties
<1>2. s \in [1 .. Len(s) -> {s[i] : i \in DOMAIN s}]
  BY <1>1
<1>3. PICK R, n : R = {s[i] : i \in DOMAIN s} /\ n = Len(s)
  OBVIOUS
<1>4. n \in Nat /\ s \in [1 .. n -> R]
  BY <1>1, <1>2, <1>3
<1>5. s \in Seq(R)
  BY <1>4, SeqDef
<1> QED BY <1>3, <1>5 DEF IsSeq

LEMMA SeqParts ==
    ASSUME NEW s, IsSeq(s)
    PROVE  Len(s) \in Nat /\ DOMAIN s = 1 .. Len(s)
BY LenProperties DEF IsSeq

LEMMA EmptyIsSeq == IsSeq(<<>>) /\ Len(<<>>) = 0
<1>1. <<>> \in Seq({})
  OBVIOUS
<1> QED BY <1>1, AnySeq

LEMMA OneIsSeq == ASSUME NEW m PROVE IsSeq(<<m>>) /\ Len(<<m>>) = 1 /\ <<m>>[1] = m
<1>1. <<m>> \in Seq({m})
  OBVIOUS
<1> QED BY <1>1, AnySeq

LEMMA Appended ==
    ASSUME NEW s, IsSeq(s), NEW m
    PROVE  /\ IsSeq(Append(s, m)) /\ Len(Append(s, m)) = Len(s) + 1 /\ Len(s) \in Nat
           /\ \A i \in 1 .. Len(s) : Append(s, m)[i] = s[i]
           /\ Append(s, m)[Len(s) + 1] = m
           /\ s \o <<m>> = Append(s, m)
<1> DEFINE S == {s[i] : i \in DOMAIN s} \cup {m}
<1>1. s \in Seq(S) /\ m \in S
  BY SeqMonotonic DEF IsSeq
<1> HIDE DEF S
<1>2. Append(s, m) \in Seq(S)
  BY <1>1
<1>3. IsSeq(Append(s, m))
  BY <1>2, AnySeq
<1>4. /\ Len(Append(s, m)) = Len(s) + 1 /\ Len(s) \in Nat
      /\ \A i \in 1 .. Len(s) : Append(s, m)[i] = s[i]
      /\ Append(s, m)[Len(s) + 1] = m
  BY <1>1, AppendProperties
<1>5. s \o <<m>> = Append(s, m)
  BY <1>1, AppendIsConcat
<1> QED BY <1>3, <1>4, <1>5

LEMMA Shortened ==
    ASSUME NEW s, IsSeq(s), s # <<>>
    PROVE  /\ IsSeq(Tail(s)) /\ Len(Tail(s)) = Len(s) - 1 /\ Len(s) \in Nat \ {0}
           /\ Head(s) = s[1]
           /\ \A i \in 1 .. Len(s) - 1 : Tail(s)[i] = s[i + 1]
<1> DEFINE S == {s[i] : i \in DOMAIN s}
<1>1. s \in Seq(S)
  BY DEF IsSeq
<1> HIDE DEF S
<1>2. Tail(s) \in Seq(S) /\ Len(s) \in Nat \ {0}
  BY <1>1, HeadTailProperties, EmptySeq
<1>3. IsSeq(Tail(s))
  BY <1>2, AnySeq
<1>4. Len(Tail(s)) = Len(s) - 1 /\ Head(s) = s[1]
  BY <1>1, HeadTailProperties
<1>5. \A i \in 1 .. Len(s) - 1 : Tail(s)[i] = s[i + 1]
  BY <1>1
<1> QED BY <1>2, <1>3, <1>4, <1>5

LEMMA AfterNothing == ASSUME NEW s, IsSeq(s) PROVE <<>> \o s = s /\ s \o <<>> = s
<1> DEFINE S == {s[i] : i \in DOMAIN s}
<1>1. s \in Seq(S)
  BY DEF IsSeq
<1> HIDE DEF S
<1> QED BY <1>1

LEMMA LastIsSeq ==
    ASSUME NEW s, IsSeq(s), NEW count \in Nat, count <= Len(s)
    PROVE  /\ IsSeq(LastOf(s, count)) /\ Len(LastOf(s, count)) = count
           /\ \A i \in 1 .. count : LastOf(s, count)[i] = s[Len(s) - count + i]
<1> DEFINE S == {s[i] : i \in DOMAIN s}
<1>1. s \in Seq(S) /\ Len(s) \in Nat
  BY DEF IsSeq
<1> HIDE DEF S
<1>2. LastOf(s, count) \in Seq(S)
  BY <1>1 DEF LastOf
<1>3. IsSeq(LastOf(s, count))
  BY <1>2, AnySeq
<1>4. Len(LastOf(s, count)) = count
  BY <1>1 DEF LastOf
<1>5. \A i \in 1 .. count : LastOf(s, count)[i] = s[Len(s) - count + i]
  BY <1>1 DEF LastOf
<1> QED BY <1>3, <1>4, <1>5

-----------------------------------------------------------------------------
(* Shapes *)

IdMap == [Tabs -> Nat]
GroupFields ==
    {"open", "line", "version", "sockets", "desired", "queries", "rows", "lmids", "queued", "log"}
WireFields == {"stage", "tab", "cookie", "ids", "waiting", "asks", "down", "line"}
TabFields ==
    {"cookie", "line", "rows", "got", "ids", "heard", "trusted", "told", "desires",
     "asked", "wire", "left"}
PokeFields == {"base", "cookie", "rows", "got", "ids", "results"}

IsPokeRecord(p) ==
    DOMAIN p = PokeFields /\ p.base \in Nat /\ p.cookie \in Nat \ {0} /\ p.ids \in IdMap
Pokes(log) == \A i \in 1 .. Len(log) : IsPokeRecord(log[i])
IsGroup(g) ==
    /\ DOMAIN g = GroupFields
    /\ g.open \in BOOLEAN /\ g.line \in Nat /\ g.version \in Nat
    /\ g.lmids \in IdMap /\ IsSeq(g.log) /\ Pokes(g.log)

Poke(down, i) == down[i].kind = "poke"
IsDown(down) ==
    IsSeq(down) /\ \A i \in 1 .. Len(down) : Poke(down, i) => IsPokeRecord(down[i].poke)
IsWire(x) ==
    /\ DOMAIN x = WireFields
    /\ x.cookie \in Nat /\ x.line \in Nat /\ x.ids \in IdMap /\ IsDown(x.down)
IsTab(x) ==
    DOMAIN x = TabFields /\ x.cookie \in Nat /\ x.line \in Nat /\ x.ids \in IdMap

(* What the feed has told of mutations. *)
IsEvents(s) == IsSeq(s) /\ \A i \in 1 .. Len(s) : s[i].kind = "committed" => s[i].at \in Nat
Feed ==
    /\ IsSeq(wal) /\ IsEvents(events)
    /\ DOMAIN engine = {"position", "subs"} /\ engine.position \in Nat
    /\ DOMAIN changes = {"ids", "results", "dirty"}
    /\ DOMAIN changes.ids \subseteq Tabs /\ \A t \in DOMAIN changes.ids : changes.ids[t] \in Nat

Ends ==
    /\ IsGroup(group)
    /\ DOMAIN wires = Wires /\ \A w \in Wires : IsWire(wires[w])
    /\ DOMAIN tabs = Tabs /\ \A t \in Tabs : IsTab(tabs[t])
Shape == Feed /\ Ends

-----------------------------------------------------------------------------
(* What the group's operators leave alone *)

SameFace(g, h) ==
    /\ h.open = g.open /\ h.line = g.line /\ h.version = g.version
    /\ h.sockets = g.sockets /\ h.log = g.log
Kept(g, h) == IsGroup(h) /\ SameFace(g, h) /\ h.lmids = g.lmids

LEMMA KeptFollows == \A a, b, c : Kept(a, b) /\ Kept(b, c) => Kept(a, c)
BY DEF Kept, SameFace

(* Whatever is set of desires, queries, rows and what is queued. *)
LEMMA SetAside ==
    ASSUME NEW g, IsGroup(g), NEW x
    PROVE  /\ Kept(g, [g EXCEPT !.desired = x]) /\ Kept(g, [g EXCEPT !.queries = x])
           /\ Kept(g, [g EXCEPT !.rows = x]) /\ Kept(g, [g EXCEPT !.queued = x])
BY DEF Kept, SameFace, IsGroup, GroupFields

LEMMA AccountedKept == ASSUME NEW g, IsGroup(g), NEW deltas PROVE Kept(g, Accounted(g, deltas))
BY DEF Accounted, Kept, SameFace, IsGroup, GroupFields

LEMMA ReleasedKept == ASSUME NEW g, IsGroup(g), NEW sub PROVE Kept(g, Released(g, sub))
BY DEF Released, Kept, SameFace, IsGroup, GroupFields

LEMMA HydrateKept == ASSUME NEW g, IsGroup(g), NEW h PROVE Kept(g, Hydrate(g, h))
BY DEF Hydrate, Kept, SameFace, IsGroup, GroupFields

LEMMA WithdrawnKept == ASSUME NEW g, IsGroup(g), NEW h PROVE Kept(g, GotWithdrawn(g, h))
BY DEF GotWithdrawn, Kept, SameFace, IsGroup, GroupFields

LEMMA RefuseKept == ASSUME NEW g, IsGroup(g), NEW h PROVE Kept(g, Refuse(g, h))
BY WithdrawnKept, ReleasedKept DEF Refuse, Kept, SameFace, IsGroup, GroupFields

LEMMA UnsubscribedKept == ASSUME NEW g, IsGroup(g), NEW h PROVE Kept(g, Unsubscribed(g, h))
BY WithdrawnKept, ReleasedKept DEF Unsubscribed, Kept, SameFace, IsGroup, GroupFields

LEMMA LetGoKept ==
    ASSUME NEW g, IsGroup(g), NEW client, NEW hashes PROVE Kept(g, LetGo(g, client, hashes))
BY DEF LetGo, Kept, SameFace, IsGroup, GroupFields

LEMMA DesiringKept ==
    ASSUME NEW g, IsGroup(g), NEW client, NEW h PROVE Kept(g, Desiring(g, client, h))
BY DEF Desiring, Kept, SameFace, IsGroup, GroupFields

LEMMA RememberingKept ==
    ASSUME NEW g, IsGroup(g), NEW h, NEW query PROVE Kept(g, Remembering(g, h, query))
BY DEF Remembering, Kept, SameFace, IsGroup, GroupFields

-----------------------------------------------------------------------------
(* The feed *)

LEMMA Joined ==
    ASSUME NEW s, NEW t, IsSeq(s), IsSeq(t)
    PROVE  /\ IsSeq(s \o t) /\ Len(s \o t) = Len(s) + Len(t)
           /\ \A i \in 1 .. Len(s) + Len(t) :
                (s \o t)[i] = IF i <= Len(s) THEN s[i] ELSE t[i - Len(s)]
<1> DEFINE S == {s[i] : i \in DOMAIN s} \cup {t[i] : i \in DOMAIN t}
<1>1. s \in Seq(S) /\ t \in Seq(S)
  BY SeqMonotonic DEF IsSeq
<1> HIDE DEF S
<1>2. s \o t \in Seq(S)
  BY <1>1, ConcatProperties
<1>3. IsSeq(s \o t)
  BY <1>2, AnySeq
<1> QED BY <1>1, <1>3, ConcatProperties

LEMMA EventsJoined ==
    ASSUME NEW s, NEW t, IsEvents(s), IsEvents(t) PROVE IsEvents(s \o t)
<1>1. IsSeq(s) /\ IsSeq(t) /\ Len(s) \in Nat /\ Len(t) \in Nat
  BY SeqParts DEF IsEvents
<1>2. \A i \in 1 .. Len(s) + Len(t) : i > Len(s) => i - Len(s) \in 1 .. Len(t)
  BY <1>1
<1>3. \A i \in 1 .. Len(s) + Len(t) : i <= Len(s) => i \in 1 .. Len(s)
  BY <1>1
<1>4. ASSUME NEW i \in 1 .. Len(s \o t), (s \o t)[i].kind = "committed"
      PROVE  (s \o t)[i].at \in Nat
  <2>1. i \in 1 .. Len(s) + Len(t)
    BY <1>1, <1>4, Joined
  <2>2. CASE i <= Len(s)
    BY <1>1, <1>3, <1>4, <2>1, <2>2, Joined DEF IsEvents
  <2>3. CASE i > Len(s)
    BY <1>1, <1>2, <1>4, <2>1, <2>3, Joined DEF IsEvents
  <2> QED BY <1>1, <2>1, <2>2, <2>3
<1> QED BY <1>1, <1>4, Joined DEF IsEvents

LEMMA OneEvent ==
    ASSUME NEW m, m.kind = "committed" => m.at \in Nat
    PROVE  IsEvents(<<m>>)
<1>1. IsSeq(<<m>>) /\ Len(<<m>>) = 1 /\ <<m>>[1] = m
  BY OneIsSeq
<1> QED BY <1>1 DEF IsEvents

LEMMA EventTold ==
    ASSUME NEW s, IsEvents(s), NEW m, m.kind = "committed" => m.at \in Nat
    PROVE  IsEvents(s \o <<m>>) /\ IsEvents(Append(s, m))
<1>1. IsEvents(s \o <<m>>)
  BY OneEvent, EventsJoined
<1> QED BY <1>1, Appended DEF IsEvents

LEMMA EventTaken ==
    ASSUME NEW s, IsEvents(s), s # <<>>
    PROVE  IsEvents(Tail(s)) /\ (Head(s).kind = "committed" => Head(s).at \in Nat)
<1>1. /\ IsSeq(s) /\ IsSeq(Tail(s)) /\ Len(Tail(s)) = Len(s) - 1 /\ Len(s) \in Nat \ {0}
      /\ Head(s) = s[1] /\ \A i \in 1 .. Len(s) - 1 : Tail(s)[i] = s[i + 1]
  BY Shortened DEF IsEvents
<1>2. \A i \in 1 .. Len(s) - 1 : i + 1 \in 1 .. Len(s)
  BY <1>1
<1> QED BY <1>1, <1>2 DEF IsEvents

LEMMA IdsCounted == ASSUME NEW at \in Nat PROVE IdsAt(at) \in IdMap
<1>1. ASSUME NEW t \in Tabs PROVE Cardinality({i \in 1 .. at : wal[i].by = t}) \in Nat
  <2>1. IsFiniteSet(1 .. at)
    BY FS_Interval
  <2>2. IsFiniteSet({i \in 1 .. at : wal[i].by = t})
    BY <2>1, FS_Subset
  <2> QED BY <2>2, FS_CardinalityType
<1> QED BY <1>1 DEF IdsAt, IdMap

LEMMA EngineTells ==
    ASSUME Feed,
           TakeRegister \/ TakeUnregister \/ Route
               \/ \E token \in DOMAIN engine.subs : Land(token) \/ RefuseRead(token)
    PROVE  Feed'
<1>0. DOMAIN engine = {"position", "subs"} /\ engine.position \in Nat /\ IsEvents(events)
  BY DEF Feed
<1>1. CASE TakeRegister
  <2>1. DOMAIN engine' = {"position", "subs"} /\ engine'.position = engine.position
    BY <1>0, <1>1 DEF TakeRegister
  <2>2. PICK a, b : /\ a.kind # "committed" /\ b.kind # "committed"
                    /\ events' = events \o <<a, b>> \/ events' = Append(events, a)
    BY <1>1 DEF TakeRegister, Registered, Hydrated
  <2>3. <<a, b>> \in Seq({a, b}) /\ Len(<<a, b>>) = 2 /\ <<a, b>>[1] = a /\ <<a, b>>[2] = b
    OBVIOUS
  <2>4. IsEvents(<<a, b>>)
    <3>1. \A i \in 1 .. 2 : i = 1 \/ i = 2
      OBVIOUS
    <3>2. IsSeq(<<a, b>>)
      BY <2>3, AnySeq
    <3> QED BY <2>2, <2>3, <3>1, <3>2 DEF IsEvents
  <2>5. IsEvents(events')
    BY <1>0, <2>2, <2>4, EventsJoined, EventTold
  <2> QED BY <1>1, <1>0, <2>1, <2>5 DEF Feed, TakeRegister, thread
<1>2. CASE TakeUnregister
  BY <1>0, <1>2 DEF Feed, TakeUnregister, thread
<1>3. CASE Route
  <2>1. DOMAIN engine' = {"position", "subs"} /\ engine'.position = engine.position + 1
    BY <1>3 DEF Route
  <2>2. PICK deltas : events' = Append(events, CommittedEvent(engine.position + 1, deltas))
    BY <1>3, Zenon DEF Route
  <2>3. CommittedEvent(engine.position + 1, deltas).at \in Nat
    BY <1>0 DEF CommittedEvent
  <2>4. IsEvents(events')
    BY <1>0, <2>2, <2>3, EventTold
  <2>5. UNCHANGED <<wal, changes>> /\ engine'.position \in Nat
    BY <1>0, <1>3, <2>1 DEF Route, thread
  <2> QED BY <1>0, <2>1, <2>4, <2>5 DEF Feed
<1>4. ASSUME NEW token \in DOMAIN engine.subs, Land(token) PROVE Feed'
  <2>1. DOMAIN engine' = {"position", "subs"} /\ engine'.position = engine.position
    BY <1>0, <1>4, Zenon DEF Land
  <2>2. PICK arrived : events' = events \o (IF arrived = <<>> THEN <<>> ELSE <<Landed(arrived)>>)
                                       \o <<Hydrated(token)>>
    BY <1>4, Zenon DEF Land
  <2>3. IsEvents(IF arrived = <<>> THEN <<>> ELSE <<Landed(arrived)>>)
    <3>1. IsEvents(<<>>)
      BY EmptyIsSeq DEF IsEvents
    <3>2. IsEvents(<<Landed(arrived)>>)
      BY OneEvent DEF Landed
    <3> QED BY <3>1, <3>2
  <2>4. IsEvents(events')
    BY <1>0, <2>2, <2>3, EventsJoined, EventTold DEF Hydrated
  <2> QED BY <1>0, <1>4, <2>1, <2>4, Zenon DEF Feed, Land, thread
<1>5. ASSUME NEW token \in DOMAIN engine.subs, RefuseRead(token) PROVE Feed'
  <2>1. DOMAIN engine' = {"position", "subs"} /\ engine'.position = engine.position
    BY <1>0, <1>5 DEF RefuseRead
  <2>2. IsEvents(events')
    BY <1>0, <1>5, EventTold DEF RefuseRead, RefusedEvent
  <2> QED BY <1>0, <1>5, <2>1, <2>2 DEF Feed, RefuseRead, thread
<1> QED BY <1>1, <1>2, <1>3, <1>4, <1>5

LEMMA FeedKept == ASSUME Feed, [Next]_vars PROVE Feed'
<1>0. /\ IsSeq(wal) /\ IsEvents(events)
      /\ DOMAIN engine = {"position", "subs"} /\ engine.position \in Nat
      /\ DOMAIN changes = {"ids", "results", "dirty"} /\ DOMAIN changes.ids \subseteq Tabs
      /\ \A t \in DOMAIN changes.ids : changes.ids[t] \in Nat
  BY DEF Feed
<1>1. ASSUME NEW commit, Committed(commit) PROVE Feed'
  <2>1. IsSeq(wal')
    BY <1>0, <1>1, Appended DEF Committed
  <2> QED BY <1>0, <1>1, <2>1 DEF Feed, Committed, thread
<1>2. CASE OutsideWrite \/ \E t \in Tabs : Mutate(t) \/ RefuseMutation(t)
  BY <1>1, <1>2 DEF OutsideWrite, Mutate, RefuseMutation
<1>3. ASSUME UNCHANGED <<wal, engine, events>>,
             changes' = changes \/ Dirty \/ changes' = NoChanges
                 \/ \E dirty : changes' = [changes EXCEPT !.dirty = dirty]
      PROVE Feed'
  BY <1>0, <1>3 DEF Feed, Dirty, NoChanges
<1>4. CASE \/ \E t \in Tabs : Drop(t) \/ Hear(t)
           \/ \E t \in Tabs, h \in Queries : Desire(t, h) \/ Undesire(t, h)
           \/ \E t, gone \in Tabs : Forget(t, gone)
           \/ \E w \in Wires, t \in Tabs : Open(w, t)
           \/ \E w \in Wires : ReadMutations(w) \/ Connect(w) \/ Disconnect(w)
  <2>1. ASSUME NEW w \in Wires, Connect(w) PROVE Feed'
    BY <1>3, <2>1, Zenon DEF Connect, Refusal, Join
  <2>2. ASSUME NEW w \in Wires, ReadMutations(w) \/ Disconnect(w) PROVE Feed'
    BY <1>3, <2>2, Zenon DEF ReadMutations, Disconnect, thread
  <2>3. ASSUME NEW t \in Tabs, \/ Drop(t) \/ Hear(t)
                              \/ \E h \in Queries : Desire(t, h) \/ Undesire(t, h)
        PROVE  Feed'
    BY <1>3, <2>3, Zenon DEF Drop, Hear, Desire, Undesire, thread
  <2>4. ASSUME NEW t \in Tabs, \/ \E gone \in Tabs : Forget(t, gone)
                              \/ \E w \in Wires : Open(w, t)
        PROVE  Feed'
    BY <1>3, <2>4, Zenon DEF Forget, Open, thread
  <2> QED BY <1>4, <2>1, <2>2, <2>3, <2>4, Zenon
<1>5. CASE \/ \E w \in Wires : Put(w) \/ Del(w) \/ DeleteClient(w)
           \/ \E h \in Known(group) : ExpireQuery(h) \/ Cool(h)
           \/ Expire \/ Flush
  BY <1>3, <1>5, Zenon DEF Put, NotPlanned, Anew, Del, DeleteClient, ExpireQuery, Cool, Expire, Flush
<1>6. ASSUME events # <<>>, events' = Tail(events), UNCHANGED <<wal, engine>>,
             changes' = changes \/ Dirty \/ (\E dirty : changes' = [changes EXCEPT !.dirty = dirty])
      PROVE Feed'
  <2>1. IsEvents(events')
    BY <1>0, <1>6, EventTaken
  <2> QED BY <1>0, <1>6, <2>1 DEF Feed, Dirty
<1>7. CASE TakeRegistered \/ TakeLanded \/ TakeHydrated \/ TakeRefused
  BY <1>6, <1>7 DEF TakeRegistered, TakeLanded, TakeHydrated, TakeRefused, NextEvent, Absorb
<1>8. CASE TakeCommitted
  <2>1. /\ events # <<>> /\ Head(events).kind = "committed" /\ events' = Tail(events)
        /\ UNCHANGED <<wal, engine>>
    BY <1>8 DEF TakeCommitted, NextEvent
  <2>2. IsEvents(events') /\ Head(events).at \in Nat
    BY <1>0, <2>1, EventTaken
  <2> DEFINE by == wal[Head(events).at].by
             id == IdsAt(Head(events).at)[by]
  <2>3. by \in Tabs => id \in Nat
    BY <2>2, IdsCounted DEF IdMap
  <2>4. /\ DOMAIN changes' = {"ids", "results", "dirty"}
        /\ changes'.ids = [t \in DOMAIN changes.ids \cup (Tabs \cap {by}) |->
                               IF t = by THEN id ELSE changes.ids[t]]
    BY <1>8 DEF TakeCommitted
  <2> HIDE DEF by, id
  <2>5. ASSUME NEW t \in DOMAIN changes'.ids PROVE changes'.ids[t] \in Nat /\ t \in Tabs
    <3>1. t \in DOMAIN changes.ids \cup (Tabs \cap {by})
      BY <2>4, <2>5
    <3>2. changes'.ids[t] = (IF t = by THEN id ELSE changes.ids[t]) /\ t \in Tabs
      BY <1>0, <2>4, <3>1
    <3>3. CASE t = by
      BY <2>3, <3>2, <3>3
    <3>4. CASE t # by
      BY <1>0, <3>1, <3>2, <3>4
    <3> QED BY <3>3, <3>4
  <2> QED BY <1>0, <2>1, <2>2, <2>4, <2>5 DEF Feed
<1>9. CASE UNCHANGED vars
  BY <1>3, <1>9 DEF vars, thread
<1> QED BY <1>2, <1>4, <1>5, <1>7, <1>8, <1>9, EngineTells DEF Next

-----------------------------------------------------------------------------
(* Pokes on their way *)

\* No poke is between the j-th frame and the i-th.
Gap(down, j, i) == \A k \in j + 1 .. i - 1 : ~Poke(down, k)

\* The pokes continue each other, the first one from cookie c, up to d.
Linked(c, down, d) ==
    /\ \A i \in 1 .. Len(down) : Poke(down, i) =>
        /\ Gap(down, 0, i) => down[i].poke.base = c
        /\ \A j \in 1 .. i - 1 :
            Poke(down, j) /\ Gap(down, j, i) => down[i].poke.base = down[j].poke.cookie
    /\ Gap(down, 0, Len(down) + 1) => d = c
    /\ \A j \in 1 .. Len(down) :
        Poke(down, j) /\ Gap(down, j, Len(down) + 1) => d = down[j].poke.cookie

\* The ids the pokes tell of u (0: none) rise, no higher than top and no
\* lower than floor.
Told(down, i, u) == down[i].poke.ids[u]
Rising(down, u, top) ==
    \A i \in 1 .. Len(down) : Poke(down, i) /\ Told(down, i, u) # 0 =>
        /\ Told(down, i, u) <= top
        /\ \A j \in 1 .. i - 1 : Poke(down, j) => Told(down, j, u) <= Told(down, i, u)
Above(down, u, floor) ==
    \A i \in 1 .. Len(down) : Poke(down, i) /\ Told(down, i, u) # 0 => floor <= Told(down, i, u)

LEMMA NothingUnderWay ==
    ASSUME NEW c, NEW u, NEW top, NEW floor
    PROVE  IsDown(<<>>) /\ Linked(c, <<>>, c) /\ Rising(<<>>, u, top) /\ Above(<<>>, u, floor)
<1>1. IsSeq(<<>>) /\ Len(<<>>) = 0
  BY EmptyIsSeq
<1> QED BY <1>1 DEF IsDown, Linked, Rising, Above

LEMMA DownParts ==
    ASSUME NEW down, IsDown(down)
    PROVE  IsSeq(down) /\ Len(down) \in Nat
BY SeqParts DEF IsDown

\* One frame more.
LEMMA FrameAdded ==
    ASSUME NEW down, IsDown(down), NEW m, m.kind = "poke" => IsPokeRecord(m.poke)
    PROVE  IsDown(Append(down, m))
<1>1. /\ IsSeq(Append(down, m)) /\ Len(Append(down, m)) = Len(down) + 1 /\ Len(down) \in Nat
      /\ \A i \in 1 .. Len(down) : Append(down, m)[i] = down[i]
      /\ Append(down, m)[Len(down) + 1] = m
  BY Appended DEF IsDown
<1>2. \A i \in 1 .. Len(down) + 1 : i \in 1 .. Len(down) \/ i = Len(down) + 1
  BY <1>1
<1> QED BY <1>1, <1>2 DEF IsDown, Poke

LEMMA GapAdded ==
    ASSUME NEW down, IsDown(down), NEW m
    PROVE  /\ \A i \in 1 .. Len(down) + 1 : \A j \in 0 .. i - 1 :
                Gap(Append(down, m), j, i) <=> Gap(down, j, i)
           /\ \A j \in 0 .. Len(down) :
                Gap(Append(down, m), j, Len(down) + 2)
                    <=> Gap(down, j, Len(down) + 1) /\ m.kind # "poke"
           /\ Gap(Append(down, m), Len(down) + 1, Len(down) + 2)
<1> DEFINE n == Len(down)
           long == Append(down, m)
<1>1. n \in Nat /\ (\A i \in 1 .. n : long[i] = down[i]) /\ long[n + 1] = m
  BY Appended DEF IsDown
<1> HIDE DEF n, long
<1>2. \A i \in 1 .. n + 1 : \A j \in 0 .. i - 1 : Gap(long, j, i) <=> Gap(down, j, i)
  BY <1>1 DEF Gap, Poke
<1>3. ASSUME NEW j \in 0 .. n
      PROVE  Gap(long, j, n + 2) <=> Gap(down, j, n + 1) /\ m.kind # "poke"
  <2>1. \A k : k \in j + 1 .. n + 2 - 1 <=> (k \in j + 1 .. n + 1 - 1 \/ k = n + 1)
    BY <1>1
  <2>2. \A k \in j + 1 .. n + 1 - 1 : long[k] = down[k]
    BY <1>1
  <2> QED BY <1>1, <2>1, <2>2 DEF Gap, Poke
<1>4. Gap(long, n + 1, n + 2)
  BY <1>1 DEF Gap
<1> QED BY <1>2, <1>3, <1>4 DEF n, long

LEMMA LinkAdded ==
    ASSUME NEW down, IsDown(down), NEW m, NEW c, NEW d, Linked(c, down, d)
    PROVE  /\ m.kind # "poke" => Linked(c, Append(down, m), d)
           /\ m.kind = "poke" /\ m.poke.base = d => Linked(c, Append(down, m), m.poke.cookie)
<1> DEFINE n == Len(down)
           long == Append(down, m)
<1>1. /\ n \in Nat /\ Len(long) = n + 1
      /\ (\A i \in 1 .. n : long[i] = down[i]) /\ long[n + 1] = m
  BY Appended DEF IsDown
<1>2. /\ \A i \in 1 .. n + 1 : \A j \in 0 .. i - 1 : Gap(long, j, i) <=> Gap(down, j, i)
      /\ \A j \in 0 .. n : Gap(long, j, n + 2) <=> Gap(down, j, n + 1) /\ m.kind # "poke"
      /\ Gap(long, n + 1, n + 2)
  BY GapAdded
<1>3. /\ \A i \in 1 .. n : Poke(down, i) =>
            /\ Gap(down, 0, i) => down[i].poke.base = c
            /\ \A j \in 1 .. i - 1 :
                Poke(down, j) /\ Gap(down, j, i) => down[i].poke.base = down[j].poke.cookie
      /\ Gap(down, 0, n + 1) => d = c
      /\ \A j \in 1 .. n : Poke(down, j) /\ Gap(down, j, n + 1) => d = down[j].poke.cookie
  BY DEF Linked
<1> HIDE DEF n, long
<1>4. ASSUME NEW i \in 1 .. n, Poke(long, i)
      PROVE  /\ Gap(long, 0, i) => long[i].poke.base = c
             /\ \A j \in 1 .. i - 1 :
                    Poke(long, j) /\ Gap(long, j, i) => long[i].poke.base = long[j].poke.cookie
  <2>1. Poke(down, i) /\ long[i] = down[i] /\ i \in 1 .. n + 1 /\ 0 \in 0 .. i - 1
    BY <1>1, <1>4 DEF Poke
  <2>2. \A j \in 1 .. i - 1 : j \in 1 .. n /\ j \in 0 .. i - 1
    BY <1>1
  <2> QED BY <1>1, <1>2, <1>3, <2>1, <2>2 DEF Poke
<1>5. ASSUME Poke(long, n + 1), m.kind = "poke", m.poke.base = d
      PROVE  /\ Gap(long, 0, n + 1) => long[n + 1].poke.base = c
             /\ \A j \in 1 .. n + 1 - 1 :
                    Poke(long, j) /\ Gap(long, j, n + 1) => long[n + 1].poke.base = long[j].poke.cookie
  <2>1. n + 1 \in 1 .. n + 1 /\ 0 \in 0 .. n + 1 - 1
    BY <1>1
  <2>2. \A j \in 1 .. n + 1 - 1 : j \in 1 .. n /\ j \in 0 .. n + 1 - 1
    BY <1>1
  <2> QED BY <1>1, <1>2, <1>3, <1>5, <2>1, <2>2 DEF Poke
<1>6. \A i \in 1 .. n + 1 : i \in 1 .. n \/ i = n + 1
  BY <1>1
<1>7. (n + 1) + 1 = n + 2 /\ 0 \in 0 .. n /\ \A j \in 1 .. n : j \in 0 .. n
  BY <1>1
<1>8. ASSUME m.kind # "poke" PROVE Linked(c, long, d)
  <2>1. ~Poke(long, n + 1)
    BY <1>1, <1>8 DEF Poke
  <2>2. Gap(long, 0, n + 2) => d = c
    BY <1>2, <1>3, <1>7
  <2>3. \A j \in 1 .. n + 1 : Poke(long, j) /\ Gap(long, j, n + 2) => d = long[j].poke.cookie
    BY <1>1, <1>2, <1>3, <1>6, <1>7, <2>1 DEF Poke
  <2> QED BY <1>1, <1>4, <1>6, <1>7, <2>1, <2>2, <2>3 DEF Linked
<1>9. ASSUME m.kind = "poke", m.poke.base = d PROVE Linked(c, long, m.poke.cookie)
  <2>1. \A j \in 0 .. n : ~Gap(long, j, n + 2)
    BY <1>2, <1>9
  <2>2. \A j \in 1 .. n + 1 :
            Poke(long, j) /\ Gap(long, j, n + 2) => m.poke.cookie = long[j].poke.cookie
    BY <1>1, <1>6, <1>7, <2>1
  <2> QED BY <1>1, <1>4, <1>5, <1>6, <1>7, <1>9, <2>1, <2>2 DEF Linked
<1> QED BY <1>8, <1>9 DEF long

\* One frame heard.
LEMMA FrameTaken ==
    ASSUME NEW down, IsDown(down), down # <<>>
    PROVE  /\ IsDown(Tail(down)) /\ Len(Tail(down)) = Len(down) - 1 /\ Len(down) \in Nat \ {0}
           /\ Head(down) = down[1] /\ 1 \in 1 .. Len(down)
           /\ \A i \in 1 .. Len(down) - 1 : Tail(down)[i] = down[i + 1] /\ i + 1 \in 1 .. Len(down)
<1>1. /\ IsSeq(Tail(down)) /\ Len(Tail(down)) = Len(down) - 1 /\ Len(down) \in Nat \ {0}
      /\ Head(down) = down[1]
      /\ \A i \in 1 .. Len(down) - 1 : Tail(down)[i] = down[i + 1]
  BY Shortened DEF IsDown
<1>2. \A i \in 1 .. Len(down) - 1 : i + 1 \in 1 .. Len(down)
  BY <1>1
<1>3. 1 \in 1 .. Len(down)
  BY <1>1
<1> QED BY <1>1, <1>2, <1>3 DEF IsDown, Poke

LEMMA LinkTaken ==
    ASSUME NEW down, IsDown(down), down # <<>>, NEW c, NEW d, Linked(c, down, d)
    PROVE  /\ Head(down).kind # "poke" => Linked(c, Tail(down), d)
           /\ Head(down).kind = "poke" =>
                Head(down).poke.base = c /\ Linked(Head(down).poke.cookie, Tail(down), d)
<1> DEFINE n == Len(down)
           rest == Tail(down)
<1>1. /\ n \in Nat \ {0} /\ Len(rest) = n - 1 /\ Head(down) = down[1] /\ 1 \in 1 .. n
      /\ \A i \in 1 .. n - 1 : rest[i] = down[i + 1] /\ i + 1 \in 1 .. n
  BY FrameTaken
<1>2. /\ \A i \in 1 .. n : Poke(down, i) =>
            /\ Gap(down, 0, i) => down[i].poke.base = c
            /\ \A j \in 1 .. i - 1 :
                Poke(down, j) /\ Gap(down, j, i) => down[i].poke.base = down[j].poke.cookie
      /\ Gap(down, 0, n + 1) => d = c
      /\ \A j \in 1 .. n : Poke(down, j) /\ Gap(down, j, n + 1) => d = down[j].poke.cookie
  BY DEF Linked
<1> HIDE DEF n, rest
\* gaps, shifted by the frame taken
<1>3. ASSUME NEW i \in 1 .. n, NEW j \in 0 .. i - 1, Gap(rest, j, i) PROVE Gap(down, j + 1, i + 1)
  <2>1. ASSUME NEW k \in j + 1 + 1 .. i + 1 - 1 PROVE ~Poke(down, k)
    <3>1. k - 1 \in j + 1 .. i - 1 /\ k - 1 \in 1 .. n - 1 /\ (k - 1) + 1 = k
      BY <1>1
    <3>2. ~Poke(rest, k - 1) /\ rest[k - 1] = down[k]
      BY <1>1, <1>3, <3>1 DEF Gap
    <3> QED BY <3>2 DEF Poke
  <2> QED BY <2>1 DEF Gap
<1>4. ASSUME NEW i \in 1 .. n, ~Poke(down, 1), Gap(rest, 0, i) PROVE Gap(down, 0, i + 1)
  <2>1. Gap(down, 0 + 1, i + 1) /\ 0 + 1 = 1
    BY <1>1, <1>3, <1>4
  <2>2. ASSUME NEW k \in 0 + 1 .. i + 1 - 1 PROVE ~Poke(down, k)
    <3>1. k = 1 \/ k \in 1 + 1 .. i + 1 - 1
      BY <1>1
    <3> QED BY <1>4, <2>1, <3>1 DEF Gap
  <2> QED BY <2>2 DEF Gap
<1>5. ASSUME NEW i \in 1 .. n - 1, Poke(rest, i)
      PROVE  \A j \in 1 .. i - 1 :
                Poke(rest, j) /\ Gap(rest, j, i) => rest[i].poke.base = rest[j].poke.cookie
  <2>1. ASSUME NEW j \in 1 .. i - 1, Poke(rest, j), Gap(rest, j, i)
        PROVE  rest[i].poke.base = rest[j].poke.cookie
    <3>1. j \in 1 .. n - 1 /\ i \in 1 .. n /\ j \in 0 .. i - 1 /\ j + 1 \in 1 .. (i + 1) - 1
      BY <1>1
    <3>2. Gap(down, j + 1, i + 1)
      BY <1>3, <2>1, <3>1
    <3>3. Poke(down, i + 1) /\ Poke(down, j + 1) /\ i + 1 \in 1 .. n
      BY <1>1, <1>5, <2>1, <3>1 DEF Poke
    <3>4. down[i + 1].poke.base = down[j + 1].poke.cookie
      BY <1>2, <3>1, <3>2, <3>3
    <3> QED BY <1>1, <3>1, <3>4
  <2> QED BY <2>1
<1>6. \A j \in 1 .. n - 1 : Poke(rest, j) /\ Gap(rest, j, n) => d = rest[j].poke.cookie
  <2>1. ASSUME NEW j \in 1 .. n - 1, Poke(rest, j), Gap(rest, j, n) PROVE d = rest[j].poke.cookie
    <3>1. n \in 1 .. n /\ j \in 0 .. n - 1 /\ j + 1 \in 1 .. n
      BY <1>1
    <3>2. Gap(down, j + 1, n + 1)
      BY <1>3, <2>1, <3>1
    <3> QED BY <1>1, <1>2, <2>1, <3>1, <3>2 DEF Poke
  <2> QED BY <2>1
<1>7. (n - 1) + 1 = n /\ n \in 1 .. n /\ 0 \in 0 .. n - 1 /\ 0 + 1 = 1
  BY <1>1
<1>8. ASSUME ~Poke(down, 1) PROVE Linked(c, rest, d)
  <2>1. ASSUME NEW i \in 1 .. n - 1, Poke(rest, i), Gap(rest, 0, i) PROVE rest[i].poke.base = c
    <3>1. i \in 1 .. n /\ i + 1 \in 1 .. n /\ rest[i] = down[i + 1]
      BY <1>1
    <3>2. Gap(down, 0, i + 1)
      BY <1>4, <1>8, <2>1, <3>1
    <3> QED BY <1>2, <2>1, <3>1, <3>2 DEF Poke
  <2>2. Gap(rest, 0, n) => d = c
    BY <1>2, <1>4, <1>7, <1>8
  <2> QED BY <1>1, <1>5, <1>6, <1>7, <2>1, <2>2 DEF Linked
<1>9. ASSUME Poke(down, 1) PROVE down[1].poke.base = c /\ Linked(down[1].poke.cookie, rest, d)
  <2>1. Gap(down, 0, 1)
    BY DEF Gap
  <2>2. down[1].poke.base = c
    BY <1>1, <1>2, <1>9, <2>1
  <2>3. ASSUME NEW i \in 1 .. n - 1, Poke(rest, i), Gap(rest, 0, i)
        PROVE  rest[i].poke.base = down[1].poke.cookie
    <3>1. i \in 1 .. n /\ i + 1 \in 1 .. n /\ rest[i] = down[i + 1] /\ 0 \in 0 .. i - 1
          /\ 1 \in 1 .. (i + 1) - 1
      BY <1>1
    <3>2. Gap(down, 1, i + 1)
      BY <1>3, <1>7, <2>3, <3>1
    <3> QED BY <1>2, <1>9, <2>3, <3>1, <3>2 DEF Poke
  <2>4. Gap(rest, 0, n) => d = down[1].poke.cookie
    BY <1>1, <1>2, <1>3, <1>7, <1>9
  <2> QED BY <1>1, <1>5, <1>6, <1>7, <2>2, <2>3, <2>4 DEF Linked
<1> QED BY <1>1, <1>8, <1>9 DEF rest, Poke

\* A run of the log's pokes, each one after the other.
LEMMA LinkReplayed ==
    ASSUME NEW down, IsDown(down), NEW c \in Nat, Len(down) # 0,
           \A i \in 1 .. Len(down) :
                Poke(down, i) /\ down[i].poke.base + 1 = c + i /\ down[i].poke.cookie = c + i
    PROVE  Linked(c, down, c + Len(down))
<1> DEFINE n == Len(down)
<1>1. n \in Nat \ {0} /\ \A i \in 1 .. n : down[i].poke.base \in Nat
  BY DownParts DEF IsDown, IsPokeRecord
<1>2. \A i \in 1 .. n : Poke(down, i) /\ down[i].poke.base + 1 = c + i /\ down[i].poke.cookie = c + i
  OBVIOUS
<1> HIDE DEF n
<1>3. ASSUME NEW i \in 1 .. n + 1, NEW j \in 0 .. i - 1, Gap(down, j, i) PROVE j = i - 1
  <2>1. SUFFICES ASSUME j # i - 1 PROVE FALSE
    OBVIOUS
  <2>2. j + 1 \in j + 1 .. i - 1 /\ j + 1 \in 1 .. n
    BY <1>1, <2>1
  <2> QED BY <1>2, <1>3, <2>2 DEF Gap
<1>4. ASSUME NEW i \in 1 .. n
      PROVE  /\ Gap(down, 0, i) => down[i].poke.base = c
             /\ \A j \in 1 .. i - 1 : Gap(down, j, i) => down[i].poke.base = down[j].poke.cookie
  <2>1. i \in 1 .. n + 1 /\ 0 \in 0 .. i - 1
    BY <1>1
  <2>2. \A b \in Nat : b + 1 = c + i => (0 = i - 1 => b = c) /\ b = c + (i - 1)
    BY <1>1
  <2>3. \A j \in 1 .. i - 1 : j \in 0 .. i - 1 /\ j \in 1 .. n
    BY <1>1
  <2> QED BY <1>1, <1>2, <1>3, <2>1, <2>2, <2>3
<1>5. ~Gap(down, 0, n + 1)
  <2>1. n + 1 \in 1 .. n + 1 /\ 0 \in 0 .. (n + 1) - 1 /\ 0 # (n + 1) - 1
    BY <1>1
  <2> QED BY <1>3, <2>1
<1>6. \A j \in 1 .. n : Gap(down, j, n + 1) => c + n = down[j].poke.cookie
  <2>1. \A j \in 1 .. n : n + 1 \in 1 .. n + 1 /\ j \in 0 .. (n + 1) - 1
    BY <1>1
  <2>2. \A j \in 1 .. n : j = (n + 1) - 1 => j = n
    BY <1>1
  <2> QED BY <1>2, <1>3, <2>1, <2>2
<1> QED BY <1>4, <1>5, <1>6 DEF Linked, n

\* The ids on their way.
LEMMA IdsAdded ==
    ASSUME NEW down, IsDown(down), NEW m, m.kind = "poke" => IsPokeRecord(m.poke),
           NEW u \in Tabs, NEW top \in Nat, Rising(down, u, top), NEW floor \in Nat, floor <= top,
           NEW higher \in Nat, top <= higher, m.kind = "poke" => m.poke.ids[u] \in {0, higher}
    PROVE  /\ Rising(Append(down, m), u, higher)
           /\ Above(down, u, floor) => Above(Append(down, m), u, floor)
<1> DEFINE n == Len(down)
           long == Append(down, m)
<1>1. /\ n \in Nat /\ Len(long) = n + 1
      /\ (\A i \in 1 .. n : long[i] = down[i]) /\ long[n + 1] = m
  BY Appended DEF IsDown
<1>2. \A i \in 1 .. n : Poke(down, i) => Told(down, i, u) \in Nat
  BY DEF IsDown, IsPokeRecord, Told, IdMap
<1> HIDE DEF n, long
<1>3. \A i \in 1 .. n : Poke(long, i) <=> Poke(down, i)
  BY <1>1 DEF Poke
<1>4. \A i \in 1 .. n : Told(long, i, u) = Told(down, i, u)
  BY <1>1 DEF Told
<1>5. \A i \in 1 .. n + 1 : i \in 1 .. n \/ i = n + 1
  BY <1>1
<1>6. Poke(long, n + 1) => Told(long, n + 1, u) \in {0, higher}
  BY <1>1 DEF Poke, Told
<1>7. /\ \A i \in 1 .. n : Poke(down, i) /\ Told(down, i, u) # 0 =>
            Told(down, i, u) <= top /\ Told(down, i, u) <= higher
      /\ \A i \in 1 .. n : Poke(down, i) /\ Told(down, i, u) = 0 => Told(down, i, u) <= higher
  <2>1. \A a \in Nat : a <= top => a <= higher
    OBVIOUS
  <2>2. 0 <= higher
    OBVIOUS
  <2> QED BY <1>2, <2>1, <2>2 DEF Rising, n
<1>8. ASSUME NEW i \in 1 .. n + 1, Poke(long, i), Told(long, i, u) # 0
      PROVE  /\ Told(long, i, u) <= higher
             /\ \A j \in 1 .. i - 1 : Poke(long, j) => Told(long, j, u) <= Told(long, i, u)
  <2>1. CASE i \in 1 .. n
    <3>1. \A j \in 1 .. i - 1 : j \in 1 .. n
      BY <1>1
    <3> QED BY <1>3, <1>4, <1>7, <1>8, <2>1, <3>1 DEF Rising, n
  <2>2. CASE i = n + 1
    <3>1. Told(long, i, u) = higher /\ higher <= higher
      BY <1>6, <1>8, <2>2
    <3>2. \A j \in 1 .. i - 1 : j \in 1 .. n
      BY <1>1, <2>2
    <3> QED BY <1>3, <1>4, <1>7, <3>1, <3>2
  <2> QED BY <1>5, <2>1, <2>2
<1>9. ASSUME Above(down, u, floor), NEW i \in 1 .. n + 1, Poke(long, i), Told(long, i, u) # 0
      PROVE  floor <= Told(long, i, u)
  <2>1. CASE i \in 1 .. n
    BY <1>3, <1>4, <1>9, <2>1 DEF Above, n
  <2>2. CASE i = n + 1
    <3>1. Told(long, i, u) = higher
      BY <1>6, <1>9, <2>2
    <3> QED BY <3>1
  <2> QED BY <1>5, <2>1, <2>2
<1>10. Rising(long, u, higher)
  BY <1>1, <1>8 DEF Rising
<1>11. Above(down, u, floor) => Above(long, u, floor)
  BY <1>1, <1>9 DEF Above
<1> QED BY <1>10, <1>11 DEF long

LEMMA IdsTaken ==
    ASSUME NEW down, IsDown(down), down # <<>>, NEW u \in Tabs, NEW top, Rising(down, u, top)
    PROVE  /\ Rising(Tail(down), u, top)
           /\ \A floor : Above(down, u, floor) => Above(Tail(down), u, floor)
           /\ Head(down).kind = "poke" =>
                /\ Head(down).poke.ids[u] \in Nat
                /\ Above(Tail(down), u, Head(down).poke.ids[u])
                /\ Head(down).poke.ids[u] # 0 =>
                    /\ Head(down).poke.ids[u] <= top
                    /\ \A floor : Above(down, u, floor) => floor <= Head(down).poke.ids[u]
<1> DEFINE n == Len(down)
           rest == Tail(down)
<1>1. /\ n \in Nat \ {0} /\ Len(rest) = n - 1 /\ Head(down) = down[1] /\ 1 \in 1 .. n
      /\ \A i \in 1 .. n - 1 : rest[i] = down[i + 1] /\ i + 1 \in 1 .. n
  BY FrameTaken
<1>2. \A i \in 1 .. n : Poke(down, i) /\ Told(down, i, u) # 0 =>
            /\ Told(down, i, u) <= top
            /\ \A j \in 1 .. i - 1 : Poke(down, j) => Told(down, j, u) <= Told(down, i, u)
  BY DEF Rising
<1>3. \A i \in 1 .. n : Poke(down, i) => Told(down, i, u) \in Nat
  BY DEF IsDown, IsPokeRecord, Told, IdMap
<1> HIDE DEF n, rest
<1>4. \A i \in 1 .. n - 1 : Poke(rest, i) <=> Poke(down, i + 1)
  BY <1>1 DEF Poke
<1>5. \A i \in 1 .. n - 1 : Told(rest, i, u) = Told(down, i + 1, u)
  BY <1>1 DEF Told
<1>6. \A i \in 1 .. n - 1 : \A j \in 1 .. i - 1 : j \in 1 .. n - 1 /\ j + 1 \in 1 .. (i + 1) - 1
  BY <1>1
<1>7. \A i \in 1 .. n - 1 : 1 \in 1 .. (i + 1) - 1
  BY <1>1
<1>8. Rising(rest, u, top)
  BY <1>1, <1>2, <1>4, <1>5, <1>6 DEF Rising
<1>9. ASSUME NEW floor, Above(down, u, floor) PROVE Above(rest, u, floor)
  BY <1>1, <1>4, <1>5, <1>9 DEF Above, n
<1>10. ASSUME Poke(down, 1) PROVE Above(rest, u, Told(down, 1, u))
  BY <1>1, <1>2, <1>4, <1>5, <1>7, <1>10 DEF Above
<1>11. ASSUME NEW floor, Above(down, u, floor), Poke(down, 1), Told(down, 1, u) # 0
       PROVE  floor <= Told(down, 1, u)
  BY <1>1, <1>11 DEF Above, n
<1> QED BY <1>1, <1>2, <1>3, <1>8, <1>9, <1>10, <1>11 DEF rest, Poke, Told

-----------------------------------------------------------------------------
(* The invariant *)

\* The log's pokes follow one another up to the group's version.
Logged(g) ==
    /\ Len(g.log) <= g.version
    /\ \A i \in 1 .. Len(g.log) :
        /\ g.log[i].cookie = g.version - Len(g.log) + i
        /\ g.log[i].base + 1 = g.log[i].cookie

Sockets ==
    /\ ~group.open => group.sockets = {}
    /\ \A w \in group.sockets : w \in Wires /\ wires[w].stage = "joined"

\* What is on its way to a tab leads from its cookie to the group's version,
\* on a connection the group knows; elsewhere there is no poke.
Wired(t) ==
    LET w == tabs[t].wire
        wire == wires[w]
    IN  w # 0 =>
        /\ w \in Wires /\ wire.tab = t
        /\ wire.stage \in {"reading", "asking", "joined", "gone"}
        /\ wire.stage \in {"reading", "asking"} => wire.down = <<>> /\ wire.cookie = tabs[t].cookie
        /\ wire.stage = "joined" =>
            /\ w \in group.sockets /\ wire.line = group.line
            /\ Linked(tabs[t].cookie, wire.down, group.version)
        /\ wire.stage = "gone" => \A i \in 1 .. Len(wire.down) : ~Poke(wire.down, i)

\* No tab is of a group yet to be made; one without a cookie was told no ids.
Lines(t) ==
    /\ tabs[t].line <= group.line
    /\ tabs[t].cookie # 0 /\ ~group.open => tabs[t].line < group.line
    /\ tabs[t].cookie = 0 => \A u \in Tabs : tabs[t].ids[u] = 0

\* The ids a tab of this group knows, those on their way to it and the
\* group's rise in this order.
Counted(t) ==
    \A u \in Tabs :
        LET w == tabs[t].wire
        IN  /\ OurTab(t) => tabs[t].ids[u] <= group.lmids[u]
            /\ w # 0 /\ wires[w].stage = "joined" =>
                /\ Rising(wires[w].down, u, group.lmids[u])
                /\ OurTab(t) => Above(wires[w].down, u, tabs[t].ids[u])

Order == Logged(group) /\ Sockets /\ \A t \in Tabs : Wired(t) /\ Lines(t) /\ Counted(t)
GroupInv == Shape /\ Order

LEMMA Numbered == Wires \subseteq Nat \ {0} /\ 0 \notin Wires /\ NoTab \notin Tabs
BY ConstantsAssumption DEF Wires

LEMMA AtTheEnd ==
    ASSUME GroupInv, NEW t \in Tabs, tabs[t].wire # 0
    PROVE  /\ tabs[t].wire \in Wires /\ Listening(tabs[t].wire)
           /\ wires[tabs[t].wire].tab = t /\ IsWire(wires[tabs[t].wire])
           /\ \A v \in Tabs : tabs[v].wire = tabs[t].wire => v = t
BY DEF GroupInv, Order, Wired, Listening, Shape, Ends

LEMMA Higher ==
    ASSUME NEW down, IsDown(down), NEW u \in Tabs, NEW top \in Nat, NEW higher \in Nat, top <= higher,
           Rising(down, u, top)
    PROVE  Rising(down, u, higher)
<1>1. \A i \in 1 .. Len(down) : Poke(down, i) => Told(down, i, u) \in Nat
  BY DEF IsDown, IsPokeRecord, Told, IdMap
<1>2. \A a \in Nat : a <= top => a <= higher
  OBVIOUS
<1> QED BY <1>1, <1>2 DEF Rising

-----------------------------------------------------------------------------
(* Steps after which nothing has reached a tab, and no poke is on its way *)

Risen(g, h) ==
    IsGroup(h) /\ SameFace(g, h) /\ \A u \in Tabs : g.lmids[u] <= h.lmids[u]
WireStill(w) ==
    /\ IsWire(wires'[w])
    /\ wires'[w].tab = wires[w].tab /\ wires'[w].cookie = wires[w].cookie
    /\ wires'[w].line = wires[w].line
    /\ wires'[w].stage = wires[w].stage
           \/ (wires[w].stage = "reading" /\ wires'[w].stage = "asking")
    /\ Listening(w) =>
           \/ wires'[w].down = wires[w].down
           \/ /\ wires[w].stage = "joined"
              /\ \E m : m.kind # "poke" /\ wires'[w].down = Append(wires[w].down, m)
TabStill(t) ==
    /\ IsTab(tabs'[t])
    /\ tabs'[t].cookie = tabs[t].cookie /\ tabs'[t].line = tabs[t].line
    /\ tabs'[t].ids = tabs[t].ids /\ tabs'[t].wire = tabs[t].wire
Still ==
    /\ Risen(group, group')
    /\ DOMAIN wires' = Wires /\ \A w \in Wires : WireStill(w)
    /\ DOMAIN tabs' = Tabs /\ \A t \in Tabs : TabStill(t)

LEMMA StillWired == ASSUME GroupInv, Still, NEW t \in Tabs PROVE Wired(t)'
<1> DEFINE w == tabs[t].wire
<1>1. SUFFICES ASSUME w # 0 PROVE Wired(t)'
  BY DEF Still, TabStill, Wired
<1>2. w \in Wires /\ Listening(w) /\ WireStill(w) /\ TabStill(t) /\ tabs'[t].wire = w
  BY <1>1, AtTheEnd DEF Still, TabStill
<1>3. /\ wires[w].tab = t
      /\ wires[w].stage \in {"reading", "asking", "joined", "gone"}
      /\ wires[w].stage \in {"reading", "asking"} =>
            wires[w].down = <<>> /\ wires[w].cookie = tabs[t].cookie
      /\ wires[w].stage = "joined" =>
            /\ w \in group.sockets /\ wires[w].line = group.line
            /\ Linked(tabs[t].cookie, wires[w].down, group.version)
      /\ wires[w].stage = "gone" => \A i \in 1 .. Len(wires[w].down) : ~Poke(wires[w].down, i)
  BY <1>1 DEF GroupInv, Order, Wired
<1>4. /\ group'.sockets = group.sockets /\ group'.line = group.line
      /\ group'.version = group.version /\ tabs'[t].cookie = tabs[t].cookie
  BY <1>2 DEF Still, Risen, SameFace, TabStill
<1>5. IsDown(wires[w].down)
  BY <1>2 DEF GroupInv, Shape, Ends, IsWire
<1> HIDE DEF w
<1>6. wires[w].stage = "joined" => Linked(tabs[t].cookie, wires'[w].down, group.version)
  BY <1>2, <1>3, <1>5, LinkAdded DEF WireStill
<1> QED BY <1>2, <1>3, <1>4, <1>6 DEF Wired, WireStill

LEMMA StillCounted == ASSUME GroupInv, Still, NEW t \in Tabs PROVE Counted(t)'
<1> DEFINE w == tabs[t].wire
<1>1. /\ TabStill(t) /\ tabs'[t].wire = w /\ tabs'[t].ids = tabs[t].ids /\ (OurTab(t)' <=> OurTab(t))
      /\ \A u \in Tabs : tabs[t].ids[u] \in Nat
  BY DEF Still, TabStill, OurTab, Risen, SameFace, GroupInv, Shape, Ends, IsTab, IdMap
<1>2. ASSUME NEW u \in Tabs
      PROVE  /\ group.lmids[u] \in Nat /\ group'.lmids[u] \in Nat
             /\ group.lmids[u] <= group'.lmids[u]
  BY DEF Still, Risen, GroupInv, Shape, Ends, IsGroup, IdMap
<1>3. ASSUME NEW u \in Tabs
      PROVE  /\ OurTab(t) => tabs[t].ids[u] <= group.lmids[u]
             /\ w # 0 /\ wires[w].stage = "joined" =>
                /\ Rising(wires[w].down, u, group.lmids[u])
                /\ OurTab(t) => Above(wires[w].down, u, tabs[t].ids[u])
  BY DEF GroupInv, Order, Counted
<1>4. ASSUME NEW u \in Tabs, OurTab(t) PROVE tabs[t].ids[u] <= group'.lmids[u]
  <2>1. \A a, b, c \in Nat : a <= b /\ b <= c => a <= c
    OBVIOUS
  <2> QED BY <1>1, <1>2, <1>3, <1>4, <2>1
<1>5. ASSUME NEW u \in Tabs, w # 0, wires'[w].stage = "joined"
      PROVE  /\ Rising(wires'[w].down, u, group'.lmids[u])
             /\ OurTab(t) => Above(wires'[w].down, u, tabs[t].ids[u])
  <2>1. w \in Wires /\ Listening(w) /\ WireStill(w) /\ IsDown(wires[w].down)
    BY <1>5, AtTheEnd DEF Still, IsWire
  <2>2. wires[w].stage = "joined"
    BY <1>5, <2>1, Zenon DEF WireStill
  <2>3. CASE wires'[w].down = wires[w].down
    BY <1>2, <1>3, <1>5, <2>1, <2>2, <2>3, Higher
  <2>4. ASSUME NEW m, m.kind # "poke", wires'[w].down = Append(wires[w].down, m)
        PROVE  /\ Rising(wires'[w].down, u, group'.lmids[u])
               /\ OurTab(t) => Above(wires'[w].down, u, tabs[t].ids[u])
    <3>1. Rising(wires[w].down, u, group.lmids[u]) /\ 0 <= group.lmids[u] /\ 0 \in Nat
      BY <1>2, <1>3, <1>5, <2>2
    <3>2. Rising(wires'[w].down, u, group'.lmids[u])
      BY <1>2, <2>1, <2>4, <3>1, IdsAdded
    <3>3. ASSUME OurTab(t) PROVE Above(wires'[w].down, u, tabs[t].ids[u])
      <4>1. tabs[t].ids[u] \in Nat /\ tabs[t].ids[u] <= group.lmids[u]
            /\ Above(wires[w].down, u, tabs[t].ids[u])
        BY <1>1, <1>3, <1>5, <2>2, <3>3
      <4> QED BY <1>2, <2>1, <2>4, <3>1, <4>1, IdsAdded
    <3> QED BY <3>2, <3>3
  <2> QED BY <2>1, <2>3, <2>4, Zenon DEF WireStill
<1> QED BY <1>1, <1>4, <1>5 DEF Counted

LEMMA StillKeeps == ASSUME GroupInv, Still PROVE Ends' /\ Order'
<1>1. Ends'
  BY DEF Still, WireStill, TabStill, Risen, Ends
<1>2. Logged(group)'
  BY DEF Still, Risen, SameFace, GroupInv, Order, Logged
<1>3. Sockets'
  BY DEF Still, Risen, SameFace, WireStill, GroupInv, Order, Sockets
<1>4. ASSUME NEW t \in Tabs PROVE Lines(t)'
  BY DEF Still, TabStill, Risen, SameFace, GroupInv, Order, Lines
<1> QED BY <1>1, <1>2, <1>3, <1>4, StillWired, StillCounted DEF Order

LEMMA RisenFollows ==
    /\ \A g, h : IsGroup(g) /\ Kept(g, h) => Risen(g, h)
    /\ \A g, h, k : Kept(g, h) /\ Risen(h, k) => Risen(g, k)
    /\ \A g : IsGroup(g) => Risen(g, g)
<1>1. \A g : IsGroup(g) => \A u \in Tabs : g.lmids[u] <= g.lmids[u]
  BY DEF IsGroup, IdMap
<1> QED BY <1>1 DEF Risen, Kept, SameFace

LEMMA NotedRisen == ASSUME NEW g, IsGroup(g), Feed PROVE Risen(g, Noted(g, changes))
<1> DEFINE raised == Raised(g, changes.ids)
           h == Noted(g, changes)
<1>1. /\ DOMAIN h = GroupFields /\ SameFace(g, h)
      /\ h.lmids = [t \in Tabs |-> IF t \in raised THEN changes.ids[t] ELSE g.lmids[t]]
  BY DEF Noted, IsGroup, GroupFields, SameFace
<1>2. \A t \in raised : changes.ids[t] \in Nat /\ changes.ids[t] >= g.lmids[t]
  BY DEF Raised, Feed
<1>3. \A t \in Tabs : g.lmids[t] \in Nat
  BY DEF IsGroup, IdMap
<1> HIDE DEF raised, h
<1>4. h.lmids \in IdMap /\ \A u \in Tabs : g.lmids[u] <= h.lmids[u]
  BY <1>1, <1>2, <1>3 DEF IdMap
<1> QED BY <1>1, <1>4 DEF Risen, SameFace, IsGroup, h

LEMMA WireUntouched == ASSUME NEW w \in Wires, GroupInv, wires'[w] = wires[w] PROVE WireStill(w)
BY DEF WireStill, GroupInv, Shape, Ends

LEMMA TabUntouched == ASSUME NEW t \in Tabs, GroupInv, tabs'[t] = tabs[t] PROVE TabStill(t)
BY DEF TabStill, GroupInv, Shape, Ends

LEMMA GroupMoves == ASSUME GroupInv, Risen(group, group'), UNCHANGED <<wires, tabs>> PROVE Still
BY WireUntouched, TabUntouched DEF Still, GroupInv, Shape, Ends

LEMMA NothingMoves == ASSUME GroupInv, UNCHANGED <<group, wires, tabs>> PROVE Still
BY GroupMoves, RisenFollows DEF GroupInv, Shape, Ends

LEMMA EngineStill ==
    ASSUME GroupInv,
           \/ OutsideWrite \/ \E t \in Tabs : Mutate(t) \/ RefuseMutation(t)
           \/ TakeRegister \/ TakeUnregister \/ Route
           \/ \E token \in DOMAIN engine.subs : Land(token) \/ RefuseRead(token)
    PROVE  Still
<1>1. UNCHANGED <<group, wires, tabs>>
  BY Zenon DEF OutsideWrite, Mutate, RefuseMutation, Committed, TakeRegister, TakeUnregister, Route,
         Land, RefuseRead, thread
<1> QED BY <1>1, NothingMoves

LEMMA ThreadStill ==
    ASSUME GroupInv,
           \/ \E h \in Known(group) : ExpireQuery(h) \/ Cool(h)
           \/ TakeRegistered \/ TakeLanded \/ TakeHydrated \/ TakeCommitted
    PROVE  Still
<1>0. IsGroup(group)
  BY DEF GroupInv, Shape, Ends
<1>1. ASSUME NEW h \in Known(group), ExpireQuery(h) PROVE Still
  <2>1. group' = Unsubscribed(group, h) /\ UNCHANGED <<wires, tabs>>
    BY <1>1 DEF ExpireQuery
  <2> QED BY <1>0, <2>1, UnsubscribedKept, RisenFollows, GroupMoves
<1>2. ASSUME NEW h \in Known(group), Cool(h) PROVE Still
  <2>1. PICK x : group' = [group EXCEPT !.queries = x]
    BY <1>2 DEF Cool
  <2>2. UNCHANGED <<wires, tabs>>
    BY <1>2 DEF Cool
  <2>3. Kept(group, group')
    BY <1>0, <2>1, SetAside
  <2> QED BY <1>0, <2>2, <2>3, RisenFollows, GroupMoves
<1>3. CASE TakeRegistered
  <2>1. UNCHANGED <<wires, tabs>> /\ (group' = group \/ \E x : group' = [group EXCEPT !.queries = x])
    <3>1. PICK h, token : \/ group' = group
                          \/ group' = [group EXCEPT !.queries[h].awaiting = 0, !.queries[h].sub = token]
      BY <1>3, Zenon DEF TakeRegistered
    <3>2. [group EXCEPT !.queries[h].awaiting = 0, !.queries[h].sub = token]
            = [group EXCEPT !.queries = [[@ EXCEPT ![h].awaiting = 0] EXCEPT ![h].sub = token]]
      BY <1>0 DEF IsGroup, GroupFields
    <3>3. UNCHANGED <<wires, tabs>>
      BY <1>3 DEF TakeRegistered
    <3> QED BY <3>1, <3>2, <3>3
  <2>2. CASE group' = group
    BY <2>1, <2>2, NothingMoves
  <2>3. ASSUME NEW x, group' = [group EXCEPT !.queries = x] PROVE Still
    <3>1. Kept(group, group')
      BY <1>0, <2>3, SetAside
    <3> QED BY <1>0, <2>1, <3>1, RisenFollows, GroupMoves
  <2> QED BY <2>1, <2>2, <2>3
<1>4. CASE TakeLanded \/ TakeCommitted
  BY <1>4, NothingMoves, Zenon DEF TakeLanded, TakeCommitted
<1>5. CASE TakeHydrated
  <2>1. UNCHANGED <<wires, tabs>> /\ (group' = group \/ \E h : group' = Hydrate(group, h))
    BY <1>5 DEF TakeHydrated
  <2> QED BY <1>0, <2>1, HydrateKept, RisenFollows, GroupMoves
<1> QED BY <1>1, <1>2, <1>3, <1>4, <1>5

\* A message is answered with nothing, or with why not.
LEMMA SentDown ==
    ASSUME NEW w \in Wires, GroupInv, NEW messages,
           messages = <<>> \/ \E m : m.kind # "poke" /\ messages = <<m>>
    PROVE  /\ IsDown(Sent(w, messages))
           /\ Listening(w) => \/ Sent(w, messages) = wires[w].down
                              \/ \E m : m.kind # "poke" /\ Sent(w, messages) = Append(wires[w].down, m)
<1>1. IsDown(wires[w].down) /\ IsSeq(wires[w].down)
  BY DEF GroupInv, Shape, Ends, IsWire, IsDown
<1>2. CASE messages = <<>>
  BY <1>1, <1>2, AfterNothing, NothingUnderWay DEF Sent
<1>3. ASSUME NEW m, m.kind # "poke", messages = <<m>>
      PROVE  /\ IsDown(Sent(w, messages))
             /\ Listening(w) => Sent(w, messages) = Append(wires[w].down, m)
  <2>1. wires[w].down \o <<m>> = Append(wires[w].down, m)
    BY <1>1, Appended
  <2> QED BY <1>1, <1>3, <2>1, FrameAdded, NothingUnderWay DEF Sent
<1> QED BY <1>2, <1>3

LEMMA AnsweredStill ==
    ASSUME NEW w \in Wires, GroupInv, wires[w].stage = "joined", NEW messages,
           messages = <<>> \/ \E m : m.kind # "poke" /\ messages = <<m>>,
           Answered(w, messages), Risen(group, group'), UNCHANGED tabs
    PROVE  Still
<1>1. DOMAIN wires = Wires /\ IsWire(wires[w])
  BY DEF GroupInv, Shape, Ends
<1>2. wires'[w] = [wires[w] EXCEPT !.asks = Tail(@), !.down = Sent(w, messages)]
  BY <1>1 DEF Answered
<1>3. DOMAIN wires' = Wires /\ \A v \in Wires \ {w} : wires'[v] = wires[v]
  BY <1>1 DEF Answered
<1>4. WireStill(w)
  BY <1>1, <1>2, SentDown DEF WireStill, IsWire, WireFields
<1> QED BY <1>3, <1>4, WireUntouched, TabUntouched DEF Still, GroupInv, Shape, Ends

LEMMA RequestStill ==
    ASSUME GroupInv, NEW w \in Wires, Put(w) \/ Del(w) \/ DeleteClient(w) PROVE Still
<1>0. IsGroup(group)
  BY DEF GroupInv, Shape, Ends
<1>1. wires[w].stage = "joined" /\ UNCHANGED tabs
  BY Zenon DEF Put, NotPlanned, Anew, Del, DeleteClient, NextAsk
<1>2. CASE Put(w)
  <2> DEFINE h == Head(wires[w].asks).hash
             desiring == Desiring(group, wires[w].tab, h)
  <2>1. Kept(group, desiring) /\ IsGroup(desiring)
    BY <1>0, DesiringKept DEF Kept
  <2>2. \/ (\E query : group' = Remembering(desiring, h, query))
        \/ group' = [desiring EXCEPT !.queries[h].inactive = FALSE]
    BY <1>2, Zenon DEF Put, NotPlanned, Anew
  <2>3. Answered(w, <<>>) \/ Answered(w, <<Errored(h)>>)
    BY <1>2, Zenon DEF Put, NotPlanned, Anew
  <2> HIDE DEF desiring, h
  <2>9. ASSUME NEW query, group' = Remembering(desiring, h, query) PROVE Kept(desiring, group')
    BY <2>1, <2>9, RememberingKept
  <2>4. ASSUME group' = [desiring EXCEPT !.queries[h].inactive = FALSE] PROVE Kept(desiring, group')
    <3>1. PICK x : group' = [desiring EXCEPT !.queries = x]
      BY <2>4
    <3> QED BY <2>1, <3>1, SetAside
  <2>5. Risen(group, group')
    BY <1>0, <2>1, <2>2, <2>9, <2>4, KeptFollows, RisenFollows
  <2>6. Errored(h).kind # "poke"
    BY DEF Errored
  <2>7. CASE Answered(w, <<>>)
    BY <1>1, <2>5, <2>7, AnsweredStill
  <2>8. CASE Answered(w, <<Errored(h)>>)
    BY <1>1, <2>5, <2>6, <2>8, AnsweredStill
  <2> QED BY <2>3, <2>7, <2>8
<1>3. CASE Del(w)
  <2>1. PICK client, hashes : group' = [LetGo(group, client, hashes) EXCEPT !.queued.echo = TRUE]
    BY <1>3 DEF Del
  <2> DEFINE kept == LetGo(group, client, hashes)
  <2>2. Kept(group, kept) /\ IsGroup(kept)
    BY <1>0, LetGoKept DEF Kept
  <2>3. PICK x : group' = [kept EXCEPT !.queued = x]
    BY <2>1
  <2> HIDE DEF kept
  <2>6. Kept(kept, group')
    BY <2>2, <2>3, SetAside
  <2>4. Risen(group, group')
    BY <1>0, <2>2, <2>6, KeptFollows, RisenFollows
  <2>5. Answered(w, <<>>)
    BY <1>3 DEF Del
  <2> QED BY <1>1, <2>4, <2>5, AnsweredStill
<1>4. CASE DeleteClient(w)
  <2>1. /\ \E client, hashes : group' = LetGo(group, client, hashes)
        /\ Answered(w, <<>>)
    BY <1>4 DEF DeleteClient
  <2>2. Risen(group, group')
    BY <1>0, <2>1, LetGoKept, RisenFollows
  <2> QED BY <1>1, <2>1, <2>2, AnsweredStill
<1> QED BY <1>2, <1>3, <1>4

LEMMA RefusedStill == ASSUME GroupInv, TakeRefused PROVE Still
<1>0. IsGroup(group) /\ DOMAIN wires = Wires
  BY DEF GroupInv, Shape, Ends
<1>1. CASE UNCHANGED <<group, wires>>
  BY <1>1, NothingMoves DEF TakeRefused
<1>2. CASE ~UNCHANGED <<group, wires>>
  <2>1. PICK h : /\ group' = Refuse(group, h)
                 /\ wires' = [w \in Wires |->
                        IF w \in group.sockets
                        THEN [wires[w] EXCEPT !.down = Sent(w, <<Errored(h)>>)]
                        ELSE wires[w]]
    BY <1>2 DEF TakeRefused
  <2>2. Errored(h).kind # "poke"
    BY DEF Errored
  <2>3. ASSUME NEW w \in Wires PROVE WireStill(w)
    <3>1. CASE w \notin group.sockets
      BY <2>1, <3>1, WireUntouched
    <3>2. CASE w \in group.sockets
      <4>1. wires[w].stage = "joined" /\ IsWire(wires[w])
        BY <3>2 DEF GroupInv, Order, Sockets, Shape, Ends
      <4>2. wires'[w] = [wires[w] EXCEPT !.down = Sent(w, <<Errored(h)>>)]
        BY <2>1, <3>2
      <4> QED BY <2>2, <4>1, <4>2, SentDown DEF WireStill, IsWire, WireFields
    <3> QED BY <3>1, <3>2
  <2>4. UNCHANGED tabs
    BY DEF TakeRefused
  <2>5. Risen(group, group')
    BY <1>0, <2>1, RefuseKept, RisenFollows
  <2>6. DOMAIN wires' = Wires
    BY <2>1
  <2> QED BY <2>3, <2>4, <2>5, <2>6, TabUntouched DEF Still, GroupInv, Shape, Ends
<1> QED BY <1>1, <1>2

LEMMA ReadStill == ASSUME GroupInv, NEW w \in Wires, ReadMutations(w) PROVE Still
<1>0. IsGroup(group) /\ DOMAIN wires = Wires /\ IsWire(wires[w])
  BY DEF GroupInv, Shape, Ends
<1>1. IdsAt(Len(wal)) \in IdMap
  BY SeqParts, IdsCounted DEF GroupInv, Shape, Feed
<1>2. /\ wires[w].stage = "reading" /\ UNCHANGED <<group, tabs>>
      /\ DOMAIN wires' = Wires /\ \A v \in Wires \ {w} : wires'[v] = wires[v]
  BY <1>0 DEF ReadMutations, thread
<1>3. \/ wires'[w] = [wires[w] EXCEPT !.stage = "asking", !.ids = IdsAt(Len(wal)),
                                      !.waiting = ResultsAt(Len(wal))]
      \/ wires'[w] = [wires[w] EXCEPT !.stage = "asking"]
  BY <1>0 DEF ReadMutations
<1>4. WireStill(w)
  BY <1>0, <1>1, <1>2, <1>3 DEF WireStill, IsWire, WireFields
<1>5. Risen(group, group')
  BY <1>0, <1>2, RisenFollows
<1> QED BY <1>2, <1>4, <1>5, WireUntouched, TabUntouched DEF Still, GroupInv, Shape, Ends

LEMMA SayStill ==
    ASSUME GroupInv,
           \/ \E t \in Tabs, h \in Queries : Desire(t, h) \/ Undesire(t, h)
           \/ \E t, gone \in Tabs : Forget(t, gone)
    PROVE  Still
<1>0. IsGroup(group) /\ DOMAIN wires = Wires /\ DOMAIN tabs = Tabs
  BY DEF GroupInv, Shape, Ends
<1>1. PICK t \in Tabs : \E ask : Say(t, ask)
  BY Zenon DEF Desire, Undesire, Forget
<1> DEFINE Asks0(x, a, b, c) ==
             \/ tabs' = [tabs EXCEPT ![x].desires = a, ![x].told = b, ![x].asked = c]
             \/ tabs' = [tabs EXCEPT ![x].asked = c]
<1>a. ASSUME NEW x \in Tabs, NEW h \in Queries, Desire(x, h) PROVE \E a, b, c : Asks0(x, a, b, c)
  BY <1>a, Zenon DEF Desire
<1>b. ASSUME NEW x \in Tabs, NEW h \in Queries, Undesire(x, h) PROVE \E a, b, c : Asks0(x, a, b, c)
  BY <1>b, Zenon DEF Undesire
<1>c. ASSUME NEW x \in Tabs, NEW gone \in Tabs, Forget(x, gone) PROVE \E a, b, c : Asks0(x, a, b, c)
  BY <1>c, Zenon DEF Forget
<1>2. UNCHANGED group /\ DOMAIN tabs' = Tabs
  <2>1. UNCHANGED group
    BY Zenon DEF Desire, Undesire, Forget, thread
  <2>2. PICK x \in Tabs : \E a, b, c : Asks0(x, a, b, c)
    BY <1>a, <1>b, <1>c, Zenon
  <2> QED BY <1>0, <2>1, <2>2
<1>3. \A v \in Tabs : TabStill(v)
  <2>1. \A v \in Tabs : IsTab(tabs[v])
    BY DEF GroupInv, Shape, Ends
  <2>2. PICK x \in Tabs : \E a, b, c : Asks0(x, a, b, c)
    BY <1>a, <1>b, <1>c, Zenon
  <2>3. PICK a, b, c :
            tabs' = [tabs EXCEPT ![x].desires = a, ![x].told = b, ![x].asked = c]
                \/ tabs' = [tabs EXCEPT ![x].asked = c]
    BY <2>2, Zenon
  <2>4. \A v \in Tabs \ {x} : tabs'[v] = tabs[v]
    BY <1>0, <2>3
  <2>5. \/ tabs'[x] = [tabs[x] EXCEPT !.desires = a, !.told = b, !.asked = c]
        \/ tabs'[x] = [tabs[x] EXCEPT !.asked = c]
    BY <1>0, <2>3
  <2>6. TabStill(x)
    <3>1. DOMAIN tabs[x] = TabFields
      BY <2>1 DEF IsTab
    <3>2. PICK y, z : y = tabs[x] /\ z = tabs'[x]
      OBVIOUS
    <3>3. z = [y EXCEPT !.desires = a, !.told = b, !.asked = c] \/ z = [y EXCEPT !.asked = c]
      BY <2>5, <3>2
    <3>4. /\ DOMAIN z = TabFields /\ z.cookie = y.cookie /\ z.line = y.line
          /\ z.ids = y.ids /\ z.wire = y.wire
      BY <3>1, <3>2, <3>3 DEF TabFields
    <3> QED BY <2>1, <3>2, <3>4 DEF TabStill, IsTab
  <2>7. ASSUME NEW v \in Tabs \ {x} PROVE TabStill(v)
    <3>1. tabs'[v] = tabs[v]
      BY <2>4
    <3> QED BY <3>1, TabUntouched
  <2> QED BY <2>6, <2>7
<1>4. tabs[t].wire \in Wires /\ IsWire(wires[tabs[t].wire])
  BY <1>1, AtTheEnd DEF Say
<1>5. /\ DOMAIN wires' = Wires /\ \A v \in Wires \ {tabs[t].wire} : wires'[v] = wires[v]
      /\ \E ask : wires'[tabs[t].wire] = [wires[tabs[t].wire] EXCEPT !.asks = Append(@, ask)]
  BY <1>0, <1>1, <1>4 DEF Say
<1>6. WireStill(tabs[t].wire)
  BY <1>4, <1>5 DEF WireStill, IsWire, WireFields
<1> QED BY <1>0, <1>2, <1>3, <1>5, <1>6, WireUntouched, RisenFollows DEF Still

-----------------------------------------------------------------------------
(* What a connecting client is sent *)

LEMMA MadeSeq ==
    ASSUME NEW n \in Nat, NEW s, DOMAIN s = 1 .. n, s = [i \in DOMAIN s |-> s[i]]
    PROVE  IsSeq(s) /\ Len(s) = n
<1> DEFINE S == {s[i] : i \in DOMAIN s}
<1>1. s \in [1 .. n -> S]
  OBVIOUS
<1>2. s \in Seq(S)
  BY <1>1, SeqDef
<1> HIDE DEF S
<1> QED BY <1>2, AnySeq, LenProperties

LEMMA FramedPokes ==
    ASSUME NEW pokes, IsSeq(pokes), Pokes(pokes)
    PROVE  /\ IsDown(Framed(pokes)) /\ Len(Framed(pokes)) = Len(pokes)
           /\ \A i \in 1 .. Len(pokes) : Poke(Framed(pokes), i) /\ Framed(pokes)[i].poke = pokes[i]
<1> DEFINE s == Framed(pokes)
           n == Len(pokes)
<1>1. n \in Nat
  BY SeqParts
<1>2. DOMAIN s = 1 .. n /\ s = [i \in DOMAIN s |-> s[i]]
  BY DEF Framed
<1>3. \A i \in 1 .. n : s[i].kind = "poke" /\ s[i].poke = pokes[i]
  BY DEF Framed, PokeFrame
<1> HIDE DEF s, n
<1>4. IsSeq(s) /\ Len(s) = n
  BY <1>1, <1>2, MadeSeq
<1> QED BY <1>1, <1>3, <1>4 DEF IsDown, Poke, Pokes, s, n

\* The log's last pokes, the first of them the one after the cookie.
LEMMA LogAfter ==
    ASSUME NEW g, IsGroup(g), Logged(g), NEW cookie \in Nat, cookie < g.version,
           Reaches(g.log, cookie)
    PROVE  /\ IsSeq(PokesAfter(g.log, cookie)) /\ Len(PokesAfter(g.log, cookie)) = g.version - cookie
           /\ g.version - cookie \in Nat \ {0}
           /\ \A i \in 1 .. g.version - cookie :
                /\ IsPokeRecord(PokesAfter(g.log, cookie)[i])
                /\ PokesAfter(g.log, cookie)[i].cookie = cookie + i
                /\ PokesAfter(g.log, cookie)[i].base + 1 = cookie + i
                /\ \E j \in 1 .. Len(g.log) : PokesAfter(g.log, cookie)[i] = g.log[j]
<1> DEFINE log == g.log
           n == Len(g.log)
           v == g.version
           count == v - cookie
<1>1. IsSeq(log) /\ Pokes(log) /\ v \in Nat /\ n \in Nat /\ DOMAIN log = 1 .. n /\ n <= v
  BY SeqParts DEF IsGroup, Logged
<1>2. \A i \in 1 .. n : log[i].cookie = v - n + i /\ log[i].base + 1 = log[i].cookie
  BY DEF Logged
<1>3. n # 0 /\ log[1].cookie <= cookie + 1
  <2>1. IsSeq(log) /\ log # <<>>
    BY <1>1 DEF Reaches
  <2>2. n # 0
    BY <2>1, Shortened
  <2> QED BY <2>2 DEF Reaches
<1>4. count \in Nat \ {0} /\ count <= n /\ count = v - cookie
  <2>1. v - n + 1 <= cookie + 1
    BY <1>1, <1>2, <1>3
  <2> QED BY <1>1, <2>1
<1> HIDE DEF log, n, v, count
<1> DEFINE above == {i \in DOMAIN log : log[i].cookie > cookie}
<1>5. above = n - count + 1 .. n
  <2>1. ASSUME NEW i \in 1 .. n PROVE log[i].cookie > cookie <=> i >= n - count + 1
    <3>1. log[i].cookie = v - n + i
      BY <1>2
    <3> QED BY <1>1, <1>4, <3>1
  <2>2. \A i : i \in n - count + 1 .. n <=> i \in 1 .. n /\ i >= n - count + 1
    BY <1>1, <1>4
  <2>3. \A i : i \in above <=> i \in 1 .. n /\ log[i].cookie > cookie
    BY <1>1
  <2> HIDE DEF above
  <2> QED BY <2>1, <2>2, <2>3
<1>6. Cardinality(above) = count
  <2>1. n - count + 1 \in Int /\ n \in Int /\ ~(n - count + 1 > n) /\ n - (n - count + 1) + 1 = count
    BY <1>1, <1>4
  <2> HIDE DEF above
  <2>2. Cardinality(n - count + 1 .. n)
            = IF n - count + 1 > n THEN 0 ELSE n - (n - count + 1) + 1
    BY <2>1, FS_Interval
  <2> QED BY <1>5, <2>1, <2>2
\* the i-th of them is the i-th from where they begin
<1>7. ASSUME NEW i \in 1 .. count
      PROVE  (CHOOSE k \in above : Cardinality({j \in above : j <= k}) = i) = n - count + i
  <2>1. n - count \in Nat /\ n - count + i \in n - count + 1 .. n
    BY <1>1, <1>4
  <2>2. ASSUME NEW k \in n - count + 1 .. n
        PROVE  Cardinality({j \in n - count + 1 .. n : j <= k}) = k - (n - count)
    <3>1. {j \in n - count + 1 .. n : j <= k} = n - count + 1 .. k
      <4>1. \A j : j \in n - count + 1 .. n /\ j <= k <=> j \in n - count + 1 .. k
        BY <1>1, <2>1
      <4> QED BY <4>1
    <3>2. n - count + 1 \in Int /\ k \in Int /\ ~(n - count + 1 > k)
          /\ k - (n - count + 1) + 1 = k - (n - count)
      BY <2>1
    <3>3. Cardinality(n - count + 1 .. k) = IF n - count + 1 > k THEN 0 ELSE k - (n - count + 1) + 1
      BY <3>2, FS_Interval
    <3> QED BY <3>1, <3>2, <3>3
  <2>3. \A k \in n - count + 1 .. n : k - (n - count) = i <=> k = n - count + i
    BY <2>1
  <2>4. \A k \in above : Cardinality({j \in above : j <= k}) = i <=> k = n - count + i
    BY <1>5, <2>2, <2>3
  <2>5. n - count + i \in above
    BY <1>5, <2>1
  <2> HIDE DEF above
  <2> QED BY <2>4, <2>5
<1> DEFINE after == PokesAfter(log, cookie)
<1>8. IsSeq(after) /\ Len(after) = count /\ \A i \in 1 .. count : after[i] = log[n - count + i]
  <2>1. after = [i \in 1 .. count |->
                    log[CHOOSE k \in above : Cardinality({j \in above : j <= k}) = i]]
    BY <1>6 DEF PokesAfter
  <2> HIDE DEF after, above
  <2>2. DOMAIN after = 1 .. count /\ after = [i \in DOMAIN after |-> after[i]]
    BY <2>1
  <2>3. IsSeq(after) /\ Len(after) = count
    BY <1>4, <2>2, MadeSeq
  <2>4. \A i \in 1 .. count : after[i] = log[n - count + i]
    BY <1>7, <2>1
  <2> QED BY <2>3, <2>4
<1> HIDE DEF above
<1>9. ASSUME NEW i \in 1 .. count
      PROVE  /\ IsPokeRecord(log[n - count + i])
             /\ log[n - count + i].cookie = cookie + i
             /\ log[n - count + i].base + 1 = cookie + i
             /\ n - count + i \in 1 .. n
  <2>1. PICK m : m = n - count + i
    OBVIOUS
  <2>2. m \in 1 .. n /\ v - n + m = cookie + i
    BY <1>1, <1>4, <2>1
  <2>3. \A k \in 1 .. n : IsPokeRecord(log[k])
    BY DEF IsGroup, Pokes, log, n
  <2>4. IsPokeRecord(log[m]) /\ log[m].cookie \in Nat /\ log[m].base \in Nat
    BY <2>2, <2>3 DEF IsPokeRecord
  <2>5. log[m].cookie = cookie + i
    BY <1>2, <2>2
  <2>6. log[m].base + 1 = cookie + i
    BY <1>2, <2>2, <2>4
  <2> QED BY <2>1, <2>2, <2>4, <2>5, <2>6
<1>10. ASSUME NEW i \in 1 .. count
       PROVE  /\ IsPokeRecord(after[i])
              /\ after[i].cookie = cookie + i /\ after[i].base + 1 = cookie + i
              /\ \E j \in 1 .. n : after[i] = log[j]
  <2>1. PICK entry : entry = log[n - count + i]
    OBVIOUS
  <2>2. after[i] = entry
    BY <1>8, <2>1
  <2>3. IsPokeRecord(entry) /\ entry.cookie = cookie + i /\ entry.base + 1 = cookie + i
    BY <1>9, <2>1
  <2>4. \E j \in 1 .. n : entry = log[j]
    BY <1>9, <2>1
  <2> QED BY <2>2, <2>3, <2>4
<1>11. after = PokesAfter(g.log, cookie) /\ count = g.version - cookie /\ log = g.log /\ n = Len(g.log)
  BY DEF log, count, v, n
<1> HIDE DEF after
<1> QED BY <1>4, <1>8, <1>10, <1>11

LEMMA CaughtUp ==
    ASSUME NEW g, IsGroup(g), Logged(g), g.open, NEW cookie \in Nat, NEW waiting,
           Owed(g, cookie) # "reset"
    PROVE  /\ IsDown(Framed(CatchUp(g, cookie, waiting)))
           /\ Linked(cookie, Framed(CatchUp(g, cookie, waiting)), g.version)
           /\ \A i \in 1 .. Len(Framed(CatchUp(g, cookie, waiting))) :
                \A u \in Tabs : Told(Framed(CatchUp(g, cookie, waiting)), i, u) = g.lmids[u]
<1> DEFINE pokes == CatchUp(g, cookie, waiting)
           down == Framed(pokes)
<1>1. g.version \in Nat /\ g.lmids \in IdMap
  BY DEF IsGroup
<1>2. CASE cookie = g.version
  <2>1. pokes = <<>>
    BY <1>2 DEF CatchUp, Owed
  <2>2. IsSeq(pokes) /\ Len(pokes) = 0 /\ Pokes(pokes)
    BY <2>1, EmptyIsSeq DEF Pokes
  <2> HIDE DEF pokes
  <2>3. IsDown(down) /\ Len(down) = 0
    BY <2>2, FramedPokes
  <2> HIDE DEF down
  <2>4. Linked(cookie, down, g.version)
    BY <1>2, <2>3 DEF Linked
  <2> QED BY <2>3, <2>4 DEF down, pokes
<1>3. CASE cookie # g.version /\ cookie = 0
  <2> DEFINE p == StatePoke(g, waiting)
  <2>1. pokes = <<p>>
    BY <1>3 DEF CatchUp, Owed
  <2>2. p.base = 0 /\ p.cookie = g.version /\ p.ids = g.lmids /\ DOMAIN p = PokeFields
    BY DEF StatePoke, PokeFields
  <2>3. IsPokeRecord(p)
    BY <1>1, <1>3, <2>2 DEF IsPokeRecord
  <2> HIDE DEF p
  <2>4. IsSeq(pokes) /\ Len(pokes) = 1 /\ pokes[1] = p
    BY <2>1, OneIsSeq
  <2>5. Pokes(pokes)
    BY <2>3, <2>4 DEF Pokes
  <2> HIDE DEF pokes
  <2>6. IsDown(down) /\ Len(down) = 1 /\ Poke(down, 1) /\ down[1].poke = p
    BY <2>4, <2>5, FramedPokes
  <2> HIDE DEF down
  <2>7. \A i \in 1 .. 1 : i = 1
    OBVIOUS
  <2>8. ~Gap(down, 0, 2)
    BY <2>6 DEF Gap
  <2>9. Linked(cookie, down, g.version)
    BY <1>3, <2>2, <2>6, <2>7, <2>8 DEF Linked
  <2>10. \A i \in 1 .. Len(down) : \A u \in Tabs : Told(down, i, u) = g.lmids[u]
    BY <2>2, <2>6, <2>7 DEF Told
  <2> QED BY <2>6, <2>9, <2>10 DEF down, pokes
<1>4. CASE cookie # g.version /\ cookie # 0
  <2>1. Owed(g, cookie) = "pokes" /\ cookie < g.version /\ Reaches(g.log, cookie)
    BY <1>4 DEF Owed
  <2> DEFINE after == PokesAfter(g.log, cookie)
             n == g.version - cookie
  <2>2. /\ Len(after) = n /\ n \in Nat \ {0}
        /\ \A i \in 1 .. n : IsPokeRecord(after[i]) /\ after[i].cookie = cookie + i
                             /\ after[i].base + 1 = cookie + i
    BY <2>1, LogAfter
  <2>3. pokes = [i \in 1 .. Len(after) |-> WithCurrent(after[i], g, waiting)]
    BY <2>1 DEF CatchUp
  <2> HIDE DEF after, n, pokes
  <2>4. DOMAIN pokes = 1 .. n /\ pokes = [i \in DOMAIN pokes |-> pokes[i]]
    BY <2>2, <2>3
  <2>5. IsSeq(pokes) /\ Len(pokes) = n
    BY <2>2, <2>4, MadeSeq
  <2>6. ASSUME NEW i \in 1 .. n
        PROVE  /\ IsPokeRecord(pokes[i]) /\ pokes[i].ids = g.lmids
               /\ pokes[i].cookie = cookie + i /\ pokes[i].base + 1 = cookie + i
    <3>1. pokes[i] = WithCurrent(after[i], g, waiting)
      BY <2>2, <2>3
    <3>2. IsPokeRecord(after[i]) /\ after[i].cookie = cookie + i /\ after[i].base + 1 = cookie + i
      BY <2>2
    <3> QED BY <1>1, <3>1, <3>2 DEF WithCurrent, IsPokeRecord, PokeFields
  <2>7. /\ IsDown(down) /\ Len(down) = n
        /\ \A i \in 1 .. n : Poke(down, i) /\ down[i].poke = pokes[i]
    BY <2>5, <2>6, FramedPokes DEF Pokes
  <2> HIDE DEF down
  <2>8. Linked(cookie, down, cookie + n)
    <3>1. \A i \in 1 .. Len(down) :
            Poke(down, i) /\ down[i].poke.base + 1 = cookie + i /\ down[i].poke.cookie = cookie + i
      BY <2>6, <2>7
    <3>2. Len(down) # 0
      BY <2>2, <2>7
    <3>3. Linked(cookie, down, cookie + Len(down))
      BY <2>7, <3>1, <3>2, LinkReplayed
    <3> QED BY <2>7, <3>3
  <2>9. cookie + n = g.version
    BY <1>1, <2>1 DEF n
  <2>10. \A i \in 1 .. Len(down) : \A u \in Tabs : Told(down, i, u) = g.lmids[u]
    BY <2>6, <2>7 DEF Told
  <2> QED BY <2>7, <2>8, <2>9, <2>10 DEF down, pokes
<1> QED BY <1>2, <1>3, <1>4

LEMMA AllTheSame ==
    ASSUME NEW down, IsDown(down), NEW u \in Tabs, NEW top \in Nat,
           \A i \in 1 .. Len(down) : Told(down, i, u) = top, NEW floor, floor <= top
    PROVE  Rising(down, u, top) /\ Above(down, u, floor)
<1>1. \A i \in 1 .. Len(down) : \A j \in 1 .. i - 1 : j \in 1 .. Len(down)
  BY DownParts
<1>2. top <= top
  OBVIOUS
<1> QED BY <1>1, <1>2 DEF Rising, Above

-----------------------------------------------------------------------------
(* Connections come and go *)

\* A tab and its connection that a step leaves alone.
Apart(t) ==
    tabs'[t] = tabs[t] /\ (tabs[t].wire # 0 => wires'[tabs[t].wire] = wires[tabs[t].wire])
Viewed(g, h) ==
    /\ IsGroup(h) /\ h.open = g.open /\ h.line = g.line /\ h.version = g.version /\ h.log = g.log
    /\ \A u \in Tabs : g.lmids[u] <= h.lmids[u]

LEMMA ApartKeeps ==
    ASSUME GroupInv, NEW t \in Tabs, Apart(t), Viewed(group, group'),
           tabs[t].wire \in group.sockets => tabs[t].wire \in group'.sockets
    PROVE  Wired(t)' /\ Lines(t)' /\ Counted(t)'
<1>1. Wired(t) /\ Lines(t) /\ Counted(t)
  BY DEF GroupInv, Order
<1>2. Wired(t)'
  BY <1>1 DEF Apart, Viewed, Wired
<1>3. Lines(t)'
  BY <1>1 DEF Apart, Viewed, Lines
<1>4. ASSUME NEW u \in Tabs
      PROVE  /\ group.lmids[u] \in Nat /\ group'.lmids[u] \in Nat
             /\ group.lmids[u] <= group'.lmids[u] /\ tabs[t].ids[u] \in Nat
  BY DEF Viewed, GroupInv, Shape, Ends, IsGroup, IsTab, IdMap
<1>5. OurTab(t)' <=> OurTab(t)
  BY DEF OurTab, Apart, Viewed
<1>6. ASSUME NEW u \in Tabs, OurTab(t) PROVE tabs'[t].ids[u] <= group'.lmids[u]
  <2>1. \A a, b, c \in Nat : a <= b /\ b <= c => a <= c
    OBVIOUS
  <2> QED BY <1>1, <1>4, <1>6, <2>1 DEF Counted, Apart
<1>7. ASSUME NEW u \in Tabs, tabs[t].wire # 0, wires[tabs[t].wire].stage = "joined"
      PROVE  /\ Rising(wires'[tabs[t].wire].down, u, group'.lmids[u])
             /\ OurTab(t) => Above(wires'[tabs[t].wire].down, u, tabs[t].ids[u])
  <2>1. IsDown(wires[tabs[t].wire].down)
    BY <1>7, AtTheEnd DEF IsWire
  <2> QED BY <1>1, <1>4, <1>7, <2>1, Higher DEF Counted, Apart
<1>8. Counted(t)'
  BY <1>5, <1>6, <1>7 DEF Counted, Apart
<1> QED BY <1>2, <1>3, <1>8

LEMMA IdleWired ==
    ASSUME GroupInv, group.sockets = {}, NEW t \in Tabs, Apart(t)
    PROVE  Wired(t)' /\ (tabs'[t].wire # 0 => wires'[tabs'[t].wire].stage # "joined")
<1>1. Wired(t)
  BY DEF GroupInv, Order
<1> QED BY <1>1 DEF Apart, Wired

LEMMA StaysViewed == \A g : IsGroup(g) => Viewed(g, g)
<1>1. \A g : IsGroup(g) => \A u \in Tabs : g.lmids[u] <= g.lmids[u]
  BY DEF IsGroup, IdMap
<1> QED BY <1>1 DEF Viewed

LEMMA OneWire ==
    ASSUME GroupInv, NEW w \in Wires, NEW x, IsWire(x), wires' = [wires EXCEPT ![w] = x]
    PROVE  /\ DOMAIN wires' = Wires /\ wires'[w] = x
           /\ \A v \in Wires : IsWire(wires'[v]) /\ (v # w => wires'[v] = wires[v])
BY DEF GroupInv, Shape, Ends

LEMMA NewWire == IsWire(NoWire)
BY NothingUnderWay DEF NoWire, NoIds, IsWire, WireFields, IdMap

LEMMA NewTabs == IsTab(NewTab) /\ IsTab([NewTab EXCEPT !.left = TRUE])
BY DEF NewTab, NoIds, IsTab, TabFields, IdMap

LEMMA NewGroups ==
    ASSUME NEW line \in Nat
    PROVE  /\ IsGroup(NewGroup(line)) /\ IsGroup(NoGroup(line))
           /\ Logged(NewGroup(line)) /\ Logged(NoGroup(line))
<1>1. /\ DOMAIN NewGroup(line) = GroupFields /\ NewGroup(line).open = TRUE
      /\ NewGroup(line).line = line /\ NewGroup(line).version = 0
      /\ NewGroup(line).lmids \in IdMap /\ NewGroup(line).log = <<>>
  BY DEF NewGroup, GroupFields, IdMap
<1>2. /\ DOMAIN NoGroup(line) = GroupFields /\ NoGroup(line).open = FALSE
      /\ NoGroup(line).line = line /\ NoGroup(line).version = 0
      /\ NoGroup(line).lmids \in IdMap /\ NoGroup(line).log = <<>>
  BY <1>1 DEF NoGroup, GroupFields
<1>3. ASSUME NEW g, DOMAIN g = GroupFields, g.open \in BOOLEAN, g.line \in Nat, g.version = 0,
             g.lmids \in IdMap, g.log = <<>>
      PROVE  IsGroup(g) /\ Logged(g)
  <2>1. IsSeq(g.log) /\ Len(g.log) = 0
    BY <1>3, EmptyIsSeq
  <2> QED BY <1>3, <2>1 DEF IsGroup, Pokes, Logged
<1> QED BY <1>1, <1>2, <1>3

LEMMA RefusalKeeps ==
    ASSUME GroupInv, NEW w \in Wires, wires[w].stage = "asking", Refusal(w), UNCHANGED tabs
    PROVE  Ends' /\ Order'
<1>1. group' = group /\ IsGroup(group) /\ Viewed(group, group')
  BY StaysViewed DEF Refusal, GroupInv, Shape, Ends
<1> DEFINE x == [NoWire EXCEPT !.stage = "gone", !.tab = wires[w].tab, !.down = Sent(w, <<Reset>>)]
<1>2. Reset.kind # "poke"
  BY DEF Reset
<1>3. IsDown(Sent(w, <<Reset>>))
  BY <1>2, SentDown
<1>4. IsWire(x) /\ x.stage = "gone" /\ x.tab = wires[w].tab /\ x.down = Sent(w, <<Reset>>)
  BY <1>3, NewWire DEF IsWire, WireFields
<1>5. wires' = [wires EXCEPT ![w] = x]
  BY DEF Refusal
<1> HIDE DEF x
<1>6. /\ DOMAIN wires' = Wires /\ wires'[w] = x
      /\ \A v \in Wires : IsWire(wires'[v]) /\ (v # w => wires'[v] = wires[v])
  BY <1>4, <1>5, OneWire
<1>7. Ends'
  BY <1>1, <1>6 DEF Ends, GroupInv, Shape
<1>8. Sockets'
  BY <1>1, <1>6 DEF Sockets, GroupInv, Order
<1>9. ASSUME NEW t \in Tabs PROVE Wired(t)' /\ Lines(t)' /\ Counted(t)'
  <2>1. CASE tabs[t].wire # w
    <3>1. Apart(t)
      BY <1>6, <2>1, AtTheEnd DEF Apart
    <3> QED BY <1>1, <3>1, ApartKeeps
  <2>2. CASE tabs[t].wire = w
    <3>1. w # 0 /\ Listening(w) /\ wires[w].tab = t
      BY <2>2, Numbered, AtTheEnd
    <3>2. wires[w].down = <<>> /\ Lines(t) /\ Counted(t)
      BY <2>2, <3>1 DEF GroupInv, Order, Wired
    <3>3. x.down = <<Reset>>
      BY <1>4, <3>1, <3>2, OneIsSeq, AfterNothing DEF Sent
    <3>4. \A i \in 1 .. Len(x.down) : ~Poke(x.down, i)
      <4>1. Len(x.down) = 1 /\ x.down[1] = Reset
        BY <3>3, OneIsSeq
      <4>2. \A i \in 1 .. 1 : i = 1
        OBVIOUS
      <4> QED BY <1>2, <4>1, <4>2 DEF Poke
    <3>5. Wired(t)'
      BY <1>4, <1>6, <2>2, <3>1, <3>4 DEF Wired
    <3>6. Lines(t)'
      BY <1>1, <3>2 DEF Lines
    <3>7. Counted(t)'
      BY <1>1, <1>4, <1>6, <2>2, <3>2 DEF Counted, OurTab
    <3> QED BY <3>5, <3>6, <3>7
  <2> QED BY <2>1, <2>2
<1> QED BY <1>1, <1>7, <1>8, <1>9 DEF Order, GroupInv

LEMMA MergedRisen ==
    ASSUME NEW g, IsGroup(g), NEW ids \in IdMap, NEW waiting
    PROVE  Risen(g, Merged(g, ids, waiting))
<1> DEFINE h == Merged(g, ids, waiting)
           lmids == NeverLower(g.lmids, ids)
<1>1. DOMAIN h = GroupFields /\ SameFace(g, h) /\ h.lmids = lmids
  BY DEF Merged, IsGroup, GroupFields, SameFace
<1>2. lmids \in IdMap /\ \A u \in Tabs : g.lmids[u] <= lmids[u]
  BY DEF NeverLower, IsGroup, IdMap
<1> HIDE DEF h, lmids
<1>3. IsGroup(h)
  BY <1>1, <1>2 DEF IsGroup, SameFace
<1>4. Risen(g, h)
  BY <1>1, <1>2, <1>3 DEF Risen
<1> QED BY <1>4 DEF h

LEMMA JoinKeeps ==
    ASSUME GroupInv, NEW w \in Wires, wires[w].stage = "asking",
           Owed(group, wires[w].cookie) # "reset", Join(w), UNCHANGED tabs
    PROVE  Ends' /\ Order'
<1> DEFINE base == IF group.open THEN group ELSE NewGroup(group.line)
           merged == Merged(base, wires[w].ids, wires[w].waiting)
           cookie == wires[w].cookie
           frames == Framed(CatchUp(merged, cookie, wires[w].waiting))
<1>1. /\ IsGroup(group) /\ Logged(group) /\ Sockets /\ IsWire(wires[w])
      /\ wires[w].ids \in IdMap /\ cookie \in Nat
  BY DEF GroupInv, Shape, Ends, Order, IsWire
<1>2. /\ IsGroup(base) /\ Logged(base) /\ base.open = TRUE /\ base.line = group.line
      /\ group.open => base = group
      /\ ~group.open => base.version = 0 /\ base.sockets = {} /\ cookie = 0
  <2>1. group.line \in Nat /\ group.open \in BOOLEAN
    BY <1>1 DEF IsGroup
  <2>2. ~group.open => cookie = 0
    BY DEF Owed
  <2>3. /\ NewGroup(group.line).open = TRUE /\ NewGroup(group.line).line = group.line
        /\ NewGroup(group.line).version = 0 /\ NewGroup(group.line).sockets = {}
    BY DEF NewGroup
  <2> QED BY <1>1, <2>1, <2>2, <2>3, NewGroups
<1>3. group' = [merged EXCEPT !.sockets = @ \cup {w}]
  BY DEF Join
<1> DEFINE x == [wires[w] EXCEPT !.stage = "joined", !.cookie = 0, !.ids = NoIds, !.waiting = {},
                                 !.line = group.line, !.down = Sent(w, frames)]
<1>4. wires' = [wires EXCEPT ![w] = x]
  BY DEF Join
<1> HIDE DEF base
<1>5. Risen(base, merged)
  BY <1>1, <1>2, MergedRisen
<1>6. Owed(merged, cookie) # "reset"
  <2>1. merged.open = base.open /\ merged.version = base.version /\ merged.log = base.log
    BY <1>5 DEF Risen, SameFace
  <2>2. CASE group.open
    BY <1>2, <2>1, <2>2 DEF Owed
  <2>3. CASE ~group.open
    BY <1>2, <2>1, <2>3 DEF Owed
  <2> QED BY <2>2, <2>3
<1> HIDE DEF merged
<1>7. /\ IsGroup(merged) /\ Logged(merged) /\ merged.open = TRUE /\ merged.line = group.line
      /\ merged.version = base.version /\ merged.sockets = base.sockets
      /\ merged.lmids \in IdMap /\ \A u \in Tabs : base.lmids[u] <= merged.lmids[u]
  BY <1>2, <1>5 DEF Risen, SameFace, IsGroup, Logged
<1>8. /\ IsDown(frames) /\ Linked(cookie, frames, merged.version)
      /\ \A i \in 1 .. Len(frames) : \A u \in Tabs : Told(frames, i, u) = merged.lmids[u]
  BY <1>1, <1>6, <1>7, CaughtUp
<1> HIDE DEF frames
<1>9. /\ IsGroup(group') /\ Logged(group') /\ group'.open = TRUE /\ group'.line = group.line
      /\ group'.version = merged.version /\ group'.sockets = base.sockets \cup {w}
      /\ group'.lmids = merged.lmids /\ group'.log = base.log
  <2>1. /\ DOMAIN group' = GroupFields /\ group'.open = merged.open /\ group'.line = merged.line
        /\ group'.version = merged.version /\ group'.sockets = merged.sockets \cup {w}
        /\ group'.lmids = merged.lmids /\ group'.log = merged.log
    BY <1>3, <1>7 DEF IsGroup, GroupFields
  <2>2. merged.log = base.log
    BY <1>5 DEF Risen, SameFace
  <2> QED BY <1>7, <2>1, <2>2 DEF IsGroup, Logged
<1>10. \A t \in Tabs : tabs[t].wire = w => Listening(w) /\ wires[w].tab = t /\ wires[w].down = <<>>
                                           /\ cookie = tabs[t].cookie
  <2> SUFFICES ASSUME NEW t \in Tabs, tabs[t].wire = w
               PROVE  Listening(w) /\ wires[w].tab = t /\ wires[w].down = <<>> /\ cookie = tabs[t].cookie
    OBVIOUS
  <2>1. w # 0 /\ Listening(w) /\ wires[w].tab = t
    BY Numbered, AtTheEnd
  <2>2. wires[w].down = <<>> /\ cookie = tabs[t].cookie
    BY <2>1 DEF GroupInv, Order, Wired
  <2> QED BY <2>1, <2>2
<1>11. IsDown(Sent(w, frames)) /\ (Listening(w) => Sent(w, frames) = frames)
  <2>1. CASE Listening(w)
    <3>1. wires[w].down = <<>>
      BY <1>10, <2>1 DEF Listening
    <3> QED BY <1>8, <2>1, <3>1, AfterNothing DEF Sent, IsDown
  <2>2. CASE ~Listening(w)
    BY <2>2, NothingUnderWay DEF Sent
  <2> QED BY <2>1, <2>2
<1>12. /\ IsWire(x) /\ x.stage = "joined" /\ x.line = group.line /\ x.tab = wires[w].tab
       /\ x.down = Sent(w, frames)
  <2>1. NoIds \in IdMap /\ group.line \in Nat
    BY <1>1 DEF NoIds, IdMap, IsGroup
  <2> QED BY <1>1, <1>11, <2>1 DEF IsWire, WireFields
<1> HIDE DEF x, cookie
<1>13. /\ DOMAIN wires' = Wires /\ wires'[w] = x
       /\ \A v \in Wires : IsWire(wires'[v]) /\ (v # w => wires'[v] = wires[v])
  BY <1>4, <1>12, OneWire
<1>14. Ends'
  BY <1>9, <1>13 DEF Ends, GroupInv, Shape
<1>15. Sockets'
  BY <1>1, <1>2, <1>9, <1>12, <1>13 DEF Sockets
<1>16. ASSUME NEW t \in Tabs PROVE Lines(t)'
  BY <1>9 DEF Lines, GroupInv, Order
\* a tab of a group that is open now was one of it before
<1>17. ASSUME NEW t \in Tabs, OurTab(t)' PROVE group.open /\ OurTab(t)
  <2>1. tabs[t].line \in Nat /\ group.line \in Nat
    BY <1>1 DEF GroupInv, Shape, Ends, IsTab, IsGroup
  <2>2. tabs[t].cookie # 0 /\ tabs[t].line = group.line
    BY <1>9, <1>17 DEF OurTab
  <2>3. group.open
    BY <2>1, <2>2 DEF Lines, GroupInv, Order
  <2> QED BY <2>2, <2>3 DEF OurTab
<1>18. ASSUME NEW t \in Tabs, NEW u \in Tabs, OurTab(t)'
       PROVE  tabs[t].ids[u] <= merged.lmids[u]
  <2>1. base = group /\ OurTab(t)
    BY <1>2, <1>17, <1>18
  <2>2. tabs[t].ids[u] <= group.lmids[u]
    BY <2>1 DEF Counted, GroupInv, Order
  <2>3. tabs[t].ids[u] \in Nat /\ group.lmids[u] \in Nat /\ merged.lmids[u] \in Nat
    BY <1>1, <1>7 DEF GroupInv, Shape, Ends, IsTab, IsGroup, IdMap
  <2>4. \A a, b, c \in Nat : a <= b /\ b <= c => a <= c
    OBVIOUS
  <2> QED BY <1>7, <2>1, <2>2, <2>3, <2>4
<1>19. ASSUME NEW t \in Tabs, tabs[t].wire # w PROVE Wired(t)' /\ Counted(t)'
  <2>1. Apart(t)
    BY <1>13, <1>19, AtTheEnd DEF Apart
  <2>2. CASE group.open
    <3>1. Viewed(group, group') /\ group.sockets \subseteq group'.sockets
      BY <1>2, <1>7, <1>9, <2>2 DEF Viewed
    <3> QED BY <2>1, <3>1, ApartKeeps
  <2>3. CASE ~group.open
    <3>1. Wired(t)' /\ (tabs'[t].wire # 0 => wires'[tabs'[t].wire].stage # "joined")
      BY <1>1, <2>1, <2>3, IdleWired DEF Sockets
    <3> QED BY <1>17, <2>3, <3>1 DEF Counted
  <2> QED BY <2>2, <2>3
<1>20. ASSUME NEW t \in Tabs, tabs[t].wire = w PROVE Wired(t)' /\ Counted(t)'
  <2>1. /\ w # 0 /\ wires[w].tab = t /\ x.down = frames /\ cookie = tabs[t].cookie
    BY <1>10, <1>11, <1>12, <1>20, Numbered
  <2>2. Wired(t)'
    BY <1>8, <1>9, <1>12, <1>13, <1>20, <2>1 DEF Wired
  <2>3. ASSUME NEW u \in Tabs
        PROVE  /\ Rising(frames, u, merged.lmids[u])
               /\ OurTab(t)' => Above(frames, u, tabs[t].ids[u])
    <3>1. merged.lmids[u] \in Nat /\ 0 <= merged.lmids[u]
      BY <1>7 DEF IdMap
    <3>2. \A i \in 1 .. Len(frames) : Told(frames, i, u) = merged.lmids[u]
      BY <1>8
    <3> QED BY <1>8, <1>18, <3>1, <3>2, AllTheSame
  <2>4. Counted(t)'
    BY <1>9, <1>13, <1>18, <1>20, <2>1, <2>3 DEF Counted
  <2> QED BY <2>2, <2>4
<1> QED BY <1>9, <1>14, <1>15, <1>16, <1>19, <1>20 DEF Order

LEMMA DisconnectKeeps ==
    ASSUME GroupInv, NEW w \in Wires, Disconnect(w) PROVE Ends' /\ Order'
<1>1. /\ IsGroup(group) /\ Sockets /\ Logged(group)
      /\ wires[w].stage = "joined" /\ ~Listening(w) /\ UNCHANGED tabs
  BY DEF GroupInv, Shape, Ends, Order, Disconnect
<1>2. Viewed(group, group') /\ group'.sockets = group.sockets \ {w}
  <2>1. group' = [group EXCEPT !.sockets = @ \ {w}]
    BY DEF Disconnect
  <2>2. /\ DOMAIN group' = GroupFields /\ group'.open = group.open /\ group'.line = group.line
        /\ group'.version = group.version /\ group'.sockets = group.sockets \ {w}
        /\ group'.lmids = group.lmids /\ group'.log = group.log
    BY <1>1, <2>1 DEF IsGroup, GroupFields
  <2>3. Viewed(group, group)
    BY <1>1, StaysViewed
  <2> QED BY <2>2, <2>3 DEF Viewed, IsGroup
<1> DEFINE x == [NoWire EXCEPT !.stage = "gone", !.tab = wires[w].tab]
<1>3. IsWire(x) /\ x.stage = "gone" /\ wires' = [wires EXCEPT ![w] = x]
  BY NewWire DEF IsWire, WireFields, Disconnect
<1> HIDE DEF x
<1>4. /\ DOMAIN wires' = Wires /\ wires'[w] = x
      /\ \A v \in Wires : IsWire(wires'[v]) /\ (v # w => wires'[v] = wires[v])
  BY <1>3, OneWire
<1>5. Ends'
  BY <1>1, <1>2, <1>4 DEF Ends, GroupInv, Shape, Viewed
<1>6. Sockets' /\ Logged(group')
  BY <1>1, <1>2, <1>4 DEF Sockets, Logged, Viewed
<1>7. ASSUME NEW t \in Tabs PROVE Wired(t)' /\ Lines(t)' /\ Counted(t)'
  <2>1. tabs[t].wire # w
    BY <1>1, Numbered, AtTheEnd
  <2>2. Apart(t)
    BY <1>1, <1>4, <2>1, AtTheEnd DEF Apart
  <2> QED BY <1>2, <2>1, <2>2, ApartKeeps
<1> QED BY <1>5, <1>6, <1>7 DEF Order

LEMMA ExpireKeeps == ASSUME GroupInv, Expire PROVE Ends' /\ Order'
<1>1. group.sockets = {} /\ group' = NoGroup(group.line + 1) /\ UNCHANGED <<wires, tabs>>
  BY DEF Expire
<1>2. group.line \in Nat /\ \A t \in Tabs : tabs[t].line \in Nat /\ tabs[t].line <= group.line
  BY DEF GroupInv, Shape, Ends, IsGroup, IsTab, Order, Lines
<1>3. IsGroup(group') /\ Logged(group')
  BY <1>1, <1>2, NewGroups
<1>4. ~group'.open /\ group'.line = group.line + 1 /\ group'.sockets = {}
  BY <1>1 DEF NoGroup, NewGroup
<1>5. Ends'
  BY <1>1, <1>3 DEF Ends, GroupInv, Shape
<1>6. Sockets'
  BY <1>4 DEF Sockets
<1>7. ASSUME NEW t \in Tabs PROVE Wired(t)' /\ Lines(t)' /\ Counted(t)'
  <2>1. Wired(t)' /\ (tabs'[t].wire # 0 => wires'[tabs'[t].wire].stage # "joined")
    BY <1>1, IdleWired DEF Apart
  <2>2. Lines(t)'
    <3>1. tabs[t].line <= group.line + 1 /\ tabs[t].line < group.line + 1
      BY <1>2
    <3> QED BY <1>1, <1>4, <3>1 DEF Lines, GroupInv, Order
  <2>3. Counted(t)'
    BY <1>4, <2>1 DEF Counted, OurTab
  <2> QED BY <2>1, <2>2, <2>3
<1> QED BY <1>3, <1>5, <1>6, <1>7 DEF Order

LEMMA OneTab ==
    ASSUME GroupInv, NEW t \in Tabs, NEW x, IsTab(x), tabs' = [tabs EXCEPT ![t] = x]
    PROVE  /\ DOMAIN tabs' = Tabs /\ tabs'[t] = x
           /\ \A v \in Tabs : IsTab(tabs'[v]) /\ (v # t => tabs'[v] = tabs[v])
BY DEF GroupInv, Shape, Ends

LEMMA OpenKeeps ==
    ASSUME GroupInv, NEW w \in Wires, NEW t \in Tabs, Open(w, t) PROVE Ends' /\ Order'
<1>1. /\ wires[w].stage = "unused" /\ tabs[t].wire = 0 /\ UNCHANGED group
      /\ IsGroup(group) /\ IsTab(tabs[t]) /\ Viewed(group, group')
  BY StaysViewed DEF Open, thread, GroupInv, Shape, Ends
<1>2. PICK a, b : /\ wires' = [wires EXCEPT ![w] = [NoWire EXCEPT !.stage = "reading", !.tab = t,
                                   !.cookie = tabs[t].cookie, !.asks = b]]
                  /\ tabs' = [tabs EXCEPT ![t].wire = w, ![t].told = a]
  BY Zenon DEF Open
<1> DEFINE x == [NoWire EXCEPT !.stage = "reading", !.tab = t, !.cookie = tabs[t].cookie, !.asks = b]
           y == [tabs[t] EXCEPT !.wire = w, !.told = a]
<1>3. /\ IsWire(x) /\ x.stage = "reading" /\ x.tab = t /\ x.cookie = tabs[t].cookie
      /\ x.down = <<>>
  BY <1>1, NewWire DEF IsWire, IsTab, WireFields, NoWire
<1>4. /\ IsTab(y) /\ y.wire = w /\ y.cookie = tabs[t].cookie /\ y.line = tabs[t].line
      /\ y.ids = tabs[t].ids
  BY <1>1 DEF IsTab, TabFields
<1>5. wires' = [wires EXCEPT ![w] = x] /\ tabs' = [tabs EXCEPT ![t] = y]
  BY <1>2 DEF GroupInv, Shape, Ends
<1> HIDE DEF x, y
<1>6. /\ DOMAIN wires' = Wires /\ wires'[w] = x
      /\ \A v \in Wires : IsWire(wires'[v]) /\ (v # w => wires'[v] = wires[v])
  BY <1>3, <1>5, OneWire
<1>7. /\ DOMAIN tabs' = Tabs /\ tabs'[t] = y
      /\ \A v \in Tabs : IsTab(tabs'[v]) /\ (v # t => tabs'[v] = tabs[v])
  BY <1>4, <1>5, OneTab
<1>8. Ends'
  BY <1>1, <1>6, <1>7 DEF Ends
<1>9. Sockets'
  BY <1>1, <1>6 DEF Sockets, GroupInv, Order
<1>10. ASSUME NEW v \in Tabs PROVE Wired(v)' /\ Lines(v)' /\ Counted(v)'
  <2>1. CASE v # t
    <3>1. tabs[v].wire # 0 => tabs[v].wire # w /\ tabs[v].wire \in Wires
      BY <1>1 DEF GroupInv, Order, Wired
    <3>2. Apart(v)
      BY <1>6, <1>7, <2>1, <3>1 DEF Apart
    <3> QED BY <1>1, <3>2, ApartKeeps
  <2>2. CASE v = t
    <3>1. Wired(t)'
      BY <1>3, <1>4, <1>6, <1>7 DEF Wired
    <3>2. Lines(t)'
      BY <1>1, <1>4, <1>7 DEF Lines, GroupInv, Order
    <3>3. Counted(t)'
      BY <1>1, <1>3, <1>4, <1>6, <1>7 DEF Counted, OurTab, GroupInv, Order
    <3> QED BY <2>2, <3>1, <3>2, <3>3
  <2> QED BY <2>1, <2>2
<1> QED BY <1>1, <1>8, <1>9, <1>10 DEF Order, GroupInv

LEMMA DropKeeps == ASSUME GroupInv, NEW t \in Tabs, Drop(t) PROVE Ends' /\ Order'
<1>1. /\ tabs[t].wire # 0 /\ UNCHANGED group
      /\ IsGroup(group) /\ IsTab(tabs[t]) /\ Viewed(group, group')
  BY StaysViewed DEF Drop, thread, GroupInv, Shape, Ends
<1> DEFINE w == tabs[t].wire
           x == [wires[w] EXCEPT !.down = <<>>]
           y == [tabs[t] EXCEPT !.wire = 0]
<1>2. w \in Wires /\ IsWire(wires[w]) /\ \A v \in Tabs : tabs[v].wire = w => v = t
  BY <1>1, AtTheEnd
<1>3. /\ wires' = [wires EXCEPT ![w] = x] /\ tabs' = [tabs EXCEPT ![t] = y]
  BY <1>2 DEF Drop, GroupInv, Shape, Ends
<1>4. IsWire(x) /\ x.stage = wires[w].stage
  BY <1>2, NothingUnderWay DEF IsWire, WireFields
<1>5. /\ IsTab(y) /\ y.wire = 0 /\ y.cookie = tabs[t].cookie /\ y.line = tabs[t].line
      /\ y.ids = tabs[t].ids
  BY <1>1 DEF IsTab, TabFields
<1> HIDE DEF w, x, y
<1>6. /\ DOMAIN wires' = Wires /\ wires'[w] = x
      /\ \A v \in Wires : IsWire(wires'[v]) /\ (v # w => wires'[v] = wires[v])
  BY <1>2, <1>3, <1>4, OneWire
<1>7. /\ DOMAIN tabs' = Tabs /\ tabs'[t] = y
      /\ \A v \in Tabs : IsTab(tabs'[v]) /\ (v # t => tabs'[v] = tabs[v])
  BY <1>3, <1>5, OneTab
<1>8. Ends'
  BY <1>1, <1>6, <1>7 DEF Ends
<1>9. Sockets'
  BY <1>1, <1>4, <1>6 DEF Sockets, GroupInv, Order
<1>10. ASSUME NEW v \in Tabs PROVE Wired(v)' /\ Lines(v)' /\ Counted(v)'
  <2>1. CASE v # t
    <3>1. tabs[v].wire # 0 => tabs[v].wire # w /\ tabs[v].wire \in Wires
      BY <1>2, <2>1, AtTheEnd
    <3>2. Apart(v)
      BY <1>6, <1>7, <2>1, <3>1 DEF Apart
    <3> QED BY <1>1, <3>2, ApartKeeps
  <2>2. CASE v = t
    <3>1. Wired(t)'
      BY <1>5, <1>7 DEF Wired
    <3>2. Lines(t)'
      BY <1>1, <1>5, <1>7 DEF Lines, GroupInv, Order
    <3>3. Counted(t)'
      BY <1>1, <1>5, <1>7 DEF Counted, OurTab, GroupInv, Order
    <3> QED BY <2>2, <3>1, <3>2, <3>3
  <2> QED BY <2>1, <2>2
<1> QED BY <1>1, <1>8, <1>9, <1>10 DEF Order, GroupInv

-----------------------------------------------------------------------------
(* A frame is heard *)

LEMMA OneEnd ==
    ASSUME GroupInv, NEW t \in Tabs, NEW w \in Wires, tabs[t].wire = w, UNCHANGED group,
           NEW x, IsWire(x), x.stage = wires[w].stage, wires' = [wires EXCEPT ![w] = x],
           NEW y, IsTab(y), tabs' = [tabs EXCEPT ![t] = y],
           Wired(t)', Lines(t)', Counted(t)'
    PROVE  Ends' /\ Order'
<1>1. IsGroup(group) /\ Viewed(group, group') /\ w # 0
  BY StaysViewed, Numbered DEF GroupInv, Shape, Ends
<1>2. /\ DOMAIN wires' = Wires /\ wires'[w] = x
      /\ \A v \in Wires : IsWire(wires'[v]) /\ (v # w => wires'[v] = wires[v])
  BY OneWire
<1>3. /\ DOMAIN tabs' = Tabs /\ tabs'[t] = y
      /\ \A v \in Tabs : IsTab(tabs'[v]) /\ (v # t => tabs'[v] = tabs[v])
  BY OneTab
<1>4. Ends'
  BY <1>1, <1>2, <1>3 DEF Ends
<1>5. Sockets' /\ Logged(group')
  BY <1>2 DEF Sockets, Logged, GroupInv, Order
<1>6. ASSUME NEW v \in Tabs, v # t PROVE Wired(v)' /\ Lines(v)' /\ Counted(v)'
  <2>1. tabs[v].wire # 0 => tabs[v].wire # w /\ tabs[v].wire \in Wires
    BY <1>1, <1>6, AtTheEnd
  <2>2. Apart(v)
    BY <1>2, <1>3, <1>6, <2>1 DEF Apart
  <2> QED BY <1>1, <2>2, ApartKeeps
<1> QED BY <1>4, <1>5, <1>6 DEF Order

\* What a tab hears: the next frame of a connection that is joined or gone.
LEMMA NextFrame ==
    ASSUME GroupInv, NEW t \in Tabs, Hear(t)
    PROVE  LET w == tabs[t].wire
               x == [wires[w] EXCEPT !.down = Tail(@)]
           IN  /\ w \in Wires /\ w # 0 /\ wires[w].tab = t /\ wires[w].down # <<>>
               /\ IsDown(wires[w].down) /\ IsTab(tabs[t]) /\ IsGroup(group)
               /\ wires[w].stage \in {"joined", "gone"} /\ UNCHANGED group
               /\ IsWire(x) /\ x.tab = t /\ x.stage = wires[w].stage /\ x.line = wires[w].line
               /\ x.cookie = wires[w].cookie /\ x.down = Tail(wires[w].down)
               /\ wires' = [wires EXCEPT ![w] = x] /\ wires'[w] = x
<1> DEFINE w == tabs[t].wire
           x == [wires[w] EXCEPT !.down = Tail(@)]
<1>1. w # 0 /\ wires[w].down # <<>> /\ UNCHANGED group /\ wires' = [wires EXCEPT ![w] = x]
  BY DEF Hear, thread
<1>2. w \in Wires /\ wires[w].tab = t /\ IsWire(wires[w])
  BY <1>1, AtTheEnd
<1>3. IsTab(tabs[t]) /\ IsGroup(group) /\ DOMAIN wires = Wires
  BY DEF GroupInv, Shape, Ends
<1>4. wires[w].stage \in {"joined", "gone"}
  BY <1>1 DEF GroupInv, Order, Wired
<1>5. IsDown(wires[w].down) /\ IsDown(Tail(wires[w].down))
  BY <1>1, <1>2, FrameTaken DEF IsWire
<1>6. /\ IsWire(x) /\ x.tab = t /\ x.stage = wires[w].stage /\ x.line = wires[w].line
      /\ x.cookie = wires[w].cookie /\ x.down = Tail(wires[w].down)
  BY <1>2, <1>5 DEF IsWire, WireFields
<1>7. wires'[w] = x
  BY <1>1, <1>2, <1>3
<1> QED BY <1>1, <1>2, <1>3, <1>4, <1>5, <1>6, <1>7

\* The store after a poke.
LEMMA AppliedTab ==
    ASSUME NEW tab, IsTab(tab), NEW t, NEW poke, IsPokeRecord(poke), NEW line \in Nat,
           NEW y, y = Applied(tab, t, poke, line)
    PROVE  /\ IsTab(y) /\ y.cookie = poke.cookie /\ y.wire = tab.wire
           /\ y.line = IF poke.base = 0 THEN line ELSE tab.line
           /\ \A u \in Tabs : y.ids[u] = IF poke.ids[u] = 0 THEN tab.ids[u] ELSE poke.ids[u]
<1> DEFINE ids == [u \in Tabs |-> IF poke.ids[u] = 0 THEN tab.ids[u] ELSE poke.ids[u]]
<1>1. /\ DOMAIN y = TabFields /\ y.cookie = poke.cookie /\ y.wire = tab.wire /\ y.ids = ids
      /\ y.line = IF poke.base = 0 THEN line ELSE tab.line
  BY DEF Applied, IsTab, TabFields
<1>2. ids \in IdMap
  BY DEF IdMap, IsTab, IsPokeRecord
<1>3. IsTab(y)
  BY <1>1, <1>2 DEF IsTab, IsPokeRecord
<1> QED BY <1>1, <1>3

LEMMA PokeHeard ==
    ASSUME GroupInv, NEW t \in Tabs, Hear(t), Head(wires[tabs[t].wire].down).kind = "poke",
           tabs' = [tabs EXCEPT ![t] = Applied(@, t, Head(wires[tabs[t].wire].down).poke,
                                               wires[tabs[t].wire].line)]
    PROVE  Ends' /\ Order'
<1> DEFINE w == tabs[t].wire
           down == wires[w].down
           poke == Head(down).poke
           x == [wires[w] EXCEPT !.down = Tail(@)]
           y == Applied(tabs[t], t, poke, wires[w].line)
<1>1. /\ w \in Wires /\ w # 0 /\ wires[w].tab = t /\ down # <<>>
      /\ IsDown(down) /\ IsTab(tabs[t]) /\ IsGroup(group)
      /\ wires[w].stage \in {"joined", "gone"} /\ UNCHANGED group
      /\ IsWire(x) /\ x.tab = t /\ x.stage = wires[w].stage /\ x.line = wires[w].line
      /\ x.down = Tail(down)
      /\ wires' = [wires EXCEPT ![w] = x] /\ wires'[w] = x
  BY NextFrame
<1>2. Head(down) = down[1] /\ 1 \in 1 .. Len(down) /\ Poke(down, 1)
  BY <1>1, FrameTaken DEF Poke
<1>3. IsPokeRecord(poke)
  BY <1>1, <1>2 DEF IsDown
<1>4. /\ wires[w].stage = "joined" /\ w \in group.sockets /\ wires[w].line = group.line
      /\ Linked(tabs[t].cookie, down, group.version)
  BY <1>1, <1>2 DEF GroupInv, Order, Wired
<1>5. group.open = TRUE /\ group.line \in Nat
  BY <1>1, <1>4 DEF GroupInv, Order, Sockets, IsGroup
<1>6. poke.base = tabs[t].cookie /\ Linked(poke.cookie, Tail(down), group.version)
  BY <1>1, <1>4, LinkTaken
<1>7. /\ IsTab(y) /\ y.cookie = poke.cookie /\ y.wire = w
      /\ y.line = IF poke.base = 0 THEN group.line ELSE tabs[t].line
      /\ \A u \in Tabs : y.ids[u] = IF poke.ids[u] = 0 THEN tabs[t].ids[u] ELSE poke.ids[u]
  <2>1. /\ y = Applied(tabs[t], t, poke, group.line)
        /\ IsTab(tabs[t]) /\ IsPokeRecord(poke) /\ group.line \in Nat
    BY <1>1, <1>3, <1>4, <1>5, Zenon
  <2> HIDE DEF y, poke
  <2>2. PICK tab, line : tab = tabs[t] /\ line = group.line
    OBVIOUS
  <2>3. IsTab(tab) /\ IsPokeRecord(poke) /\ line \in Nat /\ y = Applied(tab, t, poke, line)
    BY <2>1, <2>2
  <2>4. /\ IsTab(y) /\ y.cookie = poke.cookie /\ y.wire = tab.wire
        /\ y.line = IF poke.base = 0 THEN line ELSE tab.line
        /\ \A u \in Tabs : y.ids[u] = IF poke.ids[u] = 0 THEN tab.ids[u] ELSE poke.ids[u]
    BY <2>3, AppliedTab
  <2> QED BY <2>2, <2>4
<1>8. tabs' = [tabs EXCEPT ![t] = y] /\ tabs'[t] = y
  BY DEF GroupInv, Shape, Ends
<1>9. poke.cookie # 0
  BY <1>3 DEF IsPokeRecord
<1> HIDE DEF w, poke, x, y, down
<1>10. Wired(t)'
  <2>1. tabs'[t].wire = w /\ tabs'[t].cookie = poke.cookie
    BY <1>7, <1>8
  <2>2. wires'[w] = x /\ group' = group /\ w \in Wires
    BY <1>1
  <2>3. /\ x.tab = t /\ x.stage = "joined" /\ x.line = group'.line /\ w \in group'.sockets
        /\ Linked(tabs'[t].cookie, x.down, group'.version)
    BY <1>1, <1>4, <1>6, <2>1
  <2> QED BY <2>1, <2>2, <2>3, Zenon DEF Wired
<1>11. Lines(t)'
  <2>1. tabs[t].line <= group.line /\ group.line <= group.line
    BY <1>5 DEF GroupInv, Order, Lines
  <2> QED BY <1>1, <1>5, <1>7, <1>8, <1>9, <2>1 DEF Lines
<1>12. OurTab(t)' /\ poke.base # 0 => OurTab(t)
  BY <1>1, <1>6, <1>7, <1>8 DEF OurTab
<1>13. ASSUME NEW u \in Tabs
       PROVE  /\ Rising(Tail(down), u, group.lmids[u])
              /\ OurTab(t)' => y.ids[u] <= group.lmids[u] /\ Above(Tail(down), u, y.ids[u])
  <2>1. /\ Rising(down, u, group.lmids[u])
        /\ OurTab(t) => tabs[t].ids[u] <= group.lmids[u] /\ Above(down, u, tabs[t].ids[u])
    BY <1>1, <1>4 DEF GroupInv, Order, Counted, down, w
  <2>2. /\ Rising(Tail(down), u, group.lmids[u])
        /\ \A floor : Above(down, u, floor) => Above(Tail(down), u, floor)
        /\ Above(Tail(down), u, poke.ids[u])
        /\ poke.ids[u] # 0 => poke.ids[u] <= group.lmids[u]
    BY <1>1, <2>1, IdsTaken, Zenon DEF poke, down, w
  <2>3. CASE poke.ids[u] # 0
    BY <1>7, <2>2, <2>3
  <2>4. CASE poke.ids[u] = 0 /\ poke.base # 0
    BY <1>7, <1>12, <2>1, <2>2, <2>4
  <2>5. CASE poke.ids[u] = 0 /\ poke.base = 0
    <3>1. tabs[t].ids[u] = 0
      BY <1>6, <2>5 DEF GroupInv, Order, Lines
    <3>2. 0 <= group.lmids[u]
      BY <1>1 DEF IsGroup, IdMap
    <3> QED BY <1>7, <2>2, <2>5, <3>1, <3>2
  <2> QED BY <2>2, <2>3, <2>4, <2>5
<1>14. Counted(t)'
  <2>1. tabs'[t].wire = w /\ tabs'[t].ids = y.ids /\ wires'[w].down = Tail(down) /\ group' = group
    BY <1>1, <1>7, <1>8
  <2> QED BY <1>13, <2>1, Zenon DEF Counted
<1> QED BY <1>1, <1>7, <1>8, <1>10, <1>11, <1>14, OneEnd DEF w

LEMMA HearKeeps == ASSUME GroupInv, NEW t \in Tabs, Hear(t) PROVE Ends' /\ Order'
<1> DEFINE w == tabs[t].wire
           down == wires[w].down
           x == [wires[w] EXCEPT !.down = Tail(@)]
<1>1. /\ w \in Wires /\ w # 0 /\ wires[w].tab = t /\ down # <<>>
      /\ IsDown(down) /\ IsTab(tabs[t]) /\ IsGroup(group)
      /\ wires[w].stage \in {"joined", "gone"} /\ UNCHANGED group
      /\ IsWire(x) /\ x.tab = t /\ x.stage = wires[w].stage /\ x.line = wires[w].line
      /\ x.down = Tail(down)
      /\ wires' = [wires EXCEPT ![w] = x] /\ wires'[w] = x
  BY NextFrame
<1>2. CASE /\ Head(down).kind = "poke"
           /\ tabs' = [tabs EXCEPT ![t] = Applied(@, t, Head(down).poke, wires[w].line)]
  BY <1>2, PokeHeard
<1>3. CASE /\ Head(down).kind = "errored"
           /\ tabs' = [tabs EXCEPT ![t].told = @ \cup {Head(down).hash}]
  <2> DEFINE y == [tabs[t] EXCEPT !.told = @ \cup {Head(down).hash}]
  <2>1. /\ IsTab(y) /\ y.cookie = tabs[t].cookie /\ y.line = tabs[t].line /\ y.ids = tabs[t].ids
        /\ y.wire = w
    BY <1>1 DEF IsTab, TabFields
  <2>2. tabs' = [tabs EXCEPT ![t] = y] /\ tabs'[t] = y
    BY <1>3 DEF GroupInv, Shape, Ends
  <2>3. wires[w].stage = "joined" => Linked(tabs[t].cookie, Tail(down), group.version)
    BY <1>1, <1>3, LinkTaken DEF GroupInv, Order, Wired
  <2>4. wires[w].stage = "gone" => \A i \in 1 .. Len(Tail(down)) : ~Poke(Tail(down), i)
    <3>1. \A i \in 1 .. Len(down) - 1 : Tail(down)[i] = down[i + 1] /\ i + 1 \in 1 .. Len(down)
      BY <1>1, FrameTaken
    <3>2. Len(Tail(down)) = Len(down) - 1
      BY <1>1, FrameTaken
    <3>3. wires[w].stage = "gone" => \A i \in 1 .. Len(down) : ~Poke(down, i)
      BY <1>1 DEF GroupInv, Order, Wired
    <3> QED BY <3>1, <3>2, <3>3 DEF Poke
  <2>5. w \in Wires /\ (wires[w].stage = "joined" => w \in group.sockets /\ wires[w].line = group.line)
    BY <1>1 DEF GroupInv, Order, Wired
  <2>6. ASSUME NEW u \in Tabs
        PROVE  /\ OurTab(t) => tabs[t].ids[u] <= group.lmids[u]
               /\ wires[w].stage = "joined" =>
                    /\ Rising(Tail(down), u, group.lmids[u])
                    /\ OurTab(t) => Above(Tail(down), u, tabs[t].ids[u])
    <3>1. /\ OurTab(t) => tabs[t].ids[u] <= group.lmids[u]
          /\ wires[w].stage = "joined" =>
                /\ Rising(down, u, group.lmids[u])
                /\ OurTab(t) => Above(down, u, tabs[t].ids[u])
      BY <1>1 DEF GroupInv, Order, Counted
    <3> QED BY <1>1, <3>1, IdsTaken
  <2> HIDE DEF w, x, y, down
  <2>7. Wired(t)'
    BY <1>1, <2>1, <2>2, <2>3, <2>4, <2>5 DEF Wired
  <2>8. Lines(t)'
    BY <1>1, <2>1, <2>2 DEF Lines, GroupInv, Order
  <2>9. OurTab(t)' <=> OurTab(t)
    BY <1>1, <2>1, <2>2 DEF OurTab
  <2>10. Counted(t)'
    BY <1>1, <2>1, <2>2, <2>6, <2>9 DEF Counted
  <2> QED BY <1>1, <2>1, <2>2, <2>7, <2>8, <2>10, OneEnd DEF w
<1>4. CASE tabs' = [tabs EXCEPT ![t] = [NewTab EXCEPT !.left = TRUE]]
  <2> DEFINE y == [NewTab EXCEPT !.left = TRUE]
  <2>1. /\ IsTab(y) /\ y.cookie = 0 /\ y.line = 0 /\ y.wire = 0
        /\ \A u \in Tabs : y.ids[u] = 0
    BY NewTabs DEF NewTab, NoIds
  <2>2. tabs' = [tabs EXCEPT ![t] = y] /\ tabs'[t] = y
    BY <1>4 DEF GroupInv, Shape, Ends
  <2>3. 0 <= group.line
    BY <1>1 DEF IsGroup
  <2> HIDE DEF w, x, y, down
  <2>4. Wired(t)'
    BY <2>1, <2>2 DEF Wired
  <2>5. Lines(t)'
    BY <1>1, <2>1, <2>2, <2>3 DEF Lines
  <2>6. Counted(t)'
    BY <2>1, <2>2 DEF Counted, OurTab
  <2> QED BY <1>1, <2>1, <2>2, <2>4, <2>5, <2>6, OneEnd DEF w
<1> QED BY <1>2, <1>3, <1>4, Zenon DEF Hear

-----------------------------------------------------------------------------
(* A batch ends *)

LEMMA QueuedPokes ==
    ASSUME NEW g, IsGroup(g)
    PROVE  /\ IsPokeRecord(QueuedPoke(g))
           /\ QueuedPoke(g).base = g.version /\ QueuedPoke(g).cookie = g.version + 1
           /\ \A u \in Tabs : QueuedPoke(g).ids[u] \in {0, g.lmids[u]}
<1>1. /\ DOMAIN QueuedPoke(g) = PokeFields
      /\ QueuedPoke(g).base = g.version /\ QueuedPoke(g).cookie = g.version + 1
      /\ QueuedPoke(g).ids = [t \in Tabs |-> IF t \in g.queued.ids THEN g.lmids[t] ELSE 0]
  BY DEF QueuedPoke, PokeFields
<1>2. g.version \in Nat /\ g.lmids \in IdMap
  BY DEF IsGroup
<1>3. QueuedPoke(g).ids \in IdMap /\ \A u \in Tabs : QueuedPoke(g).ids[u] \in {0, g.lmids[u]}
  BY <1>1, <1>2 DEF IdMap
<1> QED BY <1>1, <1>2, <1>3 DEF IsPokeRecord

\* The log with one poke more, cut down to its last ones.
LEMMA LogGrows ==
    ASSUME NEW g, IsGroup(g), Logged(g), NEW poke, IsPokeRecord(poke),
           poke.base = g.version, poke.cookie = g.version + 1,
           NEW kept \in Nat, kept <= Len(g.log) + 1, NEW h, DOMAIN h = GroupFields,
           h.open \in BOOLEAN, h.line \in Nat, h.lmids \in IdMap,
           h.version = g.version + 1, h.log = LastOf(Append(g.log, poke), kept)
    PROVE  IsGroup(h) /\ Logged(h)
<1> DEFINE n == Len(g.log)
           v == g.version
           long == Append(g.log, poke)
<1>1. IsSeq(g.log) /\ n \in Nat /\ v \in Nat /\ n <= v /\ Pokes(g.log)
  BY SeqParts DEF IsGroup, Logged
<1>2. /\ IsSeq(long) /\ Len(long) = n + 1
      /\ (\A i \in 1 .. n : long[i] = g.log[i]) /\ long[n + 1] = poke
  BY <1>1, Appended
<1>3. \A i \in 1 .. n : IsPokeRecord(g.log[i]) /\ g.log[i].cookie = v - n + i
                        /\ g.log[i].base + 1 = g.log[i].cookie
  BY <1>1 DEF Logged, Pokes
<1>4. /\ IsSeq(h.log) /\ Len(h.log) = kept
      /\ \A i \in 1 .. kept : h.log[i] = long[n + 1 - kept + i]
  <2>1. IsSeq(long) /\ Len(long) = n + 1 /\ kept <= Len(long) /\ h.log = LastOf(long, kept)
    BY <1>2
  <2> HIDE DEF long
  <2>2. /\ IsSeq(LastOf(long, kept)) /\ Len(LastOf(long, kept)) = kept
        /\ \A i \in 1 .. kept : LastOf(long, kept)[i] = long[Len(long) - kept + i]
    BY <2>1, LastIsSeq
  <2>3. PICK last, m : last = h.log /\ m = n + 1
    OBVIOUS
  <2>4. /\ IsSeq(last) /\ Len(last) = kept
        /\ \A i \in 1 .. kept : last[i] = long[m - kept + i]
    BY <2>1, <2>2, <2>3
  <2> QED BY <2>3, <2>4
<1>0. kept <= n + 1 /\ kept \in Nat
  OBVIOUS
<1> HIDE DEF n, v, long
<1>5. ASSUME NEW i \in 1 .. n + 1
      PROVE  /\ IsPokeRecord(long[i]) /\ long[i].cookie = v - n + i
             /\ long[i].base + 1 = long[i].cookie
  <2>1. CASE i \in 1 .. n
    BY <1>2, <1>3, <2>1
  <2>2. CASE i = n + 1
    <3>1. v - n + (n + 1) = v + 1
      BY <1>1
    <3> QED BY <1>2, <2>2, <3>1 DEF v
  <2>3. i \in 1 .. n \/ i = n + 1
    BY <1>1
  <2> QED BY <2>1, <2>2, <2>3
<1>6. ASSUME NEW i \in 1 .. kept
      PROVE  /\ IsPokeRecord(h.log[i]) /\ h.log[i].cookie = (v + 1) - kept + i
             /\ h.log[i].base + 1 = h.log[i].cookie
  <2>1. n + 1 - kept + i \in 1 .. n + 1 /\ v - n + (n + 1 - kept + i) = (v + 1) - kept + i
    BY <1>0, <1>1
  <2> QED BY <1>4, <1>5, <2>1
<1>7. kept <= v + 1 /\ v + 1 \in Nat
  BY <1>0, <1>1
<1>8. h.version = v + 1
  BY DEF v
<1>9. IsGroup(h)
  BY <1>4, <1>6, <1>7, <1>8 DEF IsGroup, Pokes
<1>10. Logged(h)
  BY <1>4, <1>6, <1>7, <1>8 DEF Logged
<1> QED BY <1>9, <1>10

LEMMA SendKeeps ==
    ASSUME GroupInv, NEW g, Risen(group, g), SendPoke(g), UNCHANGED tabs
    PROVE  Ends' /\ Order'
<1> DEFINE poke == QueuedPoke(g)
<1>1. /\ IsGroup(group) /\ IsGroup(g) /\ Logged(group) /\ Sockets /\ g.version = group.version
      /\ g.open = group.open /\ g.line = group.line /\ g.sockets = group.sockets
      /\ g.log = group.log /\ \A u \in Tabs : group.lmids[u] <= g.lmids[u]
  BY DEF Risen, SameFace, GroupInv, Shape, Ends, Order
<1>2. /\ IsPokeRecord(poke) /\ poke.base = g.version /\ poke.cookie = g.version + 1
      /\ \A u \in Tabs : poke.ids[u] \in {0, g.lmids[u]}
  BY <1>1, QueuedPokes
<1>3. PICK kept \in 0 .. LogPokes :
        /\ kept <= Len(g.log) + 1
        /\ group' = [g EXCEPT !.version = @ + 1, !.queued = NothingQueued,
                              !.log = LastOf(Append(@, poke), kept)]
  BY Zenon DEF SendPoke
<1>4. wires' = [w \in Wires |->
            IF w \in g.sockets THEN [wires[w] EXCEPT !.down = Sent(w, <<PokeFrame(poke)>>)]
            ELSE wires[w]]
  BY DEF SendPoke
<1>5. PokeFrame(poke).kind = "poke" /\ PokeFrame(poke).poke = poke
  BY DEF PokeFrame
<1> HIDE DEF poke
<1>6. /\ DOMAIN group' = GroupFields /\ group'.open = group.open /\ group'.line = group.line
      /\ group'.version = group.version + 1 /\ group'.sockets = group.sockets
      /\ group'.lmids = g.lmids /\ group'.log = LastOf(Append(g.log, poke), kept)
  BY <1>1, <1>3 DEF IsGroup, GroupFields
<1>7. IsGroup(group') /\ Logged(group')
  <2>1. kept \in Nat /\ g.lmids \in IdMap /\ g.open \in BOOLEAN /\ g.line \in Nat /\ Logged(g)
    BY <1>1, ConstantsAssumption DEF IsGroup, Logged
  <2>2. /\ kept <= Len(g.log) + 1 /\ DOMAIN group' = GroupFields
        /\ group'.open \in BOOLEAN /\ group'.line \in Nat /\ group'.lmids \in IdMap
        /\ group'.version = g.version + 1 /\ group'.log = LastOf(Append(g.log, poke), kept)
    BY <1>1, <1>3, <1>6, <2>1
  <2> QED BY <1>1, <1>2, <2>1, <2>2, LogGrows
<1> DEFINE frame == PokeFrame(poke)
<1>8. ASSUME NEW w \in Wires
      PROVE  /\ IsWire(wires'[w]) /\ wires'[w].stage = wires[w].stage
             /\ wires'[w].tab = wires[w].tab /\ wires'[w].line = wires[w].line
             /\ wires'[w].cookie = wires[w].cookie
             /\ w \notin group.sockets => wires'[w].down = wires[w].down
             /\ w \in group.sockets /\ Listening(w) => wires'[w].down = Append(wires[w].down, frame)
  <2>1. IsWire(wires[w]) /\ IsDown(wires[w].down) /\ IsSeq(wires[w].down)
    BY DEF GroupInv, Shape, Ends, IsWire, IsDown
  <2>2. wires[w].down \o <<frame>> = Append(wires[w].down, frame)
    BY <2>1, Appended
  <2>3. IsDown(Append(wires[w].down, frame))
    BY <1>2, <1>5, <2>1, FrameAdded
  <2>4. IsDown(Sent(w, <<frame>>)) /\ (Listening(w) => Sent(w, <<frame>>) = Append(wires[w].down, frame))
    BY <2>2, <2>3, NothingUnderWay DEF Sent
  <2>5. CASE w \in group.sockets
    <3>1. wires'[w] = [wires[w] EXCEPT !.down = Sent(w, <<frame>>)]
      BY <1>1, <1>4, <2>5
    <3> HIDE DEF frame
    <3> QED BY <2>1, <2>4, <2>5, <3>1 DEF IsWire, WireFields
  <2>6. CASE w \notin group.sockets
    BY <1>1, <1>4, <2>1, <2>6
  <2> QED BY <2>5, <2>6
<1>9. DOMAIN wires' = Wires
  BY <1>4
<1>10. Ends'
  BY <1>7, <1>8, <1>9 DEF Ends, GroupInv, Shape
<1>11. Sockets'
  BY <1>1, <1>6, <1>8 DEF Sockets
<1>12. ASSUME NEW t \in Tabs PROVE Lines(t)'
  BY <1>6 DEF Lines, GroupInv, Order
<1>13. \A t \in Tabs : OurTab(t)' <=> OurTab(t)
  BY <1>6 DEF OurTab
<1>14. ASSUME NEW u \in Tabs
       PROVE  /\ group.lmids[u] \in Nat /\ g.lmids[u] \in Nat /\ group.lmids[u] <= g.lmids[u]
              /\ \A t \in Tabs : tabs[t].ids[u] \in Nat
              /\ \A t \in Tabs : OurTab(t) => tabs[t].ids[u] <= g.lmids[u]
  <2>1. /\ group.lmids[u] \in Nat /\ g.lmids[u] \in Nat /\ group.lmids[u] <= g.lmids[u]
        /\ \A t \in Tabs : tabs[t].ids[u] \in Nat
    BY <1>1 DEF GroupInv, Shape, Ends, IsGroup, IsTab, IdMap
  <2>2. \A t \in Tabs : OurTab(t) => tabs[t].ids[u] <= group.lmids[u]
    BY DEF GroupInv, Order, Counted
  <2>3. \A a, b, c \in Nat : a <= b /\ b <= c => a <= c
    OBVIOUS
  <2> QED BY <2>1, <2>2, <2>3
<1>15. ASSUME NEW t \in Tabs, tabs[t].wire # 0 PROVE Wired(t)' /\ Counted(t)'
  <2> DEFINE w == tabs[t].wire
             down == wires[w].down
  <2>1. w \in Wires /\ Listening(w) /\ wires[w].tab = t /\ IsDown(down)
    BY <1>15, AtTheEnd DEF IsWire
  <2>2. /\ wires[w].stage \in {"reading", "asking", "joined", "gone"}
        /\ wires[w].stage \in {"reading", "asking"} => down = <<>> /\ wires[w].cookie = tabs[t].cookie
        /\ wires[w].stage = "joined" =>
            /\ w \in group.sockets /\ wires[w].line = group.line
            /\ Linked(tabs[t].cookie, down, group.version)
        /\ wires[w].stage = "gone" => \A i \in 1 .. Len(down) : ~Poke(down, i)
        /\ w \in group.sockets => wires[w].stage = "joined"
    BY <1>1, <1>15 DEF GroupInv, Order, Wired, Sockets
  <2>3. ASSUME NEW u \in Tabs, wires[w].stage = "joined"
        PROVE  /\ Rising(down, u, group.lmids[u])
               /\ OurTab(t) => Above(down, u, tabs[t].ids[u]) /\ tabs[t].ids[u] <= group.lmids[u]
    BY <1>15, <2>3 DEF GroupInv, Order, Counted
  <2>4. CASE wires[w].stage = "joined"
    <3>1. wires'[w].down = Append(down, frame) /\ wires'[w].stage = "joined"
          /\ wires'[w].tab = t /\ wires'[w].line = group.line /\ w \in group.sockets
      BY <1>8, <2>1, <2>2, <2>4
    <3>2. Linked(tabs[t].cookie, Append(down, frame), group.version + 1)
      <4>1. Linked(tabs[t].cookie, down, group.version) /\ frame.kind = "poke"
            /\ frame.poke.base = group.version /\ frame.poke.cookie = group.version + 1
        BY <1>1, <1>2, <1>5, <2>2, <2>4
      <4> HIDE DEF frame, w, down
      <4> QED BY <2>1, <4>1, LinkAdded
    <3>3. ASSUME NEW u \in Tabs
          PROVE  /\ Rising(Append(down, frame), u, g.lmids[u])
                 /\ OurTab(t) => Above(Append(down, frame), u, tabs[t].ids[u])
      <4>1. /\ frame.kind = "poke" => IsPokeRecord(frame.poke)
            /\ frame.kind = "poke" => frame.poke.ids[u] \in {0, g.lmids[u]}
        BY <1>2, <1>5
      <4>2. /\ Rising(down, u, group.lmids[u])
            /\ OurTab(t) => Above(down, u, tabs[t].ids[u]) /\ tabs[t].ids[u] <= group.lmids[u]
        BY <2>3, <2>4
      <4>3. 0 \in Nat /\ 0 <= group.lmids[u]
        BY <1>14
      <4> HIDE DEF frame, w, down
      <4>4. Rising(Append(down, frame), u, g.lmids[u])
        BY <1>14, <2>1, <4>1, <4>2, <4>3, IdsAdded
      <4>5. ASSUME OurTab(t) PROVE Above(Append(down, frame), u, tabs[t].ids[u])
        BY <1>14, <2>1, <4>1, <4>2, <4>5, IdsAdded
      <4> QED BY <4>4, <4>5
    <3> HIDE DEF frame, down
    <3>4. Wired(t)'
      BY <1>6, <2>1, <3>1, <3>2 DEF Wired
    <3>5. Counted(t)'
      BY <1>6, <1>13, <1>14, <3>1, <3>3 DEF Counted
    <3> QED BY <3>4, <3>5
  <2>5. CASE wires[w].stage # "joined"
    <3>1. wires'[w].down = down /\ wires'[w].stage = wires[w].stage
          /\ wires'[w].tab = t /\ wires'[w].cookie = wires[w].cookie
      BY <1>8, <2>1, <2>2, <2>5
    <3> HIDE DEF down
    <3>2. Wired(t)'
      BY <2>1, <2>2, <2>5, <3>1 DEF Wired, down
    <3>3. Counted(t)'
      BY <1>6, <1>13, <1>14, <2>5, <3>1 DEF Counted
    <3> QED BY <3>2, <3>3
  <2> QED BY <2>4, <2>5
<1>16. ASSUME NEW t \in Tabs, tabs[t].wire = 0 PROVE Wired(t)' /\ Counted(t)'
  BY <1>6, <1>13, <1>14, <1>16 DEF Wired, Counted
<1> QED BY <1>7, <1>10, <1>11, <1>12, <1>15, <1>16 DEF Order

LEMMA FlushKeeps == ASSUME GroupInv, Flush PROVE Ends' /\ Order'
<1> DEFINE told == Accounted(group, pending)
           heard == Noted(told, changes)
<1>1. IsGroup(group) /\ Feed
  BY DEF GroupInv, Shape, Ends
<1>2. Kept(group, told) /\ IsGroup(told)
  BY <1>1, AccountedKept DEF Kept
<1>3. Risen(group, heard)
  BY <1>1, <1>2, NotedRisen, RisenFollows
<1>4. /\ UNCHANGED tabs
      /\ SendPoke(heard) \/ (group' = heard /\ wires' = wires) \/ UNCHANGED <<group, wires>>
  BY DEF Flush
<1> HIDE DEF heard
<1>5. CASE SendPoke(heard)
  BY <1>3, <1>4, <1>5, SendKeeps
<1>6. CASE group' = heard /\ wires' = wires
  BY <1>3, <1>4, <1>6, GroupMoves, StillKeeps
<1>7. CASE UNCHANGED <<group, wires>>
  BY <1>4, <1>7, NothingMoves, StillKeeps
<1> QED BY <1>4, <1>5, <1>6, <1>7

-----------------------------------------------------------------------------
(* The invariant holds *)

LEMMA InitHolds == Init => GroupInv
<1> SUFFICES ASSUME Init PROVE GroupInv
  OBVIOUS
<1>1. Feed
  <2>1. IsSeq(wal) /\ Len(wal) \in Nat
    BY ConstantsAssumption, AnySeq, SeqParts DEF Init
  <2>2. IsEvents(events)
    BY EmptyIsSeq DEF Init, IsEvents
  <2>3. DOMAIN engine = {"position", "subs"} /\ engine.position \in Nat
    BY <2>1 DEF Init
  <2>4. changes.ids = <<>> /\ DOMAIN changes = {"ids", "results", "dirty"}
    BY DEF Init, NoChanges
  <2>5. DOMAIN changes.ids = {}
    BY <2>4
  <2> QED BY <2>1, <2>2, <2>3, <2>4, <2>5 DEF Feed
<1>2. IsGroup(group) /\ Logged(group)
  BY NewGroups DEF Init
<1>3. Ends
  BY <1>2, NewWire, NewTabs DEF Init, Ends
<1>4. Sockets
  <2>1. NoGroup(1).sockets = {}
    BY DEF NoGroup, NewGroup
  <2> QED BY <2>1 DEF Init, Sockets
<1>5. group.line = 1
  BY DEF Init, NoGroup, NewGroup
<1>6. ASSUME NEW t \in Tabs PROVE Wired(t) /\ Lines(t) /\ Counted(t)
  <2>1. tabs[t].wire = 0 /\ tabs[t].cookie = 0 /\ tabs[t].line = 0 /\ tabs[t].ids = NoIds
    BY DEF Init, NewTab
  <2> QED BY <1>5, <2>1 DEF Wired, Lines, Counted, OurTab, NoIds
<1> QED BY <1>1, <1>2, <1>3, <1>4, <1>6 DEF GroupInv, Shape, Order

LEMMA ConnectKeeps == ASSUME GroupInv, NEW w \in Wires, Connect(w) PROVE Ends' /\ Order'
<1>1. wires[w].stage = "asking" /\ UNCHANGED tabs
  BY DEF Connect
<1>2. CASE Owed(group, wires[w].cookie) = "reset"
  BY <1>1, <1>2, RefusalKeeps DEF Connect
<1>3. CASE Owed(group, wires[w].cookie) # "reset"
  BY <1>1, <1>3, JoinKeeps DEF Connect
<1> QED BY <1>2, <1>3

LEMMA NextMoves ==
    ASSUME GroupInv, [Next]_vars
    PROVE  \/ Still \/ Expire \/ Flush
           \/ \E w \in Wires : Connect(w) \/ Disconnect(w)
           \/ \E w \in Wires, t \in Tabs : Open(w, t)
           \/ \E t \in Tabs : Drop(t) \/ Hear(t)
<1>1. UNCHANGED vars => Still
  BY NothingMoves DEF vars, thread
<1> QED BY <1>1, EngineStill, ThreadStill, RequestStill, RefusedStill, SayStill, ReadStill DEF Next

LEMMA NextKeeps == GroupInv /\ [Next]_vars => GroupInv'
<1> SUFFICES ASSUME GroupInv, [Next]_vars PROVE GroupInv'
  OBVIOUS
<1>1. Feed'
  BY FeedKept DEF GroupInv, Shape
<1>2. Ends' /\ Order'
  BY NextMoves, StillKeeps, ConnectKeeps, DisconnectKeeps, OpenKeeps, DropKeeps, HearKeeps,
     ExpireKeeps, FlushKeeps
<1> QED BY <1>1, <1>2 DEF GroupInv, Shape

LEMMA GroupHolds == Spec => []GroupInv
<1> QED BY InitHolds, NextKeeps, PTL DEF Spec

-----------------------------------------------------------------------------
(* What it means for a tab *)

(* The first poke on its way to a tab starts from the tab's cookie, and     *)
(* every later one from the cookie the one before it gives: whatever        *)
(* connects, is dropped, replayed from the log or broadcast meanwhile (the  *)
(* catch-up and the flush of groups.rs).                                   *)
THEOREM PokesFollow == Spec => []PokesContinue
<1>1. GroupInv => PokesContinue
  <2> SUFFICES ASSUME GroupInv, NEW t \in Tabs, tabs[t].wire # 0
               PROVE  LET down == wires[tabs[t].wire].down
                          IsPoke(i) == down[i].kind = "poke"
                          Follows(j, i) == IsPoke(i) /\ \A k \in j + 1 .. i - 1 : ~IsPoke(k)
                      IN  \A i \in 1 .. Len(down) :
                            /\ Follows(0, i) => down[i].poke.base = tabs[t].cookie
                            /\ \A j \in 1 .. i - 1 :
                                IsPoke(j) /\ Follows(j, i) =>
                                    down[i].poke.base = down[j].poke.cookie
    BY DEF PokesContinue
  <2> DEFINE w == tabs[t].wire
             down == wires[w].down
  <2>1. /\ wires[w].stage \in {"reading", "asking", "joined", "gone"}
        /\ wires[w].stage \in {"reading", "asking"} => down = <<>>
        /\ wires[w].stage = "joined" => Linked(tabs[t].cookie, down, group.version)
        /\ wires[w].stage = "gone" => \A i \in 1 .. Len(down) : ~Poke(down, i)
    BY DEF GroupInv, Order, Wired
  <2>2. CASE \A i \in 1 .. Len(down) : ~Poke(down, i)
    BY <2>2 DEF Poke
  <2>3. CASE Linked(tabs[t].cookie, down, group.version)
    BY <2>3 DEF Linked, Gap, Poke
  <2>4. down = <<>> => \A i \in 1 .. Len(down) : ~Poke(down, i)
    BY EmptyIsSeq
  <2> QED BY <2>1, <2>2, <2>3, <2>4
<1> QED BY <1>1, GroupHolds, PTL

(* No step takes a mutation id a tab of this group was told below what it   *)
(* was: a poke replayed from the log tells the ids as they are, a merge of  *)
(* the recorded ids never lowers one, and what the feed says is taken only  *)
(* when it is not behind (`WithCurrent', the merge and the note of ids of   *)
(* groups.rs).                                                             *)
THEOREM IdsRise == Spec => IdsNeverGoBack
<1>1. ASSUME GroupInv, [Next]_vars, NEW t \in Tabs, NEW u \in Tabs, OurTab(t), ~tabs'[t].left
      PROVE  tabs'[t].ids[u] >= tabs[t].ids[u]
  <2>0. /\ DOMAIN tabs = Tabs /\ IsTab(tabs[t]) /\ tabs[t].ids[u] \in Nat
        /\ tabs[t].ids[u] >= tabs[t].ids[u]
    BY <1>1 DEF GroupInv, Shape, Ends, IsTab, IdMap
  <2>1. CASE tabs'[t].ids = tabs[t].ids
    BY <2>0, <2>1
  <2>2. ASSUME Hear(t) PROVE tabs'[t].ids[u] >= tabs[t].ids[u]
    <3> DEFINE w == tabs[t].wire
               down == wires[w].down
    <3>1. /\ w \in Wires /\ w # 0 /\ down # <<>> /\ IsDown(down) /\ IsGroup(group)
          /\ wires[w].stage \in {"joined", "gone"}
      BY <1>1, <2>2, NextFrame
    <3>2. CASE /\ Head(down).kind = "poke"
               /\ tabs' = [tabs EXCEPT ![t] = Applied(@, t, Head(down).poke, wires[w].line)]
      <4> DEFINE poke == Head(down).poke
      <4>1. Head(down) = down[1] /\ 1 \in 1 .. Len(down) /\ Poke(down, 1)
        BY <3>1, <3>2, FrameTaken DEF Poke
      <4>2. wires[w].stage = "joined"
        BY <1>1, <3>1, <4>1 DEF GroupInv, Order, Wired
      <4>3. Rising(down, u, group.lmids[u]) /\ Above(down, u, tabs[t].ids[u])
        BY <1>1, <3>1, <4>2 DEF GroupInv, Order, Counted
      <4>4. poke.ids[u] \in Nat /\ (poke.ids[u] # 0 => tabs[t].ids[u] <= poke.ids[u])
        BY <3>1, <3>2, <4>3, IdsTaken, Zenon
      <4>5. tabs'[t].ids[u] = IF poke.ids[u] = 0 THEN tabs[t].ids[u] ELSE poke.ids[u]
        BY <2>0, <3>2, Zenon DEF Applied, IsTab, TabFields
      <4> HIDE DEF poke
      <4> QED BY <2>0, <4>4, <4>5
    <3>3. CASE tabs' = [tabs EXCEPT ![t].told = @ \cup {Head(down).hash}]
      BY <2>0, <2>1, <3>3
    <3>4. CASE tabs' = [tabs EXCEPT ![t] = [NewTab EXCEPT !.left = TRUE]]
      BY <1>1, <2>0, <3>4 DEF NewTab
    <3> QED BY <2>2, <3>2, <3>3, <3>4, Zenon DEF Hear
  <2>3. ASSUME NEW v \in Tabs, Hear(v), v # t PROVE tabs'[t].ids = tabs[t].ids
    BY <2>0, <2>3 DEF Hear
  <2>4. ASSUME NEW v \in Tabs, Drop(v) PROVE tabs'[t].ids = tabs[t].ids
    BY <2>0, <2>4 DEF Drop
  <2>5. ASSUME NEW w \in Wires, NEW v \in Tabs, Open(w, v) PROVE tabs'[t].ids = tabs[t].ids
    BY <2>0, <2>5 DEF Open
  <2>6. CASE \/ \E v \in Tabs, h \in Queries : Desire(v, h) \/ Undesire(v, h)
             \/ \E v, gone \in Tabs : Forget(v, gone)
    <3>1. TabStill(t)
      BY <1>1, <2>6, SayStill DEF Still
    <3> QED BY <2>1, <3>1 DEF TabStill
  <2>7. CASE UNCHANGED tabs
    BY <2>1, <2>7
  <2>8. \/ UNCHANGED tabs \/ \E v \in Tabs : Drop(v) \/ Hear(v)
        \/ \E w \in Wires, v \in Tabs : Open(w, v)
        \/ \E v \in Tabs, h \in Queries : Desire(v, h) \/ Undesire(v, h)
        \/ \E v, gone \in Tabs : Forget(v, gone)
    BY <1>1, Zenon DEF Next, vars, OutsideWrite, Mutate, RefuseMutation, Committed, ReadMutations,
                Connect, Disconnect, Put, Del, DeleteClient, ExpireQuery, Cool, Expire,
                TakeRegistered, TakeLanded, TakeHydrated, TakeRefused, TakeCommitted, Flush,
                TakeRegister, TakeUnregister, Route, Land, RefuseRead
  <2> QED BY <2>1, <2>2, <2>3, <2>4, <2>5, <2>6, <2>7, <2>8
<1>2. GroupInv /\ [Next]_vars =>
        \A t, u \in Tabs : (OurTab(t) /\ ~tabs'[t].left) => tabs'[t].ids[u] >= tabs[t].ids[u]
  BY <1>1
<1>3. GroupInv /\ [Next]_vars =>
        [\A t, u \in Tabs :
            (OurTab(t) /\ ~tabs'[t].left) => tabs'[t].ids[u] >= tabs[t].ids[u]]_vars
  BY <1>2
<1> QED BY <1>3, GroupHolds, PTL DEF Spec, IdsNeverGoBack

-----------------------------------------------------------------------------
(* The tokens of subscriptions *)

\* Those of the commands on their way: asked for, and let go.
Asks(cs) == {m.token : m \in {x \in ToSet(cs) : x.kind = "register"}}
Releases(cs) == UNION {m.tokens : m \in {x \in ToSet(cs) : x.kind = "unregister"}}
\* Those of the events on their way: registered, and refused.
Heralds(es) == {m.token : m \in {x \in ToSet(es) : x.kind = "registered"}}
Refusals(es) == {m.token : m \in {x \in ToSet(es) : x.kind = "refused"}}

\* A token is asked for once; it is told registered once, and before it is
\* told refused.
AskedOnce(cs) ==
    \A i \in 1 .. Len(cs) : \A j \in 1 .. i - 1 :
        cs[i].kind = "register" /\ cs[j].kind = "register" => cs[i].token # cs[j].token
HeardInOrder(es) ==
    \A i \in 1 .. Len(es) : \A j \in 1 .. i - 1 :
        es[i].kind = "registered" /\ es[j].kind \in {"registered", "refused"}
            => es[i].token # es[j].token

\* Of the tokens handed out: one asked for is nowhere else yet; one told
\* registered is not the group's yet, nor let go; the engine has what was
\* told registered and what is the group's unless a refusal is on its way;
\* what the engine has is one of these or is let go.
Owned(asked, heralded, live, ours, going, refusing, n) ==
    /\ asked \cup heralded \cup live \cup ours \cup going \cup refusing \subseteq 1 .. n
    /\ asked \cap (heralded \cup live \cup ours \cup going \cup refusing) = {}
    /\ heralded \cap (ours \cup going) = {} /\ heralded \subseteq live \cup refusing
    /\ ours \cap going = {} /\ ours \subseteq live \cup refusing
    /\ live \cap refusing = {} /\ live \subseteq ours \cup heralded \cup going

LEMMA MemberAdded ==
    ASSUME NEW s, IsSeq(s), NEW m PROVE ToSet(Append(s, m)) = ToSet(s) \cup {m}
<1>1. /\ IsSeq(Append(s, m)) /\ Len(Append(s, m)) = Len(s) + 1 /\ Len(s) \in Nat
      /\ \A i \in 1 .. Len(s) : Append(s, m)[i] = s[i]
      /\ Append(s, m)[Len(s) + 1] = m
  BY Appended
<1>2. DOMAIN s = 1 .. Len(s) /\ DOMAIN Append(s, m) = 1 .. Len(s) + 1
  BY <1>1, SeqParts
<1>3. \A i : i \in 1 .. Len(s) + 1 <=> i \in 1 .. Len(s) \/ i = Len(s) + 1
  BY <1>1
<1> QED BY <1>1, <1>2, <1>3 DEF ToSet

LEMMA MemberTaken ==
    ASSUME NEW s, IsSeq(s), s # <<>>
    PROVE  ToSet(s) = ToSet(Tail(s)) \cup {Head(s)}
<1> DEFINE n == Len(s)
<1>1. /\ IsSeq(Tail(s)) /\ Len(Tail(s)) = n - 1 /\ n \in Nat \ {0}
      /\ Head(s) = s[1] /\ \A i \in 1 .. n - 1 : Tail(s)[i] = s[i + 1]
  BY Shortened
<1>2. DOMAIN s = 1 .. n /\ DOMAIN Tail(s) = 1 .. n - 1
  BY <1>1, SeqParts
<1> HIDE DEF n
<1>3. /\ \A i \in 1 .. n - 1 : i + 1 \in 1 .. n
      /\ \A i \in 1 .. n : i = 1 \/ (i - 1 \in 1 .. n - 1 /\ (i - 1) + 1 = i)
      /\ 1 \in 1 .. n
  BY <1>1
<1>4. ASSUME NEW i \in 1 .. n PROVE s[i] \in ToSet(Tail(s)) \cup {Head(s)}
  <2>1. CASE i = 1
    BY <1>1, <2>1
  <2>2. CASE i # 1
    <3>1. i - 1 \in 1 .. n - 1 /\ Tail(s)[i - 1] = s[i]
      BY <1>1, <1>3, <2>2
    <3> QED BY <1>2, <3>1 DEF ToSet
  <2> QED BY <2>1, <2>2
<1>5. ASSUME NEW i \in 1 .. n - 1 PROVE Tail(s)[i] \in ToSet(s)
  BY <1>1, <1>2, <1>3 DEF ToSet
<1>6. Head(s) \in ToSet(s)
  BY <1>1, <1>2, <1>3 DEF ToSet
<1> QED BY <1>2, <1>4, <1>5, <1>6 DEF ToSet

LEMMA CommandSent ==
    ASSUME NEW cs, IsSeq(cs), NEW c
    PROVE  /\ IsSeq(Append(cs, c))
           /\ c.kind = "register" /\ c.token \notin Asks(cs) /\ AskedOnce(cs) =>
                /\ Asks(Append(cs, c)) = Asks(cs) \cup {c.token}
                /\ Releases(Append(cs, c)) = Releases(cs) /\ AskedOnce(Append(cs, c))
           /\ c.kind = "unregister" /\ AskedOnce(cs) =>
                /\ Asks(Append(cs, c)) = Asks(cs)
                /\ Releases(Append(cs, c)) = Releases(cs) \cup c.tokens
                /\ AskedOnce(Append(cs, c))
<1> DEFINE ds == Append(cs, c)
           n == Len(cs)
<1>1. /\ IsSeq(ds) /\ Len(ds) = n + 1 /\ n \in Nat
      /\ \A i \in 1 .. n : ds[i] = cs[i]
      /\ ds[n + 1] = c
  BY Appended
<1> HIDE DEF ds, n
<1>2. /\ \A i \in 1 .. n + 1 : i \in 1 .. n \/ i = n + 1
      /\ \A i \in 1 .. n : i \in 1 .. n + 1
      /\ n + 1 \in 1 .. n + 1
      /\ \A i \in 1 .. n + 1 : \A j \in 1 .. i - 1 : j \in 1 .. n
  BY <1>1
<1>3. ASSUME c.kind = "register", c.token \notin Asks(cs), AskedOnce(cs)
      PROVE  /\ Asks(ds) = Asks(cs) \cup {c.token}
             /\ Releases(ds) = Releases(cs) /\ AskedOnce(ds)
  <2>1. Asks(ds) = Asks(cs) \cup {c.token}
    BY <1>3, MemberAdded DEF Asks, ds
  <2>2. Releases(ds) = Releases(cs)
    BY <1>3, MemberAdded DEF Releases, ds
  <2>3. \A j \in 1 .. n : cs[j].kind = "register" => c.token # cs[j].token
    BY <1>1, <1>3, SeqParts DEF Asks, ToSet, n
  <2>4. AskedOnce(ds)
    BY <1>1, <1>2, <1>3, <2>3 DEF AskedOnce, n
  <2> QED BY <2>1, <2>2, <2>4
<1>4. ASSUME c.kind = "unregister", AskedOnce(cs)
      PROVE  /\ Asks(ds) = Asks(cs) /\ Releases(ds) = Releases(cs) \cup c.tokens
             /\ AskedOnce(ds)
  <2>1. Asks(ds) = Asks(cs)
    BY <1>4, MemberAdded DEF Asks, ds
  <2>2. Releases(ds) = Releases(cs) \cup c.tokens
    BY <1>4, MemberAdded DEF Releases, ds
  <2>3. AskedOnce(ds)
    BY <1>1, <1>2, <1>4 DEF AskedOnce, n
  <2> QED BY <2>1, <2>2, <2>3
<1> QED BY <1>1, <1>3, <1>4 DEF ds

LEMMA CommandTaken ==
    ASSUME NEW cs, IsSeq(cs), cs # <<>>, AskedOnce(cs)
    PROVE  /\ IsSeq(Tail(cs)) /\ AskedOnce(Tail(cs))
           /\ Head(cs).kind = "register" =>
                /\ Head(cs).token \in Asks(cs)
                /\ Asks(Tail(cs)) = Asks(cs) \ {Head(cs).token}
                /\ Releases(Tail(cs)) = Releases(cs)
           /\ Head(cs).kind = "unregister" =>
                /\ Asks(Tail(cs)) = Asks(cs)
                /\ Releases(Tail(cs)) \cup Head(cs).tokens = Releases(cs)
<1> DEFINE ds == Tail(cs)
           n == Len(cs)
<1>1. /\ IsSeq(ds) /\ Len(ds) = n - 1 /\ n \in Nat \ {0}
      /\ Head(cs) = cs[1]
      /\ \A i \in 1 .. n - 1 : ds[i] = cs[i + 1]
  BY Shortened
<1> HIDE DEF ds, n
<1>2. /\ \A i \in 1 .. n : i = 1 \/ (i - 1 \in 1 .. n - 1 /\ (i - 1) + 1 = i)
      /\ \A i \in 1 .. n - 1 : i + 1 \in 1 .. n /\ 1 \in 1 .. (i + 1) - 1
      /\ 1 \in 1 .. n
      /\ \A i \in 1 .. n - 1 : \A j \in 1 .. i - 1 : j \in 1 .. n - 1 /\ j + 1 \in 1 .. (i + 1) - 1
  BY <1>1
<1>3. AskedOnce(ds)
  <2> SUFFICES ASSUME NEW i \in 1 .. n - 1, NEW j \in 1 .. i - 1,
                      ds[i].kind = "register", ds[j].kind = "register"
               PROVE  ds[i].token # ds[j].token
    BY <1>1 DEF AskedOnce
  <2>1. i + 1 \in 1 .. n /\ j + 1 \in 1 .. (i + 1) - 1 /\ ds[i] = cs[i + 1] /\ ds[j] = cs[j + 1]
    BY <1>1, <1>2
  <2> QED BY <2>1 DEF AskedOnce, n
<1>4. ASSUME Head(cs).kind = "register"
      PROVE  /\ Head(cs).token \in Asks(cs)
             /\ Asks(ds) = Asks(cs) \ {Head(cs).token}
             /\ Releases(ds) = Releases(cs)
  <2>1. \A i \in 1 .. n - 1 : ds[i].kind = "register" => ds[i].token # Head(cs).token
    BY <1>1, <1>2, <1>4 DEF AskedOnce, n
  <2>2. Asks(ds) \cup {Head(cs).token} = Asks(cs) /\ Releases(ds) = Releases(cs)
    BY <1>4, MemberTaken DEF Asks, Releases, ds
  <2>3. Head(cs).token \notin Asks(ds)
    BY <1>1, <2>1, SeqParts DEF Asks, ToSet
  <2> QED BY <2>2, <2>3
<1>5. ASSUME Head(cs).kind = "unregister"
      PROVE  Asks(ds) = Asks(cs) /\ Releases(ds) \cup Head(cs).tokens = Releases(cs)
  BY <1>5, MemberTaken DEF Asks, Releases, ds
<1> QED BY <1>1, <1>3, <1>4, <1>5 DEF ds

LEMMA EventSent ==
    ASSUME NEW es, IsSeq(es), HeardInOrder(es), NEW m
    PROVE  /\ IsSeq(Append(es, m))
           /\ m.kind \notin {"registered", "refused"} =>
                /\ Heralds(Append(es, m)) = Heralds(es)
                /\ Refusals(Append(es, m)) = Refusals(es) /\ HeardInOrder(Append(es, m))
           /\ m.kind = "registered" /\ m.token \notin Heralds(es) \cup Refusals(es) =>
                /\ Heralds(Append(es, m)) = Heralds(es) \cup {m.token}
                /\ Refusals(Append(es, m)) = Refusals(es) /\ HeardInOrder(Append(es, m))
           /\ m.kind = "refused" =>
                /\ Heralds(Append(es, m)) = Heralds(es)
                /\ Refusals(Append(es, m)) = Refusals(es) \cup {m.token}
                /\ HeardInOrder(Append(es, m))
<1> DEFINE fs == Append(es, m)
           n == Len(es)
<1>1. /\ IsSeq(fs) /\ Len(fs) = n + 1 /\ n \in Nat
      /\ \A i \in 1 .. n : fs[i] = es[i]
      /\ fs[n + 1] = m
  BY Appended
<1> HIDE DEF fs, n
<1>2. /\ \A i \in 1 .. n + 1 : i \in 1 .. n \/ i = n + 1
      /\ \A i \in 1 .. n : i \in 1 .. n + 1
      /\ n + 1 \in 1 .. n + 1
      /\ \A i \in 1 .. n + 1 : \A j \in 1 .. i - 1 : j \in 1 .. n
  BY <1>1
<1>3. /\ m.kind # "registered" => Heralds(fs) = Heralds(es)
      /\ m.kind = "registered" => Heralds(fs) = Heralds(es) \cup {m.token}
  BY MemberAdded DEF Heralds, fs
<1>4. /\ m.kind # "refused" => Refusals(fs) = Refusals(es)
      /\ m.kind = "refused" => Refusals(fs) = Refusals(es) \cup {m.token}
  BY MemberAdded DEF Refusals, fs
<1>5. ASSUME m.kind # "registered" \/ m.token \notin Heralds(es) \cup Refusals(es)
      PROVE  HeardInOrder(fs)
  <2>1. m.kind = "registered" =>
            \A j \in 1 .. n : es[j].kind \in {"registered", "refused"} => m.token # es[j].token
    BY <1>1, <1>5, SeqParts DEF Heralds, Refusals, ToSet, n
  <2>2. ASSUME NEW i \in 1 .. n + 1, NEW j \in 1 .. i - 1,
               fs[i].kind = "registered", fs[j].kind \in {"registered", "refused"}
        PROVE  fs[i].token # fs[j].token
    <3>1. j \in 1 .. n /\ fs[j] = es[j]
      BY <1>1, <1>2
    <3>2. CASE i \in 1 .. n
      BY <1>1, <1>5, <2>2, <3>1, <3>2 DEF HeardInOrder, n
    <3>3. CASE i = n + 1
      BY <1>1, <2>1, <2>2, <3>1, <3>3
    <3> QED BY <1>2, <3>2, <3>3
  <2> QED BY <1>1, <2>2 DEF HeardInOrder
<1> QED BY <1>1, <1>3, <1>4, <1>5 DEF fs

LEMMA EventHeard ==
    ASSUME NEW es, IsSeq(es), es # <<>>, HeardInOrder(es)
    PROVE  /\ IsSeq(Tail(es)) /\ HeardInOrder(Tail(es))
           /\ Head(es).kind = "registered" =>
                /\ Head(es).token \in Heralds(es)
                /\ Heralds(Tail(es)) = Heralds(es) \ {Head(es).token}
                /\ Refusals(Tail(es)) = Refusals(es)
           /\ Head(es).kind = "refused" =>
                /\ Head(es).token \in Refusals(es) \ Heralds(es)
                /\ Heralds(Tail(es)) = Heralds(es)
                /\ Refusals(Tail(es)) \cup {Head(es).token} = Refusals(es)
           /\ Head(es).kind \notin {"registered", "refused"} =>
                Heralds(Tail(es)) = Heralds(es) /\ Refusals(Tail(es)) = Refusals(es)
<1> DEFINE fs == Tail(es)
           n == Len(es)
<1>1. /\ IsSeq(fs) /\ Len(fs) = n - 1 /\ n \in Nat \ {0}
      /\ Head(es) = es[1]
      /\ \A i \in 1 .. n - 1 : fs[i] = es[i + 1]
  BY Shortened
<1> HIDE DEF fs, n
<1>2. /\ \A i \in 1 .. n : i = 1 \/ (i - 1 \in 1 .. n - 1 /\ (i - 1) + 1 = i)
      /\ \A i \in 1 .. n - 1 : i + 1 \in 1 .. n /\ 1 \in 1 .. (i + 1) - 1
      /\ 1 \in 1 .. n
      /\ \A i \in 1 .. n - 1 : \A j \in 1 .. i - 1 : j \in 1 .. n - 1 /\ j + 1 \in 1 .. (i + 1) - 1
  BY <1>1
<1>3. HeardInOrder(fs)
  BY <1>1, <1>2 DEF HeardInOrder, n
<1>4. ASSUME Head(es).kind \in {"registered", "refused"}
      PROVE  \A i \in 1 .. n - 1 : fs[i].kind = "registered" => fs[i].token # Head(es).token
  BY <1>1, <1>2, <1>4 DEF HeardInOrder, n
<1>5. /\ Head(es).kind # "registered" => Heralds(fs) = Heralds(es)
      /\ Head(es).kind = "registered" => Heralds(fs) \cup {Head(es).token} = Heralds(es)
  BY MemberTaken DEF Heralds, fs
<1>6. /\ Head(es).kind # "refused" => Refusals(fs) = Refusals(es)
      /\ Head(es).kind = "refused" => Refusals(fs) \cup {Head(es).token} = Refusals(es)
  BY MemberTaken DEF Refusals, fs
<1>7. Head(es).kind \in {"registered", "refused"} => Head(es).token \notin Heralds(fs)
  BY <1>1, <1>4, SeqParts DEF Heralds, ToSet
<1> QED BY <1>1, <1>3, <1>5, <1>6, <1>7 DEF fs

\* The ways a token goes, as steps of the sets.
LEMMA OneMore ==
    ASSUME NEW A, NEW H, NEW L, NEW O, NEW G, NEW R, NEW n \in Nat, Owned(A, H, L, O, G, R, n)
    PROVE  n + 1 \notin A /\ Owned(A \cup {n + 1}, H, L, O, G, R, n + 1)
<1>1. n + 1 \notin 1 .. n /\ 1 .. n \subseteq 1 .. n + 1 /\ n + 1 \in 1 .. n + 1
  OBVIOUS
<1> QED BY <1>1 DEF Owned

LEMMA AskTaken ==
    ASSUME NEW A, NEW H, NEW L, NEW O, NEW G, NEW R, NEW n, Owned(A, H, L, O, G, R, n), NEW t \in A
    PROVE  t \notin H \cup R /\ Owned(A \ {t}, H \cup {t}, L \cup {t}, O, G, R, n)
BY DEF Owned

LEMMA ReleaseTaken ==
    ASSUME NEW A, NEW H, NEW L, NEW O, NEW G, NEW R, NEW n, Owned(A, H, L, O, G, R, n),
           NEW T, NEW going, going \cup T = G
    PROVE  Owned(A, H, L \ T, O, going, R, n)
BY DEF Owned

LEMMA ReadRefused ==
    ASSUME NEW A, NEW H, NEW L, NEW O, NEW G, NEW R, NEW n, Owned(A, H, L, O, G, R, n), NEW t \in L
    PROVE  Owned(A, H, L \ {t}, O, G, R \cup {t}, n)
BY DEF Owned

LEMMA HeraldHeard ==
    ASSUME NEW A, NEW H, NEW L, NEW O, NEW G, NEW R, NEW n \in Nat, Owned(A, H, L, O, G, R, n),
           NEW t \in H
    PROVE  /\ t \in Nat \ {0} /\ t \notin O
           /\ Owned(A, H \ {t}, L, O \cup {t}, G, R, n)
           /\ Owned(A, H \ {t}, L, O, G \cup {t}, R, n)
<1>1. t \in 1 .. n
  BY DEF Owned
<1>2. t \in Nat \ {0}
  BY <1>1
<1>3. t \notin O /\ Owned(A, H \ {t}, L, O \cup {t}, G, R, n)
  BY DEF Owned
<1>4. Owned(A, H \ {t}, L, O, G \cup {t}, R, n)
  BY DEF Owned
<1> QED BY <1>2, <1>3, <1>4

LEMMA RefusalHeard ==
    ASSUME NEW A, NEW H, NEW L, NEW O, NEW G, NEW R, NEW n, Owned(A, H, L, O, G, R, n),
           NEW t \in R \ H, NEW refusing, refusing \cup {t} = R
    PROVE  Owned(A, H, L, O \ {t}, G, refusing, n)
BY DEF Owned

LEMMA AllLetGo ==
    ASSUME NEW A, NEW H, NEW L, NEW O, NEW G, NEW R, NEW n, Owned(A, H, L, O, G, R, n),
           NEW T \in SUBSET O
    PROVE  Owned(A, H, L, O \ T, G \cup T, R, n)
BY DEF Owned

-----------------------------------------------------------------------------
(* The group's queries *)

QueryFields == {"sub", "awaiting", "got", "inactive", "refused"}

\* A query waits, is refused or has a subscription, one of these at the most;
\* no two have the same.
IsQuery(x) ==
    /\ DOMAIN x = QueryFields /\ x.sub \in Nat /\ x.awaiting \in Nat
    /\ x.awaiting # 0 => x.sub = 0 /\ x.refused = "no"
    /\ x.refused # "no" => x.sub = 0
IsQueries(qs) ==
    /\ \A q \in DOMAIN qs : IsQuery(qs[q])
    /\ \A p, q \in DOMAIN qs : qs[p].sub = qs[q].sub /\ qs[p].sub # 0 => p = q
SubsOf(qs) == {qs[q].sub : q \in DOMAIN qs} \ {0}

\* What is got, what is inactive and a refusal growing old change no
\* subscription.
SameQuery(x, y) ==
    /\ DOMAIN y = QueryFields
    /\ y.sub = x.sub /\ y.awaiting = x.awaiting /\ (y.refused = "no" <=> x.refused = "no")
SameQueries(qs, rs) ==
    DOMAIN rs = DOMAIN qs /\ \A q \in DOMAIN qs : SameQuery(qs[q], rs[q])

LEMMA SameKept ==
    ASSUME NEW qs, NEW rs, IsQueries(qs), SameQueries(qs, rs)
    PROVE  IsQueries(rs) /\ SubsOf(rs) = SubsOf(qs)
<1>1. ASSUME NEW q \in DOMAIN rs
      PROVE  q \in DOMAIN qs /\ rs[q].sub = qs[q].sub /\ IsQuery(rs[q])
  BY DEF SameQueries, SameQuery, IsQueries, IsQuery
<1>2. DOMAIN rs = DOMAIN qs
  BY DEF SameQueries
<1>3. IsQueries(rs)
  BY <1>1, <1>2 DEF IsQueries
<1>4. SubsOf(rs) = SubsOf(qs)
  BY <1>1, <1>2 DEF SubsOf
<1> QED BY <1>3, <1>4

\* One query set, whether new or known, to a subscription nobody has.
SetTo(qs, rs, h, x) ==
    DOMAIN rs = DOMAIN qs \cup {h} /\ rs[h] = x /\ \A q \in DOMAIN qs \ {h} : rs[q] = qs[q]

LEMMA QuerySet ==
    ASSUME NEW qs, NEW rs, NEW h, NEW x, IsQueries(qs), IsQuery(x), x.sub \notin SubsOf(qs),
           SetTo(qs, rs, h, x)
    PROVE  /\ IsQueries(rs)
           /\ h \notin DOMAIN qs => SubsOf(rs) = SubsOf(qs) \cup ({x.sub} \ {0})
           /\ h \in DOMAIN qs => SubsOf(rs) = (SubsOf(qs) \ {qs[h].sub}) \cup ({x.sub} \ {0})
<1>1. /\ DOMAIN rs = DOMAIN qs \cup {h} /\ rs[h] = x
      /\ \A q \in DOMAIN rs : q = h \/ (q \in DOMAIN qs /\ q # h /\ rs[q] = qs[q])
  BY DEF SetTo
<1>2. \A q \in DOMAIN rs : IsQuery(rs[q])
  BY <1>1 DEF IsQueries
<1>3. \A q \in DOMAIN qs : qs[q].sub # 0 => qs[q].sub # x.sub
  BY DEF SubsOf
<1>4. ASSUME NEW p \in DOMAIN rs, NEW q \in DOMAIN rs, rs[p].sub = rs[q].sub, rs[p].sub # 0
      PROVE  p = q
  BY <1>1, <1>3, <1>4 DEF IsQueries
<1>5. h \notin DOMAIN qs => SubsOf(rs) = SubsOf(qs) \cup ({x.sub} \ {0})
  BY <1>1 DEF SubsOf
<1>6. ASSUME h \in DOMAIN qs
      PROVE  SubsOf(rs) = (SubsOf(qs) \ {qs[h].sub}) \cup ({x.sub} \ {0})
  <2>1. \A q \in DOMAIN qs \ {h} : qs[q].sub # 0 => qs[q].sub # qs[h].sub
    BY <1>6 DEF IsQueries
  <2> QED BY <1>1, <1>6, <2>1 DEF SubsOf
<1> QED BY <1>2, <1>4, <1>5, <1>6 DEF IsQueries

LEMMA QueryGone ==
    ASSUME NEW qs, NEW rs, NEW h \in DOMAIN qs, IsQueries(qs),
           DOMAIN rs = DOMAIN qs \ {h}, \A q \in DOMAIN rs : rs[q] = qs[q]
    PROVE  IsQueries(rs) /\ SubsOf(rs) = SubsOf(qs) \ {qs[h].sub}
<1>1. IsQueries(rs)
  BY DEF IsQueries
<1>2. \A q \in DOMAIN qs \ {h} : qs[q].sub # 0 => qs[q].sub # qs[h].sub
  BY DEF IsQueries
<1>3. SubsOf(rs) = SubsOf(qs) \ {qs[h].sub}
  BY <1>2 DEF SubsOf
<1> QED BY <1>1, <1>3

LEMMA NoQueries == ASSUME NEW qs, DOMAIN qs = {} PROVE IsQueries(qs) /\ SubsOf(qs) = {}
BY DEF IsQueries, SubsOf

LEMMA GroupSubs == \A g : Subs(g) = SubsOf(g.queries)
BY DEF Subs, SubsOf, Known

\* What the group's operators do to its queries.
LEMMA QueriesLeft ==
    ASSUME NEW g, IsGroup(g)
    PROVE  /\ \A deltas : Accounted(g, deltas).queries = g.queries
           /\ \A sub : Released(g, sub).queries = g.queries
           /\ \A h : GotWithdrawn(g, h).queries = g.queries
           /\ \A client, h : Desiring(g, client, h).queries = g.queries
           /\ \A told : Noted(g, told).queries = g.queries
           /\ \A ids, waiting : Merged(g, ids, waiting).queries = g.queries
<1>1. /\ \A x, y : [g EXCEPT !.rows = x, !.queued.rows = y].queries = g.queries
      /\ \A x : [g EXCEPT !.queued.got = x].queries = g.queries
      /\ \A x, c, y : [g EXCEPT !.desired[c] = x, !.queued.echo = y].queries = g.queries
      /\ \A x, y, z : [g EXCEPT !.lmids = x, !.queued.ids = y, !.queued.results = z].queries
                        = g.queries
  BY DEF IsGroup, GroupFields
<1>2. \A deltas : Accounted(g, deltas).queries = g.queries
  BY <1>1 DEF Accounted
<1>3. \A sub : Released(g, sub).queries = g.queries
  BY <1>1 DEF Released
<1>4. \A h : GotWithdrawn(g, h).queries = g.queries
  BY <1>1 DEF GotWithdrawn
<1>5. \A client, h : Desiring(g, client, h).queries = g.queries
  BY <1>1 DEF Desiring
<1>6. \A told : Noted(g, told).queries = g.queries
  BY <1>1 DEF Noted
<1>7. \A ids, waiting : Merged(g, ids, waiting).queries = g.queries
  BY <1>1 DEF Merged
<1> QED BY <1>2, <1>3, <1>4, <1>5, <1>6, <1>7

\* One query of a group set anew.
LEMMA OneSame ==
    ASSUME NEW qs, IsQueries(qs), NEW h, NEW y, h \in DOMAIN qs => SameQuery(qs[h], y)
    PROVE  SameQueries(qs, [qs EXCEPT ![h] = y])
BY DEF SameQueries, SameQuery, IsQueries, IsQuery

LEMMA SelfSame == ASSUME NEW qs, IsQueries(qs) PROVE SameQueries(qs, qs)
BY DEF SameQueries, SameQuery, IsQueries, IsQuery

LEMMA Labelled ==
    ASSUME NEW qs, IsQueries(qs), NEW h \in DOMAIN qs
    PROVE  /\ \A x : SameQuery(qs[h], [qs[h] EXCEPT !.got = x])
           /\ \A x : SameQuery(qs[h], [qs[h] EXCEPT !.inactive = x])
           /\ qs[h].refused # "no" => SameQuery(qs[h], [qs[h] EXCEPT !.refused = "cooled"])
BY DEF SameQuery, IsQueries, IsQuery, QueryFields

LEMMA HydrateSame ==
    ASSUME NEW g, IsGroup(g), IsQueries(g.queries), NEW h
    PROVE  SameQueries(g.queries, Hydrate(g, h).queries)
<1> DEFINE y == [g.queries[h] EXCEPT !.got = TRUE]
<1>1. Hydrate(g, h).queries = [g.queries EXCEPT ![h] = y]
  BY DEF Hydrate, IsGroup, GroupFields
<1>2. h \in DOMAIN g.queries => SameQuery(g.queries[h], y)
  BY Labelled
<1> HIDE DEF y
<1> QED BY <1>1, <1>2, OneSame

LEMMA LetGoSame ==
    ASSUME NEW g, IsGroup(g), IsQueries(g.queries), NEW client, NEW hashes
    PROVE  SameQueries(g.queries, LetGo(g, client, hashes).queries)
<1>1. DOMAIN LetGo(g, client, hashes).queries = DOMAIN g.queries
  BY DEF LetGo, IsGroup, GroupFields
<1>2. ASSUME NEW h \in DOMAIN g.queries
      PROVE  SameQuery(g.queries[h], LetGo(g, client, hashes).queries[h])
  <2>1. DOMAIN g.queries[h] = QueryFields
    BY DEF IsQueries, IsQuery
  <2> QED BY <2>1 DEF LetGo, IsGroup, GroupFields, SameQuery, QueryFields
<1> QED BY <1>1, <1>2 DEF SameQueries

LEMMA RefuseSets ==
    ASSUME NEW g, IsGroup(g), IsQueries(g.queries), NEW h \in DOMAIN g.queries
    PROVE  /\ IsQueries(Refuse(g, h).queries) /\ DOMAIN Refuse(g, h).queries = DOMAIN g.queries
           /\ SubsOf(Refuse(g, h).queries) = SubsOf(g.queries) \ {g.queries[h].sub}
<1> DEFINE withdrawn == GotWithdrawn(g, h)
           released == Released(withdrawn, g.queries[h].sub)
           x == [g.queries[h] EXCEPT !.sub = 0, !.awaiting = 0, !.got = FALSE, !.refused = "fresh"]
<1>1. IsGroup(withdrawn) /\ IsGroup(released)
  BY WithdrawnKept, ReleasedKept DEF Kept
<1>2. released.queries = g.queries
  BY <1>1, QueriesLeft
<1>3. Refuse(g, h).queries = [released.queries EXCEPT ![h] =
            [@ EXCEPT !.sub = 0, !.awaiting = 0, !.got = FALSE, !.refused = "fresh"]]
  BY <1>1 DEF Refuse, IsGroup, GroupFields
<1>4. Refuse(g, h).queries = [g.queries EXCEPT ![h] = x]
  BY <1>2, <1>3
<1>5. IsQuery(x) /\ x.sub = 0
  BY DEF IsQueries, IsQuery, QueryFields
<1> HIDE DEF x
<1>6. 0 \notin SubsOf(g.queries)
  BY DEF SubsOf
<1> DEFINE rs == Refuse(g, h).queries
<1>7. SetTo(g.queries, rs, h, x) /\ DOMAIN rs = DOMAIN g.queries
  BY <1>4 DEF SetTo
<1> QED BY <1>5, <1>6, <1>7, QuerySet

LEMMA UnsubscribedSets ==
    ASSUME NEW g, IsGroup(g), IsQueries(g.queries), NEW h \in DOMAIN g.queries
    PROVE  /\ IsQueries(Unsubscribed(g, h).queries)
           /\ SubsOf(Unsubscribed(g, h).queries) = SubsOf(g.queries) \ {g.queries[h].sub}
           /\ DOMAIN Unsubscribed(g, h).queries \subseteq DOMAIN g.queries
<1> DEFINE withdrawn == GotWithdrawn(g, h)
           sub == g.queries[h].sub
           released == IF sub = 0 THEN withdrawn ELSE Released(withdrawn, sub)
           rs == Unsubscribed(g, h).queries
<1>1. IsGroup(withdrawn) /\ IsGroup(released)
  BY WithdrawnKept, ReleasedKept DEF Kept
<1>2. released.queries = g.queries
  BY <1>1, QueriesLeft
<1>3. rs = Restrict(released.queries, DOMAIN released.queries \ {h})
  BY <1>1 DEF Unsubscribed, IsGroup, GroupFields
<1>4. rs = [q \in DOMAIN g.queries \ {h} |-> g.queries[q]]
  BY <1>2, <1>3 DEF Restrict
<1> QED BY <1>4, QueryGone

-----------------------------------------------------------------------------
(* Who has which subscription *)

Registry ==
    /\ IsQueries(group.queries) /\ (~group.open => DOMAIN group.queries = {})
    /\ minted \in Nat
    /\ IsSeq(commands) /\ AskedOnce(commands) /\ HeardInOrder(events)
    /\ Owned(Asks(commands), Heralds(events), DOMAIN engine.subs, SubsOf(group.queries),
             Releases(commands), Refusals(events), minted)
Reached == \A w \in Wires : wires[w].stage = "joined" => w \in group.sockets
TokenInv == Registry /\ Reached

\* Steps that move no subscription.
SubsStay ==
    /\ IsQueries(group'.queries) /\ SubsOf(group'.queries) = SubsOf(group.queries)
    /\ ~group'.open => DOMAIN group'.queries = {}
NothingTold ==
    /\ HeardInOrder(events') /\ Heralds(events') = Heralds(events)
    /\ Refusals(events') = Refusals(events)

LEMMA QuietKeeps ==
    ASSUME Registry, SubsStay, NothingTold, UNCHANGED <<commands, minted>>,
           DOMAIN engine'.subs = DOMAIN engine.subs
    PROVE  Registry'
BY DEF Registry, SubsStay, NothingTold

LEMMA SameStay ==
    ASSUME Registry, SameQueries(group.queries, group'.queries), group'.open = group.open
    PROVE  SubsStay
<1>1. IsQueries(group.queries) /\ (~group.open => DOMAIN group.queries = {})
  BY DEF Registry
<1>2. DOMAIN group'.queries = DOMAIN group.queries
  BY DEF SameQueries
<1> QED BY <1>1, <1>2, SameKept DEF SubsStay

LEMMA GroupStays == ASSUME Registry, group' = group PROVE SubsStay
BY DEF Registry, SubsStay

LEMMA NothingNew == ASSUME Registry, UNCHANGED events PROVE NothingTold
BY DEF Registry, NothingTold

\* The database, connections and tabs.
LEMMA OutsideRegistry ==
    ASSUME Registry,
           \/ OutsideWrite \/ \E t \in Tabs : Mutate(t) \/ RefuseMutation(t)
           \/ \E t \in Tabs : Drop(t) \/ Hear(t)
           \/ \E t \in Tabs, h \in Queries : Desire(t, h) \/ Undesire(t, h)
           \/ \E t, gone \in Tabs : Forget(t, gone)
           \/ \E w \in Wires, t \in Tabs : Open(w, t)
           \/ \E w \in Wires : ReadMutations(w)
           \/ UNCHANGED vars
    PROVE  Registry'
<1>1. UNCHANGED <<engine, commands, events, group, minted>>
  <2>1. CASE OutsideWrite \/ \E t \in Tabs : Mutate(t) \/ RefuseMutation(t)
    <3>1. PICK commit : Committed(commit)
      BY <2>1, Zenon DEF OutsideWrite, Mutate, RefuseMutation
    <3> QED BY <3>1, Zenon DEF Committed, thread
  <2>2. CASE \E t \in Tabs : Drop(t) \/ Hear(t) \/ \E w \in Wires : Open(w, t)
    BY <2>2, Zenon DEF Drop, Hear, Open, thread
  <2>3. CASE \E t \in Tabs : \/ \E h \in Queries : Desire(t, h) \/ Undesire(t, h)
                            \/ \E gone \in Tabs : Forget(t, gone)
    BY <2>3, Zenon DEF Desire, Undesire, Forget, thread
  <2>4. CASE \E w \in Wires : ReadMutations(w)
    BY <2>4, Zenon DEF ReadMutations, thread
  <2>5. CASE UNCHANGED vars
    BY <2>5 DEF vars, thread
  <2> QED BY <2>1, <2>2, <2>3, <2>4, <2>5, Zenon
<1> QED BY <1>1, QuietKeeps, GroupStays, NothingNew

LEMMA ConnectionRegistry ==
    ASSUME Registry, IsGroup(group), NEW w \in Wires, Connect(w) \/ Disconnect(w)
    PROVE  Registry'
<1>0. IsQueries(group.queries) /\ (~group.open => DOMAIN group.queries = {}) /\ group.open \in BOOLEAN
  BY DEF Registry, IsGroup
<1>1. UNCHANGED <<engine, commands, events, minted>>
  BY DEF Connect, Disconnect
<1>2. SUFFICES SubsStay
  BY <1>1, QuietKeeps, NothingNew
<1>3. CASE Disconnect(w)
  <2>1. group'.queries = group.queries /\ group'.open = group.open
    BY <1>3 DEF Disconnect, IsGroup, GroupFields
  <2> QED BY <1>0, <2>1, SameStay, SelfSame
<1>4. CASE Connect(w) /\ Owed(group, wires[w].cookie) = "reset"
  BY <1>4, GroupStays DEF Connect, Refusal
<1>5. CASE Connect(w) /\ Owed(group, wires[w].cookie) # "reset"
  <2> DEFINE base == IF group.open THEN group ELSE NewGroup(group.line)
             merged == Merged(base, wires[w].ids, wires[w].waiting)
  <2>1. group' = [merged EXCEPT !.sockets = @ \cup {w}]
    BY <1>5 DEF Connect, Join
  <2>2. DOMAIN base = GroupFields
    BY DEF IsGroup, NewGroup, GroupFields
  <2>3. DOMAIN merged = GroupFields /\ merged.queries = base.queries /\ merged.open = base.open
    BY <2>2 DEF Merged, GroupFields
  <2>4. group'.queries = base.queries /\ group'.open = base.open
    BY <2>1, <2>3 DEF GroupFields
  <2>5. CASE group.open
    BY <1>0, <2>4, <2>5, SameStay, SelfSame
  <2>6. CASE ~group.open
    <3>1. group'.open /\ group'.queries = <<>>
      BY <2>4, <2>6 DEF NewGroup
    <3>2. DOMAIN group'.queries = {} /\ DOMAIN group.queries = {}
      BY <1>0, <2>6, <3>1
    <3> QED BY <3>1, <3>2, NoQueries DEF SubsStay
  <2> QED BY <2>5, <2>6
<1> QED BY <1>3, <1>4, <1>5

\* Requests.
LEMMA RequestRegistry ==
    ASSUME Registry, IsGroup(group), NEW w \in Wires, Del(w) \/ DeleteClient(w)
    PROVE  Registry'
<1>0. IsQueries(group.queries)
  BY DEF Registry
<1>1. UNCHANGED <<engine, commands, events, minted>>
  BY DEF Del, DeleteClient
<1>2. PICK client, hashes : \/ group' = LetGo(group, client, hashes)
                            \/ group' = [LetGo(group, client, hashes) EXCEPT !.queued.echo = TRUE]
  BY DEF Del, DeleteClient
<1> DEFINE kept == LetGo(group, client, hashes)
<1>3. Kept(group, kept) /\ SameQueries(group.queries, kept.queries)
  BY <1>0, LetGoKept, LetGoSame
<1> HIDE DEF kept
<1>4. group'.queries = kept.queries /\ group'.open = group.open
  BY <1>2, <1>3 DEF kept, Kept, SameFace, IsGroup, GroupFields
<1> QED BY <1>1, <1>3, <1>4, SameStay, QuietKeeps, NothingNew

LEMMA FlushRegistry == ASSUME Registry, IsGroup(group), Flush PROVE Registry'
<1> DEFINE told == Accounted(group, pending)
           heard == Noted(told, changes)
<1>0. IsQueries(group.queries)
  BY DEF Registry
<1>1. UNCHANGED <<engine, commands, events, minted>>
  BY DEF Flush
<1>2. IsGroup(told) /\ told.queries = group.queries /\ told.open = group.open
  BY AccountedKept, QueriesLeft DEF Kept, SameFace
<1> HIDE DEF told
<1>3. heard.queries = group.queries /\ heard.open = group.open /\ DOMAIN heard = GroupFields
  BY <1>2, QueriesLeft DEF Noted, IsGroup, GroupFields
<1>4. SendPoke(heard) \/ group' = heard \/ group' = group
  BY DEF Flush, told
<1> HIDE DEF heard
<1>5. group'.queries = group.queries /\ group'.open = group.open
  BY <1>3, <1>4, Zenon DEF SendPoke, GroupFields
<1> QED BY <1>0, <1>1, <1>5, SelfSame, SameStay, QuietKeeps, NothingNew

LEMMA CoolRegistry == ASSUME Registry, IsGroup(group), NEW h \in Known(group), Cool(h) PROVE Registry'
<1>0. IsQueries(group.queries) /\ h \in DOMAIN group.queries
  BY DEF Registry, Known
<1> DEFINE y == [group.queries[h] EXCEPT !.refused = "cooled"]
<1>1. UNCHANGED <<engine, commands, events, minted>> /\ group.queries[h].refused = "fresh"
  BY DEF Cool
<1>2. group'.queries = [group.queries EXCEPT ![h] = y] /\ group'.open = group.open
  BY DEF Cool, IsGroup, GroupFields
<1>3. SameQuery(group.queries[h], y)
  BY <1>0, <1>1, Labelled
<1> HIDE DEF y
<1>4. SameQueries(group.queries, group'.queries)
  BY <1>0, <1>2, <1>3, OneSame
<1> QED BY <1>1, <1>2, <1>4, SameStay, QuietKeeps, NothingNew

\* The engine side, and what it tells.
LEMMA EngineRegistry ==
    ASSUME Registry, Feed, Route \/ \E token \in DOMAIN engine.subs : Land(token)
    PROVE  Registry'
<1>0. IsSeq(events) /\ HeardInOrder(events) /\ DOMAIN engine = {"position", "subs"}
  BY DEF Registry, Feed, IsEvents
<1>1. UNCHANGED <<group, commands, minted>>
  BY Zenon DEF Route, Land, thread
<1>2. DOMAIN engine'.subs = DOMAIN engine.subs
  <2>1. CASE Route
    BY <2>1 DEF Route
  <2>2. ASSUME NEW token, Land(token) PROVE DOMAIN engine'.subs = DOMAIN engine.subs
    <3>1. PICK x, y : engine' = [engine EXCEPT !.subs[token].settled = x, !.subs[token].shown = y]
      BY <2>2, Zenon DEF Land
    <3> QED BY <1>0, <3>1
  <2> QED BY <2>1, <2>2
<1>3. NothingTold
  <2>1. CASE Route
    <3>1. PICK at, deltas : events' = Append(events, CommittedEvent(at, deltas))
      BY <2>1, Zenon DEF Route
    <3> DEFINE m == CommittedEvent(at, deltas)
    <3>2. m.kind = "committed"
      BY DEF CommittedEvent
    <3> HIDE DEF m
    <3> QED BY <1>0, <3>1, <3>2, EventSent DEF NothingTold, m
  <2>2. ASSUME NEW token \in DOMAIN engine.subs, Land(token) PROVE NothingTold
    <3>1. PICK arrived : events' = events \o (IF arrived = <<>> THEN <<>> ELSE <<Landed(arrived)>>)
                                          \o <<Hydrated(token)>>
      BY <2>2, Zenon DEF Land
    <3> DEFINE first == IF arrived = <<>> THEN events ELSE Append(events, Landed(arrived))
    <3>2. events \o (IF arrived = <<>> THEN <<>> ELSE <<Landed(arrived)>>) = first
      BY <1>0, AfterNothing, Appended
    <3>3. Landed(arrived).kind = "landed" /\ Hydrated(token).kind = "hydrated"
      BY DEF Landed, Hydrated
    <3>4. /\ IsSeq(first) /\ HeardInOrder(first)
          /\ Heralds(first) = Heralds(events) /\ Refusals(first) = Refusals(events)
      BY <1>0, <3>3, EventSent
    <3>5. events' = first \o <<Hydrated(token)>>
      BY <3>1, <3>2
    <3> HIDE DEF first
    <3>6. events' = Append(first, Hydrated(token))
      BY <3>4, <3>5, Appended
    <3> QED BY <3>3, <3>4, <3>6, EventSent DEF NothingTold
  <2> QED BY <2>1, <2>2
<1> QED BY <1>1, <1>2, <1>3, GroupStays, QuietKeeps

LEMMA RegisterRegistry == ASSUME Registry, Feed, TakeRegister PROVE Registry'
<1> DEFINE t == Head(commands).token
<1>0. /\ IsSeq(events) /\ HeardInOrder(events) /\ DOMAIN engine = {"position", "subs"}
      /\ IsSeq(commands) /\ AskedOnce(commands) /\ minted \in Nat
      /\ Owned(Asks(commands), Heralds(events), DOMAIN engine.subs, SubsOf(group.queries),
               Releases(commands), Refusals(events), minted)
  BY DEF Registry, Feed, IsEvents
<1>1. /\ commands # <<>> /\ Head(commands).kind = "register" /\ commands' = Tail(commands)
      /\ UNCHANGED <<group, minted>>
  BY DEF TakeRegister, thread
<1>2. /\ t \in Asks(commands) /\ Asks(commands') = Asks(commands) \ {t}
      /\ Releases(commands') = Releases(commands)
      /\ IsSeq(commands') /\ AskedOnce(commands')
  BY <1>0, <1>1, CommandTaken
<1>3. /\ t \notin Heralds(events) \cup Refusals(events)
      /\ Owned(Asks(commands) \ {t}, Heralds(events) \cup {t}, DOMAIN engine.subs \cup {t},
               SubsOf(group.queries), Releases(commands), Refusals(events), minted)
  <2> DEFINE A == Asks(commands)
             H == Heralds(events)
             L == DOMAIN engine.subs
             O == SubsOf(group.queries)
             G == Releases(commands)
             R == Refusals(events)
  <2>1. Owned(A, H, L, O, G, R, minted) /\ t \in A
    BY <1>0, <1>2
  <2> HIDE DEF t, A, H, L, O, G, R
  <2>2. t \notin H \cup R /\ Owned(A \ {t}, H \cup {t}, L \cup {t}, O, G, R, minted)
    BY <2>1, AskTaken
  <2> QED BY <2>2 DEF A, H, L, O, G, R
<1>4. DOMAIN engine'.subs = DOMAIN engine.subs \cup {t}
  BY <1>0 DEF TakeRegister, With
<1>5. PICK a, b : /\ events' = events \o <<a, b>> \/ events' = Append(events, a)
                  /\ a.kind = "registered" /\ a.token = t /\ b.kind = "hydrated"
  <2>1. \A deltas : Registered(t, deltas).kind = "registered" /\ Registered(t, deltas).token = t
    BY DEF Registered
  <2>2. Hydrated(t).kind = "hydrated"
    BY DEF Hydrated
  <2>3. \/ \E deltas : events' = events \o <<Registered(t, deltas), Hydrated(t)>>
        \/ \E deltas : events' = Append(events, Registered(t, deltas))
    BY DEF TakeRegister
  <2> QED BY <2>1, <2>2, <2>3
<1> DEFINE first == Append(events, a)
<1>6. /\ IsSeq(first) /\ HeardInOrder(first)
      /\ Heralds(first) = Heralds(events) \cup {t} /\ Refusals(first) = Refusals(events)
  BY <1>0, <1>3, <1>5, EventSent
<1>7. events \o <<a, b>> = Append(first, b)
  <2>1. events \o <<a>> = first
    BY <1>0, Appended
  <2> DEFINE S == ToSet(events) \cup {a, b}
  <2>2. events \in Seq(S)
    BY <1>0, SeqMonotonic DEF IsSeq, ToSet
  <2>3. a \in S /\ b \in S
    OBVIOUS
  <2> HIDE DEF S
  <2>4. events \o <<a, b>> = Append(Append(events, a), b)
    BY <2>2, <2>3
  <2> QED BY <2>4
<1> HIDE DEF first
<1>8. /\ HeardInOrder(events')
      /\ Heralds(events') = Heralds(events) \cup {t} /\ Refusals(events') = Refusals(events)
  <2>1. CASE events' = Append(events, a)
    BY <1>6, <2>1 DEF first
  <2>2. CASE events' = Append(first, b)
    <3>1. b.kind \notin {"registered", "refused"}
      BY <1>5
    <3> QED BY <1>6, <2>2, <3>1, EventSent
  <2> QED BY <1>5, <1>7, <2>1, <2>2
<1> QED BY <1>0, <1>1, <1>2, <1>3, <1>4, <1>8 DEF Registry

LEMMA UnregisterRegistry == ASSUME Registry, Feed, TakeUnregister PROVE Registry'
<1> DEFINE T == Head(commands).tokens
<1>0. /\ IsSeq(commands) /\ AskedOnce(commands) /\ minted \in Nat
      /\ DOMAIN engine = {"position", "subs"}
      /\ Owned(Asks(commands), Heralds(events), DOMAIN engine.subs, SubsOf(group.queries),
               Releases(commands), Refusals(events), minted)
  BY DEF Registry, Feed
<1>1. /\ commands # <<>> /\ Head(commands).kind = "unregister" /\ commands' = Tail(commands)
      /\ UNCHANGED <<group, events, minted>>
  BY DEF TakeUnregister, thread
<1>2. /\ Asks(commands') = Asks(commands) /\ Releases(commands') \cup T = Releases(commands)
      /\ IsSeq(commands') /\ AskedOnce(commands')
  BY <1>0, <1>1, CommandTaken
<1>3. DOMAIN engine'.subs = DOMAIN engine.subs \ T
  BY <1>0 DEF TakeUnregister, Restrict
<1>4. Owned(Asks(commands), Heralds(events), DOMAIN engine.subs \ T, SubsOf(group.queries),
            Releases(commands'), Refusals(events), minted)
  BY <1>0, <1>2, ReleaseTaken
<1> QED BY <1>0, <1>1, <1>2, <1>3, <1>4 DEF Registry

LEMMA RefuseReadRegistry ==
    ASSUME Registry, Feed, NEW token \in DOMAIN engine.subs, RefuseRead(token) PROVE Registry'
<1>0. /\ IsSeq(events) /\ HeardInOrder(events) /\ DOMAIN engine = {"position", "subs"}
      /\ minted \in Nat
      /\ Owned(Asks(commands), Heralds(events), DOMAIN engine.subs, SubsOf(group.queries),
               Releases(commands), Refusals(events), minted)
  BY DEF Registry, Feed, IsEvents
<1>1. UNCHANGED <<group, commands, minted>>
  BY DEF RefuseRead, thread
<1>2. DOMAIN engine'.subs = DOMAIN engine.subs \ {token}
  BY <1>0 DEF RefuseRead, Restrict
<1>3. RefusedEvent(token).kind = "refused" /\ RefusedEvent(token).token = token
  BY DEF RefusedEvent
<1>4. /\ HeardInOrder(events') /\ Heralds(events') = Heralds(events)
      /\ Refusals(events') = Refusals(events) \cup {token}
  BY <1>0, <1>3, EventSent DEF RefuseRead
<1>5. Owned(Asks(commands), Heralds(events), DOMAIN engine.subs \ {token}, SubsOf(group.queries),
            Releases(commands), Refusals(events) \cup {token}, minted)
  BY <1>0, ReadRefused
<1> QED BY <1>1, <1>2, <1>4, <1>5 DEF Registry

\* What the group asks for and lets go.
LEMMA PutRegistry ==
    ASSUME Registry, IsGroup(group), group.open, NEW w \in Wires, Put(w) PROVE Registry'
<1> DEFINE h == Head(wires[w].asks).hash
           desiring == Desiring(group, wires[w].tab, h)
           qs == group.queries
<1>0. /\ IsQueries(qs) /\ minted \in Nat
      /\ IsSeq(commands) /\ AskedOnce(commands) /\ HeardInOrder(events)
      /\ Owned(Asks(commands), Heralds(events), DOMAIN engine.subs, SubsOf(qs),
               Releases(commands), Refusals(events), minted)
  BY DEF Registry
<1>1. UNCHANGED <<engine, events>>
  BY Zenon DEF Put, NotPlanned, Anew
<1>2. DOMAIN desiring = GroupFields /\ desiring.queries = qs /\ desiring.open = group.open
  <2>1. Kept(group, desiring)
    BY DesiringKept
  <2>2. desiring.queries = qs
    BY QueriesLeft
  <2> HIDE DEF desiring
  <2> QED BY <2>1, <2>2 DEF Kept, SameFace, IsGroup
<1>3. \/ /\ h \in DOMAIN qs => qs[h].refused = "cooled"
         /\ \/ Registering(h) /\ group' = Remembering(desiring, h, NewQuery(minted'))
            \/ group' = Remembering(desiring, h, NewQuery(0)) /\ UNCHANGED <<minted, commands>>
      \/ /\ group' = [desiring EXCEPT !.queries[h].inactive = FALSE]
         /\ UNCHANGED <<minted, commands>>
  BY Zenon DEF Put, NotPlanned, Anew, Known
<1> HIDE DEF h, desiring
<1>4. ASSUME NEW token \in Nat, group' = Remembering(desiring, h, NewQuery(token)),
             h \in DOMAIN qs => qs[h].refused = "cooled"
      PROVE  SubsStay
  <2> DEFINE x == NewQuery(token)
  <2>1. IsQuery(x) /\ x.sub = 0
    BY <1>4 DEF NewQuery, IsQuery, QueryFields
  <2>2. group'.queries = With(qs, h, x) /\ group'.open
    BY <1>2, <1>4 DEF Remembering, GroupFields
  <2> HIDE DEF x
  <2>3. /\ DOMAIN group'.queries = DOMAIN qs \cup {h} /\ group'.queries[h] = x
        /\ \A q \in DOMAIN qs \ {h} : group'.queries[q] = qs[q]
    BY <2>2 DEF With
  <2>4. 0 \notin SubsOf(qs) /\ (h \in DOMAIN qs => qs[h].sub = 0)
    BY <1>0, <1>4 DEF SubsOf, IsQueries, IsQuery
  <2>5. IsQueries(group'.queries) /\ SubsOf(group'.queries) = SubsOf(qs)
    <3> DEFINE rs == group'.queries
    <3> HIDE DEF rs
    <3>1. x.sub \notin SubsOf(qs)
      BY <2>1, <2>4
    <3>2. SetTo(qs, rs, h, x)
      BY <2>3 DEF SetTo, rs
    <3>3. /\ IsQueries(rs)
          /\ h \notin DOMAIN qs => SubsOf(rs) = SubsOf(qs) \cup ({x.sub} \ {0})
          /\ h \in DOMAIN qs => SubsOf(rs) = (SubsOf(qs) \ {qs[h].sub}) \cup ({x.sub} \ {0})
      BY <1>0, <2>1, <3>1, <3>2, QuerySet
    <3>4. SubsOf(rs) = SubsOf(qs)
      BY <2>1, <2>4, <3>3
    <3> QED BY <3>3, <3>4 DEF rs
  <2> QED BY <2>2, <2>5 DEF SubsStay
<1>5. CASE /\ h \in DOMAIN qs => qs[h].refused = "cooled"
           /\ Registering(h) /\ group' = Remembering(desiring, h, NewQuery(minted'))
  <2>1. minted' = minted + 1 /\ minted' \in Nat
    BY <1>0, <1>5 DEF Registering
  <2>2. SubsStay
    BY <1>4, <1>5, <2>1
  <2> DEFINE c == [kind |-> "register", token |-> minted', hash |-> h]
  <2>3. commands' = Append(commands, c) /\ c.kind = "register" /\ c.token = minted + 1
    BY <1>5, <2>1 DEF Registering
  <2> HIDE DEF c
  <2>4. /\ minted + 1 \notin Asks(commands)
        /\ Owned(Asks(commands) \cup {minted + 1}, Heralds(events), DOMAIN engine.subs,
                 SubsOf(qs), Releases(commands), Refusals(events), minted + 1)
    BY <1>0, OneMore
  <2>5. /\ IsSeq(commands') /\ AskedOnce(commands')
        /\ Asks(commands') = Asks(commands) \cup {minted + 1}
        /\ Releases(commands') = Releases(commands)
    BY <1>0, <2>3, <2>4, CommandSent
  <2> QED BY <1>0, <1>1, <2>1, <2>2, <2>4, <2>5 DEF Registry, SubsStay
<1>6. CASE /\ h \in DOMAIN qs => qs[h].refused = "cooled"
           /\ group' = Remembering(desiring, h, NewQuery(0)) /\ UNCHANGED <<minted, commands>>
  BY <1>1, <1>4, <1>6, NothingNew, QuietKeeps
<1>7. CASE /\ group' = [desiring EXCEPT !.queries[h].inactive = FALSE]
           /\ UNCHANGED <<minted, commands>>
  <2> DEFINE y == [qs[h] EXCEPT !.inactive = FALSE]
  <2>1. group'.queries = [qs EXCEPT ![h] = y] /\ group'.open = group.open
    BY <1>2, <1>7 DEF GroupFields
  <2>2. h \in DOMAIN qs => SameQuery(qs[h], y)
    BY <1>0, Labelled
  <2> HIDE DEF y
  <2>3. SameQueries(qs, group'.queries)
    BY <1>0, <2>1, <2>2, OneSame
  <2> QED BY <1>1, <1>7, <2>1, <2>3, SameStay, NothingNew, QuietKeeps
<1> QED BY <1>3, <1>5, <1>6, <1>7

\* Subscriptions let go with one command, or none when there is none.
LEMMA LetGoRegistry ==
    ASSUME Registry, UNCHANGED <<engine, events, minted>>, NEW T \in SUBSET SubsOf(group.queries),
           IsQueries(group'.queries), SubsOf(group'.queries) = SubsOf(group.queries) \ T,
           ~group'.open => DOMAIN group'.queries = {},
           \/ T = {} /\ commands' = commands
           \/ commands' = Append(commands, [kind |-> "unregister", tokens |-> T])
    PROVE  Registry'
<1>0. /\ minted \in Nat
      /\ IsSeq(commands) /\ AskedOnce(commands) /\ HeardInOrder(events)
      /\ Owned(Asks(commands), Heralds(events), DOMAIN engine.subs, SubsOf(group.queries),
               Releases(commands), Refusals(events), minted)
  BY DEF Registry
<1>1. CASE T = {} /\ commands' = commands
  BY <1>0, <1>1 DEF Registry
<1>2. CASE commands' = Append(commands, [kind |-> "unregister", tokens |-> T])
  <2> DEFINE c == [kind |-> "unregister", tokens |-> T]
  <2>1. commands' = Append(commands, c) /\ c.kind = "unregister" /\ c.tokens = T
    BY <1>2
  <2> HIDE DEF c
  <2>2. /\ IsSeq(commands') /\ AskedOnce(commands') /\ Asks(commands') = Asks(commands)
        /\ Releases(commands') = Releases(commands) \cup T
    BY <1>0, <2>1, CommandSent
  <2>3. Owned(Asks(commands), Heralds(events), DOMAIN engine.subs, SubsOf(group.queries) \ T,
              Releases(commands) \cup T, Refusals(events), minted)
    BY <1>0, AllLetGo
  <2> QED BY <1>0, <2>2, <2>3 DEF Registry
<1> QED BY <1>1, <1>2

LEMMA ExpireRegistry == ASSUME Registry, Expire PROVE Registry'
<1> DEFINE T == SubsOf(group.queries)
<1>1. /\ UNCHANGED <<engine, events, minted>> /\ group' = NoGroup(group.line + 1)
      /\ \/ T = {} /\ commands' = commands
         \/ commands' = Append(commands, [kind |-> "unregister", tokens |-> T])
  BY GroupSubs DEF Expire, LetGoAll
<1>2. group'.queries = <<>>
  BY <1>1 DEF NoGroup, NewGroup
<1>3. DOMAIN group'.queries = {}
  BY <1>2
<1>4. IsQueries(group'.queries) /\ SubsOf(group'.queries) = T \ T
  BY <1>3, NoQueries
<1> HIDE DEF T
<1>5. T \in SUBSET SubsOf(group.queries)
  BY DEF T
<1> QED BY <1>1, <1>3, <1>4, <1>5, LetGoRegistry DEF T

LEMMA ExpireQueryRegistry ==
    ASSUME Registry, IsGroup(group), NEW h \in Known(group), ExpireQuery(h) PROVE Registry'
<1> DEFINE qs == group.queries
           sub == qs[h].sub
           T == {sub} \ {0}
<1>0. IsQueries(qs) /\ h \in DOMAIN qs /\ (~group.open => DOMAIN qs = {})
  BY DEF Registry, Known
<1>1. /\ UNCHANGED <<engine, events, minted>> /\ group' = Unsubscribed(group, h)
      /\ commands' = IF sub = 0 THEN commands
                     ELSE Append(commands, [kind |-> "unregister", tokens |-> {sub}])
  BY DEF ExpireQuery
<1>2. /\ IsQueries(group'.queries) /\ SubsOf(group'.queries) = SubsOf(qs) \ {sub}
      /\ DOMAIN group'.queries \subseteq DOMAIN qs /\ group'.open = group.open
  BY <1>0, <1>1, UnsubscribedSets, UnsubscribedKept DEF Kept, SameFace
<1>3. T \in SUBSET SubsOf(qs) /\ SubsOf(qs) \ {sub} = SubsOf(qs) \ T
  BY <1>0 DEF SubsOf
<1>4. \/ T = {} /\ commands' = commands
      \/ commands' = Append(commands, [kind |-> "unregister", tokens |-> T])
  <2>1. CASE sub = 0
    BY <1>1, <2>1
  <2>2. CASE sub # 0
    <3>1. T = {sub}
      BY <2>2
    <3> QED BY <1>1, <2>2, <3>1
  <2> QED BY <2>1, <2>2
<1>5. ~group'.open => DOMAIN group'.queries = {}
  BY <1>0, <1>2
<1> HIDE DEF T, sub
<1> QED BY <1>1, <1>2, <1>3, <1>4, <1>5, LetGoRegistry

\* What the group hears.
LEMMA SilentRegistry ==
    ASSUME Registry, Feed, IsGroup(group), TakeLanded \/ TakeHydrated \/ TakeCommitted
    PROVE  Registry'
<1>0. IsSeq(events) /\ HeardInOrder(events) /\ IsQueries(group.queries)
  BY DEF Registry, Feed, IsEvents
<1>1. /\ UNCHANGED <<engine, commands, minted>>
      /\ events # <<>> /\ events' = Tail(events)
      /\ Head(events).kind \notin {"registered", "refused"}
  BY DEF TakeLanded, TakeHydrated, TakeCommitted, NextEvent
<1>2. NothingTold
  BY <1>0, <1>1, EventHeard DEF NothingTold
<1>3. group' = group \/ \E h : group' = Hydrate(group, h)
  BY DEF TakeLanded, TakeHydrated, TakeCommitted
<1>4. ASSUME NEW h, group' = Hydrate(group, h) PROVE SubsStay
  <2>1. SameQueries(group.queries, group'.queries) /\ group'.open = group.open
    BY <1>0, <1>4, HydrateSame, HydrateKept DEF Kept, SameFace
  <2> QED BY <2>1, SameStay
<1> QED BY <1>1, <1>2, <1>3, <1>4, GroupStays, QuietKeeps

LEMMA RegisteredRegistry ==
    ASSUME Registry, Feed, IsGroup(group), TakeRegistered PROVE Registry'
<1> DEFINE t == Head(events).token
           h == awaiting[t]
           qs == group.queries
           A == Asks(commands)
           H == Heralds(events)
           L == DOMAIN engine.subs
           O == SubsOf(group.queries)
           G == Releases(commands)
           R == Refusals(events)
<1>0. /\ IsSeq(events) /\ HeardInOrder(events) /\ IsQueries(qs) /\ minted \in Nat
      /\ IsSeq(commands) /\ AskedOnce(commands) /\ Owned(A, H, L, O, G, R, minted)
      /\ ~group.open => DOMAIN qs = {}
  BY DEF Registry, Feed, IsEvents
<1>1. /\ UNCHANGED <<engine, minted>>
      /\ events # <<>> /\ events' = Tail(events) /\ Head(events).kind = "registered"
  BY DEF TakeRegistered, NextEvent
<1>2. \/ /\ h \in DOMAIN qs /\ qs[h].awaiting = t
         /\ group' = [group EXCEPT !.queries[h].awaiting = 0, !.queries[h].sub = t]
         /\ commands' = commands
      \/ group' = group /\ commands' = Append(commands, [kind |-> "unregister", tokens |-> {t}])
  BY DEF TakeRegistered, Adopts, Known
<1>3. /\ t \in H /\ Heralds(events') = H \ {t} /\ Refusals(events') = R
      /\ HeardInOrder(events')
  BY <1>0, <1>1, EventHeard
<1> HIDE DEF t, h, A, H, L, O, G, R
<1>4. /\ t \in Nat \ {0} /\ t \notin O
      /\ Owned(A, H \ {t}, L, O \cup {t}, G, R, minted)
      /\ Owned(A, H \ {t}, L, O, G \cup {t}, R, minted)
  BY <1>0, <1>3, HeraldHeard
<1>5. CASE /\ h \in DOMAIN qs /\ qs[h].awaiting = t
           /\ group' = [group EXCEPT !.queries[h].awaiting = 0, !.queries[h].sub = t]
           /\ commands' = commands
  <2> DEFINE x == [qs[h] EXCEPT !.awaiting = 0, !.sub = t]
             rs == group'.queries
  <2>1. group' = [group EXCEPT !.queries = [[@ EXCEPT ![h].awaiting = 0] EXCEPT ![h].sub = t]]
    BY <1>5 DEF IsGroup, GroupFields
  <2>2. rs = [[qs EXCEPT ![h].awaiting = 0] EXCEPT ![h].sub = t] /\ group'.open = group.open
    BY <2>1 DEF IsGroup, GroupFields
  <2>3. DOMAIN qs[h] = QueryFields /\ qs[h].sub = 0 /\ qs[h].refused = "no"
    BY <1>0, <1>4, <1>5 DEF IsQueries, IsQuery
  <2>4. /\ DOMAIN rs = DOMAIN qs /\ rs[h] = x /\ \A q \in DOMAIN qs \ {h} : rs[q] = qs[q]
    <3> DEFINE once == [qs EXCEPT ![h].awaiting = 0]
    <3>1. /\ DOMAIN once = DOMAIN qs /\ once[h] = [qs[h] EXCEPT !.awaiting = 0]
          /\ \A q \in DOMAIN qs \ {h} : once[q] = qs[q]
      BY <1>5
    <3> HIDE DEF once
    <3>2. rs = [once EXCEPT ![h].sub = t]
      BY <2>2 DEF once
    <3> HIDE DEF rs
    <3>3. /\ DOMAIN rs = DOMAIN qs /\ rs[h] = [once[h] EXCEPT !.sub = t]
          /\ \A q \in DOMAIN qs \ {h} : rs[q] = qs[q]
      BY <1>5, <3>1, <3>2
    <3>4. rs[h] = x
      BY <3>1, <3>3
    <3> QED BY <3>3, <3>4
  <2>5. IsQuery(x) /\ x.sub = t
    BY <1>4, <2>3 DEF IsQuery, QueryFields
  <2> HIDE DEF x, rs
  <2>6. DOMAIN rs = DOMAIN qs \cup {h} /\ x.sub \notin SubsOf(qs)
    BY <1>4, <1>5, <2>4, <2>5 DEF O
  <2>7. IsQueries(rs) /\ SubsOf(rs) = (SubsOf(qs) \ {qs[h].sub}) \cup ({x.sub} \ {0})
    <3>0. SetTo(qs, rs, h, x)
      BY <2>4, <2>6 DEF SetTo
    <3>1. /\ IsQueries(rs)
          /\ h \notin DOMAIN qs => SubsOf(rs) = SubsOf(qs) \cup ({x.sub} \ {0})
          /\ h \in DOMAIN qs => SubsOf(rs) = (SubsOf(qs) \ {qs[h].sub}) \cup ({x.sub} \ {0})
      BY <1>0, <2>5, <2>6, <3>0, QuerySet
    <3> QED BY <1>5, <3>1
  <2>8. 0 \notin SubsOf(qs)
    BY DEF SubsOf
  <2>9. SubsOf(rs) = O \cup {t}
    BY <1>4, <2>3, <2>5, <2>7, <2>8 DEF O
  <2> QED BY <1>0, <1>1, <1>3, <1>4, <1>5, <2>2, <2>4, <2>7, <2>9 DEF Registry, rs, A, L, G
<1>6. CASE group' = group /\ commands' = Append(commands, [kind |-> "unregister", tokens |-> {t}])
  <2> DEFINE c == [kind |-> "unregister", tokens |-> {t}]
  <2>1. commands' = Append(commands, c) /\ c.kind = "unregister" /\ c.tokens = {t}
    BY <1>6
  <2> HIDE DEF c
  <2>2. /\ IsSeq(commands') /\ AskedOnce(commands') /\ Asks(commands') = A
        /\ Releases(commands') = G \cup {t}
    BY <1>0, <2>1, CommandSent DEF A, G
  <2> QED BY <1>0, <1>1, <1>3, <1>4, <1>6, <2>2 DEF Registry, L, O
<1> QED BY <1>2, <1>5, <1>6

LEMMA RefusedRegistry ==
    ASSUME Registry, Feed, IsGroup(group), TakeRefused PROVE Registry'
<1> DEFINE t == Head(events).token
           h == QueryOf(group, t)
           qs == group.queries
           A == Asks(commands)
           H == Heralds(events)
           L == DOMAIN engine.subs
           O == SubsOf(group.queries)
           G == Releases(commands)
           R == Refusals(events)
<1>0. /\ IsSeq(events) /\ HeardInOrder(events) /\ IsQueries(qs) /\ minted \in Nat
      /\ IsSeq(commands) /\ AskedOnce(commands) /\ Owned(A, H, L, O, G, R, minted)
      /\ ~group.open => DOMAIN qs = {}
  BY DEF Registry, Feed, IsEvents
<1>1. /\ UNCHANGED <<engine, commands, minted>>
      /\ events # <<>> /\ events' = Tail(events) /\ Head(events).kind = "refused"
  BY DEF TakeRefused, NextEvent
<1>2. \/ t \in O /\ group' = Refuse(group, h)
      \/ t \notin O /\ group' = group
  BY GroupSubs DEF TakeRefused
<1>3. /\ t \in R \ H /\ Heralds(events') = H /\ Refusals(events') \cup {t} = R
      /\ HeardInOrder(events')
  BY <1>0, <1>1, EventHeard
<1>4. t \in O => h \in DOMAIN qs /\ qs[h].sub = t
  BY DEF SubsOf, QueryOf, Known
<1> HIDE DEF t, h, A, H, L, G, R
<1>5. Owned(A, H, L, O \ {t}, G, Refusals(events'), minted)
  BY <1>0, <1>3, RefusalHeard
<1>6. IsQueries(group'.queries) /\ SubsOf(group'.queries) = O \ {t}
  <2>1. CASE t \in O /\ group' = Refuse(group, h)
    BY <1>0, <1>4, <2>1, RefuseSets
  <2>2. CASE t \notin O /\ group' = group
    BY <1>0, <2>2
  <2> QED BY <1>2, <2>1, <2>2
<1>7. ~group'.open => DOMAIN group'.queries = {}
  <2>1. CASE t \in O /\ group' = Refuse(group, h)
    <3>1. group'.open = group.open /\ DOMAIN group'.queries = DOMAIN qs
      BY <1>0, <1>4, <2>1, RefuseSets, RefuseKept DEF Kept, SameFace
    <3> QED BY <1>0, <3>1
  <2>2. CASE t \notin O /\ group' = group
    BY <1>0, <2>2
  <2> QED BY <1>2, <2>1, <2>2
<1> HIDE DEF O
<1> QED BY <1>0, <1>1, <1>3, <1>5, <1>6, <1>7 DEF Registry, A, L, G

-----------------------------------------------------------------------------
(* A joined connection is one of the group's *)

LEMMA ReachedKept == ASSUME GroupInv, Reached, [Next]_vars PROVE Reached'
<1>0. DOMAIN wires = Wires /\ IsGroup(group) /\ \A v \in Wires : DOMAIN wires[v] = WireFields
  BY DEF GroupInv, Shape, Ends, IsWire
<1>1. ASSUME group'.sockets = group.sockets,
             \A v \in Wires : wires'[v].stage = "joined" => wires[v].stage = "joined"
      PROVE  Reached'
  BY <1>1 DEF Reached
<1>2. CASE Still
  <2>1. group'.sockets = group.sockets
    BY <1>2 DEF Still, Risen, SameFace
  <2>2. ASSUME NEW v \in Wires, wires'[v].stage = "joined" PROVE wires[v].stage = "joined"
    BY <1>2, <2>2 DEF Still, WireStill
  <2> QED BY <1>1, <2>1, <2>2
<1>3. CASE Expire
  <2>1. group.sockets = {} /\ wires' = wires
    BY <1>3 DEF Expire
  <2> QED BY <2>1 DEF Reached
<1>4. CASE Flush
  <2> DEFINE told == Accounted(group, pending)
             heard == Noted(told, changes)
  <2>1. IsGroup(told) /\ told.sockets = group.sockets
    BY <1>0, AccountedKept DEF Kept, SameFace
  <2> HIDE DEF told
  <2>2. heard.sockets = group.sockets /\ DOMAIN heard = GroupFields
    BY <2>1 DEF Noted, IsGroup, GroupFields
  <2>3. SendPoke(heard) \/ (group' = heard /\ wires' = wires) \/ UNCHANGED <<group, wires>>
    BY <1>4 DEF Flush, told
  <2> HIDE DEF heard
  <2>4. group'.sockets = group.sockets
    BY <2>2, <2>3, Zenon DEF SendPoke, GroupFields
  <2>5. ASSUME NEW v \in Wires PROVE wires'[v].stage = wires[v].stage
    BY <1>0, <2>3, Zenon DEF SendPoke, WireFields
  <2> QED BY <1>1, <2>4, <2>5
<1>5. ASSUME NEW w \in Wires, Connect(w) PROVE Reached'
  <2>1. CASE Owed(group, wires[w].cookie) = "reset"
    <3>1. group' = group /\ wires'[w].stage = "gone" /\ \A v \in Wires \ {w} : wires'[v] = wires[v]
      BY <1>0, <1>5, <2>1 DEF Connect, Refusal, NoWire
    <3> QED BY <1>1, <3>1
  <2>2. CASE Owed(group, wires[w].cookie) # "reset"
    <3> DEFINE base == IF group.open THEN group ELSE NewGroup(group.line)
               merged == Merged(base, wires[w].ids, wires[w].waiting)
    <3>1. /\ group' = [merged EXCEPT !.sockets = @ \cup {w}]
          /\ \A v \in Wires \ {w} : wires'[v] = wires[v]
      BY <1>0, <1>5, <2>2 DEF Connect, Join
    <3>2. DOMAIN base = GroupFields /\ group.sockets \subseteq base.sockets
      BY <1>0 DEF IsGroup, NewGroup, GroupFields, GroupInv, Order, Sockets
    <3> HIDE DEF base
    <3>3. DOMAIN merged = GroupFields /\ merged.sockets = base.sockets
      BY <3>2 DEF Merged, GroupFields
    <3> HIDE DEF merged
    <3>4. group'.sockets = base.sockets \cup {w}
      BY <3>1, <3>3 DEF GroupFields
    <3> QED BY <3>1, <3>2, <3>4 DEF Reached
  <2> QED BY <2>1, <2>2
<1>6. ASSUME NEW w \in Wires, Disconnect(w) PROVE Reached'
  <2>1. /\ group'.sockets = group.sockets \ {w} /\ wires'[w].stage = "gone"
        /\ \A v \in Wires \ {w} : wires'[v] = wires[v]
    BY <1>0, <1>6 DEF Disconnect, NoWire, IsGroup, GroupFields
  <2> QED BY <2>1 DEF Reached
<1>7. ASSUME NEW w \in Wires, NEW t \in Tabs, Open(w, t) PROVE Reached'
  <2>1. /\ group' = group /\ wires'[w].stage = "reading"
        /\ \A v \in Wires \ {w} : wires'[v] = wires[v]
    BY <1>0, <1>7 DEF Open, NoWire, thread
  <2> QED BY <1>1, <2>1
<1>8. ASSUME NEW t \in Tabs, Drop(t) \/ Hear(t) PROVE Reached'
  <2>1. group' = group /\ \E w, x : wires' = [wires EXCEPT ![w].down = x]
    BY <1>8 DEF Drop, Hear, thread
  <2>2. ASSUME NEW v \in Wires PROVE wires'[v].stage = wires[v].stage
    BY <1>0, <2>1 DEF WireFields
  <2> QED BY <1>1, <2>1, <2>2
<1> QED BY <1>2, <1>3, <1>4, <1>5, <1>6, <1>7, <1>8, NextMoves

-----------------------------------------------------------------------------
(* The subscriptions *)

LEMMA TokensStart == Init => TokenInv
<1> SUFFICES ASSUME Init PROVE TokenInv
  OBVIOUS
<1>1. group.queries = <<>> /\ events = <<>> /\ commands = <<>> /\ minted = 0 /\ engine.subs = <<>>
  BY DEF Init, NoGroup, NewGroup
<1>2. DOMAIN group.queries = {} /\ DOMAIN engine.subs = {} /\ DOMAIN commands = {} /\ DOMAIN events = {}
  BY <1>1
<1>3. ToSet(commands) = {} /\ ToSet(events) = {}
  BY <1>2 DEF ToSet
<1>4. Asks(commands) = {} /\ Releases(commands) = {} /\ Heralds(events) = {} /\ Refusals(events) = {}
  BY <1>3 DEF Asks, Releases, Heralds, Refusals
<1>5. IsSeq(commands) /\ AskedOnce(commands) /\ HeardInOrder(events)
  BY <1>1, EmptyIsSeq DEF AskedOnce, HeardInOrder
<1>6. IsQueries(group.queries) /\ SubsOf(group.queries) = {}
  BY <1>2, NoQueries
<1>7. Owned({}, {}, {}, {}, {}, {}, 0)
  BY DEF Owned
<1>8. Reached
  BY DEF Init, Reached, NoWire
<1> QED BY <1>1, <1>2, <1>4, <1>5, <1>6, <1>7, <1>8 DEF TokenInv, Registry

LEMMA TokensKeep == GroupInv /\ TokenInv /\ [Next]_vars => TokenInv'
<1> SUFFICES ASSUME GroupInv, TokenInv, [Next]_vars PROVE TokenInv'
  OBVIOUS
<1>1. IsGroup(group) /\ Feed /\ Registry /\ Reached
  BY DEF GroupInv, Shape, Ends, TokenInv
<1>2. SUFFICES Registry'
  BY <1>1, ReachedKept DEF TokenInv
<1>3. ASSUME NEW w \in Wires, Put(w) PROVE Registry'
  <2>1. w \in group.sockets
    BY <1>1, <1>3, Zenon DEF Put, NotPlanned, Anew, NextAsk, Reached
  <2>2. group.open
    BY <1>1, <2>1 DEF GroupInv, Order, Sockets, IsGroup
  <2> QED BY <1>1, <1>3, <2>2, PutRegistry
<1>4. CASE \/ OutsideWrite \/ \E t \in Tabs : Mutate(t) \/ RefuseMutation(t)
           \/ \E t \in Tabs : Drop(t) \/ Hear(t)
           \/ \E t \in Tabs, h \in Queries : Desire(t, h) \/ Undesire(t, h)
           \/ \E t, gone \in Tabs : Forget(t, gone)
           \/ \E w \in Wires, t \in Tabs : Open(w, t)
           \/ \E w \in Wires : ReadMutations(w)
           \/ UNCHANGED vars
  BY <1>1, <1>4, OutsideRegistry
<1>5. CASE \/ \E w \in Wires : Connect(w) \/ Disconnect(w) \/ Put(w) \/ Del(w) \/ DeleteClient(w)
           \/ \E h \in Known(group) : ExpireQuery(h) \/ Cool(h)
           \/ Expire \/ Flush
  BY <1>1, <1>3, <1>5, ConnectionRegistry, RequestRegistry, ExpireQueryRegistry, CoolRegistry,
     ExpireRegistry, FlushRegistry
<1>6. CASE TakeRegistered \/ TakeLanded \/ TakeHydrated \/ TakeRefused \/ TakeCommitted
  BY <1>1, <1>6, RegisteredRegistry, SilentRegistry, RefusedRegistry
<1>7. CASE \/ TakeRegister \/ TakeUnregister \/ Route
           \/ \E token \in DOMAIN engine.subs : Land(token) \/ RefuseRead(token)
  BY <1>1, <1>7, RegisterRegistry, UnregisterRegistry, EngineRegistry, RefuseReadRegistry
<1> QED BY <1>4, <1>5, <1>6, <1>7 DEF Next

(* No subscription is leaked and none waited for in vain: whatever the      *)
(* engine holds is the group's, or the event that it was registered is on   *)
(* its way, or it is let go in a command; and whatever the group holds the  *)
(* engine has, unless its refusal is on its way (the registrations and      *)
(* releases of groups.rs, across a group that expires, a query that lapses  *)
(* and a read refused meanwhile).                                          *)
THEOREM TokensOwned == Spec => []SubscriptionsOwned
<1>1. GroupInv /\ TokenInv => SubscriptionsOwned
  <2> SUFFICES ASSUME GroupInv, TokenInv PROVE SubscriptionsOwned
    OBVIOUS
  <2>1. /\ IsSeq(events) /\ IsSeq(commands) /\ Subs(group) = SubsOf(group.queries)
        /\ DOMAIN events = 1 .. Len(events) /\ DOMAIN commands = 1 .. Len(commands)
    BY GroupSubs, SeqParts DEF GroupInv, Shape, Feed, IsEvents, TokenInv, Registry
  <2>2. /\ \A token \in Heralds(events) :
            \E i \in 1 .. Len(events) : events[i].kind = "registered" /\ events[i].token = token
        /\ \A token \in Refusals(events) :
            \E i \in 1 .. Len(events) : events[i].kind = "refused" /\ events[i].token = token
        /\ \A token \in Releases(commands) :
            \E i \in 1 .. Len(commands) :
                commands[i].kind = "unregister" /\ token \in commands[i].tokens
    BY <2>1 DEF Heralds, Refusals, Releases, ToSet
  <2>3. /\ DOMAIN engine.subs \subseteq Subs(group) \cup Heralds(events) \cup Releases(commands)
        /\ Subs(group) \subseteq DOMAIN engine.subs \cup Refusals(events)
    BY <2>1 DEF TokenInv, Registry, Owned
  <2> QED BY <2>2, <2>3 DEF SubscriptionsOwned
<1>2. Spec => []TokenInv
  BY TokensStart, TokensKeep, GroupHolds, PTL DEF Spec
<1> QED BY <1>1, <1>2, GroupHolds, PTL

(* Every set of naturals has a least element: what the provers have for     *)
(* induction.                                                              *)
LEMMA LeastNat ==
    ASSUME NEW T \in SUBSET Nat, T # {}
    PROVE  \E m \in T : \A n \in T : m <= n
<1>1. PICK m \in T : \A n \in T : ~ (<<n, m>> \in OpToRel(<, Nat))
  BY WFMin, NatLessThanWellFounded, Zenon
<1>2. \A n \in T : ~(n < m)
  BY <1>1, Zenon DEF OpToRel
<1> QED BY <1>2

-----------------------------------------------------------------------------
(* The latest write of a key, the latest delta of a row *)

LEMMA LatestNext ==
    ASSUME NEW T, NEW n \in Nat
    PROVE  /\ n + 1 \in T => (1 .. n + 1) \cap T # {} /\ Max((1 .. n + 1) \cap T) = n + 1
           /\ n + 1 \notin T => (1 .. n + 1) \cap T = (1 .. n) \cap T
<1> DEFINE S == (1 .. n + 1) \cap T
<1>1. ASSUME n + 1 \in T PROVE S # {} /\ Max(S) = n + 1
  <2>1. n + 1 \in S /\ \A y \in S : y \in Nat /\ n + 1 >= y
    BY <1>1
  <2>2. \A x \in S : (\A y \in S : x >= y) => x = n + 1
    BY <2>1
  <2> HIDE DEF S
  <2> QED BY <2>1, <2>2 DEF Max
<1>2. ASSUME n + 1 \notin T PROVE S = (1 .. n) \cap T
  <2>1. \A i \in 1 .. n + 1 : i # n + 1 => i \in 1 .. n
    OBVIOUS
  <2> QED BY <1>2, <2>1
<1> QED BY <1>1, <1>2

LatestOf(T, n) == (1 .. n) \cap T

LEMMA LatestIn ==
    ASSUME NEW T, NEW n \in Nat, LatestOf(T, n) # {}
    PROVE  Max(LatestOf(T, n)) \in LatestOf(T, n)
<1> DEFINE W == LatestOf(T, n)
           B == {n - i : i \in W}
<1>1. \A i \in W : i \in Nat /\ i <= n /\ n - i \in Nat
  BY DEF LatestOf
<1>2. B \in SUBSET Nat /\ B # {}
  BY <1>1
<1> HIDE DEF W
<1>3. PICK b \in B : \A a \in B : b <= a
  BY <1>2, LeastNat
<1>4. PICK m \in W : b = n - m
  BY <1>3
<1>5. ASSUME NEW i \in W PROVE m >= i
  <2>1. n - m <= n - i
    BY <1>3, <1>4
  <2> QED BY <1>1, <1>4, <2>1
<1>6. Max(W) \in W
  BY <1>5 DEF Max
<1> QED BY <1>6 DEF W

Writes(log, k) == {i \in Nat : log[i].key = k}
TableAt(log, at) ==
    [k \in Keys |-> IF LatestOf(Writes(log, k), at) = {} THEN NoRow
                    ELSE log[Max(LatestOf(Writes(log, k), at))].value]
AnswerAt(log, h, at) == {k \in Keys : InQuery(h, TableAt(log, at)[k])}

LEMMA TableIs ==
    ASSUME NEW at \in Nat
    PROVE  RowsAt(at) = TableAt(wal, at) /\ \A h : Answer(h, at) = AnswerAt(wal, h, at)
<1>1. \A k : {i \in 1 .. at : wal[i].key = k} = LatestOf(Writes(wal, k), at)
  BY DEF LatestOf, Writes
<1>2. RowsAt(at) = TableAt(wal, at)
  BY <1>1 DEF RowsAt, TableAt
<1> QED BY <1>2 DEF Answer, AnswerAt

LEMMA TableNext ==
    ASSUME NEW log, NEW at \in Nat, NEW k \in Keys
    PROVE  TableAt(log, at + 1)[k] = IF log[at + 1].key = k THEN log[at + 1].value
                                     ELSE TableAt(log, at)[k]
<1>1. at + 1 \in Writes(log, k) <=> log[at + 1].key = k
  BY DEF Writes
<1>2. CASE log[at + 1].key = k
  BY <1>1, <1>2, LatestNext DEF TableAt, LatestOf
<1>3. CASE log[at + 1].key # k
  BY <1>1, <1>3, LatestNext DEF TableAt, LatestOf
<1> QED BY <1>2, <1>3

LEMMA TableGrown ==
    ASSUME NEW log, IsSeq(log), NEW at \in Nat, at <= Len(log), NEW c
    PROVE  /\ TableAt(Append(log, c), at) = TableAt(log, at)
           /\ \A h : AnswerAt(Append(log, c), h, at) = AnswerAt(log, h, at)
<1>1. \A i \in 1 .. at : i \in 1 .. Len(log) /\ Append(log, c)[i] = log[i]
  BY SeqParts, Appended
<1>2. \A k : LatestOf(Writes(Append(log, c), k), at) = LatestOf(Writes(log, k), at)
  BY <1>1 DEF LatestOf, Writes
<1>3. ASSUME NEW k \in Keys PROVE TableAt(Append(log, c), at)[k] = TableAt(log, at)[k]
  <2> DEFINE W == LatestOf(Writes(log, k), at)
  <2>1. CASE W = {}
    BY <1>2, <2>1 DEF TableAt
  <2>2. CASE W # {}
    <3>3. Max(W) \in W
      BY <2>2, LatestIn
    <3>4. Append(log, c)[Max(W)] = log[Max(W)]
      BY <1>1, <3>3 DEF LatestOf
    <3> QED BY <1>2, <2>2, <3>4 DEF TableAt
  <2> QED BY <2>1, <2>2
<1>4. TableAt(Append(log, c), at) = TableAt(log, at)
  BY <1>3 DEF TableAt
<1> QED BY <1>4 DEF AnswerAt

LEMMA AnswerFinite ==
    ASSUME NEW log, NEW h, NEW at \in Nat PROVE IsFiniteSet(AnswerAt(log, h, at))
<1> DEFINE S == 1 .. at
           f == [i \in S |-> log[i].key]
           T == {f[i] : i \in S}
<1>1. IsFiniteSet(S)
  BY FS_Interval
<1>2. f \in Surjection(S, T)
  BY DEF Surjection
<1> HIDE DEF f, S, T
<1>3. IsFiniteSet(T)
  BY <1>1, <1>2, FS_Surjection
<1>4. AnswerAt(log, h, at) \subseteq T
  <2> SUFFICES ASSUME NEW k \in AnswerAt(log, h, at) PROVE k \in T
    OBVIOUS
  <2>1. LatestOf(Writes(log, k), at) # {}
    BY DEF AnswerAt, InQuery, TableAt
  <2>2. PICK i \in 1 .. at : log[i].key = k
    BY <2>1 DEF LatestOf, Writes
  <2> QED BY <2>2 DEF f, S, T
<1> QED BY <1>3, <1>4, FS_Subset

-----------------------------------------------------------------------------
(* Deltas of rows *)

\* The rows of a subscription, one delta each.
KeysOf(d) == {d[i].key : i \in 1 .. Len(d)}
TellsRows(log, at, d, s) ==
    /\ IsSeq(d)
    /\ \A i \in 1 .. Len(d) :
        d[i].key \in Keys /\ d[i].subs = {s} /\ d[i].image = TableAt(log, at)[d[i].key]

LEMMA ListedOnce ==
    ASSUME NEW S, IsFiniteSet(S)
    PROVE  /\ SetToSeq(S) \in Seq(S) /\ Len(SetToSeq(S)) = Cardinality(S)
           /\ \A x \in S : \E i \in 1 .. Len(SetToSeq(S)) : SetToSeq(S)[i] = x
<1> DEFINE n == Cardinality(S)
<1>1. n \in Nat /\ ExistsBijection(1 .. n, S)
  BY FS_CardinalityType
<1>2. PICK f \in [1 .. n -> S] : \A a, b \in 1 .. n : f[a] = f[b] => a = b
  BY <1>1 DEF ExistsBijection, Bijection, Injection, IsInjective
<1>3. \E g \in [1 .. n -> S] : IsInjective(g)
  BY <1>2 DEF IsInjective
<1> DEFINE g == SetToSeq(S)
<1>4. g \in [1 .. n -> S] /\ IsInjective(g)
  BY <1>3 DEF SetToSeq
<1> HIDE DEF n, g
<1>5. g \in Injection(1 .. n, S)
  BY <1>4 DEF Injection, IsInjective
<1>6. IsFiniteSet(1 .. n) /\ Cardinality(1 .. n) = n
  <2>1. Cardinality(1 .. n) = IF 1 > n THEN 0 ELSE n - 1 + 1
    BY <1>1, FS_Interval
  <2>2. IsFiniteSet(1 .. n)
    BY <1>1, FS_Interval
  <2> QED BY <1>1, <2>1, <2>2
<1>7. g \in Surjection(1 .. n, S)
  BY <1>5, <1>6, FS_Injection DEF n
<1>8. g \in Seq(S) /\ Len(g) = n
  BY <1>1, <1>4
<1>9. \A x \in S : \E i \in 1 .. n : g[i] = x
  BY <1>7 DEF Surjection
<1> QED BY <1>8, <1>9 DEF g, n

LEMMA RowsTold ==
    ASSUME engine.position \in Nat, NEW keys, IsFiniteSet(keys), keys \subseteq Keys, NEW s
    PROVE  /\ TellsRows(wal, engine.position, RowsFor(keys, s), s) /\ KeysOf(RowsFor(keys, s)) = keys
           /\ RowsFor(keys, s) = <<>> => keys = {}
<1> DEFINE One(k) == Delta(k, RowsAt(engine.position)[k], {s})
           S == {One(k) : k \in keys}
           d == SetToSeq(S)
           f == [k \in keys |-> One(k)]
<1>1. f \in Surjection(keys, S)
  BY DEF Surjection
<1>2. IsFiniteSet(S)
  BY <1>1, FS_Surjection
<1> HIDE DEF f
<1>3. d \in Seq(S) /\ \A x \in S : \E i \in 1 .. Len(d) : d[i] = x
  BY <1>2, ListedOnce
<1>5. RowsFor(keys, s) = d
  BY DEF RowsFor
<1> HIDE DEF d, S
<1>a. IsSeq(d)
  BY <1>3, AnySeq
<1>4. IsSeq(d) /\ Len(d) \in Nat /\ \A i \in 1 .. Len(d) : d[i] \in S
  BY <1>3, <1>a
<1> USE DEF S
<1>6. \A x \in S : \E k \in keys : x = One(k)
  OBVIOUS
<1>7. \A k \in keys : One(k) \in S
  OBVIOUS
<1> HIDE DEF S
<1>8. \A k : One(k).key = k /\ One(k).subs = {s} /\ One(k).image = TableAt(wal, engine.position)[k]
  BY TableIs DEF Delta
<1> HIDE DEF One
<1>9. TellsRows(wal, engine.position, d, s)
  BY <1>4, <1>6, <1>8 DEF TellsRows
<1>10. KeysOf(d) = keys
  <2>1. ASSUME NEW i \in 1 .. Len(d) PROVE d[i].key \in keys
    <3>1. PICK k \in keys : d[i] = One(k)
      BY <1>4, <1>6
    <3> QED BY <1>8, <3>1
  <2>2. ASSUME NEW k \in keys PROVE \E i \in 1 .. Len(d) : d[i].key = k
    <3>1. PICK i \in 1 .. Len(d) : d[i] = One(k)
      BY <1>3, <1>7
    <3> QED BY <1>8, <3>1
  <2> QED BY <2>1, <2>2, Zenon DEF KeysOf
<1>11. d = <<>> => keys = {}
  BY <1>10, EmptyIsSeq DEF KeysOf
<1> QED BY <1>5, <1>9, <1>10, <1>11

-----------------------------------------------------------------------------
(* The course of the engine's events *)

\* A point of it: the engine's position, the tokens it was asked for by then,
\* those it serves, those served whole, and the rows each of them shows.
IsPoint(log, asked, top, p) ==
    /\ p.at \in Nat /\ Len(Earlier) <= p.at /\ p.at <= Len(log)
    /\ p.known \subseteq 1 .. top /\ p.live \subseteq p.known /\ p.done \subseteq p.known
    /\ p.shown \in [Nat -> SUBSET Keys] /\ \A s \in Nat \ p.known : p.shown[s] = {}
    /\ \A s \in p.live : /\ p.shown[s] \subseteq AnswerAt(log, asked[s], p.at)
                         /\ s \in p.done => p.shown[s] = AnswerAt(log, asked[s], p.at)

\* An event tells of the step between two points.
Registers(log, p, e, q) ==
    /\ e.kind = "registered" /\ e.token \in Nat \ p.known
    /\ TellsRows(log, p.at, e.deltas, e.token)
    /\ q.at = p.at /\ q.done = p.done
    /\ q.known = p.known \cup {e.token} /\ q.live = p.live \cup {e.token}
    /\ q.shown = [p.shown EXCEPT ![e.token] = @ \cup KeysOf(e.deltas)]
Lands(log, p, e, q) ==
    /\ e.kind = "landed"
    /\ q.at = p.at /\ q.done = p.done /\ q.known = p.known /\ q.live = p.live
    /\ \E s \in p.known : /\ TellsRows(log, p.at, e.deltas, s)
                          /\ q.shown = [p.shown EXCEPT ![s] = @ \cup KeysOf(e.deltas)]
Hydrates(p, e, q) ==
    /\ e.kind = "hydrated" /\ e.token \in p.known
    /\ q.at = p.at /\ q.known = p.known /\ q.live = p.live /\ q.shown = p.shown
    /\ q.done = p.done \cup {e.token}
Refuses(p, e, q) ==
    /\ e.kind = "refused"
    /\ q.at = p.at /\ q.known = p.known /\ q.done = p.done /\ q.shown = p.shown
    /\ q.live = p.live \ {e.token}

\* A commit's deltas: to those who leave a row, then to those who hold it.
TellsWrite(d, k, value, leavers, holders) ==
    d = (IF leavers = {} THEN <<>> ELSE <<Delta(k, NoRow, leavers)>>)
        \o (IF holders = {} THEN <<>> ELSE <<Delta(k, value, holders)>>)
Moved(asked, p, q, k, value, leavers, holders) ==
    /\ leavers \subseteq p.known /\ holders \subseteq p.known /\ leavers \cap holders = {}
    /\ leavers \cup holders # {} => k \in Keys
    /\ \A s \in p.live :
        /\ s \in holders <=> k \in Keys /\ InQuery(asked[s], value)
        /\ s \in leavers <=> k \in p.shown[s] /\ s \notin holders
        /\ q.shown[s] = (p.shown[s] \ {k}) \cup (IF s \in holders THEN {k} ELSE {})
Routes(log, asked, p, e, q) ==
    /\ e.kind = "committed" /\ e.at = p.at + 1
    /\ q.at = p.at + 1 /\ q.known = p.known /\ q.live = p.live /\ q.done = p.done
    /\ \E leavers, holders :
        /\ TellsWrite(e.deltas, log[e.at].key, log[e.at].value, leavers, holders)
        /\ Moved(asked, p, q, log[e.at].key, log[e.at].value, leavers, holders)

Moves(log, asked, p, e, q) ==
    Registers(log, p, e, q) \/ Lands(log, p, e, q) \/ Hydrates(p, e, q) \/ Refuses(p, e, q)
        \/ Routes(log, asked, p, e, q)

Course(log, asked, top, es, p, q) ==
    \E G : /\ G[0] = p /\ G[Len(es)] = q
           /\ \A i \in 0 .. Len(es) : IsPoint(log, asked, top, G[i])
           /\ \A i \in 1 .. Len(es) : Moves(log, asked, G[i - 1], es[i], G[i])

LEMMA CourseNone ==
    ASSUME NEW log, NEW asked, NEW top, NEW p, IsPoint(log, asked, top, p)
    PROVE  Course(log, asked, top, <<>>, p, p)
<1> DEFINE G == [i \in {0} |-> p]
<1>1. G[0] = p /\ \A i \in 0 .. 0 : i = 0
  OBVIOUS
<1> HIDE DEF G
<1>2. Len(<<>>) = 0 /\ 1 .. 0 = {}
  BY EmptyIsSeq
<1> QED BY <1>1, <1>2 DEF Course

LEMMA CourseEnds ==
    ASSUME NEW log, NEW asked, NEW top, NEW es, IsSeq(es), NEW p, NEW q,
           Course(log, asked, top, es, p, q)
    PROVE  IsPoint(log, asked, top, p) /\ IsPoint(log, asked, top, q)
<1>1. Len(es) \in Nat /\ 0 \in 0 .. Len(es) /\ Len(es) \in 0 .. Len(es)
  BY SeqParts
<1> QED BY <1>1 DEF Course

LEMMA CourseTold ==
    ASSUME NEW log, NEW asked, NEW top, NEW es, IsSeq(es), NEW p, NEW q,
           Course(log, asked, top, es, p, q),
           NEW e, NEW r, Moves(log, asked, q, e, r), IsPoint(log, asked, top, r)
    PROVE  Course(log, asked, top, Append(es, e), p, r)
<1> DEFINE n == Len(es)
<1>1. PICK G : /\ G[0] = p /\ G[n] = q
               /\ \A i \in 0 .. n : IsPoint(log, asked, top, G[i])
               /\ \A i \in 1 .. n : Moves(log, asked, G[i - 1], es[i], G[i])
  BY DEF Course
<1>2. /\ n \in Nat /\ Len(Append(es, e)) = n + 1 /\ Append(es, e)[n + 1] = e
      /\ \A i \in 1 .. n : Append(es, e)[i] = es[i]
  BY SeqParts, Appended
<1> DEFINE F == [i \in 0 .. n + 1 |-> IF i = n + 1 THEN r ELSE G[i]]
<1>3. F[0] = p /\ F[n + 1] = r /\ F[n] = q /\ \A i \in 0 .. n : F[i] = G[i]
  BY <1>1, <1>2
<1> HIDE DEF F, n
<1>4. \A i \in 0 .. n + 1 : i = n + 1 \/ i \in 0 .. n
  BY <1>2
<1>5. \A i \in 1 .. n + 1 : i = n + 1 \/ (i \in 1 .. n /\ i \in 0 .. n /\ i - 1 \in 0 .. n)
  BY <1>2
<1>6. n + 1 - 1 = n
  BY <1>2
<1>7. \A i \in 0 .. n + 1 : IsPoint(log, asked, top, F[i])
  BY <1>1, <1>3, <1>4
<1>8. ASSUME NEW i \in 1 .. n + 1 PROVE Moves(log, asked, F[i - 1], Append(es, e)[i], F[i])
  <2>1. CASE i = n + 1
    BY <1>2, <1>3, <1>6, <2>1
  <2>2. CASE i \in 1 .. n /\ i \in 0 .. n /\ i - 1 \in 0 .. n
    BY <1>1, <1>2, <1>3, <2>2
  <2> QED BY <1>5, <2>1, <2>2
<1> QED BY <1>2, <1>3, <1>7, <1>8 DEF Course

LEMMA CourseHeard ==
    ASSUME NEW log, NEW asked, NEW top, NEW es, IsSeq(es), es # <<>>, NEW p, NEW q,
           Course(log, asked, top, es, p, q)
    PROVE  \E r : Moves(log, asked, p, Head(es), r) /\ Course(log, asked, top, Tail(es), r, q)
<1> DEFINE n == Len(es)
<1>1. PICK G : /\ G[0] = p /\ G[n] = q
               /\ \A i \in 0 .. n : IsPoint(log, asked, top, G[i])
               /\ \A i \in 1 .. n : Moves(log, asked, G[i - 1], es[i], G[i])
  BY DEF Course
<1>2. /\ n \in Nat \ {0} /\ Len(Tail(es)) = n - 1 /\ Head(es) = es[1]
      /\ \A i \in 1 .. n - 1 : Tail(es)[i] = es[i + 1]
  BY Shortened
<1> DEFINE F == [i \in 0 .. n - 1 |-> G[i + 1]]
<1>3. \A i \in 0 .. n - 1 : F[i] = G[i + 1]
  OBVIOUS
<1> HIDE DEF F, n
<1>4. 0 \in 0 .. n - 1 /\ n - 1 \in 0 .. n - 1 /\ n - 1 + 1 = n /\ 1 \in 1 .. n /\ 1 - 1 = 0 /\ 0 + 1 = 1
  BY <1>2
<1>5. F[0] = G[1] /\ F[n - 1] = q
  BY <1>1, <1>3, <1>4
<1>6. \A i \in 0 .. n - 1 : i + 1 \in 0 .. n
  BY <1>2
<1>7. \A i \in 1 .. n - 1 : /\ i \in 0 .. n - 1 /\ i - 1 \in 0 .. n - 1 /\ i - 1 + 1 = i
                            /\ i + 1 \in 1 .. n /\ i + 1 - 1 = i
  BY <1>2
<1>8. \A i \in 0 .. n - 1 : IsPoint(log, asked, top, F[i])
  BY <1>1, <1>3, <1>6
<1>9. \A i \in 1 .. n - 1 : Moves(log, asked, F[i - 1], Tail(es)[i], F[i])
  BY <1>1, <1>2, <1>3, <1>7
<1>10. Course(log, asked, top, Tail(es), G[1], q)
  BY <1>2, <1>5, <1>8, <1>9 DEF Course
<1>11. Moves(log, asked, p, Head(es), G[1])
  BY <1>1, <1>2, <1>4
<1> QED BY <1>10, <1>11

\* The log grows.
LEMMA PointLogged ==
    ASSUME NEW log, IsSeq(log), NEW c, NEW asked, NEW top, NEW p, IsPoint(log, asked, top, p)
    PROVE  IsPoint(Append(log, c), asked, top, p)
<1>1. p.at \in Nat /\ p.at <= Len(log) /\ Len(Append(log, c)) = Len(log) + 1 /\ Len(log) \in Nat
  BY Appended DEF IsPoint
<1>2. p.at <= Len(Append(log, c))
  BY <1>1
<1>3. \A h : AnswerAt(Append(log, c), h, p.at) = AnswerAt(log, h, p.at)
  BY <1>1, TableGrown
<1> QED BY <1>2, <1>3 DEF IsPoint

LEMMA RowsLogged ==
    ASSUME NEW log, IsSeq(log), NEW c, NEW at \in Nat, at <= Len(log), NEW d, NEW s,
           TellsRows(log, at, d, s)
    PROVE  TellsRows(Append(log, c), at, d, s)
BY TableGrown DEF TellsRows

LEMMA MoveLogged ==
    ASSUME NEW log, IsSeq(log), NEW c, NEW asked, NEW top, NEW p, NEW e, NEW q,
           IsPoint(log, asked, top, p), IsPoint(log, asked, top, q), Moves(log, asked, p, e, q)
    PROVE  Moves(Append(log, c), asked, p, e, q)
<1>1. /\ p.at \in Nat /\ p.at <= Len(log) /\ q.at \in Nat /\ q.at <= Len(log) /\ Len(log) \in Nat
      /\ \A i \in 1 .. Len(log) : Append(log, c)[i] = log[i]
  BY Appended DEF IsPoint
<1>2. CASE Registers(log, p, e, q)
  BY <1>1, <1>2, RowsLogged DEF Registers, Moves
<1>3. CASE Lands(log, p, e, q)
  BY <1>1, <1>3, RowsLogged DEF Lands, Moves
<1>4. CASE Hydrates(p, e, q) \/ Refuses(p, e, q)
  BY <1>4 DEF Moves
<1>5. CASE Routes(log, asked, p, e, q)
  <2>1. e.at = p.at + 1 /\ e.at = q.at
    BY <1>5 DEF Routes
  <2>2. e.at \in 1 .. Len(log)
    BY <1>1, <2>1
  <2>3. Append(log, c)[e.at] = log[e.at]
    BY <1>1, <2>2
  <2> QED BY <1>5, <2>3 DEF Routes, Moves
<1> QED BY <1>2, <1>3, <1>4, <1>5 DEF Moves

LEMMA CourseLogged ==
    ASSUME NEW log, IsSeq(log), NEW c, NEW asked, NEW top, NEW es, IsSeq(es), NEW p, NEW q,
           Course(log, asked, top, es, p, q)
    PROVE  Course(Append(log, c), asked, top, es, p, q)
<1>1. PICK G : /\ G[0] = p /\ G[Len(es)] = q
               /\ \A i \in 0 .. Len(es) : IsPoint(log, asked, top, G[i])
               /\ \A i \in 1 .. Len(es) : Moves(log, asked, G[i - 1], es[i], G[i])
  BY DEF Course
<1>2. \A i \in 0 .. Len(es) : IsPoint(Append(log, c), asked, top, G[i])
  BY <1>1, PointLogged
<1>3. Len(es) \in Nat
  BY SeqParts
<1>4. \A i \in 1 .. Len(es) : i \in 0 .. Len(es) /\ i - 1 \in 0 .. Len(es)
  BY <1>3
<1>5. \A i \in 1 .. Len(es) : Moves(Append(log, c), asked, G[i - 1], es[i], G[i])
  BY <1>1, <1>4, MoveLogged
<1> QED BY <1>1, <1>2, <1>5 DEF Course

\* A token is minted.
LEMMA PointMinted ==
    ASSUME NEW log, NEW asked, NEW top \in Nat, NEW p,
           IsPoint(log, asked, top, p), NEW also, \A s \in 1 .. top : also[s] = asked[s]
    PROVE  IsPoint(log, also, top + 1, p) /\ \A s \in p.live : also[s] = asked[s]
<1>1. 1 .. top \subseteq 1 .. top + 1
  OBVIOUS
<1>2. \A s \in p.live : also[s] = asked[s]
  BY <1>1 DEF IsPoint
<1>3. p.known \subseteq 1 .. top + 1
  BY <1>1 DEF IsPoint
<1> QED BY <1>2, <1>3 DEF IsPoint

LEMMA MoveMinted ==
    ASSUME NEW log, NEW asked, NEW also, NEW p, NEW e, NEW q, Moves(log, asked, p, e, q),
           \A s \in p.live : also[s] = asked[s]
    PROVE  Moves(log, also, p, e, q)
<1>1. CASE Routes(log, asked, p, e, q)
  <2>1. \A k, v, ls, hs : Moved(asked, p, q, k, v, ls, hs) => Moved(also, p, q, k, v, ls, hs)
    BY DEF Moved
  <2> QED BY <1>1, <2>1 DEF Routes, Moves
<1> QED BY <1>1 DEF Moves

LEMMA CourseMinted ==
    ASSUME NEW log, NEW asked, NEW top \in Nat, NEW es, IsSeq(es),
           NEW p, NEW q, Course(log, asked, top, es, p, q),
           NEW also, \A s \in 1 .. top : also[s] = asked[s]
    PROVE  Course(log, also, top + 1, es, p, q)
<1>1. PICK G : /\ G[0] = p /\ G[Len(es)] = q
               /\ \A i \in 0 .. Len(es) : IsPoint(log, asked, top, G[i])
               /\ \A i \in 1 .. Len(es) : Moves(log, asked, G[i - 1], es[i], G[i])
  BY DEF Course
<1>2. ASSUME NEW i \in 0 .. Len(es)
      PROVE  IsPoint(log, also, top + 1, G[i]) /\ \A s \in G[i].live : also[s] = asked[s]
  <2>1. IsPoint(log, asked, top, G[i])
    BY <1>1
  <2> QED BY <2>1, PointMinted
<1>3. Len(es) \in Nat
  BY SeqParts
<1>4. \A i \in 1 .. Len(es) : i \in 0 .. Len(es) /\ i - 1 \in 0 .. Len(es)
  BY <1>3
<1>5. \A i \in 1 .. Len(es) : Moves(log, also, G[i - 1], es[i], G[i])
  BY <1>1, <1>2, <1>4, MoveMinted
<1> QED BY <1>1, <1>2, <1>5 DEF Course

\* Subscriptions are let go.
Less(p, T) == [at |-> p.at, known |-> p.known, live |-> p.live \ T, done |-> p.done, shown |-> p.shown]

LEMMA PointLess ==
    ASSUME NEW log, NEW asked, NEW top, NEW p, IsPoint(log, asked, top, p), NEW T
    PROVE  IsPoint(log, asked, top, Less(p, T))
BY DEF IsPoint, Less

LEMMA MoveLess ==
    ASSUME NEW log, NEW asked, NEW p, NEW e, NEW q, Moves(log, asked, p, e, q),
           NEW T, e.kind = "registered" => e.token \notin T
    PROVE  Moves(log, asked, Less(p, T), e, Less(q, T))
<1>1. CASE Registers(log, p, e, q)
  <2>1. e.token \notin T
    BY <1>1 DEF Registers
  <2>2. (p.live \cup {e.token}) \ T = (p.live \ T) \cup {e.token}
    BY <2>1
  <2> QED BY <1>1, <2>2 DEF Registers, Less, Moves
<1>2. CASE Lands(log, p, e, q)
  BY <1>2 DEF Lands, Less, Moves
<1>3. CASE Hydrates(p, e, q)
  BY <1>3 DEF Hydrates, Less, Moves
<1>4. CASE Refuses(p, e, q)
  <2>1. (p.live \ {e.token}) \ T = (p.live \ T) \ {e.token}
    OBVIOUS
  <2> QED BY <1>4, <2>1 DEF Refuses, Less, Moves
<1>5. CASE Routes(log, asked, p, e, q)
  <2>1. \A k, v, ls, hs :
            Moved(asked, p, q, k, v, ls, hs) => Moved(asked, Less(p, T), Less(q, T), k, v, ls, hs)
    BY DEF Moved, Less
  <2> QED BY <1>5, <2>1 DEF Routes, Less, Moves
<1> QED BY <1>1, <1>2, <1>3, <1>4, <1>5 DEF Moves

LEMMA CourseLess ==
    ASSUME NEW log, NEW asked, NEW top, NEW es, IsSeq(es), NEW p, NEW q,
           Course(log, asked, top, es, p, q), NEW T, Heralds(es) \cap T = {}
    PROVE  Course(log, asked, top, es, Less(p, T), Less(q, T))
<1>1. PICK G : /\ G[0] = p /\ G[Len(es)] = q
               /\ \A i \in 0 .. Len(es) : IsPoint(log, asked, top, G[i])
               /\ \A i \in 1 .. Len(es) : Moves(log, asked, G[i - 1], es[i], G[i])
  BY DEF Course
<1>2. Len(es) \in Nat /\ DOMAIN es = 1 .. Len(es)
  BY SeqParts
<1>3. \A i \in 1 .. Len(es) : i \in 0 .. Len(es) /\ i - 1 \in 0 .. Len(es)
  BY <1>2
<1>4. 0 \in 0 .. Len(es) /\ Len(es) \in 0 .. Len(es)
  BY <1>2
<1> DEFINE F == [i \in 0 .. Len(es) |-> Less(G[i], T)]
<1>5. \A i \in 0 .. Len(es) : F[i] = Less(G[i], T)
  OBVIOUS
<1> HIDE DEF F
<1>6. \A i \in 1 .. Len(es) : es[i].kind = "registered" => es[i].token \notin T
  BY <1>2 DEF Heralds, ToSet
<1>7. \A i \in 0 .. Len(es) : IsPoint(log, asked, top, F[i])
  BY <1>1, <1>5, PointLess
<1>8. \A i \in 1 .. Len(es) : Moves(log, asked, F[i - 1], es[i], F[i])
  BY <1>1, <1>3, <1>5, <1>6, MoveLess
<1> QED BY <1>1, <1>4, <1>5, <1>7, <1>8 DEF Course

-----------------------------------------------------------------------------
(* Both ends of the course: the engine, and what was asked of it *)

EngineAt(asked, q, eng) ==
    /\ q.at = eng.position /\ q.live = DOMAIN eng.subs
    /\ \A s \in DOMAIN eng.subs :
        /\ DOMAIN eng.subs[s] = {"hash", "settled", "shown"}
        /\ eng.subs[s].hash = asked[s] /\ eng.subs[s].shown = q.shown[s]
        /\ eng.subs[s].settled <=> s \in q.done
AskedFor(asked, q, cs, es, waiting) ==
    /\ \A m \in ToSet(cs) : m.kind = "register" => m.token \notin q.known /\ asked[m.token] = m.hash
    /\ \A t \in Asks(cs) \cup Heralds(es) : t \in DOMAIN waiting /\ waiting[t] = asked[t]

Tracked(asked, p, q) ==
    /\ DOMAIN asked = Nat /\ Course(wal, asked, minted, events, p, q)
    /\ EngineAt(asked, q, engine) /\ AskedFor(asked, q, commands, events, awaiting)

\* A registration: the rows told are those of its answer, or a part of it.
LEMMA RegisterMoves ==
    ASSUME engine.position \in Nat, NEW asked, NEW q, IsPoint(wal, asked, minted, q), minted \in Nat,
           q.at = engine.position, NEW s \in 1 .. minted, s \notin q.known,
           NEW keys, keys \subseteq AnswerAt(wal, asked[s], q.at), IsFiniteSet(keys)
    PROVE  \E r : /\ Registers(wal, q, Registered(s, RowsFor(keys, s)), r)
                  /\ IsPoint(wal, asked, minted, r) /\ s \notin r.done
                  /\ r.at = q.at /\ r.known = q.known \cup {s} /\ r.live = q.live \cup {s}
                  /\ r.done = q.done /\ r.shown[s] = keys
                  /\ \A u \in Nat \ {s} : r.shown[u] = q.shown[u]
<1> DEFINE d == RowsFor(keys, s)
           e == Registered(s, d)
           shown == [q.shown EXCEPT ![s] = @ \cup KeysOf(d)]
           r == [at |-> q.at, known |-> q.known \cup {s}, live |-> q.live \cup {s},
                 done |-> q.done, shown |-> shown]
<1>1. keys \subseteq Keys
  BY DEF AnswerAt
<1>2. TellsRows(wal, q.at, d, s) /\ KeysOf(d) = keys
  BY <1>1, RowsTold
<1>3. e.kind = "registered" /\ e.token = s /\ e.deltas = d
  BY DEF Registered
<1> HIDE DEF d, e
<1>4. s \in Nat /\ q.shown \in [Nat -> SUBSET Keys] /\ q.shown[s] = {} /\ s \notin q.done /\ s \notin q.live
  BY DEF IsPoint
<1>5. /\ shown \in [Nat -> SUBSET Keys] /\ shown[s] = keys
      /\ \A u \in Nat \ {s} : shown[u] = q.shown[u]
  BY <1>1, <1>2, <1>4
<1>6. r.at = q.at /\ r.known = q.known \cup {s} /\ r.live = q.live \cup {s} /\ r.done = q.done /\ r.shown = shown
  OBVIOUS
<1>7. Registers(wal, q, e, r)
  BY <1>2, <1>3, <1>4, <1>6 DEF Registers
<1> HIDE DEF shown, r
<1>8. q.known \subseteq Nat /\ q.live \subseteq q.known
  BY DEF IsPoint
<1>9. \A u \in r.live : /\ r.shown[u] \subseteq AnswerAt(wal, asked[u], r.at)
                        /\ u \in r.done => r.shown[u] = AnswerAt(wal, asked[u], r.at)
  <2> SUFFICES ASSUME NEW u \in r.live
               PROVE  /\ r.shown[u] \subseteq AnswerAt(wal, asked[u], r.at)
                      /\ u \in r.done => r.shown[u] = AnswerAt(wal, asked[u], r.at)
    OBVIOUS
  <2>1. CASE u = s
    BY <1>4, <1>5, <1>6, <2>1
  <2>2. CASE u # s
    <3>1. u \in q.live /\ u \in Nat \ {s}
      BY <1>6, <1>8, <2>2
    <3> QED BY <1>5, <1>6, <3>1 DEF IsPoint
  <2> QED BY <2>1, <2>2
<1>10. IsPoint(wal, asked, minted, r)
  BY <1>4, <1>5, <1>6, <1>9 DEF IsPoint
<1> QED BY <1>4, <1>5, <1>6, <1>7, <1>10 DEF e, d

\* A read that landed: the rows not shown yet.
LEMMA LandMoves ==
    ASSUME engine.position \in Nat, NEW asked, NEW q, IsPoint(wal, asked, minted, q), minted \in Nat,
           q.at = engine.position, NEW s \in q.live, s \notin q.done,
           NEW keys, keys \subseteq AnswerAt(wal, asked[s], q.at), IsFiniteSet(keys)
    PROVE  \E r : /\ Lands(wal, q, Landed(RowsFor(keys, s)), r)
                  /\ IsPoint(wal, asked, minted, r)
                  /\ r.at = q.at /\ r.known = q.known /\ r.live = q.live
                  /\ r.done = q.done /\ r.shown[s] = q.shown[s] \cup keys
                  /\ \A u \in Nat \ {s} : r.shown[u] = q.shown[u]
<1> DEFINE d == RowsFor(keys, s)
           e == Landed(d)
           shown == [q.shown EXCEPT ![s] = @ \cup KeysOf(d)]
           r == [at |-> q.at, known |-> q.known, live |-> q.live, done |-> q.done, shown |-> shown]
<1>1. keys \subseteq Keys
  BY DEF AnswerAt
<1>2. TellsRows(wal, q.at, d, s) /\ KeysOf(d) = keys
  BY <1>1, RowsTold
<1>3. e.kind = "landed" /\ e.deltas = d
  BY DEF Landed
<1> HIDE DEF d, e
<1>4. s \in Nat /\ s \in q.known /\ q.shown \in [Nat -> SUBSET Keys]
  BY DEF IsPoint
<1>5. /\ shown \in [Nat -> SUBSET Keys] /\ shown[s] = q.shown[s] \cup keys
      /\ \A u \in Nat \ {s} : shown[u] = q.shown[u]
  BY <1>1, <1>2, <1>4
<1>6. r.at = q.at /\ r.known = q.known /\ r.live = q.live /\ r.done = q.done /\ r.shown = shown
  OBVIOUS
<1>7. Lands(wal, q, e, r)
  BY <1>2, <1>3, <1>4, <1>6 DEF Lands
<1> HIDE DEF shown, r
<1>8. q.known \subseteq Nat /\ q.live \subseteq q.known
  BY DEF IsPoint
<1>9. \A u \in r.live : /\ r.shown[u] \subseteq AnswerAt(wal, asked[u], r.at)
                        /\ u \in r.done => r.shown[u] = AnswerAt(wal, asked[u], r.at)
  <2> SUFFICES ASSUME NEW u \in r.live
               PROVE  /\ r.shown[u] \subseteq AnswerAt(wal, asked[u], r.at)
                      /\ u \in r.done => r.shown[u] = AnswerAt(wal, asked[u], r.at)
    OBVIOUS
  <2>1. CASE u = s
    BY <1>5, <1>6, <2>1 DEF IsPoint
  <2>2. CASE u # s
    <3>1. u \in q.live /\ u \in Nat \ {s}
      BY <1>6, <1>8, <2>2
    <3> QED BY <1>5, <1>6, <3>1 DEF IsPoint
  <2> QED BY <2>1, <2>2
<1>u. \A u \in Nat \ r.known : r.shown[u] = {}
  BY <1>4, <1>5, <1>6 DEF IsPoint
<1>10. IsPoint(wal, asked, minted, r)
  BY <1>4, <1>5, <1>6, <1>9, <1>u DEF IsPoint
<1> QED BY <1>4, <1>5, <1>6, <1>7, <1>10 DEF e, d

\* Served whole.
LEMMA HydrateMoves ==
    ASSUME NEW asked, NEW q, IsPoint(wal, asked, minted, q), NEW s \in q.live,
           q.shown[s] = AnswerAt(wal, asked[s], q.at)
    PROVE  \E r : /\ Hydrates(q, Hydrated(s), r) /\ IsPoint(wal, asked, minted, r)
                  /\ r.at = q.at /\ r.known = q.known /\ r.live = q.live
                  /\ r.done = q.done \cup {s} /\ r.shown = q.shown
<1> DEFINE r == [at |-> q.at, known |-> q.known, live |-> q.live, done |-> q.done \cup {s},
                 shown |-> q.shown]
           e == Hydrated(s)
<1>1. e.kind = "hydrated" /\ e.token = s
  BY DEF Hydrated
<1>2. r.at = q.at /\ r.known = q.known /\ r.live = q.live /\ r.done = q.done \cup {s} /\ r.shown = q.shown
  OBVIOUS
<1> HIDE DEF r, e
<1>3. s \in q.known
  BY DEF IsPoint
<1>4. Hydrates(q, e, r)
  BY <1>1, <1>2, <1>3 DEF Hydrates
<1>5. IsPoint(wal, asked, minted, r)
  BY <1>2, <1>3 DEF IsPoint
<1> QED BY <1>2, <1>4, <1>5 DEF e

LEMMA RefuseMoves ==
    ASSUME NEW asked, NEW q, IsPoint(wal, asked, minted, q), NEW s
    PROVE  \E r : /\ Refuses(q, RefusedEvent(s), r) /\ IsPoint(wal, asked, minted, r)
                  /\ r.at = q.at /\ r.known = q.known /\ r.live = q.live \ {s}
                  /\ r.done = q.done /\ r.shown = q.shown
<1> DEFINE r == [at |-> q.at, known |-> q.known, live |-> q.live \ {s}, done |-> q.done,
                 shown |-> q.shown]
           e == RefusedEvent(s)
<1>1. e.kind = "refused" /\ e.token = s
  BY DEF RefusedEvent
<1>2. r.at = q.at /\ r.known = q.known /\ r.live = q.live \ {s} /\ r.done = q.done /\ r.shown = q.shown
  OBVIOUS
<1> HIDE DEF r, e
<1>4. Refuses(q, e, r)
  BY <1>1, <1>2 DEF Refuses
<1>5. IsPoint(wal, asked, minted, r)
  BY <1>2 DEF IsPoint
<1> QED BY <1>2, <1>4, <1>5 DEF e

\* A write routed.
LEMMA AnswerNext ==
    ASSUME NEW log, NEW at \in Nat, NEW h, NEW j
    PROVE  /\ log[at + 1].key # j =>
                (j \in AnswerAt(log, h, at + 1) <=> j \in AnswerAt(log, h, at))
           /\ log[at + 1].key = j =>
                (j \in AnswerAt(log, h, at + 1) <=> j \in Keys /\ InQuery(h, log[at + 1].value))
BY TableNext DEF AnswerAt

LEMMA RouteMoves ==
    ASSUME engine.position \in Nat, IsSeq(wal), engine.position + 1 <= Len(wal),
           NEW asked, NEW q, IsPoint(wal, asked, minted, q), q.at = engine.position,
           NEW value, value = wal[engine.position + 1].value,
           NEW k, k = wal[engine.position + 1].key,
           NEW holders, NEW leavers, holders \subseteq q.live, leavers \subseteq q.live,
           \A s \in q.live : s \in holders <=> k \in Keys /\ InQuery(asked[s], value),
           \A s \in q.live : s \in leavers <=> k \in q.shown[s] /\ s \notin holders,
           NEW d, TellsWrite(d, k, value, leavers, holders)
    PROVE  \E r : /\ Routes(wal, asked, q, CommittedEvent(engine.position + 1, d), r)
                  /\ IsPoint(wal, asked, minted, r)
                  /\ r.at = q.at + 1 /\ r.known = q.known /\ r.live = q.live /\ r.done = q.done
                  /\ Moved(asked, q, r, k, value, leavers, holders)
<1> DEFINE at == engine.position + 1
           After(s) == (q.shown[s] \ {k}) \cup (IF s \in holders THEN {k} ELSE {})
           shown == [s \in Nat |-> IF s \in q.live THEN After(s) ELSE q.shown[s]]
           r == [at |-> at, known |-> q.known, live |-> q.live, done |-> q.done, shown |-> shown]
           e == CommittedEvent(at, d)
<1>1. e.kind = "committed" /\ e.at = at /\ e.deltas = d
  BY DEF CommittedEvent
<1>2. r.at = q.at + 1 /\ r.known = q.known /\ r.live = q.live /\ r.done = q.done /\ r.shown = shown
  OBVIOUS
<1>3. q.live \subseteq q.known /\ q.known \subseteq Nat /\ q.shown \in [Nat -> SUBSET Keys] /\ minted = minted
  BY DEF IsPoint
<1>4. \A s \in holders : k \in Keys
  OBVIOUS
<1>5. \A s \in Nat : After(s) \subseteq Keys
  BY <1>3, <1>4
<1>6. shown \in [Nat -> SUBSET Keys] /\ \A s \in q.live : shown[s] = After(s)
  BY <1>3, <1>5
<1>6a. \A s \in Nat \ q.live : shown[s] = q.shown[s]
  OBVIOUS
<1> HIDE DEF e, r, shown
<1>7. Moved(asked, q, r, k, value, leavers, holders)
  <2>1. leavers \subseteq q.known /\ holders \subseteq q.known /\ leavers \cap holders = {}
    BY <1>3
  <2>2. \A s \in leavers : k \in Keys
    BY <1>3
  <2>3. ASSUME NEW s \in q.live
        PROVE  /\ s \in holders <=> k \in Keys /\ InQuery(asked[s], value)
               /\ s \in leavers <=> k \in q.shown[s] /\ s \notin holders
               /\ r.shown[s] = After(s)
    BY <1>2, <1>6
  <2> QED BY <1>4, <2>1, <2>2, <2>3 DEF Moved
<1>8. Routes(wal, asked, q, e, r)
  BY <1>1, <1>2, <1>7 DEF Routes
<1>9. ASSUME NEW s \in r.live
      PROVE  /\ r.shown[s] \subseteq AnswerAt(wal, asked[s], r.at)
             /\ s \in r.done => r.shown[s] = AnswerAt(wal, asked[s], r.at)
  <2>0. s \in q.live /\ r.shown[s] = After(s) /\ q.at \in Nat /\ r.at = q.at + 1
    BY <1>2, <1>6 DEF IsPoint
  <2>1. \A j : j # k =>
            (j \in AnswerAt(wal, asked[s], q.at + 1) <=> j \in AnswerAt(wal, asked[s], q.at))
    BY <2>0, AnswerNext
  <2>2. k \in AnswerAt(wal, asked[s], q.at + 1) <=> s \in holders
    BY <2>0, AnswerNext
  <2>3. q.shown[s] \subseteq AnswerAt(wal, asked[s], q.at)
    BY <2>0 DEF IsPoint
  <2>4. s \in q.done => q.shown[s] = AnswerAt(wal, asked[s], q.at)
    BY <2>0 DEF IsPoint
  <2> QED BY <1>2, <2>0, <2>1, <2>2, <2>3, <2>4
<1>10. \A s \in Nat \ r.known : r.shown[s] = {}
  BY <1>2, <1>3, <1>6a DEF IsPoint
<1>11. r.at \in Nat /\ Len(Earlier) <= r.at /\ r.at <= Len(wal)
  <2>1. Len(Earlier) \in Nat
    BY ConstantsAssumption
  <2>2. q.at \in Nat /\ Len(Earlier) <= q.at
    BY DEF IsPoint
  <2> QED BY <1>2, <2>1, <2>2
<1>12. IsPoint(wal, asked, minted, r)
  BY <1>2, <1>3, <1>6, <1>9, <1>10, <1>11 DEF IsPoint
<1> QED BY <1>2, <1>7, <1>8, <1>12 DEF e

LEMMA TwoAppended ==
    ASSUME NEW s, IsSeq(s), NEW a, NEW b
    PROVE  s \o <<a, b>> = Append(Append(s, a), b)
<1> DEFINE S == {s[i] : i \in DOMAIN s} \cup {a, b}
<1>1. s \in Seq(S) /\ a \in S /\ b \in S
  BY SeqMonotonic DEF IsSeq
<1> HIDE DEF S
<1> QED BY <1>1

\* The engine's records follow the point.
LEMMA EngineWith ==
    ASSUME NEW asked, NEW q, NEW eng, EngineAt(asked, q, eng), DOMAIN eng = {"position", "subs"},
           NEW s, NEW r, r.at = q.at, r.live = q.live \cup {s}, s \notin q.live,
           \A u \in q.live : r.shown[u] = q.shown[u] /\ (u \in r.done <=> u \in q.done),
           NEW x, DOMAIN x = {"hash", "settled", "shown"}, x.hash = asked[s], x.shown = r.shown[s],
           x.settled <=> s \in r.done
    PROVE  EngineAt(asked, r, [eng EXCEPT !.subs = With(@, s, x)])
<1> DEFINE f == With(eng.subs, s, x)
           also == [eng EXCEPT !.subs = f]
<1>1. DOMAIN f = DOMAIN eng.subs \cup {s} /\ f[s] = x /\ \A u \in DOMAIN eng.subs : u # s => f[u] = eng.subs[u]
  BY DEF With
<1>2. also.position = eng.position /\ also.subs = f /\ also = [eng EXCEPT !.subs = With(@, s, x)]
  OBVIOUS
<1> HIDE DEF f, also
<1>3. \A u \in DOMAIN f : u = s \/ (u # s /\ u \in DOMAIN eng.subs /\ u \in q.live)
  BY <1>1 DEF EngineAt
<1>4. EngineAt(asked, r, also)
  <2>1. /\ q.at = eng.position /\ q.live = DOMAIN eng.subs
        /\ \A u \in DOMAIN eng.subs :
             /\ DOMAIN eng.subs[u] = {"hash", "settled", "shown"}
             /\ eng.subs[u].hash = asked[u] /\ eng.subs[u].shown = q.shown[u]
             /\ eng.subs[u].settled <=> u \in q.done
    BY DEF EngineAt
  <2>2. r.at = also.position /\ r.live = DOMAIN also.subs
    BY <1>1, <1>2, <2>1
  <2>3. ASSUME NEW u \in DOMAIN f
        PROVE  /\ DOMAIN f[u] = {"hash", "settled", "shown"}
               /\ f[u].hash = asked[u] /\ f[u].shown = r.shown[u] /\ (f[u].settled <=> u \in r.done)
    <3>1. CASE u = s
      BY <1>1, <3>1
    <3>2. CASE u # s
      <4>1. f[u] = eng.subs[u] /\ u \in DOMAIN eng.subs /\ u \in q.live
        BY <1>1, <1>3, <2>3, <3>2
      <4> QED BY <2>1, <4>1
    <3> QED BY <3>1, <3>2
  <2>4. PICK subs : subs = also.subs
    OBVIOUS
  <2>5. \A u \in DOMAIN subs :
           /\ DOMAIN subs[u] = {"hash", "settled", "shown"}
           /\ subs[u].hash = asked[u] /\ subs[u].shown = r.shown[u] /\ (subs[u].settled <=> u \in r.done)
    BY <1>2, <2>3, <2>4
  <2> QED BY <2>2, <2>4, <2>5 DEF EngineAt
<1> QED BY <1>2, <1>4

LEMMA EngineSet ==
    ASSUME NEW asked, NEW q, NEW eng, EngineAt(asked, q, eng), DOMAIN eng = {"position", "subs"},
           NEW s \in q.live, NEW r, r.at = q.at, r.live = q.live,
           \A u \in q.live \ {s} : r.shown[u] = q.shown[u] /\ (u \in r.done <=> u \in q.done),
           s \in r.done, NEW answer, r.shown[s] = answer
    PROVE  EngineAt(asked, r, [eng EXCEPT !.subs[s].settled = TRUE, !.subs[s].shown = answer])
<1> DEFINE also == [eng EXCEPT !.subs[s].settled = TRUE, !.subs[s].shown = answer]
<1>0. s \in DOMAIN eng.subs
  BY DEF EngineAt
<1>1. also.position = eng.position /\ DOMAIN also.subs = DOMAIN eng.subs
  OBVIOUS
<1>2. \A u \in DOMAIN eng.subs : u # s => also.subs[u] = eng.subs[u]
  OBVIOUS
<1>3. also.subs[s] = [eng.subs[s] EXCEPT !.settled = TRUE, !.shown = answer]
  BY <1>0
<1> HIDE DEF also
<1>4. DOMAIN eng.subs[s] = {"hash", "settled", "shown"} /\ eng.subs[s].hash = asked[s]
  BY <1>0 DEF EngineAt
<1>5. /\ DOMAIN also.subs[s] = {"hash", "settled", "shown"} /\ also.subs[s].hash = asked[s]
      /\ also.subs[s].settled = TRUE /\ also.subs[s].shown = answer
  BY <1>3, <1>4
<1>6. \A u \in DOMAIN eng.subs : u = s \/ u \in q.live \ {s}
  BY DEF EngineAt
<1>7. EngineAt(asked, r, also)
  BY <1>1, <1>2, <1>5, <1>6 DEF EngineAt
<1> QED BY <1>7 DEF also

LEMMA EngineLess ==
    ASSUME NEW asked, NEW q, NEW eng, EngineAt(asked, q, eng), DOMAIN eng = {"position", "subs"},
           NEW T, NEW r, r.at = q.at, r.live = q.live \ T, r.shown = q.shown, r.done = q.done
    PROVE  EngineAt(asked, r, [eng EXCEPT !.subs = Restrict(@, DOMAIN @ \ T)])
<1> DEFINE f == Restrict(eng.subs, DOMAIN eng.subs \ T)
           also == [eng EXCEPT !.subs = f]
<1>1. DOMAIN f = DOMAIN eng.subs \ T /\ \A u \in DOMAIN f : f[u] = eng.subs[u]
  BY DEF Restrict
<1>2. also.position = eng.position /\ also.subs = f /\ also = [eng EXCEPT !.subs = Restrict(@, DOMAIN @ \ T)]
  OBVIOUS
<1> HIDE DEF f, also
<1>3. /\ q.at = eng.position /\ q.live = DOMAIN eng.subs
      /\ \A u \in DOMAIN f :
            /\ DOMAIN f[u] = {"hash", "settled", "shown"}
            /\ f[u].hash = asked[u] /\ f[u].shown = q.shown[u]
            /\ f[u].settled <=> u \in q.done
  BY <1>1 DEF EngineAt
<1>4. r.at = also.position /\ r.live = DOMAIN also.subs
  BY <1>1, <1>2, <1>3
<1>5. \A u \in DOMAIN also.subs :
        /\ DOMAIN also.subs[u] = {"hash", "settled", "shown"}
        /\ also.subs[u].hash = asked[u] /\ also.subs[u].shown = r.shown[u]
        /\ also.subs[u].settled <=> u \in r.done
  BY <1>2, <1>3
<1>6. EngineAt(asked, r, also)
  BY <1>4, <1>5 DEF EngineAt
<1> QED BY <1>2, <1>6

\* A registration taken, the command's token told registered.
LEMMA AskedTaken ==
    ASSUME Registry, NEW asked, NEW q, AskedFor(asked, q, commands, events, awaiting),
           commands # <<>>, Head(commands).kind = "register", NEW s, s = Head(commands).token
    PROVE  /\ s \notin q.known /\ asked[s] = Head(commands).hash /\ s \in 1 .. minted
           /\ s \notin Heralds(events) \cup Refusals(events) \cup DOMAIN engine.subs
           /\ \A r, es : r.known = q.known \cup {s} /\ Heralds(es) = Heralds(events) \cup {s} =>
                AskedFor(asked, r, Tail(commands), es, awaiting)
<1>0. IsSeq(commands) /\ AskedOnce(commands)
  BY DEF Registry
<1>1. ToSet(commands) = ToSet(Tail(commands)) \cup {Head(commands)}
  BY <1>0, MemberTaken
<1>2. s \in Asks(commands) /\ Asks(Tail(commands)) = Asks(commands) \ {s}
  BY <1>0, CommandTaken
<1>3. s \notin q.known /\ asked[s] = Head(commands).hash
  BY <1>1 DEF AskedFor
<1>4. s \in 1 .. minted /\ s \notin Heralds(events) \cup Refusals(events) \cup DOMAIN engine.subs
  BY <1>2 DEF Registry, Owned
<1>5. ASSUME NEW r, NEW es, r.known = q.known \cup {s}, Heralds(es) = Heralds(events) \cup {s}
      PROVE  AskedFor(asked, r, Tail(commands), es, awaiting)
  <2>1. ASSUME NEW m \in ToSet(Tail(commands)), m.kind = "register"
        PROVE  m.token \notin r.known /\ asked[m.token] = m.hash
    <3>1. m.token \in Asks(Tail(commands)) /\ m \in ToSet(commands)
      BY <1>1, <2>1 DEF Asks
    <3>2. m.token # s
      BY <1>2, <3>1
    <3> QED BY <1>5, <2>1, <3>1, <3>2 DEF AskedFor
  <2>2. Asks(Tail(commands)) \cup Heralds(es) = Asks(commands) \cup Heralds(events)
    BY <1>2, <1>5
  <2> QED BY <2>1, <2>2 DEF AskedFor
<1> QED BY <1>3, <1>4, <1>5

LEMMA AskedLeft ==
    ASSUME NEW asked, NEW q, NEW es, AskedFor(asked, q, commands, es, awaiting),
           NEW cs, ToSet(cs) \subseteq ToSet(commands),
           NEW r, r.known = q.known, NEW fs, Heralds(fs) \subseteq Heralds(es)
    PROVE  AskedFor(asked, r, cs, fs, awaiting)
<1>1. Asks(cs) \subseteq Asks(commands)
  BY DEF Asks
<1> QED BY <1>1 DEF AskedFor

LEMMA RegisterTracked ==
    ASSUME Feed, Registry, NEW asked, NEW p, NEW q, Tracked(asked, p, q), TakeRegister
    PROVE  \E r : Tracked(asked, p, r)'
<1> DEFINE s == Head(commands).token
           answer == Answer(Head(commands).hash, engine.position)
           Sub(settled, shown) == [hash |-> Head(commands).hash, settled |-> settled, shown |-> shown]
<1>0. /\ IsSeq(events) /\ IsEvents(events) /\ engine.position \in Nat /\ minted \in Nat
      /\ DOMAIN engine = {"position", "subs"} /\ HeardInOrder(events)
  BY DEF Feed, IsEvents, Registry
<1>1. /\ commands # <<>> /\ Head(commands).kind = "register" /\ commands' = Tail(commands)
      /\ UNCHANGED <<wal, awaiting, minted>>
  BY DEF TakeRegister, thread
<1>2. /\ DOMAIN asked = Nat /\ Course(wal, asked, minted, events, p, q)
      /\ EngineAt(asked, q, engine) /\ AskedFor(asked, q, commands, events, awaiting)
  BY DEF Tracked
<1>3. IsPoint(wal, asked, minted, q) /\ q.at = engine.position
  BY <1>0, <1>2, CourseEnds DEF EngineAt
<1>4. /\ s \notin q.known /\ asked[s] = Head(commands).hash /\ s \in 1 .. minted
      /\ s \notin Heralds(events) \cup Refusals(events) \cup DOMAIN engine.subs
      /\ \A r, es : r.known = q.known \cup {s} /\ Heralds(es) = Heralds(events) \cup {s} =>
                AskedFor(asked, r, Tail(commands), es, awaiting)
  BY <1>1, <1>2, AskedTaken
<1>5. s \notin q.live /\ s \notin q.done
  BY <1>3, <1>4 DEF IsPoint
<1>6. answer = AnswerAt(wal, asked[s], q.at) /\ IsFiniteSet(answer)
  BY <1>0, <1>3, <1>4, TableIs, AnswerFinite
<1> HIDE DEF s, answer
<1> DEFINE Wider(keys, es, r) ==
               /\ Course(wal, asked, minted, es, p, r) /\ IsPoint(wal, asked, minted, r)
               /\ IsSeq(es) /\ HeardInOrder(es) /\ Heralds(es) = Heralds(events) \cup {s}
               /\ r.at = q.at /\ r.known = q.known \cup {s} /\ r.live = q.live \cup {s}
               /\ r.done = q.done /\ r.shown[s] = keys
               /\ \A u \in q.live : r.shown[u] = q.shown[u]
<1>7. ASSUME NEW keys \in SUBSET answer, IsFiniteSet(keys)
      PROVE  \E r : Wider(keys, Append(events, Registered(s, RowsFor(keys, s))), r)
  <2> DEFINE es == Append(events, Registered(s, RowsFor(keys, s)))
             e == Registered(s, RowsFor(keys, s))
  <2>1. PICK r : /\ Registers(wal, q, e, r)
                 /\ IsPoint(wal, asked, minted, r) /\ s \notin r.done
                 /\ r.at = q.at /\ r.known = q.known \cup {s} /\ r.live = q.live \cup {s}
                 /\ r.done = q.done /\ r.shown[s] = keys
                 /\ \A u \in Nat \ {s} : r.shown[u] = q.shown[u]
    BY <1>0, <1>3, <1>4, <1>6, <1>7, RegisterMoves
  <2>2. e.kind = "registered" /\ e.token = s
    BY DEF Registered
  <2>e. es = Append(events, e)
    OBVIOUS
  <2> HIDE DEF e, es
  <2>3. Course(wal, asked, minted, es, p, r)
    BY <1>0, <1>2, <2>1, <2>e, CourseTold DEF Moves
  <2>4. IsSeq(es) /\ HeardInOrder(es) /\ Heralds(es) = Heralds(events) \cup {s}
    BY <1>0, <1>4, <2>2, <2>e, EventSent
  <2>5. \A u \in q.live : u \in Nat \ {s}
    BY <1>3, <1>5 DEF IsPoint
  <2>6. Wider(keys, es, r)
    BY <2>1, <2>3, <2>4, <2>5
  <2> HIDE DEF Wider
  <2> QED BY <2>6 DEF es, e
<1>8. CASE /\ engine' = [engine EXCEPT !.subs = With(@, s, Sub(FALSE, {}))]
           /\ events' = Append(events, Registered(s, <<>>))
  <2>1. IsFiniteSet({}) /\ {} \in SUBSET answer
    BY FS_EmptySet
  <2>2. RowsFor({}, s) = <<>>
    <3>1. SetToSeq({}) \in Seq({}) /\ Len(SetToSeq({})) = 0
      BY FS_EmptySet, ListedOnce
    <3>2. {Delta(k, RowsAt(engine.position)[k], {s}) : k \in {}} = {}
      OBVIOUS
    <3>3. \A x \in Seq({}) : Len(x) = 0 => x = <<>>
      OBVIOUS
    <3> QED BY <3>1, <3>2, <3>3 DEF RowsFor
  <2>3. PICK r : Wider({}, events', r)
    <3> HIDE DEF Wider
    <3> QED BY <1>7, <1>8, <2>1, <2>2
  <2>4. AskedFor(asked, r, commands', events', awaiting)
    BY <1>1, <1>4, <2>3
  <2>5. EngineAt(asked, r, engine')
    BY <1>0, <1>2, <1>4, <1>5, <1>8, <2>3, EngineWith
  <2> QED BY <1>1, <1>2, <2>3, <2>4, <2>5 DEF Tracked
<1>9. CASE /\ engine' = [engine EXCEPT !.subs = With(@, s, Sub(TRUE, answer))]
           /\ events' = events \o <<Registered(s, RowsFor(answer, s)), Hydrated(s)>>
  <2> DEFINE es == Append(events, Registered(s, RowsFor(answer, s)))
             h == Hydrated(s)
  <2>1. PICK r : Wider(answer, es, r)
    <3> HIDE DEF Wider
    <3> QED BY <1>6, <1>7
  <2>2. events' = Append(es, h)
    BY <1>0, <1>9, TwoAppended
  <2> HIDE DEF es
  <2>3. PICK z : /\ Hydrates(r, h, z) /\ IsPoint(wal, asked, minted, z)
                 /\ z.at = r.at /\ z.known = r.known /\ z.live = r.live
                 /\ z.done = r.done \cup {s} /\ z.shown = r.shown
    BY <1>6, <2>1, HydrateMoves
  <2>4. h.kind \notin {"registered", "refused"}
    BY DEF Hydrated
  <2> HIDE DEF h
  <2>5. Course(wal, asked, minted, events', p, z)
    BY <2>1, <2>2, <2>3, CourseTold DEF Moves
  <2>6. Heralds(events') = Heralds(events) \cup {s}
    BY <2>1, <2>2, <2>4, EventSent
  <2>7. AskedFor(asked, z, commands', events', awaiting)
    BY <1>1, <1>4, <2>1, <2>3, <2>6
  <2>8. z.at = q.at /\ z.live = q.live \cup {s} /\ s \in z.done /\ z.shown[s] = answer
    BY <2>1, <2>3
  <2>9. \A u \in q.live : z.shown[u] = q.shown[u] /\ (u \in z.done <=> u \in q.done)
    BY <1>5, <2>1, <2>3
  <2>10. EngineAt(asked, z, engine')
    BY <1>0, <1>2, <1>4, <1>5, <1>9, <2>8, <2>9, EngineWith
  <2> QED BY <1>1, <1>2, <2>5, <2>7, <2>10 DEF Tracked
<1> QED BY <1>8, <1>9 DEF TakeRegister, s, answer

LEMMA LandTracked ==
    ASSUME Feed, Registry, NEW asked, NEW p, NEW q, Tracked(asked, p, q),
           NEW s \in DOMAIN engine.subs, Land(s)
    PROVE  \E r : Tracked(asked, p, r)'
<1> DEFINE answer == Answer(engine.subs[s].hash, engine.position)
           arrived == RowsFor(answer \ engine.subs[s].shown, s)
           h == Hydrated(s)
           l == Landed(arrived)
<1>0. /\ IsSeq(events) /\ engine.position \in Nat /\ minted \in Nat
      /\ DOMAIN engine = {"position", "subs"} /\ HeardInOrder(events)
  BY DEF Feed, IsEvents, Registry
<1>1. /\ ~engine.subs[s].settled
      /\ engine' = [engine EXCEPT !.subs[s].settled = TRUE, !.subs[s].shown = answer]
      /\ events' = events \o (IF arrived = <<>> THEN <<>> ELSE <<l>>) \o <<h>>
      /\ UNCHANGED <<wal, awaiting, minted, commands>>
  BY DEF Land, thread
<1>2. /\ DOMAIN asked = Nat /\ Course(wal, asked, minted, events, p, q)
      /\ EngineAt(asked, q, engine) /\ AskedFor(asked, q, commands, events, awaiting)
  BY DEF Tracked
<1>3. /\ IsPoint(wal, asked, minted, q) /\ q.at = engine.position /\ s \in q.live /\ s \notin q.done
      /\ engine.subs[s].hash = asked[s] /\ engine.subs[s].shown = q.shown[s]
  BY <1>0, <1>1, <1>2, CourseEnds DEF EngineAt
<1>4. answer = AnswerAt(wal, asked[s], q.at) /\ IsFiniteSet(answer)
  BY <1>0, <1>3, TableIs, AnswerFinite
<1> HIDE DEF answer
<1>5. answer \ q.shown[s] \in SUBSET answer /\ IsFiniteSet(answer \ q.shown[s])
  BY <1>4, FS_Subset
<1>6. arrived = RowsFor(answer \ q.shown[s], s) /\ q.shown[s] \subseteq answer
  BY <1>3, <1>4 DEF IsPoint
<1> HIDE DEF arrived
<1>7. \E r, es : /\ events' = Append(es, h) /\ IsSeq(es) /\ HeardInOrder(es) /\ Heralds(es) = Heralds(events)
                 /\ Course(wal, asked, minted, es, p, r) /\ IsPoint(wal, asked, minted, r)
                 /\ r.at = q.at /\ r.known = q.known /\ r.live = q.live /\ r.done = q.done
                 /\ r.shown[s] = answer
                 /\ \A u \in q.live \ {s} : r.shown[u] = q.shown[u]
  <2>1. CASE arrived = <<>>
    <3>1. events' = Append(events, h)
      BY <1>0, <1>1, <2>1, AfterNothing, Appended
    <3>2. answer \ q.shown[s] = {}
      <4>1. answer \subseteq Keys
        BY <1>4 DEF AnswerAt
      <4> QED BY <1>0, <1>5, <1>6, <2>1, <4>1, RowsTold
    <3>3. q.shown[s] = answer
      BY <1>6, <3>2
    <3> QED BY <1>0, <1>2, <1>3, <3>1, <3>3
  <2>2. CASE arrived # <<>>
    <3> DEFINE es == Append(events, l)
    <3>1. events \o <<l>> = es
      BY <1>0, Appended
    <3>2. l.kind \notin {"registered", "refused"}
      BY DEF Landed
    <3>3. IsSeq(es) /\ HeardInOrder(es) /\ Heralds(es) = Heralds(events)
      BY <1>0, <3>2, EventSent
    <3>4. events' = Append(es, h)
      BY <1>1, <2>2, <3>1, <3>3, Appended
    <3> HIDE DEF es
    <3>5. PICK r : /\ Lands(wal, q, l, r) /\ IsPoint(wal, asked, minted, r)
                   /\ r.at = q.at /\ r.known = q.known /\ r.live = q.live
                   /\ r.done = q.done /\ r.shown[s] = q.shown[s] \cup (answer \ q.shown[s])
                   /\ \A u \in Nat \ {s} : r.shown[u] = q.shown[u]
      <4>1. answer \ q.shown[s] \subseteq AnswerAt(wal, asked[s], q.at)
        BY <1>4
      <4> QED BY <1>0, <1>3, <1>5, <1>6, <4>1, LandMoves
    <3>6. r.shown[s] = answer
      BY <1>6, <3>5
    <3>7. \A u \in q.live \ {s} : u \in Nat \ {s}
      BY <1>3 DEF IsPoint
    <3>8. Course(wal, asked, minted, es, p, r)
      BY <1>0, <1>2, <3>5, CourseTold DEF Moves, es
    <3> QED BY <3>3, <3>4, <3>5, <3>6, <3>7, <3>8
  <2> QED BY <2>1, <2>2
<1>8. PICK r, es :
            /\ events' = Append(es, h) /\ IsSeq(es) /\ HeardInOrder(es) /\ Heralds(es) = Heralds(events)
            /\ Course(wal, asked, minted, es, p, r) /\ IsPoint(wal, asked, minted, r)
            /\ r.at = q.at /\ r.known = q.known /\ r.live = q.live /\ r.done = q.done
            /\ r.shown[s] = answer
            /\ \A u \in q.live \ {s} : r.shown[u] = q.shown[u]
  BY <1>7
<1>9. PICK z : /\ Hydrates(r, h, z) /\ IsPoint(wal, asked, minted, z)
               /\ z.at = r.at /\ z.known = r.known /\ z.live = r.live
               /\ z.done = r.done \cup {s} /\ z.shown = r.shown
  BY <1>3, <1>4, <1>8, HydrateMoves
<1>10. h.kind \notin {"registered", "refused"}
  BY DEF Hydrated
<1> HIDE DEF h
<1>11. Course(wal, asked, minted, events', p, z)
  BY <1>8, <1>9, CourseTold DEF Moves
<1>12. Heralds(events') = Heralds(events)
  BY <1>8, <1>10, EventSent
<1>13. AskedFor(asked, z, commands', events', awaiting)
  BY <1>1, <1>2, <1>8, <1>9, <1>12 DEF AskedFor
<1>14. z.at = q.at /\ z.live = q.live /\ s \in z.done /\ z.shown[s] = answer
  BY <1>8, <1>9
<1>15. \A u \in q.live \ {s} : z.shown[u] = q.shown[u] /\ (u \in z.done <=> u \in q.done)
  BY <1>8, <1>9
<1>16. EngineAt(asked, z, engine')
  BY <1>0, <1>1, <1>2, <1>3, <1>14, <1>15, EngineSet, Zenon
<1> QED BY <1>1, <1>2, <1>11, <1>13, <1>16 DEF Tracked

LEMMA RefuseReadTracked ==
    ASSUME Feed, Registry, NEW asked, NEW p, NEW q, Tracked(asked, p, q),
           NEW s \in DOMAIN engine.subs, RefuseRead(s)
    PROVE  \E r : Tracked(asked, p, r)'
<1> DEFINE e == RefusedEvent(s)
<1>0. /\ IsSeq(events) /\ engine.position \in Nat
      /\ DOMAIN engine = {"position", "subs"} /\ HeardInOrder(events)
  BY DEF Feed, IsEvents, Registry
<1>1. /\ engine' = [engine EXCEPT !.subs = Restrict(@, DOMAIN @ \ {s})]
      /\ events' = Append(events, e)
      /\ UNCHANGED <<wal, awaiting, minted, commands>>
  BY DEF RefuseRead, thread
<1>2. /\ DOMAIN asked = Nat /\ Course(wal, asked, minted, events, p, q)
      /\ EngineAt(asked, q, engine) /\ AskedFor(asked, q, commands, events, awaiting)
  BY DEF Tracked
<1>3. IsPoint(wal, asked, minted, q)
  BY <1>0, <1>2, CourseEnds
<1>4. PICK r : /\ Refuses(q, e, r) /\ IsPoint(wal, asked, minted, r)
               /\ r.at = q.at /\ r.known = q.known /\ r.live = q.live \ {s}
               /\ r.done = q.done /\ r.shown = q.shown
  BY <1>3, RefuseMoves
<1>5. e.kind = "refused"
  BY DEF RefusedEvent
<1> HIDE DEF e
<1>6. Course(wal, asked, minted, events', p, r)
  BY <1>0, <1>1, <1>2, <1>4, CourseTold DEF Moves
<1>7. Heralds(events') = Heralds(events)
  BY <1>0, <1>1, <1>5, EventSent
<1>8. AskedFor(asked, r, commands', events', awaiting)
  BY <1>1, <1>2, <1>4, <1>7 DEF AskedFor
<1>9. EngineAt(asked, r, engine')
  BY <1>0, <1>1, <1>2, <1>4, EngineLess
<1> QED BY <1>1, <1>2, <1>6, <1>8, <1>9 DEF Tracked

LEMMA RouteTracked ==
    ASSUME Feed, Registry, NEW asked, NEW p, NEW q, Tracked(asked, p, q), Route
    PROVE  \E r : Tracked(asked, p, r)'
<1> DEFINE at == engine.position + 1
           k == wal[at].key
           value == wal[at].value
           live == DOMAIN engine.subs
           holders == {s \in live : k \in Keys /\ InQuery(engine.subs[s].hash, value)}
           leavers == {s \in live : k \in engine.subs[s].shown} \ holders
           After(s) == (engine.subs[s].shown \ {k}) \cup (IF s \in holders THEN {k} ELSE {})
           d == (IF leavers = {} THEN <<>> ELSE <<Delta(k, NoRow, leavers)>>)
                    \o (IF holders = {} THEN <<>> ELSE <<Delta(k, value, holders)>>)
           e == CommittedEvent(at, d)
<1>0. /\ IsSeq(events) /\ engine.position \in Nat /\ IsSeq(wal)
      /\ DOMAIN engine = {"position", "subs"} /\ HeardInOrder(events)
  BY DEF Feed, IsEvents, Registry
<1>1. /\ at <= Len(wal)
      /\ engine' = [position |-> at, subs |-> [s \in live |-> [engine.subs[s] EXCEPT !.shown = After(s)]]]
      /\ events' = Append(events, e)
      /\ UNCHANGED <<wal, awaiting, minted, commands>>
  BY DEF Route, thread
<1>2. /\ DOMAIN asked = Nat /\ Course(wal, asked, minted, events, p, q)
      /\ EngineAt(asked, q, engine) /\ AskedFor(asked, q, commands, events, awaiting)
  BY DEF Tracked
<1>3. IsPoint(wal, asked, minted, q) /\ q.at = engine.position /\ q.live = live
  BY <1>0, <1>2, CourseEnds DEF EngineAt
<1>4. \A s \in live : /\ engine.subs[s].hash = asked[s] /\ engine.subs[s].shown = q.shown[s]
                      /\ DOMAIN engine.subs[s] = {"hash", "settled", "shown"}
                      /\ engine.subs[s].settled <=> s \in q.done
  BY <1>2 DEF EngineAt
<1>5. holders \subseteq q.live /\ \A s \in q.live : s \in holders <=> k \in Keys /\ InQuery(asked[s], value)
  BY <1>3, <1>4
<1>6. leavers \subseteq q.live /\ \A s \in q.live : s \in leavers <=> k \in q.shown[s] /\ s \notin holders
  BY <1>3, <1>4
<1>7. TellsWrite(d, k, value, leavers, holders)
  BY DEF TellsWrite
<1>8. \A s \in live : After(s) = (q.shown[s] \ {k}) \cup (IF s \in holders THEN {k} ELSE {})
  BY <1>4
<1>a. DOMAIN [s \in live |-> [engine.subs[s] EXCEPT !.shown = After(s)]] = live
  OBVIOUS
<1>b. \A s \in live : /\ DOMAIN engine'.subs[s] = {"hash", "settled", "shown"}
                      /\ engine'.subs[s].hash = asked[s] /\ engine'.subs[s].shown = After(s)
                      /\ engine'.subs[s].settled <=> s \in q.done
  BY <1>1, <1>4, Zenon
<1>c. engine'.position = at /\ DOMAIN engine'.subs = live
  BY <1>1
<1>d. /\ k = wal[engine.position + 1].key /\ value = wal[engine.position + 1].value
      /\ engine.position + 1 <= Len(wal) /\ e = CommittedEvent(engine.position + 1, d)
  BY <1>1
<1>e. at = engine.position + 1
  OBVIOUS
<1> HIDE DEF holders, leavers, d, After, live, k, value, at, e
<1>9. PICK r : /\ Routes(wal, asked, q, e, r) /\ IsPoint(wal, asked, minted, r)
               /\ r.at = q.at + 1 /\ r.known = q.known /\ r.live = q.live /\ r.done = q.done
               /\ Moved(asked, q, r, k, value, leavers, holders)
  BY <1>0, <1>3, <1>5, <1>6, <1>7, <1>d, RouteMoves
<1>10. e.kind = "committed"
  BY <1>d DEF CommittedEvent
<1>11. Course(wal, asked, minted, events', p, r)
  BY <1>0, <1>1, <1>2, <1>9, CourseTold DEF Moves
<1>12. Heralds(events') = Heralds(events)
  BY <1>0, <1>1, <1>10, EventSent
<1>13. AskedFor(asked, r, commands', events', awaiting)
  BY <1>1, <1>2, <1>9, <1>12 DEF AskedFor
<1>14. ASSUME NEW s \in live
       PROVE  engine'.subs[s].shown = r.shown[s] /\ (engine'.subs[s].settled <=> s \in r.done)
  <2>1. s \in q.live /\ engine'.subs[s].shown = After(s)
    BY <1>b, <1>3
  <2>2. After(s) = r.shown[s]
    BY <1>8, <1>9, <2>1 DEF Moved
  <2>3. engine'.subs[s].settled <=> s \in q.done
    BY <1>b
  <2> QED BY <1>9, <2>1, <2>2, <2>3
<1>15. EngineAt(asked, r, engine')
  BY <1>b, <1>c, <1>d, <1>e, <1>3, <1>9, <1>14 DEF EngineAt
<1> QED BY <1>1, <1>2, <1>11, <1>13, <1>15 DEF Tracked

\* Nothing the course is about.
TrackStill == UNCHANGED <<wal, engine, commands, events, awaiting, minted>>

LEMMA StillTracked ==
    ASSUME NEW asked, NEW p, NEW q, Tracked(asked, p, q), TrackStill
    PROVE  Tracked(asked, p, q)'
BY DEF Tracked, TrackStill

LEMMA CommitTracked ==
    ASSUME Feed, NEW asked, NEW p, NEW q, Tracked(asked, p, q), NEW c, Committed(c)
    PROVE  Tracked(asked, p, q)'
<1>1. wal' = Append(wal, c) /\ UNCHANGED <<engine, commands, events, awaiting, minted>>
  BY DEF Committed, thread
<1>2. Course(Append(wal, c), asked, minted, events, p, q)
  BY CourseLogged DEF Feed, IsEvents, Tracked
<1> QED BY <1>1, <1>2 DEF Tracked

LEMMA LetGoTracked ==
    ASSUME Registry, NEW asked, NEW p, NEW q, Tracked(asked, p, q),
           UNCHANGED <<wal, engine, events, awaiting, minted>>,
           \/ commands' = commands
           \/ \E T : commands' = Append(commands, [kind |-> "unregister", tokens |-> T])
    PROVE  Tracked(asked, p, q)'
<1>1. CASE commands' = commands
  BY <1>1 DEF Tracked
<1>2. ASSUME NEW T, commands' = Append(commands, [kind |-> "unregister", tokens |-> T])
      PROVE  Tracked(asked, p, q)'
  <2> DEFINE c == [kind |-> "unregister", tokens |-> T]
  <2>1. commands' = Append(commands, c) /\ c.kind = "unregister" /\ IsSeq(commands) /\ AskedOnce(commands)
    BY <1>2 DEF Registry
  <2> HIDE DEF c
  <2>2. Asks(commands') = Asks(commands) /\ ToSet(commands') = ToSet(commands) \cup {c}
    BY <2>1, CommandSent, MemberAdded
  <2>3. AskedFor(asked, q, commands', events, awaiting)
    <3>1. AskedFor(asked, q, commands, events, awaiting)
      BY DEF Tracked
    <3> QED BY <2>1, <2>2, <3>1 DEF AskedFor
  <2> QED BY <2>3 DEF Tracked
<1> QED BY <1>1, <1>2

\* What the engine lets go is neither the group's nor on its way to it.
LEMMA UnregisterTracked ==
    ASSUME Feed, Registry, NEW asked, NEW p, NEW q, Tracked(asked, p, q), TakeUnregister
    PROVE  \E T : T \cap SubsOf(group.queries) = {} /\ Tracked(asked, Less(p, T), Less(q, T))'
<1>a. PICK T : T = Head(commands).tokens
  OBVIOUS
<1>0. /\ IsSeq(events) /\ IsSeq(commands) /\ AskedOnce(commands) /\ DOMAIN engine = {"position", "subs"}
      /\ Owned(Asks(commands), Heralds(events), DOMAIN engine.subs, SubsOf(group.queries),
               Releases(commands), Refusals(events), minted)
  BY DEF Registry, Feed, IsEvents
<1>1. /\ commands # <<>> /\ Head(commands).kind = "unregister" /\ commands' = Tail(commands)
      /\ engine' = [engine EXCEPT !.subs = Restrict(@, DOMAIN @ \ T)]
      /\ UNCHANGED <<wal, events, awaiting, minted>>
  BY <1>a DEF TakeUnregister, thread
<1>2. Releases(Tail(commands)) \cup T = Releases(commands)
  BY <1>0, <1>1, <1>a, CommandTaken
<1>3. T \cap SubsOf(group.queries) = {} /\ Heralds(events) \cap T = {}
  BY <1>0, <1>2 DEF Owned
<1>4. /\ DOMAIN asked = Nat /\ Course(wal, asked, minted, events, p, q)
      /\ EngineAt(asked, q, engine) /\ AskedFor(asked, q, commands, events, awaiting)
  BY DEF Tracked
<1>5. Course(wal, asked, minted, events, Less(p, T), Less(q, T))
  BY <1>0, <1>3, <1>4, CourseLess
<1>6. /\ Less(q, T).at = q.at /\ Less(q, T).live = q.live \ T /\ Less(q, T).known = q.known
      /\ Less(q, T).shown = q.shown /\ Less(q, T).done = q.done
  BY DEF Less
<1>7. EngineAt(asked, Less(q, T), engine')
  BY <1>0, <1>1, <1>4, <1>6, EngineLess
<1>8. ToSet(commands') \subseteq ToSet(commands) /\ Heralds(events) \subseteq Heralds(events)
  BY <1>0, <1>1, MemberTaken
<1>9. AskedFor(asked, Less(q, T), commands', events, awaiting)
  BY <1>4, <1>6, <1>8, AskedLeft
<1>10. Tracked(asked, Less(p, T), Less(q, T))'
  BY <1>1, <1>4, <1>5, <1>7, <1>9 DEF Tracked
<1> QED BY <1>3, <1>10

LEMMA RegisteringTracked ==
    ASSUME Feed, Registry, NEW asked, NEW p, NEW q, Tracked(asked, p, q), NEW h, Registering(h),
           UNCHANGED <<wal, engine, events>>
    PROVE  \E also : Tracked(also, p, q)' /\ \A s \in 1 .. minted : also[s] = asked[s]
<1>a. PICK also : also = [asked EXCEPT ![minted + 1] = h]
  OBVIOUS
<1> DEFINE c == [kind |-> "register", token |-> minted + 1, hash |-> h]
<1>0. /\ IsSeq(events) /\ minted \in Nat /\ IsSeq(commands) /\ AskedOnce(commands)
      /\ Owned(Asks(commands), Heralds(events), DOMAIN engine.subs, SubsOf(group.queries),
               Releases(commands), Refusals(events), minted)
  BY DEF Registry, Feed, IsEvents
<1>1. minted' = minted + 1 /\ awaiting' = With(awaiting, minted + 1, h) /\ commands' = Append(commands, c)
  BY DEF Registering
<1>2. /\ DOMAIN asked = Nat /\ Course(wal, asked, minted, events, p, q)
      /\ EngineAt(asked, q, engine) /\ AskedFor(asked, q, commands, events, awaiting)
  BY DEF Tracked
<1>3. /\ DOMAIN also = Nat /\ also[minted + 1] = h /\ minted + 1 \in Nat
      /\ \A s \in 1 .. minted : also[s] = asked[s] /\ s # minted + 1
  BY <1>0, <1>2, <1>a
<1>4. c.kind = "register" /\ c.token = minted + 1 /\ c.hash = h
  OBVIOUS
<1> HIDE DEF c
<1>5. Course(wal, also, minted + 1, events, p, q)
  BY <1>0, <1>2, <1>3, CourseMinted
<1>6. IsPoint(wal, asked, minted, q)
  BY <1>0, <1>2, CourseEnds
<1>7. q.live \subseteq 1 .. minted /\ q.known \subseteq 1 .. minted /\ minted + 1 \notin q.known
  BY <1>0, <1>6 DEF IsPoint
<1>8. EngineAt(also, q, engine)
  <2>1. \A s \in DOMAIN engine.subs : s \in 1 .. minted
    BY <1>2, <1>7 DEF EngineAt
  <2> QED BY <1>2, <1>3, <2>1 DEF EngineAt
<1>9. minted + 1 \notin Asks(commands) /\ Asks(commands) \cup Heralds(events) \subseteq 1 .. minted
  <2>1. Asks(commands) \cup Heralds(events) \subseteq 1 .. minted
    BY <1>0 DEF Owned
  <2> QED BY <1>3, <2>1
<1>10. Asks(commands') = Asks(commands) \cup {minted + 1} /\ ToSet(commands') = ToSet(commands) \cup {c}
  <2>1. PICK cs : cs = commands
    OBVIOUS
  <2>2. IsSeq(cs) /\ AskedOnce(cs) /\ c.kind = "register" /\ c.token \notin Asks(cs)
    BY <1>0, <1>4, <1>9, <2>1
  <2>3. Asks(Append(cs, c)) = Asks(cs) \cup {c.token}
    BY <2>2, CommandSent
  <2>4. ToSet(Append(cs, c)) = ToSet(cs) \cup {c}
    BY <2>2, MemberAdded
  <2> QED BY <1>1, <1>4, <2>1, <2>3, <2>4
<1>11. ASSUME NEW m \in ToSet(commands'), m.kind = "register"
       PROVE  m.token \notin q.known /\ also[m.token] = m.hash
  <2>1. CASE m = c
    BY <1>3, <1>4, <1>7, <2>1
  <2>2. CASE m \in ToSet(commands)
    <3>1. m.token \in Asks(commands)
      BY <1>11, <2>2 DEF Asks
    <3>2. m.token \in 1 .. minted
      BY <1>9, <3>1
    <3> QED BY <1>2, <1>3, <1>11, <2>2, <3>2 DEF AskedFor
  <2> QED BY <1>10, <2>1, <2>2
<1>12. ASSUME NEW t \in Asks(commands') \cup Heralds(events)
       PROVE  t \in DOMAIN awaiting' /\ awaiting'[t] = also[t]
  <2>1. DOMAIN awaiting' = DOMAIN awaiting \cup {minted + 1} /\ awaiting'[minted + 1] = h
    BY <1>1 DEF With
  <2>2. \A u \in DOMAIN awaiting : u # minted + 1 => awaiting'[u] = awaiting[u]
    BY <1>1 DEF With
  <2>3. CASE t = minted + 1
    BY <1>3, <2>1, <2>3
  <2>4. CASE t \in Asks(commands) \cup Heralds(events)
    <3>1. t \in 1 .. minted /\ t # minted + 1
      BY <1>3, <1>9, <2>4
    <3>2. t \in DOMAIN awaiting /\ awaiting[t] = asked[t]
      BY <1>2, <2>4 DEF AskedFor
    <3> QED BY <1>3, <2>1, <2>2, <3>1, <3>2
  <2> QED BY <1>10, <2>3, <2>4
<1>13. AskedFor(also, q, commands', events, awaiting')
  BY <1>11, <1>12 DEF AskedFor
<1>14. Tracked(also, p, q)'
  BY <1>1, <1>3, <1>5, <1>8, <1>13 DEF Tracked
<1> QED BY <1>3, <1>14

\* An event taken: the course goes on from the point it leads to.
LEMMA EventTracked ==
    ASSUME Feed, Registry, NEW asked, NEW p, NEW q, Tracked(asked, p, q),
           events # <<>>, events' = Tail(events), UNCHANGED <<wal, engine, minted>>,
           \/ Head(events).kind # "registered" /\ UNCHANGED <<commands, awaiting>>
           \/ /\ Head(events).kind = "registered"
              /\ awaiting' = Restrict(awaiting, DOMAIN awaiting \ {Head(events).token})
              /\ \/ commands' = commands
                 \/ \E T : commands' = Append(commands, [kind |-> "unregister", tokens |-> T])
    PROVE  /\ \E r : Tracked(asked, r, q)' /\ Moves(wal, asked, p, Head(events), r)
           /\ Head(events).kind = "registered" =>
                awaiting[Head(events).token] = asked[Head(events).token]
<1>0. /\ IsSeq(events) /\ HeardInOrder(events) /\ IsSeq(commands) /\ AskedOnce(commands)
      /\ Owned(Asks(commands), Heralds(events), DOMAIN engine.subs, SubsOf(group.queries),
               Releases(commands), Refusals(events), minted)
  BY DEF Registry, Feed, IsEvents
<1>1. /\ DOMAIN asked = Nat /\ Course(wal, asked, minted, events, p, q)
      /\ EngineAt(asked, q, engine) /\ AskedFor(asked, q, commands, events, awaiting)
  BY DEF Tracked
<1>2. PICK r : Moves(wal, asked, p, Head(events), r) /\ Course(wal, asked, minted, Tail(events), r, q)
  BY <1>0, <1>1, CourseHeard
<1>3. CASE Head(events).kind # "registered" /\ UNCHANGED <<commands, awaiting>>
  <2>1. Heralds(Tail(events)) = Heralds(events)
    BY <1>0, <1>3, EventHeard
  <2>2. AskedFor(asked, q, commands', events', awaiting')
    BY <1>1, <1>3, <2>1 DEF AskedFor
  <2>3. Tracked(asked, r, q)'
    BY <1>1, <1>2, <2>2 DEF Tracked
  <2> QED BY <1>2, <1>3, <2>3
<1>4. CASE /\ Head(events).kind = "registered"
           /\ awaiting' = Restrict(awaiting, DOMAIN awaiting \ {Head(events).token})
           /\ \/ commands' = commands
              \/ \E T : commands' = Append(commands, [kind |-> "unregister", tokens |-> T])
  <2> DEFINE t == Head(events).token
  <2>1. t \in Heralds(events) /\ Heralds(Tail(events)) = Heralds(events) \ {t}
    BY <1>0, <1>4, EventHeard
  <2>2. t \in DOMAIN awaiting /\ awaiting[t] = asked[t]
    BY <1>1, <2>1 DEF AskedFor
  <2>3. t \notin Asks(commands)
    BY <1>0, <2>1 DEF Owned
  <2>4. /\ Asks(commands') = Asks(commands)
        /\ \A m \in ToSet(commands') : m.kind = "register" => m \in ToSet(commands)
    <3>1. ASSUME NEW T, commands' = Append(commands, [kind |-> "unregister", tokens |-> T])
          PROVE  /\ Asks(commands') = Asks(commands)
                 /\ \A m \in ToSet(commands') : m.kind = "register" => m \in ToSet(commands)
      <4> DEFINE c == [kind |-> "unregister", tokens |-> T]
      <4>1. commands' = Append(commands, c) /\ c.kind = "unregister"
        BY <3>1
      <4> HIDE DEF c
      <4>2. Asks(commands') = Asks(commands) /\ ToSet(commands') = ToSet(commands) \cup {c}
        BY <1>0, <4>1, CommandSent, MemberAdded
      <4> QED BY <4>1, <4>2
    <3> QED BY <1>4, <3>1
  <2>5. /\ DOMAIN awaiting' = DOMAIN awaiting \ {t}
        /\ \A u \in DOMAIN awaiting \ {t} : awaiting'[u] = awaiting[u]
    BY <1>4 DEF Restrict
  <2>6. ASSUME NEW u \in Asks(commands') \cup Heralds(events')
        PROVE  u \in DOMAIN awaiting' /\ awaiting'[u] = asked[u]
    <3>1. u \in Asks(commands) \cup Heralds(events) /\ u # t
      BY <2>1, <2>3, <2>4, <2>6
    <3> QED BY <1>1, <2>5, <3>1 DEF AskedFor
  <2>7. \A m \in ToSet(commands') : m.kind = "register" => m.token \notin q.known /\ asked[m.token] = m.hash
    BY <1>1, <2>4 DEF AskedFor
  <2>8. AskedFor(asked, q, commands', events', awaiting')
    BY <2>6, <2>7 DEF AskedFor
  <2>9. Tracked(asked, r, q)'
    BY <1>1, <1>2, <2>8 DEF Tracked
  <2> QED BY <1>2, <2>2, <2>9
<1> QED BY <1>3, <1>4

\* Where a step leaves the point the events have been heard up to.
Rests(p, r) ==
    /\ r.at = p.at /\ r.known = p.known /\ r.done = p.done /\ r.shown = p.shown
    /\ r.live \subseteq p.live /\ \A s \in SubsOf(group.queries) \cap p.live : s \in r.live
Agree(asked, also) == \A s \in 1 .. minted : also[s] = asked[s]

Hears == TakeRegistered \/ TakeLanded \/ TakeHydrated \/ TakeRefused \/ TakeCommitted
Quiet ==
    \/ OutsideWrite
    \/ \E t \in Tabs : Mutate(t) \/ RefuseMutation(t) \/ Drop(t) \/ Hear(t)
    \/ \E t \in Tabs, h \in Queries : Desire(t, h) \/ Undesire(t, h)
    \/ \E t, gone \in Tabs : Forget(t, gone)
    \/ \E w \in Wires, t \in Tabs : Open(w, t)
    \/ \E w \in Wires : ReadMutations(w) \/ Connect(w) \/ Disconnect(w)
    \/ \E w \in Wires : Put(w) \/ Del(w) \/ DeleteClient(w)
    \/ \E h \in Known(group) : ExpireQuery(h) \/ Cool(h)
    \/ Expire \/ Flush
    \/ TakeRegister \/ TakeUnregister \/ Route
    \/ \E token \in DOMAIN engine.subs : Land(token) \/ RefuseRead(token)
    \/ UNCHANGED vars

LEMMA HearsOrQuiet == ASSUME [Next]_vars PROVE Hears \/ Quiet
BY DEF Next, Hears, Quiet

LEMMA HearsTracked ==
    ASSUME Feed, Registry, NEW asked, NEW p, NEW q, Tracked(asked, p, q), Hears
    PROVE  /\ \E r : Tracked(asked, r, q)' /\ Moves(wal, asked, p, Head(events), r)
           /\ Head(events).kind = "registered" =>
                awaiting[Head(events).token] = asked[Head(events).token]
<1>1. events # <<>> /\ events' = Tail(events) /\ UNCHANGED <<wal, engine, minted>>
  BY Zenon DEF Hears, TakeRegistered, TakeLanded, TakeHydrated, TakeRefused, TakeCommitted, NextEvent
<1>2. CASE TakeRegistered
  <2>1. /\ Head(events).kind = "registered"
        /\ awaiting' = Restrict(awaiting, DOMAIN awaiting \ {Head(events).token})
        /\ \/ commands' = commands
           \/ \E T : commands' = Append(commands, [kind |-> "unregister", tokens |-> T])
    BY <1>2, Zenon DEF TakeRegistered, NextEvent
  <2> QED BY <1>1, <2>1, EventTracked
<1>3. CASE TakeLanded \/ TakeHydrated \/ TakeRefused \/ TakeCommitted
  <2>1. Head(events).kind # "registered" /\ UNCHANGED <<commands, awaiting>>
    BY <1>3, Zenon DEF TakeLanded, TakeHydrated, TakeRefused, TakeCommitted, NextEvent
  <2> QED BY <1>1, <2>1, EventTracked
<1> QED BY <1>2, <1>3 DEF Hears

LEMMA QuietTracked ==
    ASSUME Feed, Registry, NEW asked, NEW p, NEW q, Tracked(asked, p, q), Quiet
    PROVE  \E also, r, z : Tracked(also, r, z)' /\ Agree(asked, also) /\ Rests(p, r)
<1>0. Rests(p, p) /\ Agree(asked, asked)
  BY DEF Rests, Agree
<1>1. ASSUME Tracked(asked, p, q)'
      PROVE  \E also, r, z : Tracked(also, r, z)' /\ Agree(asked, also) /\ Rests(p, r)
  BY <1>0, <1>1
<1>2. CASE TrackStill
  BY <1>1, <1>2, StillTracked
<1>3. CASE OutsideWrite \/ \E t \in Tabs : Mutate(t) \/ RefuseMutation(t)
  <2>1. \E c : Committed(c)
    BY <1>3 DEF OutsideWrite, Mutate, RefuseMutation
  <2> QED BY <1>1, <2>1, CommitTracked
<1>4. CASE TakeRegister \/ Route \/ \E s \in DOMAIN engine.subs : Land(s) \/ RefuseRead(s)
  <2>1. \E r : Tracked(asked, p, r)'
    BY <1>4, RegisterTracked, RouteTracked, LandTracked, RefuseReadTracked
  <2> QED BY <1>0, <2>1
<1>5. CASE TakeUnregister
  <2>1. PICK T : T \cap SubsOf(group.queries) = {} /\ Tracked(asked, Less(p, T), Less(q, T))'
    BY <1>5, UnregisterTracked
  <2>2. Rests(p, Less(p, T))
    BY <2>1 DEF Rests, Less
  <2> QED BY <1>0, <2>1, <2>2
<1>6. ASSUME NEW w \in Wires, Put(w)
      PROVE  \E also, r, z : Tracked(also, r, z)' /\ Agree(asked, also) /\ Rests(p, r)
  <2>1. UNCHANGED <<wal, engine, events>>
    BY <1>6, Zenon DEF Put, NotPlanned, Anew
  <2>2. (\E h : Registering(h)) \/ UNCHANGED <<awaiting, minted, commands>>
    BY <1>6, Zenon DEF Put, NotPlanned, Anew
  <2>3. ASSUME NEW h, Registering(h)
        PROVE  \E also : Tracked(also, p, q)' /\ Agree(asked, also)
    BY <2>1, <2>3, RegisteringTracked DEF Agree
  <2> QED BY <1>0, <1>2, <2>1, <2>2, <2>3 DEF TrackStill
<1>7. CASE Expire \/ \E h \in Known(group) : ExpireQuery(h)
  <2>1. /\ UNCHANGED <<wal, engine, events, awaiting, minted>>
        /\ \/ commands' = commands
           \/ \E T : commands' = Append(commands, [kind |-> "unregister", tokens |-> T])
    BY <1>7 DEF Expire, ExpireQuery
  <2> QED BY <1>1, <2>1, LetGoTracked
<1>8. ASSUME NEW w \in Wires,
             \/ ReadMutations(w) \/ Connect(w) \/ Disconnect(w) \/ Del(w) \/ DeleteClient(w)
             \/ \E t \in Tabs : Open(w, t)
      PROVE  TrackStill
  BY <1>8, Zenon DEF TrackStill, ReadMutations, Connect, Disconnect, Del, DeleteClient, Open, thread
<1>9. ASSUME NEW t \in Tabs,
             \/ Drop(t) \/ Hear(t) \/ \E h \in Queries : Desire(t, h) \/ Undesire(t, h)
             \/ \E gone \in Tabs : Forget(t, gone)
      PROVE  TrackStill
  BY <1>9, Zenon DEF TrackStill, Drop, Hear, Desire, Undesire, Forget, thread
<1>10. CASE Flush \/ UNCHANGED vars \/ \E h \in Known(group) : Cool(h)
  <2>1. TrackStill
    BY <1>10 DEF TrackStill, Flush, Cool, vars, thread
  <2> QED BY <1>2, <2>1
<1> QED BY <1>2, <1>3, <1>4, <1>5, <1>6, <1>7, <1>8, <1>9, <1>10 DEF Quiet

LEMMA InitTracked ==
    ASSUME Init
    PROVE  \E asked, p : /\ Tracked(asked, p, p)
                         /\ p.at = Len(Earlier) /\ p.known = {} /\ p.live = {} /\ p.done = {}
                         /\ p.shown = [n \in Nat |-> {}]
<1> DEFINE asked == [n \in Nat |-> 0]
           p == [at |-> Len(Earlier), known |-> {}, live |-> {}, done |-> {}, shown |-> [n \in Nat |-> {}]]
<1>1. /\ wal = Earlier /\ commands = <<>> /\ events = <<>> /\ minted = 0
      /\ engine = [position |-> Len(Earlier), subs |-> <<>>]
  BY DEF Init
<1>2. p.at = Len(Earlier) /\ p.known = {} /\ p.live = {} /\ p.done = {} /\ p.shown = [n \in Nat |-> {}]
  OBVIOUS
<1>3. DOMAIN asked = Nat
  OBVIOUS
<1> HIDE DEF asked, p
<1>4. Len(Earlier) \in Nat
  BY ConstantsAssumption
<1>5. IsPoint(wal, asked, minted, p)
  BY <1>1, <1>2, <1>4 DEF IsPoint
<1>6. Course(wal, asked, minted, events, p, p)
  BY <1>1, <1>5, CourseNone
<1>7. EngineAt(asked, p, engine)
  BY <1>1, <1>2 DEF EngineAt
<1>8. AskedFor(asked, p, commands, events, awaiting)
  <2>1. ToSet(commands) = {} /\ ToSet(events) = {}
    BY <1>1 DEF ToSet
  <2> QED BY <2>1 DEF AskedFor, Asks, Heralds
<1> QED BY <1>2, <1>3, <1>6, <1>7, <1>8 DEF Tracked

-----------------------------------------------------------------------------
(* Mutation ids and results, counted in the log *)

ByIn(log, at, t) == {i \in 1 .. at : log[i].by = t}
CountAt(log, at, t) == Cardinality(ByIn(log, at, t))
\* t's mutation i was refused, by a transaction up to `top'.
RefusedAt(log, top, t, i) ==
    \E x \in 1 .. top : log[x].refused /\ log[x].by = t /\ CountAt(log, x, t) = i

LEMMA CountIs ==
    ASSUME NEW log, NEW at \in Nat, NEW t
    PROVE  /\ CountAt(log, at, t) \in Nat /\ IsFiniteSet(ByIn(log, at, t))
           /\ CountAt(log, 0, t) = 0
           /\ log[at + 1].by = t => CountAt(log, at + 1, t) = CountAt(log, at, t) + 1
           /\ log[at + 1].by # t => CountAt(log, at + 1, t) = CountAt(log, at, t)
           /\ \A b \in Nat : b <= at => CountAt(log, b, t) <= CountAt(log, at, t)
<1>1. IsFiniteSet(1 .. at)
  BY FS_Interval
<1>2. IsFiniteSet(ByIn(log, at, t))
  BY <1>1, FS_Subset DEF ByIn
<1>3. CountAt(log, at, t) \in Nat
  BY <1>2, FS_CardinalityType DEF CountAt
<1>4. CountAt(log, 0, t) = 0
  <2>1. ByIn(log, 0, t) = {}
    BY DEF ByIn
  <2> QED BY <2>1, FS_EmptySet DEF CountAt
<1>5. \A i : i \in 1 .. at + 1 <=> (i \in 1 .. at \/ i = at + 1)
  OBVIOUS
<1>6. ASSUME log[at + 1].by = t PROVE CountAt(log, at + 1, t) = CountAt(log, at, t) + 1
  <2>1. ByIn(log, at + 1, t) = ByIn(log, at, t) \cup {at + 1} /\ at + 1 \notin ByIn(log, at, t)
    BY <1>5, <1>6 DEF ByIn
  <2> QED BY <1>2, <2>1, FS_AddElement DEF CountAt
<1>7. ASSUME log[at + 1].by # t PROVE CountAt(log, at + 1, t) = CountAt(log, at, t)
  <2>1. ByIn(log, at + 1, t) = ByIn(log, at, t)
    BY <1>5, <1>7 DEF ByIn
  <2> QED BY <2>1 DEF CountAt
<1>8. ASSUME NEW b \in Nat, b <= at PROVE CountAt(log, b, t) <= CountAt(log, at, t)
  <2>1. ByIn(log, b, t) \subseteq ByIn(log, at, t)
    BY <1>8 DEF ByIn
  <2> QED BY <1>2, <2>1, FS_Subset DEF CountAt
<1> QED BY <1>2, <1>3, <1>4, <1>6, <1>7, <1>8

LEMMA CountRises ==
    ASSUME NEW log, NEW a \in Nat, NEW b \in Nat, a < b, NEW t, log[b].by = t
    PROVE  CountAt(log, a, t) < CountAt(log, b, t)
<1>1. PICK m \in Nat : m = b - 1 /\ a <= m /\ b = m + 1 /\ log[m + 1].by = t
  OBVIOUS
<1>2. CountAt(log, a, t) <= CountAt(log, m, t)
  BY <1>1, CountIs
<1>3. CountAt(log, m, t) \in Nat /\ CountAt(log, m + 1, t) = CountAt(log, m, t) + 1
  BY <1>1, CountIs
<1>4. CountAt(log, a, t) \in Nat
  BY CountIs
<1> QED BY <1>1, <1>2, <1>3, <1>4

LEMMA CountSame ==
    ASSUME NEW log, NEW more, NEW at \in Nat, \A i \in 1 .. at : more[i] = log[i]
    PROVE  \A t : CountAt(more, at, t) = CountAt(log, at, t)
<1>1. \A t : ByIn(more, at, t) = ByIn(log, at, t)
  BY DEF ByIn
<1> QED BY <1>1 DEF CountAt

LEMMA IdsAre == \A at, t : t \in Tabs => IdsAt(at)[t] = CountAt(wal, at, t)
BY DEF IdsAt, CountAt, ByIn

\* What is waiting: the refused mutations, whoever pushed them.
Signed(log) == \A i \in 1 .. Len(log) : log[i].refused => log[i].by \in Tabs

LEMMA ResultsAre ==
    ASSUME Signed(wal), NEW at \in Nat, at <= Len(wal), Len(wal) \in Nat
    PROVE  \A t, i : [tab |-> t, id |-> i] \in ResultsAt(at) <=> RefusedAt(wal, at, t, i)
<1>1. \A x \in 1 .. at : wal[x].refused => wal[x].by \in Tabs
  BY DEF Signed
<1>2. \A x \in 1 .. at : wal[x].refused => IdsAt(x)[wal[x].by] = CountAt(wal, x, wal[x].by)
  BY <1>1, IdsAre
<1>3. \A t, i, u, j : [tab |-> t, id |-> i] = [tab |-> u, id |-> j] <=> (t = u /\ i = j)
  OBVIOUS
<1>4. ASSUME NEW t, NEW i, [tab |-> t, id |-> i] \in ResultsAt(at) PROVE RefusedAt(wal, at, t, i)
  <2>1. PICK x \in {x \in 1 .. at : wal[x].refused} :
            [tab |-> t, id |-> i] = [tab |-> wal[x].by, id |-> IdsAt(x)[wal[x].by]]
    BY <1>4 DEF ResultsAt
  <2>2. t = wal[x].by /\ i = IdsAt(x)[wal[x].by]
    BY <1>3, <2>1
  <2> QED BY <1>2, <2>1, <2>2 DEF RefusedAt
<1>5. ASSUME NEW t, NEW i, RefusedAt(wal, at, t, i) PROVE [tab |-> t, id |-> i] \in ResultsAt(at)
  <2>1. PICK x \in 1 .. at : wal[x].refused /\ wal[x].by = t /\ CountAt(wal, x, t) = i
    BY <1>5 DEF RefusedAt
  <2>2. i = IdsAt(x)[wal[x].by]
    BY <1>2, <2>1
  <2> QED BY <2>1, <2>2 DEF ResultsAt
<1> QED BY <1>4, <1>5, Zenon

\* A refusal's id is past those before it, and known where its id is.
LEMMA RefusedIds ==
    ASSUME NEW log, NEW top \in Nat, NEW t, NEW i, RefusedAt(log, top, t, i)
    PROVE  /\ i \in Nat \ {0} /\ i <= CountAt(log, top, t)
           /\ \A at \in Nat : i <= CountAt(log, at, t) => RefusedAt(log, at, t, i)
<1>1. PICK x \in 1 .. top : log[x].refused /\ log[x].by = t /\ CountAt(log, x, t) = i
  BY DEF RefusedAt
<1>2. x \in Nat \ {0} /\ 0 < x /\ 0 \in Nat
  OBVIOUS
<1>3. CountAt(log, 0, t) < i /\ CountAt(log, 0, t) \in Nat /\ i \in Nat
  BY <1>1, <1>2, CountRises, CountIs
<1>4. i <= CountAt(log, top, t)
  <2>1. \A b \in Nat : b <= top => CountAt(log, b, t) <= CountAt(log, top, t)
    BY CountIs
  <2>2. x \in Nat /\ x <= top /\ i = CountAt(log, x, t)
    BY <1>1
  <2> QED BY <2>1, <2>2
<1>5. ASSUME NEW at \in Nat, i <= CountAt(log, at, t) PROVE RefusedAt(log, at, t, i)
  <2>1. SUFFICES ASSUME ~(x <= at) PROVE FALSE
    BY <1>1, <1>2 DEF RefusedAt
  <2>2. CountAt(log, at, t) < CountAt(log, x, t) /\ CountAt(log, at, t) \in Nat
    BY <1>1, <1>2, <2>1, CountRises, CountIs
  <2> QED BY <1>1, <1>3, <1>5, <2>2
<1> QED BY <1>3, <1>4, <1>5

LEMMA RefusedNext ==
    ASSUME NEW log, NEW top \in Nat, NEW t, NEW i, RefusedAt(log, top + 1, t, i)
    PROVE  \/ RefusedAt(log, top, t, i)
           \/ log[top + 1].refused /\ log[top + 1].by = t /\ CountAt(log, top + 1, t) = i
BY DEF RefusedAt

LEMMA RefusedSame ==
    ASSUME NEW log, NEW more, NEW at \in Nat, \A i \in 1 .. at : more[i] = log[i]
    PROVE  \A t, i : RefusedAt(more, at, t, i) <=> RefusedAt(log, at, t, i)
<1>1. ASSUME NEW x \in 1 .. at PROVE more[x] = log[x] /\ \A t : CountAt(more, x, t) = CountAt(log, x, t)
  <2>1. x \in Nat /\ \A i \in 1 .. x : more[i] = log[i]
    OBVIOUS
  <2> QED BY <2>1, CountSame
<1> QED BY <1>1 DEF RefusedAt

-----------------------------------------------------------------------------
(* Refusals on their way *)

\* One of the first j pokes tells of the refusal of t's mutation i.
Reports(down, t, i, j) ==
    \E m \in 1 .. j : Poke(down, m) /\ [tab |-> t, id |-> i] \in down[m].poke.results
\* A poke whose ids settle it comes no sooner, unless t has heard.
Vetted(down, t, i, heard) ==
    \A j \in 1 .. Len(down) :
        Poke(down, j) /\ i <= Told(down, j, t) => heard \/ Reports(down, t, i, j)

LEMMA VettedAdded ==
    ASSUME NEW down, IsDown(down), NEW t, NEW i, NEW heard, Vetted(down, t, i, heard), NEW m,
           m.kind = "poke" /\ i <= m.poke.ids[t] =>
                \/ heard \/ Reports(down, t, i, Len(down))
                \/ [tab |-> t, id |-> i] \in m.poke.results
    PROVE  /\ Vetted(Append(down, m), t, i, heard)
           /\ Reports(down, t, i, Len(down)) =>
                Reports(Append(down, m), t, i, Len(Append(down, m)))
           /\ m.kind = "poke" /\ [tab |-> t, id |-> i] \in m.poke.results =>
                Reports(Append(down, m), t, i, Len(Append(down, m)))
<1> DEFINE n == Len(down)
           long == Append(down, m)
<1>1. /\ n \in Nat /\ Len(long) = n + 1
      /\ (\A j \in 1 .. n : long[j] = down[j]) /\ long[n + 1] = m
  BY Appended DEF IsDown
<1>2. \A j \in 1 .. n :
        Poke(down, j) /\ i <= Told(down, j, t) => heard \/ Reports(down, t, i, j)
  BY DEF Vetted
<1> HIDE DEF n, long
<1>3. \A j \in 1 .. n : (Poke(long, j) <=> Poke(down, j)) /\ Told(long, j, t) = Told(down, j, t)
  BY <1>1 DEF Poke, Told
<1>4. ASSUME NEW j \in 0 .. n, NEW k \in j .. n + 1, Reports(down, t, i, j) PROVE Reports(long, t, i, k)
  <2>1. PICK x \in 1 .. j : Poke(down, x) /\ [tab |-> t, id |-> i] \in down[x].poke.results
    BY <1>4 DEF Reports
  <2>2. x \in 1 .. n /\ x \in 1 .. k
    BY <1>1
  <2> QED BY <1>1, <1>3, <2>1, <2>2 DEF Reports
<1>5. \A j \in 1 .. n : j \in 0 .. n /\ j \in j .. n + 1
  BY <1>1
<1>6. n \in 0 .. n /\ n + 1 \in n .. n + 1 /\ n + 1 \in 1 .. n + 1
  BY <1>1
<1>7. m.kind = "poke" /\ [tab |-> t, id |-> i] \in m.poke.results => Reports(long, t, i, n + 1)
  BY <1>1, <1>6 DEF Reports, Poke
<1>8. Reports(down, t, i, n) => Reports(long, t, i, n + 1)
  BY <1>4, <1>6
<1>9. ASSUME NEW j \in 1 .. n + 1, Poke(long, j), i <= Told(long, j, t)
      PROVE  heard \/ Reports(long, t, i, j)
  <2>1. CASE j \in 1 .. n
    BY <1>2, <1>3, <1>4, <1>5, <1>9, <2>1
  <2>2. CASE j = n + 1
    <3>1. m.kind = "poke" /\ i <= m.poke.ids[t]
      BY <1>1, <1>9, <2>2 DEF Poke, Told
    <3> QED BY <1>7, <1>8, <2>2, <3>1 DEF n
  <2> QED BY <1>1, <2>1, <2>2
<1> QED BY <1>1, <1>7, <1>8, <1>9 DEF Vetted, n, long

LEMMA VettedTaken ==
    ASSUME NEW down, IsDown(down), down # <<>>, NEW t, NEW i, NEW heard,
           Vetted(down, t, i, heard), NEW also, heard => also,
           Poke(down, 1) /\ [tab |-> t, id |-> i] \in down[1].poke.results => also
    PROVE  /\ Vetted(Tail(down), t, i, also)
           /\ Reports(down, t, i, Len(down)) => also \/ Reports(Tail(down), t, i, Len(Tail(down)))
           /\ Poke(down, 1) /\ i <= down[1].poke.ids[t] => also
<1> DEFINE n == Len(down)
           rest == Tail(down)
<1>1. /\ n \in Nat \ {0} /\ Len(rest) = n - 1 /\ 1 \in 1 .. n
      /\ \A j \in 1 .. n - 1 : rest[j] = down[j + 1] /\ j + 1 \in 1 .. n
  BY FrameTaken
<1>2. \A j \in 1 .. n :
        Poke(down, j) /\ i <= Told(down, j, t) => heard \/ Reports(down, t, i, j)
  BY DEF Vetted
<1> HIDE DEF n, rest
<1>3. ASSUME NEW j \in 0 .. n - 1, Reports(down, t, i, j + 1) PROVE also \/ Reports(rest, t, i, j)
  <2>1. PICK x \in 1 .. j + 1 : Poke(down, x) /\ [tab |-> t, id |-> i] \in down[x].poke.results
    BY <1>3 DEF Reports
  <2>2. CASE x = 1
    BY <2>1, <2>2
  <2>3. CASE x # 1
    <3>1. x - 1 \in 1 .. j /\ x - 1 \in 1 .. n - 1 /\ (x - 1) + 1 = x
      BY <1>1, <2>3
    <3>2. rest[x - 1] = down[x]
      BY <1>1, <3>1
    <3> QED BY <2>1, <3>1, <3>2 DEF Reports, Poke
  <2> QED BY <2>2, <2>3
<1>4. ASSUME NEW j \in 1 .. n - 1, Poke(rest, j), i <= Told(rest, j, t)
      PROVE  also \/ Reports(rest, t, i, j)
  <2>1. Poke(down, j + 1) /\ i <= Told(down, j + 1, t) /\ j + 1 \in 1 .. n /\ j \in 0 .. n - 1
    BY <1>1, <1>4 DEF Poke, Told
  <2> QED BY <1>2, <1>3, <2>1
<1>5. n - 1 \in 0 .. n - 1 /\ (n - 1) + 1 = n /\ 0 \in 0 .. n - 1 /\ 0 + 1 = 1
  BY <1>1
<1>6. Poke(down, 1) /\ i <= down[1].poke.ids[t] => also
  <2>1. ~Reports(rest, t, i, 0)
    BY DEF Reports
  <2> QED BY <1>1, <1>2, <1>3, <1>5, <2>1 DEF Told
<1> QED BY <1>1, <1>3, <1>4, <1>5, <1>6 DEF Vetted, n, rest

\* Pokes that each tell of all that is waiting.
LEMMA VettedAll ==
    ASSUME NEW down, NEW t, NEW i, NEW heard,
           \A j \in 1 .. Len(down) : Poke(down, j) => [tab |-> t, id |-> i] \in down[j].poke.results
    PROVE  Vetted(down, t, i, heard)
<1>1. ASSUME NEW j \in 1 .. Len(down), Poke(down, j) PROVE Reports(down, t, i, j)
  BY <1>1 DEF Reports
<1> QED BY <1>1 DEF Vetted

-----------------------------------------------------------------------------
(* What is queued, and what of it a change of the group leaves *)

QueueFields == {"rows", "got", "ids", "results", "echo"}
Queues(g) == IsGroup(g) /\ DOMAIN g.queued = QueueFields
SameNews(g, h) ==
    /\ Queues(h) /\ Kept(g, h)
    /\ h.queued.ids = g.queued.ids /\ h.queued.results = g.queued.results
SameRows(g, h) == h.rows = g.rows /\ h.queued.rows = g.queued.rows

\* Desires and labels: neither rows nor what is got changes.
Rearranged(g, h) ==
    SameNews(g, h) /\ SameRows(g, h) /\ h.queued.got = g.queued.got

LEMMA NewsFollow ==
    ASSUME NEW a, NEW b, NEW c
    PROVE  /\ SameNews(a, b) /\ SameNews(b, c) => SameNews(a, c)
           /\ Rearranged(a, b) /\ Rearranged(b, c) => Rearranged(a, c)
           /\ Queues(a) => Rearranged(a, a)
BY KeptFollows DEF SameNews, Rearranged, SameRows, Queues, Kept, SameFace

Labels(g, x) == [g EXCEPT !.queries = x]
Echoes(g, x) == [g EXCEPT !.queued.echo = x]

LEMMA LabelsOnly ==
    ASSUME NEW g, Queues(g), NEW x
    PROVE  /\ Rearranged(g, Labels(g, x)) /\ Labels(g, x).queries = x
           /\ Rearranged(g, Echoes(g, x)) /\ Echoes(g, x).queries = g.queries
<1>1. Kept(g, [g EXCEPT !.queries = x])
  BY SetAside DEF Queues
<1>2. DOMAIN g = GroupFields /\ DOMAIN g.queued = QueueFields
  BY DEF Queues, IsGroup
<1> DEFINE h == [g EXCEPT !.queries = x]
           k == [g EXCEPT !.queued.echo = x]
<1>3. h.rows = g.rows /\ h.queued = g.queued /\ h.queries = x
  BY <1>2 DEF GroupFields
<1>4. /\ k.rows = g.rows /\ k.queued = [g.queued EXCEPT !.echo = x] /\ k.queries = g.queries
      /\ k = [g EXCEPT !.queued = [g.queued EXCEPT !.echo = x]]
  BY <1>2 DEF GroupFields
<1>5. /\ DOMAIN k.queued = QueueFields /\ k.queued.rows = g.queued.rows /\ k.queued.got = g.queued.got
      /\ k.queued.ids = g.queued.ids /\ k.queued.results = g.queued.results
  BY <1>2, <1>4 DEF QueueFields
<1>6. Kept(g, k)
  BY <1>4, SetAside DEF Queues
<1> HIDE DEF h, k
<1>7. Rearranged(g, h)
  BY <1>1, <1>2, <1>3 DEF Rearranged, SameNews, SameRows, Queues, Kept, h
<1>8. Rearranged(g, k)
  BY <1>4, <1>5, <1>6 DEF Rearranged, SameNews, SameRows, Queues, Kept
<1> QED BY <1>3, <1>4, <1>7, <1>8 DEF h, k, Labels, Echoes

LEMMA DesiresOnly ==
    ASSUME NEW g, Queues(g), NEW client, NEW h
    PROVE  Rearranged(g, Desiring(g, client, h)) /\ Desiring(g, client, h).queries = g.queries
<1>0. DOMAIN g = GroupFields
  BY DEF Queues, IsGroup
<1> DEFINE d == [g EXCEPT !.desired[client] = @ \cup {h}]
<1>1. Kept(g, d)
  <2>1. PICK x : d = [g EXCEPT !.desired = x]
    OBVIOUS
  <2> HIDE DEF d
  <2> QED BY <2>1, SetAside DEF Queues
<1>2. d.rows = g.rows /\ d.queued = g.queued /\ d.queries = g.queries
  BY <1>0 DEF GroupFields
<1>3. Rearranged(g, d)
  BY <1>1, <1>2 DEF Rearranged, SameNews, SameRows, Queues, Kept
<1>4. PICK x : Desiring(g, client, h) = Echoes(d, x)
  BY <1>0, Zenon DEF Desiring, GroupFields, Echoes
<1> HIDE DEF d
<1>5. Queues(d)
  BY <1>3 DEF Rearranged, SameNews
<1> QED BY <1>2, <1>3, <1>4, <1>5, LabelsOnly, NewsFollow

\* A query let go is only marked.
Marked(qs, rs) ==
    /\ DOMAIN rs = DOMAIN qs
    /\ \A q \in DOMAIN qs : rs[q].got = qs[q].got /\ rs[q].sub = qs[q].sub

LEMMA LetGoOnly ==
    ASSUME NEW g, Queues(g), IsQueries(g.queries), NEW client, NEW hashes
    PROVE  /\ Rearranged(g, LetGo(g, client, hashes))
           /\ Marked(g.queries, LetGo(g, client, hashes).queries)
<1> DEFINE h == LetGo(g, client, hashes)
<1>0. IsGroup(g) /\ DOMAIN g = GroupFields /\ DOMAIN g.queued = QueueFields
  BY DEF Queues, IsGroup
<1>1. Kept(g, h)
  BY <1>0, LetGoKept
<1>2. h.rows = g.rows /\ h.queued = [g.queued EXCEPT !.echo = @ \/ hashes # {}]
  BY <1>0 DEF LetGo, GroupFields
<1>3. DOMAIN h.queries = DOMAIN g.queries
  BY <1>0 DEF LetGo, GroupFields
<1>4. ASSUME NEW q \in DOMAIN g.queries
      PROVE  h.queries[q].got = g.queries[q].got /\ h.queries[q].sub = g.queries[q].sub
  <2>1. DOMAIN g.queries[q] = QueryFields
    BY DEF IsQueries, IsQuery
  <2> QED BY <1>0, <2>1 DEF LetGo, GroupFields, QueryFields
<1> HIDE DEF h
<1>5. /\ DOMAIN h.queued = QueueFields /\ h.queued.rows = g.queued.rows /\ h.queued.got = g.queued.got
      /\ h.queued.ids = g.queued.ids /\ h.queued.results = g.queued.results
  BY <1>0, <1>2 DEF QueueFields
<1>6. Rearranged(g, h)
  BY <1>1, <1>2, <1>5 DEF Rearranged, SameNews, SameRows, Queues, Kept
<1> QED BY <1>3, <1>4, <1>6 DEF Marked, h

\* Rows and what is queued of them set; got queries queued.
Ledgered(g, r, q) == [g EXCEPT !.rows = r, !.queued.rows = q]
Gotten(g, x) == [g EXCEPT !.queued.got = x]

LEMMA LedgeredOnly ==
    ASSUME NEW g, Queues(g), NEW r, NEW q
    PROVE  /\ SameNews(g, Ledgered(g, r, q)) /\ Ledgered(g, r, q).queries = g.queries
           /\ Ledgered(g, r, q).rows = r /\ Ledgered(g, r, q).queued.rows = q
           /\ Ledgered(g, r, q).queued.got = g.queued.got
<1>0. DOMAIN g = GroupFields /\ DOMAIN g.queued = QueueFields /\ IsGroup(g)
  BY DEF Queues, IsGroup
<1> DEFINE h == [g EXCEPT !.rows = r]
           x == [g.queued EXCEPT !.rows = q]
           k == [h EXCEPT !.queued = x]
<1>1. /\ DOMAIN x = QueueFields /\ x.rows = q /\ x.got = g.queued.got
      /\ x.ids = g.queued.ids /\ x.results = g.queued.results
  BY <1>0 DEF QueueFields
<1>2. Ledgered(g, r, q) = k
  BY <1>0 DEF Ledgered, GroupFields
<1>3. /\ DOMAIN h = GroupFields /\ h.rows = r /\ h.queries = g.queries /\ Kept(g, h)
  BY <1>0, SetAside DEF GroupFields
<1> HIDE DEF h, x
<1>4. k.queued = x /\ k.rows = r /\ k.queries = g.queries
  BY <1>3 DEF GroupFields
<1>5. Kept(g, k)
  BY <1>3, SetAside, KeptFollows DEF Kept
<1> HIDE DEF k
<1> QED BY <1>1, <1>2, <1>4, <1>5 DEF SameNews, Queues, Kept

LEMMA GottenOnly ==
    ASSUME NEW g, Queues(g), NEW x
    PROVE  /\ SameNews(g, Gotten(g, x)) /\ SameRows(g, Gotten(g, x))
           /\ Gotten(g, x).queries = g.queries /\ Gotten(g, x).queued.got = x
<1>0. DOMAIN g = GroupFields /\ DOMAIN g.queued = QueueFields /\ IsGroup(g)
  BY DEF Queues, IsGroup
<1> DEFINE y == [g.queued EXCEPT !.got = x]
           k == [g EXCEPT !.queued = y]
<1>1. /\ DOMAIN y = QueueFields /\ y.got = x /\ y.rows = g.queued.rows
      /\ y.ids = g.queued.ids /\ y.results = g.queued.results
  BY <1>0 DEF QueueFields
<1>2. Gotten(g, x) = k
  BY <1>0 DEF Gotten, GroupFields
<1> HIDE DEF y
<1>4. k.queued = y /\ k.rows = g.rows /\ k.queries = g.queries
  BY <1>0 DEF GroupFields
<1>5. Kept(g, k)
  BY <1>0, SetAside
<1> HIDE DEF k
<1> QED BY <1>1, <1>2, <1>4, <1>5 DEF SameNews, SameRows, Queues, Kept

LEMMA AccountedOnly ==
    ASSUME NEW g, Queues(g), NEW deltas
    PROVE  SameNews(g, Accounted(g, deltas)) /\ Accounted(g, deltas).queued.got = g.queued.got
<1>1. PICK r, q : Accounted(g, deltas) = Ledgered(g, r, q)
  BY Zenon DEF Accounted, Ledgered
<1> QED BY <1>1, LedgeredOnly

LEMMA ReleasedOnly ==
    ASSUME NEW g, Queues(g), NEW sub
    PROVE  SameNews(g, Released(g, sub)) /\ Released(g, sub).queued.got = g.queued.got
<1>1. PICK r, q : Released(g, sub) = Ledgered(g, r, q)
  BY Zenon DEF Released, Ledgered
<1> QED BY <1>1, LedgeredOnly

LEMMA WithdrawnOnly ==
    ASSUME NEW g, Queues(g), NEW h
    PROVE  SameNews(g, GotWithdrawn(g, h)) /\ SameRows(g, GotWithdrawn(g, h))
<1>1. GotWithdrawn(g, h) = g \/ \E x : GotWithdrawn(g, h) = Gotten(g, x)
  BY DEF GotWithdrawn, Gotten
<1> QED BY <1>1, GottenOnly, NewsFollow DEF Rearranged

\* A subscription or what is got of a query, changed.
LEMMA QueryNews ==
    ASSUME NEW g, Queues(g), NEW h
    PROVE  /\ SameNews(g, Hydrate(g, h)) /\ SameNews(g, Refuse(g, h))
           /\ SameNews(g, Unsubscribed(g, h))
<1>0. /\ SameNews(g, GotWithdrawn(g, h)) /\ Queues(GotWithdrawn(g, h)) /\ IsGroup(g)
      /\ DOMAIN g = GroupFields
  BY WithdrawnOnly DEF SameNews, Queues, IsGroup
<1>1. \A sub : LET r == Released(GotWithdrawn(g, h), sub)
               IN  SameNews(g, r) /\ Queues(r)
  BY <1>0, ReleasedOnly, NewsFollow DEF SameNews
<1>2. \A k, x : SameNews(g, k) => SameNews(g, Labels(k, x))
  BY LabelsOnly, NewsFollow DEF SameNews, Rearranged
<1>3. SameNews(g, Hydrate(g, h))
  <2>1. PICK x, y : Hydrate(g, h) = Labels(Gotten(g, y), x)
    <3>1. Hydrate(g, h) = Labels(Gotten(g, With(g.queued.got, h, TRUE)), [g.queries EXCEPT ![h].got = TRUE])
      BY <1>0 DEF Hydrate, Labels, Gotten, GroupFields
    <3> QED BY <3>1
  <2> QED BY <1>2, <2>1, GottenOnly
<1>4. SameNews(g, Refuse(g, h))
  <2>1. PICK sub, x : Refuse(g, h) = Labels(Released(GotWithdrawn(g, h), sub), x)
    BY DEF Refuse, Labels
  <2> QED BY <1>1, <1>2, <2>1
<1>5. SameNews(g, Unsubscribed(g, h))
  <2>1. PICK sub, x : \/ Unsubscribed(g, h) = Labels(Released(GotWithdrawn(g, h), sub), x)
                      \/ Unsubscribed(g, h) = Labels(GotWithdrawn(g, h), x)
    BY DEF Unsubscribed, Labels
  <2> QED BY <1>0, <1>1, <1>2, <2>1
<1> QED BY <1>3, <1>4, <1>5

LEMMA NotedOnly ==
    ASSUME NEW g, Queues(g), Feed, NEW h, h = Noted(g, changes)
    PROVE  /\ Queues(h) /\ Risen(g, h) /\ SameRows(g, h) /\ h.queries = g.queries
           /\ h.queued.got = g.queued.got /\ h.queued.results = g.queued.results \cup changes.results
           /\ h.queued.ids = g.queued.ids \cup Raised(g, changes.ids)
           /\ \A u \in Tabs : h.lmids[u] = IF u \in Raised(g, changes.ids) THEN changes.ids[u]
                                           ELSE g.lmids[u]
<1> DEFINE raised == Raised(g, changes.ids)
           lmids == [t \in Tabs |-> IF t \in raised THEN changes.ids[t] ELSE g.lmids[t]]
           x == [g.queued EXCEPT !.ids = @ \cup raised, !.results = @ \cup changes.results]
<1>0. DOMAIN g = GroupFields /\ DOMAIN g.queued = QueueFields /\ IsGroup(g)
  BY DEF Queues, IsGroup
<1>1. /\ DOMAIN x = QueueFields /\ x.rows = g.queued.rows /\ x.got = g.queued.got
      /\ x.ids = g.queued.ids \cup raised /\ x.results = g.queued.results \cup changes.results
  BY <1>0 DEF QueueFields
<1>2. h = [g EXCEPT !.lmids = lmids, !.queued = x]
  BY <1>0 DEF Noted, GroupFields
<1>3. Risen(g, h)
  BY <1>0, NotedRisen
<1> HIDE DEF raised, x
<1>4. \A u \in Tabs : lmids[u] = IF u \in raised THEN changes.ids[u] ELSE g.lmids[u]
  OBVIOUS
<1> HIDE DEF lmids
<1>5. h.queued = x /\ h.lmids = lmids /\ h.rows = g.rows /\ h.queries = g.queries
  BY <1>0, <1>2 DEF GroupFields
<1> QED BY <1>1, <1>3, <1>4, <1>5 DEF Queues, Risen, SameRows, raised

LEMMA MergedOnly ==
    ASSUME NEW g, Queues(g), NEW ids \in IdMap, NEW waiting, NEW h, h = Merged(g, ids, waiting)
    PROVE  /\ Queues(h) /\ Risen(g, h) /\ SameRows(g, h) /\ h.queries = g.queries
           /\ h.queued.got = g.queued.got /\ h.queued.results = g.queued.results \cup waiting
           /\ h.queued.ids = g.queued.ids \cup {t \in Tabs : h.lmids[t] > 0}
           /\ \A u \in Tabs : h.lmids[u] = IF ids[u] > g.lmids[u] THEN ids[u] ELSE g.lmids[u]
<1> DEFINE lmids == NeverLower(g.lmids, ids)
           told == {t \in Tabs : lmids[t] > 0}
           x == [g.queued EXCEPT !.ids = @ \cup told, !.results = @ \cup waiting]
<1>0. DOMAIN g = GroupFields /\ DOMAIN g.queued = QueueFields /\ IsGroup(g)
  BY DEF Queues, IsGroup
<1>1. /\ DOMAIN x = QueueFields /\ x.rows = g.queued.rows /\ x.got = g.queued.got
      /\ x.ids = g.queued.ids \cup told /\ x.results = g.queued.results \cup waiting
  BY <1>0 DEF QueueFields
<1>2. h = [g EXCEPT !.lmids = lmids, !.queued = x]
  BY <1>0 DEF Merged, GroupFields
<1>3. Risen(g, h)
  BY <1>0, MergedRisen
<1>4. \A u \in Tabs : lmids[u] = IF ids[u] > g.lmids[u] THEN ids[u] ELSE g.lmids[u]
  BY DEF NeverLower
<1> HIDE DEF told, x, lmids
<1>5. h.queued = x /\ h.lmids = lmids /\ h.rows = g.rows /\ h.queries = g.queries
  BY <1>0, <1>2 DEF GroupFields
<1> QED BY <1>1, <1>3, <1>4, <1>5 DEF Queues, Risen, SameRows, told

LEMMA NewGroupQueues == \A line \in Nat : Queues(NewGroup(line)) /\ Queues(NoGroup(line))
<1> SUFFICES ASSUME NEW line \in Nat PROVE Queues(NewGroup(line)) /\ Queues(NoGroup(line))
  OBVIOUS
<1>1. NewGroup(line).queued = NothingQueued /\ NoGroup(line).queued = NothingQueued
  BY DEF NewGroup, NoGroup
<1>2. DOMAIN NothingQueued = QueueFields
  BY DEF NothingQueued, QueueFields
<1> QED BY <1>1, <1>2, NewGroups DEF Queues

\* What the thread does to the group before a batch ends, connections apart.
Works ==
    \/ \E w \in Wires : Put(w) \/ Del(w) \/ DeleteClient(w)
    \/ \E h \in Known(group) : ExpireQuery(h) \/ Cool(h)
    \/ TakeRegistered \/ TakeLanded \/ TakeHydrated \/ TakeRefused \/ TakeCommitted

LEMMA WorksNews ==
    ASSUME Queues(group), IsQueries(group.queries), Works PROVE SameNews(group, group')
<1>0. \A x : SameNews(group, Labels(group, x))
  BY LabelsOnly DEF Rearranged
<1>1. SameNews(group, group)
  BY NewsFollow DEF Rearranged
<1>2. ASSUME NEW w \in Wires, Put(w) PROVE SameNews(group, group')
  <2>1. PICK client, h, x : group' = Labels(Desiring(group, client, h), x)
    <3> DEFINE h == Head(wires[w].asks).hash
               desiring == Desiring(group, wires[w].tab, h)
    <3>1. \/ (\E query : group' = Remembering(desiring, h, query))
          \/ group' = [desiring EXCEPT !.queries[h].inactive = FALSE]
      BY <1>2, Zenon DEF Put, NotPlanned, Anew
    <3> HIDE DEF desiring
    <3>2. \E x : group' = Labels(desiring, x)
      BY <3>1 DEF Remembering, Labels
    <3> QED BY <3>2 DEF desiring
  <2> QED BY <2>1, DesiresOnly, LabelsOnly, NewsFollow DEF Rearranged, SameNews
<1>3. ASSUME NEW w \in Wires, Del(w) PROVE SameNews(group, group')
  <2>1. PICK client, hashes, x : group' = Echoes(LetGo(group, client, hashes), x)
    BY <1>3 DEF Del, Echoes
  <2> QED BY <2>1, LetGoOnly, LabelsOnly, NewsFollow DEF Rearranged, SameNews
<1>4. ASSUME NEW w \in Wires, DeleteClient(w) PROVE SameNews(group, group')
  <2>1. PICK client, hashes : group' = LetGo(group, client, hashes)
    BY <1>4 DEF DeleteClient
  <2> QED BY <2>1, LetGoOnly DEF Rearranged
<1>5. ASSUME NEW h \in Known(group), ExpireQuery(h) \/ Cool(h) PROVE SameNews(group, group')
  <2>1. group' = Unsubscribed(group, h) \/ \E x : group' = Labels(group, x)
    BY <1>5 DEF ExpireQuery, Cool, Labels
  <2> QED BY <1>0, <2>1, QueryNews
<1>6. CASE TakeRegistered
  <2>1. group' = group \/ \E x : group' = Labels(group, x)
    <3>1. PICK h, token : \/ group' = group
                          \/ group' = [group EXCEPT !.queries[h].awaiting = 0, !.queries[h].sub = token]
      BY <1>6, Zenon DEF TakeRegistered
    <3>2. [group EXCEPT !.queries[h].awaiting = 0, !.queries[h].sub = token]
            = [group EXCEPT !.queries = [[@ EXCEPT ![h].awaiting = 0] EXCEPT ![h].sub = token]]
      BY Zenon DEF Queues, IsGroup, GroupFields
    <3> QED BY <3>1, <3>2 DEF Labels
  <2> QED BY <1>0, <1>1, <2>1
<1>7. CASE TakeLanded \/ TakeHydrated \/ TakeRefused \/ TakeCommitted
  <2>1. group' = group \/ \E h : group' = Hydrate(group, h) \/ group' = Refuse(group, h)
    BY <1>7, Zenon DEF TakeLanded, TakeHydrated, TakeRefused, TakeCommitted
  <2> QED BY <1>1, <2>1, QueryNews
<1> QED BY <1>2, <1>3, <1>4, <1>5, <1>6, <1>7 DEF Works

-----------------------------------------------------------------------------
(* What is known of refusals *)

LastId(u) == CountAt(wal, Len(wal), u)
Live(t) == tabs[t].wire # 0 /\ wires[tabs[t].wire].stage = "joined"

\* Of what was read before the group is asked, `at' being where the group
\* has heard the feed up to; of the ids the group and the tabs know.
Read ==
    \A w \in Wires :
        /\ \A u \in Tabs : wires[w].ids[u] <= LastId(u)
        /\ wires[w].stage = "asking" => wires[w].waiting = ResultsAt(Len(wal))
Booked(at) ==
    /\ Signed(wal) /\ Queues(group) /\ (changes.results # {} => changes.dirty)
    /\ \A u \in Tabs :
        /\ group.lmids[u] <= LastId(u)
        /\ u \in DOMAIN changes.ids => changes.ids[u] <= CountAt(wal, at, u)
        /\ \A t \in Tabs : tabs[t].ids[u] <= LastId(u)

\* The group may tell the id of t's mutation i; it tells of its refusal.
Due(at, t, i) == i <= group.lmids[t] \/ i <= CountAt(wal, at, t)
Owes(t, i) == [tab |-> t, id |-> i] \in group.queued.results \cup changes.results
\* The refusal of i reaches t no later than its id.
Vet(at, t, i) ==
    /\ i \notin tabs[t].trusted /\ (i <= tabs[t].ids[t] => i \in tabs[t].heard)
    /\ Live(t) =>
        /\ Vetted(wires[tabs[t].wire].down, t, i, i \in tabs[t].heard)
        /\ Due(at, t, i) =>
            \/ i \in tabs[t].heard \/ Owes(t, i)
            \/ Reports(wires[tabs[t].wire].down, t, i, Len(wires[tabs[t].wire].down))
News(at) ==
    \A t \in Tabs :
        /\ tabs[t].trusted \subseteq 1 .. LastId(t)
        /\ \A i : RefusedAt(wal, Len(wal), t, i) => Vet(at, t, i)
Reporting(at) == Read /\ Booked(at) /\ News(at)

\* Nothing was applied, and no poke is on its way but those that were.
Unheard(t) ==
    /\ tabs'[t].ids = tabs[t].ids /\ tabs'[t].heard = tabs[t].heard
    /\ tabs'[t].trusted = tabs[t].trusted
    /\ Live(t)' =>
        /\ Live(t) /\ tabs'[t].wire = tabs[t].wire
        /\ \/ wires'[tabs[t].wire].down = wires[tabs[t].wire].down
           \/ \E m : /\ m.kind # "poke"
                     /\ wires'[tabs[t].wire].down = Append(wires[tabs[t].wire].down, m)

LEMMA VetStays ==
    ASSUME GroupInv, NEW at, NEW next, NEW t \in Tabs, NEW i, Vet(at, t, i), Unheard(t),
           Live(t)' => /\ Due(next, t, i)' => Due(at, t, i) \/ Owes(t, i)'
                       /\ Owes(t, i) => Owes(t, i)'
    PROVE  Vet(next, t, i)'
<1>1. i \notin tabs'[t].trusted /\ (i <= tabs'[t].ids[t] => i \in tabs'[t].heard)
  BY DEF Vet, Unheard
<1>2. ASSUME Live(t)'
      PROVE  /\ Vetted(wires'[tabs'[t].wire].down, t, i, i \in tabs'[t].heard)
             /\ Due(next, t, i)' =>
                 \/ i \in tabs'[t].heard \/ Owes(t, i)'
                 \/ Reports(wires'[tabs'[t].wire].down, t, i, Len(wires'[tabs'[t].wire].down))
  <2>1. /\ Live(t) /\ tabs'[t].wire = tabs[t].wire /\ tabs'[t].heard = tabs[t].heard
        /\ \/ wires'[tabs[t].wire].down = wires[tabs[t].wire].down
           \/ \E m : /\ m.kind # "poke"
                     /\ wires'[tabs[t].wire].down = Append(wires[tabs[t].wire].down, m)
    BY <1>2, Zenon DEF Unheard
  <2> DEFINE down == wires[tabs[t].wire].down
             long == wires'[tabs[t].wire].down
  <2>2. PICK heard : heard = (i \in tabs[t].heard)
    OBVIOUS
  <2>3. /\ Vetted(down, t, i, heard) /\ IsDown(down)
        /\ Due(at, t, i) => heard \/ Owes(t, i) \/ Reports(down, t, i, Len(down))
    BY <2>1, <2>2, AtTheEnd, Zenon DEF Vet, Live, IsWire
  <2> HIDE DEF down, long
  <2>4. Vetted(long, t, i, heard) /\ (Reports(down, t, i, Len(down)) => Reports(long, t, i, Len(long)))
    <3>1. CASE long = down
      BY <2>3, <3>1
    <3>2. ASSUME NEW m, m.kind # "poke", long = Append(down, m)
          PROVE  /\ Vetted(long, t, i, heard)
                 /\ Reports(down, t, i, Len(down)) => Reports(long, t, i, Len(long))
      BY <2>3, <3>2, VettedAdded
    <3> QED BY <2>1, <3>1, <3>2, Zenon DEF down, long
  <2> QED BY <1>2, <2>1, <2>2, <2>3, <2>4, Zenon DEF long
<1> QED BY <1>1, <1>2 DEF Vet

LEMMA StillUnheard ==
    ASSUME GroupInv, Still, NEW t \in Tabs, tabs'[t].heard = tabs[t].heard,
           tabs'[t].trusted = tabs[t].trusted
    PROVE  Unheard(t)
<1>1. TabStill(t)
  BY DEF Still
<1>2. ASSUME Live(t)'
      PROVE  /\ Live(t)
             /\ \/ wires'[tabs[t].wire].down = wires[tabs[t].wire].down
                \/ \E m : /\ m.kind # "poke"
                          /\ wires'[tabs[t].wire].down = Append(wires[tabs[t].wire].down, m)
  <2>1. tabs[t].wire # 0 /\ wires'[tabs[t].wire].stage = "joined"
    BY <1>1, <1>2 DEF Live, TabStill
  <2>2. tabs[t].wire \in Wires /\ Listening(tabs[t].wire) /\ WireStill(tabs[t].wire)
    BY <2>1, AtTheEnd DEF Still
  <2> QED BY <2>1, <2>2, Zenon DEF WireStill, Live
<1> QED BY <1>1, <1>2 DEF Unheard, TabStill

LEMMA ApartUnheard == ASSUME NEW t \in Tabs, Apart(t) PROVE Unheard(t)
BY DEF Apart, Unheard, Live

\* Ids are numbers, and grow with the log.
LEMMA IdsNumbered ==
    ASSUME GroupInv
    PROVE  /\ Len(wal) \in Nat /\ IsGroup(group)
           /\ \A u \in Tabs : LastId(u) \in Nat /\ group.lmids[u] \in Nat
           /\ \A t, u \in Tabs : tabs[t].ids[u] \in Nat
           /\ \A u : \A b \in 0 .. Len(wal) :
                CountAt(wal, b, u) \in Nat /\ CountAt(wal, b, u) <= LastId(u)
<1>1. Len(wal) \in Nat
  BY SeqParts DEF GroupInv, Shape, Feed
<1>2. /\ IsGroup(group) /\ \A u \in Tabs : group.lmids[u] \in Nat
      /\ \A t, u \in Tabs : tabs[t].ids[u] \in Nat
  BY DEF GroupInv, Shape, Ends, IsGroup, IsTab, IdMap
<1>3. \A u : LastId(u) \in Nat
  BY <1>1, CountIs DEF LastId
<1>4. \A u : \A b \in 0 .. Len(wal) : CountAt(wal, b, u) \in Nat /\ CountAt(wal, b, u) <= LastId(u)
  BY <1>1, CountIs DEF LastId
<1> QED BY <1>1, <1>2, <1>3, <1>4

\* A transaction commits; a refusal, while no connection has read the tables.
LEMMA ResultsSame ==
    ASSUME NEW n \in Nat, \A i \in 1 .. n : wal'[i] = wal[i], ~wal'[n + 1].refused
    PROVE  ResultsAt(n + 1)' = ResultsAt(n)
<1>1. ASSUME NEW i \in 1 .. n PROVE IdsAt(i)' = IdsAt(i)
  <2>1. \A t : {j \in 1 .. i : wal'[j].by = t} = {j \in 1 .. i : wal[j].by = t}
    OBVIOUS
  <2> QED BY <2>1 DEF IdsAt
<1>2. {i \in 1 .. n + 1 : wal'[i].refused} = {i \in 1 .. n : wal[i].refused}
  <2>1. \A i : i \in 1 .. n + 1 <=> (i \in 1 .. n \/ i = n + 1)
    OBVIOUS
  <2> QED BY <2>1
<1> DEFINE S == {i \in 1 .. n : wal[i].refused}
<1>3. ResultsAt(n + 1)' = {[tab |-> wal'[i].by, id |-> IdsAt(i)'[wal'[i].by]] : i \in S}
  BY <1>2 DEF ResultsAt
<1>4. ResultsAt(n) = {[tab |-> wal[i].by, id |-> IdsAt(i)[wal[i].by]] : i \in S}
  BY DEF ResultsAt
<1>5. \A i \in S : /\ wal'[i].by = wal[i].by
                   /\ IdsAt(i)'[wal'[i].by] = IdsAt(i)[wal[i].by]
  BY <1>1
<1> HIDE DEF S
<1> QED BY <1>3, <1>4, <1>5

LEMMA CommitReports ==
    ASSUME GroupInv, NEW at \in 0 .. Len(wal), Reporting(at), NEW c, Committed(c),
           c.refused => Connecting = {} /\ c.by \in Tabs
    PROVE  Reporting(at)'
<1>n. PICK n : n = Len(wal)
  OBVIOUS
<1>0. UNCHANGED <<group, changes, wires, tabs>>
  BY DEF Committed, thread
<1>1. n \in Nat /\ wal' = Append(wal, c) /\ IsSeq(wal) /\ at \in 0 .. n
  BY <1>n, SeqParts DEF Committed, GroupInv, Shape, Feed
<1>2. Len(wal') = n + 1 /\ (\A i \in 1 .. n : wal'[i] = wal[i]) /\ wal'[n + 1] = c
  BY <1>n, <1>1, Appended
<1>3. at \in Nat /\ \A i \in 1 .. at : wal'[i] = wal[i]
  BY <1>1, <1>2
<1>4. /\ \A u : CountAt(wal', at, u) = CountAt(wal, at, u) /\ CountAt(wal', n, u) = CountAt(wal, n, u)
      /\ \A t, i : RefusedAt(wal', n, t, i) <=> RefusedAt(wal, n, t, i)
  <2>1. \A u : CountAt(wal', at, u) = CountAt(wal, at, u)
    <3>1. PICK log, more : log = wal /\ more = wal'
      OBVIOUS
    <3>2. at \in Nat /\ \A i \in 1 .. at : more[i] = log[i]
      BY <1>3, <3>1
    <3>3. \A u : ByIn(more, at, u) = ByIn(log, at, u)
      BY <3>2 DEF ByIn
    <3>4. \A u : CountAt(more, at, u) = CountAt(log, at, u)
      BY <3>3 DEF CountAt
    <3> QED BY <3>1, <3>4
  <2>0. n \in Nat /\ \A i \in 1 .. n : wal'[i] = wal[i]
    BY <1>1, <1>2
  <2>2. \A u : CountAt(wal', n, u) = CountAt(wal, n, u)
    BY <2>0, CountSame
  <2>3. \A t, i : RefusedAt(wal', n, t, i) <=> RefusedAt(wal, n, t, i)
    BY <1>1, <1>2, RefusedSame
  <2> QED BY <2>1, <2>2, <2>3
<1>5. \A u : /\ LastId(u) \in Nat /\ LastId(u)' \in Nat /\ LastId(u) <= LastId(u)'
             /\ c.by = u => LastId(u)' = LastId(u) + 1
  <2> SUFFICES ASSUME NEW u
               PROVE  /\ LastId(u) \in Nat /\ LastId(u)' \in Nat /\ LastId(u) <= LastId(u)'
                      /\ c.by = u => LastId(u)' = LastId(u) + 1
    OBVIOUS
  <2>1. LastId(u) = CountAt(wal', n, u) /\ LastId(u)' = CountAt(wal', n + 1, u)
    BY <1>n, <1>2, <1>4 DEF LastId
  <2>2. /\ CountAt(wal', n, u) \in Nat
        /\ wal'[n + 1].by = u => CountAt(wal', n + 1, u) = CountAt(wal', n, u) + 1
        /\ wal'[n + 1].by # u => CountAt(wal', n + 1, u) = CountAt(wal', n, u)
    BY <1>1, CountIs
  <2> QED BY <1>2, <2>1, <2>2
<1>6. \A a, b, d \in Nat : a <= b /\ b <= d => a <= d
  OBVIOUS
<1>7. Read'
  <2>1. ASSUME NEW w \in Wires, NEW u \in Tabs PROVE wires[w].ids[u] <= LastId(u)'
    <3>1. wires[w].ids[u] <= LastId(u) /\ wires[w].ids[u] \in Nat
      BY DEF Reporting, Read, GroupInv, Shape, Ends, IsWire, IdMap
    <3> QED BY <1>5, <1>6, <3>1
  <2>2. ASSUME NEW w \in Wires, wires[w].stage = "asking" PROVE wires[w].waiting = ResultsAt(Len(wal))'
    <3>1. ~c.refused
      BY <2>2 DEF Connecting
    <3>2. ResultsAt(n + 1)' = ResultsAt(n)
      BY <1>1, <1>2, <3>1, ResultsSame
    <3>3. wires[w].waiting = ResultsAt(n)
      BY <1>n, <2>2 DEF Reporting, Read
    <3> QED BY <1>2, <3>2, <3>3
  <2> QED BY <1>0, <2>1, <2>2 DEF Read
<1>8. Booked(at)'
  <2>1. Signed(wal')
    <3>1. \A i \in 1 .. n + 1 : i \in 1 .. n \/ i = n + 1
      BY <1>1
    <3> QED BY <1>n, <1>2, <3>1 DEF Signed, Reporting, Booked
  <2>2. ASSUME NEW u \in Tabs
        PROVE  /\ group.lmids[u] <= LastId(u)' /\ \A t \in Tabs : tabs[t].ids[u] <= LastId(u)'
               /\ u \in DOMAIN changes.ids => changes.ids[u] <= CountAt(wal', at, u)
    <3>1. /\ group.lmids[u] <= LastId(u) /\ \A t \in Tabs : tabs[t].ids[u] <= LastId(u)
          /\ u \in DOMAIN changes.ids => changes.ids[u] <= CountAt(wal, at, u)
      BY DEF Reporting, Booked
    <3>2. group.lmids[u] \in Nat /\ \A t \in Tabs : tabs[t].ids[u] \in Nat
      BY IdsNumbered
    <3> QED BY <1>4, <1>5, <1>6, <3>1, <3>2
  <2> QED BY <1>0, <2>1, <2>2 DEF Reporting, Booked
<1>9. ASSUME NEW t \in Tabs PROVE tabs[t].trusted \subseteq 1 .. LastId(t)'
  <2>1. tabs[t].trusted \subseteq 1 .. LastId(t)
    BY DEF Reporting, News
  <2> QED BY <1>5, <2>1
<1>10. ASSUME NEW t \in Tabs, NEW i, RefusedAt(wal, n, t, i) PROVE Vet(at, t, i)'
  <2>1. Vet(at, t, i)
    BY <1>n, <1>10 DEF Reporting, News
  <2>2. Unheard(t)
    BY <1>0, ApartUnheard DEF Apart
  <2>3. (Due(at, t, i)' => Due(at, t, i)) /\ (Owes(t, i) => Owes(t, i)')
    BY <1>0, <1>4 DEF Due, Owes
  <2> QED BY <2>1, <2>2, <2>3, VetStays
\* the id of a refusal is past all that are known
<1>11. ASSUME NEW t \in Tabs, NEW i, c.by = t, i = LastId(t) + 1 PROVE Vet(at, t, i)'
  <2>1. \A x \in Nat : x <= LastId(t) => ~(i <= x)
    BY <1>5, <1>11
  <2>2. LastId(t) \in Nat
    BY <1>5
  <2>3. i \notin tabs[t].trusted
    BY <1>9, <1>10, <1>11, <2>1, <2>2 DEF Reporting, News
  <2>4. tabs[t].ids[t] \in Nat /\ group.lmids[t] \in Nat /\ tabs[t].ids[t] <= LastId(t) /\ group.lmids[t] <= LastId(t)
    BY IdsNumbered DEF Reporting, Booked
  <2>5. CountAt(wal', at, t) \in Nat /\ CountAt(wal', at, t) <= LastId(t)
    BY <1>4, IdsNumbered
  <2>6. ~(i <= tabs[t].ids[t]) /\ ~Due(at, t, i)'
    BY <1>0, <2>1, <2>4, <2>5 DEF Due
  <2>7. ASSUME Live(t) PROVE Vetted(wires[tabs[t].wire].down, t, i, i \in tabs[t].heard)
    <3> DEFINE down == wires[tabs[t].wire].down
    <3>1. Rising(down, t, group.lmids[t]) /\ IsDown(down)
      BY <2>7, AtTheEnd DEF Live, GroupInv, Order, Counted, IsWire
    <3> HIDE DEF down
    <3>2. \A j \in 1 .. Len(down) : Poke(down, j) => Told(down, j, t) \in Nat
      BY <3>1 DEF IsDown, IsPokeRecord, Told, IdMap
    <3>3. \A x, y, z \in Nat : x <= y /\ y <= z => x <= z
      OBVIOUS
    <3>4. \A j \in 1 .. Len(down) : Poke(down, j) => Told(down, j, t) <= LastId(t)
      BY <2>2, <2>4, <3>1, <3>2, <3>3 DEF Rising
    <3> QED BY <2>1, <3>2, <3>4 DEF Vetted, down
  <2> QED BY <1>0, <2>3, <2>6, <2>7 DEF Vet, Live
<1>12. News(at)'
  <2>1. ASSUME NEW t \in Tabs, NEW i, RefusedAt(wal', n + 1, t, i) PROVE Vet(at, t, i)'
    <3>1. CASE RefusedAt(wal', n, t, i)
      BY <1>4, <1>10, <3>1
    <3>2. CASE wal'[n + 1].by = t /\ CountAt(wal', n + 1, t) = i
      <4>1. c.by = t /\ i = LastId(t)'
        BY <1>2, <3>2 DEF LastId
      <4> QED BY <1>5, <1>11, <4>1
    <3> QED BY <1>1, <2>1, <3>1, <3>2, RefusedNext
  <2> QED BY <1>0, <1>2, <1>9, <2>1 DEF News
<1> QED BY <1>7, <1>8, <1>12 DEF Reporting

\* What a connection has read is what it read before, nothing, or all of it.
ReadFrom(w) ==
    /\ \/ wires'[w].ids = wires[w].ids \/ wires'[w].ids = NoIds
       \/ wires'[w].ids = IdsAt(Len(wal))
    /\ wires'[w].stage = "asking" =>
        \/ wires[w].stage = "asking" /\ wires'[w].waiting = wires[w].waiting
        \/ wires'[w].waiting = ResultsAt(Len(wal))

LEMMA WireRead ==
    ASSUME NEW w \in Wires, IsWire(wires[w]),
           \/ wires'[w] = wires[w]
           \/ \E x : wires'[w] = [wires[w] EXCEPT !.down = x]
           \/ \E x : wires'[w] = [wires[w] EXCEPT !.asks = x]
           \/ \E x, y : wires'[w] = [wires[w] EXCEPT !.asks = x, !.down = y]
           \/ wires'[w] = [wires[w] EXCEPT !.stage = "asking", !.ids = IdsAt(Len(wal)),
                                           !.waiting = ResultsAt(Len(wal))]
           \/ wires'[w].stage # "asking" /\ wires'[w].ids = NoIds
    PROVE  ReadFrom(w)
BY Zenon DEF ReadFrom, IsWire, WireFields

LEMMA WiresRead ==
    ASSUME GroupInv, "unread" \notin Faults, [Next]_vars, NEW w \in Wires
    PROVE  ReadFrom(w)
<1>0. DOMAIN wires = Wires /\ \A v \in Wires : IsWire(wires[v])
  BY DEF GroupInv, Shape, Ends
<1> USE <1>0
<1>1. CASE UNCHANGED wires
  BY <1>1, WireRead
<1>2. ASSUME NEW v \in Wires, Put(v) \/ Del(v) \/ DeleteClient(v) PROVE ReadFrom(w)
  <2>1. PICK messages : Answered(v, messages)
    BY <1>2, Zenon DEF Put, NotPlanned, Anew, Del, DeleteClient
  <2>2. wires'[w] = wires[w] \/ \E x, y : wires'[w] = [wires[w] EXCEPT !.asks = x, !.down = y]
    BY <2>1, Zenon DEF Answered
  <2> QED BY <2>2, WireRead, Zenon
<1>3. CASE TakeRefused \/ Flush
  <2>1. CASE TakeRefused
    <3>1. wires'[w] = wires[w] \/ \E x : wires'[w] = [wires[w] EXCEPT !.down = x]
      BY <2>1 DEF TakeRefused
    <3> QED BY <3>1, WireRead, Zenon
  <2>2. CASE Flush
    <3>1. wires' = wires \/ \E g : SendPoke(g)
      BY <2>2 DEF Flush
    <3>2. wires'[w] = wires[w] \/ \E x : wires'[w] = [wires[w] EXCEPT !.down = x]
      BY <3>1, Zenon DEF SendPoke
    <3> QED BY <3>2, WireRead, Zenon
  <2> QED BY <1>3, <2>1, <2>2
<1>4. ASSUME NEW v \in Wires, ReadMutations(v) PROVE ReadFrom(w)
  <2>1. \/ wires'[w] = wires[w]
        \/ wires'[w] = [wires[w] EXCEPT !.stage = "asking", !.ids = IdsAt(Len(wal)),
                                        !.waiting = ResultsAt(Len(wal))]
    BY <1>4 DEF ReadMutations
  <2> QED BY <2>1, WireRead, Zenon
<1>5. ASSUME NEW v \in Wires, Connect(v) \/ Disconnect(v) \/ \E t \in Tabs : Open(v, t)
      PROVE  ReadFrom(w)
  <2>0. DOMAIN wires[v] = WireFields /\ DOMAIN NoWire = WireFields /\ NoWire.ids = NoIds
    BY DEF IsWire, NoWire, WireFields
  <2>1. CASE Connect(v)
    <3>1. CASE Refusal(v)
      <4>1. w # v => wires'[w] = wires[w]
        BY <3>1 DEF Refusal
      <4>2. wires'[v].stage = "gone" /\ wires'[v].ids = NoIds
        BY <2>0, <3>1 DEF Refusal, WireFields
      <4> QED BY <4>1, <4>2, WireRead, Zenon
    <3>2. CASE Join(v)
      <4>1. w # v => wires'[w] = wires[w]
        BY <3>2 DEF Join
      <4>2. wires'[v].stage = "joined" /\ wires'[v].ids = NoIds
        BY <2>0, <3>2 DEF Join, WireFields
      <4> QED BY <4>1, <4>2, WireRead, Zenon
    <3> QED BY <2>1, <3>1, <3>2 DEF Connect
  <2>2. CASE Disconnect(v)
    <3>1. w # v => wires'[w] = wires[w]
      BY <2>2 DEF Disconnect
    <3>2. wires'[v].stage = "gone" /\ wires'[v].ids = NoIds
      BY <2>0, <2>2 DEF Disconnect, WireFields
    <3> QED BY <3>1, <3>2, WireRead, Zenon
  <2>3. ASSUME NEW t \in Tabs, Open(v, t) PROVE ReadFrom(w)
    <3>1. w # v => wires'[w] = wires[w]
      BY <2>3 DEF Open
    <3>2. wires'[v].stage = "reading" /\ wires'[v].ids = NoIds
      BY <2>0, <2>3 DEF Open, WireFields
    <3> QED BY <3>1, <3>2, WireRead, Zenon
  <2> QED BY <1>5, <2>1, <2>2, <2>3
<1>6. ASSUME NEW t \in Tabs,
             \/ Drop(t) \/ Hear(t) \/ \E h \in Queries : Desire(t, h) \/ Undesire(t, h)
             \/ \E gone \in Tabs : Forget(t, gone)
      PROVE  ReadFrom(w)
  <2>1. PICK x : \/ wires' = [wires EXCEPT ![tabs[t].wire].down = x]
                 \/ wires' = [wires EXCEPT ![tabs[t].wire].asks = x]
    BY <1>6, Zenon DEF Drop, Hear, Desire, Undesire, Forget, Say
  <2>2. \/ wires'[w] = wires[w] \/ \E y : wires'[w] = [wires[w] EXCEPT !.down = y]
        \/ \E y : wires'[w] = [wires[w] EXCEPT !.asks = y]
    BY <2>1
  <2> QED BY <2>2, WireRead, Zenon
<1>7. ASSUME Next PROVE ReadFrom(w)
  <2>1. ASSUME \/ OutsideWrite \/ \E t \in Tabs : Mutate(t) \/ RefuseMutation(t)
               \/ \E h \in Known(group) : ExpireQuery(h) \/ Cool(h)
               \/ Expire \/ TakeRegistered \/ TakeLanded \/ TakeHydrated \/ TakeCommitted
               \/ TakeRegister \/ TakeUnregister \/ Route
               \/ \E token \in DOMAIN engine.subs : Land(token) \/ RefuseRead(token)
        PROVE  UNCHANGED wires
    BY <2>1, Zenon DEF OutsideWrite, Mutate, RefuseMutation, Committed, ExpireQuery, Cool, Expire,
         TakeRegistered, TakeLanded, TakeHydrated, TakeCommitted, TakeRegister, TakeUnregister,
         Route, Land, RefuseRead
  <2> QED BY <1>1, <1>2, <1>3, <1>4, <1>5, <1>6, <1>7, <2>1 DEF Next
<1> QED BY <1>1, <1>7 DEF vars

LEMMA ReadKept ==
    ASSUME GroupInv, Read, "unread" \notin Faults, [Next]_vars, UNCHANGED wal
    PROVE  Read'
<1>1. \A u \in Tabs : LastId(u) \in Nat /\ LastId(u)' = LastId(u) /\ IdsAt(Len(wal))[u] = LastId(u)
  BY IdsNumbered, IdsAre DEF LastId
<1>2. \A u \in Tabs : NoIds[u] = 0
  BY DEF NoIds
<1>3. \A u \in Tabs : \A x : x = LastId(u) \/ x = 0 => x <= LastId(u)
  BY <1>1
<1>4. ASSUME NEW w \in Wires, NEW u \in Tabs PROVE wires'[w].ids[u] <= LastId(u)
  BY <1>1, <1>2, <1>3, WiresRead DEF ReadFrom, Read
<1>5. ResultsAt(Len(wal))' = ResultsAt(Len(wal))
  BY DEF ResultsAt, IdsAt
<1>6. ASSUME NEW w \in Wires, wires'[w].stage = "asking" PROVE wires'[w].waiting = ResultsAt(Len(wal))
  BY <1>6, WiresRead DEF ReadFrom, Read
<1> QED BY <1>1, <1>4, <1>5, <1>6 DEF Read

\* Steps after which nothing new is known.
Plain ==
    \/ \E t \in Tabs, h \in Queries : Desire(t, h) \/ Undesire(t, h)
    \/ \E t, gone \in Tabs : Forget(t, gone)
    \/ \E w \in Wires : ReadMutations(w) \/ Put(w) \/ Del(w) \/ DeleteClient(w)
    \/ \E h \in Known(group) : ExpireQuery(h) \/ Cool(h)
    \/ TakeRegister \/ TakeUnregister \/ Route
    \/ \E token \in DOMAIN engine.subs : Land(token) \/ RefuseRead(token)
    \/ UNCHANGED vars

LEMMA PlainStill == ASSUME GroupInv, Plain PROVE Still
<1>1. UNCHANGED vars => Still
  BY NothingMoves DEF vars, thread
<1> QED BY <1>1, EngineStill, ThreadStill, RequestStill, SayStill, ReadStill DEF Plain

LEMMA PlainNews ==
    ASSUME GroupInv, Queues(group), IsQueries(group.queries), Plain
    PROVE  /\ UNCHANGED wal /\ SameNews(group, group')
           /\ changes'.ids = changes.ids /\ changes'.results = changes.results
           /\ changes.dirty => changes'.dirty
           /\ \A t \in Tabs : tabs'[t].heard = tabs[t].heard /\ tabs'[t].trusted = tabs[t].trusted
<1>0. /\ SameNews(group, group) /\ DOMAIN changes = {"ids", "results", "dirty"}
      /\ DOMAIN tabs = Tabs /\ \A t \in Tabs : DOMAIN tabs[t] = TabFields
  BY NewsFollow DEF Rearranged, GroupInv, Shape, Ends, Feed, IsTab
<1>1. CASE UNCHANGED <<wal, group, changes, tabs>>
  BY <1>0, <1>1
<1>2. ASSUME NEW t \in Tabs, \/ \E h \in Queries : Desire(t, h) \/ Undesire(t, h)
                             \/ \E gone \in Tabs : Forget(t, gone)
      PROVE  /\ UNCHANGED <<wal, group, changes>>
             /\ \A v \in Tabs : tabs'[v].heard = tabs[v].heard /\ tabs'[v].trusted = tabs[v].trusted
  <2>1. UNCHANGED <<wal, group, changes>>
    BY <1>2, Zenon DEF Desire, Undesire, Forget, thread
  <2> DEFINE Says(a, b, c) == \/ tabs' = [tabs EXCEPT ![t].desires = a, ![t].told = b, ![t].asked = c]
                              \/ tabs' = [tabs EXCEPT ![t].asked = c]
  <2>a. ASSUME NEW h \in Queries, Desire(t, h) PROVE \E a, b, c : Says(a, b, c)
    BY <2>a, Zenon DEF Desire
  <2>b. ASSUME NEW h \in Queries, Undesire(t, h) PROVE \E a, b, c : Says(a, b, c)
    BY <2>b, Zenon DEF Undesire
  <2>c. ASSUME NEW gone \in Tabs, Forget(t, gone) PROVE \E a, b, c : Says(a, b, c)
    BY <2>c, Zenon DEF Forget
  <2>2. PICK a, b, c : Says(a, b, c)
    BY <1>2, <2>a, <2>b, <2>c, Zenon
  <2>3. \A v \in Tabs \ {t} : tabs'[v] = tabs[v]
    BY <1>0, <2>2
  <2>4. \/ tabs'[t] = [tabs[t] EXCEPT !.desires = a, !.told = b, !.asked = c]
        \/ tabs'[t] = [tabs[t] EXCEPT !.asked = c]
    BY <1>0, <2>2
  <2>5. tabs'[t].heard = tabs[t].heard /\ tabs'[t].trusted = tabs[t].trusted
    BY <1>0, <2>4 DEF TabFields
  <2> QED BY <2>1, <2>3, <2>5
<1>3. ASSUME \/ \E w \in Wires : Put(w) \/ Del(w) \/ DeleteClient(w)
             \/ \E h \in Known(group) : ExpireQuery(h) \/ Cool(h)
      PROVE  /\ UNCHANGED <<wal, tabs>> /\ SameNews(group, group')
             /\ changes' = changes \/ Dirty
  <2>1. UNCHANGED <<wal, tabs>> /\ (changes' = changes \/ Dirty)
    BY <1>3, Zenon DEF Put, NotPlanned, Anew, Del, DeleteClient, ExpireQuery, Cool
  <2> QED BY <1>3, <2>1, WorksNews DEF Works
<1>4. ASSUME \/ \E w \in Wires : ReadMutations(w)
             \/ TakeRegister \/ TakeUnregister \/ Route
             \/ \E token \in DOMAIN engine.subs : Land(token) \/ RefuseRead(token)
             \/ UNCHANGED vars
      PROVE  UNCHANGED <<wal, group, changes, tabs>>
  BY <1>4, Zenon DEF ReadMutations, TakeRegister, TakeUnregister, Route, Land, RefuseRead, thread, vars
<1>5. Dirty => /\ changes'.ids = changes.ids /\ changes'.results = changes.results
               /\ changes.dirty => changes'.dirty
  BY <1>0 DEF Dirty
<1> QED BY <1>0, <1>1, <1>2, <1>3, <1>4, <1>5 DEF Plain

LEMMA PlainReports ==
    ASSUME GroupInv, IsQueries(group.queries), "unread" \notin Faults, [Next]_vars,
           NEW at, Reporting(at), Plain
    PROVE  Reporting(at)'
<1>1. /\ UNCHANGED wal /\ SameNews(group, group') /\ Queues(group)'
      /\ changes'.ids = changes.ids /\ changes'.results = changes.results
      /\ changes.dirty => changes'.dirty
      /\ \A t \in Tabs : tabs'[t].heard = tabs[t].heard /\ tabs'[t].trusted = tabs[t].trusted
  BY PlainNews DEF Reporting, Booked, SameNews
<1>2. group'.lmids = group.lmids /\ group'.queued.results = group.queued.results
  BY <1>1 DEF SameNews, Kept
<1>3. \A t \in Tabs : Unheard(t) /\ tabs'[t].ids = tabs[t].ids
  BY <1>1, PlainStill, StillUnheard DEF Unheard
<1>4. Read'
  BY <1>1, ReadKept DEF Reporting
<1>5. \A u : LastId(u)' = LastId(u)
  BY <1>1 DEF LastId
<1>6. Booked(at)'
  BY <1>1, <1>2, <1>3, <1>5 DEF Reporting, Booked
<1>7. ASSUME NEW t \in Tabs, NEW i, Vet(at, t, i) PROVE Vet(at, t, i)'
  <2>1. (Due(at, t, i)' => Due(at, t, i)) /\ (Owes(t, i) => Owes(t, i)')
    BY <1>1, <1>2 DEF Due, Owes
  <2> QED BY <1>3, <1>7, <2>1, VetStays
<1>8. News(at)'
  BY <1>1, <1>5, <1>7 DEF Reporting, News
<1> QED BY <1>4, <1>6, <1>8 DEF Reporting

\* The feed is heard further: what is newly due is owed.
LEMMA NewsMoves ==
    ASSUME GroupInv, "unread" \notin Faults, [Next]_vars, UNCHANGED <<wal, tabs>>, Still,
           SameNews(group, group'), NEW at, NEW next, Reporting(at),
           changes.results \subseteq changes'.results, changes'.results # {} => changes'.dirty,
           \A u \in DOMAIN changes'.ids : changes'.ids[u] <= CountAt(wal, next, u),
           \A t \in Tabs : \A i : RefusedAt(wal, Len(wal), t, i) /\ i <= CountAt(wal, next, t) =>
                i <= CountAt(wal, at, t) \/ [tab |-> t, id |-> i] \in changes'.results
    PROVE  Reporting(next)'
<1>1. /\ group'.lmids = group.lmids /\ group'.queued.results = group.queued.results /\ Queues(group)'
  BY DEF SameNews, Kept
<1>2. \A t \in Tabs : Unheard(t)
  BY StillUnheard
<1>3. Read'
  BY ReadKept DEF Reporting
<1>4. \A u : LastId(u)' = LastId(u)
  BY DEF LastId
<1>5. Booked(next)'
  BY <1>1, <1>4 DEF Reporting, Booked
<1>6. ASSUME NEW t \in Tabs, NEW i, RefusedAt(wal, Len(wal), t, i) PROVE Vet(next, t, i)'
  <2>1. Vet(at, t, i)
    BY <1>6 DEF Reporting, News
  <2>2. Owes(t, i) => Owes(t, i)'
    BY <1>1 DEF Owes
  <2>3. Due(next, t, i)' => Due(at, t, i) \/ Owes(t, i)'
    BY <1>1, <1>6 DEF Due, Owes
  <2> QED BY <1>2, <2>1, <2>2, <2>3, VetStays
<1>7. News(next)'
  BY <1>4, <1>6 DEF Reporting, News
<1> QED BY <1>3, <1>5, <1>7 DEF Reporting

\* What a commit's event tells of its mutation.
LEMMA CommitTold ==
    ASSUME GroupInv, TakeCommitted, NEW at \in Nat, at + 1 <= Len(wal), Signed(wal),
           Head(events).at = at + 1,
           \A u \in DOMAIN changes.ids : changes.ids[u] <= CountAt(wal, at, u)
    PROVE  /\ \A u \in DOMAIN changes'.ids : changes'.ids[u] <= CountAt(wal, at + 1, u)
           /\ changes.results \subseteq changes'.results
           /\ changes.dirty \/ wal[at + 1].refused => changes'.dirty
           /\ wal[at + 1].refused =>
                [tab |-> wal[at + 1].by, id |-> CountAt(wal, at + 1, wal[at + 1].by)]
                    \in changes'.results
           /\ ~wal[at + 1].refused => changes'.results = changes.results
<1> DEFINE by == wal[at + 1].by
           id == IdsAt(at + 1)[by]
<1>1. Len(wal) \in Nat /\ at + 1 \in 1 .. Len(wal) /\ at + 1 \in Nat
  BY IdsNumbered
<1>2. /\ changes'.ids = [t \in DOMAIN changes.ids \cup (Tabs \cap {by}) |->
                            IF t = by THEN id ELSE changes.ids[t]]
      /\ changes'.results = IF wal[at + 1].refused THEN changes.results \cup {[tab |-> by, id |-> id]}
                            ELSE changes.results
      /\ changes.dirty \/ by \in Tabs => changes'.dirty
  BY Zenon DEF TakeCommitted
<1>3. by \in Tabs => id = CountAt(wal, at + 1, by)
  BY IdsAre
<1>4. wal[at + 1].refused => by \in Tabs
  BY <1>1 DEF Signed
<1> HIDE DEF by, id
<1>5. ASSUME NEW u \in DOMAIN changes'.ids PROVE changes'.ids[u] <= CountAt(wal, at + 1, u)
  <2>1. CountAt(wal, at, u) \in Nat /\ CountAt(wal, at + 1, u) \in Nat
    BY <1>1, CountIs
  <2>2. CountAt(wal, at, u) <= CountAt(wal, at + 1, u)
    <3>1. \A b \in Nat : b <= at + 1 => CountAt(wal, b, u) <= CountAt(wal, at + 1, u)
      BY <1>1, CountIs
    <3>2. at <= at + 1
      OBVIOUS
    <3> QED BY <3>1, <3>2
  <2>3. CASE u = by
    <3>1. by \in Tabs /\ changes'.ids[u] = id
      BY <1>2, <1>5, <2>3 DEF GroupInv, Shape, Feed
    <3> QED BY <1>3, <2>1, <2>3, <3>1
  <2>4. CASE u # by
    <3>1. u \in DOMAIN changes.ids /\ changes'.ids[u] = changes.ids[u] /\ changes.ids[u] \in Nat
      BY <1>2, <1>5, <2>4 DEF GroupInv, Shape, Feed
    <3> QED BY <2>1, <2>2, <3>1
  <2> QED BY <2>3, <2>4
<1> QED BY <1>2, <1>3, <1>4, <1>5 DEF by

LEMMA HearsReports ==
    ASSUME GroupInv, IsQueries(group.queries), "unread" \notin Faults, [Next]_vars, Hears,
           NEW asked, NEW p, NEW r, p.at \in Nat, r.at <= Len(wal),
           Moves(wal, asked, p, Head(events), r), Reporting(p.at)
    PROVE  Reporting(r.at)'
<1>1. Still
  BY ThreadStill, RefusedStill DEF Hears
<1>2. UNCHANGED <<wal, tabs>> /\ SameNews(group, group')
  <2>1. SameNews(group, group')
    BY WorksNews DEF Works, Hears, Reporting, Booked
  <2>2. CASE TakeRegistered
    BY <2>1, <2>2 DEF TakeRegistered
  <2>3. CASE TakeLanded \/ TakeHydrated \/ TakeCommitted
    BY <2>1, <2>3 DEF TakeLanded, TakeHydrated, TakeCommitted
  <2>4. CASE TakeRefused
    BY <2>1, <2>4 DEF TakeRefused
  <2> QED BY <2>2, <2>3, <2>4 DEF Hears
<1>3. CASE Head(events).kind # "committed"
  <2>1. r.at = p.at
    BY <1>3 DEF Moves, Registers, Lands, Hydrates, Refuses, Routes
  <2>2. changes'.ids = changes.ids /\ changes'.results = changes.results
        /\ (changes.dirty => changes'.dirty)
    <3>1. DOMAIN changes = {"ids", "results", "dirty"}
      BY DEF GroupInv, Shape, Feed
    <3>2. ~TakeCommitted
      BY <1>3 DEF TakeCommitted, NextEvent
    <3> DEFINE Same == changes' = changes \/ Dirty \/ \E x : changes' = [changes EXCEPT !.dirty = @ \/ x]
    <3>3. Same
      <4>1. TakeRegistered => Same
        BY DEF TakeRegistered, Absorb
      <4>2. TakeLanded => Same
        BY DEF TakeLanded, Absorb
      <4>3. TakeHydrated => Same
        BY DEF TakeHydrated
      <4>4. TakeRefused => Same
        BY DEF TakeRefused
      <4> QED BY <3>2, <4>1, <4>2, <4>3, <4>4 DEF Hears
    <3> QED BY <3>1, <3>3 DEF Dirty
  <2> QED BY <1>1, <1>2, <2>1, <2>2, NewsMoves DEF Reporting, Booked, GroupInv, Shape, Feed
<1>4. CASE Head(events).kind = "committed"
  <2>1. TakeCommitted
    <3>1. ~(TakeRegistered \/ TakeLanded \/ TakeHydrated \/ TakeRefused)
      BY <1>4 DEF TakeRegistered, TakeLanded, TakeHydrated, TakeRefused, NextEvent
    <3> QED BY <3>1 DEF Hears
  <2>2. r.at = p.at + 1 /\ Head(events).at = p.at + 1
    BY <1>4 DEF Moves, Registers, Lands, Hydrates, Refuses, Routes
  <2> DEFINE at == p.at
  <2>3. /\ \A u \in DOMAIN changes'.ids : changes'.ids[u] <= CountAt(wal, at + 1, u)
        /\ changes.results \subseteq changes'.results
        /\ changes.dirty \/ wal[at + 1].refused => changes'.dirty
        /\ wal[at + 1].refused =>
                [tab |-> wal[at + 1].by, id |-> CountAt(wal, at + 1, wal[at + 1].by)]
                    \in changes'.results
        /\ ~wal[at + 1].refused => changes'.results = changes.results
    <3>1. \A u \in DOMAIN changes.ids : changes.ids[u] <= CountAt(wal, at, u)
      BY DEF Reporting, Booked, GroupInv, Shape, Feed
    <3>2. Signed(wal) /\ at \in Nat /\ at + 1 <= Len(wal)
      BY <2>2 DEF Reporting, Booked
    <3> QED BY <2>1, <2>2, <3>1, <3>2, CommitTold
  <2>4. changes'.results # {} => changes'.dirty
    BY <2>3 DEF Reporting, Booked
  <2>5. ASSUME NEW t \in Tabs, NEW i, RefusedAt(wal, Len(wal), t, i), i <= CountAt(wal, at + 1, t)
        PROVE  i <= CountAt(wal, at, t) \/ [tab |-> t, id |-> i] \in changes'.results
    <3>1. RefusedAt(wal, at + 1, t, i)
      BY <2>5, IdsNumbered, RefusedIds
    <3>2. CASE RefusedAt(wal, at, t, i)
      BY <3>2, RefusedIds
    <3> QED BY <2>3, <3>1, <3>2, RefusedNext
  <2>6. Reporting(at + 1)'
    BY <1>1, <1>2, <2>3, <2>4, <2>5, NewsMoves
  <2> QED BY <2>2, <2>6
<1> QED BY <1>3, <1>4

\* Connections come and go: what is on its way to a connected tab stays.
LEMMA UnheardReports ==
    ASSUME GroupInv, "unread" \notin Faults, [Next]_vars, UNCHANGED wal, NEW at, Reporting(at),
           Queues(group'), \A u \in Tabs : group'.lmids[u] <= LastId(u),
           UNCHANGED changes \/ changes' = NoChanges,
           \A t \in Tabs : /\ Unheard(t)
                           /\ Live(t)' => /\ group'.lmids = group.lmids /\ UNCHANGED changes
                                          /\ group'.queued.results = group.queued.results
    PROVE  Reporting(at)'
<1>1. \A u : LastId(u)' = LastId(u)
  BY DEF LastId
<1>2. Read'
  BY ReadKept DEF Reporting
<1>3. NoChanges.results = {} /\ DOMAIN NoChanges.ids = {}
  BY DEF NoChanges
<1>4. \A t, u \in Tabs : tabs'[t].ids[u] = tabs[t].ids[u]
  BY DEF Unheard
<1>5. Booked(at)'
  BY <1>1, <1>3, <1>4 DEF Reporting, Booked
<1>6. ASSUME NEW t \in Tabs, NEW i, RefusedAt(wal, Len(wal), t, i) PROVE Vet(at, t, i)'
  <2>1. Vet(at, t, i) /\ Unheard(t)
    BY <1>6 DEF Reporting, News
  <2>2. Live(t)' => (Due(at, t, i)' => Due(at, t, i)) /\ (Owes(t, i) => Owes(t, i)')
    BY DEF Due, Owes
  <2> QED BY <2>1, <2>2, VetStays
<1>7. \A t \in Tabs : tabs'[t].trusted = tabs[t].trusted
  BY DEF Unheard
<1>8. News(at)'
  BY <1>1, <1>6, <1>7 DEF Reporting, News
<1> QED BY <1>2, <1>5, <1>8 DEF Reporting

LEMMA DropReports ==
    ASSUME GroupInv, "unread" \notin Faults, [Next]_vars, NEW at, Reporting(at),
           NEW t \in Tabs, Drop(t)
    PROVE  Reporting(at)'
<1>1. tabs[t].wire # 0 /\ UNCHANGED <<wal, group, changes>> /\ IsTab(tabs[t])
  BY DEF Drop, thread, GroupInv, Shape, Ends
<1> DEFINE w == tabs[t].wire
           x == [wires[w] EXCEPT !.down = <<>>]
           y == [tabs[t] EXCEPT !.wire = 0]
<1>2. w \in Wires /\ IsWire(wires[w]) /\ \A v \in Tabs : tabs[v].wire = w => v = t
  BY <1>1, AtTheEnd
<1>3. /\ wires' = [wires EXCEPT ![w] = x] /\ tabs' = [tabs EXCEPT ![t] = y]
  BY <1>2 DEF Drop, GroupInv, Shape, Ends
<1>4. IsWire(x)
  BY <1>2, NothingUnderWay DEF IsWire, WireFields
<1>5. /\ IsTab(y) /\ y.wire = 0 /\ y.ids = tabs[t].ids /\ y.heard = tabs[t].heard
      /\ y.trusted = tabs[t].trusted
  BY <1>1 DEF IsTab, TabFields
<1> HIDE DEF w, x, y
<1>6. \A v \in Wires : v # w => wires'[v] = wires[v]
  BY <1>2, <1>3, <1>4, OneWire
<1>7. tabs'[t] = y /\ \A v \in Tabs : v # t => tabs'[v] = tabs[v]
  BY <1>3, <1>5, OneTab
<1>8. ASSUME NEW v \in Tabs PROVE Unheard(v)
  <2>1. CASE v = t
    BY <1>5, <1>7, <2>1 DEF Unheard, Live
  <2>2. CASE v # t
    <3>1. tabs[v].wire # 0 => tabs[v].wire # w /\ tabs[v].wire \in Wires
      BY <1>2, <2>2, AtTheEnd
    <3>2. Apart(v)
      BY <1>6, <1>7, <2>2, <3>1 DEF Apart
    <3> QED BY <3>2, ApartUnheard
  <2> QED BY <2>1, <2>2
<1> QED BY <1>1, <1>8, UnheardReports DEF Reporting, Booked

LEMMA OpenReports ==
    ASSUME GroupInv, "unread" \notin Faults, [Next]_vars, NEW at, Reporting(at),
           NEW t \in Tabs, NEW w \in Wires, Open(w, t)
    PROVE  Reporting(at)'
<1>1. /\ wires[w].stage = "unused" /\ tabs[t].wire = 0 /\ UNCHANGED <<wal, group, changes>>
      /\ IsTab(tabs[t]) /\ IsWire(wires[w])
  BY DEF Open, thread, GroupInv, Shape, Ends
<1>2. PICK a, b : /\ wires' = [wires EXCEPT ![w] = [NoWire EXCEPT !.stage = "reading", !.tab = t,
                                   !.cookie = tabs[t].cookie, !.asks = b]]
                  /\ tabs' = [tabs EXCEPT ![t].wire = w, ![t].told = a]
  BY Zenon DEF Open
<1>3. wires'[w].stage = "reading" /\ \A v \in Wires : v # w => wires'[v] = wires[v]
  BY <1>2 DEF NoWire, GroupInv, Shape, Ends
<1>4. tabs' = [tabs EXCEPT ![t] = [tabs[t] EXCEPT !.wire = w, !.told = a]]
  BY <1>2 DEF GroupInv, Shape, Ends
<1>5. /\ tabs'[t] = [tabs[t] EXCEPT !.wire = w, !.told = a]
      /\ \A v \in Tabs : v # t => tabs'[v] = tabs[v]
  BY <1>4 DEF GroupInv, Shape, Ends
<1>6. /\ tabs'[t].wire = w /\ tabs'[t].ids = tabs[t].ids /\ tabs'[t].heard = tabs[t].heard
      /\ tabs'[t].trusted = tabs[t].trusted
  BY <1>1, <1>5 DEF IsTab, TabFields
<1>7. ASSUME NEW v \in Tabs PROVE Unheard(v)
  <2>1. CASE v = t
    BY <1>3, <1>6, <2>1 DEF Unheard, Live
  <2>2. CASE v # t
    <3>1. tabs[v].wire # 0 => tabs[v].wire # w /\ tabs[v].wire \in Wires
      BY <1>1 DEF GroupInv, Order, Wired
    <3>2. Apart(v)
      BY <1>3, <1>5, <2>2, <3>1 DEF Apart
    <3> QED BY <3>2, ApartUnheard
  <2> QED BY <2>1, <2>2
<1> QED BY <1>1, <1>7, UnheardReports DEF Reporting, Booked

\* A connection the group lets go of, or does not take.
LEMMA GoneReports ==
    ASSUME GroupInv, "unread" \notin Faults, [Next]_vars, NEW at, Reporting(at),
           NEW w \in Wires, NEW x, x.stage = "gone", wires' = [wires EXCEPT ![w] = x],
           UNCHANGED <<wal, changes, tabs>>, Queues(group'), group'.lmids = group.lmids,
           group'.queued.results = group.queued.results
    PROVE  Reporting(at)'
<1>1. wires'[w] = x /\ \A v \in Wires : v # w => wires'[v] = wires[v]
  BY DEF GroupInv, Shape, Ends
<1>2. ASSUME NEW v \in Tabs PROVE Unheard(v)
  <2>1. CASE tabs[v].wire = w
    BY <1>1, <2>1 DEF Unheard, Live
  <2>2. CASE tabs[v].wire # w
    <3>1. Apart(v)
      BY <1>1, <2>2, AtTheEnd DEF Apart
    <3> QED BY <3>1, ApartUnheard
  <2> QED BY <2>1, <2>2
<1> QED BY <1>2, UnheardReports DEF Reporting, Booked

LEMMA DisconnectReports ==
    ASSUME GroupInv, "unread" \notin Faults, [Next]_vars, NEW at, Reporting(at),
           NEW w \in Wires, Disconnect(w) \/ (Connect(w) /\ Refusal(w))
    PROVE  Reporting(at)'
<1>1. UNCHANGED <<wal, tabs, changes>>
  BY DEF Disconnect, Connect, Refusal
<1>2. \E x : x.stage = "gone" /\ wires' = [wires EXCEPT ![w] = x]
  <2>1. \A v, d : /\ [NoWire EXCEPT !.stage = "gone", !.tab = v].stage = "gone"
                  /\ [NoWire EXCEPT !.stage = "gone", !.tab = v, !.down = d].stage = "gone"
    BY DEF NoWire
  <2> QED BY <2>1 DEF Disconnect, Refusal
<1>3. /\ Queues(group') /\ group'.lmids = group.lmids
      /\ group'.queued.results = group.queued.results
  <2>1. Queues(group)
    BY DEF Reporting, Booked
  <2>2. group' = group \/ \E x : group' = [group EXCEPT !.sockets = x]
    BY DEF Disconnect, Refusal
  <2> QED BY <2>1, <2>2 DEF Queues, IsGroup, GroupFields
<1> QED BY <1>1, <1>2, <1>3, GoneReports

LEMMA ExpireReports ==
    ASSUME GroupInv, "unread" \notin Faults, [Next]_vars, NEW at, Reporting(at), Expire
    PROVE  Reporting(at)'
<1>1. /\ group.sockets = {} /\ group' = NoGroup(group.line + 1) /\ UNCHANGED <<wal, wires, tabs>>
      /\ changes' = NoChanges /\ group.line + 1 \in Nat
  BY DEF Expire, GroupInv, Shape, Ends, IsGroup
<1>2. Queues(group') /\ group'.lmids = [t \in Tabs |-> 0]
  <2>1. group'.lmids = [t \in Tabs |-> 0]
    BY <1>1 DEF NoGroup, NewGroup
  <2> QED BY <1>1, <2>1, NewGroupQueues
<1>3. \A u \in Tabs : group'.lmids[u] <= LastId(u)
  BY <1>2, IdsNumbered
<1>4. ASSUME NEW t \in Tabs PROVE Unheard(t) /\ ~Live(t)'
  <2>1. ~Live(t)
    BY <1>1 DEF Live, GroupInv, Order, Wired
  <2> QED BY <1>1, <2>1 DEF Unheard, Live
<1> QED BY <1>1, <1>2, <1>3, <1>4, UnheardReports

\* A tab hears a frame.
LEMMA HeardReports ==
    ASSUME GroupInv, "unread" \notin Faults, [Next]_vars, NEW at, Reporting(at), NEW t \in Tabs,
           UNCHANGED <<wal, group, changes>>, NEW y, tabs'[t] = y,
           \A v \in Tabs : v # t => Apart(v),
           \A u \in Tabs : y.ids[u] <= LastId(u), y.trusted \subseteq 1 .. LastId(t),
           \A i : RefusedAt(wal, Len(wal), t, i) =>
                /\ i \notin y.trusted /\ (i <= y.ids[t] => i \in y.heard)
                /\ Live(t)' =>
                    /\ Vetted(wires'[y.wire].down, t, i, i \in y.heard)
                    /\ Due(at, t, i) =>
                        \/ i \in y.heard \/ Owes(t, i)
                        \/ Reports(wires'[y.wire].down, t, i, Len(wires'[y.wire].down))
    PROVE  Reporting(at)'
<1>1. \A u : LastId(u)' = LastId(u)
  BY DEF LastId
<1>2. Read'
  BY ReadKept DEF Reporting
<1>3. \A v \in Tabs : v # t => Unheard(v)
  BY ApartUnheard
<1>4. ASSUME NEW v \in Tabs, NEW u \in Tabs PROVE tabs'[v].ids[u] <= LastId(u)
  BY <1>3 DEF Unheard, Reporting, Booked
<1>5. Booked(at)'
  BY <1>1, <1>4 DEF Reporting, Booked
<1>6. ASSUME NEW v \in Tabs, NEW i, RefusedAt(wal, Len(wal), v, i) PROVE Vet(at, v, i)'
  <2>1. (Due(at, v, i)' <=> Due(at, v, i)) /\ (Owes(v, i)' <=> Owes(v, i))
    BY DEF Due, Owes
  <2>2. CASE v = t
    BY <1>6, <2>1, <2>2 DEF Vet
  <2>3. CASE v # t
    <3>1. Vet(at, v, i) /\ Unheard(v)
      BY <1>3, <1>6, <2>3 DEF Reporting, News
    <3> QED BY <2>1, <3>1, VetStays
  <2> QED BY <2>2, <2>3
<1>7. \A v \in Tabs : v # t => tabs'[v].trusted = tabs[v].trusted
  BY <1>3 DEF Unheard
<1>8. News(at)'
  BY <1>1, <1>6, <1>7 DEF Reporting, News
<1> QED BY <1>2, <1>5, <1>8 DEF Reporting

\* What a poke applied leaves of what was heard and trusted.
LEMMA AppliedNews ==
    ASSUME NEW tab, IsTab(tab), NEW t \in Tabs, NEW poke, IsPokeRecord(poke), NEW line, NEW y,
           y = Applied(tab, t, poke, line)
    PROVE  /\ tab.heard \subseteq y.heard
           /\ \A i : [tab |-> t, id |-> i] \in poke.results => i \in y.heard
           /\ \A i \in y.trusted :
                i \in tab.trusted \/ (i \in Nat \ {0} /\ i <= poke.ids[t] /\ i \notin y.heard)
<1> DEFINE heard == tab.heard \cup {r.id : r \in {r \in poke.results : r.tab = t}}
           confirmed == {i \in tab.ids[t] + 1 .. poke.ids[t] : i \notin heard}
<1>1. y.heard = heard /\ y.trusted = tab.trusted \cup confirmed
  BY DEF Applied, IsTab, TabFields
<1>2. ASSUME NEW i, [tab |-> t, id |-> i] \in poke.results PROVE i \in heard
  <2>1. [tab |-> t, id |-> i].tab = t /\ [tab |-> t, id |-> i].id = i
    OBVIOUS
  <2> QED BY <1>2, <2>1
<1>3. tab.ids[t] \in Nat /\ poke.ids[t] \in Nat
  BY DEF IsTab, IsPokeRecord, IdMap
<1>4. \A i \in confirmed : i \in Nat \ {0} /\ i <= poke.ids[t] /\ i \notin heard
  BY <1>3
<1> QED BY <1>1, <1>2, <1>4

LEMMA HearReports ==
    ASSUME GroupInv, "unread" \notin Faults, [Next]_vars, NEW at, Reporting(at), NEW t \in Tabs,
           Hear(t)
    PROVE  Reporting(at)'
<1> DEFINE w == tabs[t].wire
           down == wires[w].down
           x == [wires[w] EXCEPT !.down = Tail(@)]
<1>1. /\ w \in Wires /\ w # 0 /\ wires[w].tab = t /\ down # <<>>
      /\ IsDown(down) /\ IsTab(tabs[t]) /\ IsGroup(group)
      /\ wires[w].stage \in {"joined", "gone"} /\ UNCHANGED group
      /\ x.stage = wires[w].stage /\ x.down = Tail(down)
      /\ wires' = [wires EXCEPT ![w] = x] /\ wires'[w] = x
  BY NextFrame
<1>2. UNCHANGED <<wal, changes>>
  BY DEF Hear, thread
<1>3. Head(down) = down[1] /\ 1 \in 1 .. Len(down)
  BY <1>1, FrameTaken
<1>4. PICK y : /\ tabs' = [tabs EXCEPT ![t] = y]
               /\ \/ /\ Head(down).kind = "poke"
                     /\ y = Applied(tabs[t], t, Head(down).poke, wires[w].line)
                  \/ /\ Head(down).kind = "errored"
                     /\ y = [tabs[t] EXCEPT !.told = @ \cup {Head(down).hash}]
                  \/ /\ Head(down).kind = "reset" /\ y = [NewTab EXCEPT !.left = TRUE]
  <2>1. \A z : [tabs EXCEPT ![t].told = z] = [tabs EXCEPT ![t] = [tabs[t] EXCEPT !.told = z]]
    BY DEF GroupInv, Shape, Ends
  <2> QED BY <2>1, Zenon DEF Hear, GroupInv, Shape, Ends
<1>5. tabs'[t] = y /\ \A v \in Tabs : v # t => tabs'[v] = tabs[v]
  BY <1>4 DEF GroupInv, Shape, Ends
<1>6. \A v \in Tabs : v # t => Apart(v)
  BY <1>1, <1>5, AtTheEnd DEF Apart, GroupInv, Shape, Ends
<1>7. /\ \A u \in Tabs : tabs[t].ids[u] <= LastId(u)
      /\ tabs[t].trusted \subseteq 1 .. LastId(t)
      /\ \A i : RefusedAt(wal, Len(wal), t, i) => Vet(at, t, i)
  BY DEF Reporting, Booked, News
<1> HIDE DEF w, x, down
<1>w. w = tabs[t].wire /\ down = wires[w].down
  BY DEF w, down
\* the first frame gone, with all it told heard
<1>8. ASSUME NEW i, RefusedAt(wal, Len(wal), t, i), wires[w].stage = "joined",
             i \in tabs[t].heard => i \in y.heard,
             Poke(down, 1) /\ [tab |-> t, id |-> i] \in down[1].poke.results => i \in y.heard
      PROVE  /\ Vetted(Tail(down), t, i, i \in y.heard)
             /\ Due(at, t, i) => \/ i \in y.heard \/ Owes(t, i)
                                 \/ Reports(Tail(down), t, i, Len(Tail(down)))
             /\ Poke(down, 1) /\ i <= down[1].poke.ids[t] => i \in y.heard
  <2>1. PICK heard : heard = (i \in tabs[t].heard)
    OBVIOUS
  <2>2. PICK also : also = (i \in y.heard)
    OBVIOUS
  <2>3. /\ Vetted(down, t, i, heard)
        /\ Due(at, t, i) => heard \/ Owes(t, i) \/ Reports(down, t, i, Len(down))
    BY <1>1, <1>7, <1>8, <1>w, <2>1 DEF Vet, Live
  <2>4. /\ Vetted(Tail(down), t, i, also)
        /\ Reports(down, t, i, Len(down)) => also \/ Reports(Tail(down), t, i, Len(Tail(down)))
        /\ Poke(down, 1) /\ i <= down[1].poke.ids[t] => also
    <3>1. /\ IsDown(down) /\ down # <<>> /\ Vetted(down, t, i, heard) /\ (heard => also)
          /\ Poke(down, 1) /\ [tab |-> t, id |-> i] \in down[1].poke.results => also
      BY <1>1, <1>8, <2>1, <2>2, <2>3
    <3> QED BY <3>1, VettedTaken
  <2> QED BY <1>8, <2>1, <2>2, <2>3, <2>4
<1>9. CASE Head(down).kind = "errored" /\ y = [tabs[t] EXCEPT !.told = @ \cup {Head(down).hash}]
  <2>1. /\ y.ids = tabs[t].ids /\ y.heard = tabs[t].heard /\ y.trusted = tabs[t].trusted
        /\ y.wire = w
    BY <1>1, <1>9, <1>w DEF IsTab, TabFields
  <2>2. ~Poke(down, 1)
    BY <1>3, <1>9 DEF Poke
  <2>3. Live(t)' => wires[w].stage = "joined"
    BY <1>1, <1>5, <2>1 DEF Live
  <2>4. wires'[y.wire].down = Tail(down)
    BY <1>1, <2>1
  <2>5. ASSUME NEW i, RefusedAt(wal, Len(wal), t, i)
        PROVE  /\ i \notin y.trusted /\ (i <= y.ids[t] => i \in y.heard)
               /\ Live(t)' =>
                    /\ Vetted(wires'[y.wire].down, t, i, i \in y.heard)
                    /\ Due(at, t, i) =>
                        \/ i \in y.heard \/ Owes(t, i)
                        \/ Reports(wires'[y.wire].down, t, i, Len(wires'[y.wire].down))
    <3>1. i \notin y.trusted /\ (i <= y.ids[t] => i \in y.heard)
      BY <1>7, <2>1, <2>5 DEF Vet
    <3> QED BY <1>8, <2>1, <2>2, <2>3, <2>4, <2>5, <3>1
  <2>6. (\A u \in Tabs : y.ids[u] <= LastId(u)) /\ y.trusted \subseteq 1 .. LastId(t)
    BY <1>7, <2>1
  <2> QED BY <1>1, <1>2, <1>5, <1>6, <2>5, <2>6, HeardReports
<1>10. CASE Head(down).kind = "reset" /\ y = [NewTab EXCEPT !.left = TRUE]
  <2>1. y.heard = {} /\ y.trusted = {} /\ y.wire = 0 /\ \A u \in Tabs : y.ids[u] = 0
    BY <1>10 DEF NewTab, NoIds
  <2>2. ~Live(t)'
    BY <1>5, <2>1 DEF Live
  <2>3. \A u \in Tabs : y.ids[u] <= LastId(u)
    BY <2>1, IdsNumbered
  <2>4. \A i : RefusedAt(wal, Len(wal), t, i) => ~(i <= y.ids[t])
    <3>1. \A i : RefusedAt(wal, Len(wal), t, i) => i \in Nat \ {0}
      BY IdsNumbered, RefusedIds
    <3> QED BY <2>1, <3>1
  <2> QED BY <1>1, <1>2, <1>5, <1>6, <2>1, <2>2, <2>3, <2>4, HeardReports
<1>11. CASE Head(down).kind = "poke" /\ y = Applied(tabs[t], t, Head(down).poke, wires[w].line)
  <2> DEFINE poke == down[1].poke
  <2>1. Poke(down, 1) /\ IsPokeRecord(poke) /\ Head(down).poke = poke
    BY <1>1, <1>3, <1>11 DEF Poke, IsDown
  <2>2. wires[w].stage = "joined" /\ wires[w].line \in Nat
    BY <1>1, <1>3, <1>w, <2>1 DEF GroupInv, Shape, Ends, Order, Wired, IsWire
  <2> HIDE DEF poke
  <2>3. /\ y.wire = w
        /\ \A u \in Tabs : y.ids[u] = IF poke.ids[u] = 0 THEN tabs[t].ids[u] ELSE poke.ids[u]
    <3>0. PICK line \in Nat : line = wires[w].line
      BY <2>2
    <3>1. /\ y = Applied(tabs[t], t, poke, line)
          /\ IsTab(tabs[t]) /\ IsPokeRecord(poke) /\ line \in Nat
      BY <1>1, <1>11, <2>1, <3>0
    <3>2. /\ y.wire = tabs[t].wire
          /\ \A u \in Tabs : y.ids[u] = IF poke.ids[u] = 0 THEN tabs[t].ids[u] ELSE poke.ids[u]
      BY <3>1, AppliedTab
    <3> QED BY <1>w, <3>2
  <2>4. /\ tabs[t].heard \subseteq y.heard
        /\ \A i : [tab |-> t, id |-> i] \in poke.results => i \in y.heard
        /\ \A i \in y.trusted :
            i \in tabs[t].trusted \/ (i \in Nat \ {0} /\ i <= poke.ids[t] /\ i \notin y.heard)
    BY <1>1, <1>11, <2>1, AppliedNews
  <2>5. \A u \in Tabs : poke.ids[u] <= LastId(u)
    <3>1. ASSUME NEW u \in Tabs PROVE poke.ids[u] <= LastId(u)
      <4>1. Rising(down, u, group.lmids[u])
        BY <1>1, <1>w, <2>2 DEF GroupInv, Order, Counted
      <4>2. poke.ids[u] # 0 => poke.ids[u] <= group.lmids[u]
        BY <1>3, <2>1, <4>1 DEF Rising, Told, poke
      <4>3. group.lmids[u] \in Nat /\ LastId(u) \in Nat /\ poke.ids[u] \in Nat
        BY <2>1, IdsNumbered DEF IsPokeRecord, IdMap
      <4>4. group.lmids[u] <= LastId(u)
        BY DEF Reporting, Booked
      <4> QED BY <4>2, <4>3, <4>4
    <3> QED BY <3>1
  <2>6. \A u \in Tabs : y.ids[u] <= LastId(u)
    BY <1>7, <2>3, <2>5
  <2>7. y.trusted \subseteq 1 .. LastId(t)
    <3>1. LastId(t) \in Nat /\ poke.ids[t] \in Nat
      BY <2>1, IdsNumbered DEF IsPokeRecord, IdMap
    <3>2. \A i \in Nat \ {0} : i <= poke.ids[t] => i \in 1 .. LastId(t)
      BY <2>5, <3>1
    <3> QED BY <1>7, <2>4, <3>2
  <2>8. wires'[y.wire].down = Tail(down)
    BY <1>1, <2>3
  <2>9. ASSUME NEW i, RefusedAt(wal, Len(wal), t, i)
        PROVE  /\ i \notin y.trusted /\ (i <= y.ids[t] => i \in y.heard)
               /\ Live(t)' =>
                    /\ Vetted(wires'[y.wire].down, t, i, i \in y.heard)
                    /\ Due(at, t, i) =>
                        \/ i \in y.heard \/ Owes(t, i)
                        \/ Reports(wires'[y.wire].down, t, i, Len(wires'[y.wire].down))
    <3>1. /\ Vetted(Tail(down), t, i, i \in y.heard)
          /\ Due(at, t, i) => \/ i \in y.heard \/ Owes(t, i)
                              \/ Reports(Tail(down), t, i, Len(Tail(down)))
          /\ i <= poke.ids[t] => i \in y.heard
      BY <1>8, <2>1, <2>2, <2>4, <2>9 DEF poke
    <3>2. i \notin tabs[t].trusted /\ (i <= tabs[t].ids[t] => i \in tabs[t].heard)
      BY <1>7, <2>9 DEF Vet
    <3>3. i \notin y.trusted /\ (i <= y.ids[t] => i \in y.heard)
      BY <2>3, <2>4, <3>1, <3>2
    <3> QED BY <2>8, <3>1, <3>3
  <2> QED BY <1>1, <1>2, <1>5, <1>6, <2>6, <2>7, <2>9, HeardReports
<1> QED BY <1>4, <1>9, <1>10, <1>11

\* The group once it has noted what the batch brought.
LEMMA HeardGroup ==
    ASSUME GroupInv, NEW at \in 0 .. Len(wal), Booked(at), NEW g,
           g = Noted(Accounted(group, pending), changes)
    PROVE  /\ Queues(g) /\ Risen(group, g)
           /\ g.queued.results = group.queued.results \cup changes.results
           /\ \A u \in Tabs : g.lmids[u] <= LastId(u)
           /\ \A u \in Tabs : g.lmids[u] = group.lmids[u] \/ g.lmids[u] <= CountAt(wal, at, u)
<1> DEFINE told == Accounted(group, pending)
<1>1. Queues(group) /\ Feed /\ IsGroup(group)
  BY DEF Booked, GroupInv, Shape, Ends
<1>2. SameNews(group, told)
  BY <1>1, AccountedOnly
<1> HIDE DEF told
<1>3. Queues(told) /\ Kept(group, told) /\ told.queued.results = group.queued.results
  BY <1>2 DEF SameNews
<1>4. g = Noted(told, changes)
  BY DEF told
<1>5. /\ Queues(g) /\ Risen(told, g) /\ g.queued.results = told.queued.results \cup changes.results
      /\ \A u \in Tabs : g.lmids[u] = IF u \in Raised(told, changes.ids) THEN changes.ids[u]
                                      ELSE told.lmids[u]
  BY <1>1, <1>3, <1>4, NotedOnly
<1>6. \A u \in Tabs : u \in Raised(told, changes.ids) => u \in DOMAIN changes.ids
  BY DEF Raised
<1>7. Risen(group, g) /\ told.lmids = group.lmids
  BY <1>3, <1>5, RisenFollows DEF Kept
<1>8. \A u \in Tabs : g.lmids[u] = group.lmids[u]
                      \/ (u \in DOMAIN changes.ids /\ g.lmids[u] = changes.ids[u])
  BY <1>5, <1>6, <1>7
<1>9. ASSUME NEW u \in Tabs
      PROVE  /\ g.lmids[u] = group.lmids[u] \/ g.lmids[u] <= CountAt(wal, at, u)
             /\ g.lmids[u] <= LastId(u)
  <2>1. /\ u \in DOMAIN changes.ids => changes.ids[u] <= CountAt(wal, at, u) /\ changes.ids[u] \in Nat
        /\ group.lmids[u] <= LastId(u)
    BY <1>1 DEF Booked, Feed
  <2>2. CountAt(wal, at, u) \in Nat /\ LastId(u) \in Nat /\ CountAt(wal, at, u) <= LastId(u)
    BY IdsNumbered
  <2>3. \A a, b, c \in Nat : a <= b /\ b <= c => a <= c
    OBVIOUS
  <2> QED BY <1>8, <2>1, <2>2, <2>3
<1> QED BY <1>3, <1>5, <1>7, <1>9

LEMMA FlushedReports ==
    ASSUME GroupInv, "unread" \notin Faults, [Next]_vars, UNCHANGED <<wal, tabs>>, NEW at,
           Reporting(at), Queues(group'), \A u \in Tabs : group'.lmids[u] <= LastId(u),
           changes' = NoChanges,
           \A t \in Tabs : \A i : RefusedAt(wal, Len(wal), t, i) => Vet(at, t, i)'
    PROVE  Reporting(at)'
<1>1. \A u : LastId(u)' = LastId(u)
  BY DEF LastId
<1>2. Read'
  BY ReadKept DEF Reporting
<1>3. NoChanges.results = {} /\ DOMAIN NoChanges.ids = {}
  BY DEF NoChanges
<1>4. Booked(at)'
  BY <1>1, <1>3 DEF Reporting, Booked
<1>5. News(at)'
  BY <1>1 DEF Reporting, News
<1> QED BY <1>2, <1>4, <1>5 DEF Reporting

\* A poke to t: what it settles, it or one before it reports.
LEMMA SentVet ==
    ASSUME GroupInv, NEW at, Booked(at), NEW g, Queues(g), SendPoke(g), UNCHANGED <<wal, tabs>>,
           Risen(group, g), g.queued.results = group.queued.results \cup changes.results,
           \A u \in Tabs : g.lmids[u] = group.lmids[u] \/ g.lmids[u] <= CountAt(wal, at, u),
           NEW t \in Tabs, CountAt(wal, at, t) \in Nat, NEW i \in Nat \ {0}, Vet(at, t, i)
    PROVE  Vet(at, t, i)'
<1> DEFINE poke == QueuedPoke(g)
           frame == PokeFrame(poke)
<1>1. /\ IsGroup(group) /\ IsGroup(g) /\ g.sockets = group.sockets /\ Sockets
  BY DEF Risen, SameFace, GroupInv, Shape, Ends, Order
<1>2. poke.ids[t] \in {0, g.lmids[t]} /\ poke.results = g.queued.results /\ g.lmids[t] \in Nat
  <2>1. poke.ids[t] \in {0, g.lmids[t]}
    BY <1>1, QueuedPokes
  <2> QED BY <1>1, <2>1 DEF QueuedPoke, IsGroup, IdMap
<1>3. wires' = [w \in Wires |->
            IF w \in g.sockets THEN [wires[w] EXCEPT !.down = Sent(w, <<frame>>)]
            ELSE wires[w]]
  BY DEF SendPoke
<1>4. frame.kind = "poke" /\ frame.poke = poke
  BY DEF PokeFrame
<1>5. \E k : group' = [g EXCEPT !.version = @ + 1, !.queued = NothingQueued, !.log = k]
  BY Zenon DEF SendPoke
<1>6. group'.lmids = g.lmids
  BY <1>1, <1>5 DEF IsGroup, GroupFields
<1> HIDE DEF poke, frame
<1>7. i \notin tabs'[t].trusted /\ (i <= tabs'[t].ids[t] => i \in tabs'[t].heard)
  BY DEF Vet
<1>8. Due(at, t, i)' => Due(at, t, i)
  <2>1. group.lmids[t] \in Nat
    BY <1>1 DEF IsGroup, IdMap
  <2> QED BY <1>2, <1>6, <2>1 DEF Due
<1>9. ASSUME Live(t)'
      PROVE  /\ Vetted(wires'[tabs'[t].wire].down, t, i, i \in tabs'[t].heard)
             /\ Due(at, t, i)' =>
                 \/ i \in tabs'[t].heard \/ Owes(t, i)'
                 \/ Reports(wires'[tabs'[t].wire].down, t, i, Len(wires'[tabs'[t].wire].down))
  <2> DEFINE w == tabs[t].wire
             down == wires[w].down
  <2>1. w # 0 /\ w \in Wires /\ Listening(w) /\ IsDown(down) /\ DOMAIN wires[w] = WireFields
    BY <1>9, AtTheEnd DEF Live, IsWire
  <2>2. wires'[w].stage = wires[w].stage
    BY <1>3, <2>1 DEF WireFields
  <2>3. Live(t) /\ w \in g.sockets
    BY <1>1, <1>9, <2>1, <2>2 DEF Live, GroupInv, Order, Wired
  <2>4. wires'[w].down = Append(down, frame)
    <3>1. wires'[w].down = Sent(w, <<frame>>)
      BY <1>3, <2>1, <2>3 DEF WireFields
    <3>2. down \o <<frame>> = Append(down, frame)
      BY <2>1, Appended DEF IsDown
    <3> QED BY <2>1, <3>1, <3>2, Zenon DEF Sent
  <2>5. PICK heard : heard = (i \in tabs[t].heard)
    OBVIOUS
  <2>6. /\ Vetted(down, t, i, heard)
        /\ Due(at, t, i) => heard \/ Owes(t, i) \/ Reports(down, t, i, Len(down))
    BY <2>3, <2>5 DEF Vet
  <2>7. Owes(t, i) => [tab |-> t, id |-> i] \in poke.results
    BY <1>2 DEF Owes
  <2>8. i <= poke.ids[t] => Due(at, t, i)
    BY <1>2 DEF Due
  <2> HIDE DEF w, down
  <2>9. /\ IsDown(down) /\ Vetted(down, t, i, heard)
        /\ frame.kind = "poke" /\ i <= frame.poke.ids[t] =>
                \/ heard \/ Reports(down, t, i, Len(down))
                \/ [tab |-> t, id |-> i] \in frame.poke.results
    BY <1>4, <2>1, <2>6, <2>7, <2>8
  <2>10. /\ Vetted(Append(down, frame), t, i, heard)
         /\ Reports(down, t, i, Len(down)) =>
                Reports(Append(down, frame), t, i, Len(Append(down, frame)))
         /\ frame.kind = "poke" /\ [tab |-> t, id |-> i] \in frame.poke.results =>
                Reports(Append(down, frame), t, i, Len(Append(down, frame)))
    BY <2>9, VettedAdded
  <2>11. tabs'[t].wire = w /\ tabs'[t].heard = tabs[t].heard
    BY DEF w
  <2> QED BY <1>4, <1>8, <2>4, <2>5, <2>6, <2>7, <2>10, <2>11
<1> QED BY <1>7, <1>9 DEF Vet

LEMMA FlushReports ==
    ASSUME GroupInv, "unread" \notin Faults, [Next]_vars, NEW at \in 0 .. Len(wal), Reporting(at),
           Flush
    PROVE  Reporting(at)'
<1> DEFINE g == Noted(Accounted(group, pending), changes)
<1>1. /\ UNCHANGED <<wal, tabs>> /\ changes' = NoChanges
      /\ IF group.open /\ changes.dirty
         THEN SendPoke(g) \/ (group' = g /\ wires' = wires)
         ELSE UNCHANGED <<group, wires>>
  BY DEF Flush
<1>2. /\ Queues(g) /\ Risen(group, g)
      /\ g.queued.results = group.queued.results \cup changes.results
      /\ \A u \in Tabs : g.lmids[u] <= LastId(u)
      /\ \A u \in Tabs : g.lmids[u] = group.lmids[u] \/ g.lmids[u] <= CountAt(wal, at, u)
  BY HeardGroup DEF Reporting
<1> HIDE DEF g
<1>3. /\ Queues(group) /\ Signed(wal) /\ (changes.results # {} => changes.dirty)
      /\ \A u \in Tabs : group.lmids[u] <= LastId(u)
      /\ \A t \in Tabs : \A i : RefusedAt(wal, Len(wal), t, i) => Vet(at, t, i)
      /\ IsGroup(group)
  BY DEF Reporting, Booked, News, GroupInv, Shape, Ends
<1>4. NoChanges.results = {}
  BY DEF NoChanges
<1>5. CASE UNCHANGED <<group, wires>> /\ ~(group.open /\ changes.dirty)
  <2>1. ASSUME NEW t \in Tabs, NEW i, RefusedAt(wal, Len(wal), t, i) PROVE Vet(at, t, i)'
    <3>1. Unheard(t)
      BY <1>1, <1>5 DEF Unheard, Live
    <3>2. Live(t)' => group.open
      BY <1>1, <1>5 DEF Live, GroupInv, Order, Wired, Sockets
    <3>3. Live(t)' => (Due(at, t, i)' => Due(at, t, i)) /\ (Owes(t, i) => Owes(t, i)')
      BY <1>1, <1>3, <1>4, <1>5, <3>2 DEF Due, Owes
    <3> QED BY <1>3, <2>1, <3>1, <3>3, VetStays
  <2> QED BY <1>1, <1>3, <1>5, <2>1, FlushedReports
<1>6. CASE group' = g /\ wires' = wires
  <2>1. ASSUME NEW t \in Tabs, NEW i, RefusedAt(wal, Len(wal), t, i) PROVE Vet(at, t, i)'
    <3>1. Unheard(t)
      BY <1>1, <1>6 DEF Unheard, Live
    <3>2. Owes(t, i) => Owes(t, i)'
      BY <1>1, <1>2, <1>6 DEF Owes
    <3>3. Due(at, t, i)' => Due(at, t, i)
      <4>1. CountAt(wal, at, t) \in Nat /\ i \in Nat /\ g.lmids[t] \in Nat
        BY <1>2, <2>1, IdsNumbered, RefusedIds DEF Risen, IsGroup, IdMap
      <4>2. \A a, b, c \in Nat : a <= b /\ b <= c => a <= c
        OBVIOUS
      <4> QED BY <1>1, <1>2, <1>6, <4>1, <4>2 DEF Due
    <3> QED BY <1>3, <2>1, <3>1, <3>2, <3>3, VetStays
  <2> QED BY <1>1, <1>2, <1>6, <2>1, FlushedReports
<1>7. CASE SendPoke(g)
  <2>1. ASSUME NEW t \in Tabs, NEW i, RefusedAt(wal, Len(wal), t, i) PROVE Vet(at, t, i)'
    <3>1. CountAt(wal, at, t) \in Nat /\ i \in Nat \ {0} /\ Vet(at, t, i) /\ Booked(at)
      BY <1>3, <2>1, IdsNumbered, RefusedIds DEF Reporting
    <3> QED BY <1>1, <1>2, <1>7, <3>1, SentVet
  <2>2. \E k : group' = [g EXCEPT !.version = @ + 1, !.queued = NothingQueued, !.log = k]
    BY <1>7, Zenon DEF SendPoke
  <2>3. group'.lmids = g.lmids /\ group'.queued = NothingQueued
    BY <1>2, <2>2 DEF Queues, IsGroup, GroupFields
  <2>4. Queues(group')
    <3>1. IsGroup(group')
      BY NextKeeps DEF GroupInv, Shape, Ends
    <3> QED BY <2>3, <3>1 DEF Queues, NothingQueued, QueueFields
  <2> QED BY <1>1, <1>2, <2>1, <2>3, <2>4, FlushedReports
<1> QED BY <1>1, <1>5, <1>6, <1>7

-----------------------------------------------------------------------------
(* A connection is taken *)

\* What makes up what is owed, poke by poke.
LEMMA CatchesUp ==
    ASSUME NEW g, IsGroup(g), Logged(g), g.open, NEW cookie \in Nat, NEW waiting,
           Owed(g, cookie) # "reset", NEW pokes, pokes = CatchUp(g, cookie, waiting)
    PROVE  /\ IsSeq(pokes) /\ Pokes(pokes)
           /\ \/ cookie = g.version /\ Len(pokes) = 0
              \/ /\ cookie = 0 /\ cookie # g.version
                 /\ Len(pokes) = 1 /\ pokes[1] = StatePoke(g, waiting)
              \/ /\ cookie # 0 /\ cookie < g.version /\ Reaches(g.log, cookie)
                 /\ Len(PokesAfter(g.log, cookie)) = Len(pokes)
                 /\ \A i \in 1 .. Len(pokes) :
                        pokes[i] = WithCurrent(PokesAfter(g.log, cookie)[i], g, waiting)
<1>1. g.version \in Nat /\ g.lmids \in IdMap
  BY DEF IsGroup
<1>2. CASE cookie = g.version
  <2>1. pokes = <<>>
    BY <1>2 DEF CatchUp, Owed
  <2> QED BY <1>2, <2>1, EmptyIsSeq DEF Pokes
<1>3. CASE cookie # g.version /\ cookie = 0
  <2> DEFINE p == StatePoke(g, waiting)
  <2>1. pokes = <<p>>
    BY <1>3 DEF CatchUp, Owed
  <2>2. p.base = 0 /\ p.cookie = g.version /\ p.ids = g.lmids /\ DOMAIN p = PokeFields
    BY DEF StatePoke, PokeFields
  <2>3. IsPokeRecord(p)
    BY <1>1, <1>3, <2>2 DEF IsPokeRecord
  <2> HIDE DEF p
  <2>4. IsSeq(pokes) /\ Len(pokes) = 1 /\ pokes[1] = p
    BY <2>1, OneIsSeq
  <2>5. Pokes(pokes)
    BY <2>3, <2>4 DEF Pokes
  <2> QED BY <1>3, <2>4, <2>5 DEF p
<1>4. CASE cookie # g.version /\ cookie # 0
  <2>1. Owed(g, cookie) = "pokes" /\ cookie < g.version /\ Reaches(g.log, cookie)
    BY <1>4 DEF Owed
  <2> DEFINE after == PokesAfter(g.log, cookie)
             n == g.version - cookie
  <2>2. /\ Len(after) = n /\ n \in Nat \ {0}
        /\ \A i \in 1 .. n : IsPokeRecord(after[i])
    BY <2>1, LogAfter
  <2>3. pokes = [i \in 1 .. Len(after) |-> WithCurrent(after[i], g, waiting)]
    BY <2>1 DEF CatchUp
  <2> HIDE DEF after, n
  <2>4. DOMAIN pokes = 1 .. n /\ pokes = [i \in DOMAIN pokes |-> pokes[i]]
    BY <2>2, <2>3
  <2>5. IsSeq(pokes) /\ Len(pokes) = n
    BY <2>2, <2>4, MadeSeq
  <2>6. \A i \in 1 .. n : pokes[i] = WithCurrent(after[i], g, waiting)
    BY <2>2, <2>3
  <2>7. ASSUME NEW i \in 1 .. n PROVE IsPokeRecord(pokes[i])
    <3>1. PICK poke : poke = after[i]
      OBVIOUS
    <3>2. IsPokeRecord(poke) /\ pokes[i] = WithCurrent(poke, g, waiting)
      BY <2>2, <2>6, <3>1
    <3>3. IsPokeRecord(WithCurrent(poke, g, waiting))
      BY <1>1, <3>2 DEF WithCurrent, IsPokeRecord, PokeFields
    <3> QED BY <3>2, <3>3
  <2> QED BY <1>4, <2>1, <2>2, <2>5, <2>6, <2>7 DEF Pokes, after
<1> QED BY <1>2, <1>3, <1>4

LEMMA CaughtUpReports ==
    ASSUME NEW g, IsGroup(g), Logged(g), g.open, NEW cookie \in Nat, NEW waiting,
           Owed(g, cookie) # "reset", NEW down, down = Framed(CatchUp(g, cookie, waiting))
    PROVE  \A j \in 1 .. Len(down) : waiting \subseteq down[j].poke.results
<1> DEFINE pokes == CatchUp(g, cookie, waiting)
<1>1. /\ IsSeq(pokes) /\ Pokes(pokes)
      /\ \/ Len(pokes) = 0
         \/ Len(pokes) = 1 /\ pokes[1] = StatePoke(g, waiting)
         \/ \A i \in 1 .. Len(pokes) :
                pokes[i] = WithCurrent(PokesAfter(g.log, cookie)[i], g, waiting)
  BY CatchesUp
<1> HIDE DEF pokes
<1>2. Len(down) = Len(pokes) /\ \A i \in 1 .. Len(pokes) : down[i].poke = pokes[i]
  BY <1>1, FramedPokes DEF pokes
<1>3. StatePoke(g, waiting).results = waiting
  BY DEF StatePoke
<1>4. ASSUME NEW p, IsPokeRecord(WithCurrent(p, g, waiting))
      PROVE  waiting \subseteq WithCurrent(p, g, waiting).results
  <2>1. "results" \in DOMAIN p
    BY <1>4 DEF WithCurrent, IsPokeRecord, PokeFields
  <2> QED BY <2>1 DEF WithCurrent
<1>5. ASSUME NEW j \in 1 .. Len(pokes) PROVE waiting \subseteq pokes[j].results
  <2>1. IsPokeRecord(pokes[j])
    BY <1>1 DEF Pokes
  <2>2. CASE Len(pokes) = 1 /\ pokes[1] = StatePoke(g, waiting)
    BY <1>3, <2>2
  <2>3. CASE pokes[j] = WithCurrent(PokesAfter(g.log, cookie)[j], g, waiting)
    <3>1. PICK p : p = PokesAfter(g.log, cookie)[j]
      OBVIOUS
    <3> QED BY <1>4, <2>1, <2>3, <3>1
  <2> QED BY <1>1, <2>2, <2>3
<1> QED BY <1>2, <1>5

LEMMA JoinReports ==
    ASSUME GroupInv, "unread" \notin Faults, [Next]_vars, NEW at, Reporting(at), NEW w \in Wires,
           wires[w].stage = "asking", Owed(group, wires[w].cookie) # "reset", Join(w),
           UNCHANGED <<wal, tabs>>
    PROVE  Reporting(at)'
<1> DEFINE base == IF group.open THEN group ELSE NewGroup(group.line)
           merged == Merged(base, wires[w].ids, wires[w].waiting)
           cookie == wires[w].cookie
           waiting == wires[w].waiting
           frames == Framed(CatchUp(merged, cookie, waiting))
<1>1. /\ IsGroup(group) /\ Logged(group) /\ IsWire(wires[w]) /\ Queues(group)
      /\ wires[w].ids \in IdMap /\ cookie \in Nat /\ waiting = ResultsAt(Len(wal))
      /\ \A u \in Tabs : wires[w].ids[u] <= LastId(u)
  BY DEF GroupInv, Shape, Ends, Order, IsWire, Reporting, Read, Booked
<1>2. /\ Queues(base) /\ Logged(base) /\ base.open = TRUE /\ \A u \in Tabs : base.lmids[u] <= LastId(u)
      /\ group.open => base = group
      /\ ~group.open => base.version = 0 /\ cookie = 0
  <2>1. group.line \in Nat /\ group.open \in BOOLEAN
    BY <1>1 DEF IsGroup
  <2>2. ~group.open => cookie = 0
    BY DEF Owed
  <2>3. /\ NewGroup(group.line).open = TRUE /\ NewGroup(group.line).version = 0
        /\ NewGroup(group.line).lmids = [t \in Tabs |-> 0]
    BY DEF NewGroup
  <2>4. \A u \in Tabs : group.lmids[u] <= LastId(u) /\ 0 <= LastId(u)
    BY IdsNumbered DEF Reporting, Booked
  <2> QED BY <1>1, <2>1, <2>2, <2>3, <2>4, NewGroups, NewGroupQueues
<1> DEFINE x == [wires[w] EXCEPT !.stage = "joined", !.cookie = 0, !.ids = NoIds, !.waiting = {},
                                 !.line = group.line, !.down = Sent(w, frames)]
<1>3. group' = [merged EXCEPT !.sockets = @ \cup {w}] /\ wires' = [wires EXCEPT ![w] = x] /\ Dirty
  BY DEF Join
<1> HIDE DEF base
<1>4. /\ Queues(merged) /\ Risen(base, merged)
      /\ merged.queued.results = base.queued.results \cup waiting
      /\ \A u \in Tabs : merged.lmids[u] = IF wires[w].ids[u] > base.lmids[u] THEN wires[w].ids[u]
                                           ELSE base.lmids[u]
  BY <1>1, <1>2, MergedOnly
<1>5. /\ IsGroup(merged) /\ Logged(merged) /\ merged.open /\ Owed(merged, cookie) # "reset"
  <2>1. /\ IsGroup(merged) /\ merged.open = base.open /\ merged.version = base.version
        /\ merged.log = base.log
    BY <1>4 DEF Risen, SameFace
  <2>2. CASE group.open
    BY <1>2, <2>1, <2>2 DEF Owed, Logged
  <2>3. CASE ~group.open
    BY <1>2, <2>1, <2>3 DEF Owed, Logged
  <2> QED BY <2>2, <2>3
<1> HIDE DEF merged, waiting, cookie
<1>6. \A j \in 1 .. Len(frames) : waiting \subseteq frames[j].poke.results
  BY <1>1, <1>5, CaughtUpReports
<1> HIDE DEF frames
<1>7. /\ Queues(group') /\ group'.lmids = merged.lmids /\ group'.queued = merged.queued
  <2>1. IsGroup(group')
    BY NextKeeps DEF GroupInv, Shape, Ends
  <2>2. group'.lmids = merged.lmids /\ group'.queued = merged.queued
    BY <1>3, <1>5 DEF IsGroup, GroupFields
  <2> QED BY <1>4, <2>1, <2>2 DEF Queues
<1>8. \A u \in Tabs : group'.lmids[u] <= LastId(u)
  BY <1>1, <1>2, <1>4, <1>7
<1>9. /\ changes'.ids = changes.ids /\ changes'.results = changes.results /\ changes'.dirty
  <2>1. DOMAIN changes = {"ids", "results", "dirty"}
    BY DEF GroupInv, Shape, Feed
  <2> QED BY <1>3, <2>1 DEF Dirty
<1>10. wires'[w] = x /\ \A v \in Wires : v # w => wires'[v] = wires[v]
  BY <1>3 DEF GroupInv, Shape, Ends
<1>11. x.down = Sent(w, frames) /\ x.stage = "joined"
  BY <1>1 DEF IsWire, WireFields
<1> HIDE DEF x
<1>12. \A u : LastId(u)' = LastId(u)
  BY DEF LastId
<1>13. Read'
  BY ReadKept DEF Reporting
<1>14. Booked(at)'
  BY <1>7, <1>8, <1>9, <1>12 DEF Reporting, Booked
<1>15. ASSUME NEW t \in Tabs, NEW i, RefusedAt(wal, Len(wal), t, i) PROVE Vet(at, t, i)'
  <2>1. [tab |-> t, id |-> i] \in waiting
    <3>1. Signed(wal) /\ Len(wal) \in Nat /\ Len(wal) <= Len(wal)
      BY IdsNumbered DEF Reporting, Booked
    <3> QED BY <1>1, <1>15, <3>1, ResultsAre
  <2>2. Vet(at, t, i)
    BY <1>15 DEF Reporting, News
  <2>3. Owes(t, i)'
    BY <1>4, <1>7, <2>1 DEF Owes
  <2>4. CASE tabs[t].wire # w
    <3>1. Apart(t)
      BY <1>10, <2>4, AtTheEnd DEF Apart
    <3>2. Unheard(t)
      BY <3>1, ApartUnheard
    <3> QED BY <2>2, <2>3, <3>2, VetStays
  <2>5. CASE tabs[t].wire = w
    <3>1. w # 0 /\ Listening(w)
      BY <2>5, Numbered, AtTheEnd
    <3>2. wires[w].down = <<>>
      BY <2>5, <3>1 DEF GroupInv, Order, Wired
    <3>3. IsSeq(frames)
      BY <1>1, <1>5, CaughtUp DEF IsDown, frames
    <3>4. wires'[tabs'[t].wire].down = frames
      BY <1>10, <1>11, <2>5, <3>1, <3>2, <3>3, AfterNothing DEF Sent
    <3>5. PICK heard : heard = (i \in tabs'[t].heard)
      OBVIOUS
    <3>6. Vetted(frames, t, i, heard)
      BY <1>6, <2>1, VettedAll
    <3>7. i \notin tabs'[t].trusted /\ (i <= tabs'[t].ids[t] => i \in tabs'[t].heard)
      BY <2>2 DEF Vet
    <3> QED BY <2>3, <3>4, <3>5, <3>6, <3>7 DEF Vet
  <2> QED BY <2>4, <2>5
<1>16. News(at)'
  BY <1>12, <1>15 DEF Reporting, News
<1> QED BY <1>13, <1>14, <1>16 DEF Reporting

-----------------------------------------------------------------------------
(* No refusal is taken for a success *)

LEMMA InitReports == ASSUME Init, GroupInv, NEW at \in Nat PROVE Reporting(at)
<1>1. /\ wal = Earlier /\ changes = NoChanges /\ group = NoGroup(1)
      /\ wires = [w \in Wires |-> NoWire] /\ tabs = [t \in Tabs |-> NewTab]
  BY DEF Init
<1>2. /\ Len(wal) \in Nat /\ \A i \in 1 .. Len(wal) : ~wal[i].refused
  <2> DEFINE S == [key : Keys, value : Values \cup {NoRow}, by : {NoTab}, refused : {FALSE}]
  <2>1. Earlier \in Seq(S) /\ \A x \in S : x.refused = FALSE
    BY ConstantsAssumption
  <2> HIDE DEF S
  <2>2. \A i \in 1 .. Len(Earlier) : Earlier[i] \in S
    BY <2>1, ElementOfSeq
  <2>3. \A i \in 1 .. Len(Earlier) : Earlier[i].refused = FALSE
    BY <2>1, <2>2
  <2> QED BY <1>1, <2>1, <2>3
<1>3. \A u \in Tabs : LastId(u) \in Nat /\ 0 <= LastId(u)
  BY IdsNumbered
<1>4. Signed(wal) /\ \A t, i : ~RefusedAt(wal, Len(wal), t, i)
  BY <1>2 DEF Signed, RefusedAt
<1>5. Read
  <2>1. \A w \in Wires : wires[w].stage = "unused" /\ wires[w].ids = NoIds
    BY <1>1 DEF NoWire
  <2> QED BY <1>3, <2>1 DEF Read, NoIds
<1>6. Booked(at)
  <2>1. Queues(group)
    BY <1>1, NewGroupQueues
  <2>2. \A u \in Tabs : group.lmids[u] = 0
    BY <1>1 DEF NoGroup, NewGroup
  <2>3. changes.results = {} /\ DOMAIN changes.ids = {}
    BY <1>1 DEF NoChanges
  <2>4. \A t, u \in Tabs : tabs[t].ids[u] = 0
    BY <1>1 DEF NewTab, NoIds
  <2> QED BY <1>3, <1>4, <2>1, <2>2, <2>3, <2>4 DEF Booked
<1>7. News(at)
  <2>1. \A t \in Tabs : tabs[t].trusted = {}
    BY <1>1 DEF NewTab
  <2> QED BY <1>4, <2>1 DEF News
<1> QED BY <1>5, <1>6, <1>7 DEF Reporting

\* Where the group has heard the feed up to; and of the refusals.
RefusalInv == \E asked, p, q : Tracked(asked, p, q) /\ Reporting(p.at)

LEMMA QuietReports ==
    ASSUME GroupInv, TokenInv, "unread" \notin Faults, "race" \notin Faults, [Next]_vars, Quiet,
           NEW at \in 0 .. Len(wal), Reporting(at)
    PROVE  Reporting(at)'
<1>0. IsQueries(group.queries)
  BY DEF TokenInv, Registry
<1>1. CASE OutsideWrite
  <2>1. \E c : Committed(c) /\ ~c.refused
    BY <1>1 DEF OutsideWrite
  <2> QED BY <2>1, CommitReports
<1>2. ASSUME NEW t \in Tabs, Mutate(t) PROVE Reporting(at)'
  <2>1. \E c : Committed(c) /\ ~c.refused
    BY <1>2 DEF Mutate
  <2> QED BY <2>1, CommitReports
<1>3. ASSUME NEW t \in Tabs, RefuseMutation(t) PROVE Reporting(at)'
  <2>1. \E c : Committed(c) /\ c.by = t /\ Connecting = {}
    BY <1>3 DEF RefuseMutation
  <2> QED BY <2>1, CommitReports
<1>4. ASSUME NEW w \in Wires, Connect(w) PROVE Reporting(at)'
  <2>1. CASE Owed(group, wires[w].cookie) = "reset"
    BY <1>4, <2>1, DisconnectReports DEF Connect
  <2>2. CASE Owed(group, wires[w].cookie) # "reset"
    BY <1>4, <2>2, JoinReports DEF Connect
  <2> QED BY <2>1, <2>2
<1>5. CASE Plain
  BY <1>0, <1>5, PlainReports
<1> QED BY <1>1, <1>2, <1>3, <1>4, <1>5, DropReports, HearReports, OpenReports, DisconnectReports,
        ExpireReports, FlushReports DEF Quiet, Plain

LEMMA RefusalsStart == Init /\ GroupInv => RefusalInv
<1> SUFFICES ASSUME Init, GroupInv PROVE RefusalInv
  OBVIOUS
<1>1. PICK asked, p : Tracked(asked, p, p) /\ p.at = Len(Earlier)
  BY InitTracked
<1>2. p.at \in Nat
  BY <1>1, ConstantsAssumption
<1> QED BY <1>1, <1>2, InitReports DEF RefusalInv

LEMMA RefusalsKeep ==
    ASSUME {"race", "unread"} \cap Faults = {}
    PROVE  GroupInv /\ TokenInv /\ RefusalInv /\ [Next]_vars => RefusalInv'
<1> SUFFICES ASSUME GroupInv, TokenInv, RefusalInv, [Next]_vars PROVE RefusalInv'
  OBVIOUS
<1>1. "race" \notin Faults /\ "unread" \notin Faults /\ Feed /\ Registry
  BY DEF GroupInv, Shape, TokenInv
<1>2. PICK asked, p, q : Tracked(asked, p, q) /\ Reporting(p.at)
  BY DEF RefusalInv
<1>3. p.at \in 0 .. Len(wal) /\ p.at \in Nat
  <2>1. IsPoint(wal, asked, minted, p)
    BY <1>1, <1>2, CourseEnds DEF Tracked, Feed, IsEvents
  <2> QED BY <2>1, IdsNumbered DEF IsPoint
<1>4. CASE Quiet
  <2>1. Reporting(p.at)'
    BY <1>1, <1>2, <1>3, <1>4, QuietReports
  <2>2. \E also, r, z : Tracked(also, r, z)' /\ Rests(p, r)
    BY <1>1, <1>2, <1>4, QuietTracked
  <2>3. PICK also, r, z : Tracked(also, r, z)' /\ r.at = p.at
    BY <2>2 DEF Rests
  <2>4. PICK n : n = p.at
    OBVIOUS
  <2> QED BY <2>1, <2>3, <2>4 DEF RefusalInv
<1>5. CASE Hears
  <2>1. PICK r : Tracked(asked, r, q)' /\ Moves(wal, asked, p, Head(events), r)
    BY <1>1, <1>2, <1>5, HearsTracked
  <2>2. r.at <= Len(wal)
    <3>1. Feed' /\ UNCHANGED wal
      BY <1>5, NextKeeps, Zenon DEF GroupInv, Shape, Hears, TakeRegistered, TakeLanded, TakeHydrated,
         TakeRefused, TakeCommitted
    <3>2. IsPoint(wal, asked, minted, r)'
      BY <2>1, <3>1, CourseEnds DEF Tracked, Feed, IsEvents
    <3> QED BY <3>1, <3>2 DEF IsPoint
  <2>3. IsQueries(group.queries)
    BY <1>1 DEF Registry
  <2>4. Reporting(r.at)'
    BY <1>1, <1>2, <1>3, <1>5, <2>1, <2>2, <2>3, HearsReports
  <2> QED BY <2>1, <2>4 DEF RefusalInv
<1> QED BY <1>4, <1>5, HearsOrQuiet

(* A mutation whose refusal is recorded is never taken for a success by the *)
(* tab that pushed it: the id that settles it comes with the result, or     *)
(* after it, whichever of the feed, the mutation tables read at a connect,  *)
(* the group's log or its whole state tells of it first (`on_committed',    *)
(* `connect' and `flush' of groups.rs); given that the tables can be read   *)
(* at every connect and no refusal commits between that read and the        *)
(* group's answer.                                                         *)
THEOREM RefusalsHeard ==
    ASSUME {"race", "unread"} \cap Faults = {}
    PROVE  Spec => []RefusedNeverTrusted
<1>1. GroupInv /\ RefusalInv => RefusedNeverTrusted
  <2> SUFFICES ASSUME GroupInv, RefusalInv, NEW t \in Tabs, NEW i \in tabs[t].trusted
               PROVE  [tab |-> t, id |-> i] \notin ResultsAt(Len(wal))
    BY Zenon DEF RefusedNeverTrusted
  <2>1. PICK at : Reporting(at)
    BY DEF RefusalInv
  <2>2. ~RefusedAt(wal, Len(wal), t, i) /\ Signed(wal)
    BY <2>1 DEF Reporting, News, Booked, Vet
  <2>3. Len(wal) \in Nat /\ Len(wal) <= Len(wal)
    BY IdsNumbered
  <2> QED BY <2>2, <2>3, ResultsAre
<1>2. Spec => []RefusalInv
  BY RefusalsStart, RefusalsKeep, InitHolds, TokensStart, TokensKeep, GroupHolds, PTL DEF Spec
<1> QED BY <1>1, <1>2, GroupHolds, PTL

=============================================================================
