-------------------------- MODULE ChangeFeedProofs --------------------------
(***************************************************************************)
(* Proofs about ChangeFeed: it implements Delivery, and no catalog of the  *)
(* clients' side runs ahead of the snapshot behind it.                     *)
(***************************************************************************)
EXTENDS ChangeFeed, FiniteSetTheorems, SequenceTheorems, TLAPS

-----------------------------------------------------------------------------
(* The pipe: what the engine has yet to take, in order.                     *)

Sending == link.up /\ link.stage = "sending"
Pipe == IF Sending THEN Append(queue, feed.outgoing) ELSE queue

\* the location up to which this process has every write routed
Base == first + Len(engine.routed)

\* the commit at l is routed, or among those before the i-th in the pipe
Arrived(pipe, base, i, l) == l <= base \/ \E j \in 1 .. i - 1 : pipe[j].at = l
InPipe(pipe, base, l) == Arrived(pipe, base, Len(pipe) + 1, l)
Reached(l) == InPipe(Pipe, Base, l)

ChangesIn(w, at) == {l \in 1 .. at : w[l] # "rows"}

\* a mark names a position that has arrived before it
GoodMark(start, pipe, base, i) ==
    /\ pipe[i].writes = <<>> /\ pipe[i].changes = {}
    /\ start <= pipe[i].progress /\ Arrived(pipe, base, i, pipe[i].progress)

\* a transaction comes after the one before it, and the first time it comes
\* its progress is its own and its catalog has nothing later
GoodTransaction(w, start, pipe, base, i) ==
    /\ start < pipe[i].at /\ pipe[i].at <= Len(w) /\ pipe[i].at <= pipe[i].progress
    /\ pipe[i].writes = <<pipe[i].at>>
    /\ Arrived(pipe, base, i, pipe[i].at - 1)
    /\ pipe[i].progress = pipe[i].at \/ Arrived(pipe, base, i, pipe[i].progress)
    /\ pipe[i].changes # {} /\ ~Arrived(pipe, base, i, pipe[i].at)
        => pipe[i].catalog \subseteq ChangesIn(w, pipe[i].at)

Ordered(w, start, pipe, base) ==
    \A i \in 1 .. Len(pipe) :
        IF IsMark(pipe[i]) THEN GoodMark(start, pipe, base, i)
        ELSE GoodTransaction(w, start, pipe, base, i)

\* nothing that has arrived is past something that has not
Gapless(pipe, base) ==
    \A l \in Nat : InPipe(pipe, base, l) => \A k \in 0 .. l : InPipe(pipe, base, k)

LEMMA SentFields ==
    ASSUME NEW t \in Sent
    PROVE  /\ t.at \in Nat /\ t.progress \in Nat /\ t.at <= MaxLsn /\ t.progress <= MaxLsn
           /\ t.writes \in Seq(Locations) /\ t.changes \subseteq 1 .. MaxLsn
           /\ t.catalog \subseteq 1 .. MaxLsn
BY ConstantsAssumption DEF Sent, Locations, Catalogs

\* A commit added to the log changes nothing for what is under way.
LEMMA OrderedGrows ==
    ASSUME NEW T, NEW w \in Seq(T), NEW kind \in T, NEW start, NEW base \in Nat,
           NEW pipe \in Seq(Sent), Ordered(w, start, pipe, base)
    PROVE  Ordered(Append(w, kind), start, pipe, base)
<1>1. /\ Len(Append(w, kind)) = Len(w) + 1 /\ Len(w) \in Nat
      /\ \A l \in 1 .. Len(w) : Append(w, kind)[l] = w[l]
  OBVIOUS
<1>2. \A i \in 1 .. Len(pipe) : pipe[i].at \in Nat
  BY SentFields
<1>3. ASSUME NEW i \in 1 .. Len(pipe), GoodTransaction(w, start, pipe, base, i)
      PROVE  GoodTransaction(Append(w, kind), start, pipe, base, i)
  <2>1. ChangesIn(Append(w, kind), pipe[i].at) = ChangesIn(w, pipe[i].at)
    BY <1>1, <1>2, <1>3 DEF GoodTransaction, ChangesIn
  <2> QED BY <1>1, <1>2, <1>3, <2>1 DEF GoodTransaction
<1> QED BY <1>3 DEF Ordered

\* What is sent next keeps the order if it is in order itself.
LEMMA OrderedAppends ==
    ASSUME NEW w, NEW start \in Nat, NEW base \in Nat,
           NEW pipe \in Seq(Sent), NEW t \in Sent,
           Ordered(w, start, pipe, base), Gapless(pipe, base),
           LET n == Len(pipe) + 1
               longer == Append(pipe, t)
           IN  IF IsMark(t) THEN GoodMark(start, longer, base, n)
               ELSE GoodTransaction(w, start, longer, base, n)
    PROVE  /\ Ordered(w, start, Append(pipe, t), base)
           /\ Gapless(Append(pipe, t), base)
           /\ \A l \in Nat : InPipe(Append(pipe, t), base, l) <=> InPipe(pipe, base, l) \/ l = t.at
<1> DEFINE n == Len(pipe) + 1
           longer == Append(pipe, t)
<1>1. /\ Len(longer) = n /\ n \in Nat /\ longer[n] = t /\ longer \in Seq(Sent)
      /\ \A i \in 1 .. Len(pipe) : longer[i] = pipe[i]
  OBVIOUS
<1>2. ASSUME NEW i \in 1 .. n, NEW l
      PROVE  Arrived(longer, base, i, l) <=> Arrived(pipe, base, i, l)
  BY <1>1 DEF Arrived
<1>3. Ordered(w, start, longer, base)
  <2>1. ASSUME NEW i \in 1 .. Len(longer)
        PROVE  IF IsMark(longer[i]) THEN GoodMark(start, longer, base, i)
               ELSE GoodTransaction(w, start, longer, base, i)
    <3>1. CASE i = n
      BY <1>1, <3>1
    <3>2. CASE i # n
      <4>1. i \in 1 .. Len(pipe) /\ longer[i] = pipe[i] /\ i \in 1 .. n
        BY <1>1, <3>2
      <4>2. IF IsMark(pipe[i]) THEN GoodMark(start, pipe, base, i)
            ELSE GoodTransaction(w, start, pipe, base, i)
        BY <4>1 DEF Ordered
      <4> QED BY <1>2, <4>1, <4>2 DEF GoodMark, GoodTransaction
    <3> QED BY <3>1, <3>2
  <2> QED BY <2>1 DEF Ordered
<1>4. \A l \in Nat : InPipe(longer, base, l) <=> InPipe(pipe, base, l) \/ l = t.at
  <2>1. ASSUME NEW l \in Nat
        PROVE  InPipe(longer, base, l) <=> Arrived(longer, base, n, l) \/ l = t.at
    BY <1>1 DEF InPipe, Arrived
  <2> QED BY <1>1, <1>2, <2>1 DEF InPipe
<1>5. Gapless(longer, base)
  <2>1. t.at \in Nat
    BY SentFields
  <2>2. ASSUME NEW l \in Nat, InPipe(longer, base, l), NEW k \in 0 .. l
        PROVE  InPipe(longer, base, k)
    <3>1. CASE InPipe(pipe, base, l)
      BY <1>4, <3>1 DEF Gapless
    <3>2. CASE l = t.at /\ t.at # 0 /\ k # l
      <4>1. GoodTransaction(w, start, longer, base, n)
        BY <3>2 DEF IsMark
      <4>2. InPipe(pipe, base, t.at - 1) /\ t.at - 1 \in Nat
        BY <1>1, <1>2, <2>1, <3>2, <4>1, SMTT(30) DEF GoodTransaction, InPipe
      <4> QED BY <1>4, <2>1, <3>2, <4>2 DEF Gapless
    <3>3. CASE l = t.at /\ (t.at = 0 \/ k = l)
      BY <1>4, <2>1, <3>3
    <3> QED BY <1>4, <2>2, <3>1, <3>2, <3>3
  <2> QED BY <2>2 DEF Gapless
<1> QED BY <1>3, <1>4, <1>5

\* where the routed writes reach once the engine has taken t
BaseAfter(t, base) == IF IsMark(t) \/ t.at <= base THEN base ELSE t.at

\* what the engine takes first: a mark of where it is, a repeat, or what follows
FirstInOrder(w, start, t, base) ==
    /\ IsMark(t) => /\ t.writes = <<>> /\ t.changes = {}
                    /\ start <= t.progress /\ t.progress <= base
    /\ ~IsMark(t) => start < t.at
    /\ ~IsMark(t) /\ ~(t.at <= base) =>
         /\ t.at = base + 1 /\ t.progress = t.at /\ t.writes = <<t.at>>
         /\ t.at <= Len(w)
         /\ t.changes # {} => t.catalog \subseteq ChangesIn(w, t.at)

\* What the engine takes is a mark of where it is, a repeat, or what follows;
\* nothing that has arrived is lost by taking it.
LEMMA OrderedTakes ==
    ASSUME NEW w, NEW start \in Nat, NEW base \in Nat, start <= base,
           NEW pipe \in Seq(Sent), pipe # <<>>,
           Ordered(w, start, pipe, base), Gapless(pipe, base)
    PROVE  /\ FirstInOrder(w, start, Head(pipe), base)
           /\ BaseAfter(Head(pipe), base) \in Nat
           /\ Ordered(w, start, Tail(pipe), BaseAfter(Head(pipe), base))
           /\ Gapless(Tail(pipe), BaseAfter(Head(pipe), base))
           /\ \A l \in Nat :
                InPipe(Tail(pipe), BaseAfter(Head(pipe), base), l) <=> InPipe(pipe, base, l)
<1> DEFINE t == Head(pipe)
           new == BaseAfter(t, base)
           rest == Tail(pipe)
<1>1. /\ t = pipe[1] /\ t \in Sent /\ Len(pipe) \in Nat \ {0} /\ Len(rest) = Len(pipe) - 1
      /\ rest \in Seq(Sent)
      /\ \A i \in 1 .. Len(rest) : i + 1 \in 1 .. Len(pipe) /\ rest[i] = pipe[i + 1]
  BY HeadTailProperties
<1>2. t.at \in Nat /\ t.progress \in Nat
  BY <1>1, SentFields
<1>3. IF IsMark(t) THEN GoodMark(start, pipe, base, 1)
      ELSE GoodTransaction(w, start, pipe, base, 1)
  BY <1>1 DEF Ordered
<1>4. \A l \in Nat : Arrived(pipe, base, 1, l) <=> l <= base
  BY DEF Arrived
<1>6. IsMark(t) => /\ t.writes = <<>> /\ t.changes = {}
                   /\ start <= t.progress /\ t.progress <= base
  BY <1>1, <1>2, <1>3, <1>4 DEF GoodMark
<1>7. ~IsMark(t) => start < t.at
  BY <1>1, <1>2, <1>3 DEF GoodTransaction
<1>8. ~IsMark(t) /\ ~(t.at <= base) =>
        /\ t.at = base + 1 /\ t.progress = t.at /\ t.writes = <<t.at>>
        /\ t.at <= Len(w)
        /\ t.changes # {} => t.catalog \subseteq ChangesIn(w, t.at)
  <2>1. ASSUME ~IsMark(t), ~(t.at <= base)
        PROVE  /\ t.at = base + 1 /\ t.progress = t.at /\ t.writes = <<t.at>>
               /\ t.at <= Len(w)
               /\ t.changes # {} => t.catalog \subseteq ChangesIn(w, t.at)
    <3>1. GoodTransaction(w, start, pipe, base, 1) /\ pipe[1] = t
      BY <1>1, <1>3, <2>1
    <3>2. ~Arrived(pipe, base, 1, t.at)
      BY <1>2, <1>4, <2>1
    <3>3. t.at - 1 \in Nat
      BY <1>2, <2>1
    <3>4. t.at - 1 <= base
      BY <1>4, <3>1, <3>3 DEF GoodTransaction
    <3>5. t.progress = t.at \/ t.progress <= base
      BY <1>2, <1>4, <3>1 DEF GoodTransaction
    <3>6. t.at <= t.progress
      BY <3>1 DEF GoodTransaction
    <3>7. t.at = base + 1 /\ t.progress = t.at
      BY <1>2, <2>1, <3>4, <3>5, <3>6
    <3> QED BY <3>1, <3>2, <3>7 DEF GoodTransaction
  <2> QED BY <2>1
<1>9. new \in Nat /\ base <= new /\ (new = base \/ (new = t.at /\ t.at = base + 1))
  BY <1>2, <1>8 DEF BaseAfter
<1>10. t.at <= new
  BY <1>2, <1>9 DEF IsMark, BaseAfter
\* the first place counts as routed now, the others move up by one
<1>11. ASSUME NEW i \in 1 .. Len(rest) + 1, NEW l \in Nat
       PROVE  Arrived(rest, new, i, l) <=> Arrived(pipe, base, i + 1, l)
  <2>1. ASSUME Arrived(pipe, base, i + 1, l)
        PROVE  Arrived(rest, new, i, l)
    <3>1. CASE l <= base
      BY <1>9, <3>1 DEF Arrived
    <3>2. CASE ~(l <= base)
      <4>1. PICK j \in 1 .. i : pipe[j].at = l
        BY <2>1, <3>2 DEF Arrived
      <4>2. CASE j = 1
        BY <1>1, <1>10, <4>1, <4>2 DEF Arrived
      <4>3. CASE j # 1
        <5>1. j - 1 \in 1 .. i - 1 /\ rest[j - 1] = pipe[j]
          BY <1>1, <4>3
        <5> QED BY <4>1, <5>1 DEF Arrived
      <4> QED BY <4>2, <4>3
    <3> QED BY <3>1, <3>2
  <2>2. ASSUME Arrived(rest, new, i, l)
        PROVE  Arrived(pipe, base, i + 1, l)
    <3>1. CASE l <= new
      <4>1. l <= base \/ l = t.at
        BY <1>2, <1>8, <1>9, <3>1
      <4>2. 1 \in 1 .. (i + 1) - 1
        OBVIOUS
      <4> QED BY <1>1, <4>1, <4>2 DEF Arrived
    <3>2. CASE ~(l <= new)
      <4>1. PICK j \in 1 .. i - 1 : rest[j].at = l
        BY <2>2, <3>2 DEF Arrived
      <4>2. j + 1 \in 1 .. (i + 1) - 1 /\ rest[j] = pipe[j + 1]
        BY <1>1
      <4> QED BY <4>1, <4>2 DEF Arrived
    <3> QED BY <3>1, <3>2
  <2> QED BY <2>1, <2>2
<1>12. \A l \in Nat : InPipe(rest, new, l) <=> InPipe(pipe, base, l)
  BY <1>1, <1>11 DEF InPipe
<1>13. Gapless(rest, new)
  BY <1>12 DEF Gapless
<1>14. Ordered(w, start, rest, new)
  <2>1. ASSUME NEW i \in 1 .. Len(rest)
        PROVE  IF IsMark(rest[i]) THEN GoodMark(start, rest, new, i)
               ELSE GoodTransaction(w, start, rest, new, i)
    <3>1. i + 1 \in 1 .. Len(pipe) /\ rest[i] = pipe[i + 1] /\ rest[i] \in Sent
      BY <1>1
    <3>2. rest[i].at \in Nat /\ rest[i].progress \in Nat
      BY <3>1, SentFields
    <3>3. IF IsMark(rest[i]) THEN GoodMark(start, pipe, base, i + 1)
          ELSE GoodTransaction(w, start, pipe, base, i + 1)
      BY <3>1 DEF Ordered
    <3>4. \A l \in Nat : Arrived(rest, new, i, l) <=> Arrived(pipe, base, i + 1, l)
      BY <1>11, SMTT(30)
    <3>5. CASE IsMark(rest[i])
      <4>1. GoodMark(start, pipe, base, i + 1)
        BY <3>1, <3>3, <3>5
      <4>2. GoodMark(start, rest, new, i)
        BY <3>1, <3>2, <3>4, <4>1 DEF GoodMark
      <4> QED BY <3>5, <4>2
    <3>6. CASE ~IsMark(rest[i])
      <4>1. rest[i].at - 1 \in Nat
        BY <3>2, <3>6 DEF IsMark
      <4>2. GoodTransaction(w, start, pipe, base, i + 1)
        BY <3>1, <3>3, <3>6
      <4>3. GoodTransaction(w, start, rest, new, i)
        BY <3>1, <3>2, <3>4, <4>1, <4>2 DEF GoodTransaction
      <4> QED BY <3>6, <4>3
    <3> QED BY <3>5, <3>6
  <2> QED BY <2>1 DEF Ordered
<1>15. FirstInOrder(w, start, t, base)
  BY <1>6, <1>7, <1>8 DEF FirstInOrder
<1> QED BY <1>9, <1>12, <1>13, <1>14, <1>15

-----------------------------------------------------------------------------
(* How far a sequence of locations is reached.                              *)

\* A set of naturals from 1 up without gaps is 1 .. its size.
LEMMA PrefixSize ==
    ASSUME NEW n \in Nat, NEW S \in SUBSET (1 .. n),
           \A i \in S : \A j \in 1 .. i : j \in S
    PROVE  Cardinality(S) \in 0 .. n /\ 1 .. Cardinality(S) \subseteq S
<1>1. IsFiniteSet(S) /\ Cardinality(S) \in Nat /\ Cardinality(S) <= n
  <2>1. IsFiniteSet(1 .. n) /\ Cardinality(1 .. n) = n
    BY FS_Interval
  <2>2. PICK T : T = 1 .. n
    OBVIOUS
  <2>3. IsFiniteSet(T) /\ S \in SUBSET T /\ Cardinality(T) = n
    BY <2>1, <2>2
  <2>4. IsFiniteSet(S) /\ Cardinality(S) <= Cardinality(T)
    BY <2>3, FS_Subset
  <2>5. Cardinality(S) \in Nat
    BY <2>4, FS_CardinalityType
  <2> QED BY <2>3, <2>4, <2>5
<1>2. CASE Cardinality(S) = 0
  BY <1>2
<1>3. CASE Cardinality(S) # 0
  <2>1. Cardinality(S) \in S
    <3>1. SUFFICES ASSUME Cardinality(S) \notin S PROVE FALSE
      OBVIOUS
    <3>2. S \subseteq 1 .. Cardinality(S) - 1
      BY <1>1, <1>3, <3>1
    <3>3. ASSUME NEW m \in Nat \ {0}, S \subseteq 1 .. m - 1
          PROVE  Cardinality(S) <= m - 1
      <4>1. IsFiniteSet(1 .. m - 1) /\ Cardinality(1 .. m - 1) = m - 1
        <5>1. /\ IsFiniteSet(1 .. m - 1)
              /\ Cardinality(1 .. m - 1) = IF 1 > m - 1 THEN 0 ELSE (m - 1) - 1 + 1
          BY FS_Interval
        <5> QED BY <5>1
      <4> QED BY <3>3, <4>1, FS_Subset
    <3>4. Cardinality(S) <= Cardinality(S) - 1
      BY <1>1, <1>3, <3>2, <3>3
    <3> QED BY <1>1, <3>4
  <2> QED BY <1>1, <2>1
<1> QED BY <1>1, <1>2, <1>3

LEMMA LeadingReached ==
    ASSUME NEW S, NEW s \in Seq(S), NEW limit
    PROVE  /\ Leading(s, limit) \in 0 .. Len(s)
           /\ \A j \in 1 .. Leading(s, limit) : s[j] <= limit
<1> DEFINE F == {i \in 1 .. Len(s) : \A j \in 1 .. i : s[j] <= limit}
<1>1. Len(s) \in Nat /\ F \in SUBSET (1 .. Len(s))
  OBVIOUS
<1>2. \A i \in F : \A j \in 1 .. i : j \in F
  BY <1>1
<1>3. Cardinality(F) \in 0 .. Len(s) /\ 1 .. Cardinality(F) \subseteq F
  BY <1>1, <1>2, PrefixSize
<1>4. \A j \in F : s[j] <= limit
  BY <1>1
<1> QED BY <1>3, <1>4 DEF Leading

LEMMA AfterTyped ==
    ASSUME NEW S, NEW s \in Seq(S), NEW n \in 0 .. Len(s)
    PROVE  /\ After(s, n) \in Seq(S)
           /\ \A i \in 1 .. Len(After(s, n)) :
                i + n \in 1 .. Len(s) /\ After(s, n)[i] = s[i + n]
BY SubSeqProperties DEF After

-----------------------------------------------------------------------------
(* The invariant                                                            *)

InOrder == Ordered(wal, first, Pipe, Base) /\ Gapless(Pipe, Base)

\* the engine is where its writes are, once it has heard from the feed
Position ==
    /\ Base <= Len(wal)
    /\ engine.position \in {0, Base}
    /\ engine.position = 0 => engine.routed = <<>>

\* what the decoder, the connection and the slot have behind them has arrived
Streamed ==
    /\ Reached(feed.progress)
    /\ feed.progress = 0 \/ first <= feed.progress
    /\ phase = "serving" => first <= confirmed /\ Reached(confirmed)
    /\ link.up =>
        /\ phase = "serving"
        /\ first < link.next /\ link.next <= Len(wal) + 1
        /\ Reached(link.next - 1) /\ Reached(link.acked)
        /\ link.stage \in {"begun", "told", "filled"} => link.next <= Len(wal)
        /\ link.stage \in {"begun", "told"} => feed.pending = <<>>
        /\ link.stage = "filled" => feed.pending = <<link.next>>

\* the decoder's catalog has changes made up to what is being streamed
Heard ==
    /\ feed.catalog \subseteq ChangesIn(wal, Len(wal))
    /\ first # 0 => \A c \in feed.catalog : Reached(c - 1)

Phases ==
    /\ first <= Len(wal)
    /\ first # 0 <=> phase \in {"minted", "serving"}
    /\ phase = "prepared" => confirmed <= Len(wal)
    /\ phase = "minted" => confirmed <= first
    /\ phase # "serving" =>
        /\ queue = <<>> /\ ~link.up /\ feed.progress = 0
        /\ engine.position = 0 /\ engine.routed = <<>>
        /\ clients.floor = 0 /\ clients.pending = <<>> /\ aliases.current = 0
    /\ first = 0 => aliases.waiting = <<>> /\ aliases.minting = 0

\* every snapshot is of the first one's location or later
Snapshots ==
    /\ aliases.current # 0 => aliases.current \in first .. Len(wal)
    /\ \A i \in 1 .. Len(aliases.waiting) : aliases.waiting[i] \in first .. Len(wal)
    /\ aliases.minting # 0 => aliases.minting \in first .. Len(wal)
    /\ clients.floor # 0 => clients.floor \in first .. Len(wal)

\* where the clients' catalog is from
CatalogPoint == IF first = 0 THEN Len(wal) ELSE IF clients.floor = 0 THEN first ELSE clients.floor

Published ==
    /\ \A i \in 1 .. Len(clients.pending) :
        /\ clients.pending[i].at \in 1 .. Len(wal)
        /\ clients.pending[i].catalog \subseteq ChangesIn(wal, clients.pending[i].at)
    /\ clients.catalog \subseteq ChangesIn(wal, CatalogPoint)

FeedInv ==
    TypeOK /\ InOrder /\ Position /\ Streamed /\ Heard /\ Phases /\ Snapshots /\ Published

-----------------------------------------------------------------------------
(* Types                                                                    *)

\* The types, field by field.
LEMMA Fields ==
    ASSUME TypeOK
    PROVE  /\ wal \in Seq(Kinds \cup {"rows"}) /\ Len(wal) \in Nat
           /\ 1 <= Len(wal) /\ Len(wal) <= MaxLsn /\ MaxLsn \in Nat
           /\ confirmed \in Nat /\ confirmed <= MaxLsn /\ first \in Nat
           /\ link.up \in BOOLEAN /\ link.next \in Nat /\ link.acked \in Nat /\ link.acked <= MaxLsn
           /\ feed.catalog \subseteq 1 .. MaxLsn /\ feed.changes \subseteq 1 .. MaxLsn
           /\ feed.pending \in Seq(Locations) /\ feed.progress \in Nat /\ feed.progress <= MaxLsn
           /\ feed.outgoing \in Sent
           /\ queue \in Seq(Sent)
           /\ engine.position \in Nat /\ engine.routed \in Seq(Locations)
           /\ Len(engine.routed) \in Nat
           /\ aliases.current \in Nat /\ aliases.waiting \in Seq(1 .. MaxLsn)
           /\ aliases.minting \in Nat /\ aliases.upcoming \in Handed
           /\ clients.floor \in Nat /\ clients.pending \in Handed
<1>1. MaxLsn \in Nat
  BY ConstantsAssumption
<1>2. /\ wal \in Seq(Kinds \cup {"rows"}) /\ Len(wal) \in Nat
      /\ 1 <= Len(wal) /\ Len(wal) <= MaxLsn
      /\ confirmed \in Nat /\ confirmed <= MaxLsn /\ first \in Nat
      /\ queue \in Seq(Sent)
  BY <1>1 DEF TypeOK, Locations
<1>3. link \in Links /\ feed \in Feeds
  BY DEF TypeOK
<1>4. engine \in Engines /\ aliases \in AliasLists /\ clients \in Sides
  BY DEF TypeOK
<1>5. link.up \in BOOLEAN /\ link.next \in Nat /\ link.acked \in Nat /\ link.acked <= MaxLsn
  BY <1>1, <1>3 DEF Links, Locations
<1>6. /\ feed.catalog \subseteq 1 .. MaxLsn /\ feed.changes \subseteq 1 .. MaxLsn
      /\ feed.pending \in Seq(Locations) /\ feed.progress \in Nat /\ feed.progress <= MaxLsn
      /\ feed.outgoing \in Sent
  <2>1. /\ feed.catalog \in Catalogs /\ feed.changes \in Catalogs /\ feed.progress \in Locations
        /\ feed.pending \in Seq(Locations) /\ feed.outgoing \in Sent
    BY <1>3 DEF Feeds
  <2> QED BY <1>1, <2>1 DEF Locations, Catalogs
<1>7. /\ engine.position \in Nat /\ engine.routed \in Seq(Locations)
      /\ Len(engine.routed) \in Nat
  BY <1>1, <1>4 DEF Engines, Locations
<1>8. /\ aliases.current \in Nat /\ aliases.waiting \in Seq(1 .. MaxLsn)
      /\ aliases.minting \in Nat /\ aliases.upcoming \in Handed
  BY <1>1, <1>4 DEF AliasLists, Locations
<1>9. clients.floor \in Nat /\ clients.pending \in Handed
  BY <1>1, <1>4 DEF Sides, Locations
<1> QED BY <1>1, <1>2, <1>5, <1>6, <1>7, <1>8, <1>9

LEMMA PipeTyped ==
    ASSUME TypeOK
    PROVE  Pipe \in Seq(Sent) /\ Len(Pipe) \in Nat /\ Base \in Nat /\ first <= Base
<1>1. Pipe \in Seq(Sent)
  BY Fields DEF Pipe
<1>2. Base \in Nat /\ first <= Base
  <2>1. first \in Nat /\ Len(engine.routed) \in Nat
    BY Fields
  <2> QED BY <2>1 DEF Base
<1> QED BY <1>1, <1>2

LEMMA NothingTyped ==
    /\ Nothing \in Sent
    /\ \A n \in Locations : MarkOf(n) \in Sent
    /\ NoLink \in Links
    /\ \A n \in Locations : Streaming(n) \in Links
<1>1. 0 \in Locations /\ {} \in Catalogs /\ <<>> \in Seq(Locations)
  BY ConstantsAssumption DEF Locations, Catalogs
<1>2. Nothing \in Sent
  BY <1>1 DEF Nothing, Sent
<1>3. \A n \in Locations : MarkOf(n) \in Sent
  BY <1>2 DEF MarkOf, Sent
<1>4. 0 \in 0 .. MaxLsn + 1 /\ \A n \in Locations : n + 1 \in 0 .. MaxLsn + 1
  BY ConstantsAssumption DEF Locations
<1>5. NoLink \in Links
  BY <1>1, <1>4 DEF NoLink, Links
<1>6. \A n \in Locations : Streaming(n) \in Links
  BY <1>4 DEF Streaming, Links
<1> QED BY <1>2, <1>3, <1>5, <1>6

\* A process that starts keeps nothing of an earlier one.
LEMMA NewTyped ==
    ASSUME NEW catalog \in Catalogs
    PROVE  /\ NewFeed(catalog) \in Feeds /\ NewEngine(catalog) \in Engines
           /\ NewAliases(catalog) \in AliasLists /\ NewClients(catalog) \in Sides
<1>1. 0 \in Locations /\ {} \in Catalogs
  BY ConstantsAssumption DEF Locations, Catalogs
<1>2. /\ <<>> \in Seq(Locations) /\ <<>> \in Seq(1 .. MaxLsn) /\ <<>> \in Handed
  BY DEF Handed
<1>3. NewFeed(catalog) \in Feeds
  BY <1>1, <1>2, NothingTyped DEF NewFeed, Feeds
<1>4. NewEngine(catalog) \in Engines /\ NewClients(catalog) \in Sides
  BY <1>1, <1>2 DEF NewEngine, Engines, NewClients, Sides
<1>5. NewAliases(catalog) \in AliasLists
  BY <1>1, <1>2 DEF NewAliases, AliasLists
<1> QED BY <1>3, <1>4, <1>5

\* What Stop leaves.
LEMMA StopTyped ==
    ASSUME TypeOK, Stop, accidents' \in [count : 0 .. MaxAccidents, apart : BOOLEAN]
    PROVE  TypeOK'
<1>1. 0 \in Locations /\ {} \in Catalogs
  BY ConstantsAssumption DEF Locations, Catalogs
<1>2. <<>> \in Seq(Sent) /\ Len(<<>>) <= QueueCapacity
  BY ConstantsAssumption
<1> QED BY <1>1, <1>2, NewTyped, NothingTyped DEF Stop, TypeOK

\* The catalogs handed on keep their type.
LEMMA FollowedTyped ==
    ASSUME NEW catalogs \in Handed, NEW t \in Sent
    PROVE  Followed(catalogs, t) \in Handed
<1>1. [at |-> t.at, catalog |-> t.catalog] \in [at : Locations, catalog : Catalogs]
  BY DEF Sent
<1>2. \A S : \A s \in Seq(S) : \A e \in S : Append(s, e) \in Seq(S)
  OBVIOUS
<1>3. Append(catalogs, [at |-> t.at, catalog |-> t.catalog]) \in Handed
  BY <1>1, <1>2, Zenon DEF Handed
<1> QED BY <1>3 DEF Followed

LEMMA PointsTyped ==
    ASSUME NEW catalogs \in Handed
    PROVE  /\ [i \in 1 .. Len(catalogs) |-> catalogs[i].at] \in Seq(Locations)
           /\ Len([i \in 1 .. Len(catalogs) |-> catalogs[i].at]) = Len(catalogs)
<1> DEFINE at(i) == catalogs[i].at
<1>1. /\ Len(catalogs) \in Nat
      /\ \A i \in 1 .. Len(catalogs) : catalogs[i] \in [at : Locations, catalog : Catalogs]
  BY LenProperties, ElementOfSeq DEF Handed
<1>2. \A i \in 1 .. Len(catalogs) : at(i) \in Locations
  BY <1>1
<1>3. [i \in 1 .. Len(catalogs) |-> at(i)] \in [1 .. Len(catalogs) -> Locations]
  BY <1>2
<1> HIDE DEF at
<1> QED BY <1>1, <1>3 DEF at

LEMMA Elements == \A S : \A s \in Seq(S) : \A i \in 1 .. Len(s) : s[i] \in S
OBVIOUS

\* Aliases that advance: the current one was current or waiting before, and
\* those that wait on were waiting.
LEMMA AdvancedKeeps ==
    ASSUME NEW all \in AliasLists, NEW to
    PROVE  LET a == Advanced(all, to) IN
           /\ a \in AliasLists /\ a.minting = all.minting
           /\ \/ a.current = all.current
              \/ \E j \in 1 .. Len(all.waiting) : a.current = all.waiting[j]
           /\ \A i \in 1 .. Len(a.waiting) :
                 \E j \in 1 .. Len(all.waiting) : a.waiting[i] = all.waiting[j]
<1> DEFINE n == Leading(all.waiting, to)
           current == IF n = 0 THEN all.current ELSE all.waiting[n]
           points == [i \in 1 .. Len(all.upcoming) |-> all.upcoming[i].at]
           m == InForce(points, current)
           catalog == IF m = 0 THEN all.catalog ELSE all.upcoming[m].catalog
           a == Advanced(all, to)
<1>1. /\ all.waiting \in Seq(1 .. MaxLsn) /\ all.upcoming \in Handed /\ all.catalog \in Catalogs
      /\ all.current \in Locations
  BY DEF AliasLists
<1>2. n \in 0 .. Len(all.waiting) /\ Len(all.waiting) \in Nat
  BY <1>1, LeadingReached
<1> HIDE DEF n
<1>3. /\ current = all.current \/ \E j \in 1 .. Len(all.waiting) : current = all.waiting[j]
      /\ current \in Locations
  <2>1. n # 0 => n \in 1 .. Len(all.waiting)
    BY <1>2
  <2>2. n # 0 => all.waiting[n] \in 1 .. MaxLsn
    BY <1>1, <2>1, Elements, Zenon
  <2> QED BY <1>1, <2>1, <2>2 DEF Locations
<1>4. m \in 0 .. Len(all.upcoming) /\ Len(all.upcoming) \in Nat
  <2>1. points \in Seq(Locations) /\ Len(points) = Len(all.upcoming)
    BY <1>1, PointsTyped
  <2>2. Leading(points, current) \in 0 .. Len(points)
    BY <2>1, LeadingReached
  <2>3. Len(all.upcoming) \in Nat
    BY <1>1, LenProperties DEF Handed
  <2> QED BY <2>1, <2>2, <2>3 DEF InForce
<1> HIDE DEF points, m
<1>5. catalog \in Catalogs
  <2>1. m # 0 => m \in 1 .. Len(all.upcoming)
    BY <1>4
  <2>2. m # 0 => all.upcoming[m] \in [at : Locations, catalog : Catalogs]
    BY <1>1, <2>1, Elements, Zenon DEF Handed
  <2> QED BY <1>1, <2>2
<1>6. /\ After(all.waiting, n) \in Seq(1 .. MaxLsn)
      /\ \A i \in 1 .. Len(After(all.waiting, n)) :
            \E j \in 1 .. Len(all.waiting) : After(all.waiting, n)[i] = all.waiting[j]
  BY <1>1, <1>2, AfterTyped
<1>7. After(all.upcoming, m) \in Handed
  BY <1>1, <1>4, AfterTyped DEF Handed
<1>8. a = [all EXCEPT !.current = current, !.waiting = After(all.waiting, n),
                      !.catalog = catalog, !.upcoming = After(all.upcoming, m)]
  BY DEF Advanced, n, m, points
<1> HIDE DEF current, catalog, a
<1>9. /\ a \in AliasLists /\ a.minting = all.minting /\ a.current = current
      /\ a.waiting = After(all.waiting, n)
  BY <1>3, <1>5, <1>6, <1>7, <1>8 DEF AliasLists
<1> QED BY <1>3, <1>6, <1>9 DEF a

\* The clients' side that learns a floor: its catalog is the one it had, or one
\* that waited for a location now reached.
LEMMA AdoptedKeeps ==
    ASSUME NEW all \in Sides, NEW floor \in Locations
    PROVE  LET a == Adopted(all, floor) IN
           /\ a \in Sides /\ a.floor = floor
           /\ \/ a.catalog = all.catalog
              \/ \E j \in 1 .. Len(all.pending) :
                    a.catalog = all.pending[j].catalog /\ all.pending[j].at <= floor
           /\ \A i \in 1 .. Len(a.pending) :
                 \E j \in 1 .. Len(all.pending) : a.pending[i] = all.pending[j]
<1> DEFINE points == [i \in 1 .. Len(all.pending) |-> all.pending[i].at]
           n == Leading(points, floor)
           catalog == IF n = 0 THEN all.catalog ELSE all.pending[n].catalog
           a == Adopted(all, floor)
<1>1. all.pending \in Handed /\ all.catalog \in Catalogs
  BY DEF Sides
<1>2. points \in Seq(Locations) /\ Len(points) = Len(all.pending)
  BY <1>1, PointsTyped
<1>3. /\ n \in 0 .. Len(all.pending) /\ Len(all.pending) \in Nat
      /\ \A j \in 1 .. n : points[j] <= floor
  <2>1. Len(all.pending) \in Nat
    BY <1>1, LenProperties DEF Handed
  <2> QED BY <1>2, <2>1, LeadingReached
<1> HIDE DEF n
<1>4. n # 0 => /\ n \in 1 .. Len(all.pending) /\ all.pending[n].at <= floor
               /\ all.pending[n] \in [at : Locations, catalog : Catalogs]
  <2>1. n # 0 => n \in 1 .. Len(all.pending)
    BY <1>3
  <2>2. n # 0 => points[n] <= floor
    BY <1>3
  <2>3. n # 0 => points[n] = all.pending[n].at
    BY <2>1
  <2>4. n # 0 => all.pending[n] \in [at : Locations, catalog : Catalogs]
    BY <1>1, <2>1, Elements, Zenon DEF Handed
  <2> QED BY <2>1, <2>2, <2>3, <2>4
<1>5. catalog \in Catalogs
  BY <1>1, <1>4
<1>6. /\ After(all.pending, n) \in Handed
      /\ \A i \in 1 .. Len(After(all.pending, n)) :
            \E j \in 1 .. Len(all.pending) : After(all.pending, n)[i] = all.pending[j]
  BY <1>1, <1>3, AfterTyped DEF Handed
<1>7. a = [all EXCEPT !.floor = floor, !.pending = After(all.pending, n), !.catalog = catalog]
  BY DEF Adopted, n
<1>8. /\ catalog = all.catalog
      \/ \E j \in 1 .. Len(all.pending) :
            catalog = all.pending[j].catalog /\ all.pending[j].at <= floor
  BY <1>4
<1> HIDE DEF points, catalog, a
<1>9. a \in Sides /\ a.floor = floor /\ a.catalog = catalog /\ a.pending = After(all.pending, n)
  BY <1>5, <1>6, <1>7 DEF Sides
<1> QED BY <1>6, <1>8, <1>9 DEF a

\* What the service does with a transaction keeps the types.
LEMMA ApplyTyped ==
    ASSUME TypeOK, NEW t \in Sent, Apply(t)
    PROVE  engine' \in Engines /\ aliases' \in AliasLists /\ clients' \in Sides
<1>1. /\ engine \in Engines /\ aliases \in AliasLists /\ clients \in Sides
      /\ aliases.upcoming \in Handed /\ clients.pending \in Handed
  BY Fields DEF TypeOK
<1>2. engine' \in Engines
  <2>1. /\ t.progress \in Locations /\ t.changes \in Catalogs /\ t.writes \in Seq(Locations)
    BY DEF Sent
  <2>2. /\ engine.position \in Locations /\ engine.layout \in Catalogs
        /\ engine.routed \in Seq(Locations)
    BY <1>1 DEF Engines
  <2>3. /\ engine.routed \o t.writes \in Seq(Locations)
        /\ Later(engine.position, t.progress) \in Locations
        /\ engine.layout \cup t.changes \in Catalogs
    BY <2>1, <2>2 DEF Later, Catalogs
  <2> QED BY <2>3 DEF Apply, Engines
<1>3. [aliases EXCEPT !.upcoming = Followed(@, t), !.rung = @ \/ t.changes # {}] \in AliasLists
  <2>1. Followed(aliases.upcoming, t) \in Handed /\ (aliases.rung \/ t.changes # {}) \in BOOLEAN
    BY <1>1, FollowedTyped DEF AliasLists
  <2> QED BY <1>1, <2>1 DEF AliasLists
<1>4. aliases' \in AliasLists
  BY <1>3, AdvancedKeeps DEF Apply
<1>5. [clients EXCEPT !.pending = Followed(@, t)] \in Sides
  <2>1. Followed(clients.pending, t) \in Handed
    BY <1>1, FollowedTyped
  <2> QED BY <1>1, <2>1 DEF Sides
<1>6. Later(clients.floor, aliases'.current) \in Locations
  BY <1>1, <1>4 DEF Sides, AliasLists, Later
<1>7. clients' \in Sides
  BY <1>5, <1>6, AdoptedKeeps DEF Apply
<1> QED BY <1>2, <1>4, <1>7

Accounts == [count : 0 .. MaxAccidents, apart : BOOLEAN]

LEMMA InitTypes == Init => TypeOK
<1> SUFFICES ASSUME Init PROVE TypeOK
  OBVIOUS
<1>1. 0 \in Locations /\ {} \in Catalogs /\ 0 \in 0 .. MaxAccidents
  BY ConstantsAssumption DEF Locations, Catalogs
<1>2. /\ <<"rows">> \in Seq(Kinds \cup {"rows"}) /\ Len(<<"rows">>) \in 1 .. MaxLsn
      /\ <<>> \in Seq(Sent) /\ Len(<<>>) <= QueueCapacity
  BY ConstantsAssumption
<1> QED BY <1>1, <1>2, NewTyped, NothingTyped DEF Init, TypeOK

\* A catalog of the database has the types of one.
LEMMA CatalogTyped ==
    ASSUME TypeOK
    PROVE  CatalogAt(Len(wal)) \in Catalogs /\ Len(wal) \in Locations /\ Len(wal) \in 1 .. MaxLsn
BY Fields DEF CatalogAt, Catalogs, Locations

\* Steps of the process's start.
LEMMA StartTypes ==
    ASSUME TypeOK, DbCommit \/ LoadCatalog \/ Prepare \/ MintFirst \/ OpenFirst
    PROVE  TypeOK'
<1>1. CASE DbCommit
  <2>1. PICK kind \in Kinds :
           /\ wal' = Append(wal, kind)
           /\ accidents' = [accidents EXCEPT !.apart = @ \/ (kind # "rows" /\ Starting)]
    BY <1>1 DEF DbCommit
  <2>2. wal' \in Seq(Kinds \cup {"rows"}) /\ Len(wal') \in 1 .. MaxLsn
    BY <1>1, <2>1, ConstantsAssumption DEF DbCommit, TypeOK
  <2>3. (accidents.apart \/ (kind # "rows" /\ Starting)) \in BOOLEAN
    OBVIOUS
  <2>4. accidents' \in Accounts
    BY <2>1, <2>3 DEF TypeOK, Accounts
  <2> QED BY <1>1, <2>2, <2>4 DEF DbCommit, process, TypeOK, Accounts
<1>2. CASE LoadCatalog
  BY <1>2, CatalogTyped, NewTyped DEF LoadCatalog, TypeOK
<1>3. CASE Prepare
  BY <1>3, CatalogTyped DEF Prepare, TypeOK
<1>4. CASE MintFirst
  <2>1. <<Len(wal)>> \in Seq(1 .. MaxLsn)
    BY CatalogTyped
  <2>2. aliases' \in AliasLists
    BY <1>4, <2>1 DEF MintFirst, TypeOK, AliasLists
  <2> QED BY <1>4, <2>2, CatalogTyped DEF MintFirst, TypeOK
<1>5. CASE OpenFirst
  <2>1. confirmed' \in Locations
    BY <1>5 DEF OpenFirst, StartingPoint, Later, TypeOK
  <2>2. link' \in Links
    BY <1>5, <2>1, NothingTyped DEF OpenFirst
  <2> QED BY <1>5, <2>1, <2>2 DEF OpenFirst, TypeOK
<1> QED BY <1>1, <1>2, <1>3, <1>4, <1>5

\* Steps of the connection.
LEMMA LinkTypes ==
    ASSUME TypeOK, Crash \/ ForeignMessage \/ Lose \/ Reopen \/ Confirm
    PROVE  TypeOK'
<1>1. accidents \in Accounts /\ accidents.count \in Nat
  BY DEF TypeOK, Accounts
<1>2. CASE Crash
  <2>1. accidents.count + 1 \in 0 .. MaxAccidents
    BY <1>1, <1>2, ConstantsAssumption DEF Crash
  <2>2. accidents' \in Accounts
    BY <1>2, <2>1 DEF Crash, Accounts
  <2> QED BY <1>2, <2>2, StopTyped DEF Crash, Accounts
<1>3. CASE ForeignMessage
  <2>1. accidents' \in Accounts
    BY <1>1, <1>3 DEF ForeignMessage, Accounts
  <2> QED BY <1>3, <2>1, StopTyped DEF ForeignMessage, Accounts
<1>4. CASE Lose
  <2>1. accidents.count + 1 \in 0 .. MaxAccidents
    BY <1>1, <1>4, ConstantsAssumption DEF Lose
  <2>2. (accidents.apart \/ feed.progress > confirmed) \in BOOLEAN
    OBVIOUS
  <2>3. accidents' \in Accounts
    BY <1>4, <2>1, <2>2 DEF Lose, Accounts
  <2> QED BY <1>4, <2>3, NothingTyped DEF Lose, TypeOK, Accounts
<1>5. CASE Reopen
  BY <1>5, NothingTyped DEF Reopen, DecoderKept, TypeOK
<1>6. CASE Confirm
  BY <1>6 DEF Confirm, process, TypeOK, Links
<1> QED BY <1>2, <1>3, <1>4, <1>5, <1>6

\* An event absorbed, with a decoder and a stage of their types.
LEMMA AbsorbedTyped ==
    ASSUME TypeOK, NEW decoder \in Feeds,
           NEW stage \in {"between", "begun", "told", "filled", "sending"},
           Absorbed(decoder, stage)
    PROVE  TypeOK'
<1>1. decoder.progress \in Locations
  BY DEF Feeds
<1>2. link' \in Links
  BY <1>1 DEF Absorbed, TypeOK, Links
<1> QED BY <1>2 DEF Absorbed, TypeOK

\* Steps of the decoder.
LEMMA EventTypes ==
    ASSUME FeedInv,
           BeginEvent \/ SchemaMessage \/ RowEvent \/ CommitEvent \/ Send \/ KeepAlive \/ Tick
    PROVE  TypeOK'
<1>1. /\ TypeOK /\ link \in Links /\ feed \in Feeds
  BY DEF FeedInv, TypeOK
<1>2. /\ link.next \in Nat /\ Len(wal) \in Nat /\ Len(wal) <= MaxLsn /\ MaxLsn \in Nat
      /\ feed.pending \in Seq(Locations) /\ feed.progress \in Locations
      /\ feed.changes \in Catalogs /\ feed.catalog \in Catalogs
  <2>1. link.next \in Nat /\ Len(wal) \in Nat /\ Len(wal) <= MaxLsn /\ MaxLsn \in Nat
    BY <1>1, Fields
  <2>2. /\ feed.pending \in Seq(Locations) /\ feed.progress \in Locations
        /\ feed.changes \in Catalogs /\ feed.catalog \in Catalogs
    BY <1>1 DEF Feeds
  <2> QED BY <2>1, <2>2
<1>3. link.up /\ link.stage \in {"begun", "told", "filled"} =>
          link.next \in Locations /\ link.next \in 1 .. MaxLsn
  <2>1. ASSUME link.up, link.stage \in {"begun", "told", "filled"}
        PROVE  link.next <= Len(wal) /\ first < link.next /\ first \in Nat
    <3>1. Streamed /\ first \in Nat
      BY <1>1, Fields DEF FeedInv
    <3> QED BY <2>1, <3>1 DEF Streamed
  <2> QED BY <1>2, <2>1 DEF Locations
<1>4. CASE BeginEvent
  <2>1. [feed EXCEPT !.pending = <<>>] \in Feeds
    <3>1. <<>> \in Seq(Locations)
      OBVIOUS
    <3> QED BY <1>1, <3>1 DEF Feeds
  <2> QED BY <1>1, <1>4, <2>1, AbsorbedTyped DEF BeginEvent, PendingCleared
<1>5. CASE SchemaMessage
  <2>1. Grown(link.next) \in Feeds
    <3>1. feed.catalog \cup {link.next} \in Catalogs /\ feed.changes \cup {link.next} \in Catalogs
      BY <1>2, <1>3, <1>5 DEF SchemaMessage, Catalogs
    <3> QED BY <1>1, <3>1 DEF Grown, Feeds
  <2> QED BY <1>1, <1>5, <2>1, AbsorbedTyped DEF SchemaMessage
<1>6. CASE RowEvent
  <2>1. Append(feed.pending, link.next) \in Seq(Locations)
    BY <1>2, <1>3, <1>6 DEF RowEvent
  <2>2. [feed EXCEPT !.pending = Append(@, link.next)] \in Feeds
    BY <1>1, <2>1 DEF Feeds
  <2> QED BY <1>1, <1>6, <2>2, AbsorbedTyped DEF RowEvent
<1>7. CASE CommitEvent
  <2> DEFINE progress == Later(feed.progress, link.next)
             catalog == IF feed.changes = {} THEN {} ELSE feed.catalog
             t == [at |-> link.next, progress |-> progress, writes |-> feed.pending,
                   changes |-> feed.changes, catalog |-> catalog]
  <2>1. link.next \in Locations /\ progress \in Locations /\ link.next + 1 \in 0 .. MaxLsn + 1
    BY <1>2, <1>3, <1>7 DEF CommitEvent, Later
  <2>2. catalog \in Catalogs
    BY <1>2 DEF Catalogs
  <2>3. /\ feed' = [feed EXCEPT !.pending = <<>>, !.changes = {}, !.progress = progress,
                                !.outgoing = t]
        /\ link' = [link EXCEPT !.stage = "sending", !.next = link.next + 1, !.acked = progress]
    BY <1>7 DEF CommitEvent
  <2> HIDE DEF progress, catalog
  <2>4. t \in Sent
    BY <1>2, <2>1, <2>2 DEF Sent
  <2> HIDE DEF t
  <2>5. feed' \in Feeds
    <3>1. <<>> \in Seq(Locations) /\ {} \in Catalogs
      BY DEF Catalogs
    <3> QED BY <1>1, <2>1, <2>3, <2>4, <3>1 DEF Feeds
  <2>6. link' \in Links
    BY <1>1, <2>1, <2>3 DEF Links
  <2> QED BY <1>1, <1>7, <2>5, <2>6 DEF CommitEvent, TypeOK
<1>8. CASE Send
  <2>1. queue' \in Seq(Sent) /\ Len(queue') <= QueueCapacity
    BY <1>1, <1>8, ConstantsAssumption DEF Send, TypeOK, Feeds
  <2>2. feed' \in Feeds /\ link' \in Links
    BY <1>1, <1>8, NothingTyped DEF Send, Feeds, Links
  <2> QED BY <1>1, <1>8, <2>1, <2>2 DEF Send, TypeOK
<1>9. CASE KeepAlive
  <2>1. DeliveredUpTo \in Locations
    <3>1. first < link.next /\ first \in Nat /\ link.next \in Nat /\ link.next <= Len(wal) + 1
      BY <1>1, <1>9, Fields DEF KeepAlive, FeedInv, Streamed
    <3> QED BY <1>2, <3>1 DEF DeliveredUpTo, Locations
  <2>2. Later(feed.progress, DeliveredUpTo) \in Locations
    BY <1>2, <2>1 DEF Later
  <2>3. [feed EXCEPT !.progress = Later(@, DeliveredUpTo)] \in Feeds
    BY <1>1, <2>2 DEF Feeds
  <2>4. link.stage \in {"between", "begun", "told", "filled", "sending"}
    BY <1>1 DEF Links
  <2> QED BY <1>1, <1>9, <2>3, <2>4, AbsorbedTyped DEF KeepAlive
<1>10. CASE Tick
  <2>1. queue' \in Seq(Sent) /\ Len(queue') <= QueueCapacity
    BY <1>1, <1>2, <1>10, NothingTyped, ConstantsAssumption DEF Tick, TypeOK
  <2> QED BY <1>1, <1>10, <2>1 DEF Tick, TypeOK
<1> QED BY <1>4, <1>5, <1>6, <1>7, <1>8, <1>9, <1>10

\* Steps of the snapshots and of the service.
LEMMA ServiceTypes ==
    ASSUME TypeOK, Mint \/ MintDone \/ Take
    PROVE  TypeOK'
<1>1. CASE Mint
  BY <1>1, CatalogTyped DEF Mint, TypeOK, AliasLists
<1>2. CASE MintDone
  <2>1. aliases.minting \in 1 .. MaxLsn /\ aliases.waiting \in Seq(1 .. MaxLsn)
    BY <1>2, ConstantsAssumption DEF MintDone, TypeOK, AliasLists, Locations
  <2>2. Append(aliases.waiting, aliases.minting) \in Seq(1 .. MaxLsn) /\ 0 \in Locations
    BY <2>1, ConstantsAssumption DEF Locations
  <2> QED BY <1>2, <2>2 DEF MintDone, TypeOK, AliasLists
<1>3. CASE Take
  <2>1. queue \in Seq(Sent) /\ queue # <<>>
    BY <1>3 DEF Take, TypeOK
  <2>2. Head(queue) \in Sent /\ queue' \in Seq(Sent) /\ Len(queue') <= QueueCapacity
    BY <1>3, <2>1, ConstantsAssumption DEF Take, TypeOK
  <2>3. CASE Repeats(Head(queue))
    BY <1>3, <2>2, <2>3 DEF Take, TypeOK
  <2>4. CASE ~Repeats(Head(queue))
    <3>1. engine' \in Engines /\ aliases' \in AliasLists /\ clients' \in Sides
      BY <1>3, <2>2, <2>4, ApplyTyped DEF Take
    <3> QED BY <1>3, <2>2, <3>1 DEF Take, TypeOK
  <2> QED BY <2>3, <2>4
<1> QED BY <1>1, <1>2, <1>3

-----------------------------------------------------------------------------
(* The invariant, step by step                                              *)

\* Nothing is under way in an empty pipe.
LEMMA EmptyPipe ==
    \A w, start : \A base \in Nat :
        /\ Ordered(w, start, <<>>, base) /\ Gapless(<<>>, base)
        /\ \A l \in Nat : InPipe(<<>>, base, l) <=> l <= base
<1> SUFFICES ASSUME NEW w, NEW start, NEW base \in Nat
             PROVE  /\ Ordered(w, start, <<>>, base) /\ Gapless(<<>>, base)
                    /\ \A l \in Nat : InPipe(<<>>, base, l) <=> l <= base
  OBVIOUS
<1>1. Len(<<>>) = 0
  OBVIOUS
<1>2. Ordered(w, start, <<>>, base)
  BY <1>1 DEF Ordered
<1>3. \A l \in Nat : InPipe(<<>>, base, l) <=> l <= base
  BY <1>1 DEF InPipe, Arrived
<1>4. Gapless(<<>>, base)
  BY <1>3 DEF Gapless
<1> QED BY <1>2, <1>3, <1>4

\* A process that does not stream yet.
Quiet ==
    /\ TypeOK /\ Phases /\ Snapshots /\ phase # "serving"
    /\ feed.catalog \subseteq ChangesIn(wal, Len(wal))
    /\ first # 0 => \A c \in feed.catalog : c <= first
    /\ clients.catalog \subseteq ChangesIn(wal, CatalogPoint)

LEMMA QuietHolds == Quiet => FeedInv
<1> SUFFICES ASSUME Quiet PROVE FeedInv
  OBVIOUS
<1>1. /\ TypeOK /\ Phases /\ Snapshots /\ phase # "serving" /\ first \in Nat
      /\ feed.catalog \subseteq 1 .. MaxLsn /\ MaxLsn \in Nat
  BY Fields DEF Quiet
<1>2. /\ queue = <<>> /\ ~link.up /\ feed.progress = 0
      /\ engine.position = 0 /\ engine.routed = <<>>
      /\ clients.pending = <<>>
  BY <1>1 DEF Phases
<1>3. Pipe = <<>> /\ Base = first
  BY <1>1, <1>2 DEF Pipe, Sending, Base
<1>4. InOrder /\ \A l \in Nat : Reached(l) <=> l <= first
  BY <1>1, <1>3, EmptyPipe DEF InOrder, Reached
<1>5. Position
  BY <1>1, <1>2, <1>3 DEF Position, Phases
<1>6. Streamed
  BY <1>1, <1>2, <1>4 DEF Streamed
<1>7. Heard
  <2>1. ASSUME first # 0, NEW c \in feed.catalog PROVE Reached(c - 1)
    <3>1. c <= first /\ c \in Nat /\ c - 1 \in Nat /\ c - 1 <= first
      BY <1>1, <2>1 DEF Quiet
    <3> QED BY <1>4, <3>1
  <2> QED BY <2>1 DEF Heard, Quiet
<1>8. Published
  BY <1>2 DEF Published, Quiet
<1> QED BY <1>1, <1>4, <1>5, <1>6, <1>7, <1>8 DEF FeedInv

LEMMA QuietHoldsNext == Quiet' => FeedInv'
BY QuietHolds, PTL

LEMMA InitInv == Init => FeedInv
<1> SUFFICES ASSUME Init PROVE FeedInv
  OBVIOUS
<1>1. TypeOK
  BY InitTypes
<1>2. Phases /\ Snapshots /\ phase # "serving"
  BY <1>1, Fields
  DEF Init, Phases, Snapshots, NoLink, NewFeed, NewEngine, NewAliases, NewClients
<1>3. feed.catalog = {} /\ clients.catalog = {} /\ first = 0
  BY DEF Init, NewFeed, NewClients
<1> QED BY <1>1, <1>2, <1>3, QuietHolds DEF Quiet

\* The steps before the process streams, and those that end it.
LEMMA QuietSteps ==
    ASSUME FeedInv, TypeOK',
           LoadCatalog \/ Prepare \/ MintFirst \/ Crash \/ ForeignMessage
    PROVE  FeedInv'
<1>1. /\ TypeOK /\ Phases /\ Snapshots /\ Heard /\ Published
      /\ Len(wal) \in Nat /\ 1 <= Len(wal)
      /\ feed.catalog \subseteq 1 .. MaxLsn /\ MaxLsn \in Nat
  BY Fields DEF FeedInv
<1>2. CASE LoadCatalog
  <2>1. first = 0 /\ queue = <<>> /\ ~link.up
    BY <1>1, <1>2 DEF LoadCatalog, Phases
  <2>2. /\ wal' = wal /\ first' = 0 /\ phase' = "loaded" /\ queue' = <<>> /\ ~link'.up
        /\ feed' = NewFeed(ChangesIn(wal, Len(wal)))
        /\ engine' = NewEngine(ChangesIn(wal, Len(wal)))
        /\ aliases' = NewAliases(ChangesIn(wal, Len(wal)))
        /\ clients' = NewClients(ChangesIn(wal, Len(wal)))
    BY <1>2, <2>1 DEF LoadCatalog, CatalogAt, ChangesIn
  <2>3. Phases' /\ Snapshots'
    BY <1>1, <2>2 DEF Phases, Snapshots, NewFeed, NewEngine, NewAliases, NewClients
  <2>4. feed'.catalog = ChangesIn(wal, Len(wal)) /\ clients'.catalog = ChangesIn(wal, Len(wal))
    BY <2>2 DEF NewFeed, NewClients
  <2>5. Quiet'
    BY <2>2, <2>3, <2>4 DEF Quiet, CatalogPoint
  <2> QED BY <2>5, QuietHoldsNext
<1>3. CASE Prepare
  <2>1. first = 0 /\ phase = "loaded"
    BY <1>1, <1>3 DEF Prepare, Phases
  <2>2. Phases' /\ Snapshots'
    BY <1>1, <1>3, <2>1 DEF Prepare, Phases, Snapshots
  <2>3. Quiet'
    BY <1>1, <1>3, <2>1, <2>2 DEF Prepare, Quiet, Heard, Published, CatalogPoint
  <2> QED BY <2>3, QuietHoldsNext
<1>4. CASE MintFirst
  <2>1. first = 0 /\ phase = "prepared" /\ confirmed <= Len(wal)
    BY <1>1, <1>4 DEF MintFirst, Phases
  <2>2. /\ aliases'.waiting = <<Len(wal)>> /\ aliases'.current = aliases.current
        /\ aliases'.minting = aliases.minting
    <3>1. aliases \in AliasLists
      BY <1>1 DEF TypeOK
    <3> QED BY <1>4, <3>1 DEF MintFirst, AliasLists
  <2>3. Phases'
    BY <1>1, <1>4, <2>1, <2>2 DEF MintFirst, Phases
  <2>4. Snapshots'
    <3>1. aliases.current = 0 /\ aliases.minting = 0 /\ clients.floor = 0
      BY <1>1, <2>1 DEF Phases
    <3>2. wal' = wal /\ first' = Len(wal) /\ clients' = clients
      BY <1>4 DEF MintFirst
    <3> QED BY <1>1, <2>2, <3>1, <3>2 DEF Snapshots
  <2>5. /\ wal' = wal /\ first' = Len(wal) /\ clients' = clients /\ feed' = feed /\ phase' = "minted"
        /\ clients.floor = 0
    BY <1>1, <1>4, <2>1 DEF MintFirst, Phases
  <2>6. \A c \in feed.catalog : c <= Len(wal)
    BY <1>1 DEF Heard, ChangesIn
  <2>7. clients.catalog \subseteq ChangesIn(wal, Len(wal))
    BY <1>1, <2>1 DEF Published, CatalogPoint
  <2>8. CatalogPoint' = Len(wal)
    BY <1>1, <2>5 DEF CatalogPoint
  <2>9. Quiet'
    BY <1>1, <2>3, <2>4, <2>5, <2>6, <2>7, <2>8 DEF Quiet, Heard
  <2> QED BY <2>9, QuietHoldsNext
<1>5. CASE Crash \/ ForeignMessage
  <2>1. Stop
    BY <1>5 DEF Crash, ForeignMessage
  <2>2. Phases' /\ Snapshots'
    BY <1>1, <2>1
    DEF Stop, Phases, Snapshots, NoLink, NewFeed, NewEngine, NewAliases, NewClients
  <2>3. feed'.catalog = {} /\ clients'.catalog = {} /\ first' = 0 /\ phase' = "down"
    BY <2>1 DEF Stop, NewFeed, NewClients
  <2>4. Quiet'
    BY <2>2, <2>3 DEF Quiet
  <2> QED BY <2>4, QuietHoldsNext
<1> QED BY <1>2, <1>3, <1>4, <1>5

\* A commit is added to the log, whatever the process does.
LEMMA CommitStep ==
    ASSUME FeedInv, TypeOK', DbCommit
    PROVE  FeedInv'
<1>1. /\ TypeOK /\ InOrder /\ Position /\ Streamed /\ Heard /\ Phases /\ Snapshots /\ Published
      /\ wal \in Seq(Kinds \cup {"rows"}) /\ Len(wal) \in Nat /\ first \in Nat
      /\ clients.floor \in Nat /\ aliases.current \in Nat /\ aliases.minting \in Nat
      /\ Pipe \in Seq(Sent) /\ Base \in Nat
  BY Fields, PipeTyped DEF FeedInv
<1>2. /\ \E kind \in Kinds : wal' = Append(wal, kind)
      /\ UNCHANGED <<confirmed, phase, first, link, feed, queue, engine, aliases, clients>>
  BY DEF DbCommit, process
<1>3. Pipe' = Pipe /\ Base' = Base /\ \A l : Reached(l)' <=> Reached(l)
  BY <1>2 DEF Pipe, Sending, Base, Reached, InPipe, Arrived
<1>4. /\ Len(wal') = Len(wal) + 1
      /\ \A l \in 1 .. Len(wal) : wal'[l] = wal[l]
  BY <1>1, <1>2
<1>5. \A at \in 0 .. Len(wal) : ChangesIn(wal', at) = ChangesIn(wal, at)
  BY <1>1, <1>4 DEF ChangesIn
<1>6. ChangesIn(wal, Len(wal)) \subseteq ChangesIn(wal', Len(wal'))
  BY <1>1, <1>4 DEF ChangesIn
<1>7. InOrder'
  <2>1. PICK kind \in Kinds : wal' = Append(wal, kind)
    BY <1>2
  <2>2. Ordered(wal', first, Pipe, Base)
    BY <1>1, <2>1, OrderedGrows DEF InOrder
  <2> QED BY <1>1, <1>2, <1>3, <2>2 DEF InOrder
<1>8. Position'
  BY <1>1, <1>2, <1>3, <1>4 DEF Position
<1>9. Streamed'
  <2>1. link.next \in Nat
    BY <1>1, Fields
  <2> QED BY <1>1, <1>2, <1>3, <1>4, <2>1 DEF Streamed
<1>10. Heard'
  BY <1>1, <1>2, <1>3, <1>6 DEF Heard
<1>11. Phases'
  <2>1. confirmed \in Nat
    BY <1>1, Fields
  <2> QED BY <1>1, <1>2, <1>4, <2>1 DEF Phases
<1>12. Snapshots'
  BY <1>1, <1>2, <1>4, SMTT(30) DEF Snapshots
<1>13. Published'
  <2>1. ASSUME NEW i \in 1 .. Len(clients.pending)
        PROVE  /\ clients.pending[i].at \in 1 .. Len(wal')
               /\ clients.pending[i].catalog \subseteq ChangesIn(wal', clients.pending[i].at)
    <3>1. /\ clients.pending[i].at \in 1 .. Len(wal)
          /\ clients.pending[i].catalog \subseteq ChangesIn(wal, clients.pending[i].at)
      BY <1>1 DEF Published
    <3> QED BY <1>1, <1>4, <1>5, <3>1
  <2>2. clients.catalog \subseteq ChangesIn(wal', CatalogPoint')
    <3>1. CASE first = 0
      <4>1. CatalogPoint = Len(wal) /\ CatalogPoint' = Len(wal')
        BY <1>2, <3>1 DEF CatalogPoint
      <4> QED BY <1>1, <1>6, <4>1 DEF Published
    <3>2. CASE first # 0
      <4>1. CatalogPoint' = CatalogPoint /\ CatalogPoint \in 0 .. Len(wal)
        BY <1>1, <1>2, <3>2 DEF CatalogPoint, Phases, Snapshots
      <4> QED BY <1>1, <1>5, <4>1 DEF Published
    <3> QED BY <3>1, <3>2
  <2> QED BY <1>2, <2>1, <2>2 DEF Published
<1> QED BY <1>7, <1>8, <1>9, <1>10, <1>11, <1>12, <1>13 DEF FeedInv

\* A step that leaves the pipe and the engine alone keeps what is in order.
LEMMA PipeKept ==
    ASSUME InOrder, Position, UNCHANGED <<wal, first, engine>>, Pipe' = Pipe
    PROVE  InOrder' /\ Position' /\ \A l : Reached(l)' <=> Reached(l)
<1>1. Base' = Base
  BY DEF Base
<1> QED BY <1>1 DEF InOrder, Position, Reached, InPipe, Arrived

\* Only what was committed arrives.
LEMMA ReachedIsCommitted ==
    ASSUME TypeOK, InOrder, Position, NEW l \in Nat, Reached(l)
    PROVE  l <= Len(wal)
<1>1. Pipe \in Seq(Sent) /\ Len(Pipe) \in Nat /\ Base \in Nat /\ Len(wal) \in Nat
  BY Fields, PipeTyped
<1>2. CASE l <= Base
  BY <1>1, <1>2 DEF Position
<1>3. CASE ~(l <= Base)
  <2>1. PICK j \in 1 .. (Len(Pipe) + 1) - 1 : Pipe[j].at = l
    BY <1>3 DEF Reached, InPipe, Arrived
  <2>2. j \in 1 .. Len(Pipe) /\ l # 0
    BY <1>1, <1>3
  <2>3. GoodTransaction(wal, first, Pipe, Base, j)
    BY <2>1, <2>2 DEF InOrder, Ordered, IsMark
  <2> QED BY <2>1, <2>3 DEF GoodTransaction
<1> QED BY <1>2, <1>3

\* What clients and snapshots have is not the connection's to change.
LEMMA SideKept ==
    ASSUME Snapshots, Published, UNCHANGED <<wal, first, aliases, clients>>
    PROVE  Snapshots' /\ Published'
BY DEF Snapshots, Published, CatalogPoint, ChangesIn

\* Steps of the slot and of the connection.
LEMMA LinkSteps ==
    ASSUME FeedInv, TypeOK', OpenFirst \/ Lose \/ Reopen \/ Confirm
    PROVE  FeedInv'
<1>1. /\ TypeOK /\ InOrder /\ Position /\ Streamed /\ Heard /\ Phases /\ Snapshots /\ Published
      /\ Len(wal) \in Nat /\ first \in Nat /\ confirmed \in Nat /\ feed.progress \in Nat
      /\ link.next \in Nat
      /\ Pipe \in Seq(Sent) /\ Base \in Nat /\ first <= Base
  BY Fields, PipeTyped DEF FeedInv
<1>2. UNCHANGED <<wal, first, feed, queue, engine, aliases, clients>>
  BY DEF OpenFirst, Lose, Reopen, Confirm, process, DecoderKept
<1>3. Sending' <=> Sending
  <2>1. CASE OpenFirst \/ Reopen
    <3>1. ~link.up
      BY <1>1, <2>1 DEF OpenFirst, Reopen, Phases
    <3>2. link'.stage = "between"
      BY <2>1 DEF OpenFirst, Reopen, Streaming
    <3> QED BY <3>1, <3>2 DEF Sending
  <2>2. CASE Lose
    BY <2>2 DEF Lose, NoLink, Sending
  <2>3. CASE Confirm
    BY <2>3 DEF Confirm, process, Sending
  <2> QED BY <2>1, <2>2, <2>3
<1>4. Pipe' = Pipe
  BY <1>2, <1>3 DEF Pipe
<1>5. InOrder' /\ Position' /\ \A l : Reached(l)' <=> Reached(l)
  BY <1>1, <1>2, <1>4, PipeKept
<1>6. Snapshots' /\ Published'
  BY <1>1, <1>2, SideKept
<1>7. Heard'
  BY <1>1, <1>2, <1>5 DEF Heard
<1>8. CASE OpenFirst
  <2>1. /\ first # 0 /\ phase = "minted" /\ confirmed <= first /\ first <= Len(wal)
        /\ phase' = "serving" /\ confirmed' = first /\ link' = Streaming(first)
    <3>1. phase = "minted" /\ confirmed <= first /\ first # 0 /\ first <= Len(wal)
      BY <1>1, <1>8 DEF OpenFirst, Phases
    <3>2. StartingPoint = first
      BY <1>1, <3>1 DEF StartingPoint, Later
    <3> QED BY <1>8, <3>1, <3>2 DEF OpenFirst
  <2>2. Phases'
    BY <1>1, <1>2, <2>1 DEF Phases
  <2>3. Reached(first)
    BY <1>1 DEF Reached, InPipe, Arrived
  <2>4. /\ link'.up /\ link'.next = first + 1 /\ link'.stage = "between" /\ link'.acked = first
        /\ link'.next - 1 = first
    BY <1>1, <2>1 DEF Streaming
  <2>5. Streamed'
    BY <1>1, <1>2, <1>5, <2>1, <2>3, <2>4 DEF Streamed
  <2> QED BY <1>5, <1>6, <1>7, <2>2, <2>5 DEF FeedInv
<1>9. CASE Lose
  <2>1. Phases' /\ Streamed'
    BY <1>1, <1>2, <1>5, <1>9 DEF Lose, Phases, Streamed, NoLink
  <2> QED BY <1>5, <1>6, <1>7, <2>1 DEF FeedInv
<1>10. CASE Reopen
  <2>1. /\ phase = "serving" /\ phase' = phase /\ confirmed' = confirmed
        /\ link' = Streaming(confirmed)
    BY <1>10 DEF Reopen
  <2>2. Phases'
    BY <1>1, <1>2, <2>1 DEF Phases
  <2>3. /\ link'.up /\ link'.next = confirmed + 1 /\ link'.stage = "between"
        /\ link'.acked = confirmed /\ link'.next - 1 = confirmed
    BY <1>1, <2>1 DEF Streaming
  <2>4. first <= confirmed /\ Reached(confirmed) /\ confirmed <= Len(wal)
    <3>1. first <= confirmed /\ Reached(confirmed)
      BY <1>1, <2>1 DEF Streamed
    <3> QED BY <1>1, <3>1, ReachedIsCommitted
  <2>5. Streamed'
    BY <1>1, <1>2, <1>5, <2>1, <2>3, <2>4 DEF Streamed
  <2> QED BY <1>5, <1>6, <1>7, <2>2, <2>5 DEF FeedInv
<1>11. CASE Confirm
  <2>1. /\ link.up /\ confirmed' = link.acked /\ link.acked > confirmed
        /\ phase' = phase /\ link' = link /\ link.acked \in Nat
    BY <1>1, <1>11, Fields DEF Confirm, process
  <2>2. Phases' /\ Streamed'
    BY <1>1, <1>2, <1>5, <2>1 DEF Phases, Streamed
  <2> QED BY <1>5, <1>6, <1>7, <2>2 DEF FeedInv
<1> QED BY <1>8, <1>9, <1>10, <1>11

\* What an absorbed event keeps, when its decoder has only heard of the change
\* being streamed and of positions that have arrived.
LEMMA AbsorbedKeeps ==
    ASSUME FeedInv, TypeOK', NEW decoder, NEW stage, Absorbed(decoder, stage),
           link.up, link.stage # "sending", stage # "sending",
           \A c \in decoder.catalog :
              c \in feed.catalog \/ (c = link.next /\ c <= Len(wal) /\ wal[c] # "rows"),
           Reached(decoder.progress),
           decoder.progress = 0 \/ first <= decoder.progress,
           stage \in {"begun", "told", "filled"} => link.next <= Len(wal),
           stage \in {"begun", "told"} => decoder.pending = <<>>,
           stage = "filled" => decoder.pending = <<link.next>>
    PROVE  FeedInv'
<1>1. /\ TypeOK /\ InOrder /\ Position /\ Streamed /\ Heard /\ Phases /\ Snapshots /\ Published
      /\ Len(wal) \in Nat /\ first \in Nat /\ link.next \in Nat /\ link \in Links
  BY Fields DEF FeedInv, TypeOK
<1>2. /\ UNCHANGED <<wal, confirmed, phase, first, queue, engine, aliases, clients>>
      /\ feed' = decoder
      /\ link' = [link EXCEPT !.stage = stage, !.acked = decoder.progress]
  BY DEF Absorbed
<1>3. /\ link'.up = link.up /\ link'.next = link.next /\ link'.stage = stage
      /\ link'.acked = decoder.progress
  BY <1>1, <1>2 DEF Links
<1>4. Pipe' = Pipe
  BY <1>2, <1>3 DEF Pipe, Sending
<1>5. InOrder' /\ Position' /\ \A l : Reached(l)' <=> Reached(l)
  BY <1>1, <1>2, <1>4, PipeKept
<1>6. Snapshots' /\ Published'
  BY <1>1, <1>2, SideKept
<1>7. /\ phase = "serving" /\ first # 0 /\ first < link.next /\ link.next <= Len(wal) + 1
      /\ Reached(link.next - 1)
  BY <1>1 DEF Streamed, Phases
<1>8. Heard'
  <2>1. ASSUME NEW c \in decoder.catalog
        PROVE  c \in ChangesIn(wal, Len(wal)) /\ Reached(c - 1)
    <3>1. CASE c \in feed.catalog
      BY <1>1, <1>7, <3>1 DEF Heard
    <3>2. CASE c = link.next /\ c <= Len(wal) /\ wal[c] # "rows"
      BY <1>1, <1>7, <3>2 DEF ChangesIn
    <3> QED BY <3>1, <3>2
  <2> QED BY <1>2, <1>5, <2>1 DEF Heard
<1>9. Phases'
  BY <1>1, <1>2, <1>7 DEF Phases
<1>10. Streamed'
  <2>1. Reached(confirmed) /\ first <= confirmed
    BY <1>1, <1>7 DEF Streamed
  <2> QED BY <1>2, <1>3, <1>5, <1>7, <2>1 DEF Streamed
<1> QED BY <1>5, <1>6, <1>8, <1>9, <1>10 DEF FeedInv

\* Steps of the decoder between a transaction's begin and its commit.
LEMMA EventSteps ==
    ASSUME FeedInv, BeginEvent \/ SchemaMessage \/ RowEvent \/ KeepAlive
    PROVE  FeedInv'
<1>1. /\ TypeOK /\ TypeOK' /\ Streamed
      /\ Len(wal) \in Nat /\ first \in Nat /\ link.next \in Nat /\ feed \in Feeds
      /\ feed.progress \in Nat /\ feed.pending \in Seq(Locations)
  BY EventTypes, Fields DEF FeedInv, TypeOK
<1>2. Reached(feed.progress) /\ (feed.progress = 0 \/ first <= feed.progress)
  BY <1>1 DEF Streamed
<1>3. CASE BeginEvent
  <2>1. /\ PendingCleared.catalog = feed.catalog /\ PendingCleared.progress = feed.progress
        /\ PendingCleared.pending = <<>>
    BY <1>1 DEF PendingCleared, Feeds
  <2>2. /\ link.up /\ link.stage = "between" /\ link.next <= Len(wal)
        /\ Absorbed(PendingCleared, "begun")
    BY <1>3 DEF BeginEvent
  <2> QED BY <1>1, <1>2, <2>1, <2>2, AbsorbedKeeps
<1>4. CASE SchemaMessage
  <2>1. /\ link.up /\ link.stage = "begun" /\ wal[link.next] = "schema"
        /\ Absorbed(Grown(link.next), "told")
    BY <1>4 DEF SchemaMessage
  <2>2. link.next <= Len(wal) /\ feed.pending = <<>>
    BY <1>1, <2>1 DEF Streamed
  <2>3. /\ Grown(link.next).progress = feed.progress /\ Grown(link.next).pending = <<>>
        /\ \A c \in Grown(link.next).catalog : c \in feed.catalog \/ c = link.next
    BY <1>1, <2>2 DEF Grown, Feeds
  <2>4. \A c \in Grown(link.next).catalog :
           c \in feed.catalog \/ (c = link.next /\ c <= Len(wal) /\ wal[c] # "rows")
    BY <2>1, <2>2, <2>3
  <2> QED BY <1>1, <1>2, <2>1, <2>2, <2>3, <2>4, AbsorbedKeeps
<1>5. CASE RowEvent
  <2> DEFINE filled == [feed EXCEPT !.pending = Append(@, link.next)]
  <2>1. /\ link.up /\ link.stage \in {"begun", "told"} /\ Absorbed(filled, "filled")
    BY <1>5 DEF RowEvent
  <2>2. link.next <= Len(wal) /\ feed.pending = <<>>
    BY <1>1, <2>1 DEF Streamed
  <2>3. Append(feed.pending, link.next) = <<link.next>>
    BY <2>2
  <2>4. /\ filled.progress = feed.progress /\ filled.pending = <<link.next>>
        /\ filled.catalog = feed.catalog
    BY <1>1, <2>3 DEF Feeds
  <2> HIDE DEF filled
  <2> QED BY <1>1, <1>2, <2>1, <2>2, <2>4, AbsorbedKeeps
<1>6. CASE KeepAlive
  <2> DEFINE told == [feed EXCEPT !.progress = Later(@, DeliveredUpTo)]
  <2>1. link.up /\ link.stage # "sending" /\ Absorbed(told, link.stage)
    BY <1>6 DEF KeepAlive
  <2>2. /\ first < link.next /\ Reached(link.next - 1)
        /\ link.stage \in {"begun", "told", "filled"} => link.next <= Len(wal)
        /\ link.stage \in {"begun", "told"} => feed.pending = <<>>
        /\ link.stage = "filled" => feed.pending = <<link.next>>
    BY <1>1, <2>1 DEF Streamed
  <2>3. /\ told.progress = Later(feed.progress, link.next - 1)
        /\ told.pending = feed.pending /\ told.catalog = feed.catalog
    BY <1>1 DEF Feeds, DeliveredUpTo
  <2>4. Reached(told.progress) /\ first <= told.progress
    BY <1>1, <1>2, <2>2, <2>3 DEF Later
  <2> HIDE DEF told
  <2> QED BY <1>1, <1>2, <2>1, <2>2, <2>3, <2>4, AbsorbedKeeps
<1> QED BY <1>3, <1>4, <1>5, <1>6

\* Before what is sent next lies all that is in the pipe already.
LEMMA ArrivedBefore ==
    ASSUME NEW base, NEW pipe \in Seq(Sent), NEW t \in Sent, NEW l
    PROVE  Arrived(Append(pipe, t), base, Len(pipe) + 1, l) <=> InPipe(pipe, base, l)
<1>1. /\ Len(pipe) \in Nat /\ (Len(pipe) + 1) - 1 = Len(pipe)
      /\ \A i \in 1 .. Len(pipe) : Append(pipe, t)[i] = pipe[i]
  OBVIOUS
<1> QED BY <1>1 DEF Arrived, InPipe

\* A step that lengthens the pipe by a mark or a transaction in order.
LEMMA PipeLengthened ==
    ASSUME TypeOK, InOrder, Position, UNCHANGED <<wal, first, engine>>,
           NEW t \in Sent, Pipe' = Append(Pipe, t),
           IF IsMark(t) THEN GoodMark(first, Append(Pipe, t), Base, Len(Pipe) + 1)
           ELSE GoodTransaction(wal, first, Append(Pipe, t), Base, Len(Pipe) + 1)
    PROVE  InOrder' /\ Position' /\ \A l \in Nat : Reached(l)' <=> Reached(l) \/ l = t.at
<1>1. Pipe \in Seq(Sent) /\ Base \in Nat /\ first \in Nat
  BY Fields, PipeTyped
<1>2. Base' = Base
  BY DEF Base
<1>3. /\ Ordered(wal, first, Append(Pipe, t), Base) /\ Gapless(Append(Pipe, t), Base)
      /\ \A l \in Nat : InPipe(Append(Pipe, t), Base, l) <=> InPipe(Pipe, Base, l) \/ l = t.at
  <2>1. PICK w, start, pipe, base : w = wal /\ start = first /\ pipe = Pipe /\ base = Base
    OBVIOUS
  <2>2. /\ start \in Nat /\ base \in Nat /\ pipe \in Seq(Sent)
        /\ Ordered(w, start, pipe, base) /\ Gapless(pipe, base)
        /\ IF IsMark(t) THEN GoodMark(start, Append(pipe, t), base, Len(pipe) + 1)
           ELSE GoodTransaction(w, start, Append(pipe, t), base, Len(pipe) + 1)
    BY <1>1, <2>1 DEF InOrder
  <2>3. /\ Ordered(w, start, Append(pipe, t), base) /\ Gapless(Append(pipe, t), base)
        /\ \A l \in Nat : InPipe(Append(pipe, t), base, l) <=> InPipe(pipe, base, l) \/ l = t.at
    BY <2>2, OrderedAppends, ZenonT(40)
  <2> QED BY <2>1, <2>3
<1>4. InOrder' /\ Position'
  BY <1>2, <1>3 DEF InOrder, Position
<1>5. ASSUME NEW l \in Nat PROVE Reached(l)' <=> Reached(l) \/ l = t.at
  BY <1>2, <1>3 DEF Reached, InPipe, Arrived
<1> QED BY <1>4, <1>5

\* The commit puts a transaction behind all that is under way.
LEMMA CommitEventStep ==
    ASSUME FeedInv, CommitEvent
    PROVE  FeedInv'
<1> DEFINE at == link.next
           progress == Later(feed.progress, at)
           t == feed'.outgoing
           longer == Append(Pipe, t)
<1>1. /\ TypeOK /\ TypeOK' /\ InOrder /\ Position /\ Streamed /\ Heard /\ Phases
      /\ Snapshots /\ Published
      /\ Len(wal) \in Nat /\ first \in Nat /\ at \in Nat /\ feed.progress \in Nat
      /\ link \in Links /\ feed \in Feeds /\ Pipe \in Seq(Sent) /\ Base \in Nat
      /\ feed.catalog \subseteq 1 .. MaxLsn /\ MaxLsn \in Nat
  BY EventTypes, Fields, PipeTyped DEF FeedInv, TypeOK
<1>2. /\ link.up /\ link.stage = "filled"
      /\ UNCHANGED <<wal, confirmed, phase, first, queue, engine, aliases, clients>>
  BY DEF CommitEvent
<1>3. /\ phase = "serving" /\ first # 0 /\ first < at /\ at <= Len(wal)
      /\ Reached(at - 1) /\ feed.pending = <<at>> /\ Reached(feed.progress)
      /\ Reached(confirmed) /\ first <= confirmed
  BY <1>1, <1>2 DEF Streamed, Phases
<1>4. /\ t.at = at /\ t.progress = progress /\ t.writes = feed.pending
      /\ t.changes = feed.changes
      /\ feed.changes # {} => t.catalog = feed.catalog
      /\ feed'.progress = progress /\ feed'.catalog = feed.catalog
  BY <1>1 DEF CommitEvent, Feeds
<1>5. /\ link'.up /\ link'.stage = "sending" /\ link'.next = at + 1 /\ link'.acked = progress
  BY <1>1, <1>2 DEF CommitEvent, Links
<1>6. t \in Sent
  BY <1>1, Fields DEF TypeOK, Feeds
<1>7. Pipe' = longer
  BY <1>2, <1>5 DEF Pipe, Sending
<1>8. progress \in Nat /\ at <= progress /\ (progress = at \/ progress = feed.progress)
      /\ first <= progress
  BY <1>1, <1>3 DEF Later
<1> HIDE DEF t, progress, longer
<1>9. \A l : Arrived(longer, Base, Len(Pipe) + 1, l) <=> Reached(l)
  BY <1>1, <1>6, ArrivedBefore DEF Reached, longer
<1>10. t.changes # {} /\ ~Reached(at) => t.catalog \subseteq ChangesIn(wal, at)
  <2> SUFFICES ASSUME t.changes # {}, ~Reached(at), NEW c \in feed.catalog
               PROVE  c \in ChangesIn(wal, at)
    BY <1>4
  <2>1. c \in ChangesIn(wal, at)
    <3>1. c \in ChangesIn(wal, Len(wal)) /\ Reached(c - 1) /\ c \in 1 .. MaxLsn
      BY <1>1, <1>3 DEF Heard
    <3>2. ASSUME ~(c <= at) PROVE FALSE
      <4>1. c - 1 \in Nat /\ at \in 0 .. c - 1
        BY <1>1, <3>1, <3>2
      <4> QED BY <1>1, <3>1, <4>1 DEF InOrder, Gapless, Reached
    <3> QED BY <1>1, <3>1, <3>2 DEF ChangesIn
  <2> QED BY <2>1
<1>11. ~IsMark(t) /\ longer[Len(Pipe) + 1] = t
  BY <1>1, <1>3, <1>4, <1>6 DEF IsMark, longer
<1>12. GoodTransaction(wal, first, longer, Base, Len(Pipe) + 1)
  BY <1>1, <1>3, <1>4, <1>8, <1>9, <1>10, <1>11 DEF GoodTransaction
<1>13. InOrder' /\ Position' /\ \A l \in Nat : Reached(l)' <=> Reached(l) \/ l = at
  BY <1>1, <1>2, <1>4, <1>6, <1>7, <1>11, <1>12, PipeLengthened DEF longer
<1>14. Snapshots' /\ Published'
  BY <1>1, <1>2, SideKept
<1>15. Heard'
  <2>1. ASSUME NEW c \in feed.catalog PROVE Reached(c - 1)'
    <3>1. Reached(c - 1) /\ c - 1 \in Nat
      BY <1>1, <1>3 DEF Heard
    <3> QED BY <1>13, <3>1
  <2> QED BY <1>1, <1>2, <1>4, <2>1 DEF Heard
<1>16. Phases'
  BY <1>1, <1>2, <1>3 DEF Phases
<1>17. Streamed'
  <2>1. \A l \in {progress, at, confirmed} : InPipe(Pipe', Base', l)
    <3>1. confirmed \in Nat /\ \A l \in Nat : InPipe(Pipe', Base', l) <=> Reached(l) \/ l = at
      BY <1>1, <1>13, Fields DEF Reached
    <3> QED BY <1>1, <1>3, <1>8, <3>1
  <2>2. link'.next - 1 = at /\ first < link'.next /\ link'.next <= Len(wal) + 1
    BY <1>1, <1>3, <1>5
  <2> QED BY <1>2, <1>3, <1>4, <1>5, <1>8, <2>1, <2>2 DEF Streamed, Reached
<1> QED BY <1>1, <1>13, <1>14, <1>15, <1>16, <1>17 DEF FeedInv

\* What is sent leaves the decoder for the channel: the pipe is the same.
LEMMA SendStep ==
    ASSUME FeedInv, Send
    PROVE  FeedInv'
<1>1. /\ TypeOK /\ TypeOK' /\ InOrder /\ Position /\ Streamed /\ Heard /\ Phases
      /\ Snapshots /\ Published /\ link \in Links /\ feed \in Feeds
  BY EventTypes DEF FeedInv, TypeOK
<1>2. /\ link.up /\ link.stage = "sending" /\ queue' = Append(queue, feed.outgoing)
      /\ UNCHANGED <<wal, confirmed, phase, first, engine, aliases, clients>>
  BY DEF Send
<1>3. /\ feed'.progress = feed.progress /\ feed'.catalog = feed.catalog
      /\ link'.up = link.up /\ link'.next = link.next /\ link'.acked = link.acked
      /\ link'.stage = "between"
  BY <1>1 DEF Send, Feeds, Links
<1>4. Pipe' = Pipe
  BY <1>2, <1>3 DEF Pipe, Sending
<1>5. InOrder' /\ Position' /\ \A l : Reached(l)' <=> Reached(l)
  BY <1>1, <1>2, <1>4, PipeKept
<1>6. Snapshots' /\ Published'
  BY <1>1, <1>2, SideKept
<1>7. phase = "serving" /\ first # 0
  BY <1>1, <1>2 DEF Streamed, Phases
<1>8. Heard' /\ Phases' /\ Streamed'
  BY <1>1, <1>2, <1>3, <1>5, <1>7 DEF Heard, Phases, Streamed
<1> QED BY <1>1, <1>5, <1>6, <1>8 DEF FeedInv

\* A mark of the feed's position goes behind all that made the position.
LEMMA TickStep ==
    ASSUME FeedInv, Tick
    PROVE  FeedInv'
<1> DEFINE t == MarkOf(feed.progress)
           longer == Append(Pipe, t)
<1>1. /\ TypeOK /\ TypeOK' /\ InOrder /\ Position /\ Streamed /\ Heard /\ Phases
      /\ Snapshots /\ Published
      /\ first \in Nat /\ Pipe \in Seq(Sent) /\ Base \in Nat /\ feed.progress \in Locations
      /\ feed.progress \in Nat /\ feed.catalog \subseteq 1 .. MaxLsn /\ MaxLsn \in Nat
  BY EventTypes, Fields, PipeTyped DEF FeedInv, TypeOK, Feeds
<1>2. /\ link.up /\ link.stage # "sending" /\ feed.progress > 0 /\ queue' = Append(queue, t)
      /\ UNCHANGED <<wal, confirmed, phase, first, link, feed, engine, aliases, clients>>
  BY DEF Tick
<1>3. /\ t \in Sent /\ t.at = 0 /\ t.progress = feed.progress /\ t.writes = <<>> /\ t.changes = {}
  BY <1>1, NothingTyped DEF MarkOf, Nothing
<1>4. Pipe' = longer
  BY <1>2 DEF Pipe, Sending
<1> HIDE DEF t, longer
<1>5. \A l : Arrived(longer, Base, Len(Pipe) + 1, l) <=> Reached(l)
  BY <1>1, <1>3, ArrivedBefore DEF Reached, longer
<1>6. IsMark(t) /\ longer[Len(Pipe) + 1] = t
  BY <1>1, <1>3 DEF IsMark, longer
<1>7. Reached(feed.progress) /\ first <= feed.progress
  BY <1>1, <1>2 DEF Streamed
<1>8. GoodMark(first, longer, Base, Len(Pipe) + 1)
  BY <1>3, <1>5, <1>6, <1>7 DEF GoodMark
<1>9. InOrder' /\ Position' /\ \A l \in Nat : Reached(l)' <=> Reached(l) \/ l = 0
  BY <1>1, <1>2, <1>3, <1>4, <1>6, <1>8, PipeLengthened DEF longer
<1>10. Snapshots' /\ Published'
  BY <1>1, <1>2, SideKept
<1>11. phase = "serving" /\ first # 0
  BY <1>1, <1>2 DEF Streamed, Phases
<1>12. Heard'
  <2>1. ASSUME NEW c \in feed.catalog PROVE Reached(c - 1)'
    <3>1. Reached(c - 1) /\ c - 1 \in Nat
      BY <1>1, <1>11 DEF Heard
    <3> QED BY <1>9, <3>1
  <2> QED BY <1>1, <1>2, <2>1 DEF Heard
<1>13. Phases'
  BY <1>1, <1>2, <1>11 DEF Phases
<1>14. Streamed'
  <2>1. /\ confirmed \in Nat /\ link.next - 1 \in Nat /\ link.acked \in Nat
        /\ Reached(confirmed) /\ Reached(link.next - 1) /\ Reached(link.acked)
    <3>1. confirmed \in Nat /\ link.next \in Nat /\ link.acked \in Nat
      BY <1>1, Fields
    <3> QED BY <1>1, <1>2, <1>11, <3>1 DEF Streamed
  <2>2. Reached(confirmed)' /\ Reached(link.next - 1)' /\ Reached(link.acked)'
        /\ Reached(feed.progress)'
    BY <1>1, <1>2, <1>7, <1>9, <2>1
  <2> QED BY <1>1, <1>2, <2>2 DEF Streamed
<1> QED BY <1>1, <1>9, <1>10, <1>12, <1>13, <1>14 DEF FeedInv

\* Steps that mint a snapshot: it is of the log as it stands.
LEMMA MintSteps ==
    ASSUME FeedInv, TypeOK', Mint \/ MintDone
    PROVE  FeedInv'
<1>1. /\ TypeOK /\ InOrder /\ Position /\ Streamed /\ Heard /\ Phases /\ Snapshots /\ Published
      /\ Len(wal) \in Nat /\ first \in Nat /\ aliases \in AliasLists
      /\ aliases.waiting \in Seq(1 .. MaxLsn)
  BY Fields DEF FeedInv, TypeOK
<1>2. UNCHANGED <<wal, confirmed, phase, first, link, feed, queue, engine, clients>>
  BY DEF Mint, MintDone
<1>3. Pipe' = Pipe
  BY <1>2 DEF Pipe, Sending
<1>4. InOrder' /\ Position' /\ \A l : Reached(l)' <=> Reached(l)
  BY <1>1, <1>2, <1>3, PipeKept
<1>5. first # 0 /\ first <= Len(wal)
  BY <1>1 DEF Mint, MintDone, Phases
<1>6. aliases'.current = aliases.current
  BY <1>1 DEF Mint, MintDone, AliasLists
<1>7. Snapshots'
  <2>1. CASE Mint
    <3>1. aliases'.waiting = aliases.waiting /\ aliases'.minting = Len(wal)
      BY <1>1, <2>1 DEF Mint, AliasLists
    <3> QED BY <1>1, <1>2, <1>5, <1>6, <3>1 DEF Snapshots
  <2>2. CASE MintDone
    <3>1. /\ aliases'.waiting = Append(aliases.waiting, aliases.minting) /\ aliases'.minting = 0
          /\ aliases.minting \in first .. Len(wal)
      BY <1>1, <2>2 DEF MintDone, AliasLists, Snapshots
    <3>2. \A i \in 1 .. Len(aliases'.waiting) :
             \/ i \in 1 .. Len(aliases.waiting) /\ aliases'.waiting[i] = aliases.waiting[i]
             \/ aliases'.waiting[i] = aliases.minting
      BY <1>1, <3>1
    <3>3. \A i \in 1 .. Len(aliases'.waiting) : aliases'.waiting[i] \in first .. Len(wal)
      BY <1>1, <3>1, <3>2 DEF Snapshots
    <3> QED BY <1>1, <1>2, <1>6, <3>1, <3>3 DEF Snapshots
  <2> QED BY <2>1, <2>2
<1>8. Published' /\ Heard' /\ Streamed'
  BY <1>1, <1>2, <1>4 DEF Published, CatalogPoint, Heard, Streamed
<1>9. Phases'
  BY <1>1, <1>2, <1>5, <1>6 DEF Phases
<1> QED BY <1>4, <1>7, <1>8, <1>9 DEF FeedInv

\* What the engine takes first is the first of the pipe.
LEMMA PipeFront ==
    ASSUME TypeOK, Take
    PROVE  /\ Pipe # <<>> /\ Head(Pipe) = Head(queue) /\ Pipe' = Tail(Pipe)
           /\ Head(queue) \in Sent
<1>1. /\ queue \in Seq(Sent) /\ queue # <<>> /\ feed.outgoing \in Sent
      /\ queue' = Tail(queue) /\ UNCHANGED <<link, feed>>
  BY Fields DEF Take
<1>2. ASSUME NEW t \in Sent
      PROVE  /\ Append(queue, t) # <<>> /\ Head(Append(queue, t)) = Head(queue)
             /\ Tail(Append(queue, t)) = Append(Tail(queue), t)
  BY <1>1
<1>3. Head(queue) \in Sent
  BY <1>1
<1>4. Pipe' = IF Sending THEN Append(queue', feed.outgoing) ELSE queue'
  BY <1>1 DEF Pipe, Sending
<1> QED BY <1>1, <1>2, <1>3, <1>4 DEF Pipe

\* What taking it does to the engine: nothing for a repeat, a position for a
\* mark of it, and for a transaction the write that follows the last one.
LEMMA Taken ==
    ASSUME FeedInv, Take
    PROVE  LET t == Head(queue) IN
           /\ phase = "serving" /\ first # 0 /\ first <= Base
           /\ InOrder' /\ Position' /\ \A l \in Nat : Reached(l)' <=> Reached(l)
           /\ \/ UNCHANGED <<engine, aliases, clients>>
              \/ /\ Apply(t) /\ t.changes = {}
                 /\ engine'.position = Base /\ engine'.routed = engine.routed
              \/ /\ Apply(t)
                 /\ t.at = Base + 1 /\ t.at <= Len(wal)
                 /\ t.changes # {} => t.catalog \subseteq ChangesIn(wal, t.at)
                 /\ engine'.position = Base + 1
                 /\ engine'.routed = Append(engine.routed, Base + 1)
<1> DEFINE t == Head(queue)
           new == BaseAfter(t, Base)
<1>1. /\ TypeOK /\ InOrder /\ Position /\ Phases
      /\ first \in Nat /\ Len(wal) \in Nat
      /\ engine.position \in Nat /\ engine.routed \in Seq(Locations)
      /\ Pipe \in Seq(Sent) /\ Base \in Nat /\ first <= Base
  BY Fields, PipeTyped DEF FeedInv
<1>2. /\ Pipe # <<>> /\ Head(Pipe) = t /\ Pipe' = Tail(Pipe) /\ t \in Sent
  BY <1>1, PipeFront
<1>3. t.at \in Nat /\ t.progress \in Nat
  BY <1>2, SentFields
<1>4. /\ queue # <<>> /\ UNCHANGED <<wal, phase, first>>
      /\ Repeats(t) => UNCHANGED <<engine, aliases, clients>>
      /\ ~Repeats(t) => Apply(t)
  BY DEF Take
<1> HIDE DEF t, new
<1>5. phase = "serving" /\ first # 0
  BY <1>1, <1>4 DEF Phases
<1>6. /\ FirstInOrder(wal, first, t, Base) /\ new \in Nat
      /\ Ordered(wal, first, Tail(Pipe), new) /\ Gapless(Tail(Pipe), new)
      /\ \A l \in Nat : InPipe(Tail(Pipe), new, l) <=> InPipe(Pipe, Base, l)
  <2>1. /\ FirstInOrder(wal, first, Head(Pipe), Base)
        /\ BaseAfter(Head(Pipe), Base) \in Nat
        /\ Ordered(wal, first, Tail(Pipe), BaseAfter(Head(Pipe), Base))
        /\ Gapless(Tail(Pipe), BaseAfter(Head(Pipe), Base))
        /\ \A l \in Nat :
              InPipe(Tail(Pipe), BaseAfter(Head(Pipe), Base), l) <=> InPipe(Pipe, Base, l)
    BY <1>1, <1>2, OrderedTakes DEF InOrder
  <2> QED BY <1>2, <2>1 DEF new
<1>7. engine.position = Base \/ (engine.position = 0 /\ engine.routed = <<>> /\ Base = first)
  BY <1>1 DEF Position, Base
<1>8. Repeats(t) <=> ~IsMark(t) /\ t.at <= Base
  BY <1>1, <1>3, <1>5, <1>6, <1>7 DEF Repeats, FirstInOrder
<1>9. ~Repeats(t) => /\ engine'.position = Later(engine.position, t.progress)
                     /\ engine'.routed = engine.routed \o t.writes
  <2> SUFFICES ASSUME ~Repeats(t)
               PROVE  /\ engine'.position = Later(engine.position, t.progress)
                      /\ engine'.routed = engine.routed \o t.writes
    OBVIOUS
  <2>1. Apply(t)
    BY <1>4
  <2>2. engine' = [position |-> Later(engine.position, t.progress),
                   layout |-> engine.layout \cup t.changes,
                   routed |-> engine.routed \o t.writes]
    BY <2>1, Zenon DEF Apply
  <2> QED BY <2>2
<1>10. CASE Repeats(t)
  <2>1. UNCHANGED engine /\ Base' = Base /\ new = Base
    BY <1>4, <1>8, <1>10 DEF Base, BaseAfter, new
  <2>2. InOrder' /\ Position'
    BY <1>1, <1>2, <1>4, <1>6, <2>1 DEF InOrder, Position
  <2>3. \A l \in Nat : Reached(l)' <=> Reached(l)
    BY <1>2, <1>6, <2>1 DEF Reached, InPipe, Arrived
  <2> QED BY <1>1, <1>4, <1>5, <1>10, <2>2, <2>3
<1>11. CASE IsMark(t)
  <2>1. ~Repeats(t) /\ new = Base
    BY <1>8, <1>11 DEF BaseAfter, new
  <2>2. engine'.routed = engine.routed
    <3>1. engine.routed \o <<>> = engine.routed
      BY <1>1
    <3> QED BY <1>6, <1>9, <1>11, <2>1, <3>1 DEF FirstInOrder
  <2>3. engine'.position = Base
    BY <1>1, <1>3, <1>6, <1>7, <1>9, <1>11, <2>1 DEF Later, FirstInOrder
  <2>4. Base' = Base
    BY <1>4, <2>2 DEF Base
  <2>5. InOrder' /\ Position'
    BY <1>1, <1>2, <1>4, <1>5, <1>6, <2>1, <2>2, <2>3, <2>4 DEF InOrder, Position
  <2>6. \A l \in Nat : Reached(l)' <=> Reached(l)
    BY <1>2, <1>6, <2>1, <2>4 DEF Reached, InPipe, Arrived
  <2> QED BY <1>1, <1>4, <1>5, <1>6, <1>11, <2>1, <2>2, <2>3, <2>5, <2>6 DEF t, FirstInOrder
<1>12. CASE ~IsMark(t) /\ ~(t.at <= Base)
  <2>1. /\ ~Repeats(t) /\ new = t.at /\ t.at = Base + 1 /\ t.progress = t.at
        /\ t.writes = <<t.at>> /\ t.at <= Len(wal)
        /\ t.changes # {} => t.catalog \subseteq ChangesIn(wal, t.at)
    BY <1>6, <1>8, <1>12 DEF FirstInOrder, BaseAfter, new
  <2>2. /\ engine'.routed = Append(engine.routed, Base + 1)
        /\ Len(engine'.routed) = Len(engine.routed) + 1
    BY <1>1, <1>9, <2>1
  <2>3. engine'.position = Base + 1
    BY <1>1, <1>3, <1>7, <1>9, <2>1 DEF Later
  <2>4. Base' = new
    BY <1>1, <1>4, <2>1, <2>2 DEF Base
  <2>5. InOrder' /\ Position'
    <3>1. Base' = Base + 1 /\ Base' <= Len(wal) /\ engine'.position # 0
      BY <1>1, <2>1, <2>3, <2>4
    <3> QED BY <1>2, <1>4, <1>6, <2>1, <2>3, <2>4, <3>1 DEF InOrder, Position
  <2>6. \A l \in Nat : Reached(l)' <=> Reached(l)
    BY <1>2, <1>6, <2>4 DEF Reached, InPipe, Arrived
  <2> QED BY <1>1, <1>4, <1>5, <2>1, <2>2, <2>3, <2>5, <2>6 DEF t
<1> QED BY <1>8, <1>10, <1>11, <1>12

\* What follows a list of catalogs: each was in it, or is the transaction's own.
LEMMA FollowedElements ==
    ASSUME NEW catalogs \in Handed, NEW t, NEW i \in 1 .. Len(Followed(catalogs, t))
    PROVE  \/ i \in 1 .. Len(catalogs) /\ Followed(catalogs, t)[i] = catalogs[i]
           \/ /\ t.changes # {}
              /\ Followed(catalogs, t)[i] = [at |-> t.at, catalog |-> t.catalog]
<1> DEFINE e == [at |-> t.at, catalog |-> t.catalog]
<1>1. Len(catalogs) \in Nat /\ catalogs \in Seq([at : Locations, catalog : Catalogs])
  BY DEF Handed
<1> HIDE DEF e
<1>2. CASE t.changes = {}
  BY <1>2 DEF Followed
<1>3. CASE t.changes # {}
  <2>1. Followed(catalogs, t) = Append(catalogs, e)
    BY <1>3 DEF Followed, e
  <2>2. \A k \in 1 .. Len(Append(catalogs, e)) :
           \/ k \in 1 .. Len(catalogs) /\ Append(catalogs, e)[k] = catalogs[k]
           \/ Append(catalogs, e)[k] = e
    BY <1>1
  <2> QED BY <1>3, <2>1, <2>2 DEF e
<1> QED BY <1>2, <1>3

\* Its snapshots and catalogs stay those of what was committed by then.
LEMMA AppliedSides ==
    ASSUME FeedInv, NEW t \in Sent, Apply(t), UNCHANGED <<wal, first>>, first # 0,
           t.changes # {} => /\ t.at \in 1 .. Len(wal)
                             /\ t.catalog \subseteq ChangesIn(wal, t.at)
    PROVE  Snapshots' /\ Published'
<1> DEFINE ready == [aliases EXCEPT !.upcoming = Followed(@, t), !.rung = @ \/ t.changes # {}]
           side == [clients EXCEPT !.pending = Followed(@, t)]
           floor == Later(clients.floor, aliases'.current)
<1>1. /\ TypeOK /\ Snapshots /\ Published /\ first \in Nat /\ Len(wal) \in Nat
      /\ aliases \in AliasLists /\ clients \in Sides
      /\ aliases.upcoming \in Handed /\ clients.pending \in Handed
      /\ aliases.current \in Nat /\ clients.floor \in Nat /\ first <= Len(wal)
      /\ clients.floor \in Locations
  BY Fields DEF FeedInv, TypeOK, Phases, Sides
<1>2. ready \in AliasLists /\ side \in Sides
  <2>1. /\ Followed(aliases.upcoming, t) \in Handed /\ Followed(clients.pending, t) \in Handed
        /\ (aliases.rung \/ t.changes # {}) \in BOOLEAN
    BY <1>1, FollowedTyped DEF AliasLists
  <2> QED BY <1>1, <2>1 DEF AliasLists, Sides
<1>3. /\ ready.current = aliases.current /\ ready.waiting = aliases.waiting
      /\ ready.minting = aliases.minting
      /\ side.catalog = clients.catalog /\ side.pending = Followed(clients.pending, t)
  BY <1>1 DEF AliasLists, Sides
<1>4. aliases' = Advanced(ready, engine'.position) /\ clients' = Adopted(side, floor)
  BY DEF Apply
<1> HIDE DEF ready, side
<1>5. /\ aliases' \in AliasLists /\ aliases'.minting = aliases.minting
      /\ \/ aliases'.current = aliases.current
         \/ \E j \in 1 .. Len(aliases.waiting) : aliases'.current = aliases.waiting[j]
      /\ \A i \in 1 .. Len(aliases'.waiting) :
            \E j \in 1 .. Len(aliases.waiting) : aliases'.waiting[i] = aliases.waiting[j]
  <2> DEFINE a == Advanced(ready, engine'.position)
  <2>1. /\ a \in AliasLists /\ a.minting = ready.minting
        /\ \/ a.current = ready.current
           \/ \E j \in 1 .. Len(ready.waiting) : a.current = ready.waiting[j]
        /\ \A i \in 1 .. Len(a.waiting) :
              \E j \in 1 .. Len(ready.waiting) : a.waiting[i] = ready.waiting[j]
    BY <1>2, AdvancedKeeps
  <2>2. aliases' = a
    BY <1>4
  <2> HIDE DEF a
  <2> QED BY <1>3, <2>1, <2>2
<1>6. /\ aliases'.current \in Nat /\ aliases'.current \in Locations
      /\ aliases'.current # 0 => aliases'.current \in first .. Len(wal)
  <2>1. aliases'.current \in Locations /\ aliases'.current \in Nat
    BY <1>5, ConstantsAssumption DEF AliasLists, Locations
  <2> QED BY <1>1, <1>5, <2>1 DEF Snapshots
<1>7. /\ floor \in Nat /\ floor \in Locations /\ clients.floor <= floor
      /\ floor # 0 => floor \in first .. Len(wal)
  BY <1>1, <1>6 DEF Later, Snapshots
<1> HIDE DEF floor
<1>8. /\ clients' \in Sides /\ clients'.floor = floor
      /\ \/ clients'.catalog = side.catalog
         \/ \E j \in 1 .. Len(side.pending) :
               clients'.catalog = side.pending[j].catalog /\ side.pending[j].at <= floor
      /\ \A i \in 1 .. Len(clients'.pending) :
            \E j \in 1 .. Len(side.pending) : clients'.pending[i] = side.pending[j]
  BY <1>2, <1>4, <1>7, AdoptedKeeps, ZenonT(40)
<1>9. Snapshots'
  <2>1. \A i \in 1 .. Len(aliases'.waiting) : aliases'.waiting[i] \in first .. Len(wal)
    BY <1>1, <1>5 DEF Snapshots
  <2> QED BY <1>1, <1>5, <1>6, <1>7, <1>8, <2>1 DEF Snapshots
<1>10. ASSUME NEW j \in 1 .. Len(side.pending)
       PROVE  /\ side.pending[j].at \in 1 .. Len(wal)
              /\ side.pending[j].catalog \subseteq ChangesIn(wal, side.pending[j].at)
  <2>1. \/ j \in 1 .. Len(clients.pending) /\ side.pending[j] = clients.pending[j]
        \/ t.changes # {} /\ side.pending[j] = [at |-> t.at, catalog |-> t.catalog]
    BY <1>1, <1>3, FollowedElements
  <2>2. CASE j \in 1 .. Len(clients.pending) /\ side.pending[j] = clients.pending[j]
    BY <1>1, <2>2 DEF Published
  <2>3. CASE t.changes # {} /\ side.pending[j] = [at |-> t.at, catalog |-> t.catalog]
    BY <2>3
  <2> QED BY <2>1, <2>2, <2>3
<1>11. \A a, b \in Nat : a <= b => ChangesIn(wal, a) \subseteq ChangesIn(wal, b)
  BY DEF ChangesIn
<1>12. clients'.catalog \subseteq ChangesIn(wal, CatalogPoint')
  <2>1. CASE clients'.catalog = clients.catalog
    <3>1. CatalogPoint \in Nat /\ CatalogPoint' \in Nat /\ CatalogPoint <= CatalogPoint'
      BY <1>1, <1>7, <1>8 DEF CatalogPoint
    <3>2. clients.catalog \subseteq ChangesIn(wal, CatalogPoint)
      BY <1>1 DEF Published
    <3> QED BY <1>11, <2>1, <3>1, <3>2
  <2>2. CASE \E j \in 1 .. Len(side.pending) :
                clients'.catalog = side.pending[j].catalog /\ side.pending[j].at <= floor
    <3>1. PICK j \in 1 .. Len(side.pending) :
                  clients'.catalog = side.pending[j].catalog /\ side.pending[j].at <= floor
      BY <2>2
    <3>2. /\ side.pending[j].at \in 1 .. Len(wal)
          /\ clients'.catalog \subseteq ChangesIn(wal, side.pending[j].at)
      BY <1>10, <3>1
    <3>3. CatalogPoint' = floor
      BY <1>1, <1>7, <1>8, <3>1, <3>2 DEF CatalogPoint
    <3> QED BY <1>1, <1>7, <1>11, <3>1, <3>2, <3>3
  <2> QED BY <1>3, <1>8, <2>1, <2>2
<1>13. Published'
  <2>1. ASSUME NEW i \in 1 .. Len(clients'.pending)
        PROVE  /\ clients'.pending[i].at \in 1 .. Len(wal)
               /\ clients'.pending[i].catalog \subseteq ChangesIn(wal, clients'.pending[i].at)
    BY <1>8, <1>10
  <2> QED BY <1>12, <2>1 DEF Published
<1> QED BY <1>9, <1>13

LEMMA TakeStep ==
    ASSUME FeedInv, TypeOK', Take
    PROVE  FeedInv'
<1> DEFINE t == Head(queue)
<1>1. /\ TypeOK /\ Streamed /\ Heard /\ Phases /\ Snapshots /\ Published
      /\ feed.catalog \subseteq 1 .. MaxLsn /\ MaxLsn \in Nat
      /\ Len(wal) \in Nat /\ Base \in Nat
  BY Fields, PipeTyped DEF FeedInv
<1>2. /\ phase = "serving" /\ first # 0
      /\ InOrder' /\ Position' /\ \A l \in Nat : Reached(l)' <=> Reached(l)
      /\ \/ UNCHANGED <<engine, aliases, clients>>
         \/ /\ Apply(t)
            /\ t.changes # {} => /\ t.at \in 1 .. Len(wal)
                                 /\ t.catalog \subseteq ChangesIn(wal, t.at)
  BY <1>1, Taken
<1>3. t \in Sent
  BY <1>1, PipeFront
<1>4. UNCHANGED <<wal, confirmed, phase, first, link, feed>>
  BY DEF Take
<1> HIDE DEF t
<1>5. Snapshots' /\ Published'
  BY <1>1, <1>2, <1>3, <1>4, SideKept, AppliedSides
<1>6. Phases'
  BY <1>1, <1>2, <1>4 DEF Phases
<1>7. Heard'
  <2>1. ASSUME NEW c \in feed.catalog PROVE Reached(c - 1)'
    <3>1. Reached(c - 1) /\ c - 1 \in Nat
      BY <1>1, <1>2 DEF Heard
    <3> QED BY <1>2, <3>1
  <2> QED BY <1>1, <1>4, <2>1 DEF Heard
<1>8. Streamed'
  <2>1. /\ feed.progress \in Nat /\ confirmed \in Nat /\ link.next \in Nat /\ link.acked \in Nat
        /\ first \in Nat
    BY <1>1, Fields
  <2>2. /\ Reached(feed.progress)' <=> Reached(feed.progress)
        /\ Reached(confirmed)' <=> Reached(confirmed)
        /\ Reached(link.acked)' <=> Reached(link.acked)
    BY <1>2, <1>4, <2>1
  <2>3. link.up => (Reached(link.next - 1)' <=> Reached(link.next - 1))
    <3>1. ASSUME link.up PROVE link.next - 1 \in Nat
      BY <1>1, <2>1, <3>1 DEF Streamed
    <3> QED BY <1>2, <1>4, <3>1
  <2> QED BY <1>1, <1>4, <2>2, <2>3 DEF Streamed
<1> QED BY <1>2, <1>5, <1>6, <1>7, <1>8 DEF FeedInv

\* Every step keeps the invariant.
LEMMA StepKeeps == FeedInv /\ [Next]_vars => FeedInv'
<1> SUFFICES ASSUME FeedInv, [Next]_vars PROVE FeedInv'
  OBVIOUS
<1>1. TypeOK
  BY DEF FeedInv
<1>2. CASE DbCommit
  BY <1>1, <1>2, StartTypes, CommitStep
<1>3. CASE LoadCatalog \/ Prepare \/ MintFirst
  BY <1>1, <1>3, StartTypes, QuietSteps
<1>4. CASE Crash \/ ForeignMessage
  BY <1>1, <1>4, LinkTypes, QuietSteps
<1>5. CASE OpenFirst
  BY <1>1, <1>5, StartTypes, LinkSteps
<1>6. CASE Lose \/ Reopen \/ Confirm
  BY <1>1, <1>6, LinkTypes, LinkSteps
<1>7. CASE BeginEvent \/ SchemaMessage \/ RowEvent \/ KeepAlive
  BY <1>7, EventSteps
<1>8. CASE CommitEvent
  BY <1>8, CommitEventStep
<1>9. CASE Send
  BY <1>9, SendStep
<1>10. CASE Tick
  BY <1>10, TickStep
<1>11. CASE Mint \/ MintDone
  BY <1>1, <1>11, ServiceTypes, MintSteps
<1>12. CASE Take
  BY <1>1, <1>12, ServiceTypes, TakeStep
<1>13. CASE UNCHANGED vars
  <2>1. UNCHANGED <<wal, confirmed, phase, first, link, feed, queue, engine, aliases, clients,
                    accidents>>
    BY <1>13 DEF vars, process
  <2>2. Pipe' = Pipe
    BY <2>1 DEF Pipe, Sending
  <2>3. InOrder' /\ Position' /\ \A l : Reached(l)' <=> Reached(l)
    BY <2>1, <2>2, PipeKept DEF FeedInv
  <2>4. TypeOK' /\ Heard' /\ Phases' /\ Snapshots' /\ Published'
    BY <2>1, <2>3
    DEF FeedInv, TypeOK, Heard, Phases, Snapshots, Published, CatalogPoint
  <2>5. Streamed'
    BY <2>1, <2>3 DEF FeedInv, Streamed
  <2> QED BY <2>3, <2>4, <2>5 DEF FeedInv
<1> QED BY <1>2, <1>3, <1>4, <1>5, <1>6, <1>7, <1>8, <1>9, <1>10, <1>11, <1>12, <1>13 DEF Next

\* The invariant holds always.
LEMMA FeedInvariant == Spec => []FeedInv
<1> QED BY InitInv, StepKeeps, PTL DEF Spec

\* The feed, the engine and the clients' side keep their types and bounds.
THEOREM TypesKept == Spec => []TypeOK
<1>1. FeedInv => TypeOK
  BY DEF FeedInv
<1> QED BY <1>1, FeedInvariant, PTL

\* No client is shown a catalog with a change that the snapshot behind it lacks
\* (Service::adopt), whatever is lost, repeated or started over.
THEOREM CatalogsMeetSnapshots == Spec => []ClientsMeetTheChange
<1>1. FeedInv => ClientsMeetTheChange
  <2> SUFFICES ASSUME FeedInv, clients.floor # 0
               PROVE  clients.catalog \subseteq CatalogAt(clients.floor)
    BY DEF ClientsMeetTheChange
  <2>1. phase = "serving" /\ first # 0
    BY DEF FeedInv, Phases
  <2>2. CatalogPoint = clients.floor
    BY <2>1 DEF CatalogPoint
  <2> QED BY <2>2 DEF FeedInv, Published, CatalogAt, ChangesIn
<1> QED BY <1>1, FeedInvariant, PTL

\* The slot is never told to forget a commit that is neither routed nor under
\* way to the engine (what stream_with_shutdown acknowledges after each event).
ConfirmedArrived == phase = "serving" => \A l \in 0 .. confirmed : Reached(l)

THEOREM SlotKeepsWhatIsOwed == Spec => []ConfirmedArrived
<1>1. FeedInv => ConfirmedArrived
  <2> SUFFICES ASSUME FeedInv, phase = "serving", NEW l \in 0 .. confirmed
               PROVE  Reached(l)
    BY DEF ConfirmedArrived
  <2>1. Reached(confirmed) /\ Gapless(Pipe, Base) /\ confirmed \in Nat
    BY Fields DEF FeedInv, Streamed, InOrder
  <2> QED BY <2>1 DEF Gapless, Reached
<1> QED BY <1>1, FeedInvariant, PTL

-----------------------------------------------------------------------------
(* The refinement                                                           *)

LEMMA InitDelivers == Init => Contract!Init
<1> SUFFICES ASSUME Init PROVE Contract!Init
  OBVIOUS
<1>1. Len(wal) = 1 /\ first = 0 /\ engine.position = 0 /\ engine.routed = <<>>
  BY DEF Init, NewEngine
<1> QED BY <1>1 DEF Contract!Init

LEMMA StepDelivers == FeedInv /\ [Next]_vars => [Contract!Next]_(Contract!vars)
<1> SUFFICES ASSUME FeedInv, [Next]_vars PROVE [Contract!Next]_(Contract!vars)
  OBVIOUS
<1>1. /\ TypeOK /\ Position /\ Phases /\ wal \in Seq(Kinds \cup {"rows"}) /\ Len(wal) \in Nat
      /\ 1 <= Len(wal) /\ first \in Nat /\ Base \in Nat /\ engine.position \in Nat
  BY Fields, PipeTyped DEF FeedInv
<1>2. ASSUME UNCHANGED <<wal, first, engine>> PROVE UNCHANGED Contract!vars
  BY <1>2 DEF Contract!vars
<1>3. CASE DbCommit
  <2>1. Len(wal') = Len(wal) + 1 /\ UNCHANGED <<first, engine>>
    BY <1>1, <1>3 DEF DbCommit, process
  <2> QED BY <2>1 DEF Contract!Next, Contract!Grow
<1>4. CASE LoadCatalog
  <2>1. /\ engine.position = 0 /\ engine.routed = <<>>
        /\ engine'.position = 0 /\ engine'.routed = <<>> /\ UNCHANGED <<wal, first>>
    BY <1>1, <1>4 DEF LoadCatalog, NewEngine, Phases
  <2> QED BY <2>1 DEF Contract!vars
<1>5. CASE MintFirst
  <2>1. first = 0 /\ first' = Len(wal) /\ UNCHANGED <<wal, engine>>
    BY <1>1, <1>5 DEF MintFirst, Phases
  <2> QED BY <1>1, <2>1 DEF Contract!Next, Contract!Begin
<1>6. CASE Crash \/ ForeignMessage
  <2>1. first' = 0 /\ engine'.position = 0 /\ engine'.routed = <<>> /\ UNCHANGED wal
    BY <1>6 DEF Crash, ForeignMessage, Stop, NewEngine
  <2> QED BY <2>1 DEF Contract!Next, Contract!End
<1>7. CASE Take
  <2>1. UNCHANGED <<wal, first>>
    BY <1>7 DEF Take
  <2>2. /\ first # 0
        /\ \/ UNCHANGED engine
           \/ engine'.position = Base /\ engine'.routed = engine.routed
           \/ /\ Base + 1 <= Len(wal) /\ engine'.position = Base + 1
              /\ engine'.routed = Append(engine.routed, Base + 1)
    BY <1>7, Taken
  <2>3. CASE UNCHANGED engine
    BY <1>2, <2>1, <2>3
  <2>4. CASE engine'.position = Base /\ engine'.routed = engine.routed
    <3>1. CASE engine.position = Base
      BY <2>1, <2>4, <3>1 DEF Contract!vars
    <3>2. CASE engine.position = 0
      <4>1. Base = first
        BY <1>1, <3>2 DEF Position, Base
      <4> QED BY <2>1, <2>2, <2>4, <3>2, <4>1 DEF Contract!Next, Contract!Mark
    <3> QED BY <1>1, <3>1, <3>2 DEF Position
  <2>5. CASE /\ Base + 1 <= Len(wal) /\ engine'.position = Base + 1
             /\ engine'.routed = Append(engine.routed, Base + 1)
    BY <2>1, <2>2, <2>5 DEF Contract!Next, Contract!Deliver, Base
  <2> QED BY <2>2, <2>3, <2>4, <2>5
<1>8. CASE \/ Prepare \/ OpenFirst \/ Lose \/ Reopen \/ Confirm
           \/ BeginEvent \/ SchemaMessage \/ RowEvent \/ CommitEvent
           \/ Send \/ KeepAlive \/ Tick \/ Mint \/ MintDone \/ UNCHANGED vars
  <2>1. UNCHANGED <<wal, first, engine>>
    BY <1>8
    DEF Prepare, OpenFirst, Lose, Reopen, Confirm, BeginEvent, SchemaMessage, RowEvent,
        CommitEvent, Send, KeepAlive, Tick, Mint, MintDone, Absorbed, process, vars
  <2> QED BY <1>2, <2>1
<1> QED BY <1>3, <1>4, <1>5, <1>6, <1>7, <1>8 DEF Next

\* Whatever connections, slots and redeliveries do, every commit after the first
\* snapshot is routed once, in order, and the engine is never told of a position
\* whose writes it has not been sent.
THEOREM FeedDelivers == Spec => ImplementsDelivery
<1> QED BY InitDelivers, StepDelivers, FeedInvariant, PTL
        DEF Spec, ImplementsDelivery, Contract!Spec

=============================================================================
