---------------------- MODULE ClientGroupsLedgerProofs ----------------------
(***************************************************************************)
(* Proofs about what ClientGroups shows: a tab's rows are the table's as   *)
(* of one commit, with the whole answer of each query it has got; a tab to *)
(* which nothing is on the way has all of it.                              *)
(*                                                                         *)
(* ClientGroupsProofs has how pokes continue each other, who has which     *)
(* subscription and where in the feed the thread is.  Here come the ledger *)
(* at that point of the feed, and the stores a tab with a cookie may have. *)
(***************************************************************************)
EXTENDS ClientGroupsProofs

-----------------------------------------------------------------------------
(* Deltas kept and accounted, one by one *)

OneKept(g, kept, delta) == IF delta.subs \cap Subs(g) = {} THEN kept ELSE Append(kept, delta)
KeptTo(g, d, n, f) == f = [i \in 0 .. n |-> IF i = 0 THEN <<>> ELSE OneKept(g, f[i - 1], d[i])]

Books(g) == [rows |-> g.rows, queued |-> g.queued.rows]
OneBooked(g, books, delta) == Account(books, delta, delta.subs \cap Subs(g))
BooksTo(g, d, n, f) ==
    f = [i \in 0 .. n |-> IF i = 0 THEN Books(g) ELSE OneBooked(g, f[i - 1], d[i])]

LEMMA KeptExists == ASSUME NEW g, NEW d, NEW n \in Nat PROVE \E f : KeptTo(g, d, n, f)
<1> DEFINE T == {m \in Nat : ~ \E f : KeptTo(g, d, m, f)}
<1>1. SUFFICES ASSUME T # {} PROVE FALSE
  OBVIOUS
<1>2. PICK m \in T : \A k \in T : m <= k
  BY <1>1, LeastNat
<1>3. m # 0
  <2>1. KeptTo(g, d, 0, [i \in 0 .. 0 |-> <<>>])
    BY DEF KeptTo
  <2> QED BY <2>1
<1>4. m - 1 \in Nat /\ m - 1 \notin T
  BY <1>2, <1>3
<1>5. PICK f : KeptTo(g, d, m - 1, f)
  BY <1>4
<1> DEFINE h == [i \in 0 .. m |-> IF i < m THEN f[i] ELSE OneKept(g, f[m - 1], d[m])]
<1>6. \A i \in 0 .. m : h[i] = IF i = 0 THEN <<>> ELSE OneKept(g, h[i - 1], d[i])
  <2> SUFFICES ASSUME NEW i \in 0 .. m
               PROVE  h[i] = IF i = 0 THEN <<>> ELSE OneKept(g, h[i - 1], d[i])
    OBVIOUS
  <2>1. CASE i < m
    <3>1. h[i] = f[i] /\ i \in 0 .. m - 1 /\ (i # 0 => h[i - 1] = f[i - 1])
      BY <1>3, <1>4, <2>1
    <3> HIDE DEF h
    <3> QED BY <1>5, <3>1 DEF KeptTo
  <2>2. CASE i = m
    <3>1. h[i] = OneKept(g, f[m - 1], d[m]) /\ h[m - 1] = f[m - 1]
      BY <1>3, <1>4, <2>2
    <3> QED BY <1>3, <2>2, <3>1
  <2> QED BY <1>4, <2>1, <2>2
<1>7. h = [i \in 0 .. m |-> h[i]]
  OBVIOUS
<1> HIDE DEF h
<1>8. KeptTo(g, d, m, h)
  BY <1>6, <1>7, Zenon DEF KeptTo
<1> QED BY <1>2, <1>8

LEMMA BooksExist == ASSUME NEW g, NEW d, NEW n \in Nat PROVE \E f : BooksTo(g, d, n, f)
<1> DEFINE T == {m \in Nat : ~ \E f : BooksTo(g, d, m, f)}
<1>1. SUFFICES ASSUME T # {} PROVE FALSE
  OBVIOUS
<1>2. PICK m \in T : \A k \in T : m <= k
  BY <1>1, LeastNat
<1>3. m # 0
  <2>1. BooksTo(g, d, 0, [i \in 0 .. 0 |-> Books(g)])
    BY DEF BooksTo
  <2> QED BY <2>1
<1>4. m - 1 \in Nat /\ m - 1 \notin T
  BY <1>2, <1>3
<1>5. PICK f : BooksTo(g, d, m - 1, f)
  BY <1>4
<1> DEFINE h == [i \in 0 .. m |-> IF i < m THEN f[i] ELSE OneBooked(g, f[m - 1], d[m])]
<1>6. \A i \in 0 .. m : h[i] = IF i = 0 THEN Books(g) ELSE OneBooked(g, h[i - 1], d[i])
  <2> SUFFICES ASSUME NEW i \in 0 .. m
               PROVE  h[i] = IF i = 0 THEN Books(g) ELSE OneBooked(g, h[i - 1], d[i])
    OBVIOUS
  <2>1. CASE i < m
    <3>1. h[i] = f[i] /\ i \in 0 .. m - 1 /\ (i # 0 => h[i - 1] = f[i - 1])
      BY <1>3, <1>4, <2>1
    <3> HIDE DEF h
    <3> QED BY <1>5, <3>1 DEF BooksTo
  <2>2. CASE i = m
    <3>1. h[i] = OneBooked(g, f[m - 1], d[m]) /\ h[m - 1] = f[m - 1]
      BY <1>3, <1>4, <2>2
    <3> QED BY <1>3, <2>2, <3>1
  <2> QED BY <1>4, <2>1, <2>2
<1>7. h = [i \in 0 .. m |-> h[i]]
  OBVIOUS
<1> HIDE DEF h
<1>8. BooksTo(g, d, m, h)
  BY <1>6, <1>7, Zenon DEF BooksTo
<1> QED BY <1>2, <1>8

LEMMA OursIs ==
    ASSUME NEW g, NEW d, IsSeq(d)
    PROVE  \E f : /\ f[0] = <<>> /\ Ours(g, d) = f[Len(d)]
                  /\ \A i \in 1 .. Len(d) : f[i] = OneKept(g, f[i - 1], d[i])
<1>1. Len(d) \in Nat
  BY SeqParts
<1> DEFINE f == CHOOSE f : KeptTo(g, d, Len(d), f)
<1>2. KeptTo(g, d, Len(d), f)
  BY <1>1, KeptExists
<1>3. Ours(g, d) = f[Len(d)]
  BY Zenon DEF Ours, KeptTo, OneKept
<1> HIDE DEF f
<1>4. f[0] = <<>> /\ \A i \in 1 .. Len(d) : f[i] = OneKept(g, f[i - 1], d[i])
  BY <1>1, <1>2 DEF KeptTo
<1> QED BY <1>3, <1>4

LEMMA AccountedIs ==
    ASSUME NEW g, Queues(g), NEW d, IsSeq(d)
    PROVE  \E f : /\ f[0] = Books(g)
                  /\ \A i \in 1 .. Len(d) : f[i] = OneBooked(g, f[i - 1], d[i])
                  /\ Accounted(g, d).rows = f[Len(d)].rows
                  /\ Accounted(g, d).queued.rows = f[Len(d)].queued
<1>1. Len(d) \in Nat
  BY SeqParts
<1> DEFINE f == CHOOSE f : BooksTo(g, d, Len(d), f)
<1>2. BooksTo(g, d, Len(d), f)
  BY <1>1, BooksExist
<1>3. Accounted(g, d) = Ledgered(g, f[Len(d)].rows, f[Len(d)].queued)
  BY Zenon DEF Accounted, BooksTo, OneBooked, Books, Ledgered
<1> HIDE DEF f
<1>4. f[0] = Books(g) /\ \A i \in 1 .. Len(d) : f[i] = OneBooked(g, f[i - 1], d[i])
  BY <1>1, <1>2 DEF BooksTo
<1> QED BY <1>3, <1>4, LedgeredOnly

-----------------------------------------------------------------------------
(* Deltas as a subscription sees them *)

DeltasFor(d, k, s) == {i \in Nat : d[i].key = k /\ s \in d[i].subs}

\* What a subscription shows of a row after the first n deltas, v being what it
\* showed before.
Seen(v, d, n, k, s) ==
    IF LatestOf(DeltasFor(d, k, s), n) = {} THEN v
    ELSE d[Max(LatestOf(DeltasFor(d, k, s), n))].image

\* What a delta leaves of it, v being what it was.
TellOf(delta, v, k, s) == IF delta.key = k /\ s \in delta.subs THEN delta.image ELSE v

LEMMA SeenNone == ASSUME NEW v, NEW d, NEW k, NEW s PROVE Seen(v, d, 0, k, s) = v
BY DEF Seen, LatestOf

LEMMA SeenTold ==
    ASSUME NEW v, NEW d, NEW n \in Nat, NEW m, m = n + 1, NEW x, x = d[m], NEW k, NEW s,
           NEW w, w = Seen(v, d, n, k, s)
    PROVE  Seen(v, d, m, k, s) = TellOf(x, w, k, s)
<1>1. n + 1 \in DeltasFor(d, k, s) <=> d[n + 1].key = k /\ s \in d[n + 1].subs
  BY DEF DeltasFor
<1>2. CASE d[n + 1].key = k /\ s \in d[n + 1].subs
  BY <1>1, <1>2, LatestNext DEF Seen, LatestOf, TellOf
<1>3. CASE ~(d[n + 1].key = k /\ s \in d[n + 1].subs)
  BY <1>1, <1>3, LatestNext DEF Seen, LatestOf, TellOf
<1> QED BY <1>2, <1>3

LEMMA SeenGrown ==
    ASSUME NEW d, IsSeq(d), NEW n \in Nat, n <= Len(d), NEW x, NEW v, NEW k, NEW s
    PROVE  Seen(v, Append(d, x), n, k, s) = Seen(v, d, n, k, s)
<1> DEFINE W == LatestOf(DeltasFor(d, k, s), n)
<1>1. \A i \in 1 .. n : i \in 1 .. Len(d) /\ Append(d, x)[i] = d[i]
  BY SeqParts, Appended
<1>2. LatestOf(DeltasFor(Append(d, x), k, s), n) = W
  BY <1>1 DEF LatestOf, DeltasFor
<1>3. CASE W = {}
  BY <1>2, <1>3 DEF Seen
<1>4. CASE W # {}
  <2>1. Max(W) \in W
    BY <1>4, LatestIn
  <2>2. Append(d, x)[Max(W)] = d[Max(W)]
    BY <1>1, <2>1 DEF LatestOf
  <2> QED BY <1>2, <1>4, <2>2 DEF Seen
<1> QED BY <1>3, <1>4

Untold(d, n, s) == \A i \in 1 .. n : s \notin d[i].subs

LEMMA SeenUntold ==
    ASSUME NEW v, NEW d, NEW n \in Nat, NEW k, NEW s, Untold(d, n, s)
    PROVE  Seen(v, d, n, k, s) = v
<1>1. LatestOf(DeltasFor(d, k, s), n) = {}
  BY DEF LatestOf, DeltasFor, Untold
<1> QED BY <1>1 DEF Seen

-----------------------------------------------------------------------------
(* The ledger as each subscription sees it *)

\* A row is held by subscriptions of S, and has an image while it is held.
IsBook(rows, S) ==
    /\ DOMAIN rows = Keys
    /\ \A k \in Keys : /\ DOMAIN rows[k] = {"holders", "image"} /\ rows[k].holders \subseteq S
                       /\ rows[k].holders = {} <=> rows[k].image = NoRow
View(rows) == [k \in Keys |-> [s \in Nat |-> IF s \in rows[k].holders THEN rows[k].image ELSE NoRow]]

\* After the first n deltas no two subscriptions show a row differently.
Agrees(V, d, n, S) ==
    \A k \in Keys : \A s, u \in S :
        \/ Seen(V[k][s], d, n, k, s) = NoRow \/ Seen(V[k][u], d, n, k, u) = NoRow
        \/ Seen(V[k][s], d, n, k, s) = Seen(V[k][u], d, n, k, u)
Agreed(V, d, S) == \A n \in 0 .. Len(d) : Agrees(V, d, n, S)
OnKeys(d) == \A i \in 1 .. Len(d) : d[i].key \in Keys

\* A delta takes one view to another.
Tells(delta, W, S, X) == \A k \in Keys : \A s \in S : X[k][s] = TellOf(delta, W[k][s], k, s)

\* No two subscriptions show the row of a delta differently after it.
Alike(delta, V, S) ==
    \A s, u \in S : LET x == TellOf(delta, V[delta.key][s], delta.key, s)
                        y == TellOf(delta, V[delta.key][u], delta.key, u)
                    IN  x = NoRow \/ y = NoRow \/ x = y

\* The rows' images are what a store shows once what is queued is applied.
RowsOwed(rows, queued, shown) ==
    \A k \in Keys : rows[k].image = IF k \in DOMAIN queued THEN queued[k] ELSE shown[k]

LEMMA AccountShows ==
    ASSUME NEW b, DOMAIN b = {"rows", "queued"}, NEW S \in SUBSET Nat, IsBook(b.rows, S),
           NEW delta, delta.key \in Keys,
           Alike(delta, View(b.rows), S),
           NEW c, c = Account(b, delta, delta.subs \cap S)
    PROVE  /\ DOMAIN c = {"rows", "queued"} /\ IsBook(c.rows, S)
           /\ \A k \in Keys : \A s \in S :
                View(c.rows)[k][s] = TellOf(delta, View(b.rows)[k][s], k, s)
           /\ \A shown : RowsOwed(b.rows, b.queued, shown) => RowsOwed(c.rows, c.queued, shown)
<1> DEFINE k0 == delta.key
           held == b.rows[k0]
           H == delta.subs \cap S
           left == held.holders \ H
<1>1. k0 \in Keys /\ DOMAIN held = {"holders", "image"} /\ held.holders \subseteq S /\ H \subseteq S
      /\ (held.holders = {} <=> held.image = NoRow)
  BY DEF IsBook
<1>2. \A s \in S : View(b.rows)[k0][s] = IF s \in held.holders THEN held.image ELSE NoRow
  BY DEF View
<1>3. \A s \in S : TellOf(delta, View(b.rows)[k0][s], k0, s)
                   = IF s \in H THEN delta.image ELSE IF s \in held.holders THEN held.image ELSE NoRow
  BY <1>2 DEF TellOf
<1>4. \A k \in Keys : \A s \in S : k # k0 => TellOf(delta, View(b.rows)[k][s], k, s) = View(b.rows)[k][s]
  BY DEF TellOf
<1>5. ASSUME NEW x, DOMAIN x = {"holders", "image"}, x.holders \subseteq S,
             x.holders = {} <=> x.image = NoRow,
             c.rows = [b.rows EXCEPT ![k0] = x],
             \A s \in S : TellOf(delta, View(b.rows)[k0][s], k0, s)
                          = IF s \in x.holders THEN x.image ELSE NoRow,
             DOMAIN c = {"rows", "queued"},
             \/ c.queued = b.queued /\ x.image = held.image
             \/ c.queued = With(b.queued, k0, x.image)
      PROVE  /\ DOMAIN c = {"rows", "queued"} /\ IsBook(c.rows, S)
             /\ \A k \in Keys : \A s \in S :
                  View(c.rows)[k][s] = TellOf(delta, View(b.rows)[k][s], k, s)
             /\ \A shown : RowsOwed(b.rows, b.queued, shown) => RowsOwed(c.rows, c.queued, shown)
  <2>1. /\ DOMAIN c.rows = Keys /\ c.rows[k0] = x
        /\ \A k \in Keys : k # k0 => c.rows[k] = b.rows[k]
    BY <1>1, <1>5 DEF IsBook
  <2>2. IsBook(c.rows, S)
    <3>1. PICK R : R = c.rows
      OBVIOUS
    <3>2. ASSUME NEW k \in Keys
          PROVE  /\ DOMAIN R[k] = {"holders", "image"} /\ R[k].holders \subseteq S
                 /\ (R[k].holders = {} <=> R[k].image = NoRow)
      <4>1. CASE k = k0
        BY <1>5, <2>1, <3>1, <4>1
      <4>2. CASE k # k0
        BY <2>1, <3>1, <4>2 DEF IsBook
      <4> QED BY <4>1, <4>2
    <3>3. DOMAIN R = Keys
      BY <2>1, <3>1
    <3>4. IsBook(R, S)
      BY <3>2, <3>3 DEF IsBook
    <3> QED BY <3>1, <3>4
  <2>3. \A k \in Keys : \A s \in S : View(c.rows)[k][s] = TellOf(delta, View(b.rows)[k][s], k, s)
    <3> SUFFICES ASSUME NEW k \in Keys, NEW s \in S
                 PROVE  View(c.rows)[k][s] = TellOf(delta, View(b.rows)[k][s], k, s)
      OBVIOUS
    <3>1. View(c.rows)[k][s] = IF s \in c.rows[k].holders THEN c.rows[k].image ELSE NoRow
      BY DEF View
    <3>2. View(b.rows)[k][s] = IF s \in b.rows[k].holders THEN b.rows[k].image ELSE NoRow
      BY DEF View
    <3>3. CASE k = k0
      BY <1>5, <2>1, <3>1, <3>3
    <3>4. CASE k # k0
      BY <1>4, <2>1, <3>1, <3>2, <3>4
    <3> QED BY <3>3, <3>4
  <2>4. ASSUME NEW shown, RowsOwed(b.rows, b.queued, shown) PROVE RowsOwed(c.rows, c.queued, shown)
    <3> SUFFICES ASSUME NEW k \in Keys
                 PROVE  c.rows[k].image = IF k \in DOMAIN c.queued THEN c.queued[k] ELSE shown[k]
      BY DEF RowsOwed
    <3>1. b.rows[k].image = IF k \in DOMAIN b.queued THEN b.queued[k] ELSE shown[k]
      BY <2>4 DEF RowsOwed
    <3>2. CASE c.queued = b.queued /\ x.image = held.image
      BY <2>1, <3>1, <3>2
    <3>3. CASE c.queued = With(b.queued, k0, x.image)
      <4>1. /\ DOMAIN c.queued = DOMAIN b.queued \cup {k0} /\ c.queued[k0] = x.image
            /\ \A y \in DOMAIN b.queued : y # k0 => c.queued[y] = b.queued[y]
        BY <3>3 DEF With
      <4> QED BY <2>1, <3>1, <4>1
    <3> QED BY <1>5, <3>2, <3>3
  <2> QED BY <1>5, <2>2, <2>3, <2>4
<1> DEFINE Hold(h, image) == [holders |-> h, image |-> image]
<1>6. CASE delta.image # NoRow /\ H = {}
  <2>1. c = b
    BY <1>6 DEF Account
  <2>2. \A s \in S : TellOf(delta, View(b.rows)[k0][s], k0, s) = View(b.rows)[k0][s]
    BY <1>2, <1>3, <1>6
  <2>3. \A k \in Keys : \A s \in S : View(c.rows)[k][s] = TellOf(delta, View(b.rows)[k][s], k, s)
    BY <1>4, <2>1, <2>2
  <2> QED BY <2>1, <2>3
<1>7. CASE delta.image # NoRow /\ H # {}
  <2> DEFINE x == Hold(held.holders \cup H, delta.image)
  <2>1. c = [rows |-> [b.rows EXCEPT ![k0] = x],
             queued |-> IF held.image = delta.image THEN b.queued
                        ELSE With(b.queued, k0, delta.image)]
    BY <1>7, Zenon DEF Account, Coalesced
  <2>2. PICK u \in S : u \in H /\ u \in delta.subs
    BY <1>7
  <2>3. \A s \in held.holders \ H : held.image = delta.image
    BY <1>1, <1>3, <1>7, <2>2 DEF Alike
  <2>4. \A s \in S : TellOf(delta, View(b.rows)[k0][s], k0, s)
                     = IF s \in x.holders THEN x.image ELSE NoRow
    BY <1>3, <2>3
  <2>5. DOMAIN x = {"holders", "image"} /\ x.holders \subseteq S /\ x.image = delta.image
        /\ (x.holders = {} <=> x.image = NoRow)
    BY <1>1, <1>7
  <2> HIDE DEF x
  <2>6. /\ DOMAIN c = {"rows", "queued"} /\ c.rows = [b.rows EXCEPT ![k0] = x]
        /\ \/ c.queued = b.queued /\ held.image = delta.image
           \/ c.queued = With(b.queued, k0, delta.image)
    <3>1. PICK books, later : books = [b.rows EXCEPT ![k0] = x] /\ later = With(b.queued, k0, delta.image)
      OBVIOUS
    <3>2. c = [rows |-> books, queued |-> IF held.image = delta.image THEN b.queued ELSE later]
      BY <2>1, <3>1
    <3>3. DOMAIN c = {"rows", "queued"} /\ c.rows = books
      BY <3>2
    <3>4. c.queued = IF held.image = delta.image THEN b.queued ELSE later
      BY <3>2
    <3> QED BY <3>1, <3>3, <3>4
  <2> QED BY <1>5, <2>4, <2>5, <2>6
<1>8. CASE delta.image = NoRow /\ left = {} /\ held.holders # {}
  <2>1. c = [rows |-> [b.rows EXCEPT ![k0] = NothingHeld], queued |-> With(b.queued, k0, NoRow)]
    BY <1>8, Zenon DEF Account, Coalesced
  <2>2. \A s \in S : TellOf(delta, View(b.rows)[k0][s], k0, s)
                     = IF s \in NothingHeld.holders THEN NothingHeld.image ELSE NoRow
    BY <1>3, <1>8 DEF NothingHeld
  <2>3. DOMAIN NothingHeld = {"holders", "image"} /\ NothingHeld.holders \subseteq S
        /\ NothingHeld.image = NoRow /\ NothingHeld.holders = {}
    BY DEF NothingHeld
  <2>4. /\ DOMAIN c = {"rows", "queued"} /\ c.rows = [b.rows EXCEPT ![k0] = NothingHeld]
        /\ c.queued = With(b.queued, k0, NothingHeld.image)
    <3>1. PICK books, mail : /\ books = [b.rows EXCEPT ![k0] = NothingHeld]
                             /\ mail = With(b.queued, k0, NothingHeld.image)
      OBVIOUS
    <3>2. c = [rows |-> books, queued |-> mail]
      BY <2>1, <2>3, <3>1
    <3>3. DOMAIN c = {"rows", "queued"} /\ c.rows = books /\ c.queued = mail
      BY <3>2
    <3> QED BY <3>1, <3>3
  <2> QED BY <1>5, <2>2, <2>3, <2>4
<1>9. CASE delta.image = NoRow /\ ~(left = {} /\ held.holders # {})
  <2> DEFINE x == [held EXCEPT !.holders = left]
  <2>1. c = [b EXCEPT !.rows[k0].holders = left]
    BY <1>9, Zenon DEF Account
  <2>2. c.rows = [b.rows EXCEPT ![k0] = x] /\ c.queued = b.queued /\ DOMAIN c = {"rows", "queued"}
    BY <2>1
  <2>3. DOMAIN x = {"holders", "image"} /\ x.holders = left /\ x.image = held.image
    BY <1>1
  <2>4. \A s \in S : TellOf(delta, View(b.rows)[k0][s], k0, s)
                     = IF s \in x.holders THEN x.image ELSE NoRow
    BY <1>3, <1>9, <2>3
  <2>5. x.holders \subseteq S /\ (x.holders = {} <=> x.image = NoRow)
    BY <1>1, <1>9, <2>3
  <2> HIDE DEF x
  <2> QED BY <1>5, <2>2, <2>3, <2>4, <2>5
<1> QED BY <1>6, <1>7, <1>8, <1>9

\* The ledger after the first n deltas.
BookedTo(g, d, S, n, b) ==
    /\ DOMAIN b = {"rows", "queued"} /\ IsBook(b.rows, S)
    /\ \A k \in Keys : \A s \in S : View(b.rows)[k][s] = Seen(View(g.rows)[k][s], d, n, k, s)
    /\ \A shown : RowsOwed(g.rows, g.queued.rows, shown) => RowsOwed(b.rows, b.queued, shown)

LEMMA BookedNext ==
    ASSUME NEW g, NEW d, NEW S \in SUBSET Nat, S = Subs(g), NEW n \in Nat, d[n + 1].key \in Keys,
           Agrees(View(g.rows), d, n + 1, S), NEW b, BookedTo(g, d, S, n, b),
           NEW c, c = OneBooked(g, b, d[n + 1])
    PROVE  BookedTo(g, d, S, n + 1, c)
<1> DEFINE delta == d[n + 1]
           V == View(g.rows)
           W == View(b.rows)
<1>1. \A k \in Keys : \A s \in S : Seen(V[k][s], d, n + 1, k, s) = TellOf(delta, W[k][s], k, s)
  <2> SUFFICES ASSUME NEW k \in Keys, NEW s \in S
               PROVE  Seen(V[k][s], d, n + 1, k, s) = TellOf(delta, W[k][s], k, s)
    OBVIOUS
  <2>1. W[k][s] = Seen(V[k][s], d, n, k, s)
    BY DEF BookedTo
  <2> HIDE DEF V, W
  <2>2. PICK v, w, m : v = V[k][s] /\ w = W[k][s] /\ m = n + 1
    OBVIOUS
  <2>3. Seen(v, d, m, k, s) = TellOf(d[m], w, k, s)
    BY <2>1, <2>2, SeenTold
  <2> QED BY <2>2, <2>3
<1>2. Alike(delta, W, S)
  <2> HIDE DEF V, W
  <2>1. \A s, u \in S : \/ Seen(V[delta.key][s], d, n + 1, delta.key, s) = NoRow
                        \/ Seen(V[delta.key][u], d, n + 1, delta.key, u) = NoRow
                        \/ Seen(V[delta.key][s], d, n + 1, delta.key, s)
                                = Seen(V[delta.key][u], d, n + 1, delta.key, u)
    BY DEF Agrees, V
  <2> QED BY <1>1, <2>1 DEF Alike
<1>3. c = Account(b, delta, delta.subs \cap S)
  BY DEF OneBooked
<1>4. DOMAIN b = {"rows", "queued"} /\ IsBook(b.rows, S)
  BY DEF BookedTo
<1>5. delta.key \in Keys
  OBVIOUS
<1>6. /\ DOMAIN c = {"rows", "queued"} /\ IsBook(c.rows, S)
      /\ \A k \in Keys : \A s \in S : View(c.rows)[k][s] = TellOf(delta, W[k][s], k, s)
      /\ \A shown : RowsOwed(b.rows, b.queued, shown) => RowsOwed(c.rows, c.queued, shown)
  <2>1. PICK x : x = delta
    OBVIOUS
  <2> HIDE DEF delta
  <2>2. x.key \in Keys /\ Alike(x, View(b.rows), S) /\ c = Account(b, x, x.subs \cap S)
    BY <1>2, <1>3, <1>5, <2>1
  <2>3. /\ DOMAIN c = {"rows", "queued"} /\ IsBook(c.rows, S)
        /\ \A k \in Keys : \A s \in S : View(c.rows)[k][s] = TellOf(x, View(b.rows)[k][s], k, s)
        /\ \A shown : RowsOwed(b.rows, b.queued, shown) => RowsOwed(c.rows, c.queued, shown)
    <3>1. /\ DOMAIN b = {"rows", "queued"} /\ IsBook(b.rows, S)
          /\ x.key \in Keys /\ Alike(x, View(b.rows), S)
          /\ c = Account(b, x, x.subs \cap S)
      BY <1>4, <2>2
    <3> QED BY <3>1, AccountShows
  <2> QED BY <2>1, <2>3
<1> HIDE DEF V, W
<1>7. \A k \in Keys : \A s \in S : View(c.rows)[k][s] = Seen(V[k][s], d, n + 1, k, s)
  BY <1>1, <1>6
<1> QED BY <1>6, <1>7 DEF BookedTo, V

LEMMA AccountedShows ==
    ASSUME NEW g, Queues(g), NEW S \in SUBSET Nat, S = Subs(g), IsBook(g.rows, S),
           NEW d, IsSeq(d), OnKeys(d), Agreed(View(g.rows), d, S), NEW h, h = Accounted(g, d)
    PROVE  /\ IsBook(h.rows, S)
           /\ \A k \in Keys : \A s \in S :
                View(h.rows)[k][s] = Seen(View(g.rows)[k][s], d, Len(d), k, s)
           /\ \A shown : RowsOwed(g.rows, g.queued.rows, shown)
                            => RowsOwed(h.rows, h.queued.rows, shown)
<1>1. Len(d) \in Nat
  BY SeqParts
<1>2. PICK f : /\ f[0] = Books(g)
               /\ \A i \in 1 .. Len(d) : f[i] = OneBooked(g, f[i - 1], d[i])
               /\ h.rows = f[Len(d)].rows /\ h.queued.rows = f[Len(d)].queued
  BY AccountedIs
<1> DEFINE T == {n \in Nat : n <= Len(d) /\ ~BookedTo(g, d, S, n, f[n])}
<1>3. SUFFICES ASSUME T # {} PROVE FALSE
  <2>1. BookedTo(g, d, S, Len(d), f[Len(d)])
    BY <1>1, <1>3
  <2> QED BY <1>2, <2>1 DEF BookedTo
<1>4. PICK m \in T : \A n \in T : m <= n
  BY <1>3, LeastNat
<1>5. m # 0
  <2>1. BookedTo(g, d, S, 0, Books(g))
    <3> DEFINE V == View(g.rows)
    <3> HIDE DEF V
    <3>1. \A v, k, s : v = Seen(v, d, 0, k, s)
      BY SeenNone
    <3> QED BY <3>1 DEF BookedTo, Books, V
  <2> QED BY <1>2, <1>4, <2>1
<1>6. m - 1 \in Nat /\ m - 1 \notin T /\ m - 1 <= Len(d) /\ m \in 1 .. Len(d)
  BY <1>1, <1>4, <1>5
<1>7. PICK n \in Nat : n = m - 1 /\ m = n + 1
  BY <1>6
<1>8. /\ BookedTo(g, d, S, n, f[n]) /\ d[n + 1].key \in Keys /\ f[n + 1] = OneBooked(g, f[n], d[n + 1])
      /\ Agrees(View(g.rows), d, n + 1, S)
  <2>1. BookedTo(g, d, S, n, f[n])
    BY <1>6, <1>7
  <2>2. d[n + 1].key \in Keys
    BY <1>6, <1>7 DEF OnKeys
  <2>3. f[n + 1] = OneBooked(g, f[n], d[n + 1])
    BY <1>2, <1>6, <1>7
  <2>4. Agrees(View(g.rows), d, n + 1, S)
    BY <1>6, <1>7 DEF Agreed
  <2> QED BY <2>1, <2>2, <2>3, <2>4
<1> HIDE DEF T
<1>9. BookedTo(g, d, S, n + 1, f[n + 1])
  BY <1>8, BookedNext
<1> QED BY <1>4, <1>7, <1>9 DEF T

-----------------------------------------------------------------------------
(* Deltas kept for the next poke *)

\* Deltas to tokens of K that take the view V of S to W, in step.
ShownAs(V, x, K, S, W) ==
    /\ IsSeq(x) /\ OnKeys(x) /\ \A i \in 1 .. Len(x) : x[i].subs \subseteq K
    /\ Agreed(V, x, S)
    /\ \A k \in Keys : \A s \in S : Seen(V[k][s], x, Len(x), k, s) = W[k][s]

OneMoreThan(y, x, m) == IsSeq(x) /\ y = Append(x, m)

LEMMA SeenLonger ==
    ASSUME NEW x, NEW m, NEW y, OneMoreThan(y, x, m), NEW n \in 0 .. Len(x)
    PROVE  \A v, k, s : Seen(v, y, n, k, s) = Seen(v, x, n, k, s)
<1>1. n \in Nat /\ n <= Len(x)
  BY SeqParts DEF OneMoreThan
<1> QED BY <1>1, SeenGrown DEF OneMoreThan

LEMMA SeenLast ==
    ASSUME NEW x, NEW m, NEW y, OneMoreThan(y, x, m), NEW v, NEW k, NEW s,
           NEW w, w = Seen(v, x, Len(x), k, s)
    PROVE  Seen(v, y, Len(y), k, s) = TellOf(m, w, k, s)
<1>1. Len(x) \in Nat /\ Len(y) = Len(x) + 1 /\ y[Len(x) + 1] = m
  BY Appended DEF OneMoreThan
<1>2. PICK n, l : n \in Nat /\ n = Len(x) /\ l = n + 1 /\ l = Len(y) /\ m = y[l] /\ n \in 0 .. Len(x)
  BY <1>1
<1>3. w = Seen(v, y, n, k, s)
  BY <1>2, SeenLonger
<1>4. Seen(v, y, l, k, s) = TellOf(m, w, k, s)
  BY <1>2, <1>3, SeenTold
<1> QED BY <1>2, <1>4

LEMMA ShownNext ==
    ASSUME NEW V, NEW x, NEW K, NEW S, NEW W, ShownAs(V, x, K, S, W),
           NEW m, m.key \in Keys, m.subs \subseteq K, NEW y, OneMoreThan(y, x, m),
           NEW X, Tells(m, W, S, X), Alike(m, W, S)
    PROVE  ShownAs(V, y, K, S, X)
<1>1. /\ IsSeq(x) /\ IsSeq(y) /\ Len(x) \in Nat /\ Len(y) = Len(x) + 1 /\ y[Len(x) + 1] = m
      /\ \A i \in 1 .. Len(x) : y[i] = x[i]
  BY Appended DEF ShownAs, OneMoreThan
<1>2. OnKeys(y) /\ \A i \in 1 .. Len(y) : y[i].subs \subseteq K
  <2> SUFFICES ASSUME NEW i \in 1 .. Len(y) PROVE y[i].key \in Keys /\ y[i].subs \subseteq K
    BY DEF OnKeys
  <2>1. CASE i \in 1 .. Len(x)
    BY <1>1, <2>1 DEF ShownAs, OnKeys
  <2>2. CASE i = Len(x) + 1
    BY <1>1, <2>2
  <2> QED BY <1>1, <2>1, <2>2
<1>3. \A k \in Keys : \A s \in S : Seen(V[k][s], y, Len(y), k, s) = X[k][s]
  <2> SUFFICES ASSUME NEW k \in Keys, NEW s \in S PROVE Seen(V[k][s], y, Len(y), k, s) = X[k][s]
    OBVIOUS
  <2>1. PICK v, w : v = V[k][s] /\ w = W[k][s]
    OBVIOUS
  <2>2. w = Seen(v, x, Len(x), k, s)
    BY <2>1 DEF ShownAs
  <2>3. Seen(v, y, Len(y), k, s) = TellOf(m, w, k, s)
    BY <1>1, <2>2, SeenLast
  <2> QED BY <2>1, <2>3 DEF Tells
<1>4. Agrees(V, y, Len(y), S)
  <2> SUFFICES ASSUME NEW k \in Keys, NEW s \in S, NEW u \in S
               PROVE  X[k][s] = NoRow \/ X[k][u] = NoRow \/ X[k][s] = X[k][u]
    BY <1>3 DEF Agrees
  <2>1. CASE m.key = k
    BY <2>1 DEF Alike, Tells
  <2>2. CASE m.key # k
    <3>1. X[k][s] = W[k][s] /\ X[k][u] = W[k][u]
      BY <2>2 DEF Tells, TellOf
    <3>2. Agrees(V, x, Len(x), S)
      BY <1>1 DEF ShownAs, Agreed
    <3>3. W[k][s] = NoRow \/ W[k][u] = NoRow \/ W[k][s] = W[k][u]
      BY <3>2 DEF Agrees, ShownAs
    <3> QED BY <3>1, <3>3
  <2> QED BY <2>1, <2>2
<1>5. Agreed(V, y, S)
  <2> SUFFICES ASSUME NEW n \in 0 .. Len(y) PROVE Agrees(V, y, n, S)
    BY DEF Agreed
  <2>1. CASE n = Len(y)
    BY <1>4, <2>1
  <2>2. CASE n # Len(y)
    <3>1. n \in Nat /\ n <= Len(x) /\ n \in 0 .. Len(x)
      BY <1>1, <2>2
    <3>2. Agrees(V, x, n, S)
      BY <3>1 DEF ShownAs, Agreed
    <3>3. \A v, k, s : Seen(v, y, n, k, s) = Seen(v, x, n, k, s)
      BY <3>1, SeenLonger
    <3> QED BY <3>2, <3>3 DEF Agrees
  <2> QED BY <2>1, <2>2
<1> QED BY <1>1, <1>2, <1>3, <1>5 DEF ShownAs

LEMMA ShownSkipped ==
    ASSUME NEW V, NEW x, NEW K, NEW S, NEW W, ShownAs(V, x, K, S, W), NEW m, m.subs \cap S = {},
           NEW X, Tells(m, W, S, X)
    PROVE  ShownAs(V, x, K, S, X)
<1>1. \A k \in Keys : \A s \in S : X[k][s] = W[k][s]
  BY DEF Tells, TellOf
<1> QED BY <1>1 DEF ShownAs

\* A view after the first n deltas.
ViewAfter(W, d, n) == [k \in Keys |-> [s \in Nat |-> Seen(W[k][s], d, n, k, s)]]

LEMMA ViewNext ==
    ASSUME NEW W, NEW d, NEW n \in Nat, NEW m, m = n + 1, NEW delta, delta = d[m],
           NEW S \in SUBSET Nat
    PROVE  /\ Tells(delta, ViewAfter(W, d, n), S, ViewAfter(W, d, m))
           /\ Agrees(W, d, m, S) /\ delta.key \in Keys => Alike(delta, ViewAfter(W, d, n), S)
<1>1. ASSUME NEW k \in Keys, NEW s \in S
      PROVE  /\ ViewAfter(W, d, m)[k][s] = Seen(W[k][s], d, m, k, s)
             /\ ViewAfter(W, d, m)[k][s] = TellOf(delta, ViewAfter(W, d, n)[k][s], k, s)
  <2>1. PICK v : v = W[k][s]
    OBVIOUS
  <2>2. PICK w : w = Seen(v, d, n, k, s)
    OBVIOUS
  <2>3. ViewAfter(W, d, m)[k][s] = Seen(v, d, m, k, s) /\ ViewAfter(W, d, n)[k][s] = w
    BY <2>1, <2>2 DEF ViewAfter
  <2>4. Seen(v, d, m, k, s) = TellOf(delta, w, k, s)
    BY <2>2, SeenTold
  <2> QED BY <2>1, <2>3, <2>4
<1>2. ASSUME Agrees(W, d, m, S), delta.key \in Keys PROVE Alike(delta, ViewAfter(W, d, n), S)
  BY <1>1, <1>2 DEF Alike, Agrees
<1> QED BY <1>1, <1>2 DEF Tells

LEMMA AppendLast ==
    ASSUME NEW x, IsSeq(x), NEW f, IsSeq(f), NEW m
    PROVE  OneMoreThan(x \o Append(f, m), x \o f, m)
<1> DEFINE S == {x[i] : i \in DOMAIN x} \cup {f[i] : i \in DOMAIN f} \cup {m}
<1>1. x \in Seq(S)
  BY SeqMonotonic DEF IsSeq
<1>2. f \in Seq(S)
  BY SeqMonotonic DEF IsSeq
<1>3. m \in S
  OBVIOUS
<1> HIDE DEF S
<1>4. Append(f, m) = f \o <<m>> /\ Append(x \o f, m) = (x \o f) \o <<m>> /\ IsSeq(x \o f)
  BY Joined, Appended
<1>5. <<m>> \in Seq(S)
  BY <1>3
<1>6. x \o (f \o <<m>>) = (x \o f) \o <<m>>
  BY <1>1, <1>2, <1>5, ConcatAssociative
<1> QED BY <1>4, <1>6 DEF OneMoreThan

LEMMA OursShown ==
    ASSUME NEW V, NEW x, NEW K, NEW S \in SUBSET Nat, NEW W, ShownAs(V, x, K, S, W),
           NEW g, Subs(g) = S, NEW d, IsSeq(d), OnKeys(d),
           \A i \in 1 .. Len(d) : d[i].subs \subseteq K, Agreed(W, d, S)
    PROVE  ShownAs(V, x \o Ours(g, d), K, S, ViewAfter(W, d, Len(d)))
<1>1. Len(d) \in Nat
  BY SeqParts
<1>2. PICK f : /\ f[0] = <<>> /\ Ours(g, d) = f[Len(d)]
               /\ \A i \in 1 .. Len(d) : f[i] = OneKept(g, f[i - 1], d[i])
  <2>1. IsSeq(d)
    OBVIOUS
  <2>2. \E f : /\ f[0] = <<>> /\ Ours(g, d) = f[Len(d)]
              /\ \A i \in 1 .. Len(d) : f[i] = OneKept(g, f[i - 1], d[i])
    BY <2>1, OursIs, SMTT(30)
  <2> QED BY <2>2, Zenon
<1> DEFINE Kept0(n) == IsSeq(f[n]) /\ ShownAs(V, x \o f[n], K, S, ViewAfter(W, d, n))
           T == {n \in Nat : n <= Len(d) /\ ~Kept0(n)}
<1>3. SUFFICES ASSUME T # {} PROVE FALSE
  <2>1. Kept0(Len(d))
    BY <1>1, <1>3
  <2> QED BY <1>2, <2>1
<1>4. PICK m \in T : \A n \in T : m <= n
  BY <1>3, LeastNat
<1>5. m # 0
  <2>1. \A k \in Keys : \A s \in S : ViewAfter(W, d, 0)[k][s] = W[k][s]
    BY SeenNone DEF ViewAfter
  <2>2. x \o <<>> = x
    BY AfterNothing DEF ShownAs
  <2>3. ShownAs(V, x, K, S, ViewAfter(W, d, 0))
    BY <2>1 DEF ShownAs
  <2>4. Kept0(0)
    BY <1>2, <2>2, <2>3, EmptyIsSeq
  <2> QED BY <1>4, <2>4
<1>6. m - 1 \in Nat /\ m - 1 \notin T /\ m - 1 <= Len(d) /\ m \in 1 .. Len(d)
  BY <1>1, <1>4, <1>5
<1>7. PICK n, delta : n \in Nat /\ n = m - 1 /\ m = n + 1 /\ delta = d[m]
  BY <1>6
<1>8. Kept0(n) /\ f[m] = OneKept(g, f[n], delta)
  BY <1>2, <1>6, <1>7
<1>9. delta.key \in Keys /\ delta.subs \subseteq K /\ Agrees(W, d, m, S)
  BY <1>6, <1>7 DEF OnKeys, Agreed
<1>10. ~Kept0(m)
  BY <1>4
<1> HIDE DEF T
<1>11. /\ Tells(delta, ViewAfter(W, d, n), S, ViewAfter(W, d, m))
       /\ Alike(delta, ViewAfter(W, d, n), S)
  BY <1>7, <1>9, ViewNext
<1>14. PICK W1, W2 : W1 = ViewAfter(W, d, n) /\ W2 = ViewAfter(W, d, m)
  OBVIOUS
<1>15. /\ ShownAs(V, x \o f[n], K, S, W1) /\ Alike(delta, W1, S)
       /\ Tells(delta, W1, S, W2)
  BY <1>8, <1>11, <1>14
<1>12. CASE delta.subs \cap S = {}
  <2>1. f[m] = f[n]
    BY <1>8, <1>12 DEF OneKept
  <2>2. ShownAs(V, x \o f[n], K, S, W2)
    BY <1>12, <1>15, ShownSkipped
  <2> QED BY <1>8, <1>10, <1>14, <2>1, <2>2
<1>13. CASE delta.subs \cap S # {}
  <2>1. f[m] = Append(f[n], delta)
    BY <1>8, <1>13 DEF OneKept
  <2>2. IsSeq(x) /\ IsSeq(f[n]) /\ IsSeq(f[m])
    BY <1>8, <2>1, Appended DEF ShownAs
  <2>3. OneMoreThan(x \o f[m], x \o f[n], delta)
    BY <2>1, <2>2, AppendLast
  <2>4. ShownAs(V, x \o f[m], K, S, W2)
    BY <1>9, <1>15, <2>3, ShownNext
  <2> QED BY <1>10, <1>14, <2>2, <2>4
<1> QED BY <1>12, <1>13

-----------------------------------------------------------------------------
(* What the engine's events tell of the rows *)

\* What each subscription shows at a point of the course.
ViewAt(log, p) ==
    [k \in Keys |-> [s \in Nat |-> IF k \in p.shown[s] THEN TableAt(log, p.at)[k] ELSE NoRow]]
DeltasOf(e) == IF e.kind \in {"registered", "landed", "committed"} THEN e.deltas ELSE <<>>

\* Deltas that take the view at one point to the view at another.
TellsView(log, p, d, S, r) ==
    /\ IsSeq(d) /\ OnKeys(d) /\ \A i \in 1 .. Len(d) : d[i].subs \subseteq r.known
    /\ Agreed(ViewAt(log, p), d, S)
    /\ \A k \in Keys : \A s \in S :
        Seen(ViewAt(log, p)[k][s], d, Len(d), k, s) = ViewAt(log, r)[k][s]

\* What is seen was there before any delta of it, or is a delta's.
SeenIn(v, d, n, k, s) ==
    \/ Seen(v, d, n, k, s) = v /\ \A i \in 1 .. n : ~(d[i].key = k /\ s \in d[i].subs)
    \/ \E i \in 1 .. n : d[i].key = k /\ s \in d[i].subs /\ Seen(v, d, n, k, s) = d[i].image

LEMMA SeenOf ==
    ASSUME NEW v, NEW d, NEW n \in Nat, NEW k, NEW s PROVE SeenIn(v, d, n, k, s)
<1> DEFINE W == LatestOf(DeltasFor(d, k, s), n)
<1>1. CASE W = {}
  <2>1. \A i \in 1 .. n : ~(d[i].key = k /\ s \in d[i].subs)
    BY <1>1 DEF LatestOf, DeltasFor
  <2> QED BY <1>1, <2>1 DEF Seen, SeenIn
<1>2. CASE W # {}
  <2>1. Max(W) \in W
    BY <1>2, LatestIn
  <2>2. Max(W) \in 1 .. n /\ d[Max(W)].key = k /\ s \in d[Max(W)].subs
    BY <2>1 DEF LatestOf, DeltasFor
  <2>3. Seen(v, d, n, k, s) = d[Max(W)].image
    BY <1>2 DEF Seen
  <2> HIDE DEF W
  <2> QED BY <2>2, <2>3 DEF SeenIn
<1> QED BY <1>1, <1>2

LEMMA RowsSeen ==
    ASSUME NEW log, NEW p, NEW d, NEW s0, TellsRows(log, p.at, d, s0),
           NEW S \in SUBSET Nat, NEW r, s0 \in r.known, p.at = r.at,
           \A s \in S : r.shown[s] = IF s = s0 THEN p.shown[s] \cup KeysOf(d) ELSE p.shown[s]
    PROVE  TellsView(log, p, d, S, r)
<1> DEFINE T == TableAt(log, p.at)
           W == ViewAt(log, p)
<1>1. /\ IsSeq(d) /\ Len(d) \in Nat
      /\ \A i \in 1 .. Len(d) : d[i].key \in Keys /\ d[i].subs = {s0} /\ d[i].image = T[d[i].key]
  BY SeqParts DEF TellsRows
<1>2. OnKeys(d) /\ \A i \in 1 .. Len(d) : d[i].subs \subseteq r.known
  BY <1>1 DEF OnKeys
<1>3. \A k \in Keys : \A s \in S : W[k][s] = IF k \in p.shown[s] THEN T[k] ELSE NoRow
  BY DEF ViewAt
<1>4. ASSUME NEW n \in 0 .. Len(d), NEW k \in Keys, NEW s \in S
      PROVE  \/ Seen(W[k][s], d, n, k, s) = W[k][s]
             \/ Seen(W[k][s], d, n, k, s) = T[k]
  <2>1. PICK v : v = W[k][s]
    OBVIOUS
  <2>2. n \in Nat /\ \A i \in 1 .. n : i \in 1 .. Len(d)
    BY <1>1
  <2> HIDE DEF T, W
  <2>3. SeenIn(v, d, n, k, s)
    BY <2>2, SeenOf
  <2>4. Seen(v, d, n, k, s) = v \/ Seen(v, d, n, k, s) = T[k]
    BY <1>1, <2>2, <2>3 DEF SeenIn
  <2> QED BY <2>1, <2>4
<1>5. Agreed(W, d, S)
  <2>1. \A n \in 0 .. Len(d) : \A k \in Keys : \A s \in S :
            Seen(W[k][s], d, n, k, s) = NoRow \/ Seen(W[k][s], d, n, k, s) = T[k]
    BY <1>3, <1>4
  <2> HIDE DEF T, W
  <2>2. ASSUME NEW n \in 0 .. Len(d), NEW k \in Keys, NEW s \in S, NEW u \in S
        PROVE  \/ Seen(W[k][s], d, n, k, s) = NoRow \/ Seen(W[k][u], d, n, k, u) = NoRow
               \/ Seen(W[k][s], d, n, k, s) = Seen(W[k][u], d, n, k, u)
    <3>1. PICK a, b : a = Seen(W[k][s], d, n, k, s) /\ b = Seen(W[k][u], d, n, k, u)
      OBVIOUS
    <3>2. (a = NoRow \/ a = T[k]) /\ (b = NoRow \/ b = T[k])
      BY <2>1, <3>1
    <3> QED BY <3>1, <3>2
  <2> QED BY <2>2, Zenon DEF Agreed, Agrees
<1>6. ASSUME NEW k \in Keys, NEW s \in S
      PROVE  Seen(W[k][s], d, Len(d), k, s) = ViewAt(log, r)[k][s]
  <2>1. PICK v, n : v = W[k][s] /\ n = Len(d) /\ n \in Nat
    BY <1>1
  <2>9. SeenIn(v, d, n, k, s)
    <3> HIDE DEF T, W
    <3> QED BY <2>1, SeenOf
  <2>2. ViewAt(log, r)[k][s] = IF k \in r.shown[s] THEN T[k] ELSE NoRow
    BY DEF ViewAt
  <2>3. CASE s = s0 /\ k \in KeysOf(d)
    <3>1. \E i \in 1 .. n : d[i].key = k /\ s \in d[i].subs
      BY <1>1, <2>1, <2>3 DEF KeysOf
    <3>2. Seen(v, d, n, k, s) = T[k]
      <4> HIDE DEF T, W
      <4> QED BY <1>1, <2>1, <2>9, <3>1 DEF SeenIn
    <3> QED BY <2>1, <2>2, <2>3, <3>2
  <2>4. CASE ~(s = s0 /\ k \in KeysOf(d))
    <3>1. \A i \in 1 .. n : ~(d[i].key = k /\ s \in d[i].subs)
      BY <1>1, <2>1, <2>4 DEF KeysOf
    <3>2. Seen(v, d, n, k, s) = v
      <4> HIDE DEF T, W
      <4> QED BY <2>1, <2>9, <3>1 DEF SeenIn
    <3> QED BY <1>3, <2>1, <2>2, <2>4, <3>2
  <2> QED BY <2>3, <2>4
<1> QED BY <1>1, <1>2, <1>5, <1>6 DEF TellsView

\* A write's deltas one by one: all but the last to those who leave.
IsWriteTold(d, key, value, leavers, holders) ==
    /\ IsSeq(d) /\ Len(d) \in Nat
    /\ \A i \in 1 .. Len(d) :
        /\ d[i].key = key
        /\ \/ d[i].subs = leavers /\ d[i].image = NoRow /\ leavers # {}
           \/ d[i].subs = holders /\ d[i].image = value /\ holders # {} /\ i = Len(d)
    /\ leavers # {} => \E i \in 1 .. Len(d) : d[i].subs = leavers /\ d[i].image = NoRow
    /\ holders # {} => \E i \in 1 .. Len(d) : d[i].subs = holders /\ d[i].image = value

LEMMA WriteTold ==
    ASSUME NEW d, NEW key, NEW value, NEW leavers, NEW holders,
           TellsWrite(d, key, value, leavers, holders)
    PROVE  IsWriteTold(d, key, value, leavers, holders)
<1> DEFINE a == Delta(key, NoRow, leavers)
           b == Delta(key, value, holders)
<1>0. /\ a.key = key /\ a.image = NoRow /\ a.subs = leavers
      /\ b.key = key /\ b.image = value /\ b.subs = holders
  BY DEF Delta
<1>1. d = (IF leavers = {} THEN <<>> ELSE <<a>>) \o (IF holders = {} THEN <<>> ELSE <<b>>)
  BY DEF TellsWrite
<1> HIDE DEF a, b
<1>2. /\ IsSeq(<<a>>) /\ Len(<<a>>) = 1 /\ <<a>>[1] = a /\ IsSeq(<<b>>) /\ Len(<<b>>) = 1 /\ <<b>>[1] = b
      /\ IsSeq(<<>>) /\ Len(<<>>) = 0
  BY OneIsSeq, EmptyIsSeq
<1>3. CASE leavers = {} /\ holders = {}
  <2>1. d = <<>>
    BY <1>1, <1>2, <1>3, AfterNothing
  <2> QED BY <1>2, <1>3, <2>1 DEF IsWriteTold
<1>4. CASE leavers # {} /\ holders = {}
  <2>1. d = <<a>>
    BY <1>1, <1>2, <1>4, AfterNothing
  <2>2. IsSeq(d) /\ Len(d) = 1 /\ d[1] = a
    BY <1>2, <2>1
  <2> QED BY <1>0, <1>4, <2>2 DEF IsWriteTold
<1>5. CASE leavers = {} /\ holders # {}
  <2>1. d = <<b>>
    BY <1>1, <1>2, <1>5, AfterNothing
  <2>2. IsSeq(d) /\ Len(d) = 1 /\ d[1] = b
    BY <1>2, <2>1
  <2> QED BY <1>0, <1>5, <2>2 DEF IsWriteTold
<1>6. CASE leavers # {} /\ holders # {}
  <2>1. d = <<a>> \o <<b>>
    BY <1>1, <1>6
  <2>2. /\ IsSeq(d) /\ Len(d) = Len(<<a>>) + Len(<<b>>)
        /\ \A i \in 1 .. Len(<<a>>) + Len(<<b>>) :
                d[i] = IF i <= Len(<<a>>) THEN <<a>>[i] ELSE <<b>>[i - Len(<<a>>)]
    BY <1>2, <2>1, Joined
  <2>3. IsSeq(d) /\ Len(d) = 2 /\ d[1] = a /\ d[2] = b
    BY <1>2, <2>2
  <2> QED BY <1>0, <1>6, <2>3 DEF IsWriteTold
<1> QED BY <1>3, <1>4, <1>5, <1>6

LEMMA WriteSeen ==
    ASSUME NEW d, NEW key \in Keys, NEW value, NEW leavers, NEW holders, leavers \cap holders = {},
           IsWriteTold(d, key, value, leavers, holders), NEW n \in 0 .. Len(d), NEW v, NEW s,
           v # NoRow => s \in leavers \/ s \in holders
    PROVE  /\ n < Len(d) => Seen(v, d, n, key, s) \in {v, NoRow}
           /\ n = Len(d) => Seen(v, d, n, key, s) = IF s \in holders THEN value ELSE NoRow
<1>1. n \in Nat /\ n <= Len(d) /\ Len(d) \in Nat /\ \A i \in 1 .. n : i \in 1 .. Len(d)
  BY DEF IsWriteTold
<1>2. SeenIn(v, d, n, key, s)
  BY <1>1, SeenOf
<1>3. ASSUME n < Len(d) PROVE Seen(v, d, n, key, s) \in {v, NoRow}
  <2>1. \A i \in 1 .. n : d[i].image = NoRow
    BY <1>1, <1>3 DEF IsWriteTold
  <2> QED BY <1>2, <2>1 DEF SeenIn
<1>4. ASSUME n = Len(d) PROVE Seen(v, d, n, key, s) = IF s \in holders THEN value ELSE NoRow
  <2>1. CASE Seen(v, d, n, key, s) = v /\ \A i \in 1 .. n : ~(d[i].key = key /\ s \in d[i].subs)
    <3>1. s \notin leavers /\ s \notin holders
      BY <1>4, <2>1 DEF IsWriteTold
    <3> QED BY <2>1, <3>1
  <2>2. CASE \E i \in 1 .. n : d[i].key = key /\ s \in d[i].subs /\ Seen(v, d, n, key, s) = d[i].image
    BY <1>4, <2>2 DEF IsWriteTold
  <2> QED BY <1>2, <2>1, <2>2 DEF SeenIn
<1> QED BY <1>3, <1>4

LEMMA WriteTells ==
    ASSUME NEW log, NEW asked, NEW top, NEW p, IsPoint(log, asked, top, p), NEW e, NEW r,
           Routes(log, asked, p, e, r), NEW S \in SUBSET Nat, S \subseteq p.live
    PROVE  TellsView(log, p, e.deltas, S, r)
<1> DEFINE W == ViewAt(log, p)
           X == ViewAt(log, r)
           T == TableAt(log, p.at)
           U == TableAt(log, r.at)
<1>1. PICK d, key, value : d = e.deltas /\ key = log[e.at].key /\ value = log[e.at].value
  OBVIOUS
<1>2. PICK leavers, holders : /\ TellsWrite(d, key, value, leavers, holders)
                              /\ Moved(asked, p, r, key, value, leavers, holders)
  BY <1>1 DEF Routes
<1>3. IsWriteTold(d, key, value, leavers, holders)
  BY <1>2, WriteTold
<1>4. /\ leavers \subseteq p.known /\ holders \subseteq p.known /\ leavers \cap holders = {}
      /\ (leavers \cup holders # {} => key \in Keys) /\ r.known = p.known
  BY <1>2 DEF Moved, Routes
<1>5. /\ IsSeq(d) /\ OnKeys(d) /\ \A i \in 1 .. Len(d) : d[i].subs \subseteq r.known
  BY <1>3, <1>4 DEF IsWriteTold, OnKeys
<1>6. \A k \in Keys : \A s \in S : /\ W[k][s] = IF k \in p.shown[s] THEN T[k] ELSE NoRow
                                   /\ X[k][s] = IF k \in r.shown[s] THEN U[k] ELSE NoRow
  BY DEF ViewAt
<1>7. \A k \in Keys : U[k] = IF k = key THEN value ELSE T[k]
  <2>1. p.at \in Nat /\ e.at = p.at + 1 /\ r.at = p.at + 1
    BY DEF IsPoint, Routes
  <2> QED BY <1>1, <2>1, TableNext
<1>8. \A s \in S : /\ s \in leavers <=> key \in p.shown[s] /\ s \notin holders
                   /\ r.shown[s] = (p.shown[s] \ {key}) \cup (IF s \in holders THEN {key} ELSE {})
  BY <1>2 DEF Moved
<1>9. ASSUME NEW k \in Keys, NEW s \in S, NEW n \in 0 .. Len(d)
      PROVE  /\ n < Len(d) => Seen(W[k][s], d, n, k, s) \in {NoRow, T[k]}
             /\ n = Len(d) => Seen(W[k][s], d, n, k, s) = X[k][s]
             /\ X[k][s] \in {NoRow, U[k]}
  <2>0. PICK v : v = W[k][s]
    OBVIOUS
  <2>1. v \in {NoRow, T[k]} /\ X[k][s] \in {NoRow, U[k]}
    BY <1>6, <2>0
  <2>2. CASE k = key
    <3>1. v # NoRow => s \in leavers \/ s \in holders
      BY <1>6, <1>8, <2>0, <2>2
    <3>2. /\ n < Len(d) => Seen(v, d, n, key, s) \in {v, NoRow}
          /\ n = Len(d) => Seen(v, d, n, key, s) = IF s \in holders THEN value ELSE NoRow
      <4> HIDE DEF W, X, T, U
      <4> QED BY <1>3, <1>4, <2>2, <3>1, WriteSeen
    <3>3. X[k][s] = IF s \in holders THEN value ELSE NoRow
      <4> HIDE DEF W, X, T, U
      <4> QED BY <1>6, <1>7, <1>8, <2>2
    <3> QED BY <2>0, <2>1, <2>2, <3>2, <3>3
  <2>3. CASE k # key
    <3>1. n \in Nat /\ \A i \in 1 .. n : d[i].key = key
      BY <1>3 DEF IsWriteTold
    <3>2. SeenIn(v, d, n, k, s)
      BY <3>1, SeenOf
    <3>3. Seen(v, d, n, k, s) = v
      BY <2>3, <3>1, <3>2 DEF SeenIn
    <3>4. X[k][s] = W[k][s]
      <4> HIDE DEF W, X, T, U
      <4> QED BY <1>6, <1>7, <1>8, <2>3
    <3> QED BY <2>0, <2>1, <3>3, <3>4
  <2> QED BY <2>2, <2>3
<1> HIDE DEF W, X, T, U
<1>10. Agreed(W, d, S)
  <2> SUFFICES ASSUME NEW n \in 0 .. Len(d), NEW k \in Keys, NEW s \in S, NEW u \in S
               PROVE  \/ Seen(W[k][s], d, n, k, s) = NoRow \/ Seen(W[k][u], d, n, k, u) = NoRow
                      \/ Seen(W[k][s], d, n, k, s) = Seen(W[k][u], d, n, k, u)
    BY DEF Agreed, Agrees
  <2>1. CASE n = Len(d)
    BY <1>9, <2>1
  <2>2. CASE n < Len(d)
    BY <1>9, <2>2
  <2>3. Len(d) \in Nat
    BY <1>3 DEF IsWriteTold
  <2> QED BY <2>1, <2>2, <2>3
<1>11. \A k \in Keys : \A s \in S : Seen(W[k][s], d, Len(d), k, s) = X[k][s]
  <2>1. Len(d) \in 0 .. Len(d)
    BY <1>3 DEF IsWriteTold
  <2> QED BY <1>9, <2>1
<1> QED BY <1>1, <1>5, <1>10, <1>11 DEF TellsView, W, X

LEMMA MoveTells ==
    ASSUME NEW log, NEW asked, NEW top, NEW p, IsPoint(log, asked, top, p), NEW e, NEW r,
           Moves(log, asked, p, e, r), NEW S \in SUBSET Nat, S \subseteq r.live
    PROVE  TellsView(log, p, DeltasOf(e), S, r)
<1>1. CASE Registers(log, p, e, r)
  <2>1. /\ DeltasOf(e) = e.deltas /\ TellsRows(log, p.at, e.deltas, e.token) /\ e.token \in r.known
        /\ r.at = p.at
    BY <1>1 DEF Registers, DeltasOf
  <2>2. \A s \in S : r.shown[s] = IF s = e.token THEN p.shown[s] \cup KeysOf(e.deltas) ELSE p.shown[s]
    BY <1>1 DEF Registers, IsPoint
  <2>3. PICK d, t : d = e.deltas /\ t = e.token
    OBVIOUS
  <2>4. TellsRows(log, p.at, d, t) /\ DeltasOf(e) = d /\ t \in r.known /\ r.at = p.at
        /\ \A s \in S : r.shown[s] = IF s = t THEN p.shown[s] \cup KeysOf(d) ELSE p.shown[s]
    BY <2>1, <2>2, <2>3
  <2>5. TellsView(log, p, d, S, r)
    BY <2>4, RowsSeen
  <2> QED BY <2>4, <2>5
<1>2. CASE Lands(log, p, e, r)
  <2>1. PICK t \in p.known : /\ TellsRows(log, p.at, e.deltas, t)
                             /\ r.shown = [p.shown EXCEPT ![t] = @ \cup KeysOf(e.deltas)]
    BY <1>2 DEF Lands
  <2>2. DeltasOf(e) = e.deltas /\ t \in r.known /\ r.at = p.at
    BY <1>2 DEF Lands, DeltasOf
  <2>3. \A s \in S : r.shown[s] = IF s = t THEN p.shown[s] \cup KeysOf(e.deltas) ELSE p.shown[s]
    BY <2>1 DEF IsPoint
  <2>4. PICK d : d = e.deltas
    OBVIOUS
  <2>5. TellsRows(log, p.at, d, t) /\ DeltasOf(e) = d /\ t \in r.known /\ r.at = p.at
        /\ \A s \in S : r.shown[s] = IF s = t THEN p.shown[s] \cup KeysOf(d) ELSE p.shown[s]
    BY <2>1, <2>2, <2>3, <2>4
  <2>6. TellsView(log, p, d, S, r)
    BY <2>5, RowsSeen
  <2> QED BY <2>5, <2>6
<1>3. CASE Hydrates(p, e, r) \/ Refuses(p, e, r)
  <2>1. DeltasOf(e) = <<>> /\ r.shown = p.shown /\ r.at = p.at
    BY <1>3 DEF Hydrates, Refuses, DeltasOf
  <2>2. ViewAt(log, r) = ViewAt(log, p)
    BY <2>1 DEF ViewAt
  <2>3. IsSeq(<<>>) /\ Len(<<>>) = 0
    BY EmptyIsSeq
  <2>4. PICK W, d : W = ViewAt(log, p) /\ d = <<>>
    OBVIOUS
  <2>5. \A k, s : Seen(W[k][s], d, 0, k, s) = W[k][s]
    BY SeenNone
  <2>6. \A k \in Keys : \A s \in S : W[k][s] \in {NoRow, TableAt(log, p.at)[k]}
    BY <2>4 DEF ViewAt
  <2>7. Agreed(W, d, S)
    <3>1. \A n \in 0 .. Len(d) : n = 0
      BY <2>3, <2>4
    <3>2. Agrees(W, d, 0, S)
      BY <2>5, <2>6 DEF Agrees
    <3> QED BY <3>1, <3>2 DEF Agreed
  <2>8. OnKeys(d) /\ \A i \in 1 .. Len(d) : d[i].subs \subseteq r.known
    BY <2>3, <2>4 DEF OnKeys
  <2> QED BY <2>1, <2>2, <2>3, <2>4, <2>5, <2>7, <2>8 DEF TellsView
<1>4. CASE Routes(log, asked, p, e, r)
  <2>1. DeltasOf(e) = e.deltas /\ S \subseteq p.live
    BY <1>4 DEF Routes, DeltasOf
  <2> QED BY <1>4, <2>1, WriteTells
<1> QED BY <1>1, <1>2, <1>3, <1>4 DEF Moves

-----------------------------------------------------------------------------
(* What a change of the group leaves of its view, and of what it owes *)

\* Got queries put, among those queued.
IsPut(queued, h) == h \in DOMAIN queued /\ queued[h]
GotOwed(g, got) ==
    \A h : h \in Complete(g) <=> IsPut(g.queued.got, h) \/ (h \in got /\ h \notin DOMAIN g.queued.got)
IdsOwed(g, ids) == \A u \in Tabs : u \in g.queued.ids \/ g.lmids[u] <= ids[u]
\* A store that has all of the group's view once what is queued is applied.
Owing(g, x) ==
    RowsOwed(g.rows, g.queued.rows, x.rows) /\ GotOwed(g, x.got) /\ IdsOwed(g, x.ids)
OwesOn(g, h) == \A x : Owing(g, x) => Owing(h, x)

IsLedger(g) == Queues(g) /\ IsQueries(g.queries) /\ IsBook(g.rows, SubsOf(g.queries))
ViewKept(g, h, S) == \A k \in Keys : \A s \in S : View(h.rows)[k][s] = View(g.rows)[k][s]
Unread(x) == x.sub = 0 /\ x.got = FALSE
SameRead(x, y) == y.sub = x.sub /\ y.got = x.got
\* The view of the subscriptions left is the same, and so are their queries.
Views(g, h) ==
    /\ Queues(h) /\ IsBook(h.rows, SubsOf(h.queries))
    /\ SubsOf(h.queries) \subseteq SubsOf(g.queries)
    /\ ViewKept(g, h, SubsOf(h.queries))
    /\ \A q \in DOMAIN h.queries :
        \/ Unread(h.queries[q])
        \/ q \in DOMAIN g.queries /\ SameRead(g.queries[q], h.queries[q])
Follows(g, h) == Views(g, h) /\ OwesOn(g, h)

\* Queries that are read are the same.
Relabelled(qs, rs) ==
    /\ \A q \in DOMAIN rs :
        Unread(rs[q]) \/ (q \in DOMAIN qs /\ SameRead(qs[q], rs[q]))
    /\ \A q \in DOMAIN qs :
        Unread(qs[q]) \/ (q \in DOMAIN rs /\ SameRead(qs[q], rs[q]))

LEMMA RearrangedFollows ==
    ASSUME NEW g, IsLedger(g), NEW h, Rearranged(g, h), Relabelled(g.queries, h.queries)
    PROVE  Follows(g, h)
<1>1. SubsOf(h.queries) = SubsOf(g.queries)
  <2>1. ASSUME NEW s \in SubsOf(h.queries) PROVE s \in SubsOf(g.queries)
    BY <2>1 DEF SubsOf, Relabelled, Unread, SameRead
  <2>2. ASSUME NEW s \in SubsOf(g.queries) PROVE s \in SubsOf(h.queries)
    BY <2>2 DEF SubsOf, Relabelled, Unread, SameRead
  <2> QED BY <2>1, <2>2
<1>2. Complete(h) = Complete(g)
  <2>1. ASSUME NEW q \in Complete(h) PROVE q \in Complete(g)
    BY <2>1 DEF Complete, Known, Relabelled, Unread, SameRead
  <2>2. ASSUME NEW q \in Complete(g) PROVE q \in Complete(h)
    BY <2>2 DEF Complete, Known, Relabelled, Unread, SameRead
  <2> QED BY <2>1, <2>2
<1>3. /\ h.rows = g.rows /\ h.queued.rows = g.queued.rows /\ h.queued.got = g.queued.got
      /\ h.queued.ids = g.queued.ids /\ h.lmids = g.lmids /\ Queues(h)
  BY DEF Rearranged, SameNews, SameRows, Kept
<1>4. Views(g, h)
  BY <1>1, <1>3 DEF Views, ViewKept, Relabelled, IsLedger
<1>5. OwesOn(g, h)
  BY <1>2, <1>3 DEF OwesOn, Owing, GotOwed, IdsOwed
<1> QED BY <1>4, <1>5 DEF Follows

\* Rows without those only one subscription shows.
LEMMA ReleasedRows ==
    ASSUME NEW g, Queues(g), NEW S \in SUBSET Nat, IsBook(g.rows, S), NEW sub, NEW r, r = Released(g, sub)
    PROVE  /\ IsBook(r.rows, S \ {sub}) /\ ViewKept(g, r, S \ {sub})
           /\ \A shown : RowsOwed(g.rows, g.queued.rows, shown) => RowsOwed(r.rows, r.queued.rows, shown)
<1> DEFINE emptied == OnlyHeld(g, sub)
           rows == [k \in Keys |-> IF k \in emptied THEN NothingHeld
                                   ELSE [g.rows[k] EXCEPT !.holders = @ \ {sub}]]
           queued == [k \in emptied \cup DOMAIN g.queued.rows |->
                        IF k \in emptied THEN NoRow ELSE g.queued.rows[k]]
<1>1. Released(g, sub) = Ledgered(g, rows, queued)
  <2>1. DOMAIN g = GroupFields
    BY DEF Queues, IsGroup
  <2>2. \A x : [g EXCEPT !.rows = x].queued.rows = g.queued.rows
    BY <2>1 DEF GroupFields
  <2> QED BY <2>2 DEF Released, Ledgered
<1>2. r.rows = rows /\ r.queued.rows = queued
  <2> HIDE DEF rows, queued
  <2> QED BY <1>1, LedgeredOnly
<1>3. \A k \in Keys : k \in emptied <=> g.rows[k].holders = {sub}
  BY DEF OnlyHeld
<1>4. ASSUME NEW k \in Keys
      PROVE  /\ DOMAIN rows[k] = {"holders", "image"} /\ rows[k].holders = g.rows[k].holders \ {sub}
             /\ rows[k].image = IF k \in emptied THEN NoRow ELSE g.rows[k].image
  <2>1. DOMAIN g.rows[k] = {"holders", "image"}
    BY DEF IsBook
  <2>2. CASE k \in emptied
    BY <1>3, <2>2 DEF NothingHeld
  <2>3. CASE k \notin emptied
    BY <2>1, <2>3
  <2> QED BY <2>2, <2>3
<1>5. DOMAIN rows = Keys
  OBVIOUS
<1> HIDE DEF rows
<1>6. IsBook(rows, S \ {sub})
  <2> SUFFICES ASSUME NEW k \in Keys
               PROVE  /\ rows[k].holders \subseteq S \ {sub}
                      /\ rows[k].holders = {} <=> rows[k].image = NoRow
    BY <1>4, <1>5 DEF IsBook
  <2>1. g.rows[k].holders \subseteq S /\ (g.rows[k].holders = {} <=> g.rows[k].image = NoRow)
    BY DEF IsBook
  <2>2. k \in emptied <=> g.rows[k].holders = {sub}
    BY <1>3
  <2> QED BY <1>4, <2>1, <2>2
<1>7. ASSUME NEW k \in Keys, NEW s \in S \ {sub} PROVE View(rows)[k][s] = View(g.rows)[k][s]
  <2>1. k \in emptied => s \notin g.rows[k].holders
    BY <1>3
  <2>2. /\ View(rows)[k][s] = IF s \in rows[k].holders THEN rows[k].image ELSE NoRow
        /\ View(g.rows)[k][s] = IF s \in g.rows[k].holders THEN g.rows[k].image ELSE NoRow
    BY DEF View
  <2> QED BY <1>4, <2>1, <2>2
<1>8. ASSUME NEW shown, RowsOwed(g.rows, g.queued.rows, shown) PROVE RowsOwed(rows, queued, shown)
  <2> SUFFICES ASSUME NEW k \in Keys
               PROVE  rows[k].image = IF k \in DOMAIN queued THEN queued[k] ELSE shown[k]
    BY DEF RowsOwed
  <2>1. g.rows[k].image = IF k \in DOMAIN g.queued.rows THEN g.queued.rows[k] ELSE shown[k]
    BY <1>8 DEF RowsOwed
  <2> QED BY <1>4, <2>1
<1> QED BY <1>2, <1>6, <1>7, <1>8 DEF ViewKept

\* A query's rows are released and what is got of it is withdrawn.
LEMMA ReleasedFollows ==
    ASSUME NEW g, IsLedger(g), NEW h \in DOMAIN g.queries, g.queries[h].got \in BOOLEAN,
           NEW w, w = GotWithdrawn(g, h), NEW sub,
           NEW r, r = Released(w, sub) \/ (r = w /\ sub \notin SubsOf(g.queries)),
           NEW rs, SubsOf(rs) = SubsOf(g.queries) \ {sub},
           h \in DOMAIN rs => Unread(rs[h]),
           \A q \in DOMAIN g.queries \ {h} : q \in DOMAIN rs /\ rs[q] = g.queries[q],
           DOMAIN rs \subseteq DOMAIN g.queries,
           NEW x, x = Labels(r, rs)
    PROVE  Follows(g, x)
<1> DEFINE S == SubsOf(g.queries)
<1>0. S \in SUBSET Nat
  BY DEF SubsOf, IsLedger, IsQueries, IsQuery
<1>1. /\ Queues(w) /\ w.rows = g.rows /\ w.queued.rows = g.queued.rows
      /\ w.queued.ids = g.queued.ids /\ w.lmids = g.lmids /\ SameNews(g, w)
  BY WithdrawnOnly DEF SameNews, SameRows, Kept, IsLedger
<1>2. w.queued.got = IF g.queries[h].got THEN With(g.queued.got, h, FALSE) ELSE g.queued.got
  <2>1. CASE g.queries[h].got
    <3>1. PICK y : y = With(g.queued.got, h, FALSE)
      OBVIOUS
    <3>2. w = Gotten(g, y)
      BY <2>1, <3>1 DEF GotWithdrawn, Gotten
    <3>3. w.queued.got = y
      BY <3>2, GottenOnly DEF IsLedger
    <3> QED BY <2>1, <3>1, <3>3
  <2>2. CASE ~g.queries[h].got
    BY <2>2 DEF GotWithdrawn
  <2> QED BY <2>1, <2>2
<1>3. /\ Queues(r) /\ IsBook(r.rows, S \ {sub}) /\ ViewKept(g, r, S \ {sub})
      /\ r.queued.got = w.queued.got /\ r.queued.ids = g.queued.ids /\ r.lmids = g.lmids
      /\ \A shown : RowsOwed(g.rows, g.queued.rows, shown) => RowsOwed(r.rows, r.queued.rows, shown)
  <2>1. CASE r = Released(w, sub)
    <3>1. /\ SameNews(w, r) /\ r.queued.got = w.queued.got
      BY <1>1, <2>1, ReleasedOnly
    <3>2. IsBook(w.rows, S)
      BY <1>1 DEF IsLedger
    <3> HIDE DEF S
    <3>3. /\ IsBook(r.rows, S \ {sub}) /\ ViewKept(w, r, S \ {sub})
          /\ \A shown : RowsOwed(w.rows, w.queued.rows, shown) => RowsOwed(r.rows, r.queued.rows, shown)
      BY <1>0, <1>1, <2>1, <3>2, ReleasedRows
    <3> QED BY <1>1, <3>1, <3>3 DEF SameNews, Kept, ViewKept
  <2>2. CASE r = w /\ sub \notin S
    <3>1. S \ {sub} = S
      BY <2>2
    <3> QED BY <1>1, <2>2, <3>1 DEF ViewKept, IsLedger
  <2> QED BY <2>1, <2>2
<1>4. /\ Queues(x) /\ x.rows = r.rows /\ x.queued.rows = r.queued.rows /\ x.queued.got = r.queued.got
      /\ x.queued.ids = r.queued.ids /\ x.lmids = r.lmids /\ x.queries = rs
  BY <1>3, LabelsOnly DEF Rearranged, SameNews, SameRows, Kept
<1>5. Views(g, x)
  BY <1>3, <1>4 DEF Views, ViewKept, SameRead
<1>6. ASSUME NEW q PROVE q \in Complete(x) <=> q \in Complete(g) /\ q # h
  BY <1>4 DEF Complete, Known, Unread
<1>7. ASSUME NEW got, GotOwed(g, got) PROVE GotOwed(x, got)
  <2> SUFFICES ASSUME NEW q
               PROVE  q \in Complete(x) <=> IsPut(x.queued.got, q) \/ (q \in got /\ q \notin DOMAIN x.queued.got)
    BY DEF GotOwed
  <2>1. q \in Complete(g) <=> IsPut(g.queued.got, q) \/ (q \in got /\ q \notin DOMAIN g.queued.got)
    BY <1>7 DEF GotOwed
  <2>2. CASE g.queries[h].got
    <3>0. x.queued.got = With(g.queued.got, h, FALSE)
      BY <1>2, <1>3, <1>4, <2>2
    <3>1. PICK f, y : f = g.queued.got /\ y = x.queued.got /\ y = With(f, h, FALSE)
      BY <3>0
    <3>2. IsPut(y, q) <=> q # h /\ IsPut(f, q)
      BY <3>1 DEF IsPut, With
    <3>3. q \in DOMAIN y <=> q = h \/ q \in DOMAIN f
      BY <3>1 DEF With
    <3>4. ~(h \in Complete(x))
      BY <1>6
    <3> QED BY <1>6, <2>1, <3>1, <3>2, <3>3, <3>4
  <2>3. CASE ~g.queries[h].got
    <3>1. x.queued.got = g.queued.got
      BY <1>2, <1>3, <1>4, <2>3
    <3>2. h \notin Complete(g)
      BY <2>3 DEF Complete
    <3> QED BY <1>6, <2>1, <3>1, <3>2
  <2> QED BY <2>2, <2>3
<1>8. OwesOn(g, x)
  BY <1>3, <1>4, <1>7 DEF OwesOn, Owing, IdsOwed
<1> QED BY <1>5, <1>8 DEF Follows

LEMMA RefuseFollows ==
    ASSUME NEW g, IsLedger(g), NEW h \in DOMAIN g.queries, g.queries[h].got \in BOOLEAN
    PROVE  Follows(g, Refuse(g, h))
<1> DEFINE w == GotWithdrawn(g, h)
           sub == g.queries[h].sub
           r == Released(w, sub)
           x == [g.queries[h] EXCEPT !.sub = 0, !.awaiting = 0, !.got = FALSE, !.refused = "fresh"]
           rs == [g.queries EXCEPT ![h] = x]
<1>1. IsGroup(g) /\ IsGroup(w) /\ IsGroup(r)
  BY WithdrawnKept, ReleasedKept DEF Kept, IsLedger, Queues
<1>2. r.queries = g.queries
  BY <1>1, QueriesLeft
<1>3. Refuse(g, h) = Labels(r, rs)
  <2>1. Refuse(g, h) = [r EXCEPT !.queries = [r.queries EXCEPT ![h] =
                [@ EXCEPT !.sub = 0, !.awaiting = 0, !.got = FALSE, !.refused = "fresh"]]]
    BY <1>1 DEF Refuse, IsGroup, GroupFields
  <2> QED BY <1>2, <2>1 DEF Labels
<1>4. SubsOf(rs) = SubsOf(g.queries) \ {sub}
  <2>1. SubsOf(Refuse(g, h).queries) = SubsOf(g.queries) \ {sub}
    BY <1>1, RefuseSets DEF IsLedger
  <2>2. Labels(r, rs).queries = rs
    <3> HIDE DEF rs, r
    <3> QED BY <1>1 DEF Labels, IsGroup, GroupFields
  <2> QED BY <1>3, <2>1, <2>2
<1>5. Unread(rs[h]) /\ DOMAIN rs = DOMAIN g.queries /\ \A q \in DOMAIN g.queries \ {h} : rs[q] = g.queries[q]
  BY DEF Unread, IsLedger, IsQueries, IsQuery, QueryFields
<1>6. PICK w0, r0, sub0, rs0 : w0 = w /\ r0 = r /\ sub0 = sub /\ rs0 = rs
  OBVIOUS
<1>7. r0 = Released(w0, sub0) /\ w0 = GotWithdrawn(g, h)
  BY <1>6
<1> HIDE DEF w, r, sub, rs
<1> QED BY <1>3, <1>4, <1>5, <1>6, <1>7, ReleasedFollows

LEMMA UnsubscribedFollows ==
    ASSUME NEW g, IsLedger(g), NEW h \in DOMAIN g.queries, g.queries[h].got \in BOOLEAN
    PROVE  Follows(g, Unsubscribed(g, h))
<1> DEFINE w == GotWithdrawn(g, h)
           sub == g.queries[h].sub
           r == IF sub = 0 THEN w ELSE Released(w, sub)
           rs == [q \in DOMAIN g.queries \ {h} |-> g.queries[q]]
<1>1. IsGroup(g) /\ IsGroup(w) /\ IsGroup(r)
  BY WithdrawnKept, ReleasedKept DEF Kept, IsLedger, Queues
<1>2. r.queries = g.queries
  BY <1>1, QueriesLeft
<1>3. Unsubscribed(g, h) = Labels(r, rs)
  <2>1. Unsubscribed(g, h) = [r EXCEPT !.queries = Restrict(@, DOMAIN @ \ {h})]
    BY DEF Unsubscribed
  <2>2. Restrict(r.queries, DOMAIN r.queries \ {h}) = rs
    BY <1>2 DEF Restrict
  <2> HIDE DEF r, rs
  <2> QED BY <2>1, <2>2 DEF Labels
<1>4. SubsOf(rs) = SubsOf(g.queries) \ {sub}
  <2>1. SubsOf(Unsubscribed(g, h).queries) = SubsOf(g.queries) \ {sub}
    BY <1>1, UnsubscribedSets DEF IsLedger
  <2>2. Labels(r, rs).queries = rs
    <3> HIDE DEF rs, r
    <3> QED BY <1>1 DEF Labels, IsGroup, GroupFields
  <2> QED BY <1>3, <2>1, <2>2
<1>5. h \notin DOMAIN rs /\ DOMAIN rs \subseteq DOMAIN g.queries
      /\ \A q \in DOMAIN g.queries \ {h} : q \in DOMAIN rs /\ rs[q] = g.queries[q]
  OBVIOUS
<1>6. PICK w0, r0, sub0, rs0 : w0 = w /\ r0 = r /\ sub0 = sub /\ rs0 = rs
  OBVIOUS
<1>7. /\ r0 = Released(w0, sub0) \/ (r0 = w0 /\ sub0 \notin SubsOf(g.queries))
      /\ w0 = GotWithdrawn(g, h)
  <2>1. 0 \notin SubsOf(g.queries)
    BY DEF SubsOf
  <2> QED BY <1>6, <2>1
<1> HIDE DEF w, r, sub, rs
<1> QED BY <1>3, <1>4, <1>5, <1>6, <1>7, ReleasedFollows

\* Nothing is got of a query without a subscription.
GotRead(qs) == \A q \in DOMAIN qs : qs[q].got \in BOOLEAN /\ (qs[q].sub = 0 => qs[q].got = FALSE)

LEMMA MarkedRelabelled == ASSUME NEW qs, NEW rs, Marked(qs, rs) PROVE Relabelled(qs, rs)
BY DEF Marked, Relabelled, SameRead

LEMMA LabelsFollow ==
    ASSUME NEW g, IsLedger(g), NEW d, Rearranged(g, d), NEW rs, Relabelled(g.queries, rs),
           NEW x, x = Labels(d, rs)
    PROVE  Follows(g, x)
<1>1. Queues(d)
  BY DEF Rearranged, SameNews
<1>2. Rearranged(d, x) /\ x.queries = rs
  BY <1>1, LabelsOnly
<1>3. Rearranged(g, x)
  BY <1>2, NewsFollow
<1> QED BY <1>2, <1>3, RearrangedFollows

LEMMA PutFollows ==
    ASSUME IsLedger(group), GotRead(group.queries), NEW w \in Wires, Put(w)
    PROVE  Follows(group, group')
<1> DEFINE h == Head(wires[w].asks).hash
           d == Desiring(group, wires[w].tab, h)
           qs == group.queries
<1>1. Rearranged(group, d) /\ d.queries = qs
  BY DesiresOnly DEF IsLedger
<1>2. IsQueries(qs) /\ DOMAIN d = GroupFields
  BY <1>1, Zenon DEF IsLedger, Rearranged, SameNews, Queues, IsGroup
<1>3. CASE \E n : group' = Remembering(d, h, NewQuery(n)) /\ (h \in DOMAIN qs => qs[h].refused = "cooled")
  <2>1. PICK n : group' = Remembering(d, h, NewQuery(n)) /\ (h \in DOMAIN qs => qs[h].refused = "cooled")
    BY <1>3
  <2> DEFINE x == NewQuery(n)
             rs == With(qs, h, x)
  <2>2. Unread(x) /\ (h \in DOMAIN qs => Unread(qs[h]))
    BY <1>2, <2>1 DEF Unread, NewQuery, IsQueries, IsQuery, GotRead
  <2>3. group' = Labels(d, rs)
    <3>1. group' = [d EXCEPT !.queries = With(d.queries, h, x)]
      BY <1>2, <2>1 DEF Remembering, GroupFields
    <3> HIDE DEF x, d
    <3> QED BY <1>1, <3>1 DEF Labels
  <2> HIDE DEF x
  <2>4. DOMAIN rs = DOMAIN qs \cup {h} /\ rs[h] = x /\ \A q \in DOMAIN qs : q # h => rs[q] = qs[q]
    BY DEF With
  <2> HIDE DEF rs, d, qs, h
  <2>5. Relabelled(qs, rs)
    BY <2>2, <2>4 DEF Relabelled, SameRead
  <2> QED BY <1>1, <2>3, <2>5, LabelsFollow DEF qs
<1>4. CASE h \in DOMAIN qs /\ group' = [d EXCEPT !.queries[h].inactive = FALSE]
  <2> DEFINE x == [qs[h] EXCEPT !.inactive = FALSE]
             rs == [qs EXCEPT ![h] = x]
  <2>1. group' = Labels(d, rs)
    <3>1. group' = [d EXCEPT !.queries = [d.queries EXCEPT ![h] = [d.queries[h] EXCEPT !.inactive = FALSE]]]
      BY <1>2, <1>4, Zenon DEF GroupFields
    <3> HIDE DEF d
    <3> QED BY <1>1, <3>1 DEF Labels
  <2>2. x.sub = qs[h].sub /\ x.got = qs[h].got
    <3>1. DOMAIN qs[h] = QueryFields
      BY <1>2, <1>4, Zenon DEF IsQueries, IsQuery
    <3>2. PICK q : q = qs[h]
      OBVIOUS
    <3> QED BY <3>1, <3>2 DEF QueryFields
  <2> HIDE DEF x
  <2>3. DOMAIN rs = DOMAIN qs /\ rs[h] = x /\ \A q \in DOMAIN qs : q # h => rs[q] = qs[q]
    BY <1>4, Zenon
  <2> HIDE DEF rs, d, qs, h
  <2>4. Relabelled(qs, rs)
    BY <2>2, <2>3 DEF Relabelled, SameRead
  <2> QED BY <1>1, <2>1, <2>4, LabelsFollow DEF qs
<1> HIDE DEF d
<1>5. \/ \E n : group' = Remembering(d, h, NewQuery(n)) /\ (h \in DOMAIN qs => qs[h].refused = "cooled")
      \/ h \in DOMAIN qs /\ group' = [d EXCEPT !.queries[h].inactive = FALSE]
  BY Zenon DEF Put, NotPlanned, Anew, d, Known
<1> QED BY <1>3, <1>4, <1>5, Zenon

LEMMA LetGoFollows ==
    ASSUME IsLedger(group), NEW w \in Wires, Del(w) \/ DeleteClient(w) PROVE Follows(group, group')
<1>0. Queues(group) /\ IsQueries(group.queries)
  BY DEF IsLedger
<1>1. CASE Del(w)
  <2>1. PICK client, hashes, x : group' = Echoes(LetGo(group, client, hashes), x)
    BY <1>1 DEF Del, Echoes
  <2>2. PICK d : d = LetGo(group, client, hashes)
    OBVIOUS
  <2>3. Rearranged(group, d) /\ Marked(group.queries, d.queries) /\ Queues(d)
    BY <1>0, <2>2, LetGoOnly DEF Rearranged, SameNews
  <2>4. Rearranged(d, group') /\ group'.queries = d.queries
    BY <2>1, <2>2, <2>3, LabelsOnly
  <2>5. Rearranged(group, group') /\ Relabelled(group.queries, group'.queries)
    BY <2>3, <2>4, NewsFollow, MarkedRelabelled
  <2> QED BY <2>5, RearrangedFollows
<1>2. CASE DeleteClient(w)
  <2>1. PICK client, hashes : group' = LetGo(group, client, hashes)
    BY <1>2 DEF DeleteClient
  <2>2. Rearranged(group, group') /\ Marked(group.queries, group'.queries)
    BY <1>0, <2>1, LetGoOnly
  <2> QED BY <2>2, MarkedRelabelled, RearrangedFollows
<1> QED BY <1>1, <1>2

LEMMA CoolFollows ==
    ASSUME IsLedger(group), NEW h \in Known(group), Cool(h) PROVE Follows(group, group')
<1> DEFINE qs == group.queries
           x == [qs[h] EXCEPT !.refused = "cooled"]
           rs == [qs EXCEPT ![h] = x]
<1>1. IsQueries(qs) /\ DOMAIN group = GroupFields /\ h \in DOMAIN qs /\ Rearranged(group, group)
  BY NewsFollow DEF IsLedger, Queues, IsGroup, Known
<1>2. group' = Labels(group, rs)
  BY <1>1 DEF Cool, Labels, GroupFields
<1>3. x.sub = qs[h].sub /\ x.got = qs[h].got
  BY <1>1 DEF IsQueries, IsQuery, QueryFields
<1> HIDE DEF x
<1>4. DOMAIN rs = DOMAIN qs /\ rs[h] = x /\ \A q \in DOMAIN qs : q # h => rs[q] = qs[q]
  BY <1>1
<1> HIDE DEF rs, qs
<1>5. Relabelled(qs, rs)
  BY <1>3, <1>4 DEF Relabelled, SameRead
<1> QED BY <1>1, <1>2, <1>5, LabelsFollow DEF qs

\* Requests, connections apart.
Asking ==
    \/ \E w \in Wires : Put(w) \/ Del(w) \/ DeleteClient(w)
    \/ \E h \in Known(group) : ExpireQuery(h) \/ Cool(h)

LEMMA AskingFollows ==
    ASSUME IsLedger(group), GotRead(group.queries), Asking PROVE Follows(group, group')
<1>1. ASSUME NEW h \in Known(group), ExpireQuery(h) PROVE Follows(group, group')
  <2>1. group' = Unsubscribed(group, h) /\ h \in DOMAIN group.queries
    BY <1>1 DEF ExpireQuery, Known
  <2> QED BY <2>1, UnsubscribedFollows DEF GotRead
<1> QED BY <1>1, PutFollows, LetGoFollows, CoolFollows DEF Asking

-----------------------------------------------------------------------------
(* The group's view at its point of the course *)

\* A query's subscription was asked for it; it is got once read whole.
HasRead(x, q, asked, done) ==
    /\ x.got \in BOOLEAN /\ (x.sub # 0 => asked[x.sub] = q)
    /\ x.got = TRUE <=> x.sub # 0 /\ x.sub \in done

\* With the deltas kept, the ledger shows what the engine did at the point p.
Ledger(asked, p) ==
    LET S == SubsOf(group.queries)
    IN  /\ IsLedger(group) /\ S \subseteq p.live
        /\ \A q \in DOMAIN group.queries : HasRead(group.queries[q], q, asked, p.done)
        /\ ShownAs(View(group.rows), pending, p.known, S, ViewAt(wal, p))

LEMMA LedgerRead ==
    ASSUME NEW asked, NEW p, Ledger(asked, p)
    PROVE  /\ GotRead(group.queries) /\ IsLedger(group) /\ SubsOf(group.queries) \in SUBSET Nat
           /\ Queues(group) /\ IsQueries(group.queries)
<1>1. GotRead(group.queries)
  BY DEF Ledger, HasRead, GotRead
<1>2. IsLedger(group)
  BY DEF Ledger
<1>3. Queues(group) /\ IsQueries(group.queries)
  BY <1>2 DEF IsLedger
<1>4. SubsOf(group.queries) \in SUBSET Nat
  BY <1>3 DEF IsQueries, IsQuery, SubsOf
<1> QED BY <1>1, <1>2, <1>3, <1>4

LEMMA ShownLess ==
    ASSUME NEW V, NEW x, NEW K, NEW S, NEW W, ShownAs(V, x, K, S, W),
           NEW R \in SUBSET S, NEW X, \A k \in Keys : \A s \in R : X[k][s] = V[k][s],
           NEW L, K \subseteq L, NEW Y, \A k \in Keys : \A s \in R : Y[k][s] = W[k][s]
    PROVE  ShownAs(X, x, L, R, Y)
<1>1. Agreed(X, x, R)
  BY DEF ShownAs, Agreed, Agrees
<1>2. \A k \in Keys : \A s \in R : Seen(X[k][s], x, Len(x), k, s) = Y[k][s]
  BY DEF ShownAs
<1> QED BY <1>1, <1>2 DEF ShownAs

LEMMA ShownAtOnce ==
    ASSUME NEW K, NEW S, NEW V, NEW W,
           \A k \in Keys : \A s \in S : V[k][s] = W[k][s],
           NEW T, \A k \in Keys : \A s \in S : W[k][s] \in {NoRow, T[k]}
    PROVE  ShownAs(V, <<>>, K, S, W)
<1>1. IsSeq(<<>>) /\ Len(<<>>) = 0
  BY EmptyIsSeq
<1>2. PICK d : d = <<>>
  OBVIOUS
<1>3. \A k, s : Seen(V[k][s], d, 0, k, s) = V[k][s]
  BY SeenNone
<1>4. Agreed(V, d, S)
  <2>1. \A n \in 0 .. Len(d) : n = 0
    BY <1>1, <1>2
  <2>2. Agrees(V, d, 0, S)
    BY <1>3 DEF Agrees
  <2> QED BY <2>1, <2>2 DEF Agreed
<1> QED BY <1>1, <1>2, <1>3, <1>4 DEF ShownAs, OnKeys

\* The log only grows.
LogGoes == wal' = wal \/ \E c : wal' = Append(wal, c)

LEMMA LogKept ==
    ASSUME IsSeq(wal), LogGoes, NEW at \in Nat, at <= Len(wal)
    PROVE  /\ TableAt(wal', at) = TableAt(wal, at)
           /\ \A h : AnswerAt(wal', h, at) = AnswerAt(wal, h, at)
           /\ Len(wal') \in Nat /\ Len(wal) <= Len(wal')
<1>1. CASE wal' = wal
  BY <1>1, SeqParts
<1>2. ASSUME NEW c, wal' = Append(wal, c)
      PROVE  /\ TableAt(wal', at) = TableAt(wal, at)
             /\ \A h : AnswerAt(wal', h, at) = AnswerAt(wal, h, at)
             /\ Len(wal') \in Nat /\ Len(wal) <= Len(wal')
  BY <1>2, TableGrown, Appended, SeqParts
<1> QED BY <1>1, <1>2 DEF LogGoes

\* Nothing was heard.
Stays(p, r) == r.at = p.at /\ r.known = p.known /\ r.done = p.done /\ r.shown = p.shown

LEMMA ViewRests ==
    ASSUME IsSeq(wal), LogGoes, NEW p, NEW r, r.at = p.at, r.shown = p.shown,
           p.at \in Nat, p.at <= Len(wal)
    PROVE  ViewAt(wal', r) = ViewAt(wal, p)
<1>1. TableAt(wal', p.at) = TableAt(wal, p.at)
  BY LogKept
<1> QED BY <1>1 DEF ViewAt

LEMMA LedgerFollows ==
    ASSUME Feed, Registry, Registry', LogGoes, NEW asked, NEW p, Ledger(asked, p),
           p.at \in Nat, p.at <= Len(wal), Views(group, group'), pending' = pending,
           NEW also, Agree(asked, also), NEW r, Stays(p, r), SubsOf(group'.queries) \subseteq r.live
    PROVE  Ledger(also, r)'
<1> DEFINE S == SubsOf(group.queries)
           R == SubsOf(group'.queries)
<1>1. IsLedger(group') /\ R \subseteq S /\ S \subseteq p.live /\ S \subseteq 1 .. minted
  BY DEF Views, IsLedger, Registry, Owned, Ledger
<1>2. R \subseteq r.live
  OBVIOUS
<1>3. ASSUME NEW q \in DOMAIN group'.queries PROVE HasRead(group'.queries[q], q, also, r.done)
  <2>1. CASE Unread(group'.queries[q])
    BY <2>1 DEF Unread, HasRead
  <2>2. CASE q \in DOMAIN group.queries /\ SameRead(group.queries[q], group'.queries[q])
    <3>1. HasRead(group.queries[q], q, asked, p.done)
      BY <2>2 DEF Ledger
    <3>2. group.queries[q].sub # 0 => group.queries[q].sub \in S
      BY <2>2 DEF SubsOf
    <3> QED BY <1>1, <2>2, <3>1, <3>2 DEF HasRead, SameRead, Agree, Stays
  <2> QED BY <2>1, <2>2 DEF Views
<1>4. ViewAt(wal', r) = ViewAt(wal, p)
  BY ViewRests DEF Feed, Stays
<1>5. r.known = p.known
  BY DEF Stays
<1>6. PICK V, X, W : V = View(group.rows) /\ X = View(group'.rows) /\ W = ViewAt(wal, p)
  OBVIOUS
<1>7. ShownAs(V, pending, p.known, S, W) /\ \A k \in Keys : \A s \in R : X[k][s] = V[k][s]
  BY <1>6 DEF Ledger, Views, ViewKept
<1> HIDE DEF S, R
<1>8. ShownAs(X, pending, p.known, R, W)
  <2>1. PICK K, x, Y : K = p.known /\ x = pending /\ Y = W
    OBVIOUS
  <2>2. R \in SUBSET S /\ K \subseteq K /\ \A k \in Keys : \A s \in R : Y[k][s] = W[k][s]
    BY <1>1, <2>1
  <2>3. ShownAs(V, x, K, S, W)
    BY <1>7, <2>1
  <2>4. ShownAs(X, x, K, R, Y)
    BY <1>7, <2>2, <2>3, ShownLess
  <2> QED BY <2>1, <2>4
<1> QED BY <1>1, <1>2, <1>3, <1>4, <1>5, <1>6, <1>8 DEF Ledger, R

\* A group without queries has nothing to show.
LEMMA LedgerBare ==
    ASSUME Registry', Queues(group'), DOMAIN group'.queries = {}, IsBook(group'.rows, {}),
           pending' = <<>>, NEW also, NEW r
    PROVE  Ledger(also, r)'
<1>1. SubsOf(group'.queries) = {} /\ IsLedger(group')
  BY DEF SubsOf, IsLedger, Registry
<1>2. PICK V, W : V = View(group'.rows) /\ W = ViewAt(wal', r)
  OBVIOUS
<1>3. ShownAs(V, <<>>, r.known, {}, W)
  BY ShownAtOnce
<1> QED BY <1>1, <1>2, <1>3 DEF Ledger

-----------------------------------------------------------------------------
(* What is heard *)

\* A subscription nothing was told of yet.
LEMMA ShownMore ==
    ASSUME NEW V, NEW x, NEW K, NEW S, NEW W, ShownAs(V, x, K, S, W), NEW t, t \notin K,
           \A k \in Keys : V[k][t] = NoRow /\ W[k][t] = NoRow
    PROVE  ShownAs(V, x, K, S \cup {t}, W)
<1>1. Len(x) \in Nat /\ IsSeq(x)
  BY SeqParts DEF ShownAs
<1>2. \A n \in 0 .. Len(x) : \A k \in Keys : Seen(V[k][t], x, n, k, t) = NoRow
  <2>1. ASSUME NEW n \in 0 .. Len(x), NEW k \in Keys PROVE Seen(V[k][t], x, n, k, t) = NoRow
    <3>1. Untold(x, n, t) /\ n \in Nat
      BY <1>1 DEF Untold, ShownAs
    <3>2. PICK v : v = V[k][t]
      OBVIOUS
    <3>3. Seen(v, x, n, k, t) = v
      BY <3>1, SeenUntold
    <3> QED BY <3>2, <3>3
  <2> QED BY <2>1
<1>3. Agreed(V, x, S \cup {t})
  <2>1. ASSUME NEW n \in 0 .. Len(x) PROVE Agrees(V, x, n, S \cup {t})
    <3>1. Agrees(V, x, n, S)
      BY DEF ShownAs, Agreed
    <3> QED BY <1>2, <3>1 DEF Agrees
  <2> QED BY <2>1 DEF Agreed
<1>4. \A k \in Keys : \A s \in S \cup {t} : Seen(V[k][s], x, Len(x), k, s) = W[k][s]
  BY <1>1, <1>2 DEF ShownAs
<1> QED BY <1>3, <1>4 DEF ShownAs

\* An event whose deltas are kept.
LEMMA LedgerHears ==
    ASSUME Registry', wal' = wal, NEW asked, NEW p, NEW e, NEW r, IsPoint(wal, asked, minted, p),
           Moves(wal, asked, p, e, r), NEW R \in SUBSET Nat, R = SubsOf(group'.queries),
           R \subseteq r.live, p.known \subseteq r.known,
           Queues(group'), IsBook(group'.rows, R),
           ShownAs(View(group'.rows), pending, p.known, R, ViewAt(wal, p)),
           pending' = pending \o Ours(group', DeltasOf(e)),
           \A q \in DOMAIN group'.queries : HasRead(group'.queries[q], q, asked, r.done)
    PROVE  Ledger(asked, r)'
<1>1. PICK V, W, d, g, K, L, x : /\ V = View(group'.rows) /\ W = ViewAt(wal, p) /\ d = DeltasOf(e)
                                 /\ g = group' /\ K = p.known /\ L = r.known /\ x = pending
  OBVIOUS
<1>2. TellsView(wal, p, DeltasOf(e), R, r)
  BY MoveTells
<1>3. /\ IsSeq(d) /\ OnKeys(d) /\ \A i \in 1 .. Len(d) : d[i].subs \subseteq L
      /\ Agreed(W, d, R)
      /\ \A k \in Keys : \A s \in R : Seen(W[k][s], d, Len(d), k, s) = ViewAt(wal, r)[k][s]
  BY <1>1, <1>2 DEF TellsView
<1>4. ShownAs(V, x, L, R, W)
  <2>1. ShownAs(V, x, K, R, W) /\ K \subseteq L
    BY <1>1
  <2>2. R \in SUBSET R /\ \A k \in Keys : \A s \in R : V[k][s] = V[k][s] /\ W[k][s] = W[k][s]
    OBVIOUS
  <2> QED BY <2>1, <2>2, ShownLess
<1>5. Subs(g) = R
  BY <1>1, GroupSubs
<1>6. ShownAs(V, x \o Ours(g, d), L, R, ViewAfter(W, d, Len(d)))
  BY <1>3, <1>4, <1>5, OursShown
<1>7. PICK y, X, Y : y = x \o Ours(g, d) /\ X = ViewAfter(W, d, Len(d)) /\ Y = ViewAt(wal, r)
  OBVIOUS
<1>8. \A k \in Keys : \A s \in R : Y[k][s] = X[k][s]
  BY <1>3, <1>7 DEF ViewAfter
<1>9. ShownAs(V, y, L, R, Y)
  <2>1. ShownAs(V, y, L, R, X) /\ L \subseteq L
    BY <1>6, <1>7
  <2>2. R \in SUBSET R /\ \A k \in Keys : \A s \in R : V[k][s] = V[k][s]
    OBVIOUS
  <2> QED BY <1>8, <2>1, <2>2, ShownLess
<1>10. ShownAs(View(group'.rows), pending', r.known, R, ViewAt(wal', r))
  BY <1>1, <1>7, <1>9
<1>11. IsLedger(group')
  BY DEF IsLedger, Registry
<1> QED BY <1>10, <1>11 DEF Ledger

LEMMA OursNone == \A g : Ours(g, <<>>) = <<>>
<1>1. IsSeq(<<>>) /\ Len(<<>>) = 0
  BY EmptyIsSeq
<1>2. ASSUME NEW g, NEW d, d = <<>> PROVE Ours(g, d) = <<>>
  <2>1. PICK f : f[0] = <<>> /\ Ours(g, d) = f[Len(d)]
    BY <1>1, <1>2, OursIs
  <2> QED BY <1>1, <1>2, <2>1
<1> QED BY <1>2

\* What a move leaves.
LEMMA MoveKnows ==
    ASSUME NEW log, NEW asked, NEW p, NEW e, NEW r, Moves(log, asked, p, e, r)
    PROVE  /\ p.known \subseteq r.known
           /\ e.kind # "refused" => p.live \subseteq r.live
           /\ e.kind # "hydrated" => r.done = p.done
           /\ e.kind # "committed" => r.at = p.at
           /\ e.kind \in {"hydrated", "refused"} => DeltasOf(e) = <<>>
BY DEF Moves, Registers, Lands, Hydrates, Refuses, Routes, DeltasOf

\* What stays of the ledger when it knows more.
LEMMA LedgerParts ==
    ASSUME NEW asked, NEW p, Ledger(asked, p), NEW S, S = SubsOf(group.queries)
    PROVE  /\ S \in SUBSET Nat /\ S \subseteq p.live /\ Queues(group) /\ IsBook(group.rows, S)
           /\ IsQueries(group.queries)
           /\ ShownAs(View(group.rows), pending, p.known, S, ViewAt(wal, p))
           /\ \A q \in DOMAIN group.queries : HasRead(group.queries[q], q, asked, p.done)
BY LedgerRead DEF Ledger, IsLedger

\* Deltas for a group as it was.
LEMMA SameHears ==
    ASSUME Registry', wal' = wal, NEW asked, NEW p, NEW e, NEW r, IsPoint(wal, asked, minted, p),
           Moves(wal, asked, p, e, r), Ledger(asked, p), group' = group,
           e.kind \notin {"hydrated", "refused"}, pending' = pending \o Ours(group', DeltasOf(e))
    PROVE  Ledger(asked, r)'
<1>1. PICK R : R = SubsOf(group.queries)
  OBVIOUS
<1>2. /\ R \in SUBSET Nat /\ R \subseteq p.live /\ Queues(group) /\ IsBook(group.rows, R)
      /\ ShownAs(View(group.rows), pending, p.known, R, ViewAt(wal, p))
      /\ \A q \in DOMAIN group.queries : HasRead(group.queries[q], q, asked, p.done)
  BY <1>1, LedgerParts
<1>3. p.known \subseteq r.known /\ p.live \subseteq r.live /\ r.done = p.done
  BY MoveKnows
<1> QED BY <1>1, <1>2, <1>3, LedgerHears

\* One query's labels changed.
OneLabel(g, x, h, y) ==
    /\ Queues(x) /\ Kept(g, x) /\ SameRows(g, x) /\ x.queued.ids = g.queued.ids
    /\ DOMAIN x.queries = DOMAIN g.queries /\ x.queries[h] = y
    /\ \A q \in DOMAIN g.queries \ {h} : x.queries[q] = g.queries[q]

Adopted(g, h, t) == [g EXCEPT !.queries[h].awaiting = 0, !.queries[h].sub = t]

LEMMA AdoptedIs ==
    ASSUME NEW g, Queues(g), NEW h \in DOMAIN g.queries, NEW t,
           NEW x, x = Adopted(g, h, t),
           DOMAIN g.queries[h] = QueryFields
    PROVE  /\ \E y : OneLabel(g, x, h, y) /\ y.sub = t /\ y.got = g.queries[h].got
           /\ x.queued = g.queued
<1> DEFINE qs == g.queries
           y == [qs[h] EXCEPT !.awaiting = 0, !.sub = t]
           once == [qs EXCEPT ![h].awaiting = 0]
           rs == [once EXCEPT ![h].sub = t]
<1>0. DOMAIN g = GroupFields
  BY DEF Queues, IsGroup
<1>1. x = [g EXCEPT !.queries = [[@ EXCEPT ![h].awaiting = 0] EXCEPT ![h].sub = t]]
  BY <1>0 DEF GroupFields, Adopted
<1>2. x = Labels(g, rs)
  BY <1>0, <1>1 DEF Labels, GroupFields
<1>3. /\ DOMAIN once = DOMAIN qs /\ once[h] = [qs[h] EXCEPT !.awaiting = 0]
      /\ \A q \in DOMAIN qs \ {h} : once[q] = qs[q]
  OBVIOUS
<1> HIDE DEF once
<1>4. /\ DOMAIN rs = DOMAIN qs /\ rs[h] = [once[h] EXCEPT !.sub = t]
      /\ \A q \in DOMAIN qs \ {h} : rs[q] = qs[q]
  BY <1>3
<1>5. rs[h] = y
  BY <1>3, <1>4
<1>6. y.sub = t /\ y.got = qs[h].got
  BY DEF QueryFields
<1> HIDE DEF rs, y
<1>7. Rearranged(g, x) /\ x.queries = rs /\ x.queued = g.queued
  <2>1. Rearranged(g, Labels(g, rs)) /\ Labels(g, rs).queries = rs
    BY LabelsOnly
  <2>2. Labels(g, rs).queued = g.queued
    BY <1>0 DEF Labels, GroupFields
  <2> QED BY <1>2, <2>1, <2>2
<1>8. OneLabel(g, x, h, y)
  BY <1>3, <1>4, <1>5, <1>7 DEF OneLabel, Rearranged, SameNews
<1> QED BY <1>6, <1>7, <1>8

LEMMA HydratedIs ==
    ASSUME NEW g, Queues(g), NEW h \in DOMAIN g.queries, DOMAIN g.queries[h] = QueryFields,
           NEW x, x = Hydrate(g, h)
    PROVE  /\ \E y : OneLabel(g, x, h, y) /\ y.sub = g.queries[h].sub /\ y.got = TRUE
           /\ x.queued.got = With(g.queued.got, h, TRUE)
<1> DEFINE y == [g.queries[h] EXCEPT !.got = TRUE]
           rs == [g.queries EXCEPT ![h] = y]
           k == Gotten(g, With(g.queued.got, h, TRUE))
<1>0. DOMAIN g = GroupFields
  BY DEF Queues, IsGroup
<1>1. x = Labels(k, rs)
  BY <1>0 DEF Hydrate, Labels, Gotten, GroupFields
<1>2. y.sub = g.queries[h].sub /\ y.got = TRUE
  BY DEF QueryFields
<1>3. DOMAIN rs = DOMAIN g.queries /\ rs[h] = y /\ \A q \in DOMAIN g.queries \ {h} : rs[q] = g.queries[q]
  OBVIOUS
<1> HIDE DEF y, rs
<1>4. /\ SameNews(g, k) /\ SameRows(g, k) /\ k.queries = g.queries
      /\ k.queued.got = With(g.queued.got, h, TRUE) /\ Queues(k)
  BY GottenOnly DEF SameNews
<1> HIDE DEF k
<1>5. Rearranged(k, x) /\ x.queries = rs
  BY <1>1, <1>4, LabelsOnly
<1>6. SameNews(g, x) /\ SameRows(g, x) /\ x.queued.got = k.queued.got
  BY <1>4, <1>5, NewsFollow DEF Rearranged, SameRows
<1>7. OneLabel(g, x, h, y)
  BY <1>3, <1>5, <1>6 DEF OneLabel, SameNews
<1> QED BY <1>2, <1>4, <1>6, <1>7

\* A registration adopted.
LEMMA AdoptHears ==
    ASSUME Registry, Registry', wal' = wal, NEW asked, NEW p, NEW e, NEW r,
           IsPoint(wal, asked, minted, p), Moves(wal, asked, p, e, r), Ledger(asked, p),
           e.kind = "registered", NEW t, t = e.token, t # 0, NEW h \in DOMAIN group.queries,
           asked[t] = h, group.queries[h].awaiting = t,
           group' = [group EXCEPT !.queries[h].awaiting = 0, !.queries[h].sub = t],
           pending' = pending \o Ours(group', DeltasOf(e))
    PROVE  Ledger(asked, r)' /\ OwesOn(group, group')
<1>1. PICK R : R = SubsOf(group.queries)
  OBVIOUS
<1>2. /\ R \in SUBSET Nat /\ R \subseteq p.live /\ Queues(group) /\ IsBook(group.rows, R)
      /\ IsQueries(group.queries)
      /\ ShownAs(View(group.rows), pending, p.known, R, ViewAt(wal, p))
      /\ \A q \in DOMAIN group.queries : HasRead(group.queries[q], q, asked, p.done)
  BY <1>1, LedgerParts
<1>3. t \in Nat \ p.known /\ r.live = p.live \cup {t} /\ p.known \subseteq r.known /\ r.done = p.done
  BY MoveKnows DEF Moves, Registers, Lands, Hydrates, Refuses, Routes
<1>4. IsQuery(group.queries[h]) /\ group.queries[h].sub = 0
  BY <1>2 DEF IsQueries, IsQuery
<1>40. PICK g, x : g = group /\ x = group'
  OBVIOUS
<1>41. /\ \E y : OneLabel(g, x, h, y) /\ y.sub = t /\ y.got = g.queries[h].got
       /\ x.queued = g.queued
  <2>1. /\ Queues(g) /\ h \in DOMAIN g.queries /\ DOMAIN g.queries[h] = QueryFields
        /\ x = Adopted(g, h, t)
    BY <1>2, <1>4, <1>40 DEF IsQuery, Adopted
  <2> QED BY <2>1, AdoptedIs
<1>5. PICK y : x = group' /\ OneLabel(group, x, h, y) /\ y.sub = t /\ y.got = group.queries[h].got
  BY <1>40, <1>41
<1>6. x.queued = group.queued
  BY <1>40, <1>41
<1>7. SubsOf(x.queries) = R \cup {t}
  BY <1>1, <1>4, <1>5 DEF SubsOf, OneLabel
<1>8. p.live \subseteq p.known /\ p.done \subseteq p.known /\ p.shown[t] = {}
  BY <1>3 DEF IsPoint
<1>9. group.queries[h].got = FALSE
  BY <1>2, <1>4 DEF HasRead
<1>10. HasRead(y, h, asked, r.done)
  BY <1>3, <1>5, <1>8, <1>9 DEF HasRead
<1>11. \A q \in DOMAIN x.queries : HasRead(x.queries[q], q, asked, r.done)
  <2>1. PICK done, more : done = p.done /\ more = r.done
    OBVIOUS
  <2>2. \A q \in DOMAIN group.queries \ {h} : group.queries[q].sub # 0 =>
            (group.queries[q].sub \in more <=> group.queries[q].sub \in done)
    BY <1>3, <2>1
  <2>3. \A q \in DOMAIN group.queries : HasRead(group.queries[q], q, asked, done)
    BY <1>2, <2>1
  <2>4. HasRead(y, h, asked, more)
    BY <1>10, <2>1
  <2>5. \A q \in DOMAIN x.queries : HasRead(x.queries[q], q, asked, more)
    BY <1>5, <2>2, <2>3, <2>4 DEF OneLabel, HasRead
  <2> QED BY <2>1, <2>5
<1>12. x.rows = group.rows /\ x.queued.rows = group.queued.rows /\ Queues(x) /\ x.lmids = group.lmids
  BY <1>5 DEF OneLabel, SameRows, Kept
<1>13. IsBook(x.rows, R \cup {t}) /\ R \cup {t} \in SUBSET Nat /\ R \cup {t} \subseteq r.live
  BY <1>2, <1>3, <1>12 DEF IsBook
<1>14. ShownAs(View(x.rows), pending, p.known, R \cup {t}, ViewAt(wal, p))
  <2>1. PICK V, W, K, z : V = View(group.rows) /\ W = ViewAt(wal, p) /\ K = p.known /\ z = pending
    OBVIOUS
  <2>2. t \notin R
    BY <1>2, <1>3, <1>8
  <2>3. \A k \in Keys : V[k][t] = NoRow
    BY <1>2, <1>3, <2>1, <2>2 DEF View, IsBook
  <2>4. \A k \in Keys : W[k][t] = NoRow
    BY <1>3, <1>8, <2>1 DEF ViewAt
  <2>5. ShownAs(V, z, K, R \cup {t}, W)
    BY <1>2, <1>3, <2>1, <2>3, <2>4, ShownMore
  <2> QED BY <1>12, <2>1, <2>5
<1>15. Ledger(asked, r)'
  <2>1. PICK S : S = R \cup {t}
    OBVIOUS
  <2> QED BY <1>3, <1>5, <1>7, <1>11, <1>12, <1>13, <1>14, <2>1, LedgerHears
<1>16. Complete(x) = Complete(group)
  BY <1>5 DEF Complete, Known, OneLabel
<1>17. OwesOn(group, x)
  BY <1>6, <1>12, <1>16 DEF OwesOn, Owing, GotOwed, IdsOwed, RowsOwed
<1> QED BY <1>5, <1>15, <1>17

LEMMA HydratedOwes ==
    ASSUME NEW g, NEW h \in DOMAIN g.queries, NEW x, NEW y, OneLabel(g, x, h, y), y.got = TRUE,
           x.queued.got = With(g.queued.got, h, TRUE)
    PROVE  OwesOn(g, x)
<1>1. PICK Q, P : Q = g.queued.got /\ P = x.queued.got
  OBVIOUS
<1>2. /\ DOMAIN P = DOMAIN Q \cup {h} /\ P[h] = TRUE
      /\ \A q \in DOMAIN Q : q # h => P[q] = Q[q]
  BY <1>1 DEF With
<1>3. \A q : q \in Complete(x) <=> q = h \/ q \in Complete(g)
  BY DEF Complete, Known, OneLabel
<1>4. ASSUME NEW got, GotOwed(g, got) PROVE GotOwed(x, got)
  BY <1>1, <1>2, <1>3, <1>4 DEF GotOwed, IsPut
<1>5. x.rows = g.rows /\ x.queued.rows = g.queued.rows /\ x.queued.ids = g.queued.ids /\ x.lmids = g.lmids
  BY DEF OneLabel, SameRows, Kept
<1> QED BY <1>4, <1>5 DEF OwesOn, Owing, IdsOwed, RowsOwed

\* A query's rows are all there.
LEMMA HydrateHears ==
    ASSUME Registry', wal' = wal, NEW asked, NEW p, NEW e, NEW r,
           IsPoint(wal, asked, minted, p), Moves(wal, asked, p, e, r), Ledger(asked, p),
           e.kind = "hydrated", NEW t, t = e.token, pending' = pending,
           NEW h, h = QueryOf(group, t),
           IF t \in SubsOf(group.queries) /\ ~group.queries[h].got THEN group' = Hydrate(group, h)
           ELSE group' = group
    PROVE  Ledger(asked, r)' /\ OwesOn(group, group')
<1>1. PICK R, g, x, qs : R = SubsOf(qs) /\ g = group /\ x = group' /\ qs = group.queries
  OBVIOUS
<1>2. /\ R \in SUBSET Nat /\ R \subseteq p.live /\ Queues(group) /\ IsBook(group.rows, R)
      /\ IsQueries(qs)
      /\ ShownAs(View(group.rows), pending, p.known, R, ViewAt(wal, p))
      /\ \A q \in DOMAIN qs : HasRead(qs[q], q, asked, p.done)
  BY <1>1, LedgerParts
<1>3. r.done = p.done \cup {t} /\ p.known \subseteq r.known /\ p.live \subseteq r.live
  BY MoveKnows DEF Moves, Registers, Lands, Hydrates, Refuses, Routes
<1>4. DeltasOf(e) = <<>>
  BY MoveKnows
<1>5. pending' = pending \o Ours(group', DeltasOf(e))
  <2>1. IsSeq(pending)
    BY <1>2 DEF ShownAs
  <2> QED BY <1>4, <2>1, OursNone, AfterNothing
<1>6. CASE t \in R /\ ~qs[h].got
  <2>1. h \in DOMAIN qs /\ qs[h].sub = t /\ t # 0
    BY <1>1, <1>6 DEF SubsOf, QueryOf, Known
  <2>2. IsQuery(qs[h]) /\ \A q \in DOMAIN qs \ {h} : qs[q].sub # t
    BY <1>2, <2>1 DEF IsQueries
  <2>3. /\ Queues(g) /\ h \in DOMAIN g.queries /\ DOMAIN g.queries[h] = QueryFields /\ x = Hydrate(g, h)
    BY <1>1, <1>2, <1>6, <2>1, <2>2 DEF IsQuery
  <2>4. /\ \E y : OneLabel(g, x, h, y) /\ y.sub = g.queries[h].sub /\ y.got = TRUE
        /\ x.queued.got = With(g.queued.got, h, TRUE)
    BY <2>3, HydratedIs
  <2>5. PICK y : OneLabel(g, x, h, y) /\ y.sub = t /\ y.got = TRUE
    BY <1>1, <2>1, <2>4
  <2>6. OwesOn(g, x)
    BY <2>3, <2>4, <2>5, HydratedOwes
  <2>7. SubsOf(x.queries) = R
    BY <1>1, <2>1, <2>5 DEF SubsOf, OneLabel
  <2>8. \A q \in DOMAIN x.queries : HasRead(x.queries[q], q, asked, r.done)
    <3>1. ASSUME NEW q \in DOMAIN x.queries PROVE HasRead(x.queries[q], q, asked, r.done)
      <4>1. HasRead(qs[q], q, asked, p.done) /\ q \in DOMAIN qs
        BY <1>1, <1>2, <2>5 DEF OneLabel
      <4>2. CASE q = h
        <5>1. x.queries[q] = y /\ asked[t] = q
          BY <2>1, <2>5, <4>1, <4>2 DEF OneLabel, HasRead
        <5>2. t \in r.done /\ y.sub = t /\ y.got = TRUE
          BY <1>3, <2>5
        <5> QED BY <2>1, <5>1, <5>2 DEF HasRead
      <4>3. CASE q # h
        BY <1>1, <1>3, <2>2, <2>5, <4>1, <4>3 DEF OneLabel, HasRead
      <4> QED BY <4>2, <4>3
    <3> QED BY <3>1
  <2>9. x.rows = g.rows /\ Queues(x)
    BY <2>5 DEF OneLabel, SameRows
  <2>10. Ledger(asked, r)'
    BY <1>1, <1>2, <1>3, <1>5, <2>7, <2>8, <2>9, LedgerHears
  <2> QED BY <1>1, <2>6, <2>10
<1>7. CASE ~(t \in R /\ ~qs[h].got)
  <2>1. group' = group
    BY <1>1, <1>7
  <2>2. \A q \in DOMAIN qs : HasRead(qs[q], q, asked, r.done)
    <3>1. ASSUME NEW q \in DOMAIN qs PROVE HasRead(qs[q], q, asked, r.done)
      <4>1. HasRead(qs[q], q, asked, p.done)
        BY <1>2
      <4>2. CASE qs[q].sub = 0 \/ qs[q].sub # t
        BY <1>3, <4>1, <4>2 DEF HasRead
      <4>3. CASE qs[q].sub # 0 /\ qs[q].sub = t
        <5>1. t \in R
          BY <1>1, <4>3 DEF SubsOf
        <5>2. h \in DOMAIN qs /\ qs[h].sub = t
          BY <1>1, <5>1 DEF SubsOf, QueryOf, Known
        <5>3. q = h
          BY <1>2, <4>3, <5>2 DEF IsQueries
        <5>4. qs[q].got = TRUE
          BY <1>7, <4>1, <5>1, <5>3 DEF HasRead
        <5> QED BY <1>3, <4>1, <4>3, <5>4 DEF HasRead
      <4> QED BY <4>2, <4>3
    <3> QED BY <3>1
  <2>3. Ledger(asked, r)'
    BY <1>1, <1>2, <1>3, <1>5, <2>1, <2>2, LedgerHears
  <2> QED BY <2>1, <2>3 DEF OwesOn
<1> QED BY <1>6, <1>7

\* A read refused: the query's subscription goes, and its rows.
LEMMA RefusedHears ==
    ASSUME Feed, Registry, Registry', wal' = wal, NEW asked, NEW p, NEW e, NEW r,
           IsPoint(wal, asked, minted, p), Moves(wal, asked, p, e, r), Ledger(asked, p),
           e.kind = "refused", NEW t, t = e.token, pending' = pending,
           NEW h, h = QueryOf(group, t),
           IF t \in SubsOf(group.queries) THEN group' = Refuse(group, h) ELSE group' = group
    PROVE  Ledger(asked, r)' /\ OwesOn(group, group')
<1>1. PICK R, g, qs : R = SubsOf(qs) /\ g = group /\ qs = group.queries
  OBVIOUS
<1>2. /\ R \in SUBSET Nat /\ R \subseteq p.live /\ Queues(group) /\ IsBook(group.rows, R)
      /\ IsQueries(qs) /\ IsLedger(group)
      /\ \A q \in DOMAIN qs : HasRead(qs[q], q, asked, p.done)
  BY <1>1, LedgerParts, LedgerRead
<1>3. r.live = p.live \ {t} /\ Stays(p, r)
  BY DEF Moves, Registers, Lands, Hydrates, Refuses, Routes, Stays
<1>4. LogGoes /\ Agree(asked, asked) /\ p.at \in Nat /\ p.at <= Len(wal)
  BY DEF LogGoes, Agree, IsPoint
<1>5. CASE t \in R
  <2>1. h \in DOMAIN qs /\ qs[h].sub = t /\ t # 0 /\ group' = Refuse(g, h)
    BY <1>1, <1>5 DEF SubsOf, QueryOf, Known
  <2>2. IsGroup(g) /\ IsLedger(g) /\ h \in DOMAIN g.queries /\ g.queries[h].got \in BOOLEAN
    BY <1>1, <1>2, <2>1 DEF HasRead, Queues
  <2>3. Follows(g, Refuse(g, h))
    BY <2>2, RefuseFollows
  <2>4. SubsOf(Refuse(g, h).queries) = SubsOf(g.queries) \ {g.queries[h].sub}
    BY <1>1, <1>2, <2>2, RefuseSets
  <2>5. SubsOf(group'.queries) \subseteq r.live
    BY <1>1, <1>2, <1>3, <2>1, <2>4
  <2>6. Views(group, group') /\ OwesOn(group, group')
    BY <1>1, <2>1, <2>3 DEF Follows
  <2>7. Ledger(asked, r)'
    BY <1>3, <1>4, <2>5, <2>6, LedgerFollows
  <2> QED BY <2>6, <2>7
<1>6. CASE t \notin R
  <2>1. group' = group
    BY <1>1, <1>6
  <2>2. Views(group, group') /\ OwesOn(group, group')
    BY <1>1, <1>2, <2>1 DEF Views, OwesOn, ViewKept, SameRead
  <2>3. SubsOf(group'.queries) \subseteq r.live
    BY <1>1, <1>2, <1>3, <1>6, <2>1
  <2>4. Ledger(asked, r)'
    BY <1>3, <1>4, <2>2, <2>3, LedgerFollows
  <2> QED BY <2>2, <2>4
<1> QED BY <1>5, <1>6

LEMMA HearsLedger ==
    ASSUME Feed, Registry, Registry', NEW asked, NEW p, IsPoint(wal, asked, minted, p),
           Ledger(asked, p), Hears, NEW r, Moves(wal, asked, p, Head(events), r),
           Head(events).kind = "registered" =>
                awaiting[Head(events).token] = asked[Head(events).token]
    PROVE  Ledger(asked, r)' /\ OwesOn(group, group')
<1>0. PICK e, t : e = Head(events) /\ t = Head(events).token
  OBVIOUS
<1>1. Moves(wal, asked, p, e, r) /\ Queues(group) /\ IsQueries(group.queries)
  BY <1>0, LedgerRead
<1>2. Subs(group) = SubsOf(group.queries)
  BY GroupSubs
<1>3. CASE TakeLanded \/ TakeCommitted
  <2>1. /\ wal' = wal /\ group' = group /\ e.kind \in {"landed", "committed"}
        /\ pending' = pending \o Ours(group', DeltasOf(e))
    BY <1>0, <1>3, Zenon DEF TakeLanded, TakeCommitted, NextEvent, Absorb, DeltasOf
  <2> QED BY <1>1, <2>1, SameHears DEF OwesOn
<1>4. CASE TakeHydrated
  <2>1. PICK h : h = QueryOf(group, t)
    OBVIOUS
  <2>2. /\ wal' = wal /\ e.kind = "hydrated" /\ t = e.token /\ pending' = pending
        /\ IF t \in SubsOf(group.queries) /\ ~group.queries[h].got THEN group' = Hydrate(group, h)
           ELSE group' = group
    BY <1>0, <1>2, <1>4, <2>1 DEF TakeHydrated, NextEvent
  <2> QED BY <1>1, <2>1, <2>2, HydrateHears
<1>5. CASE TakeRefused
  <2>1. PICK h : h = QueryOf(group, t)
    OBVIOUS
  <2>2. /\ wal' = wal /\ e.kind = "refused" /\ t = e.token /\ pending' = pending
        /\ IF t \in SubsOf(group.queries) THEN group' = Refuse(group, h) ELSE group' = group
    BY <1>0, <1>2, <1>5, <2>1 DEF TakeRefused, NextEvent
  <2> QED BY <1>1, <2>1, <2>2, RefusedHears
<1>6. CASE TakeRegistered
  <2>1. PICK h : h = awaiting[t]
    OBVIOUS
  <2>2. /\ wal' = wal /\ e.kind = "registered" /\ t = e.token /\ e \in {Head(events)}
        /\ pending' = pending \o Ours(group', DeltasOf(e))
        /\ events # <<>> /\ asked[t] = h
    BY <1>0, <1>6, <2>1 DEF TakeRegistered, NextEvent, Absorb, DeltasOf
  <2>3. t # 0
    <3>1. t \in Heralds(events)
      BY <1>0, <2>2, EventHeard DEF Registry, Feed, IsEvents
    <3> QED BY <3>1 DEF Registry, Owned
  <2>4. CASE group' = group
    BY <1>1, <2>2, <2>4, SameHears DEF OwesOn
  <2>5. CASE /\ h \in DOMAIN group.queries /\ group.queries[h].awaiting = t
             /\ group' = [group EXCEPT !.queries[h].awaiting = 0, !.queries[h].sub = t]
    BY <1>1, <2>2, <2>3, <2>5, AdoptHears, Zenon
  <2>6. \/ group' = group
        \/ /\ h \in DOMAIN group.queries /\ group.queries[h].awaiting = t
           /\ group' = [group EXCEPT !.queries[h].awaiting = 0, !.queries[h].sub = t]
    BY <1>0, <1>6, <2>1 DEF TakeRegistered, Adopts, Known
  <2> QED BY <2>4, <2>5, <2>6
<1> QED BY <1>3, <1>4, <1>5, <1>6 DEF Hears

-----------------------------------------------------------------------------
(* What happens between two events *)

\* Steps that leave the group and what it heard alone.
Elsewhere ==
    \/ OutsideWrite
    \/ \E t \in Tabs : Mutate(t) \/ RefuseMutation(t) \/ Drop(t) \/ Hear(t)
    \/ \E t \in Tabs, h \in Queries : Desire(t, h) \/ Undesire(t, h)
    \/ \E t, gone \in Tabs : Forget(t, gone)
    \/ \E w \in Wires, t \in Tabs : Open(w, t)
    \/ \E w \in Wires : ReadMutations(w)
    \/ TakeRegister \/ TakeUnregister \/ Route
    \/ \E token \in DOMAIN engine.subs : Land(token) \/ RefuseRead(token)
    \/ UNCHANGED vars

LEMMA QuietIs ==
    ASSUME Quiet
    PROVE  \/ Elsewhere \/ Asking \/ Expire \/ Flush
           \/ \E w \in Wires : Connect(w) \/ Disconnect(w)
BY DEF Quiet, Elsewhere, Asking

LEMMA ElsewhereLeaves == ASSUME Elsewhere PROVE LogGoes /\ UNCHANGED thread
<1>1. ASSUME NEW c, Committed(c) PROVE LogGoes /\ UNCHANGED thread
  BY <1>1 DEF Committed, LogGoes
<1>2. CASE OutsideWrite \/ \E t \in Tabs : Mutate(t) \/ RefuseMutation(t)
  BY <1>1, <1>2 DEF OutsideWrite, Mutate, RefuseMutation
<1>3. CASE \/ \E t \in Tabs : Drop(t) \/ Hear(t)
           \/ \E t \in Tabs, h \in Queries : Desire(t, h) \/ Undesire(t, h)
           \/ \E t, gone \in Tabs : Forget(t, gone)
           \/ \E w \in Wires, t \in Tabs : Open(w, t)
           \/ \E w \in Wires : ReadMutations(w)
           \/ UNCHANGED vars
  BY <1>3, Zenon DEF Drop, Hear, Desire, Undesire, Forget, Open, ReadMutations, vars, LogGoes
<1>4. CASE TakeRegister \/ TakeUnregister \/ Route
           \/ \E token \in DOMAIN engine.subs : Land(token) \/ RefuseRead(token)
  BY <1>4, Zenon DEF TakeRegister, TakeUnregister, Route, Land, RefuseRead, LogGoes
<1> QED BY <1>2, <1>3, <1>4 DEF Elsewhere

LEMMA AskingLeaves == ASSUME Asking PROVE wal' = wal /\ pending' = pending
BY Zenon DEF Asking, Put, NotPlanned, Anew, Del, DeleteClient, ExpireQuery, Cool

\* Another set of connections.
LEMMA SocketsOnly ==
    ASSUME NEW g, Queues(g), NEW x, NEW h, h = [g EXCEPT !.sockets = x]
    PROVE  /\ Queues(h) /\ h.rows = g.rows /\ h.queries = g.queries /\ h.queued = g.queued
           /\ h.lmids = g.lmids /\ h.version = g.version /\ h.log = g.log
           /\ h.open = g.open /\ h.line = g.line /\ h.sockets = x
<1>1. DOMAIN g = GroupFields /\ IsGroup(g)
  BY DEF Queues, IsGroup
<1>2. /\ DOMAIN h = GroupFields /\ h.rows = g.rows /\ h.queries = g.queries
      /\ h.queued = g.queued /\ h.lmids = g.lmids /\ h.version = g.version /\ h.log = g.log
      /\ h.open = g.open /\ h.line = g.line /\ h.sockets = x
  BY <1>1 DEF GroupFields
<1>3. IsGroup(h)
  BY <1>1, <1>2 DEF IsGroup
<1> QED BY <1>2, <1>3 DEF Queues

LEMMA SameViews ==
    ASSUME IsLedger(group), Queues(group'), group'.rows = group.rows, group'.queries = group.queries
    PROVE  Views(group, group')
BY DEF IsLedger, Views, ViewKept, SameRead

LEMMA JoinViews ==
    ASSUME GroupInv, IsLedger(group), ~group.open => DOMAIN group.queries = {},
           NEW w \in Wires, Join(w)
    PROVE  Views(group, group')
<1> DEFINE base == IF group.open THEN group ELSE NewGroup(group.line)
           merged == Merged(base, wires[w].ids, wires[w].waiting)
<1>1. group' = [merged EXCEPT !.sockets = @ \cup {w}]
  BY DEF Join
<1>2. Queues(base)
  BY NewGroupQueues DEF IsLedger, GroupInv, Shape, Ends, IsGroup
<1>3. wires[w].ids \in IdMap
  BY DEF GroupInv, Shape, Ends, IsWire
<1>4. base.rows = IF group.open THEN group.rows ELSE [k \in Keys |-> NothingHeld]
  BY DEF NewGroup
<1>5. base.queries = group.queries \/ (DOMAIN base.queries = {} /\ ~group.open)
  BY DEF NewGroup
<1> HIDE DEF base
<1>6. Queues(merged) /\ SameRows(base, merged) /\ merged.queries = base.queries
  <2>1. PICK ids, waiting : ids = wires[w].ids /\ waiting = wires[w].waiting
    OBVIOUS
  <2> QED BY <1>2, <1>3, <2>1, MergedOnly
<1> HIDE DEF merged
<1>7. Queues(group') /\ group'.rows = base.rows /\ group'.queries = base.queries
  <2>1. PICK x : group' = [merged EXCEPT !.sockets = x]
    BY <1>1
  <2> QED BY <1>6, <2>1, SocketsOnly DEF SameRows
<1>8. CASE group.open
  BY <1>4, <1>5, <1>7, <1>8, SameViews DEF base
<1>9. CASE ~group.open
  <2>1. SubsOf(group'.queries) = {} /\ DOMAIN group'.queries = {}
    BY <1>5, <1>7, <1>9 DEF SubsOf
  <2>2. IsBook(group'.rows, {})
    BY <1>4, <1>7, <1>9 DEF IsBook, NothingHeld
  <2> QED BY <1>7, <2>1, <2>2 DEF Views, ViewKept
<1> QED BY <1>8, <1>9

\* What is put off until a batch ends makes it dirty.
Stirred == pending # <<>> => changes.dirty

LEMMA FlushLedger ==
    ASSUME Feed, Registry, Registry', NEW asked, NEW p, Ledger(asked, p), Flush, Stirred,
           IsGroup(group'),
           ~group.open => DOMAIN group.queries = {},
           NEW also, Agree(asked, also), NEW r, Stays(p, r), SubsOf(group.queries) \subseteq r.live
    PROVE  /\ Ledger(also, r)'
           /\ ~(group.open /\ changes.dirty) => OwesOn(group, group')
<1>1. PICK S, W, V : S = SubsOf(group.queries) /\ W = ViewAt(wal, p) /\ V = View(group.rows)
  OBVIOUS
<1>2. /\ S \in SUBSET Nat /\ S \subseteq p.live /\ Queues(group) /\ IsBook(group.rows, S)
      /\ IsQueries(group.queries) /\ ShownAs(V, pending, p.known, S, W)
      /\ \A q \in DOMAIN group.queries : HasRead(group.queries[q], q, asked, p.done)
  BY <1>1, LedgerParts
<1>3. wal' = wal /\ pending' = <<>>
  BY DEF Flush
<1>4. ViewAt(wal', r) = W
  BY <1>1, <1>3 DEF Stays, ViewAt
<1>5. S \subseteq 1 .. minted
  BY <1>1 DEF Registry, Owned
<1>6. ASSUME Queues(group'), group'.queries = group.queries, IsBook(group'.rows, S),
             \A k \in Keys : \A s \in S : View(group'.rows)[k][s] = W[k][s]
      PROVE  Ledger(also, r)'
  <2>1. PICK X, K, T : X = View(group'.rows) /\ K = r.known /\ T = TableAt(wal, p.at)
    OBVIOUS
  <2>2. \A k \in Keys : \A s \in S : X[k][s] = W[k][s] /\ W[k][s] \in {NoRow, T[k]}
    <3>1. \A k \in Keys : \A s \in Nat : W[k][s] = IF k \in p.shown[s] THEN T[k] ELSE NoRow
      BY <1>1, <2>1 DEF ViewAt
    <3> QED BY <1>2, <1>6, <2>1, <3>1
  <2>3. ShownAs(X, <<>>, K, S, W)
    BY <2>2, ShownAtOnce
  <2>4. \A q \in DOMAIN group.queries : HasRead(group.queries[q], q, also, r.done)
    <3>1. \A q \in DOMAIN group.queries : group.queries[q].sub # 0 => group.queries[q].sub \in S
      BY <1>1 DEF SubsOf
    <3> QED BY <1>2, <1>5, <3>1 DEF HasRead, Agree, Stays
  <2> QED BY <1>1, <1>2, <1>3, <1>4, <1>6, <2>1, <2>3, <2>4 DEF Ledger, IsLedger
<1>7. CASE ~(group.open /\ changes.dirty)
  <2>1. group' = group
    BY <1>7 DEF Flush
  <2>2. \A k \in Keys : \A s \in S : V[k][s] = W[k][s]
    <3>1. CASE ~group.open
      BY <1>1, <3>1 DEF SubsOf
    <3>2. CASE ~changes.dirty
      <4>1. PICK x : x = pending /\ x = <<>>
        BY <3>2 DEF Stirred
      <4>2. Len(x) = 0 /\ ShownAs(V, x, p.known, S, W)
        BY <1>2, <4>1, EmptyIsSeq
      <4>3. \A k, s : Seen(V[k][s], x, 0, k, s) = V[k][s]
        BY SeenNone
      <4> QED BY <4>2, <4>3 DEF ShownAs
    <3> QED BY <1>7, <3>1, <3>2
  <2> QED BY <1>1, <1>2, <1>6, <2>1, <2>2 DEF OwesOn
<1>8. CASE group.open /\ changes.dirty
  <2> DEFINE acc == Accounted(group, pending)
             g == Noted(acc, changes)
  <2>1. PICK x, a : x = pending /\ a = acc
    OBVIOUS
  <2>2. /\ IsBook(a.rows, S)
        /\ \A k \in Keys : \A s \in S : View(a.rows)[k][s] = Seen(V[k][s], x, Len(x), k, s)
    <3>1. /\ Queues(group) /\ S \in SUBSET Nat /\ S = Subs(group) /\ IsBook(group.rows, S)
          /\ IsSeq(x) /\ OnKeys(x) /\ Agreed(View(group.rows), x, S) /\ a = Accounted(group, x)
      BY <1>1, <1>2, <2>1, GroupSubs DEF ShownAs
    <3>2. /\ IsBook(a.rows, S)
          /\ \A k \in Keys : \A s \in S : View(a.rows)[k][s] = Seen(View(group.rows)[k][s], x, Len(x), k, s)
      BY <3>1, AccountedShows
    <3> QED BY <1>1, <3>2
  <2>3. \A k \in Keys : \A s \in S : View(a.rows)[k][s] = W[k][s]
    BY <1>2, <2>1, <2>2 DEF ShownAs
  <2>4. Queues(a) /\ a.queries = group.queries
    BY <1>2, <2>1, AccountedOnly, QueriesLeft DEF SameNews, Queues
  <2>5. Queues(g) /\ g.rows = a.rows /\ g.queries = group.queries
    <3>1. PICK h : h = Noted(a, changes)
      OBVIOUS
    <3> QED BY <2>1, <2>4, <3>1, NotedOnly DEF SameRows
  <2> HIDE DEF g, acc
  <2>6. group'.rows = g.rows /\ group'.queries = g.queries /\ (group' = g \/ SendPoke(g))
    <3>1. group' = g \/ SendPoke(g)
      BY <1>8 DEF Flush, g, acc
    <3> QED BY <2>5, <3>1, Zenon DEF SendPoke, Queues, IsGroup, GroupFields
  <2>7. Queues(group')
    <3>1. CASE group' = g
      BY <2>5, <3>1
    <3>2. CASE SendPoke(g)
      <4>1. DOMAIN group'.queued = QueueFields /\ group'.queued = NothingQueued
        BY <2>5, <3>2 DEF SendPoke, Queues, IsGroup, GroupFields, NothingQueued, QueueFields
      <4> QED BY <4>1 DEF Queues
    <3> QED BY <2>6, <3>1, <3>2
  <2> QED BY <1>6, <1>8, <2>1, <2>2, <2>3, <2>5, <2>6, <2>7
<1> QED BY <1>7, <1>8

LEMMA QuietLedger ==
    ASSUME GroupInv, GroupInv', Registry, Registry', NEW asked, NEW p, IsPoint(wal, asked, minted, p),
           Ledger(asked, p), Quiet, Stirred, NEW also, Agree(asked, also), NEW r, Rests(p, r)
    PROVE  Ledger(also, r)'
<1>1. /\ Stays(p, r) /\ SubsOf(group.queries) \subseteq r.live
      /\ IsLedger(group) /\ GotRead(group.queries) /\ Queues(group)
  <2>1. Stays(p, r) /\ \A s \in SubsOf(group.queries) \cap p.live : s \in r.live
    BY DEF Rests, Stays
  <2>2. SubsOf(group.queries) \subseteq p.live
    BY DEF Ledger
  <2> QED BY <2>1, <2>2, LedgerRead
<1>2. /\ Feed /\ p.at \in Nat /\ p.at <= Len(wal) /\ IsGroup(group')
      /\ ~group.open => DOMAIN group.queries = {}
  BY DEF GroupInv, Shape, Ends, IsPoint, Registry
<1>3. ASSUME LogGoes, pending' = pending, Views(group, group') PROVE Ledger(also, r)'
  <2>1. SubsOf(group'.queries) \subseteq r.live
    BY <1>1, <1>3 DEF Views
  <2> QED BY <1>1, <1>2, <1>3, <2>1, LedgerFollows
<1>4. CASE Elsewhere
  <2>1. LogGoes /\ pending' = pending /\ group' = group
    BY <1>4, ElsewhereLeaves DEF thread
  <2> QED BY <1>1, <1>3, <2>1, SameViews
<1>5. CASE Asking
  BY <1>1, <1>3, <1>5, AskingFollows, AskingLeaves DEF Follows, LogGoes
<1>6. CASE \E w \in Wires : Connect(w) \/ Disconnect(w)
  <2>1. PICK w \in Wires : Connect(w) \/ Disconnect(w)
    BY <1>6
  <2>2. LogGoes /\ pending' = pending
    BY <2>1 DEF Connect, Disconnect, LogGoes
  <2>3. CASE \E x : group' = [group EXCEPT !.sockets = x]
    BY <1>1, <1>3, <2>2, <2>3, SocketsOnly, SameViews
  <2>4. CASE group' = group
    BY <1>1, <1>3, <2>2, <2>4, SameViews
  <2>5. CASE Join(w)
    BY <1>1, <1>2, <1>3, <2>2, <2>5, JoinViews
  <2>6. (\E x : group' = [group EXCEPT !.sockets = x]) \/ group' = group \/ Join(w)
    BY <2>1 DEF Connect, Refusal, Disconnect
  <2> QED BY <2>3, <2>4, <2>5, <2>6
<1>7. CASE Expire
  <2>1. pending' = <<>> /\ group' = NoGroup(group.line + 1)
    BY <1>7 DEF Expire
  <2>2. Queues(group') /\ DOMAIN group'.queries = {} /\ IsBook(group'.rows, {})
    <3>1. group.line + 1 \in Nat
      BY <1>1 DEF Queues, IsGroup
    <3>2. Queues(group')
      BY <2>1, <3>1, NewGroupQueues
    <3> QED BY <2>1, <3>2 DEF NoGroup, NewGroup, IsBook, NothingHeld
  <2> QED BY <2>1, <2>2, LedgerBare
<1>8. CASE Flush
  BY <1>1, <1>2, <1>8, FlushLedger
<1> QED BY <1>4, <1>5, <1>6, <1>7, <1>8, QuietIs

-----------------------------------------------------------------------------
(* What waits while a batch is under way *)

\* Whatever is queued for connections has made the batch dirty.
Queued ==
    group.open /\ group.sockets # {} /\ ~changes.dirty => group.queued = NothingQueued
Resting ==
    /\ turn # "events" => pending = <<>> /\ DOMAIN changes.ids = {}
    /\ turn = "idle" => changes = NoChanges
    /\ Stirred /\ (DOMAIN changes.ids # {} => changes.dirty)
    /\ Queued

LEMMA DirtyIs ==
    ASSUME Feed, Dirty PROVE changes'.dirty = TRUE /\ changes'.ids = changes.ids
BY DEF Dirty, Feed

LEMMA RequestRests ==
    ASSUME Feed, Resting, Requests, pending' = pending,
           \/ Dirty
           \/ changes' = changes /\ group'.open = group.open /\ group'.queued = group.queued
                /\ group'.sockets \subseteq group.sockets
    PROVE  Resting'
<1>1. /\ turn # "events" /\ turn' = "requests" /\ pending = <<>> /\ DOMAIN changes.ids = {}
  BY DEF Requests, Resting
<1>2. CASE Dirty
  <2>1. changes'.dirty = TRUE /\ changes'.ids = changes.ids
    BY <1>2, DirtyIs
  <2> QED BY <1>1, <2>1 DEF Resting, Stirred, Queued
<1>3. CASE changes' = changes /\ group'.open = group.open /\ group'.queued = group.queued
                /\ group'.sockets \subseteq group.sockets
  BY <1>1, <1>3 DEF Resting, Stirred, Queued
<1> QED BY <1>2, <1>3

LEMMA AskingRests == ASSUME Feed, Queues(group), Resting, Asking PROVE Resting'
<1>1. CASE \E w \in Wires : Put(w) \/ Del(w) \/ DeleteClient(w)
  <2>1. Requests /\ Dirty /\ pending' = pending
    BY <1>1, Zenon DEF Put, NotPlanned, Anew, Del, DeleteClient, NextAsk
  <2> QED BY <2>1, RequestRests
<1>2. CASE \E h \in Known(group) : ExpireQuery(h)
  <2>1. Requests /\ Dirty /\ pending' = pending
    BY <1>2 DEF ExpireQuery
  <2> QED BY <2>1, RequestRests
<1>3. CASE \E h \in Known(group) : Cool(h)
  <2>1. UNCHANGED <<pending, changes, turn>>
    BY <1>3 DEF Cool
  <2>2. group'.open = group.open /\ group'.queued = group.queued /\ group'.sockets = group.sockets
    BY <1>3 DEF Cool, Queues, IsGroup, GroupFields
  <2> QED BY <2>1, <2>2 DEF Resting, Stirred, Queued
<1> QED BY <1>1, <1>2, <1>3 DEF Asking

LEMMA ConnectionRests ==
    ASSUME Feed, Queues(group), Resting, NEW w \in Wires, Connect(w) \/ Disconnect(w) PROVE Resting'
<1>1. CASE Disconnect(w)
  <2>1. Requests /\ pending' = pending /\ changes' = changes
    BY <1>1 DEF Disconnect
  <2>2. group' = [group EXCEPT !.sockets = @ \ {w}] /\ DOMAIN group = GroupFields
    BY <1>1 DEF Disconnect, Queues, IsGroup
  <2>3. group'.open = group.open /\ group'.queued = group.queued /\ group'.sockets \subseteq group.sockets
    BY <2>2 DEF GroupFields
  <2> QED BY <2>1, <2>3, RequestRests
<1>2. CASE Connect(w)
  <2>1. Requests /\ pending' = pending /\ (Dirty \/ (group' = group /\ changes' = changes))
    BY <1>2 DEF Connect, Refusal, Join
  <2> QED BY <2>1, RequestRests
<1> QED BY <1>1, <1>2

LEMMA FlushRests == ASSUME Feed, Queues(group), Resting, Flush PROVE Resting'
<1>1. turn' = "idle" /\ changes' = NoChanges /\ pending' = <<>>
  BY DEF Flush
<1>2. Queued'
  <2>1. CASE ~(group.open /\ changes.dirty)
    <3>1. group' = group
      BY <2>1 DEF Flush
    <3> QED BY <2>1, <3>1 DEF Resting, Queued
  <2>2. CASE group.open /\ changes.dirty
    <3>1. PICK g : IF g.sockets # {} /\ g.queued # NothingQueued THEN SendPoke(g) ELSE group' = g
      BY <2>2 DEF Flush
    <3>2. CASE g.sockets # {} /\ g.queued # NothingQueued
      <4>1. PICK v, log : group' = [g EXCEPT !.version = v, !.queued = NothingQueued, !.log = log]
        BY <3>1, <3>2, Zenon DEF SendPoke
      <4>2. DOMAIN group' = GroupFields => group'.queued = NothingQueued
        BY <4>1 DEF GroupFields
      <4> QED BY <4>1, <4>2 DEF Queued
    <3>3. CASE ~(g.sockets # {} /\ g.queued # NothingQueued)
      BY <3>1, <3>3 DEF Queued
    <3> QED BY <3>2, <3>3
  <2> QED BY <2>1, <2>2
<1>3. DOMAIN NoChanges.ids = {}
  BY DEF NoChanges
<1> QED BY <1>1, <1>2, <1>3 DEF Resting, Stirred

LEMMA HearsRests ==
    ASSUME Feed, Queues(group), IsSeq(pending), Resting, Hears PROVE Resting'
<1>0. turn' = "events"
  BY Zenon DEF Hears, TakeRegistered, TakeLanded, TakeHydrated, TakeRefused, TakeCommitted, NextEvent
<1>1. ASSUME NEW d, Absorb(group', d), group'.open = group.open, group'.queued = group.queued,
             group'.sockets = group.sockets
      PROVE  Resting'
  <2>1. PICK x : x = Ours(group', d)
    OBVIOUS
  <2>2. /\ pending' = pending \o x /\ changes'.ids = changes.ids
        /\ changes'.dirty = (changes.dirty \/ x # <<>>)
    BY <1>1, <2>1 DEF Absorb, Feed
  <2>3. x = <<>> => pending' = pending
    BY <2>2, AfterNothing
  <2> QED BY <1>0, <1>1, <2>2, <2>3 DEF Resting, Stirred, Queued
<1>2. CASE TakeRegistered \/ TakeLanded
  <2>1. \/ group' = group
        \/ \E h, t : group' = [group EXCEPT !.queries[h].awaiting = 0, !.queries[h].sub = t]
    BY <1>2, Zenon DEF TakeRegistered, TakeLanded
  <2>2. /\ group'.open = group.open /\ group'.queued = group.queued
        /\ group'.sockets = group.sockets
    BY <2>1, Zenon DEF Queues, IsGroup, GroupFields
  <2>3. \E d : Absorb(group', d)
    BY <1>2 DEF TakeRegistered, TakeLanded
  <2> QED BY <1>1, <2>2, <2>3
<1>3. CASE TakeHydrated \/ TakeRefused
  <2>1. pending' = pending /\ (Dirty \/ (group' = group /\ changes' = changes))
    BY <1>3 DEF TakeHydrated, TakeRefused
  <2>2. CASE Dirty
    <3>1. changes'.dirty = TRUE /\ changes'.ids = changes.ids
      BY <2>2, DirtyIs
    <3> QED BY <1>0, <3>1 DEF Resting, Stirred, Queued
  <2>3. CASE group' = group /\ changes' = changes
    BY <1>0, <2>1, <2>3 DEF Resting, Stirred, Queued
  <2> QED BY <2>1, <2>2, <2>3
<1>4. CASE TakeCommitted
  <2>1. PICK by : /\ group' = group
                  /\ changes'.dirty = (changes.dirty \/ pending' # pending \/ by \in Tabs)
                  /\ DOMAIN changes'.ids = DOMAIN changes.ids \cup (Tabs \cap {by})
    BY <1>4 DEF TakeCommitted
  <2> QED BY <1>0, <2>1 DEF Resting, Stirred, Queued
<1> QED BY <1>2, <1>3, <1>4 DEF Hears

LEMMA RestsKept ==
    ASSUME Feed, Queues(group), IsSeq(pending), Resting, [Next]_vars PROVE Resting'
<1>1. CASE Elsewhere
  BY <1>1, ElsewhereLeaves DEF thread, Resting, Stirred, Queued
<1>2. CASE Expire
  <2>1. /\ turn' = "requests" /\ pending' = <<>> /\ changes' = NoChanges
        /\ group' = NoGroup(group.line + 1)
    BY <1>2 DEF Expire, Requests
  <2>2. group'.open = FALSE
    BY <2>1 DEF NoGroup, NewGroup
  <2>3. DOMAIN NoChanges.ids = {}
    BY DEF NoChanges
  <2> QED BY <2>1, <2>2, <2>3 DEF Resting, Stirred, Queued
<1> QED BY <1>1, <1>2, HearsOrQuiet, QuietIs, HearsRests, AskingRests, ConnectionRests, FlushRests

LEMMA RestsFirst == Init => Resting
BY EmptyIsSeq DEF Init, Resting, Stirred, Queued, NoChanges, NoGroup, NewGroup

-----------------------------------------------------------------------------
(* The stores a tab may have *)

\* The table as of a place in the log, with the whole answer of what is got;
\* and no mutation's row without its id, as long as the group is never made anew.
AsOf(log, x, at) ==
    /\ \A k \in Keys : x.rows[k] \in {NoRow, TableAt(log, at)[k]}
    /\ \A h \in x.got : \A k \in AnswerAt(log, h, at) : x.rows[k] # NoRow
    /\ MaxLines = 1 => \A u \in Tabs : CountAt(log, at, u) <= x.ids[u]
Whole(log, x) == \E at \in Len(Earlier) .. Len(log) : AsOf(log, x, at)

NoStore == [rows |-> [k \in Keys |-> NoRow], got |-> {}, ids |-> NoIds]
ShownNow(g) == [rows |-> [k \in Keys |-> g.rows[k].image], got |-> Complete(g), ids |-> g.lmids]

\* A poke takes the store x to y, or to y with higher ids.
Takes(poke, x, y) ==
    /\ \A k \in Keys : y.rows[k] = IF k \in DOMAIN poke.rows THEN poke.rows[k] ELSE x.rows[k]
    /\ \A h : h \in y.got <=> IsPut(poke.got, h) \/ (h \in x.got /\ h \notin DOMAIN poke.got)
    /\ \A u \in Tabs : y.ids[u] <= IF poke.ids[u] = 0 THEN x.ids[u] ELSE poke.ids[u]
\* The same, or with higher ids.
NoLess(x, y) ==
    /\ \A k \in Keys : y.rows[k] = x.rows[k]
    /\ \A h : h \in y.got <=> h \in x.got
    /\ \A u \in Tabs : x.ids[u] <= y.ids[u]

\* H has the stores that each version of the group may have left a tab with: a
\* poke takes each of one version to one of a later version.
FitsIn(H, top, poke) ==
    /\ poke.base < poke.cookie /\ poke.cookie <= top
    /\ \A x \in H[poke.base] : \E y \in H[poke.cookie] : Takes(poke, x, y)
Begins(H) == H[0] = {NoStore} /\ H[group.version] # {}
Members(H) ==
    \A v \in 0 .. group.version : \A x \in H[v] :
        /\ \A u \in Tabs : x.ids[u] \in Nat /\ x.ids[u] <= group.lmids[u]
        /\ v # 0 => Whole(wal, x)
Outstanding(H) == \A x \in H[group.version] : Owing(group, x)
LogFits(H) == \A i \in 1 .. Len(group.log) : FitsIn(H, group.version, group.log[i])
Fitted(H, t) ==
    LET down == wires[tabs[t].wire].down
    IN  Live(t) => \A i \in 1 .. Len(down) : Poke(down, i) => FitsIn(H, group.version, down[i].poke)
Stored(H, t) ==
    /\ tabs[t].cookie = 0 => NoLess(NoStore, tabs[t])
    /\ OurTab(t) => /\ tabs[t].cookie <= group.version
                    /\ \E x \in H[tabs[t].cookie] : NoLess(x, tabs[t])
Shipped(H) ==
    /\ Begins(H) /\ Members(H) /\ Outstanding(H) /\ LogFits(H)
    /\ \A t \in Tabs : Fitted(H, t) /\ Stored(H, t)

\* More stores of a version v, and of later ones.
Grows(H, G, v) == \A n \in 0 .. v : H[n] \subseteq G[n] /\ (n # v => G[n] = H[n])

LEMMA FitsOn ==
    ASSUME NEW H, NEW G, NEW top \in Nat, Grows(H, G, top), NEW more \in Nat, top <= more,
           NEW poke, IsPokeRecord(poke), FitsIn(H, top, poke)
    PROVE  FitsIn(G, more, poke)
<1>1. poke.base \in Nat /\ poke.cookie \in Nat /\ poke.base < poke.cookie /\ poke.cookie <= top
  BY DEF IsPokeRecord, FitsIn
<1>2. poke.base \in 0 .. top /\ poke.cookie \in 0 .. top /\ poke.base # top /\ poke.cookie <= more
  BY <1>1
<1>3. G[poke.base] = H[poke.base] /\ H[poke.cookie] \subseteq G[poke.cookie]
  BY <1>2 DEF Grows
<1> QED BY <1>1, <1>2, <1>3 DEF FitsIn

LEMMA WholeOn ==
    ASSUME IsSeq(wal), LogGoes, NEW x, Whole(wal, x) PROVE Whole(wal', x)
<1>1. PICK at \in Len(Earlier) .. Len(wal) : AsOf(wal, x, at)
  BY DEF Whole
<1>2. Len(Earlier) \in Nat /\ Len(wal) \in Nat
  BY SeqParts, ConstantsAssumption
<1>3. at \in Nat /\ at <= Len(wal)
  BY <1>1, <1>2
<1>4. /\ TableAt(wal', at) = TableAt(wal, at)
      /\ \A h : AnswerAt(wal', h, at) = AnswerAt(wal, h, at)
      /\ Len(wal') \in Nat /\ Len(wal) <= Len(wal')
  BY <1>3, LogKept
<1>5. \A u : CountAt(wal', at, u) = CountAt(wal, at, u)
  <2>1. PICK more, log : more = wal' /\ log = wal
    OBVIOUS
  <2>2. \A i \in 1 .. at : more[i] = log[i]
    BY <1>2, <1>3, <2>1, Appended DEF LogGoes
  <2> QED BY <1>3, <2>1, <2>2, CountSame
<1>6. AsOf(wal', x, at) /\ at \in Len(Earlier) .. Len(wal')
  BY <1>1, <1>2, <1>3, <1>4, <1>5 DEF AsOf
<1> QED BY <1>6 DEF Whole

\* A tab that heard nothing, and to which no poke more is on its way.
TabIdle(t) ==
    /\ tabs'[t].cookie = tabs[t].cookie /\ tabs'[t].line = tabs[t].line
    /\ tabs'[t].rows = tabs[t].rows /\ tabs'[t].got = tabs[t].got /\ tabs'[t].ids = tabs[t].ids
    /\ Live(t)' =>
        /\ Live(t) /\ tabs'[t].wire = tabs[t].wire
        /\ \/ wires'[tabs[t].wire].down = wires[tabs[t].wire].down
           \/ \E m : /\ m.kind # "poke"
                     /\ wires'[tabs[t].wire].down = Append(wires[tabs[t].wire].down, m)
\* The same group, at a version no earlier.
Goes(H, G) ==
    /\ group'.line = group.line /\ group.version <= group'.version /\ group'.version \in Nat
    /\ Grows(H, G, group.version)

LEMMA SameTab ==
    ASSUME GroupInv, NEW t \in Tabs, OurTab(t)', group'.line = group.line,
           tabs'[t].cookie = tabs[t].cookie, tabs'[t].line = tabs[t].line
    PROVE  OurTab(t)
<1>1. tabs[t].line \in Nat /\ group.line \in Nat
  BY DEF GroupInv, Shape, Ends, IsTab, IsGroup
<1>2. tabs[t].cookie # 0 /\ tabs[t].line = group.line
  BY DEF OurTab
<1>3. tabs[t].cookie # 0 /\ ~group.open => tabs[t].line < group.line
  BY DEF GroupInv, Order, Lines
<1> QED BY <1>1, <1>2, <1>3 DEF OurTab

LEMMA IdleStored ==
    ASSUME GroupInv, NEW t \in Tabs, NEW H, NEW G, Goes(H, G), Stored(H, t),
           tabs'[t].cookie = tabs[t].cookie, tabs'[t].line = tabs[t].line,
           tabs'[t].rows = tabs[t].rows, tabs'[t].got = tabs[t].got, tabs'[t].ids = tabs[t].ids
    PROVE  Stored(G, t)'
<1>1. tabs[t].cookie \in Nat /\ group.version \in Nat
  BY DEF GroupInv, Shape, Ends, IsTab, IsGroup
<1>2. tabs'[t].cookie = 0 => NoLess(NoStore, tabs'[t])
  BY DEF Stored, NoLess
<1>3. ASSUME OurTab(t)'
      PROVE  tabs'[t].cookie <= group'.version /\ \E x \in G[tabs'[t].cookie] : NoLess(x, tabs'[t])
  <2>1. OurTab(t)
    BY <1>3, SameTab DEF Goes
  <2>2. PICK x \in H[tabs[t].cookie] : NoLess(x, tabs[t])
    BY <2>1 DEF Stored
  <2>3. tabs[t].cookie <= group.version
    BY <2>1 DEF Stored
  <2>4. x \in G[tabs[t].cookie]
    BY <1>1, <2>2, <2>3 DEF Goes, Grows
  <2> QED BY <1>1, <2>2, <2>3, <2>4 DEF Goes, NoLess
<1> QED BY <1>2, <1>3 DEF Stored

LEMMA DownOn ==
    ASSUME NEW H, NEW G, NEW top \in Nat, Grows(H, G, top), NEW more \in Nat, top <= more,
           NEW down, IsDown(down), NEW next,
           \/ next = down
           \/ \E m : next = Append(down, m) /\ (m.kind = "poke" => FitsIn(G, more, m.poke)),
           \A i \in 1 .. Len(down) : Poke(down, i) => FitsIn(H, top, down[i].poke)
    PROVE  \A i \in 1 .. Len(next) : Poke(next, i) => FitsIn(G, more, next[i].poke)
<1>1. ASSUME NEW i \in 1 .. Len(down), Poke(down, i) PROVE FitsIn(G, more, down[i].poke)
  <2>1. PICK poke : poke = down[i].poke
    OBVIOUS
  <2>2. IsPokeRecord(poke) /\ FitsIn(H, top, poke)
    BY <1>1, <2>1 DEF IsDown
  <2> QED BY <2>1, <2>2, FitsOn
<1>2. ASSUME NEW m, next = Append(down, m), m.kind = "poke" => FitsIn(G, more, m.poke)
      PROVE  \A i \in 1 .. Len(next) : Poke(next, i) => FitsIn(G, more, next[i].poke)
  <2>1. /\ Len(next) = Len(down) + 1 /\ Len(down) \in Nat
        /\ \A i \in 1 .. Len(down) : next[i] = down[i]
        /\ next[Len(down) + 1] = m
    BY <1>2, Appended DEF IsDown
  <2>2. ASSUME NEW i \in 1 .. Len(next), Poke(next, i) PROVE FitsIn(G, more, next[i].poke)
    <3>1. CASE i = Len(down) + 1
      BY <1>2, <2>1, <2>2, <3>1 DEF Poke
    <3>2. CASE i \in 1 .. Len(down)
      BY <1>1, <2>1, <2>2, <3>2 DEF Poke
    <3> QED BY <2>1, <3>1, <3>2
  <2> QED BY <2>2
<1> QED BY <1>1, <1>2

LEMMA IdleFitted ==
    ASSUME GroupInv, NEW t \in Tabs, NEW H, NEW G, Goes(H, G), Fitted(H, t), TabIdle(t)
    PROVE  Fitted(G, t)'
<1> DEFINE down == wires[tabs[t].wire].down
<1> SUFFICES ASSUME Live(t)'
             PROVE  \A i \in 1 .. Len(wires'[tabs'[t].wire].down) :
                        Poke(wires'[tabs'[t].wire].down, i) =>
                            FitsIn(G, group'.version, wires'[tabs'[t].wire].down[i].poke)
  BY DEF Fitted
<1>1. /\ Live(t) /\ tabs'[t].wire = tabs[t].wire
      /\ \/ wires'[tabs[t].wire].down = down
         \/ \E m : m.kind # "poke" /\ wires'[tabs[t].wire].down = Append(down, m)
  BY Zenon DEF TabIdle
<1>2. IsDown(down)
  BY <1>1, AtTheEnd, Zenon DEF Live, IsWire
<1>3. \A i \in 1 .. Len(down) : Poke(down, i) => FitsIn(H, group.version, down[i].poke)
  BY <1>1, Zenon DEF Fitted
<1>4. group.version \in Nat
  BY DEF GroupInv, Shape, Ends, IsGroup
<1>5. PICK next, top, more, dn : /\ next = wires'[tabs[t].wire].down /\ top = group.version
                                 /\ more = group'.version /\ dn = down
  OBVIOUS
<1> HIDE DEF down
<1>6. /\ Grows(H, G, top) /\ top <= more /\ top \in Nat /\ more \in Nat /\ IsDown(dn)
      /\ (next = dn \/ \E m : next = Append(dn, m) /\ (m.kind = "poke" => FitsIn(G, more, m.poke)))
      /\ \A i \in 1 .. Len(dn) : Poke(dn, i) => FitsIn(H, top, dn[i].poke)
  BY <1>1, <1>2, <1>3, <1>4, <1>5 DEF Goes
<1>7. \A i \in 1 .. Len(next) : Poke(next, i) => FitsIn(G, more, next[i].poke)
  BY <1>6, DownOn
<1> QED BY <1>1, <1>5, <1>7

LEMMA StillIdle ==
    ASSUME GroupInv, Still, NEW t \in Tabs, tabs'[t].rows = tabs[t].rows,
           tabs'[t].got = tabs[t].got
    PROVE  TabIdle(t)
<1>1. TabStill(t)
  BY DEF Still
<1>2. ASSUME Live(t)'
      PROVE  /\ Live(t)
             /\ \/ wires'[tabs[t].wire].down = wires[tabs[t].wire].down
                \/ \E m : /\ m.kind # "poke"
                          /\ wires'[tabs[t].wire].down = Append(wires[tabs[t].wire].down, m)
  <2>1. tabs[t].wire # 0 /\ wires'[tabs[t].wire].stage = "joined"
    BY <1>1, <1>2 DEF Live, TabStill
  <2>2. tabs[t].wire \in Wires /\ Listening(tabs[t].wire) /\ WireStill(tabs[t].wire)
    BY <2>1, AtTheEnd DEF Still
  <2> QED BY <2>1, <2>2, Zenon DEF WireStill, Live
<1> QED BY <1>1, <1>2 DEF TabIdle, TabStill

LEMMA ApartIdle == ASSUME NEW t \in Tabs, Apart(t) PROVE TabIdle(t)
BY DEF Apart, TabIdle, Live

\* Steps that leave stores alone, other than those of tabs that come, go or hear.
StoresStay == \A t \in Tabs : tabs'[t].rows = tabs[t].rows /\ tabs'[t].got = tabs[t].got

LEMMA SayStays ==
    ASSUME GroupInv,
           \/ \E t \in Tabs, h \in Queries : Desire(t, h) \/ Undesire(t, h)
           \/ \E t, gone \in Tabs : Forget(t, gone)
    PROVE  StoresStay
<1>0. DOMAIN tabs = Tabs /\ \A t \in Tabs : DOMAIN tabs[t] = TabFields
  BY DEF GroupInv, Shape, Ends, IsTab
<1> DEFINE Says(t, a, b, c) == \/ tabs' = [tabs EXCEPT ![t].desires = a, ![t].told = b, ![t].asked = c]
                               \/ tabs' = [tabs EXCEPT ![t].asked = c]
<1>1. ASSUME NEW t \in Tabs, NEW a, NEW b, NEW c, Says(t, a, b, c) PROVE StoresStay
  <2>1. \A v \in Tabs \ {t} : tabs'[v] = tabs[v]
    BY <1>0, <1>1
  <2>2. \/ tabs'[t] = [tabs[t] EXCEPT !.desires = a, !.told = b, !.asked = c]
        \/ tabs'[t] = [tabs[t] EXCEPT !.asked = c]
    BY <1>0, <1>1
  <2>3. tabs'[t].rows = tabs[t].rows /\ tabs'[t].got = tabs[t].got
    BY <1>0, <2>2 DEF TabFields
  <2> QED BY <2>1, <2>3 DEF StoresStay
<1>a. ASSUME NEW t \in Tabs, NEW h \in Queries, Desire(t, h) PROVE \E a, b, c : Says(t, a, b, c)
  BY <1>a, Zenon DEF Desire
<1>b. ASSUME NEW t \in Tabs, NEW h \in Queries, Undesire(t, h) PROVE \E a, b, c : Says(t, a, b, c)
  BY <1>b, Zenon DEF Undesire
<1>c. ASSUME NEW t \in Tabs, NEW gone \in Tabs, Forget(t, gone) PROVE \E a, b, c : Says(t, a, b, c)
  BY <1>c, Zenon DEF Forget
<1> HIDE DEF Says
<1>2. PICK t \in Tabs : \E a, b, c : Says(t, a, b, c)
  BY <1>a, <1>b, <1>c, Zenon
<1>3. PICK a, b, c : Says(t, a, b, c)
  BY <1>2, Zenon
<1> QED BY <1>1, <1>3, Zenon

LEMMA DropIdle ==
    ASSUME GroupInv, NEW t \in Tabs, Drop(t), NEW v \in Tabs PROVE TabIdle(v)
<1>1. tabs[t].wire # 0 /\ IsTab(tabs[t])
  BY DEF Drop, GroupInv, Shape, Ends
<1> DEFINE w == tabs[t].wire
           x == [wires[w] EXCEPT !.down = <<>>]
           y == [tabs[t] EXCEPT !.wire = 0]
<1>2. w \in Wires /\ IsWire(wires[w]) /\ \A u \in Tabs : tabs[u].wire = w => u = t
  BY <1>1, AtTheEnd
<1>3. /\ wires' = [wires EXCEPT ![w] = x] /\ tabs' = [tabs EXCEPT ![t] = y]
  BY <1>2 DEF Drop, GroupInv, Shape, Ends
<1>4. IsWire(x)
  BY <1>2, NothingUnderWay DEF IsWire, WireFields
<1>5. /\ IsTab(y) /\ y.wire = 0 /\ y.ids = tabs[t].ids /\ y.cookie = tabs[t].cookie
      /\ y.line = tabs[t].line /\ y.rows = tabs[t].rows /\ y.got = tabs[t].got
  BY <1>1 DEF IsTab, TabFields
<1> HIDE DEF w, x, y
<1>6. \A u \in Wires : u # w => wires'[u] = wires[u]
  BY <1>2, <1>3, <1>4, OneWire
<1>7. tabs'[t] = y /\ \A u \in Tabs : u # t => tabs'[u] = tabs[u]
  BY <1>3, <1>5, OneTab
<1>8. CASE v = t
  BY <1>5, <1>7, <1>8 DEF TabIdle, Live
<1>9. CASE v # t
  <2>1. tabs[v].wire # 0 => tabs[v].wire # w /\ tabs[v].wire \in Wires
    BY <1>2, <1>9, AtTheEnd
  <2>2. Apart(v)
    BY <1>6, <1>7, <1>9, <2>1 DEF Apart
  <2> QED BY <2>2, ApartIdle
<1> QED BY <1>8, <1>9

LEMMA OpenIdle ==
    ASSUME GroupInv, NEW t \in Tabs, NEW w \in Wires, Open(w, t), NEW v \in Tabs PROVE TabIdle(v)
<1>1. wires[w].stage = "unused" /\ tabs[t].wire = 0 /\ IsTab(tabs[t]) /\ IsWire(wires[w])
  BY DEF Open, GroupInv, Shape, Ends
<1>2. PICK a, b : /\ wires' = [wires EXCEPT ![w] = [NoWire EXCEPT !.stage = "reading", !.tab = t,
                                   !.cookie = tabs[t].cookie, !.asks = b]]
                  /\ tabs' = [tabs EXCEPT ![t].wire = w, ![t].told = a]
  BY Zenon DEF Open
<1>3. wires'[w].stage = "reading" /\ \A u \in Wires : u # w => wires'[u] = wires[u]
  BY <1>2 DEF NoWire, GroupInv, Shape, Ends
<1>4. tabs' = [tabs EXCEPT ![t] = [tabs[t] EXCEPT !.wire = w, !.told = a]]
  BY <1>2 DEF GroupInv, Shape, Ends
<1>5. /\ tabs'[t] = [tabs[t] EXCEPT !.wire = w, !.told = a]
      /\ \A u \in Tabs : u # t => tabs'[u] = tabs[u]
  BY <1>4 DEF GroupInv, Shape, Ends
<1>6. /\ tabs'[t].wire = w /\ tabs'[t].ids = tabs[t].ids /\ tabs'[t].cookie = tabs[t].cookie
      /\ tabs'[t].line = tabs[t].line /\ tabs'[t].rows = tabs[t].rows /\ tabs'[t].got = tabs[t].got
  BY <1>1, <1>5 DEF IsTab, TabFields
<1>7. CASE v = t
  BY <1>3, <1>6, <1>7 DEF TabIdle, Live
<1>8. CASE v # t
  <2>1. tabs[v].wire # 0 => tabs[v].wire # w /\ tabs[v].wire \in Wires
    BY <1>1 DEF GroupInv, Order, Wired
  <2>2. Apart(v)
    BY <1>3, <1>5, <1>8, <2>1 DEF Apart
  <2> QED BY <2>2, ApartIdle
<1> QED BY <1>7, <1>8

LEMMA GoneIdle ==
    ASSUME GroupInv, NEW w \in Wires, NEW x, x.stage = "gone", wires' = [wires EXCEPT ![w] = x],
           UNCHANGED tabs, NEW v \in Tabs
    PROVE  TabIdle(v)
<1>1. wires'[w] = x /\ \A u \in Wires : u # w => wires'[u] = wires[u]
  BY DEF GroupInv, Shape, Ends
<1>2. CASE tabs[v].wire = w
  BY <1>1, <1>2 DEF TabIdle, Live
<1>3. CASE tabs[v].wire # w
  <2>1. Apart(v)
    BY <1>1, <1>3, AtTheEnd DEF Apart
  <2> QED BY <2>1, ApartIdle
<1> QED BY <1>2, <1>3

LEMMA DisconnectIdle ==
    ASSUME GroupInv, NEW w \in Wires, Disconnect(w) \/ (Connect(w) /\ Refusal(w)), NEW v \in Tabs
    PROVE  TabIdle(v)
<1>1. UNCHANGED tabs
  BY DEF Disconnect, Connect, Refusal
<1>2. \E x : x.stage = "gone" /\ wires' = [wires EXCEPT ![w] = x]
  <2>1. \A u, d : /\ [NoWire EXCEPT !.stage = "gone", !.tab = u].stage = "gone"
                  /\ [NoWire EXCEPT !.stage = "gone", !.tab = u, !.down = d].stage = "gone"
    BY DEF NoWire
  <2> QED BY <2>1 DEF Disconnect, Refusal
<1> QED BY <1>1, <1>2, GoneIdle

\* What a store of version v is.
Stock(v, x) ==
    /\ \A u \in Tabs : x.ids[u] \in Nat /\ x.ids[u] <= group.lmids[u]
    /\ v # 0 => Whole(wal, x)

LEMMA StockOn ==
    ASSUME GroupInv, GroupInv', LogGoes, \A u \in Tabs : group.lmids[u] <= group'.lmids[u],
           NEW v, NEW x, Stock(v, x)
    PROVE  Stock(v, x)'
<1>1. \A u \in Tabs : group.lmids[u] \in Nat /\ group'.lmids[u] \in Nat
  BY DEF GroupInv, Shape, Ends, IsGroup, IdMap
<1>2. \A a, b, c \in Nat : a <= b /\ b <= c => a <= c
  OBVIOUS
<1>3. \A u \in Tabs : x.ids[u] \in Nat /\ x.ids[u] <= group'.lmids[u]
  BY <1>1, <1>2 DEF Stock
<1>4. v # 0 => Whole(wal', x)
  BY WholeOn DEF Stock, GroupInv, Shape, Feed
<1> QED BY <1>3, <1>4 DEF Stock

LEMMA ShipsOn ==
    ASSUME GroupInv, GroupInv', LogGoes, \A u \in Tabs : group.lmids[u] <= group'.lmids[u],
           NEW H, NEW G, Shipped(H), Goes(H, G),
           \A v \in 0 .. group'.version : \A x \in G[v] :
                (v <= group.version /\ x \in H[v]) \/ Stock(v, x)',
           Begins(G)', Outstanding(G)', LogFits(G)',
           \A t \in Tabs : TabIdle(t) \/ (Stored(G, t)' /\ Fitted(G, t)')
    PROVE  Shipped(G)'
<1>1. Members(G)'
  <2>1. ASSUME NEW v \in 0 .. group'.version, NEW x \in G[v] PROVE Stock(v, x)'
    <3>1. CASE v <= group.version /\ x \in H[v]
      <4>1. v \in 0 .. group.version
        BY <3>1 DEF Goes, GroupInv, Shape, Ends, IsGroup
      <4>2. Stock(v, x)
        BY <3>1, <4>1 DEF Shipped, Members, Stock
      <4> QED BY <4>2, StockOn
    <3> QED BY <2>1, <3>1
  <2> QED BY <2>1 DEF Members, Stock
<1>2. ASSUME NEW t \in Tabs, TabIdle(t) PROVE Stored(G, t)' /\ Fitted(G, t)'
  <2>1. Stored(H, t) /\ Fitted(H, t)
    BY DEF Shipped
  <2>2. Stored(G, t)'
    BY <1>2, <2>1, IdleStored DEF TabIdle
  <2>3. Fitted(G, t)'
    BY <1>2, <2>1, IdleFitted
  <2> QED BY <2>2, <2>3
<1> QED BY <1>1, <1>2 DEF Shipped

\* The version, the log and what is owed stay.
SameShelf ==
    /\ group'.line = group.line /\ group'.version = group.version /\ group'.log = group.log
    /\ \A u \in Tabs : group.lmids[u] <= group'.lmids[u]
    /\ OwesOn(group, group')

LEMMA ShelfStays ==
    ASSUME GroupInv, GroupInv', LogGoes, SameShelf, NEW H, Shipped(H),
           \A t \in Tabs : TabIdle(t) \/ (Stored(H, t)' /\ Fitted(H, t)')
    PROVE  Shipped(H)'
<1>1. group.version \in Nat
  BY DEF GroupInv, Shape, Ends, IsGroup
<1>2. Goes(H, H)
  BY <1>1 DEF Goes, Grows, SameShelf
<1>3. Begins(H)' /\ Outstanding(H)' /\ LogFits(H)'
  BY DEF Shipped, Begins, Outstanding, LogFits, SameShelf, OwesOn
<1>4. \A v \in 0 .. group'.version : \A x \in H[v] : v <= group.version /\ x \in H[v]
  BY <1>1 DEF SameShelf
<1>5. \A u \in Tabs : group.lmids[u] <= group'.lmids[u]
  BY DEF SameShelf
<1> QED BY <1>2, <1>3, <1>4, <1>5, ShipsOn

LEMMA StillShips ==
    ASSUME GroupInv, GroupInv', LogGoes, Still, OwesOn(group, group'), StoresStay,
           NEW H, Shipped(H)
    PROVE  Shipped(H)'
<1>1. SameShelf
  BY DEF Still, Risen, SameFace, SameShelf
<1>2. \A t \in Tabs : TabIdle(t)
  BY StillIdle DEF StoresStay
<1> QED BY <1>1, <1>2, ShelfStays

LEMMA GroupShelf == ASSUME GroupInv, group' = group PROVE SameShelf
<1>1. \A u \in Tabs : group.lmids[u] \in Nat
  BY DEF GroupInv, Shape, Ends, IsGroup, IdMap
<1> QED BY <1>1 DEF SameShelf, OwesOn

\* All that is said and done elsewhere, apart from a tab that hears.
LEMMA ElsewhereShips ==
    ASSUME GroupInv, GroupInv', Elsewhere, ~ \E t \in Tabs : Hear(t), NEW H, Shipped(H)
    PROVE  Shipped(H)'
<1>1. LogGoes /\ group' = group
  BY ElsewhereLeaves DEF thread
<1>2. CASE \E t \in Tabs : Drop(t)
  <2>1. \A v \in Tabs : TabIdle(v)
    BY <1>2, DropIdle
  <2> QED BY <1>1, <2>1, GroupShelf, ShelfStays
<1>3. CASE \E w \in Wires, t \in Tabs : Open(w, t)
  <2>1. \A v \in Tabs : TabIdle(v)
    BY <1>3, OpenIdle
  <2> QED BY <1>1, <2>1, GroupShelf, ShelfStays
<1>4. CASE \/ \E t \in Tabs, h \in Queries : Desire(t, h) \/ Undesire(t, h)
           \/ \E t, gone \in Tabs : Forget(t, gone)
  BY <1>1, <1>4, SayStays, SayStill, StillShips DEF OwesOn
<1>5. ASSUME Still, tabs' = tabs PROVE Shipped(H)'
  <2>1. StoresStay
    BY <1>5 DEF StoresStay
  <2> QED BY <1>1, <1>5, <2>1, StillShips DEF OwesOn
<1>6. CASE OutsideWrite \/ \E t \in Tabs : Mutate(t) \/ RefuseMutation(t)
  <2>1. tabs' = tabs
    BY <1>6 DEF OutsideWrite, Mutate, RefuseMutation, Committed
  <2> QED BY <1>5, <1>6, <2>1, EngineStill
<1>7. CASE TakeRegister \/ TakeUnregister \/ Route
           \/ \E token \in DOMAIN engine.subs : Land(token) \/ RefuseRead(token)
  <2>1. tabs' = tabs
    BY <1>7, Zenon DEF TakeRegister, TakeUnregister, Route, Land, RefuseRead
  <2> QED BY <1>5, <1>7, <2>1, EngineStill
<1>8. CASE \E w \in Wires : ReadMutations(w)
  <2>1. tabs' = tabs
    BY <1>8 DEF ReadMutations
  <2> QED BY <1>5, <1>8, <2>1, ReadStill
<1>9. CASE UNCHANGED vars
  <2>1. tabs' = tabs /\ UNCHANGED <<group, wires, tabs>>
    BY <1>9 DEF vars, thread
  <2> QED BY <1>5, <2>1, NothingMoves
<1> QED BY <1>2, <1>3, <1>4, <1>6, <1>7, <1>8, <1>9 DEF Elsewhere

LEMMA AskingShips ==
    ASSUME GroupInv, GroupInv', IsLedger(group), GotRead(group.queries), Asking, NEW H, Shipped(H)
    PROVE  Shipped(H)'
<1>1. OwesOn(group, group') /\ LogGoes
  BY AskingFollows, AskingLeaves DEF Follows, LogGoes
<1>2. Still
  BY RequestStill, ThreadStill DEF Asking
<1>3. tabs' = tabs
  BY Zenon DEF Asking, Put, NotPlanned, Anew, Del, DeleteClient, ExpireQuery, Cool
<1> QED BY <1>1, <1>2, <1>3, StillShips DEF StoresStay

LEMMA HearsShips ==
    ASSUME GroupInv, GroupInv', Hears, OwesOn(group, group'), NEW H, Shipped(H)
    PROVE  Shipped(H)'
<1>1. Still
  BY ThreadStill, RefusedStill DEF Hears
<1>2. UNCHANGED <<wal, tabs>>
  <2>1. CASE TakeRegistered
    BY <2>1 DEF TakeRegistered
  <2>2. CASE TakeLanded \/ TakeHydrated \/ TakeCommitted
    BY <2>2 DEF TakeLanded, TakeHydrated, TakeCommitted
  <2>3. CASE TakeRefused
    BY <2>3 DEF TakeRefused
  <2> QED BY <2>1, <2>2, <2>3 DEF Hears
<1> QED BY <1>1, <1>2, StillShips DEF StoresStay, LogGoes

LEMMA GoneShips ==
    ASSUME GroupInv, GroupInv', IsLedger(group), NEW w \in Wires,
           Disconnect(w) \/ (Connect(w) /\ Refusal(w)), NEW H, Shipped(H)
    PROVE  Shipped(H)'
<1>1. \A v \in Tabs : TabIdle(v)
  BY DisconnectIdle
<1>2. LogGoes
  BY DEF Disconnect, Connect, LogGoes
<1>3. CASE group' = group
  BY <1>1, <1>2, <1>3, GroupShelf, ShelfStays
<1>4. ASSUME NEW x, group' = [group EXCEPT !.sockets = x] PROVE Shipped(H)'
  <2>1. Queues(group)
    BY DEF IsLedger
  <2>2. /\ group'.rows = group.rows /\ group'.queries = group.queries
        /\ group'.queued = group.queued /\ group'.lmids = group.lmids
        /\ group'.version = group.version /\ group'.log = group.log /\ group'.line = group.line
    BY <1>4, <2>1, SocketsOnly
  <2>3. OwesOn(group, group')
    BY <2>2 DEF OwesOn, Owing, RowsOwed, GotOwed, IdsOwed, Complete, Known
  <2>4. \A u \in Tabs : group.lmids[u] \in Nat
    BY DEF GroupInv, Shape, Ends, IsGroup, IdMap
  <2>5. SameShelf
    BY <2>2, <2>3, <2>4 DEF SameShelf
  <2> QED BY <1>1, <1>2, <2>5, ShelfStays
<1>5. group' = group \/ \E x : group' = [group EXCEPT !.sockets = x]
  BY DEF Disconnect, Refusal
<1> QED BY <1>3, <1>4, <1>5

-----------------------------------------------------------------------------
(* A tab hears *)

LEMMA TakesApplied ==
    ASSUME NEW tab, IsTab(tab), NEW t \in Tabs, NEW poke, IsPokeRecord(poke), NEW line \in Nat, NEW z,
           z = Applied(tab, t, poke, line), NEW x, NEW y, Takes(poke, x, y), NoLess(x, tab),
           \A u \in Tabs : x.ids[u] \in Nat /\ y.ids[u] \in Nat
    PROVE  NoLess(y, z)
<1>1. DOMAIN tab = TabFields
  BY DEF IsTab
<1>2. \A k \in Keys : z.rows[k] = IF k \in DOMAIN poke.rows THEN poke.rows[k] ELSE tab.rows[k]
  BY <1>1 DEF Applied, TabFields
<1>3. z.got = (tab.got \ DOMAIN poke.got) \cup {h \in DOMAIN poke.got : poke.got[h]}
  BY <1>1 DEF Applied, TabFields
<1>4. \A u \in Tabs : z.ids[u] = IF poke.ids[u] = 0 THEN tab.ids[u] ELSE poke.ids[u]
  BY AppliedTab
<1>5. \A u \in Tabs : tab.ids[u] \in Nat /\ poke.ids[u] \in Nat
  BY DEF IsTab, IsPokeRecord, IdMap
<1>6. \A k \in Keys : z.rows[k] = y.rows[k]
  BY <1>2 DEF Takes, NoLess
<1>7. \A h : h \in z.got <=> h \in y.got
  <2>1. \A h : h \in z.got <=> (h \in tab.got /\ h \notin DOMAIN poke.got) \/ IsPut(poke.got, h)
    BY <1>3 DEF IsPut
  <2> QED BY <2>1 DEF Takes, NoLess
<1>8. ASSUME NEW u \in Tabs PROVE y.ids[u] <= z.ids[u]
  <2>1. y.ids[u] <= (IF poke.ids[u] = 0 THEN x.ids[u] ELSE poke.ids[u]) /\ x.ids[u] <= tab.ids[u]
    BY DEF Takes, NoLess
  <2>2. \A a, b, c \in Nat : a <= b /\ b <= c => a <= c
    OBVIOUS
  <2>3. CASE poke.ids[u] = 0
    BY <1>4, <1>5, <2>1, <2>2, <2>3
  <2>4. CASE poke.ids[u] # 0
    BY <1>4, <1>5, <2>1, <2>2, <2>4
  <2> QED BY <2>3, <2>4
<1> QED BY <1>6, <1>7, <1>8 DEF NoLess

\* What is left on its way fits, once the first frame is heard.
LEMMA TailFits ==
    ASSUME NEW down, IsDown(down), down # <<>>, NEW H, NEW top,
           \A i \in 1 .. Len(down) : Poke(down, i) => FitsIn(H, top, down[i].poke)
    PROVE  \A i \in 1 .. Len(Tail(down)) : Poke(Tail(down), i) => FitsIn(H, top, Tail(down)[i].poke)
<1>1. /\ Len(Tail(down)) = Len(down) - 1
      /\ \A i \in 1 .. Len(down) - 1 : Tail(down)[i] = down[i + 1] /\ i + 1 \in 1 .. Len(down)
  BY FrameTaken
<1> QED BY <1>1 DEF Poke

\* The store that a poke heard leads to.
LEMMA PokeStores ==
    ASSUME GroupInv, NEW H, Shipped(H), NEW t \in Tabs, NEW poke, IsPokeRecord(poke),
           poke.base = tabs[t].cookie, FitsIn(H, group.version, poke),
           NEW line \in Nat, NEW z, z = Applied(tabs[t], t, poke, line),
           z.line = group.line, group.open
    PROVE  z.cookie <= group.version /\ \E y \in H[z.cookie] : NoLess(y, z)
<1>1. /\ IsTab(tabs[t]) /\ group.version \in Nat /\ poke.base \in Nat /\ poke.cookie \in Nat
      /\ poke.base < poke.cookie /\ poke.cookie <= group.version
  <2>1. IsTab(tabs[t]) /\ group.version \in Nat
    BY DEF GroupInv, Shape, Ends, IsGroup
  <2>2. poke.base \in Nat /\ poke.cookie \in Nat
    BY DEF IsPokeRecord
  <2>3. poke.base < poke.cookie /\ poke.cookie <= group.version
    BY DEF FitsIn
  <2> QED BY <2>1, <2>2, <2>3
<1>2. z.cookie = poke.cookie /\ z.line = (IF poke.base = 0 THEN line ELSE tabs[t].line)
  BY <1>1, AppliedTab
<1>3. PICK x \in H[poke.base] : NoLess(x, tabs[t])
  <2>1. CASE poke.base = 0
    BY <2>1 DEF Shipped, Begins, Stored
  <2>2. CASE poke.base # 0
    BY <1>2, <2>2 DEF Shipped, Stored, OurTab
  <2> QED BY <2>1, <2>2
<1>4. PICK y \in H[poke.cookie] : Takes(poke, x, y)
  BY <1>3 DEF FitsIn
<1>5. \A u \in Tabs : x.ids[u] \in Nat /\ y.ids[u] \in Nat
  BY <1>1, <1>3, <1>4 DEF Shipped, Members
<1>6. PICK tab : tab = tabs[t]
  OBVIOUS
<1>7. NoLess(y, z)
  <2>1. IsTab(tab) /\ z = Applied(tab, t, poke, line) /\ NoLess(x, tab)
    BY <1>1, <1>3, <1>6
  <2> QED BY <1>4, <1>5, <2>1, TakesApplied
<1> QED BY <1>1, <1>2, <1>4, <1>7

LEMMA HearShips ==
    ASSUME GroupInv, GroupInv', NEW t \in Tabs, Hear(t), NEW H, Shipped(H)
    PROVE  Shipped(H)'
<1> DEFINE w == tabs[t].wire
           down == wires[w].down
           x == [wires[w] EXCEPT !.down = Tail(@)]
<1>1. /\ w \in Wires /\ w # 0 /\ wires[w].tab = t /\ down # <<>>
      /\ IsDown(down) /\ IsTab(tabs[t]) /\ IsGroup(group)
      /\ wires[w].stage \in {"joined", "gone"} /\ UNCHANGED group
      /\ x.stage = wires[w].stage /\ x.down = Tail(down)
      /\ wires' = [wires EXCEPT ![w] = x] /\ wires'[w] = x
  BY NextFrame
<1>2. LogGoes
  BY DEF Hear, LogGoes
<1>3. Head(down) = down[1] /\ 1 \in 1 .. Len(down)
  BY <1>1, FrameTaken
<1>4. PICK y : /\ tabs' = [tabs EXCEPT ![t] = y]
               /\ \/ /\ Head(down).kind = "poke"
                     /\ y = Applied(tabs[t], t, Head(down).poke, wires[w].line)
                  \/ /\ Head(down).kind = "errored"
                     /\ y = [tabs[t] EXCEPT !.told = @ \cup {Head(down).hash}]
                  \/ /\ Head(down).kind = "reset" /\ y = [NewTab EXCEPT !.left = TRUE]
  <2>1. \A z : [tabs EXCEPT ![t].told = z] = [tabs EXCEPT ![t] = [tabs[t] EXCEPT !.told = z]]
    BY DEF GroupInv, Shape, Ends
  <2> QED BY <2>1, Zenon DEF Hear, GroupInv, Shape, Ends
<1>5. tabs'[t] = y /\ \A v \in Tabs : v # t => tabs'[v] = tabs[v]
  BY <1>4 DEF GroupInv, Shape, Ends
<1>6. \A v \in Tabs : v # t => TabIdle(v)
  <2>1. \A v \in Tabs : v # t => Apart(v)
    BY <1>1, <1>5, AtTheEnd DEF Apart, GroupInv, Shape, Ends
  <2> QED BY <2>1, ApartIdle
<1> HIDE DEF w, x, down
<1>w. w = tabs[t].wire /\ down = wires[w].down
  BY DEF w, down
<1>7. ASSUME Live(t)', y.wire = w PROVE Fitted(H, t)'
  <2>1. Live(t)
    BY <1>1, <1>5, <1>7, <1>w DEF Live
  <2>2. PICK dn, top : dn = down /\ top = group.version
    OBVIOUS
  <2>3. IsDown(dn) /\ dn # <<>> /\ \A i \in 1 .. Len(dn) : Poke(dn, i) => FitsIn(H, top, dn[i].poke)
    BY <1>1, <1>w, <2>1, <2>2 DEF Shipped, Fitted
  <2>4. \A i \in 1 .. Len(Tail(dn)) : Poke(Tail(dn), i) => FitsIn(H, top, Tail(dn)[i].poke)
    BY <2>3, TailFits
  <2> QED BY <1>1, <1>5, <1>7, <2>2, <2>4, Zenon DEF Fitted
<1>8. Stored(H, t) /\ SameShelf
  BY <1>1, GroupShelf DEF Shipped
<1>9. ASSUME Stored(H, t)', y.wire = w \/ y.wire = 0 PROVE Shipped(H)'
  <2>1. Fitted(H, t)'
    BY <1>5, <1>7, <1>9 DEF Fitted, Live
  <2> QED BY <1>2, <1>6, <1>8, <1>9, <2>1, ShelfStays
<1>10. CASE Head(down).kind = "errored" /\ y = [tabs[t] EXCEPT !.told = @ \cup {Head(down).hash}]
  <2>1. /\ y.ids = tabs[t].ids /\ y.rows = tabs[t].rows /\ y.got = tabs[t].got
        /\ y.wire = w /\ y.cookie = tabs[t].cookie /\ y.line = tabs[t].line
    BY <1>1, <1>10, <1>w DEF IsTab, TabFields
  <2>2. Stored(H, t)'
    BY <1>1, <1>5, <1>8, <2>1 DEF Stored, OurTab, NoLess
  <2> QED BY <1>9, <2>1, <2>2
<1>11. CASE Head(down).kind = "reset" /\ y = [NewTab EXCEPT !.left = TRUE]
  <2>1. /\ y.wire = 0 /\ y.cookie = 0 /\ y.rows = [k \in Keys |-> NoRow] /\ y.got = {}
        /\ \A u \in Tabs : y.ids[u] = 0
    BY <1>11 DEF NewTab, NoIds
  <2>2. \A u \in Tabs : NoStore.ids[u] = 0
    BY DEF NoStore, NoIds
  <2>3. Stored(H, t)'
    BY <1>5, <2>1, <2>2 DEF Stored, OurTab, NoLess, NoStore
  <2> QED BY <1>9, <2>1, <2>3
<1>12. CASE Head(down).kind = "poke" /\ y = Applied(tabs[t], t, Head(down).poke, wires[w].line)
  <2> DEFINE poke == down[1].poke
  <2>1. Poke(down, 1) /\ IsPokeRecord(poke) /\ Head(down).poke = poke
    BY <1>1, <1>3, <1>12 DEF Poke, IsDown
  <2>2. /\ wires[w].stage = "joined" /\ wires[w].line \in Nat
        /\ Linked(tabs[t].cookie, down, group.version)
    <3>1. Wired(t) /\ IsWire(wires[w])
      BY <1>1, Zenon DEF GroupInv, Shape, Ends, Order
    <3>2. PICK wire : wire = wires[w]
      OBVIOUS
    <3>3. /\ wire.stage \in {"reading", "asking", "joined", "gone"}
          /\ wire.stage \in {"reading", "asking"} => down = <<>>
          /\ wire.stage = "joined" => Linked(tabs[t].cookie, down, group.version)
          /\ wire.stage = "gone" => \A i \in 1 .. Len(down) : ~Poke(down, i)
      BY <1>1, <1>w, <3>1, <3>2 DEF Wired
    <3>4. wire.stage = "joined"
      BY <1>1, <1>3, <2>1, <3>3
    <3> QED BY <3>1, <3>2, <3>3, <3>4 DEF IsWire
  <2>3. poke.base = tabs[t].cookie
    <3>1. PICK c, d, dn : c = tabs[t].cookie /\ d = group.version /\ dn = down
      OBVIOUS
    <3>2. IsDown(dn) /\ dn # <<>> /\ Linked(c, dn, d) /\ Head(dn).kind = "poke"
      BY <1>1, <1>12, <2>2, <3>1
    <3>3. Head(dn).poke.base = c
      BY <3>2, LinkTaken
    <3> QED BY <2>1, <3>1, <3>3
  <2>4. FitsIn(H, group.version, poke)
    BY <1>3, <1>w, <2>1, <2>2, <1>1, Zenon DEF Shipped, Fitted, Live
  <2> HIDE DEF poke
  <2>5. PICK line \in Nat : line = wires[w].line
    BY <2>2
  <2>6. y = Applied(tabs[t], t, poke, line)
    BY <1>12, <2>1, <2>5
  <2>7. y.wire = w /\ y.cookie = poke.cookie /\ poke.cookie # 0
    <3>1. PICK tab : tab = tabs[t]
      OBVIOUS
    <3>2. IsTab(tab) /\ y = Applied(tab, t, poke, line)
      BY <1>1, <2>6, <3>1
    <3>3. y.wire = tab.wire /\ y.cookie = poke.cookie
      BY <2>1, <3>2, AppliedTab
    <3> QED BY <1>w, <2>1, <3>1, <3>3 DEF IsPokeRecord
  <2>8. ASSUME y.line = group.line, group.open
        PROVE  y.cookie <= group.version /\ \E z \in H[y.cookie] : NoLess(z, y)
    BY <2>1, <2>3, <2>4, <2>6, <2>8, PokeStores
  <2>9. Stored(H, t)'
    BY <1>1, <1>5, <2>7, <2>8 DEF Stored, OurTab
  <2> QED BY <1>9, <2>7, <2>9
<1> QED BY <1>4, <1>10, <1>11, <1>12

-----------------------------------------------------------------------------
(* What the group shows *)

\* With nothing kept for later, it is a store as of the group's point.
LEMMA ShownWhole ==
    ASSUME NEW log, NEW asked, NEW top, NEW p, IsPoint(log, asked, top, p), NEW g,
           NEW S \in SUBSET Nat, S = SubsOf(g.queries), S \subseteq p.live, IsBook(g.rows, S),
           \A q \in DOMAIN g.queries : HasRead(g.queries[q], q, asked, p.done),
           \A k \in Keys : \A s \in S : View(g.rows)[k][s] = ViewAt(log, p)[k][s],
           MaxLines = 1 => \A u \in Tabs : CountAt(log, p.at, u) <= g.lmids[u]
    PROVE  Whole(log, ShownNow(g))
<1> DEFINE T == TableAt(log, p.at)
           x == ShownNow(g)
<1>1. x.rows = [k \in Keys |-> g.rows[k].image] /\ x.got = Complete(g) /\ x.ids = g.lmids
  BY DEF ShownNow
<1>2. \A k \in Keys : \A s \in S :
        (IF s \in g.rows[k].holders THEN g.rows[k].image ELSE NoRow)
            = (IF k \in p.shown[s] THEN T[k] ELSE NoRow)
  BY DEF View, ViewAt
<1> HIDE DEF T, x
<1>3. ASSUME NEW k \in Keys PROVE x.rows[k] \in {NoRow, T[k]}
  <2>1. g.rows[k].holders \subseteq S /\ (g.rows[k].holders = {} <=> g.rows[k].image = NoRow)
    BY DEF IsBook
  <2>2. CASE g.rows[k].image = NoRow
    BY <1>1, <2>2
  <2>3. CASE g.rows[k].image # NoRow
    <3>1. PICK s \in S : s \in g.rows[k].holders
      BY <2>1, <2>3
    <3> QED BY <1>1, <1>2, <2>3, <3>1
  <2> QED BY <2>2, <2>3
<1>4. ASSUME NEW h \in x.got, NEW k \in AnswerAt(log, h, p.at) PROVE x.rows[k] # NoRow
  <2>1. h \in DOMAIN g.queries /\ g.queries[h].got
    BY <1>1 DEF Complete, Known
  <2> DEFINE s == g.queries[h].sub
  <2>2. s # 0 /\ s \in p.done /\ asked[s] = h
    BY <2>1 DEF HasRead
  <2>3. s \in S
    BY <2>1, <2>2 DEF SubsOf
  <2> HIDE DEF s
  <2>4. k \in p.shown[s] /\ k \in Keys /\ T[k] # NoRow
    <3>1. p.shown[s] = AnswerAt(log, h, p.at)
      BY <2>2, <2>3 DEF IsPoint
    <3> QED BY <3>1 DEF AnswerAt, InQuery, T
  <2> QED BY <1>1, <1>2, <2>3, <2>4
<1>5. AsOf(log, x, p.at)
  BY <1>1, <1>3, <1>4 DEF AsOf, T
<1> QED BY <1>5 DEF Whole, IsPoint, x

LEMMA OwesNow ==
    ASSUME NEW g, NEW x, Owing(g, x), g.lmids \in IdMap PROVE Owing(g, ShownNow(g))
<1> DEFINE z == ShownNow(g)
<1>1. z.rows = [k \in Keys |-> g.rows[k].image] /\ z.got = Complete(g) /\ z.ids = g.lmids
  BY DEF ShownNow
<1> HIDE DEF z
<1>2. RowsOwed(g.rows, g.queued.rows, z.rows)
  BY <1>1 DEF Owing, RowsOwed
<1>3. GotOwed(g, z.got)
  BY <1>1 DEF Owing, GotOwed, IsPut
<1>4. IdsOwed(g, z.ids)
  BY <1>1 DEF IdsOwed, IdMap
<1> QED BY <1>2, <1>3, <1>4 DEF Owing, z

\* The group's whole state takes a store with nothing to what it shows.
LEMMA StateTakes ==
    ASSUME NEW g, NEW S, IsBook(g.rows, S), g.lmids \in IdMap, NEW waiting, NEW poke,
           poke = StatePoke(g, waiting)
    PROVE  Takes(poke, NoStore, ShownNow(g))
<1> DEFINE z == ShownNow(g)
<1>1. z.rows = [k \in Keys |-> g.rows[k].image] /\ z.got = Complete(g) /\ z.ids = g.lmids
  BY DEF ShownNow
<1>2. /\ poke.rows = [k \in {k \in Keys : g.rows[k].holders # {}} |-> g.rows[k].image]
      /\ poke.got = [h \in Complete(g) |-> TRUE] /\ poke.ids = g.lmids
  BY DEF StatePoke
<1>3. NoStore.rows = [k \in Keys |-> NoRow] /\ NoStore.got = {} /\ NoStore.ids = [u \in Tabs |-> 0]
  BY DEF NoStore, NoIds
<1> HIDE DEF z
<1>4. \A k \in Keys : z.rows[k] = IF k \in DOMAIN poke.rows THEN poke.rows[k] ELSE NoStore.rows[k]
  BY <1>1, <1>2, <1>3 DEF IsBook
<1>5. \A h : h \in z.got <=> IsPut(poke.got, h) \/ (h \in NoStore.got /\ h \notin DOMAIN poke.got)
  BY <1>1, <1>2, <1>3 DEF IsPut
<1>6. \A u \in Tabs : z.ids[u] <= IF poke.ids[u] = 0 THEN NoStore.ids[u] ELSE poke.ids[u]
  BY <1>1, <1>2, <1>3 DEF IdMap
<1> QED BY <1>4, <1>5, <1>6 DEF Takes, z

\* A poke told again with ids no lower takes a store as before.
LEMMA AgainTakes ==
    ASSUME NEW poke, NEW g, NEW waiting, NEW x, NEW y, Takes(poke, x, y), DOMAIN poke = PokeFields,
           g.lmids \in IdMap, \A u \in Tabs : y.ids[u] \in Nat /\ y.ids[u] <= g.lmids[u],
           \A u \in Tabs : x.ids[u] \in Nat, NEW again, again = WithCurrent(poke, g, waiting)
    PROVE  Takes(again, x, y)
<1>1. again.rows = poke.rows /\ again.got = poke.got /\ again.ids = g.lmids
  BY DEF WithCurrent, PokeFields
<1>2. ASSUME NEW u \in Tabs PROVE y.ids[u] <= IF again.ids[u] = 0 THEN x.ids[u] ELSE again.ids[u]
  BY <1>1 DEF IdMap
<1> QED BY <1>1, <1>2 DEF Takes

-----------------------------------------------------------------------------
(* A group nobody has opened *)

Closed == ~group.open => group = NoGroup(group.line)

LEMMA ClosedStays ==
    ASSUME GroupInv, TokenInv, Closed, ~group.open, [Next]_vars
    PROVE  group' = group \/ \E w \in Wires : Connect(w) /\ Join(w)
<1>1. group.queries = <<>> /\ Known(group) = {} /\ Subs(group) = {}
  BY DEF Closed, NoGroup, NewGroup, Known, Subs
<1>2. \A w \in Wires : wires[w].stage # "joined"
  BY DEF TokenInv, Reached, GroupInv, Order, Sockets
<1>3. Hears \/ Quiet
  BY HearsOrQuiet
<1>4. CASE Hears
  BY <1>1, <1>4 DEF Hears, TakeRegistered, TakeLanded, TakeHydrated, TakeRefused, TakeCommitted, Adopts
<1>5. CASE Quiet
  <2>1. CASE Elsewhere
    BY <2>1, ElsewhereLeaves DEF thread
  <2>2. CASE Asking
    BY <1>1, <1>2, <2>2, Zenon DEF Asking, Put, NotPlanned, Anew, Del, DeleteClient, NextAsk
  <2>3. CASE Expire
    BY <2>3 DEF Expire
  <2>4. CASE Flush
    BY <2>4 DEF Flush
  <2>5. CASE \E w \in Wires : Connect(w) \/ Disconnect(w)
    BY <1>2, <2>5, Zenon DEF Connect, Refusal, Disconnect
  <2> QED BY <1>5, <2>1, <2>2, <2>3, <2>4, <2>5, QuietIs
<1> QED BY <1>3, <1>4, <1>5

LEMMA OpenStays ==
    ASSUME GroupInv, group.open, [Next]_vars PROVE group'.open = TRUE \/ Expire
<1>1. CASE Still
  BY <1>1 DEF Still, Risen, SameFace, GroupInv, Shape, Ends, IsGroup
<1>2. ASSUME NEW w \in Wires, Connect(w) \/ Disconnect(w) PROVE group'.open = TRUE
  BY <1>2 DEF Connect, Disconnect, Refusal, Join, Merged, GroupInv, Shape, Ends, IsGroup, GroupFields
<1>3. CASE Flush
  <2>1. ASSUME NEW g, Risen(group, g), SendPoke(g) PROVE group'.open = TRUE
    BY <2>1 DEF Risen, SameFace, SendPoke, GroupInv, Shape, Ends, IsGroup, GroupFields
  <2> DEFINE heard == Noted(Accounted(group, pending), changes)
  <2>2. Risen(group, heard)
    <3>1. Kept(group, Accounted(group, pending))
      BY AccountedKept DEF GroupInv, Shape, Ends
    <3> QED BY <3>1, NotedRisen, RisenFollows DEF Kept, GroupInv, Shape
  <2>3. group' = heard \/ SendPoke(heard) \/ group' = group
    BY <1>3 DEF Flush
  <2> QED BY <2>1, <2>2, <2>3 DEF Risen, SameFace, GroupInv, Shape, Ends, IsGroup
<1>4. CASE \/ \E w \in Wires, t \in Tabs : Open(w, t)
           \/ \E t \in Tabs : Drop(t) \/ Hear(t)
  BY <1>4, Zenon DEF Open, Drop, Hear, thread, GroupInv, Shape, Ends, IsGroup
<1> QED BY <1>1, <1>2, <1>3, <1>4, NextMoves

LEMMA ClosedKept == ASSUME GroupInv, GroupInv', TokenInv, Closed, [Next]_vars PROVE Closed'
<1>1. CASE group.open
  <2>1. ASSUME Expire PROVE Closed'
    <3>1. group.line \in Nat
      BY DEF GroupInv, Shape, Ends, IsGroup
    <3> QED BY <2>1, <3>1 DEF Expire, Closed, NoGroup, NewGroup
  <2> QED BY <1>1, <2>1, OpenStays DEF Closed
<1>2. CASE ~group.open
  <2>1. ASSUME NEW w \in Wires, Join(w) PROVE group'.open = TRUE
    BY <1>2, <2>1 DEF Join, Merged, NewGroup
  <2> QED BY <1>2, <2>1, ClosedStays DEF Closed
<1> QED BY <1>1, <1>2

-----------------------------------------------------------------------------
(* A connection is taken, and caught up *)

StoresIn(H, g) == \A v \in 0 .. g.version : \A x \in H[v] :
    \A u \in Tabs : x.ids[u] \in Nat /\ x.ids[u] <= g.lmids[u]

LEMMA AgainFits ==
    ASSUME NEW H, NEW g, g.lmids \in IdMap, g.version \in Nat, StoresIn(H, g), NEW waiting,
           NEW poke, IsPokeRecord(poke), FitsIn(H, g.version, poke),
           NEW again, again = WithCurrent(poke, g, waiting)
    PROVE  FitsIn(H, g.version, again)
<1>1. /\ again.base = poke.base /\ again.cookie = poke.cookie /\ DOMAIN poke = PokeFields
      /\ poke.base \in 0 .. g.version /\ poke.cookie \in 0 .. g.version
  BY DEF WithCurrent, IsPokeRecord, FitsIn, PokeFields
<1>2. ASSUME NEW x \in H[poke.base] PROVE \E y \in H[poke.cookie] : Takes(again, x, y)
  <2>1. PICK y \in H[poke.cookie] : Takes(poke, x, y)
    BY DEF FitsIn
  <2>2. \A u \in Tabs : x.ids[u] \in Nat /\ y.ids[u] \in Nat /\ y.ids[u] <= g.lmids[u]
    BY <1>1 DEF StoresIn
  <2>3. Takes(again, x, y)
    BY <1>1, <2>1, <2>2, AgainTakes
  <2> QED BY <2>3
<1> QED BY <1>1, <1>2 DEF FitsIn

\* Whatever makes up what is owed fits.
LEMMA CaughtUpFits ==
    ASSUME NEW g, IsGroup(g), Logged(g), g.open, NEW S, IsBook(g.rows, S), NEW cookie \in Nat,
           Owed(g, cookie) # "reset", NEW waiting, NEW H, H[0] = {NoStore}, StoresIn(H, g),
           cookie = 0 /\ cookie # g.version => ShownNow(g) \in H[g.version],
           \A i \in 1 .. Len(g.log) : FitsIn(H, g.version, g.log[i]),
           NEW down, down = Framed(CatchUp(g, cookie, waiting))
    PROVE  \A i \in 1 .. Len(down) : FitsIn(H, g.version, down[i].poke)
<1> DEFINE pokes == CatchUp(g, cookie, waiting)
<1>1. /\ IsSeq(pokes) /\ Pokes(pokes)
      /\ \/ cookie = g.version /\ Len(pokes) = 0
         \/ /\ cookie = 0 /\ cookie # g.version
            /\ Len(pokes) = 1 /\ pokes[1] = StatePoke(g, waiting)
         \/ /\ cookie # 0 /\ cookie < g.version /\ Reaches(g.log, cookie)
            /\ Len(PokesAfter(g.log, cookie)) = Len(pokes)
            /\ \A i \in 1 .. Len(pokes) :
                  pokes[i] = WithCurrent(PokesAfter(g.log, cookie)[i], g, waiting)
  BY CatchesUp
<1> HIDE DEF pokes
<1>2. Len(down) = Len(pokes) /\ \A i \in 1 .. Len(pokes) : down[i].poke = pokes[i]
  BY <1>1, FramedPokes DEF pokes
<1>3. g.version \in Nat /\ g.lmids \in IdMap /\ Pokes(g.log)
  BY DEF IsGroup
<1>4. CASE cookie = 0 /\ cookie # g.version /\ Len(pokes) = 1 /\ pokes[1] = StatePoke(g, waiting)
  <2>1. PICK poke : poke = StatePoke(g, waiting)
    OBVIOUS
  <2>2. poke.base = 0 /\ poke.cookie = g.version /\ 0 < g.version
    BY <1>3, <1>4, <2>1 DEF StatePoke
  <2>3. Takes(poke, NoStore, ShownNow(g))
    BY <1>3, <2>1, StateTakes
  <2>4. FitsIn(H, g.version, poke)
    BY <1>3, <1>4, <2>2, <2>3 DEF FitsIn
  <2> QED BY <1>2, <1>4, <2>1, <2>4
<1>5. CASE /\ cookie < g.version /\ Reaches(g.log, cookie)
           /\ Len(PokesAfter(g.log, cookie)) = Len(pokes)
           /\ \A i \in 1 .. Len(pokes) :
                 pokes[i] = WithCurrent(PokesAfter(g.log, cookie)[i], g, waiting)
  <2>1. \A i \in 1 .. Len(pokes) :
            \E j \in 1 .. Len(g.log) : PokesAfter(g.log, cookie)[i] = g.log[j]
    <3>1. IsGroup(g) /\ Logged(g) /\ cookie \in Nat /\ cookie < g.version /\ Reaches(g.log, cookie)
      BY <1>5
    <3>2. PICK after : after = PokesAfter(g.log, cookie)
      OBVIOUS
    <3>3. /\ IsSeq(after) /\ Len(after) = g.version - cookie
          /\ g.version - cookie \in Nat \ {0}
          /\ \A i \in 1 .. g.version - cookie :
                /\ IsPokeRecord(after[i])
                /\ after[i].cookie = cookie + i
                /\ after[i].base + 1 = cookie + i
                /\ \E j \in 1 .. Len(g.log) : after[i] = g.log[j]
      BY <3>1, <3>2, LogAfter
    <3> QED BY <1>5, <3>2, <3>3
  <2>2. ASSUME NEW i \in 1 .. Len(pokes) PROVE FitsIn(H, g.version, pokes[i])
    <3>1. PICK j \in 1 .. Len(g.log) : pokes[i] = WithCurrent(g.log[j], g, waiting)
      BY <1>5, <2>1
    <3>2. PICK poke, again : poke = g.log[j] /\ again = pokes[i]
      OBVIOUS
    <3>3. IsPokeRecord(poke) /\ FitsIn(H, g.version, poke) /\ again = WithCurrent(poke, g, waiting)
      BY <1>3, <3>1, <3>2 DEF Pokes
    <3>4. FitsIn(H, g.version, again)
      BY <1>3, <3>3, AgainFits
    <3> QED BY <3>2, <3>4
  <2> QED BY <1>2, <2>2
<1>6. CASE Len(pokes) = 0
  BY <1>2, <1>6
<1> QED BY <1>1, <1>4, <1>5, <1>6

\* The group that takes a connection: the one it was, opened if need be.
LEMMA JoinedGroup ==
    ASSUME GroupInv, Closed, Queues(group), NEW w \in Wires, wires[w].stage = "asking",
           Owed(group, wires[w].cookie) # "reset", Join(w)
    PROVE  \E g : /\ Queues(g) /\ Logged(g) /\ g.open = TRUE /\ SameRows(group, g)
                  /\ g.version = group.version /\ g.line = group.line /\ g.log = group.log
                  /\ g.queries = group.queries /\ g.queued.got = group.queued.got
                  /\ g.queued.ids = group.queued.ids \cup {t \in Tabs : g.lmids[t] > 0}
                  /\ \A u \in Tabs : group.lmids[u] <= g.lmids[u]
                  /\ Owed(g, wires[w].cookie) # "reset"
                  /\ wires'[w].down
                        = Sent(w, Framed(CatchUp(g, wires[w].cookie, wires[w].waiting)))
                  /\ \E x : group' = [g EXCEPT !.sockets = x]
<1> DEFINE base == IF group.open THEN group ELSE NewGroup(group.line)
           merged == Merged(base, wires[w].ids, wires[w].waiting)
           cookie == wires[w].cookie
<1>1. /\ IsGroup(group) /\ Logged(group) /\ IsWire(wires[w]) /\ wires[w].ids \in IdMap
  BY DEF GroupInv, Shape, Ends, Order, IsWire
<1>2. /\ Queues(base) /\ Logged(base) /\ base.open = TRUE
      /\ base.version = group.version /\ base.line = group.line /\ base.log = group.log
      /\ base.rows = group.rows /\ base.queued = group.queued /\ base.queries = group.queries
      /\ base.lmids = group.lmids
  <2>1. CASE group.open
    BY <1>1, <2>1 DEF IsGroup
  <2>2. CASE ~group.open
    <3>1. group.line \in Nat /\ base = NewGroup(group.line) /\ group = NoGroup(group.line)
      BY <1>1, <2>2 DEF IsGroup, Closed
    <3>2. NoGroup(group.line) = [NewGroup(group.line) EXCEPT !.open = FALSE]
      BY DEF NoGroup
    <3>3. base.open = TRUE /\ DOMAIN base = GroupFields
      BY <3>1, NewGroups DEF NewGroup, GroupFields
    <3>4. group = [base EXCEPT !.open = FALSE]
      BY <3>1, <3>2
    <3> HIDE DEF base
    <3>5. /\ base.version = group.version /\ base.line = group.line /\ base.log = group.log
          /\ base.rows = group.rows /\ base.queued = group.queued /\ base.queries = group.queries
          /\ base.lmids = group.lmids
      BY <3>3, <3>4 DEF GroupFields
    <3>6. Queues(base) /\ Logged(base)
      BY <3>1, NewGroups, NewGroupQueues DEF base
    <3> QED BY <3>3, <3>5, <3>6
  <2> QED BY <2>1, <2>2
<1>3. group' = [merged EXCEPT !.sockets = @ \cup {w}]
  BY DEF Join
<1>4. wires'[w].down = Sent(w, Framed(CatchUp(merged, cookie, wires[w].waiting)))
  BY <1>1 DEF Join, GroupInv, Shape, Ends, IsWire, WireFields
<1> HIDE DEF base
<1>5. /\ Queues(merged) /\ Risen(base, merged) /\ SameRows(base, merged)
      /\ merged.queries = base.queries /\ merged.queued.got = base.queued.got
      /\ merged.queued.ids = base.queued.ids \cup {t \in Tabs : merged.lmids[t] > 0}
  <2>1. PICK ids, waiting : ids = wires[w].ids /\ waiting = wires[w].waiting
    OBVIOUS
  <2> QED BY <1>1, <1>2, <2>1, MergedOnly
<1> HIDE DEF merged
<1>6. /\ merged.open = TRUE /\ merged.version = group.version /\ merged.line = group.line
      /\ merged.log = group.log /\ Logged(merged)
      /\ \A u \in Tabs : group.lmids[u] <= merged.lmids[u]
  BY <1>2, <1>5 DEF Risen, SameFace, Logged
<1>7. Owed(merged, cookie) # "reset"
  <2>1. CASE group.open
    BY <1>6, <2>1 DEF Owed
  <2>2. CASE ~group.open
    <3>1. group.version = 0 /\ cookie = 0
      BY <2>2 DEF Closed, NoGroup, NewGroup, Owed
    <3> QED BY <1>6, <3>1 DEF Owed
  <2> QED BY <2>1, <2>2
<1> QED BY <1>2, <1>3, <1>4, <1>5, <1>6, <1>7 DEF SameRows

\* What the stores of its version are owed by a group that takes a connection.
LEMMA JoinedOwes ==
    ASSUME NEW f, NEW g, SameRows(f, g), g.queries = f.queries, g.queued.got = f.queued.got,
           g.queued.ids = f.queued.ids \cup {t \in Tabs : g.lmids[t] > 0},
           g.lmids \in IdMap, NEW x, \A u \in Tabs : x.ids[u] \in Nat, Owing(f, x)
    PROVE  Owing(g, x)
<1>1. RowsOwed(g.rows, g.queued.rows, x.rows)
  BY DEF Owing, SameRows
<1>2. GotOwed(g, x.got)
  <2>1. Complete(g) = Complete(f)
    BY DEF Complete, Known
  <2> QED BY <2>1 DEF Owing, GotOwed
<1>3. IdsOwed(g, x.ids)
  BY DEF IdsOwed, IdMap
<1> QED BY <1>1, <1>2, <1>3 DEF Owing

LEMMA SameOwing ==
    ASSUME NEW f, NEW g, g.rows = f.rows, g.queries = f.queries, g.queued = f.queued,
           g.lmids = f.lmids
    PROVE  ShownNow(g) = ShownNow(f) /\ OwesOn(f, g)
<1>1. Complete(g) = Complete(f)
  BY DEF Complete, Known
<1> QED BY <1>1 DEF ShownNow, OwesOn, Owing, GotOwed, IdsOwed

LEMMA JoinShips ==
    ASSUME GroupInv, GroupInv', Closed, NEW asked, NEW p, IsPoint(wal, asked, minted, p),
           Ledger(asked, p), pending = <<>>,
           MaxLines = 1 => \A u \in Tabs : CountAt(wal, p.at, u) <= group.lmids[u],
           NEW w \in Wires, wires[w].stage = "asking", Owed(group, wires[w].cookie) # "reset",
           Join(w), UNCHANGED <<wal, tabs>>, NEW H, Shipped(H)
    PROVE  \E G : Shipped(G)'
<1> DEFINE S == SubsOf(group.queries)
           cookie == wires[w].cookie
           waiting == wires[w].waiting
           top == group.version
<1>1. /\ S \in SUBSET Nat /\ S \subseteq p.live /\ Queues(group) /\ IsBook(group.rows, S)
      /\ ShownAs(View(group.rows), pending, p.known, S, ViewAt(wal, p))
      /\ \A q \in DOMAIN group.queries : HasRead(group.queries[q], q, asked, p.done)
  BY LedgerParts
<1>2. PICK g : /\ Queues(g) /\ Logged(g) /\ g.open = TRUE /\ SameRows(group, g)
               /\ g.version = top /\ g.line = group.line /\ g.log = group.log
               /\ g.queries = group.queries /\ g.queued.got = group.queued.got
               /\ g.queued.ids = group.queued.ids \cup {t \in Tabs : g.lmids[t] > 0}
               /\ \A u \in Tabs : group.lmids[u] <= g.lmids[u]
               /\ Owed(g, cookie) # "reset"
               /\ wires'[w].down = Sent(w, Framed(CatchUp(g, cookie, waiting)))
               /\ \E x : group' = [g EXCEPT !.sockets = x]
  BY <1>1, JoinedGroup
<1>3. /\ group'.rows = g.rows /\ group'.queries = g.queries /\ group'.queued = g.queued
      /\ group'.lmids = g.lmids /\ group'.version = top /\ group'.log = group.log
      /\ group'.open = TRUE /\ group'.line = group.line
  <2>1. PICK x : group' = [g EXCEPT !.sockets = x]
    BY <1>2
  <2> QED BY <1>2, <2>1, SocketsOnly
<1>4. /\ IsGroup(g) /\ IsGroup(group) /\ Logged(group) /\ top \in Nat /\ cookie \in Nat
      /\ g.lmids \in IdMap /\ group.lmids \in IdMap
  BY <1>2 DEF Queues, IsGroup, GroupInv, Shape, Ends, Order, IsWire
<1> DEFINE z == ShownNow(g)
<1>5. Whole(wal, z)
  <2>1. \A k \in Keys : \A s \in S : View(group.rows)[k][s] = ViewAt(wal, p)[k][s]
    <3>1. \A k \in Keys : \A s \in S :
            Seen(View(group.rows)[k][s], <<>>, 0, k, s) = ViewAt(wal, p)[k][s]
      BY <1>1, EmptyIsSeq DEF ShownAs
    <3> QED BY <3>1, SeenNone
  <2>2. MaxLines = 1 => \A u \in Tabs : CountAt(wal, p.at, u) <= g.lmids[u]
    <3>1. \A u \in Tabs : CountAt(wal, p.at, u) \in Nat
      BY CountIs DEF IsPoint
    <3>2. \A u \in Tabs : group.lmids[u] \in Nat /\ g.lmids[u] \in Nat
      BY <1>4 DEF IdMap
    <3>3. \A a, b, c \in Nat : a <= b /\ b <= c => a <= c
      OBVIOUS
    <3> QED BY <1>2, <3>1, <3>2, <3>3
  <2>3. PICK R : R = S
    OBVIOUS
  <2>4. /\ R \in SUBSET Nat /\ R = SubsOf(g.queries) /\ R \subseteq p.live /\ IsBook(g.rows, R)
        /\ \A q \in DOMAIN g.queries : HasRead(g.queries[q], q, asked, p.done)
        /\ \A k \in Keys : \A s \in R : View(g.rows)[k][s] = ViewAt(wal, p)[k][s]
    BY <1>1, <1>2, <2>1, <2>3 DEF SameRows
  <2> HIDE DEF S
  <2> QED BY <2>2, <2>4, ShownWhole
<1>6. z.ids = g.lmids /\ z = ShownNow(group')
  BY <1>3, SameOwing DEF ShownNow
<1>7. \A v \in 0 .. top : \A x \in H[v] : \A u \in Tabs :
        x.ids[u] \in Nat /\ x.ids[u] <= group.lmids[u]
  BY DEF Shipped, Members
<1> HIDE DEF z
<1>8. PICK G : /\ \A v \in Nat : H[v] \subseteq G[v] /\ (v # top => G[v] = H[v])
               /\ top = 0 => G[top] = H[top]
               /\ top # 0 => z \in G[top]
               /\ \A v \in Nat : \A x \in G[v] : x \in H[v] \/ (x = z /\ v = top)
  <2> DEFINE F == [v \in Nat |-> IF v = top /\ v # 0 THEN H[v] \cup {z} ELSE H[v]]
  <2>1. /\ \A v \in Nat : H[v] \subseteq F[v] /\ (v # top => F[v] = H[v])
        /\ top = 0 => F[top] = H[top]
        /\ top # 0 => z \in F[top]
        /\ \A v \in Nat : \A x \in F[v] : x \in H[v] \/ (x = z /\ v = top)
    BY <1>4
  <2> QED BY <2>1
<1>9. Goes(H, G)
  BY <1>3, <1>4, <1>8 DEF Goes, Grows
<1>10. Begins(G)'
  BY <1>3, <1>4, <1>8 DEF Shipped, Begins
<1>11. Outstanding(G)'
  <2>1. ASSUME NEW x \in H[top] PROVE Owing(g, x)
    <3>1. Owing(group, x) /\ \A u \in Tabs : x.ids[u] \in Nat
      BY <1>4, <1>7 DEF Shipped, Outstanding
    <3> QED BY <1>2, <1>4, <3>1, JoinedOwes
  <2>2. Owing(g, z)
    <3>1. PICK x \in H[top] : TRUE
      BY DEF Shipped, Begins
    <3> QED BY <1>4, <2>1, OwesNow DEF z
  <2>3. OwesOn(g, group')
    BY <1>3, SameOwing
  <2> QED BY <1>3, <1>4, <1>8, <2>1, <2>2, <2>3 DEF Outstanding, OwesOn
<1>12. \A i \in 1 .. Len(group.log) : FitsIn(G, top, group.log[i])
  <2>1. ASSUME NEW i \in 1 .. Len(group.log) PROVE FitsIn(G, top, group.log[i])
    <3>1. PICK poke : poke = group.log[i]
      OBVIOUS
    <3>2. FitsIn(H, top, poke) /\ IsPokeRecord(poke)
      BY <1>4, <3>1 DEF Shipped, LogFits, IsGroup, Pokes
    <3>3. Grows(H, G, top) /\ top <= top
      BY <1>4, <1>9 DEF Goes
    <3> HIDE DEF top
    <3>4. FitsIn(G, top, poke)
      BY <1>4, <3>2, <3>3, FitsOn
    <3> QED BY <3>1, <3>4
  <2> QED BY <2>1
<1>13. \A v \in 0 .. group'.version : \A x \in G[v] : (v <= top /\ x \in H[v]) \/ Stock(v, x)'
  <2>1. wal' = wal /\ group'.lmids = z.ids
    BY <1>3, <1>6
  <2>2. \A u \in Tabs : z.ids[u] \in Nat /\ z.ids[u] <= z.ids[u]
    BY <1>4, <1>6 DEF IdMap
  <2>3. \A v : Stock(v, z)'
    BY <1>5, <2>1, <2>2 DEF Stock
  <2> QED BY <1>3, <1>4, <1>8, <2>3
<1>14. \A u \in Tabs : group.lmids[u] <= group'.lmids[u]
  BY <1>2, <1>3
<1>15. ASSUME NEW i \in 1 .. Len(Framed(CatchUp(g, cookie, waiting)))
       PROVE  FitsIn(G, top, Framed(CatchUp(g, cookie, waiting))[i].poke)
  <2>1. PICK c, wait : c = cookie /\ wait = waiting
    OBVIOUS
  <2>2. StoresIn(G, g)
    <3>1. \A a, b, c1 \in Nat : a <= b /\ b <= c1 => a <= c1
      OBVIOUS
    <3>2. \A u \in Tabs : group.lmids[u] \in Nat /\ g.lmids[u] \in Nat
      BY <1>4 DEF IdMap
    <3>3. ASSUME NEW v \in 0 .. top, NEW x \in G[v], NEW u \in Tabs
          PROVE  x.ids[u] \in Nat /\ x.ids[u] <= g.lmids[u]
      BY <1>2, <1>6, <1>7, <1>8, <3>1, <3>2, SMTT(30)
    <3> QED BY <1>2, <3>3 DEF StoresIn
  <2>3. G[0] = {NoStore}
    BY <1>4, <1>8 DEF Shipped, Begins
  <2>4. c = 0 /\ c # g.version => ShownNow(g) \in G[g.version]
    BY <1>2, <1>8, <2>1 DEF z
  <2>5. \A j \in 1 .. Len(g.log) : FitsIn(G, g.version, g.log[j])
    BY <1>2, <1>12
  <2>6. PICK R : R = S /\ IsBook(g.rows, R)
    BY <1>1, <1>2 DEF SameRows
  <2>7. IsGroup(g) /\ Logged(g) /\ g.open /\ c \in Nat /\ Owed(g, c) # "reset"
    BY <1>2, <1>4, <2>1
  <2>8. \A j \in 1 .. Len(Framed(CatchUp(g, c, wait))) :
            FitsIn(G, g.version, Framed(CatchUp(g, c, wait))[j].poke)
    BY <2>2, <2>3, <2>4, <2>5, <2>6, <2>7, CaughtUpFits
  <2> QED BY <1>2, <1>15, <2>1, <2>8
<1>16. ASSUME NEW t \in Tabs PROVE TabIdle(t) \/ (Stored(G, t)' /\ Fitted(G, t)')
  <2>1. CASE tabs[t].wire # w
    <3>1. \A v \in Wires : v # w => wires'[v] = wires[v]
      BY DEF Join, GroupInv, Shape, Ends
    <3>2. Apart(t)
      BY <2>1, <3>1, AtTheEnd DEF Apart
    <3> QED BY <3>2, ApartIdle
  <2>2. CASE tabs[t].wire = w
    <3>1. w # 0 /\ Listening(w) /\ wires[w].down = <<>>
      BY <2>2, Numbered, AtTheEnd DEF GroupInv, Order, Wired
    <3>2. IsSeq(Framed(CatchUp(g, cookie, waiting)))
      <4>1. PICK c, wait : c = cookie /\ wait = waiting
        OBVIOUS
      <4>2. IsDown(Framed(CatchUp(g, c, wait)))
        BY <1>2, <1>4, <4>1, CaughtUp
      <4> QED BY <4>1, <4>2 DEF IsDown
    <3>3. wires'[tabs'[t].wire].down = Framed(CatchUp(g, cookie, waiting))
      BY <1>2, <2>2, <3>1, <3>2, AfterNothing DEF Sent
    <3>4. Fitted(G, t)'
      BY <1>3, <1>15, <3>3 DEF Fitted
    <3>5. Stored(H, t)
      BY DEF Shipped
    <3>6. Stored(G, t)'
      BY <1>9, <3>5, IdleStored
    <3> QED BY <3>4, <3>6
  <2> QED BY <2>1, <2>2
<1>17. LogFits(G)' /\ LogGoes
  BY <1>3, <1>12 DEF LogFits, LogGoes
<1>18. Shipped(G)'
  BY <1>9, <1>10, <1>11, <1>13, <1>14, <1>16, <1>17, ShipsOn
<1> QED BY <1>18

-----------------------------------------------------------------------------
(* A batch ends *)

\* With the deltas accounted and the ids noted, the group is at its point.
LEMMA HeardShows ==
    ASSUME GroupInv, NEW asked, NEW p, IsPoint(wal, asked, minted, p), Ledger(asked, p),
           MaxLines = 1 => \A u \in Tabs :
                \/ CountAt(wal, p.at, u) <= group.lmids[u]
                \/ u \in DOMAIN changes.ids /\ CountAt(wal, p.at, u) <= changes.ids[u],
           NEW g, g = Noted(Accounted(group, pending), changes)
    PROVE  /\ Queues(g) /\ Risen(group, g) /\ OwesOn(group, g) /\ Whole(wal, ShownNow(g))
           /\ \A u \in Tabs : g.lmids[u] \in Nat
<1>1. PICK S, W, V : S = SubsOf(group.queries) /\ W = ViewAt(wal, p) /\ V = View(group.rows)
  OBVIOUS
<1>2. /\ S \in SUBSET Nat /\ S \subseteq p.live /\ Queues(group) /\ IsBook(group.rows, S)
      /\ IsQueries(group.queries) /\ ShownAs(V, pending, p.known, S, W)
      /\ \A q \in DOMAIN group.queries : HasRead(group.queries[q], q, asked, p.done)
  BY <1>1, LedgerParts
<1>3. PICK x, a : x = pending /\ a = Accounted(group, pending)
  OBVIOUS
<1>4. /\ Queues(group) /\ S = Subs(group) /\ IsSeq(x) /\ OnKeys(x)
      /\ Agreed(View(group.rows), x, S) /\ a = Accounted(group, x)
  BY <1>1, <1>2, <1>3, GroupSubs DEF ShownAs
<1>5. /\ IsBook(a.rows, S)
      /\ \A k \in Keys : \A s \in S : View(a.rows)[k][s] = Seen(View(group.rows)[k][s], x, Len(x), k, s)
      /\ \A shown : RowsOwed(group.rows, group.queued.rows, shown)
                        => RowsOwed(a.rows, a.queued.rows, shown)
  BY <1>2, <1>4, AccountedShows
<1>6. /\ SameNews(group, a) /\ a.queued.got = group.queued.got /\ Queues(a)
      /\ a.queries = group.queries /\ a.lmids = group.lmids /\ a.queued.ids = group.queued.ids
  BY <1>4, AccountedOnly, QueriesLeft DEF SameNews, Queues, Kept
<1>7. /\ Queues(g) /\ Risen(a, g) /\ SameRows(a, g) /\ g.queries = a.queries
      /\ g.queued.got = a.queued.got
      /\ g.queued.ids = a.queued.ids \cup Raised(a, changes.ids)
      /\ \A u \in Tabs : g.lmids[u] = IF u \in Raised(a, changes.ids) THEN changes.ids[u]
                                      ELSE a.lmids[u]
  BY <1>3, <1>6, NotedOnly DEF GroupInv, Shape
<1>8. Risen(group, g)
  BY <1>6, <1>7, RisenFollows DEF SameNews
<1>9. OwesOn(group, g)
  <2>1. Complete(g) = Complete(group)
    BY <1>6, <1>7 DEF Complete, Known
  <2>2. ASSUME NEW y, Owing(group, y) PROVE Owing(g, y)
    <3>1. RowsOwed(g.rows, g.queued.rows, y.rows)
      BY <1>5, <1>7, <2>2 DEF Owing, SameRows
    <3>2. GotOwed(g, y.got)
      BY <1>6, <1>7, <2>1, <2>2 DEF Owing, GotOwed
    <3>3. IdsOwed(g, y.ids)
      BY <1>6, <1>7, <2>2 DEF Owing, IdsOwed
    <3> QED BY <3>1, <3>2, <3>3 DEF Owing
  <2> QED BY <2>2 DEF OwesOn
<1>10. /\ \A u \in Tabs : group.lmids[u] \in Nat /\ g.lmids[u] \in Nat
       /\ \A u \in DOMAIN changes.ids : changes.ids[u] \in Nat
  BY <1>2, <1>7 DEF Queues, IsGroup, IdMap, GroupInv, Shape, Feed
<1>11. ASSUME MaxLines = 1, NEW u \in Tabs PROVE CountAt(wal, p.at, u) <= g.lmids[u]
  <2>1. CountAt(wal, p.at, u) \in Nat
    BY CountIs DEF IsPoint
  <2>2. u \in Raised(a, changes.ids) <=> u \in DOMAIN changes.ids /\ changes.ids[u] >= group.lmids[u]
    BY <1>6 DEF Raised
  <2>3. PICK c \in Nat : c = CountAt(wal, p.at, u)
    BY <2>1
  <2>4. c <= group.lmids[u] \/ (u \in DOMAIN changes.ids /\ c <= changes.ids[u])
    BY <1>11, <2>3
  <2>5. CASE u \in DOMAIN changes.ids
    BY <1>6, <1>7, <1>10, <2>2, <2>3, <2>4, <2>5
  <2>6. CASE u \notin DOMAIN changes.ids
    BY <1>6, <1>7, <1>10, <2>2, <2>3, <2>4, <2>6
  <2> QED BY <2>5, <2>6
<1>12. \A k \in Keys : \A s \in S : View(g.rows)[k][s] = W[k][s]
  BY <1>1, <1>2, <1>3, <1>5, <1>7 DEF ShownAs, SameRows
<1>13. Whole(wal, ShownNow(g))
  <2>1. /\ S = SubsOf(g.queries) /\ IsBook(g.rows, S)
        /\ \A q \in DOMAIN g.queries : HasRead(g.queries[q], q, asked, p.done)
    BY <1>1, <1>2, <1>5, <1>6, <1>7 DEF SameRows
  <2>2. \A k \in Keys : \A s \in S : View(g.rows)[k][s] = ViewAt(wal, p)[k][s]
    BY <1>1, <1>12
  <2>3. MaxLines = 1 => \A u \in Tabs : CountAt(wal, p.at, u) <= g.lmids[u]
    BY <1>11
  <2> QED BY <1>2, <2>1, <2>2, <2>3, ShownWhole
<1> QED BY <1>7, <1>8, <1>9, <1>10, <1>13

\* What is queued takes any store that owes the group's view to it.
LEMMA QueuedTakes ==
    ASSUME NEW g, NEW x, Owing(g, x), \A u \in Tabs : x.ids[u] \in Nat /\ g.lmids[u] \in Nat
    PROVE  Takes(QueuedPoke(g), x, ShownNow(g))
<1> DEFINE poke == QueuedPoke(g)
           z == ShownNow(g)
<1>1. z.rows = [k \in Keys |-> g.rows[k].image] /\ z.got = Complete(g) /\ z.ids = g.lmids
  BY DEF ShownNow
<1>2. /\ poke.rows = g.queued.rows /\ poke.got = g.queued.got
      /\ poke.ids = [t \in Tabs |-> IF t \in g.queued.ids THEN g.lmids[t] ELSE 0]
  BY DEF QueuedPoke
<1> HIDE DEF poke, z
<1>3. \A k \in Keys : z.rows[k] = IF k \in DOMAIN poke.rows THEN poke.rows[k] ELSE x.rows[k]
  BY <1>1, <1>2 DEF Owing, RowsOwed
<1>4. \A h : h \in z.got <=> IsPut(poke.got, h) \/ (h \in x.got /\ h \notin DOMAIN poke.got)
  BY <1>1, <1>2 DEF Owing, GotOwed
<1>5. ASSUME NEW u \in Tabs PROVE z.ids[u] <= IF poke.ids[u] = 0 THEN x.ids[u] ELSE poke.ids[u]
  <2>1. u \in g.queued.ids \/ g.lmids[u] <= x.ids[u]
    BY DEF Owing, IdsOwed
  <2> QED BY <1>1, <1>2, <2>1
<1> QED BY <1>3, <1>4, <1>5 DEF Takes, poke, z

\* What was queued is owed no more.
LEMMA OwesNothing ==
    ASSUME NEW g, NEW h, h.rows = g.rows, h.queries = g.queries, h.lmids = g.lmids,
           h.queued = NothingQueued, g.lmids \in IdMap
    PROVE  Owing(h, ShownNow(g))
<1>1. DOMAIN h.queued.rows = {} /\ DOMAIN h.queued.got = {}
  BY DEF NothingQueued
<1>2. RowsOwed(h.rows, h.queued.rows, ShownNow(g).rows)
  BY <1>1 DEF RowsOwed, ShownNow
<1>3. GotOwed(h, ShownNow(g).got)
  BY <1>1 DEF GotOwed, ShownNow, Complete, Known, IsPut
<1>4. IdsOwed(h, ShownNow(g).ids)
  BY DEF IdsOwed, ShownNow, IdMap
<1> QED BY <1>2, <1>3, <1>4 DEF Owing

\* A poke sent takes every store of the version before to what the group shows.
LEMMA SendShips ==
    ASSUME GroupInv, GroupInv', NEW g, Queues(g), Risen(group, g), OwesOn(group, g),
           Whole(wal, ShownNow(g)), SendPoke(g), UNCHANGED <<wal, tabs>>, NEW H, Shipped(H)
    PROVE  \E G : Shipped(G)'
<1>1. /\ IsGroup(group) /\ IsGroup(g) /\ Logged(group) /\ g.version = group.version
      /\ g.open = group.open /\ g.line = group.line /\ g.sockets = group.sockets
      /\ g.log = group.log /\ \A u \in Tabs : group.lmids[u] <= g.lmids[u]
      /\ group.version \in Nat /\ g.lmids \in IdMap /\ group.lmids \in IdMap
  BY DEF Risen, SameFace, GroupInv, Shape, Ends, Order, IsGroup
<1>2. PICK top, poke, z : top = group.version /\ poke = QueuedPoke(g) /\ z = ShownNow(g)
  OBVIOUS
<1>3. /\ IsPokeRecord(poke) /\ poke.base = top /\ poke.cookie = top + 1 /\ top \in Nat
  BY <1>1, <1>2, QueuedPokes
<1>4. PICK kept \in 0 .. LogPokes :
        /\ kept <= Len(g.log) + 1
        /\ group' = [g EXCEPT !.version = @ + 1, !.queued = NothingQueued,
                              !.log = LastOf(Append(@, poke), kept)]
  BY <1>2, Zenon DEF SendPoke
<1>5. wires' = [w \in Wires |->
            IF w \in g.sockets THEN [wires[w] EXCEPT !.down = Sent(w, <<PokeFrame(poke)>>)]
            ELSE wires[w]]
  BY <1>2 DEF SendPoke
<1>6. PokeFrame(poke).kind = "poke" /\ PokeFrame(poke).poke = poke
  BY DEF PokeFrame
<1>7. /\ group'.line = group.line /\ group'.version = top + 1 /\ group'.lmids = g.lmids
      /\ group'.rows = g.rows /\ group'.queries = g.queries /\ group'.queued = NothingQueued
      /\ group'.log = LastOf(Append(g.log, poke), kept)
  BY <1>1, <1>2, <1>4 DEF IsGroup, GroupFields
<1>8. \A v \in 0 .. top : \A x \in H[v] : \A u \in Tabs :
        x.ids[u] \in Nat /\ x.ids[u] <= group.lmids[u]
  BY <1>2 DEF Shipped, Members
<1>9. PICK G : /\ \A v \in 0 .. top : G[v] = H[v]
               /\ G[top + 1] = {z}
  <2> DEFINE F == [v \in Nat |-> IF v = top + 1 THEN {z} ELSE H[v]]
  <2>1. /\ \A v \in 0 .. top : F[v] = H[v]
        /\ F[top + 1] = {z}
    BY <1>3
  <2> QED BY <2>1
<1>10. Goes(H, G) /\ Grows(H, G, top) /\ top + 1 \in Nat /\ top <= top + 1
  BY <1>2, <1>3, <1>7, <1>9 DEF Goes, Grows
<1>11. Begins(G)'
  BY <1>3, <1>7, <1>9 DEF Shipped, Begins
<1>12. Outstanding(G)'
  BY <1>1, <1>2, <1>3, <1>7, <1>9, OwesNothing DEF Outstanding
<1>13. FitsIn(G, top + 1, poke)
  <2>1. ASSUME NEW x \in H[top] PROVE Takes(poke, x, z)
    <3>1. Owing(g, x) /\ \A u \in Tabs : x.ids[u] \in Nat /\ g.lmids[u] \in Nat
      BY <1>1, <1>2, <1>3, <1>8 DEF Shipped, Outstanding, OwesOn, IdMap
    <3> QED BY <1>2, <3>1, QueuedTakes
  <2>2. top < top + 1 /\ top + 1 <= top + 1 /\ G[top] = H[top]
    BY <1>3, <1>9
  <2> QED BY <1>3, <1>9, <2>1, <2>2 DEF FitsIn
<1>14. LogFits(G)'
  <2>1. IsSeq(g.log) /\ Pokes(g.log) /\ kept \in Nat /\ Len(g.log) \in Nat
    BY <1>1, SeqParts, ConstantsAssumption DEF IsGroup
  <2>2. PICK log, more : log = g.log /\ more = Append(log, poke)
    OBVIOUS
  <2>3. /\ IsSeq(more) /\ Len(more) = Len(log) + 1 /\ more[Len(log) + 1] = poke
        /\ \A i \in 1 .. Len(log) : more[i] = log[i]
    BY <2>1, <2>2, Appended
  <2>4. \A i \in 1 .. Len(log) : FitsIn(H, top, log[i]) /\ IsPokeRecord(log[i])
    BY <1>1, <1>2, <2>1, <2>2 DEF Shipped, LogFits, Pokes
  <2>5. ASSUME NEW i \in 1 .. Len(log) + 1 PROVE FitsIn(G, top + 1, more[i])
    <3>1. CASE i = Len(log) + 1
      BY <1>13, <2>3, <3>1
    <3>2. CASE i # Len(log) + 1
      <4>1. i \in 1 .. Len(log)
        BY <2>1, <2>2, <3>2
      <4>2. PICK m, up : m = log[i] /\ up = top + 1
        OBVIOUS
      <4>3. FitsIn(H, top, m) /\ IsPokeRecord(m) /\ up \in Nat /\ top <= up /\ more[i] = m
        BY <1>3, <2>3, <2>4, <4>1, <4>2
      <4>4. FitsIn(G, up, m)
        BY <1>3, <1>10, <4>3, FitsOn
      <4> QED BY <4>2, <4>3, <4>4
    <3> QED BY <3>1, <3>2
  <2>6. kept <= Len(more)
    BY <1>4, <2>2, <2>3
  <2>7. /\ Len(LastOf(more, kept)) = kept
        /\ \A i \in 1 .. kept : LastOf(more, kept)[i] = more[Len(more) - kept + i]
    BY <2>1, <2>3, <2>6, LastIsSeq
  <2>8. ASSUME NEW i \in 1 .. kept PROVE Len(more) - kept + i \in 1 .. Len(log) + 1
    BY <2>1, <2>2, <2>3, <2>6
  <2>9. ASSUME NEW i \in 1 .. kept PROVE FitsIn(G, top + 1, LastOf(more, kept)[i])
    BY <2>5, <2>7, <2>8
  <2>10. group'.log = LastOf(more, kept) /\ Len(group'.log) = kept
    BY <1>1, <1>7, <2>2, <2>7
  <2> QED BY <1>7, <2>9, <2>10 DEF LogFits
<1>15. \A v \in 0 .. group'.version : \A x \in G[v] :
            (v <= group.version /\ x \in H[v]) \/ Stock(v, x)'
  <2>1. wal' = wal /\ group'.lmids = z.ids
    BY <1>2, <1>7 DEF ShownNow
  <2>2. \A u \in Tabs : z.ids[u] \in Nat /\ z.ids[u] <= z.ids[u]
    BY <1>1, <1>2 DEF IdMap, ShownNow
  <2>3. \A v : Stock(v, z)'
    BY <1>2, <2>1, <2>2 DEF Stock
  <2> QED BY <1>2, <1>3, <1>7, <1>9, <2>3
<1>16. \A u \in Tabs : group.lmids[u] <= group'.lmids[u]
  BY <1>1, <1>7
<1>17. ASSUME NEW t \in Tabs PROVE Stored(G, t)' /\ Fitted(G, t)'
  <2>1. Stored(G, t)'
    <3>1. Stored(H, t)
      BY DEF Shipped
    <3> QED BY <1>10, <3>1, IdleStored
  <2>2. ASSUME tabs[t].wire # 0, wires'[tabs[t].wire].stage = "joined"
        PROVE  \A i \in 1 .. Len(wires'[tabs[t].wire].down) :
                  Poke(wires'[tabs[t].wire].down, i)
                    => FitsIn(G, top + 1, wires'[tabs[t].wire].down[i].poke)
    <3>1. PICK w, down, next : w = tabs[t].wire /\ down = wires[w].down /\ next = wires'[w].down
      OBVIOUS
    <3>2. w \in Wires /\ Listening(w) /\ IsDown(down) /\ IsSeq(down) /\ IsWire(wires[w])
      BY <2>2, <3>1, AtTheEnd DEF IsWire, IsDown
    <3>3. wires[w].stage = "joined"
      BY <1>5, <2>2, <3>1, <3>2 DEF IsWire, WireFields
    <3>4. w \in g.sockets
      BY <1>1, <2>2, <3>1, <3>3 DEF GroupInv, Order, Wired
    <3>5. next = Append(down, PokeFrame(poke))
      <4>1. wires'[w] = [wires[w] EXCEPT !.down = Sent(w, <<PokeFrame(poke)>>)]
        BY <1>5, <3>2, <3>4
      <4>2. next = down \o <<PokeFrame(poke)>>
        BY <3>1, <3>2, <4>1, Zenon DEF IsWire, WireFields, Sent
      <4> QED BY <3>2, <4>2, Appended
    <3>6. \A i \in 1 .. Len(down) : Poke(down, i) => FitsIn(H, top, down[i].poke)
      BY <1>2, <2>2, <3>1, <3>3 DEF Shipped, Fitted, Live
    <3>7. PICK up : up = top + 1
      OBVIOUS
    <3>8. \E m : next = Append(down, m) /\ (m.kind = "poke" => FitsIn(G, up, m.poke))
      BY <1>6, <1>13, <3>5, <3>7
    <3>10. up \in Nat /\ top <= up
      BY <1>3, <3>7
    <3>11. /\ top \in Nat /\ Grows(H, G, top) /\ up \in Nat /\ top <= up /\ IsDown(down)
           /\ \/ next = down
              \/ \E m : next = Append(down, m) /\ (m.kind = "poke" => FitsIn(G, up, m.poke))
           /\ \A i \in 1 .. Len(down) : Poke(down, i) => FitsIn(H, top, down[i].poke)
      BY <1>3, <1>10, <3>2, <3>6, <3>8, <3>10
    <3>9. \A i \in 1 .. Len(next) : Poke(next, i) => FitsIn(G, up, next[i].poke)
      BY <3>11, DownOn
    <3> QED BY <3>1, <3>7, <3>9
  <2>3. Fitted(G, t)'
    BY <1>7, <2>2 DEF Fitted, Live
  <2> QED BY <2>1, <2>3
<1>18. Shipped(G)'
  BY <1>10, <1>11, <1>12, <1>14, <1>15, <1>16, <1>17, ShipsOn DEF LogGoes
<1> QED BY <1>18

LEMMA FlushShips ==
    ASSUME GroupInv, GroupInv', Flush, Stirred, NEW asked, NEW p, IsPoint(wal, asked, minted, p),
           Ledger(asked, p),
           MaxLines = 1 => \A u \in Tabs :
                \/ CountAt(wal, p.at, u) <= group.lmids[u]
                \/ u \in DOMAIN changes.ids /\ CountAt(wal, p.at, u) <= changes.ids[u],
           NEW H, Shipped(H)
    PROVE  \E G : Shipped(G)'
<1>1. PICK g : g = Noted(Accounted(group, pending), changes)
  OBVIOUS
<1>2. Queues(g) /\ Risen(group, g) /\ OwesOn(group, g) /\ Whole(wal, ShownNow(g))
  BY <1>1, HeardShows
<1>3. /\ UNCHANGED <<wal, tabs>> /\ LogGoes /\ StoresStay
      /\ SendPoke(g) \/ (group' = g /\ wires' = wires) \/ UNCHANGED <<group, wires>>
  BY <1>1 DEF Flush, LogGoes, StoresStay
<1>4. CASE SendPoke(g)
  BY <1>2, <1>3, <1>4, SendShips
<1>5. CASE group' = g /\ wires' = wires
  <2>1. Still
    BY <1>2, <1>3, <1>5, GroupMoves
  <2>2. OwesOn(group, group')
    BY <1>2, <1>5
  <2>3. Shipped(H)'
    BY <1>3, <2>1, <2>2, StillShips
  <2> QED BY <2>3
<1>6. CASE UNCHANGED <<group, wires>>
  <2>1. Still
    BY <1>3, <1>6, NothingMoves
  <2>2. OwesOn(group, group')
    BY <1>6 DEF OwesOn
  <2>3. Shipped(H)'
    BY <1>3, <2>1, <2>2, StillShips
  <2> QED BY <2>3
<1> QED BY <1>3, <1>4, <1>5, <1>6

-----------------------------------------------------------------------------
(* A group with nobody, and nothing shown *)

LEMMA NewShows ==
    ASSUME NEW line, NEW g, g = NoGroup(line)
    PROVE  /\ g.open = FALSE /\ g.version = 0 /\ Len(g.log) = 0 /\ g.lmids = NoIds
           /\ Owing(g, NoStore)
<1>1. /\ g.open = FALSE /\ g.version = 0 /\ g.log = <<>> /\ g.queued = NothingQueued
      /\ g.rows = [k \in Keys |-> NothingHeld] /\ g.queries = <<>> /\ g.lmids = NoIds
  BY DEF NoGroup, NewGroup, NoIds
<1>2. DOMAIN g.queries = {} /\ Len(g.log) = 0
  BY <1>1, EmptyIsSeq
<1>3. \A k \in Keys : g.rows[k].image = NoRow
  BY <1>1 DEF NothingHeld
<1>4. Complete(g) = {}
  BY <1>2 DEF Complete, Known
<1>5. ShownNow(g) = NoStore
  <2>1. [k \in Keys |-> g.rows[k].image] = [k \in Keys |-> NoRow]
    BY <1>3
  <2> QED BY <1>1, <1>4, <2>1 DEF ShownNow, NoStore
<1>6. g.lmids \in IdMap
  BY <1>1 DEF IdMap, NoIds
<1>7. Owing(g, ShownNow(g))
  BY <1>1, <1>6, OwesNothing
<1> QED BY <1>1, <1>2, <1>5, <1>7

LEMMA InitShips == ASSUME Init PROVE Shipped([v \in Nat |-> {NoStore}])
<1> DEFINE H == [v \in Nat |-> {NoStore}]
<1>1. PICK g : g = group
  OBVIOUS
<1>2. g = NoGroup(1)
  BY <1>1 DEF Init
<1>3. /\ g.open = FALSE /\ g.version = 0 /\ Len(g.log) = 0 /\ g.lmids = NoIds
      /\ Owing(g, NoStore)
  BY <1>2, NewShows
<1>4. Begins(H)
  BY <1>1, <1>3 DEF Begins
<1>5. Members(H)
  BY <1>1, <1>3 DEF Members, NoStore, NoIds
<1>6. Outstanding(H)
  BY <1>1, <1>3 DEF Outstanding
<1>7. LogFits(H)
  BY <1>1, <1>3 DEF LogFits
<1>8. ASSUME NEW t \in Tabs PROVE Fitted(H, t) /\ Stored(H, t)
  <2>1. ~Live(t) /\ NoLess(NoStore, tabs[t])
    BY DEF Init, Live, NewTab, NoLess, NoStore, NoIds
  <2> QED BY <1>1, <1>3, <2>1 DEF Fitted, Stored, OurTab
<1> QED BY <1>4, <1>5, <1>6, <1>7, <1>8 DEF Shipped

LEMMA ExpireShips ==
    ASSUME GroupInv, Expire, NEW H, Shipped(H) PROVE Shipped([v \in Nat |-> {NoStore}])'
<1> DEFINE G == [v \in Nat |-> {NoStore}]
<1>1. PICK g : g = group'
  OBVIOUS
<1>2. group.sockets = {} /\ g = NoGroup(group.line + 1) /\ UNCHANGED <<wires, tabs>>
  BY <1>1 DEF Expire
<1>3. /\ g.open = FALSE /\ g.version = 0 /\ Len(g.log) = 0 /\ g.lmids = NoIds
      /\ Owing(g, NoStore)
  BY <1>2, NewShows
<1>4. Begins(G)'
  BY <1>1, <1>3 DEF Begins
<1>5. Members(G)'
  BY <1>1, <1>3 DEF Members, NoStore, NoIds
<1>6. Outstanding(G)'
  BY <1>1, <1>3 DEF Outstanding
<1>7. LogFits(G)'
  BY <1>1, <1>3 DEF LogFits
<1>8. ASSUME NEW t \in Tabs PROVE Fitted(G, t)' /\ Stored(G, t)'
  <2>1. ~Live(t)
    BY <1>2 DEF Live, GroupInv, Order, Wired
  <2>2. Stored(H, t)
    BY DEF Shipped
  <2>3. ~Live(t)' /\ (tabs[t].cookie = 0 => NoLess(NoStore, tabs[t]))
    BY <1>2, <2>1, <2>2 DEF Live, Stored
  <2> QED BY <1>1, <1>2, <1>3, <2>3 DEF Fitted, Stored, OurTab
<1> QED BY <1>4, <1>5, <1>6, <1>7, <1>8 DEF Shipped

-----------------------------------------------------------------------------
(* A group never made anew *)

\* Nobody has been answered, so nobody has pushed anything.
Unopened ==
    /\ \A i \in 1 .. Len(wal) : wal[i].by \notin Tabs
    /\ \A w \in Wires : wires[w].stage \in {"unused", "reading", "asking"} /\ wires[w].cookie = 0
    /\ \A t \in Tabs : tabs[t].cookie = 0
FirstGroup == group.line # 0 /\ (MaxLines = 1 /\ ~group.open => Unopened)

LEMMA FirstInit == Init => FirstGroup
<1> SUFFICES ASSUME Init PROVE FirstGroup
  OBVIOUS
<1>1. group.line = 1
  BY DEF Init, NoGroup, NewGroup
<1>2. \A i \in 1 .. Len(wal) : wal[i].by \notin Tabs
  <2>1. wal \in Seq([key : Keys, value : Values \cup {NoRow}, by : {NoTab}, refused : {FALSE}])
    BY ConstantsAssumption DEF Init
  <2> DEFINE R == [key : Keys, value : Values \cup {NoRow}, by : {NoTab}, refused : {FALSE}]
  <2>2. \A r \in R : r.by \notin Tabs
    BY ConstantsAssumption
  <2> HIDE DEF R
  <2>3. wal \in Seq(R)
    BY <2>1 DEF R
  <2>4. \A i \in 1 .. Len(wal) : wal[i] \in R
    BY <2>3, ElementOfSeq
  <2> QED BY <2>2, <2>4
<1>3. \A w \in Wires : wires[w].stage = "unused" /\ wires[w].cookie = 0
  BY DEF Init, NoWire
<1>4. \A t \in Tabs : tabs[t].cookie = 0
  BY DEF Init, NewTab
<1> QED BY <1>1, <1>2, <1>3, <1>4 DEF FirstGroup, Unopened

\* Until a connection is taken, connections come and ask.
LEMMA UnopenedCommits ==
    ASSUME GroupInv, Unopened, NEW c, Committed(c), c.by \notin Tabs
    PROVE  Unopened'
<1>1. wal' = Append(wal, c) /\ UNCHANGED <<wires, tabs>> /\ IsSeq(wal)
  BY DEF Committed, GroupInv, Shape, Feed
<1>2. \A i \in 1 .. Len(wal') : wal'[i].by \notin Tabs
  BY <1>1, Appended DEF Unopened
<1> QED BY <1>1, <1>2 DEF Unopened

LEMMA UnopenedQuiet ==
    ASSUME GroupInv, Unopened, ~group.open, group' = group, [Next]_vars, UNCHANGED wal
    PROVE  Unopened'
<1>1. /\ group.sockets = {} /\ DOMAIN wires = Wires /\ DOMAIN tabs = Tabs
      /\ \A w \in Wires : DOMAIN wires[w] = WireFields
      /\ \A t \in Tabs : DOMAIN tabs[t] = TabFields
  BY DEF GroupInv, Shape, Ends, Order, Sockets, IsWire, IsTab
<1>2. \A t \in Tabs : tabs[t].wire # 0 => wires[tabs[t].wire].down = <<>> /\ tabs[t].wire \in Wires
  BY AtTheEnd DEF GroupInv, Order, Wired, Unopened
<1>3. CASE UNCHANGED <<wires, tabs>>
  BY <1>3 DEF Unopened
<1>4. CASE \E t \in Tabs : Hear(t)
  BY <1>2, <1>4 DEF Hear
<1>5. CASE \E t \in Tabs : Drop(t)
  <2>1. PICK t \in Tabs : Drop(t)
    BY <1>5
  <2>2. \A w \in Wires : wires'[w].stage = wires[w].stage /\ wires'[w].cookie = wires[w].cookie
    BY <1>1, <1>2, <2>1 DEF Drop, WireFields
  <2>3. \A v \in Tabs : tabs'[v].cookie = tabs[v].cookie
    BY <1>1, <2>1 DEF Drop, TabFields
  <2> QED BY <2>2, <2>3 DEF Unopened
<1>6. CASE \/ \E t \in Tabs, h \in Queries : Desire(t, h) \/ Undesire(t, h)
           \/ \E t, gone \in Tabs : Forget(t, gone)
  <2>1. PICK t \in Tabs : (\E ask : Say(t, ask)) /\ \A v \in Tabs : tabs'[v].cookie = tabs[v].cookie
    <3>1. CASE \E t \in Tabs, h \in Queries : Desire(t, h) \/ Undesire(t, h)
      BY <1>1, <3>1 DEF Desire, Undesire, TabFields
    <3>2. CASE \E t, gone \in Tabs : Forget(t, gone)
      BY <1>1, <3>2 DEF Forget, TabFields
    <3> QED BY <1>6, <3>1, <3>2
  <2>2. \A w \in Wires : wires'[w].stage = wires[w].stage /\ wires'[w].cookie = wires[w].cookie
    BY <1>1, <1>2, <2>1 DEF Say, WireFields
  <2> QED BY <2>1, <2>2 DEF Unopened
<1>7. CASE \E w \in Wires, t \in Tabs : Open(w, t)
  <2>1. PICK w \in Wires, t \in Tabs : Open(w, t)
    BY <1>7
  <2>2. wires'[w].stage = "reading" /\ wires'[w].cookie = tabs[t].cookie
    BY <1>1, <2>1 DEF Open, NoWire
  <2>3. \A v \in Wires \ {w} : wires'[v] = wires[v]
    BY <1>1, <2>1 DEF Open
  <2>4. \A v \in Tabs : tabs'[v].cookie = tabs[v].cookie
    BY <1>1, <2>1 DEF Open, TabFields
  <2> QED BY <2>2, <2>3, <2>4 DEF Unopened
<1>8. CASE \E w \in Wires : ReadMutations(w)
  <2>1. PICK w \in Wires : ReadMutations(w)
    BY <1>8
  <2>2. wires'[w].stage = "asking" /\ wires'[w].cookie = wires[w].cookie
    BY <1>1, <2>1 DEF ReadMutations, WireFields
  <2>3. UNCHANGED tabs /\ \A v \in Wires \ {w} : wires'[v] = wires[v]
    BY <1>1, <2>1 DEF ReadMutations
  <2> QED BY <2>2, <2>3 DEF Unopened
<1>9. CASE \E w \in Wires : Connect(w)
  <2>1. PICK w \in Wires : Connect(w)
    BY <1>9
  <2>2. wires[w].cookie = 0
    BY DEF Unopened
  <2>3. Join(w)
    BY <2>1, <2>2 DEF Connect, Owed
  <2>4. group'.open = TRUE
    BY <2>3, Zenon DEF Join, Merged, NewGroup
  <2> QED BY <2>4
<1>10. CASE \E w \in Wires : Disconnect(w) \/ Put(w) \/ Del(w) \/ DeleteClient(w)
  BY <1>10, Zenon DEF Unopened, Disconnect, Put, NotPlanned, Anew, Del, DeleteClient, NextAsk
<1>11. CASE TakeRefused
  <2>1. \A w \in Wires : wires'[w] = wires[w]
    BY <1>1, <1>11 DEF TakeRefused
  <2> QED BY <1>11, <2>1 DEF TakeRefused, Unopened
<1>12. CASE Flush
  BY <1>3, <1>12 DEF Flush
<1>13. UNCHANGED <<wires, tabs>> \/ (\E t \in Tabs : Hear(t) \/ Drop(t)) \/ Flush \/ TakeRefused
       \/ (\E t \in Tabs, h \in Queries : Desire(t, h) \/ Undesire(t, h))
       \/ (\E t, gone \in Tabs : Forget(t, gone))
       \/ (\E w \in Wires, t \in Tabs : Open(w, t))
       \/ (\E w \in Wires : ReadMutations(w) \/ Connect(w) \/ Disconnect(w) \/ Put(w) \/ Del(w)
                                \/ DeleteClient(w))
  BY Zenon DEF Next, vars, TakeRegister, TakeUnregister, Route, Land, RefuseRead, Expire, ExpireQuery, Cool,
     TakeRegistered, TakeLanded, TakeHydrated, TakeCommitted, OutsideWrite, Mutate, RefuseMutation,
     Committed
<1> QED BY <1>3, <1>4, <1>5, <1>6, <1>7, <1>8, <1>9, <1>10, <1>11, <1>12, <1>13

LEMMA OnlyCommits ==
    ASSUME [Next]_vars
    PROVE  \/ UNCHANGED wal \/ OutsideWrite
           \/ \E t \in Tabs : Mutate(t) \/ RefuseMutation(t)
<1>1. CASE UNCHANGED vars
  BY <1>1 DEF vars
<1>2. CASE \/ \E t \in Tabs : Drop(t) \/ Hear(t)
           \/ \E t \in Tabs, h \in Queries : Desire(t, h) \/ Undesire(t, h)
           \/ \E t, gone \in Tabs : Forget(t, gone)
           \/ \E w \in Wires, t \in Tabs : Open(w, t)
  BY <1>2, Zenon DEF thread, Drop, Hear, Desire, Undesire, Forget, Open
<1>3. CASE \E w \in Wires : ReadMutations(w) \/ Connect(w) \/ Disconnect(w)
  BY <1>3, Zenon DEF thread, ReadMutations, Connect, Disconnect
<1>7. CASE \E w \in Wires : Put(w) \/ Del(w) \/ DeleteClient(w)
  BY <1>7, Zenon DEF Put, NotPlanned, Anew, Del, DeleteClient
<1>4. CASE \/ TakeRegister \/ TakeUnregister \/ Route
           \/ \E token \in DOMAIN engine.subs : Land(token) \/ RefuseRead(token)
  BY <1>4, Zenon DEF TakeRegister, TakeUnregister, Route, Land, RefuseRead
<1>5. CASE \/ Expire \/ Flush
           \/ \E h \in Known(group) : ExpireQuery(h) \/ Cool(h)
  BY <1>5, Zenon DEF Expire, Flush, ExpireQuery, Cool
<1>6. CASE TakeRegistered \/ TakeLanded \/ TakeHydrated \/ TakeCommitted \/ TakeRefused
  BY <1>6, Zenon DEF TakeRegistered, TakeLanded, TakeHydrated, TakeCommitted, TakeRefused
<1> QED BY <1>1, <1>2, <1>3, <1>4, <1>5, <1>6, <1>7, Zenon DEF Next

LEMMA LineStays ==
    ASSUME GroupInv, [Next]_vars
    PROVE  group'.line = group.line \/ (Expire /\ group'.line = group.line + 1)
<1>1. CASE Still
  BY <1>1 DEF Still, Risen, SameFace
<1>0. DOMAIN group = GroupFields
  BY DEF GroupInv, Shape, Ends, IsGroup
<1>a. ASSUME NEW g, NEW ids, NEW waiting, DOMAIN g = GroupFields
      PROVE  Merged(g, ids, waiting).line = g.line /\ DOMAIN Merged(g, ids, waiting) = GroupFields
  BY <1>a DEF Merged, GroupFields
<1>b. ASSUME NEW w \in Wires, Connect(w) PROVE group'.line = group.line
  <2>1. CASE Refusal(w)
    BY <2>1 DEF Refusal
  <2>2. CASE Join(w)
    <3> DEFINE base == IF group.open THEN group ELSE NewGroup(group.line)
               merged == Merged(base, wires[w].ids, wires[w].waiting)
    <3>1. group' = [merged EXCEPT !.sockets = merged.sockets \cup {w}]
      BY <2>2, Zenon DEF Join
    <3>2. DOMAIN base = GroupFields /\ base.line = group.line
      BY <1>0 DEF NewGroup, GroupFields
    <3> HIDE DEF base
    <3>3. merged.line = group.line /\ DOMAIN merged = GroupFields
      BY <1>a, <3>2
    <3> HIDE DEF merged
    <3> QED BY <3>1, <3>3 DEF GroupFields
  <2> QED BY <1>b, <2>1, <2>2 DEF Connect
<1>c. ASSUME NEW w \in Wires, Disconnect(w) PROVE group'.line = group.line
  BY <1>0, <1>c DEF Disconnect, GroupFields
<1>2. ASSUME NEW w \in Wires, Connect(w) \/ Disconnect(w) PROVE group'.line = group.line
  BY <1>2, <1>b, <1>c
<1>3. CASE Flush
  <2>1. ASSUME NEW g, Risen(group, g), SendPoke(g) PROVE group'.line = group.line
    BY <2>1 DEF Risen, SameFace, SendPoke, IsGroup, GroupFields
  <2> DEFINE heard == Noted(Accounted(group, pending), changes)
  <2>2. Risen(group, heard)
    <3>1. Kept(group, Accounted(group, pending))
      BY AccountedKept DEF GroupInv, Shape, Ends
    <3> QED BY <3>1, NotedRisen, RisenFollows DEF Kept, GroupInv, Shape
  <2>3. group' = heard \/ SendPoke(heard) \/ group' = group
    BY <1>3 DEF Flush
  <2> QED BY <2>1, <2>2, <2>3 DEF Risen, SameFace
<1>4. CASE \/ \E w \in Wires, t \in Tabs : Open(w, t)
           \/ \E t \in Tabs : Drop(t) \/ Hear(t)
  BY <1>4, Zenon DEF Open, Drop, Hear, thread
<1>5. CASE Expire
  BY <1>5 DEF Expire, NoGroup, NewGroup
<1> QED BY <1>1, <1>2, <1>3, <1>4, <1>5, NextMoves

LEMMA FirstStays ==
    ASSUME GroupInv, TokenInv, Closed, FirstGroup, [Next]_vars PROVE FirstGroup'
<1>1. group.line \in Nat /\ NoTab \notin Tabs
  BY Numbered DEF GroupInv, Shape, Ends, IsGroup
<1>2. group'.line # 0
  <2>1. \A n \in Nat : n + 1 # 0
    OBVIOUS
  <2> QED BY <1>1, <2>1, LineStays DEF FirstGroup
<1>3. ASSUME MaxLines = 1, ~group'.open PROVE Unopened'
  <2>1. ~group.open
    <3>1. ~Expire
      <4>1. \A n \in Nat : ~(n # 0 /\ n < 1)
        OBVIOUS
      <4> QED BY <1>1, <1>3, <4>1 DEF Expire, FirstGroup
    <3> QED BY <1>3, <3>1, OpenStays
  <2>2. group' = group
    <3>1. ASSUME NEW w \in Wires, Join(w) PROVE group'.open = TRUE
      BY <2>1, <3>1 DEF Join, Merged, NewGroup
    <3> QED BY <1>3, <2>1, <3>1, ClosedStays
  <2>3. Unopened
    BY <1>3, <2>1 DEF FirstGroup
  <2>4. CASE UNCHANGED wal
    BY <2>1, <2>2, <2>3, <2>4, UnopenedQuiet
  <2>5. CASE OutsideWrite
    <3>1. PICK c : Committed(c) /\ c.by = NoTab
      BY <2>5 DEF OutsideWrite
    <3> QED BY <1>1, <2>3, <3>1, UnopenedCommits
  <2>6. CASE \E t \in Tabs : Mutate(t) \/ RefuseMutation(t)
    BY <2>3, <2>6 DEF Unopened, Mutate, RefuseMutation, Pushed
  <2> QED BY <2>4, <2>5, <2>6, OnlyCommits
<1> QED BY <1>2, <1>3 DEF FirstGroup

\* The ids of the transactions heard are the group's, or about to be, as long as
\* the group is never made anew.
IdsHeard(at) ==
    MaxLines = 1 => \A u \in Tabs :
        \/ CountAt(wal, at, u) <= group.lmids[u]
        \/ u \in DOMAIN changes.ids /\ CountAt(wal, at, u) <= changes.ids[u]

LEMMA UnopenedCounts ==
    ASSUME Unopened, NEW at \in Nat, at <= Len(wal), Len(wal) \in Nat, NEW u \in Tabs
    PROVE  CountAt(wal, at, u) = 0
<1>1. ASSUME NEW i \in 1 .. at PROVE wal[i].by # u
  <2>1. i \in 1 .. Len(wal)
    BY <1>1
  <2> QED BY <2>1 DEF Unopened
<1>2. ByIn(wal, at, u) = {}
  BY <1>1 DEF ByIn
<1> QED BY <1>2, FS_EmptySet DEF CountAt

\* The group's ids only rise.
LEMMA LmidsRise ==
    ASSUME GroupInv, GroupInv', Closed, Queues(group), [Next]_vars, ~Expire, NEW u \in Tabs
    PROVE  group.lmids[u] <= group'.lmids[u]
<1>1. group.lmids[u] \in Nat
  BY DEF GroupInv, Shape, Ends, IsGroup, IdMap
<1>2. CASE Still
  BY <1>2 DEF Still, Risen
<1>3. CASE group' = group
  BY <1>1, <1>3
<1>4. ASSUME NEW w \in Wires, Connect(w) PROVE group.lmids[u] <= group'.lmids[u]
  <2>1. CASE Owed(group, wires[w].cookie) = "reset"
    BY <1>1, <1>4, <2>1 DEF Connect, Refusal
  <2>2. CASE Owed(group, wires[w].cookie) # "reset"
    <3>1. Join(w) /\ wires[w].stage = "asking"
      BY <1>4, <2>2 DEF Connect
    <3>2. PICK g : /\ Queues(g) /\ group.lmids[u] <= g.lmids[u]
                   /\ \E x : group' = [g EXCEPT !.sockets = x]
      BY <2>2, <3>1, JoinedGroup
    <3> QED BY <3>2, SocketsOnly
  <2> QED BY <2>1, <2>2
<1>5. ASSUME NEW w \in Wires, Disconnect(w) PROVE group.lmids[u] <= group'.lmids[u]
  <2>1. \E x : group' = [group EXCEPT !.sockets = x]
    BY <1>5 DEF Disconnect
  <2> QED BY <1>1, <2>1, SocketsOnly
<1>6. CASE Flush
  <2> DEFINE heard == Noted(Accounted(group, pending), changes)
  <2>1. Risen(group, heard)
    <3>1. Kept(group, Accounted(group, pending))
      BY AccountedKept DEF GroupInv, Shape, Ends
    <3> QED BY <3>1, NotedRisen, RisenFollows DEF Kept, GroupInv, Shape
  <2>2. ASSUME NEW g, Risen(group, g), SendPoke(g) PROVE group'.lmids = g.lmids
    BY <2>2 DEF Risen, SendPoke, IsGroup, GroupFields
  <2>3. group' = heard \/ SendPoke(heard) \/ group' = group
    BY <1>6 DEF Flush
  <2> QED BY <1>3, <2>1, <2>2, <2>3 DEF Risen
<1>7. CASE \/ \E w \in Wires, t \in Tabs : Open(w, t)
           \/ \E t \in Tabs : Drop(t) \/ Hear(t)
  BY <1>3, <1>7, Zenon DEF Open, Drop, Hear, thread
<1> QED BY <1>2, <1>4, <1>5, <1>6, <1>7, NextMoves

\* Between two events the ids noted for the next poke stay.
LEMMA IdsStay ==
    ASSUME Feed, Quiet, ~Flush, ~Expire PROVE changes'.ids = changes.ids
<1>1. Dirty => changes'.ids = changes.ids
  BY DirtyIs
<1>2. CASE Elsewhere
  BY <1>2, ElsewhereLeaves DEF thread
<1>3. CASE Asking
  BY <1>1, <1>3, Zenon DEF Asking, Put, NotPlanned, Anew, Del, DeleteClient, ExpireQuery, Cool
<1>4. CASE \E w \in Wires : Connect(w) \/ Disconnect(w)
  BY <1>1, <1>4 DEF Connect, Disconnect, Refusal, Join
<1> QED BY <1>2, <1>3, <1>4, QuietIs

LEMMA CountKept ==
    ASSUME IsSeq(wal), LogGoes, NEW at \in Nat, at <= Len(wal), NEW u
    PROVE  CountAt(wal', at, u) = CountAt(wal, at, u) /\ CountAt(wal, at, u) \in Nat
<1>1. \A i \in 1 .. at : wal'[i] = wal[i]
  <2>1. CASE wal' = wal
    BY <2>1
  <2>2. CASE \E c : wal' = Append(wal, c)
    <3>1. Len(wal) \in Nat /\ \A i \in 1 .. Len(wal) : wal'[i] = wal[i]
      BY <2>2, Appended
    <3> QED BY <3>1
  <2> QED BY <2>1, <2>2 DEF LogGoes
<1>2. PICK log, more : log = wal /\ more = wal'
  OBVIOUS
<1>3. \A t : CountAt(more, at, t) = CountAt(log, at, t)
  BY <1>1, <1>2, CountSame
<1>4. CountAt(wal, at, u) \in Nat
  BY CountIs
<1> QED BY <1>2, <1>3, <1>4

\* Once flushed, they are the group's.
LEMMA FlushNotes ==
    ASSUME GroupInv, Queues(group), Resting, FirstGroup, Flush,
           NEW at \in Nat, at <= Len(wal), IdsHeard(at), MaxLines = 1, NEW u \in Tabs
    PROVE  CountAt(wal, at, u) <= group'.lmids[u]
<1>1. PICK c : c = CountAt(wal, at, u)
  OBVIOUS
<1>2. c \in Nat /\ (c <= group.lmids[u] \/ (u \in DOMAIN changes.ids /\ c <= changes.ids[u]))
  BY <1>1, CountIs DEF IdsHeard
<1>3. group.lmids[u] \in Nat /\ (u \in DOMAIN changes.ids => changes.ids[u] \in Nat)
  BY DEF GroupInv, Shape, Ends, Feed, IsGroup, IdMap
<1> DEFINE a == Accounted(group, pending)
           heard == Noted(a, changes)
<1>4. CASE group.open /\ changes.dirty
  <2>1. Queues(a) /\ a.lmids = group.lmids
    BY AccountedOnly DEF SameNews, Kept
  <2>2. /\ Queues(heard)
        /\ heard.lmids[u] = IF u \in Raised(a, changes.ids) THEN changes.ids[u] ELSE a.lmids[u]
    BY <2>1, NotedOnly DEF GroupInv, Shape
  <2>3. u \in Raised(a, changes.ids) <=> u \in DOMAIN changes.ids /\ changes.ids[u] >= group.lmids[u]
    BY <2>1 DEF Raised
  <2> HIDE DEF heard
  <2>4. group'.lmids = heard.lmids
    <3>1. group' = heard \/ SendPoke(heard)
      BY <1>4 DEF Flush, heard
    <3> QED BY <2>2, <3>1, Zenon DEF SendPoke, Queues, IsGroup, GroupFields
  <2> HIDE DEF a
  <2>5. CASE u \in DOMAIN changes.ids
    BY <1>1, <1>2, <1>3, <2>1, <2>2, <2>3, <2>4, <2>5
  <2>6. CASE u \notin DOMAIN changes.ids
    BY <1>1, <1>2, <1>3, <2>1, <2>2, <2>3, <2>4, <2>6
  <2> QED BY <2>5, <2>6
<1>5. CASE ~(group.open /\ changes.dirty)
  <2>1. group' = group
    BY <1>5 DEF Flush
  <2>2. CASE ~group.open
    <3>1. c = 0
      BY <1>1, <2>2, IdsNumbered, UnopenedCounts DEF FirstGroup
    <3> QED BY <1>1, <1>3, <2>1, <3>1
  <2>3. CASE group.open
    <3>1. u \notin DOMAIN changes.ids
      BY <1>5, <2>3 DEF Resting
    <3> QED BY <1>1, <1>2, <2>1, <3>1
  <2> QED BY <2>2, <2>3
<1> QED BY <1>4, <1>5

LEMMA QuietNotes ==
    ASSUME GroupInv, GroupInv', Closed, Queues(group), Resting, FirstGroup, [Next]_vars, Quiet,
           LogGoes, NEW at \in Nat, at <= Len(wal), IdsHeard(at)
    PROVE  IdsHeard(at)'
<1> SUFFICES ASSUME MaxLines = 1, NEW u \in Tabs
             PROVE  \/ CountAt(wal', at, u) <= group'.lmids[u]
                    \/ u \in DOMAIN changes'.ids /\ CountAt(wal', at, u) <= changes'.ids[u]
  BY DEF IdsHeard
<1>1. IsSeq(wal) /\ Feed
  BY DEF GroupInv, Shape, Feed
<1>2. CountAt(wal', at, u) = CountAt(wal, at, u) /\ CountAt(wal, at, u) \in Nat
  BY <1>1, CountKept
<1>3. ~Expire
  <2>1. group.line \in Nat /\ group.line # 0
    BY DEF FirstGroup, GroupInv, Shape, Ends, IsGroup
  <2>2. \A n \in Nat : ~(n # 0 /\ n < 1)
    OBVIOUS
  <2> QED BY <2>1, <2>2 DEF Expire
<1>4. CASE Flush
  BY <1>2, <1>4, FlushNotes
<1>5. CASE ~Flush
  <2>1. changes'.ids = changes.ids
    BY <1>1, <1>3, <1>5, IdsStay
  <2>2. group.lmids[u] <= group'.lmids[u]
    BY <1>3, LmidsRise
  <2>3. group.lmids[u] \in Nat /\ group'.lmids[u] \in Nat
    BY DEF GroupInv, Shape, Ends, IsGroup, IdMap
  <2>4. \A x, y, z \in Nat : x <= y /\ y <= z => x <= z
    OBVIOUS
  <2>5. \/ CountAt(wal, at, u) <= group.lmids[u]
        \/ u \in DOMAIN changes.ids /\ CountAt(wal, at, u) <= changes.ids[u]
    BY DEF IdsHeard
  <2> QED BY <1>2, <2>1, <2>2, <2>3, <2>4, <2>5
<1> QED BY <1>4, <1>5

\* What a commit's event tells of its mutation is noted.
LEMMA CommitNotes ==
    ASSUME GroupInv, TakeCommitted, NEW at \in Nat, at + 1 <= Len(wal), Head(events).at = at + 1,
           IdsHeard(at), group'.lmids = group.lmids
    PROVE  IdsHeard(at + 1)'
<1> SUFFICES ASSUME MaxLines = 1, NEW u \in Tabs
             PROVE  \/ CountAt(wal', at + 1, u) <= group'.lmids[u]
                    \/ u \in DOMAIN changes'.ids /\ CountAt(wal', at + 1, u) <= changes'.ids[u]
  BY DEF IdsHeard
<1> DEFINE by == wal[at + 1].by
           id == IdsAt(at + 1)[by]
<1>1. /\ wal' = wal
      /\ changes'.ids = [t \in DOMAIN changes.ids \cup (Tabs \cap {by}) |->
                            IF t = by THEN id ELSE changes.ids[t]]
  BY DEF TakeCommitted
<1>2. by \in Tabs => id = CountAt(wal, at + 1, by)
  BY IdsAre
<1>3. CountAt(wal, at + 1, u) \in Nat /\ (by # u => CountAt(wal, at + 1, u) = CountAt(wal, at, u))
  <2>1. PICK next \in Nat : next = at + 1
    OBVIOUS
  <2>2. CountAt(wal, next, u) \in Nat
    BY CountIs
  <2>3. wal[at + 1].by # u => CountAt(wal, at + 1, u) = CountAt(wal, at, u)
    BY CountIs
  <2> QED BY <2>1, <2>2, <2>3
<1>4. \/ CountAt(wal, at, u) <= group.lmids[u]
      \/ u \in DOMAIN changes.ids /\ CountAt(wal, at, u) <= changes.ids[u]
  BY DEF IdsHeard
<1> HIDE DEF by, id
<1>5. CASE u = by
  BY <1>1, <1>2, <1>3, <1>5
<1>6. CASE u # by
  BY <1>1, <1>3, <1>4, <1>6
<1> QED BY <1>5, <1>6

LEMMA HearsNotes ==
    ASSUME GroupInv, Queues(group), IsQueries(group.queries), Hears,
           NEW asked, NEW p, NEW r, p.at \in Nat, r.at <= Len(wal),
           Moves(wal, asked, p, Head(events), r), IdsHeard(p.at)
    PROVE  IdsHeard(r.at)'
<1>1. UNCHANGED wal /\ group'.lmids = group.lmids
  <2>1. SameNews(group, group')
    BY WorksNews DEF Works, Hears
  <2>2. UNCHANGED wal
    BY Zenon DEF Hears, TakeRegistered, TakeLanded, TakeHydrated, TakeRefused, TakeCommitted
  <2> QED BY <2>1, <2>2 DEF SameNews, Kept
<1>2. CASE Head(events).kind # "committed"
  <2>1. r.at = p.at
    BY <1>2 DEF Moves, Registers, Lands, Hydrates, Refuses, Routes
  <2>2. changes'.ids = changes.ids
    <3>1. DOMAIN changes = {"ids", "results", "dirty"}
      BY DEF GroupInv, Shape, Feed
    <3>2. ~TakeCommitted
      BY <1>2 DEF TakeCommitted, NextEvent
    <3> DEFINE Same == changes' = changes \/ Dirty \/ \E x : changes' = [changes EXCEPT !.dirty = @ \/ x]
    <3>3. Same
      <4>1. TakeRegistered => Same
        BY DEF TakeRegistered, Absorb
      <4>2. TakeLanded => Same
        BY DEF TakeLanded, Absorb
      <4>3. TakeHydrated => Same
        BY DEF TakeHydrated
      <4>4. TakeRefused => Same
        BY DEF TakeRefused
      <4> QED BY <3>2, <4>1, <4>2, <4>3, <4>4 DEF Hears
    <3> QED BY <3>1, <3>3 DEF Dirty
  <2> QED BY <1>1, <2>1, <2>2 DEF IdsHeard
<1>3. CASE Head(events).kind = "committed"
  <2>1. TakeCommitted
    <3>1. ~(TakeRegistered \/ TakeLanded \/ TakeHydrated \/ TakeRefused)
      BY <1>3 DEF TakeRegistered, TakeLanded, TakeHydrated, TakeRefused, NextEvent
    <3> QED BY <3>1 DEF Hears
  <2>2. r.at = p.at + 1 /\ Head(events).at = p.at + 1
    BY <1>3 DEF Moves, Registers, Lands, Hydrates, Refuses, Routes
  <2>3. PICK at : at = p.at
    OBVIOUS
  <2>4. IdsHeard(at + 1)'
    BY <1>1, <2>1, <2>2, <2>3, CommitNotes
  <2> QED BY <2>2, <2>3, <2>4
<1> QED BY <1>2, <1>3

-----------------------------------------------------------------------------
(* What holds throughout *)

RowsInv ==
    /\ Resting /\ Closed /\ FirstGroup
    /\ \E asked, p, q, H :
        Tracked(asked, p, q) /\ Ledger(asked, p) /\ IdsHeard(p.at) /\ Shipped(H)

LEMMA WalGoes == ASSUME [Next]_vars PROVE LogGoes
<1>1. CASE UNCHANGED wal
  BY <1>1 DEF LogGoes
<1>2. CASE OutsideWrite
  BY <1>2 DEF OutsideWrite, Committed, LogGoes
<1>3. CASE \E t \in Tabs : Mutate(t) \/ RefuseMutation(t)
  BY <1>3 DEF Mutate, RefuseMutation, Committed, LogGoes
<1> QED BY <1>1, <1>2, <1>3, OnlyCommits

LEMMA ConnectionShips ==
    ASSUME GroupInv, GroupInv', TokenInv, Resting, Closed, NEW asked, NEW p,
           IsPoint(wal, asked, minted, p), Ledger(asked, p), IdsHeard(p.at),
           NEW w \in Wires, Connect(w) \/ Disconnect(w), NEW H, Shipped(H)
    PROVE  \E G : Shipped(G)'
<1>1. IsLedger(group)
  BY LedgerRead
<1>2. CASE Disconnect(w) \/ (Connect(w) /\ Refusal(w))
  <2>1. Shipped(H)'
    BY <1>1, <1>2, GoneShips
  <2> QED BY <2>1
<1>3. CASE Connect(w) /\ ~Refusal(w)
  <2>1. /\ wires[w].stage = "asking" /\ Owed(group, wires[w].cookie) # "reset" /\ Join(w)
        /\ UNCHANGED <<wal, tabs>> /\ turn # "events"
    BY <1>3 DEF Connect, Requests
  <2>2. pending = <<>> /\ DOMAIN changes.ids = {}
    BY <2>1 DEF Resting
  <2>3. MaxLines = 1 => \A u \in Tabs : CountAt(wal, p.at, u) <= group.lmids[u]
    BY <2>2 DEF IdsHeard
  <2> QED BY <2>1, <2>2, <2>3, JoinShips
<1> QED BY <1>2, <1>3

LEMMA QuietShips ==
    ASSUME GroupInv, GroupInv', TokenInv, Resting, Closed, NEW asked, NEW p,
           IsPoint(wal, asked, minted, p), Ledger(asked, p), IdsHeard(p.at), Quiet,
           NEW H, Shipped(H)
    PROVE  \E G : Shipped(G)'
<1>1. IsLedger(group) /\ GotRead(group.queries)
  BY LedgerRead
<1>2. CASE \E t \in Tabs : Hear(t)
  <2>1. Shipped(H)'
    BY <1>2, HearShips
  <2> QED BY <2>1
<1>3. CASE Elsewhere /\ ~ \E t \in Tabs : Hear(t)
  <2>1. Shipped(H)'
    BY <1>3, ElsewhereShips
  <2> QED BY <2>1
<1>4. CASE Asking
  <2>1. Shipped(H)'
    BY <1>1, <1>4, AskingShips
  <2> QED BY <2>1
<1>5. CASE Expire
  <2>1. Shipped([v \in Nat |-> {NoStore}])'
    BY <1>5, ExpireShips
  <2> QED BY <2>1
<1>6. CASE Flush
  <2>1. MaxLines = 1 => \A u \in Tabs :
                \/ CountAt(wal, p.at, u) <= group.lmids[u]
                \/ u \in DOMAIN changes.ids /\ CountAt(wal, p.at, u) <= changes.ids[u]
    BY DEF IdsHeard
  <2>2. Stirred
    BY DEF Resting
  <2> QED BY <1>6, <2>1, <2>2, FlushShips
<1>7. CASE \E w \in Wires : Connect(w) \/ Disconnect(w)
  BY <1>7, ConnectionShips
<1> QED BY <1>2, <1>3, <1>4, <1>5, <1>6, <1>7, QuietIs

LEMMA RowsKeep == GroupInv /\ TokenInv /\ RowsInv /\ [Next]_vars => RowsInv'
<1> SUFFICES ASSUME GroupInv, TokenInv, RowsInv, [Next]_vars PROVE RowsInv'
  OBVIOUS
<1>1. GroupInv' /\ TokenInv'
  BY NextKeeps, TokensKeep
<1>2. Feed /\ Registry /\ Registry'
  BY <1>1 DEF GroupInv, Shape, TokenInv
<1>3. Resting /\ Closed /\ FirstGroup /\ Stirred
  BY DEF RowsInv, Resting
<1>4. PICK asked, p, q, H :
        Tracked(asked, p, q) /\ Ledger(asked, p) /\ IdsHeard(p.at) /\ Shipped(H)
  BY DEF RowsInv
<1>5. IsPoint(wal, asked, minted, p)
  BY <1>2, <1>4, CourseEnds DEF Tracked, Feed, IsEvents
<1>6. p.at \in Nat /\ p.at <= Len(wal)
  BY <1>5 DEF IsPoint
<1>7. Queues(group) /\ IsQueries(group.queries) /\ IsSeq(pending)
  BY <1>4, LedgerParts DEF ShownAs
<1>8. Resting' /\ Closed' /\ FirstGroup'
  BY <1>1, <1>2, <1>3, <1>7, RestsKept, ClosedKept, FirstStays
<1>9. CASE Hears
  <2>1. PICK r : Tracked(asked, r, q)' /\ Moves(wal, asked, p, Head(events), r)
    BY <1>2, <1>4, <1>9, HearsTracked
  <2>2. Head(events).kind = "registered" => awaiting[Head(events).token] = asked[Head(events).token]
    BY <1>2, <1>4, <1>9, HearsTracked
  <2>3. Ledger(asked, r)' /\ OwesOn(group, group')
    BY <1>2, <1>4, <1>5, <1>9, <2>1, <2>2, HearsLedger
  <2>4. Shipped(H)'
    BY <1>1, <1>4, <1>9, <2>3, HearsShips
  <2>5. r.at <= Len(wal)
    <3>1. Feed' /\ UNCHANGED wal
      BY <1>1, <1>9, Zenon DEF GroupInv, Shape, Hears, TakeRegistered, TakeLanded, TakeHydrated,
         TakeRefused, TakeCommitted
    <3>2. IsPoint(wal, asked, minted, r)'
      BY <2>1, <3>1, CourseEnds DEF Tracked, Feed, IsEvents
    <3> QED BY <3>1, <3>2 DEF IsPoint
  <2>6. IdsHeard(r.at)'
    BY <1>4, <1>6, <1>7, <1>9, <2>1, <2>5, HearsNotes
  <2> QED BY <1>8, <2>1, <2>3, <2>4, <2>6 DEF RowsInv
<1>10. CASE Quiet
  <2>1. PICK also, r, z : Tracked(also, r, z)' /\ Agree(asked, also) /\ Rests(p, r)
    BY <1>2, <1>4, <1>10, QuietTracked
  <2>2. Ledger(also, r)'
    BY <1>1, <1>2, <1>3, <1>4, <1>5, <1>10, <2>1, QuietLedger
  <2>3. PICK G : Shipped(G)'
    BY <1>1, <1>3, <1>4, <1>5, <1>10, QuietShips
  <2>4. PICK at : at = p.at
    OBVIOUS
  <2>5. IdsHeard(at)'
    BY <1>1, <1>3, <1>4, <1>6, <1>7, <1>10, <2>4, QuietNotes, WalGoes
  <2>6. r.at = at
    BY <2>1, <2>4 DEF Rests
  <2> QED BY <1>8, <2>1, <2>2, <2>3, <2>5, <2>6 DEF RowsInv
<1> QED BY <1>9, <1>10, HearsOrQuiet

LEMMA LedgerFirst ==
    ASSUME Init, GroupInv, Registry, NEW asked, NEW p, p.known = {}
    PROVE  Ledger(asked, p)
<1>1. PICK g : g = group
  OBVIOUS
<1>2. g = NoGroup(1) /\ pending = <<>>
  BY <1>1 DEF Init
<1>3. /\ g.queries = <<>> /\ g.rows = [k \in Keys |-> NothingHeld] /\ g.queued = NothingQueued
  BY <1>2 DEF NoGroup, NewGroup
<1>4. DOMAIN g.queries = {} /\ SubsOf(g.queries) = {}
  BY <1>3 DEF SubsOf
<1>5. IsBook(g.rows, {})
  BY <1>3 DEF IsBook, NothingHeld
<1>6. Queues(g)
  BY <1>1, <1>3 DEF GroupInv, Shape, Ends, Queues, QueueFields, NothingQueued
<1>7. IsLedger(g)
  BY <1>1, <1>4, <1>5, <1>6 DEF IsLedger, Registry
<1>8. PICK V, W : V = View(g.rows) /\ W = ViewAt(wal, p)
  OBVIOUS
<1>9. ShownAs(V, <<>>, p.known, {}, W)
  BY ShownAtOnce
<1> QED BY <1>1, <1>2, <1>4, <1>7, <1>8, <1>9 DEF Ledger

LEMMA NotesFirst ==
    ASSUME Init, GroupInv, NEW at \in Nat, at <= Len(wal) PROVE IdsHeard(at)
<1> SUFFICES ASSUME MaxLines = 1, NEW u \in Tabs PROVE CountAt(wal, at, u) <= group.lmids[u]
  BY DEF IdsHeard
<1>1. FirstGroup /\ group.open = FALSE /\ group.lmids[u] = 0
  BY FirstInit DEF Init, NoGroup, NewGroup
<1>2. Unopened /\ Len(wal) \in Nat
  BY <1>1 DEF FirstGroup, GroupInv, Shape, Feed
<1>3. CountAt(wal, at, u) = 0
  BY <1>2, UnopenedCounts
<1> QED BY <1>1, <1>3

LEMMA RowsStart == Init /\ GroupInv /\ TokenInv => RowsInv
<1> SUFFICES ASSUME Init, GroupInv, TokenInv PROVE RowsInv
  OBVIOUS
<1>1. Resting /\ Closed /\ FirstGroup
  BY RestsFirst, FirstInit DEF Closed, Init, NoGroup, NewGroup
<1>2. PICK asked, p : Tracked(asked, p, p) /\ p.at = Len(Earlier) /\ p.known = {}
  BY InitTracked
<1>3. Ledger(asked, p)
  BY <1>2, LedgerFirst DEF TokenInv
<1>4. PICK at : at = p.at
  OBVIOUS
<1>5. at \in Nat /\ at <= Len(wal)
  <2>1. Len(Earlier) \in Nat
    BY ConstantsAssumption
  <2> QED BY <1>2, <1>4, <2>1 DEF Init
<1>6. IdsHeard(at)
  BY <1>5, NotesFirst
<1>7. PICK H : Shipped(H)
  BY InitShips
<1> QED BY <1>1, <1>2, <1>3, <1>4, <1>6, <1>7 DEF RowsInv

LEMMA RowsHold == Spec => []RowsInv
<1> QED BY RowsStart, RowsKeep, InitHolds, TokensStart, TokensKeep, GroupHolds, PTL DEF Spec

-----------------------------------------------------------------------------
(* What it means for a tab's rows *)

\* A tab of this group has the rows of one commit.
LEMMA TabWhole ==
    ASSUME GroupInv, NEW H, Shipped(H), NEW t \in Tabs, OurTab(t)
    PROVE  \E at \in Len(Earlier) .. Len(wal) :
               /\ \A k \in Keys : tabs[t].rows[k] \in {NoRow, RowsAt(at)[k]}
               /\ \A h \in tabs[t].got : \A k \in Answer(h, at) : tabs[t].rows[k] # NoRow
               /\ MaxLines = 1 => \A u \in Tabs : tabs[t].ids[u] >= IdsAt(at)[u]
<1>1. PICK cookie, tab : cookie = tabs[t].cookie /\ tab = tabs[t]
  OBVIOUS
<1>2. /\ cookie \in Nat /\ cookie # 0 /\ IsTab(tab) /\ group.version \in Nat
      /\ Len(wal) \in Nat /\ Len(Earlier) \in Nat
  <2>1. Len(Earlier) \in Nat
    BY ConstantsAssumption
  <2> QED BY <1>1, <2>1 DEF GroupInv, Shape, Feed, Ends, IsTab, IsGroup, OurTab
<1>3. cookie <= group.version /\ \E x \in H[cookie] : NoLess(x, tab)
  BY <1>1 DEF Shipped, Stored
<1>4. PICK x \in H[cookie] : NoLess(x, tab)
  BY <1>3
<1>5. cookie \in 0 .. group.version
  BY <1>2, <1>3
<1>6. Whole(wal, x) /\ \A u \in Tabs : x.ids[u] \in Nat
  BY <1>2, <1>4, <1>5 DEF Shipped, Members
<1>7. PICK at \in Len(Earlier) .. Len(wal) : AsOf(wal, x, at)
  BY <1>6 DEF Whole
<1>8. at \in Nat
  BY <1>2, <1>7
<1>9. RowsAt(at) = TableAt(wal, at) /\ \A h : Answer(h, at) = AnswerAt(wal, h, at)
  BY <1>8, TableIs
<1>10. \A k \in Keys : tab.rows[k] \in {NoRow, RowsAt(at)[k]}
  BY <1>4, <1>7, <1>9 DEF AsOf, NoLess
<1>11. \A h \in tab.got : \A k \in Answer(h, at) : tab.rows[k] # NoRow
  <2> SUFFICES ASSUME NEW h \in tab.got, NEW k \in Answer(h, at) PROVE tab.rows[k] # NoRow
    OBVIOUS
  <2>1. h \in x.got /\ k \in AnswerAt(wal, h, at) /\ k \in Keys
    BY <1>4, <1>9 DEF NoLess, AnswerAt
  <2>2. x.rows[k] # NoRow
    BY <1>7, <2>1 DEF AsOf
  <2> QED BY <1>4, <2>1, <2>2 DEF NoLess
<1>12. ASSUME MaxLines = 1, NEW u \in Tabs PROVE tab.ids[u] >= IdsAt(at)[u]
  <2>1. CountAt(wal, at, u) <= x.ids[u] /\ x.ids[u] <= tab.ids[u]
    BY <1>4, <1>7, <1>12 DEF AsOf, NoLess
  <2>2. CountAt(wal, at, u) \in Nat /\ x.ids[u] \in Nat /\ tab.ids[u] \in Nat
    BY <1>2, <1>6, <1>8, <1>12, CountIs DEF IsTab, IdMap
  <2>3. IdsAt(at)[u] = CountAt(wal, at, u)
    BY <1>12, IdsAre
  <2>4. \A a, b, c \in Nat : a <= b /\ b <= c => c >= a
    OBVIOUS
  <2> QED BY <2>1, <2>2, <2>3, <2>4
<1> QED BY <1>1, <1>7, <1>10, <1>11, <1>12

(* A tab of the group shows the table as of one commit: no row of it is     *)
(* older or newer, and of each query it has got no row is missing; through  *)
(* a batch's deltas accounted in one step, a query's rows told apart from   *)
(* when it is got, releases, replays from the log and whole states          *)
(* (`account', `release_rows', `connect' and `poke' of groups.rs).          *)
THEOREM RowsOfOneCommit == Spec => []WholeCommits
<1>1. GroupInv /\ RowsInv => WholeCommits
  <2> SUFFICES ASSUME GroupInv, RowsInv, NEW t \in Tabs, OurTab(t)
               PROVE  \E at \in Len(Earlier) .. Len(wal) :
                        /\ \A k \in Keys : tabs[t].rows[k] \in {NoRow, RowsAt(at)[k]}
                        /\ \A h \in tabs[t].got : \A k \in Answer(h, at) : tabs[t].rows[k] # NoRow
    BY DEF WholeCommits
  <2>1. PICK H : Shipped(H)
    BY DEF RowsInv
  <2> QED BY <2>1, TabWhole
<1> QED BY <1>1, GroupHolds, RowsHold, PTL

(* A tab never shows a mutation's row before it knows the mutation's id:    *)
(* an event's id and its rows leave in one poke, and a whole state tells    *)
(* the ids of all it shows (`note_lmid', `poke' and `connect' of            *)
(* groups.rs); as long as the group is never made anew: of a commit heard   *)
(* while there was no group, a group made anew knows the id only if the     *)
(* connection that makes it has read the tables since.                      *)
THEOREM IdsComeWithRows ==
    ASSUME MaxLines = 1
    PROVE  Spec => []RowsBringTheirIds
<1>1. GroupInv /\ RowsInv => RowsBringTheirIds
  <2> SUFFICES ASSUME GroupInv, RowsInv, NEW t \in Tabs, OurTab(t)
               PROVE  \E at \in Len(Earlier) .. Len(wal) :
                        /\ \A k \in Keys : tabs[t].rows[k] \in {NoRow, RowsAt(at)[k]}
                        /\ \A u \in Tabs : tabs[t].ids[u] >= IdsAt(at)[u]
    BY DEF RowsBringTheirIds
  <2>1. PICK H : Shipped(H)
    BY DEF RowsInv
  <2> QED BY <2>1, TabWhole
<1> QED BY <1>1, GroupHolds, RowsHold, PTL

-----------------------------------------------------------------------------
(* What it means for a tab that is caught up *)

\* Once all is heard and read whole, the group shows exactly its answers.
LEMMA LedgerSettled ==
    ASSUME NEW asked, NEW p, IsPoint(wal, asked, minted, p), Ledger(asked, p), pending = <<>>,
           p.live \subseteq p.done, NEW at, at = p.at
    PROVE  /\ Complete(group) = {h \in Known(group) : group.queries[h].sub # 0}
           /\ \A k \in Keys :
                /\ group.rows[k].image \in {NoRow, RowsAt(at)[k]}
                /\ group.rows[k].image # NoRow <=> \E h \in Complete(group) : k \in Answer(h, at)
<1>1. PICK S : S = SubsOf(group.queries)
  OBVIOUS
<1>2. /\ S \in SUBSET Nat /\ S \subseteq p.live /\ IsBook(group.rows, S)
      /\ IsQueries(group.queries)
      /\ ShownAs(View(group.rows), pending, p.known, S, ViewAt(wal, p))
      /\ \A q \in DOMAIN group.queries : HasRead(group.queries[q], q, asked, p.done)
  BY <1>1, LedgerParts
<1>3. at \in Nat /\ \A s \in p.live : p.shown[s] = AnswerAt(wal, asked[s], at)
  BY DEF IsPoint
<1>4. RowsAt(at) = TableAt(wal, at) /\ \A h : Answer(h, at) = AnswerAt(wal, h, at)
  BY <1>3, TableIs
<1>5. ASSUME NEW h \in Known(group)
      PROVE  h \in Complete(group) <=> group.queries[h].sub # 0
  <2>1. h \in DOMAIN group.queries /\ HasRead(group.queries[h], h, asked, p.done)
    BY <1>2, <1>5 DEF Known
  <2>2. group.queries[h].sub # 0 => group.queries[h].sub \in S
    BY <1>1, <2>1 DEF SubsOf
  <2>3. group.queries[h].got = TRUE <=> group.queries[h].sub # 0
    BY <1>2, <2>1, <2>2 DEF HasRead
  <2>4. group.queries[h].got \in BOOLEAN
    BY <2>1 DEF HasRead
  <2> QED BY <1>5, <2>3, <2>4 DEF Complete
<1>6. Complete(group) = {h \in Known(group) : group.queries[h].sub # 0}
  BY <1>5 DEF Complete
<1>7. \A k \in Keys : \A s \in S : View(group.rows)[k][s] = ViewAt(wal, p)[k][s]
  <2>1. Len(pending) = 0
    BY EmptyIsSeq
  <2> QED BY <1>2, <2>1, SeenNone DEF ShownAs
<1>8. ASSUME NEW k \in Keys, NEW s \in S
      PROVE  /\ View(group.rows)[k][s] = IF s \in group.rows[k].holders THEN group.rows[k].image ELSE NoRow
             /\ ViewAt(wal, p)[k][s] = IF k \in p.shown[s] THEN TableAt(wal, at)[k] ELSE NoRow
  <2>1. s \in Nat
    BY <1>2, <1>8
  <2> QED BY <1>8, <2>1 DEF View, ViewAt
<1>9. ASSUME NEW k \in Keys, group.rows[k].image # NoRow
      PROVE  /\ group.rows[k].image = RowsAt(at)[k]
             /\ \E h \in Complete(group) : k \in Answer(h, at)
  <2>1. PICK s \in group.rows[k].holders : s \in S
    BY <1>2, <1>9 DEF IsBook
  <2>2. k \in p.shown[s] /\ group.rows[k].image = TableAt(wal, at)[k]
    BY <1>7, <1>8, <1>9, <2>1
  <2>3. PICK h \in DOMAIN group.queries : group.queries[h].sub = s /\ s # 0
    BY <1>1, <2>1 DEF SubsOf
  <2>4. asked[s] = h
    BY <1>2, <2>3 DEF HasRead
  <2>5. h \in Complete(group)
    BY <1>5, <2>3 DEF Known
  <2>6. k \in AnswerAt(wal, h, at)
    BY <1>2, <1>3, <2>1, <2>2, <2>4
  <2> QED BY <1>4, <2>2, <2>5, <2>6
<1>10. ASSUME NEW k \in Keys, NEW h \in Complete(group), k \in Answer(h, at)
       PROVE  group.rows[k].image # NoRow
  <2>1. h \in DOMAIN group.queries /\ group.queries[h].sub # 0
    BY <1>5, <1>10 DEF Complete, Known
  <2>2. PICK s : s = group.queries[h].sub
    OBVIOUS
  <2>3. s \in S /\ asked[s] = h
    BY <1>1, <1>2, <2>1, <2>2 DEF SubsOf, HasRead
  <2>4. k \in p.shown[s] /\ TableAt(wal, at)[k] # NoRow
    BY <1>2, <1>3, <1>4, <1>10, <2>3 DEF AnswerAt, InQuery
  <2>5. ViewAt(wal, p)[k][s] # NoRow
    BY <1>8, <2>3, <2>4
  <2>6. View(group.rows)[k][s] # NoRow
    BY <1>7, <2>3, <2>5
  <2> QED BY <1>8, <2>3, <2>6
<1> QED BY <1>6, <1>9, <1>10

\* A connected tab to which nothing is on its way has what the group shows.
LEMMA CaughtUpShows ==
    ASSUME GroupInv, NEW H, Shipped(H), NEW t \in Tabs, Caught(t), group.queued = NothingQueued
    PROVE  /\ tabs[t].cookie = group.version /\ tabs[t].got = Complete(group)
           /\ \A k \in Keys : tabs[t].rows[k] = group.rows[k].image
           /\ tabs[t].ids = group.lmids
<1>1. PICK w, c : w = tabs[t].wire /\ c = tabs[t].cookie
  OBVIOUS
<1>2. /\ w # 0 /\ wires[w].stage = "joined" /\ wires[w].down = <<>> /\ OurTab(t)
      /\ Linked(c, <<>>, group.version)
  BY <1>1 DEF Caught, GroupInv, Order, Wired
<1>3. c = group.version
  BY <1>2, EmptyIsSeq DEF Linked, Gap
<1>4. PICK x : x \in H[group.version] /\ NoLess(x, tabs[t])
  BY <1>1, <1>2, <1>3 DEF Shipped, Stored
<1>5. Owing(group, x)
  BY <1>4 DEF Shipped, Outstanding
<1>6. DOMAIN group.queued.rows = {} /\ DOMAIN group.queued.got = {} /\ group.queued.ids = {}
  BY DEF NothingQueued
<1>7. \A k \in Keys : tabs[t].rows[k] = group.rows[k].image
  BY <1>4, <1>5, <1>6 DEF Owing, RowsOwed, NoLess
<1>8. \A h : h \in tabs[t].got <=> h \in Complete(group)
  BY <1>4, <1>5, <1>6 DEF Owing, GotOwed, IsPut, NoLess
<1>9. tabs[t].ids \in IdMap /\ group.lmids \in IdMap /\ group.version \in Nat
  BY DEF GroupInv, Shape, Ends, IsTab, IsGroup
<1>10. ASSUME NEW u \in Tabs PROVE tabs[t].ids[u] = group.lmids[u]
  <2>1. group.lmids[u] <= x.ids[u] /\ x.ids[u] <= tabs[t].ids[u]
    BY <1>4, <1>5, <1>6 DEF Owing, IdsOwed, NoLess
  <2>2. tabs[t].ids[u] <= group.lmids[u]
    BY <1>2 DEF GroupInv, Order, Counted
  <2>3. x.ids[u] \in Nat
    <3>1. group.version \in 0 .. group.version
      BY <1>9
    <3> QED BY <1>4, <3>1 DEF Shipped, Members
  <2>4. tabs[t].ids[u] \in Nat /\ group.lmids[u] \in Nat
    BY <1>9 DEF IdMap
  <2>5. \A a, b, d \in Nat : a <= b /\ b <= d /\ d <= a => d = a
    OBVIOUS
  <2> QED BY <2>1, <2>2, <2>3, <2>4, <2>5
<1>11. tabs[t].ids = group.lmids
  BY <1>9, <1>10 DEF IdMap
<1> QED BY <1>1, <1>3, <1>7, <1>8, <1>11

(* When everything committed has been routed and heard, a connected tab to  *)
(* which nothing is on its way has the group's version, its mutation ids,   *)
(* the queries read, and exactly the rows of their answers as of the last   *)
(* commit: nothing that was owed to it was forgotten by a deferred result,  *)
(* a query let go, a refused read or a catch-up (`poke' and `connect' of    *)
(* groups.rs).                                                              *)
THEOREM CaughtUpIsCurrent == Spec => []CaughtUpTabsCurrent
<1>1. GroupInv /\ TokenInv /\ RowsInv => CaughtUpTabsCurrent
  <2> SUFFICES ASSUME GroupInv, TokenInv, RowsInv, NEW t \in Tabs, ThreadRests, Caught(t)
               PROVE  /\ tabs[t].cookie = group.version
                      /\ tabs[t].got = {h \in Known(group) : group.queries[h].sub # 0}
                      /\ {k \in Keys : tabs[t].rows[k] # NoRow}
                             = UNION {Answer(h, Len(wal)) : h \in tabs[t].got}
                      /\ \A k \in Keys : tabs[t].rows[k] \in {NoRow, RowsAt(Len(wal))[k]}
                      /\ tabs[t].ids = group.lmids
    BY DEF CaughtUpTabsCurrent
  <2>1. PICK asked, p, q, H : Tracked(asked, p, q) /\ Ledger(asked, p) /\ Shipped(H)
    BY DEF RowsInv
  <2>2. turn = "idle" /\ events = <<>> /\ engine.position = Len(wal)
    BY DEF ThreadRests
  <2>3. p = q /\ IsPoint(wal, asked, minted, p)
    BY <2>1, <2>2, EmptyIsSeq DEF Tracked, Course
  <2>4. p.at = Len(wal) /\ p.live \subseteq p.done
    BY <2>1, <2>2, <2>3 DEF Tracked, EngineAt, ThreadRests
  <2>5. pending = <<>> /\ changes = NoChanges
    BY <2>2 DEF RowsInv, Resting
  <2>6. group.queued = NothingQueued
    <3>1. changes.dirty = FALSE
      BY <2>5 DEF NoChanges
    <3>2. group.open /\ group.sockets # {}
      BY DEF Caught, OurTab, GroupInv, Order, Wired
    <3> QED BY <3>1, <3>2 DEF RowsInv, Resting, Queued
  <2>7. PICK at : at = Len(wal)
    OBVIOUS
  <2>8. /\ Complete(group) = {h \in Known(group) : group.queries[h].sub # 0}
        /\ \A k \in Keys :
             /\ group.rows[k].image \in {NoRow, RowsAt(at)[k]}
             /\ group.rows[k].image # NoRow <=> \E h \in Complete(group) : k \in Answer(h, at)
    BY <2>1, <2>3, <2>4, <2>5, <2>7, LedgerSettled
  <2>9. /\ tabs[t].cookie = group.version /\ tabs[t].got = Complete(group)
        /\ \A k \in Keys : tabs[t].rows[k] = group.rows[k].image
        /\ tabs[t].ids = group.lmids
    BY <2>1, <2>6, CaughtUpShows
  <2>10. {k \in Keys : tabs[t].rows[k] # NoRow} = UNION {Answer(h, at) : h \in tabs[t].got}
    <3>1. \A h : Answer(h, at) \subseteq Keys
      BY DEF Answer
    <3> QED BY <2>8, <2>9, <3>1
  <2> QED BY <2>7, <2>8, <2>9, <2>10
<1> QED BY <1>1, GroupHolds, RowsHold, InitHolds, TokensStart, TokensKeep, PTL DEF Spec

=============================================================================
