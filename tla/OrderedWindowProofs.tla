------------------------- MODULE OrderedWindowProofs -------------------------
(***************************************************************************)
(* Proofs about OrderedWindow: the frontier covers what it says it does,   *)
(* the page is the best there is, and the types.                           *)
(***************************************************************************)
EXTENDS OrderedWindow, FiniteSetTheorems, SequenceTheorems, TLAPS

-----------------------------------------------------------------------------
(* The order *)

\* A total order: what is not worse is better, the same, or passed on.
LEMMA WorseOrders ==
    /\ \A o, p \in OrderValues : Worse(o, p) \/ Worse(p, o) \/ o = p
    /\ \A o \in OrderValues : ~Worse(o, o)
    /\ \A o, p \in OrderValues : Worse(o, p) => ~Worse(p, o)
    /\ \A o, p, q \in OrderValues : ~Worse(o, p) /\ ~Worse(p, q) => ~Worse(o, q)
<1>1. Values \subseteq Nat /\ Keys \subseteq Nat
  BY WindowAssumption
<1>2. \A o \in OrderValues : o \in Nat \X Nat
  <2>1. SUFFICES ASSUME NEW o \in OrderValues
                 PROVE  o \in Nat \X Nat
    OBVIOUS
  <2>2. o \in Values \X (Keys \cup {0})
    BY DEF OrderValues
  <2>3. PICK v \in Values, n \in Keys \cup {0} : o = <<v, n>>
    BY <2>2
  <2> QED BY <1>1, <2>3
<1>3. \A o \in Nat \X Nat : o[1] \in Nat /\ o[2] \in Nat /\ o = <<o[1], o[2]>>
  OBVIOUS
<1> QED BY <1>2, <1>3 DEF Worse

\* A matching row has an order value.
LEMMA OrderValueTyped ==
    ASSUME NEW t \in Tables, NEW k \in Matching(t)
    PROVE  OrderValue(t, k) \in OrderValues
BY DEF OrderValue, OrderValues, Matching, Tables

\* No order value and no read is the absent one.
LEMMA NoneApart == None \notin OrderValues /\ None \notin Reads
BY WindowAssumption

-----------------------------------------------------------------------------
(* The frontier: what it leaves to be read only grows *)

Behind(f, o) == f.at # None /\ ~Worse(f.at, o)

\* Covering up to o leaves o, and all that was left before, behind.
LEMMA CoverPullsIn ==
    ASSUME NEW f \in Frontiers, NEW o \in OrderValues, NEW i \in BOOLEAN
    PROVE  /\ Cover(f, o, i) \in Frontiers
           /\ Behind(Cover(f, o, i), o)
           /\ \A p \in OrderValues : Behind(f, p) => Behind(Cover(f, o, i), p)
           /\ Cover(f, o, i) = f \/ Cover(f, o, i).at = o
           /\ i => Cover(f, o, i).inclusive \/ (Cover(f, o, i) = f /\ f.at # o)
           /\ f.inclusive /\ ~Cover(f, o, i).inclusive => Cover(f, o, i).at = o
<1>1. CASE f.at = None \/ Worse(f.at, o)
  <2>1. Cover(f, o, i) = [at |-> o, inclusive |-> i]
    BY <1>1 DEF Cover
  <2>2. \A p \in OrderValues : Behind(f, p) => ~Worse(o, p)
    BY <1>1, WorseOrders DEF Behind, Frontiers
  <2> QED BY <2>1, <2>2, WorseOrders, NoneApart DEF Frontiers, Behind
<1>2. CASE ~(f.at = None \/ Worse(f.at, o)) /\ f.at = o
  <2>1. Cover(f, o, i) = [at |-> f.at, inclusive |-> f.inclusive \/ i]
    BY <1>2 DEF Cover, Frontiers
  <2> QED BY <1>2, <2>1, WorseOrders DEF Frontiers, Behind
<1>3. CASE ~(f.at = None \/ Worse(f.at, o)) /\ f.at # o
  <2>1. Cover(f, o, i) = f
    BY <1>3 DEF Cover
  <2> QED BY <1>3, <2>1 DEF Behind
<1> QED BY <1>1, <1>2, <1>3

\* Evicting rows leaves them behind, to be read again.
LEMMA EvictedPullsIn ==
    ASSUME NEW f \in Frontiers, NEW t \in Tables, NEW S \in SUBSET Matching(t),
           NEW g \in Evicted(f, t, S)
    PROVE  /\ g \in Frontiers
           /\ \A j \in S : Behind(g, OrderValue(t, j))
           /\ \A p \in OrderValues : Behind(f, p) => Behind(g, p)
           /\ f.inclusive => g.inclusive
           /\ ~g.inclusive => g = f /\ \A j \in S : OrderValue(t, j) # g.at
           /\ S # {} => \/ g = f
                        \/ \E k \in S : /\ g.at = OrderValue(t, k)
                                        /\ \A j \in S : ~Worse(g.at, OrderValue(t, j))
<1>1. CASE S = {}
  BY <1>1 DEF Evicted
<1>2. CASE S # {}
  <2>1. PICK k \in S : /\ \A j \in S : ~Worse(OrderValue(t, k), OrderValue(t, j))
                       /\ g = Cover(f, OrderValue(t, k), TRUE)
    BY <1>2 DEF Evicted
  <2> DEFINE o == OrderValue(t, k)
  <2>2. o \in OrderValues /\ \A j \in S : OrderValue(t, j) \in OrderValues
    BY OrderValueTyped
  <2>3. /\ g \in Frontiers /\ Behind(g, o)
        /\ \A p \in OrderValues : Behind(f, p) => Behind(g, p)
        /\ g = f \/ g.at = o
        /\ g.inclusive \/ (g = f /\ f.at # o)
    BY <2>1, <2>2, CoverPullsIn
  <2>4. \A j \in S : Behind(g, OrderValue(t, j))
    BY <2>1, <2>2, <2>3, WorseOrders DEF Behind, Frontiers
  <2>5. ASSUME ~g.inclusive, NEW j \in S
        PROVE  OrderValue(t, j) # g.at
    <3>1. g.at # o /\ ~Worse(g.at, o) /\ g.at \in OrderValues
      BY <2>3, <2>5 DEF Behind, Frontiers
    <3>2. Worse(o, g.at)
      BY <2>2, <3>1, WorseOrders
    <3> QED BY <2>1, <2>2, <3>1, <3>2, WorseOrders
  <2> QED BY <1>2, <2>1, <2>2, <2>3, <2>4, <2>5
<1> QED BY <1>1, <1>2

-----------------------------------------------------------------------------
(* The inductive invariant *)

\* the rows that the refills can still bring
Missing(t, H, T) ==
    {k \in Matching(t) \ (H \cup T) : Enforceable(OrderValue(t, k))}

\* The frontier f leaves each missing row behind, or the read r brings it.  A
\* frontier known to be read leaves none where it is.
Accounted(t, H, T, f, r) ==
    \A k \in Missing(t, H, T) :
        /\ Behind(f, OrderValue(t, k)) \/ (r # None /\ Passes(r, OrderValue(t, k)))
        /\ r = None /\ order = "unique" /\ f.at # None /\ ~f.inclusive =>
               OrderValue(t, k) # f.at

\* a page of the held rows is no worse than the frontier
Filled(t, H, f) ==
    f.at # None =>
        Cardinality({h \in H : ~Worse(OrderValue(t, h), f.at)}) >= Limit

\* what is learned of the order is so, and a read restarts the frontier
Honest ==
    /\ unique => order = "unique"
    /\ read # None => frontier.inclusive

WindowInv ==
    /\ TypeOK
    /\ Honest
    /\ Accounted(Db, held, turnedAway, frontier, read)
    /\ read = None /\ ~owed => Filled(Db, held, frontier)

-----------------------------------------------------------------------------
(* Counting *)

\* Sets of rows are finite.
LEMMA KeysFinite == \A S \in SUBSET Keys : IsFiniteSet(S) /\ Cardinality(S) \in Nat
BY WindowAssumption, FS_Subset, FS_CardinalityType

\* Fewer rows count less, unless they are all of them.
LEMMA MoreCount ==
    \A S \in SUBSET Keys : \A P \in SUBSET S :
        Cardinality(P) <= Cardinality(S) /\ (Cardinality(P) = Cardinality(S) => P = S)
BY KeysFinite, FS_Subset

\* Twice the limit.
LEMMA CapacityTyped ==
    /\ Limit \in Nat \ {0} /\ Capacity \in Nat \ {0}
    /\ Capacity = Limit + Limit
BY WindowAssumption DEF Capacity

\* The rows kept are as many as fit, and none of the others is better.
LEMMA BestKeeps ==
    ASSUME NEW t \in Tables, NEW S \in SUBSET Matching(t), NEW n \in Nat,
           NEW K \in Best(t, S, n)
    PROVE  /\ K \subseteq S /\ Cardinality(K) \in Nat /\ Cardinality(K) <= n
           /\ Cardinality(K) < n => K = S
           /\ K # S => Cardinality(K) = n
           /\ \A in \in K, out \in S \ K :
                 ~Worse(OrderValue(t, in), OrderValue(t, out))
<1>1. /\ K \subseteq S
      /\ Cardinality(K) = AtMost(n, Cardinality(S))
      /\ \A in \in K, out \in S \ K :
            ~Worse(OrderValue(t, in), OrderValue(t, out))
  BY DEF Best
<1>2. S \subseteq Keys /\ K \subseteq Keys
  BY <1>1 DEF Matching
<1>3. Cardinality(S) \in Nat /\ Cardinality(K) \in Nat
  BY <1>2, KeysFinite
<1>4. Cardinality(K) = Cardinality(S) => K = S
  BY <1>1, <1>2, MoreCount
<1> QED BY <1>1, <1>3, <1>4 DEF AtMost

-----------------------------------------------------------------------------
(* Eviction *)

\* An evicted row is accounted for by the frontier.
LEMMA EvictingAccounts ==
    ASSUME NEW t \in Tables, NEW H \in SUBSET Matching(t), NEW T,
           NEW f \in Frontiers, NEW r \in Reads \cup {None},
           Accounted(t, H, T, f, r),
           NEW K \in SUBSET H, NEW g \in Evicted(f, t, H \ K)
    PROVE  Accounted(t, K, T, g, r)
<1>1. /\ g \in Frontiers
      /\ \A j \in H \ K : Behind(g, OrderValue(t, j))
      /\ \A p \in OrderValues : Behind(f, p) => Behind(g, p)
      /\ ~g.inclusive => g = f /\ \A j \in H \ K : OrderValue(t, j) # g.at
  BY EvictedPullsIn
<1> SUFFICES ASSUME NEW k \in Missing(t, K, T)
             PROVE  /\ \/ Behind(g, OrderValue(t, k))
                       \/ r # None /\ Passes(r, OrderValue(t, k))
                    /\ r = None /\ order = "unique" /\ g.at # None /\ ~g.inclusive =>
                          OrderValue(t, k) # g.at
  BY DEF Accounted
<1>2. OrderValue(t, k) \in OrderValues
  BY OrderValueTyped DEF Missing
<1>3. CASE k \in H
  BY <1>1, <1>3 DEF Missing
<1>4. CASE k \notin H
  <2>1. k \in Missing(t, H, T)
    BY <1>4 DEF Missing
  <2> QED BY <1>1, <1>2, <2>1 DEF Accounted
<1> QED BY <1>3, <1>4

\* A page that was no worse than the frontier is none the worse for it.
LEMMA EvictingFills ==
    ASSUME NEW t \in Tables, NEW H \in SUBSET Matching(t), NEW f \in Frontiers,
           Filled(t, H, f),
           NEW K \in Best(t, H, Capacity), NEW g \in Evicted(f, t, H \ K)
    PROVE  Filled(t, K, g)
<1> DEFINE Page(S, at) == {h \in S : ~Worse(OrderValue(t, h), at)}
<1>1. /\ K \subseteq H
      /\ K # H => Cardinality(K) = Capacity
      /\ \A in \in K, out \in H \ K :
            ~Worse(OrderValue(t, in), OrderValue(t, out))
  <2>1. Capacity \in Nat
    BY CapacityTyped
  <2> QED BY <2>1, BestKeeps
<1>2. H \subseteq Keys /\ \A h \in H : OrderValue(t, h) \in OrderValues
  BY OrderValueTyped DEF Matching
<1>3. SUFFICES ASSUME g.at # None
               PROVE  Cardinality(Page(K, g.at)) >= Limit
  BY DEF Filled
<1>4. g \in Frontiers /\ g.at \in OrderValues
  BY <1>3, EvictedPullsIn DEF Frontiers
<1>5. Page(K, g.at) \subseteq Keys /\ Page(H, g.at) \subseteq Keys
  BY <1>1, <1>2
<1>6. ASSUME K # H, Page(K, g.at) = K
      PROVE  Cardinality(Page(K, g.at)) >= Limit
  <2>1. Cardinality(Page(K, g.at)) = Capacity
    BY <1>1, <1>6
  <2> QED BY <2>1, CapacityTyped
<1>7. CASE K = H
  <2>1. g = f
    BY <1>7 DEF Evicted
  <2> QED BY <1>3, <1>7, <2>1 DEF Filled
<1>8. CASE K # H /\ \E out \in H \ K : ~Worse(OrderValue(t, out), g.at)
  <2>1. PICK out \in H \ K : ~Worse(OrderValue(t, out), g.at)
    BY <1>8
  <2>2. \A h \in K : ~Worse(OrderValue(t, h), g.at)
    BY <1>1, <1>2, <1>4, <2>1, WorseOrders
  <2> QED BY <1>6, <1>8, <2>2
<1>9. CASE K # H /\ \A out \in H \ K : Worse(OrderValue(t, out), g.at)
  <2>1. \A k \in H \ K : g.at # OrderValue(t, k)
    BY <1>9, <1>4, WorseOrders
  <2>2. g = f
    <3>1. H \ K # {} => g = f \/ \E k \in H \ K : g.at = OrderValue(t, k)
      BY EvictedPullsIn
    <3> QED BY <1>1, <1>9, <2>1, <3>1
  <2>3. Page(H, g.at) = Page(K, g.at)
    BY <1>1, <1>9
  <2> QED BY <1>3, <2>2, <2>3 DEF Filled
<1> QED BY <1>7, <1>8, <1>9

-----------------------------------------------------------------------------
(* Refills *)

\* The reads without a threshold are reads.
LEMMA WholeTyped == Whole("refill") \in Reads /\ Whole("snapshot") \in Reads
BY CapacityTyped DEF Whole, Reads

\* A refill never asks for more than the capacity: of the rows it returns
\* again there are no more than are held.
LEMMA RefillTyped ==
    ASSUME unique \in BOOLEAN,
           NEW t \in Tables, NEW K \in SUBSET Matching(t), NEW f \in Frontiers,
           Cardinality(K) <= Capacity, f.at # None, Refill(f, t, K).limit # 0
    PROVE  Refill(f, t, K) \in Reads
<1> DEFINE strict == Learned(K) /\ ~f.inclusive
           again  == {k \in K : LET o == OrderValue(t, k) IN
                                 Worse(o, f.at) \/ (o = f.at /\ ~strict)}
           n      == (Capacity - Cardinality(K)) + Cardinality(again)
<1>1. Refill(f, t, K) =
        [kind |-> "refill", from |-> f.at, strict |-> strict, limit |-> n]
  BY DEF Refill
<1>2. again \subseteq K /\ K \subseteq Keys
  BY DEF Matching
<1> HIDE DEF again
<1>3. /\ Cardinality(again) \in Nat /\ Cardinality(K) \in Nat
      /\ Cardinality(again) <= Cardinality(K)
  BY <1>2, KeysFinite, MoreCount
<1>4. n \in 1 .. Capacity
  BY <1>1, <1>3, CapacityTyped
<1>5. strict \in BOOLEAN /\ f.at \in OrderValues
  BY DEF Frontiers
<1> HIDE DEF strict, n
<1> QED BY <1>1, <1>4, <1>5 DEF Reads

\* What is planned is a read, or nothing.
LEMMA PlanTyped ==
    ASSUME unique \in BOOLEAN,
           NEW t \in Tables, NEW K \in SUBSET Matching(t), NEW f \in Frontiers,
           Cardinality(K) <= Capacity
    PROVE  RefillPlan(f, t, K) \in Reads \cup {None}
BY WholeTyped, RefillTyped DEF RefillPlan

\* A refill asked for brings whatever the frontier had left behind.
LEMMA PlanAccounts ==
    ASSUME unique => order = "unique",
           NEW t \in Tables, NEW K \in SUBSET Matching(t), NEW T,
           NEW f \in Frontiers, Accounted(t, K, T, f, None),
           RefillPlan(f, t, K) # None
    PROVE  Accounted(t, K, T, NoFrontier, RefillPlan(f, t, K))
<1> DEFINE r == RefillPlan(f, t, K)
<1> SUFFICES ASSUME NEW k \in Missing(t, K, T)
             PROVE  Passes(r, OrderValue(t, k))
  BY DEF Accounted
<1>1. OrderValue(t, k) \in OrderValues /\ Enforceable(OrderValue(t, k))
  BY OrderValueTyped DEF Missing
<1>2. /\ f.at \in OrderValues /\ ~Worse(f.at, OrderValue(t, k))
      /\ order = "unique" /\ ~f.inclusive => OrderValue(t, k) # f.at
  BY DEF Accounted, Behind, Frontiers
<1>3. CASE r = Whole("refill")
  BY <1>3 DEF Passes, Whole
<1>4. CASE r = Refill(f, t, K)
  <2>1. r.from = f.at /\ r.strict = (Learned(K) /\ ~f.inclusive)
    BY <1>4 DEF Refill
  <2>2. r.strict => OrderValue(t, k) # f.at
    BY <1>2, <2>1 DEF Learned
  <2>3. Worse(OrderValue(t, k), f.at) \/ OrderValue(t, k) = f.at
    BY <1>1, <1>2, WorseOrders
  <2> QED BY <1>1, <2>1, <2>2, <2>3 DEF Passes
<1> QED BY <1>3, <1>4 DEF RefillPlan

\* A window that checks and asks for nothing has a page no worse than its
\* frontier.
LEMMA NothingAskedFills ==
    ASSUME NEW t \in Tables, NEW K \in SUBSET Matching(t), NEW f \in Frontiers,
           unique \in BOOLEAN, Cardinality(K) <= Capacity,
           ~NeedsRefill(f, t, K, FALSE) \/ RefillPlan(f, t, K) = None
    PROVE  Filled(t, K, f)
<1> DEFINE Page == {k \in K : ~Worse(OrderValue(t, k), f.at)}
<1>1. SUFFICES ASSUME f.at # None
               PROVE  Cardinality(Page) >= Limit
  BY DEF Filled
<1>2. K \subseteq Keys /\ \A k \in K : OrderValue(t, k) \in OrderValues
  BY OrderValueTyped DEF Matching
<1>3. f.at \in OrderValues
  BY <1>1 DEF Frontiers
<1>4. Cardinality(K) \in Nat /\ Limit \in Nat \ {0}
  BY <1>2, KeysFinite, WindowAssumption
<1>5. CASE ~NeedsRefill(f, t, K, FALSE)
  <2> DEFINE In == {k \in K : Inside(f, t, k)}
  <2>1. In \subseteq Page /\ Page \subseteq Keys /\ In \subseteq Keys
    BY <1>1, <1>2, <1>3, WorseOrders DEF Inside
  <2>2. Cardinality(In) >= Limit
    BY <1>5 DEF NeedsRefill, Covers
  <2> HIDE DEF In, Page
  <2>3. /\ Cardinality(In) \in Nat /\ Cardinality(Page) \in Nat
        /\ Cardinality(In) <= Cardinality(Page)
    BY <2>1, KeysFinite, MoreCount
  <2> QED BY <1>4, <2>2, <2>3
<1>6. CASE RefillPlan(f, t, K) = None
  <2>1. Refill(f, t, K).limit = 0
    <3>1. Whole("refill") # None
      BY WholeTyped, NoneApart
    <3>2. Refill(f, t, K).limit # 0 => Refill(f, t, K) # None
      BY <1>1, RefillTyped, NoneApart
    <3> QED BY <1>1, <1>6, <3>1, <3>2 DEF RefillPlan
  <2> DEFINE strict == Learned(K) /\ ~f.inclusive
             again  == {k \in K : LET o == OrderValue(t, k) IN
                                   Worse(o, f.at) \/ (o = f.at /\ ~strict)}
  <2>2. (Capacity - Cardinality(K)) + Cardinality(again) = 0
    BY <2>1 DEF Refill
  <2>3. IsFiniteSet(again) /\ Cardinality(again) \in Nat
    BY <1>2, KeysFinite
  <2> HIDE DEF again, strict, Page
  <2>4. Cardinality(K) = Capacity /\ Cardinality(again) = 0
    <3>1. Cardinality(K) \in Nat /\ Cardinality(K) <= Capacity /\ Capacity \in Nat
      BY <1>4, CapacityTyped
    <3>2. \A c, n, a \in Nat : n <= c /\ (c - n) + a = 0 => n = c /\ a = 0
      OBVIOUS
    <3> QED BY <2>2, <2>3, <3>1, <3>2
  <2>5. again = {}
    BY <2>3, <2>4, FS_EmptySet
  <2>6. Page = K
    BY <2>5 DEF again, Page
  <2> QED BY <2>4, <2>6, CapacityTyped
<1> QED BY <1>5, <1>6

-----------------------------------------------------------------------------
(* Maintaining the window keeps the invariant *)

\* What holds of the table t and the new window holds in the next state.
LEMMA NextState ==
    ASSUME NEW t, NEW T, Db' = t, order' = order, turnedAway' = T
    PROVE  /\ Accounted(t, held', T, frontier', read') =>
                  Accounted(Db, held, turnedAway, frontier, read)'
           /\ Filled(t, held', frontier') => Filled(Db, held, frontier)'
BY DEF Accounted, Missing, Matching, OrderValue, Behind, Passes, Filled, Enforceable,
       Worse

\* The window kept of rows that are accounted for.
LEMMA MaintainKeeps ==
    ASSUME unique \in BOOLEAN, unique => order = "unique",
           NEW t \in Tables, NEW H \in SUBSET Matching(t), NEW T,
           NEW f \in Frontiers, NEW st \in BOOLEAN,
           NEW out \in Reads \cup {None}, NEW checks \in BOOLEAN,
           out # None => f.inclusive,
           Accounted(t, H, T, f, out),
           out = None /\ ~owed' => Filled(t, H, f) \/ (checks /\ ~st),
           Maintain(t, H, f, st, out, checks),
           Db' = t, order' = order, turnedAway' = T
    PROVE  /\ held' \subseteq H /\ Cardinality(held') <= Capacity
           /\ frontier' \in Frontiers /\ stalled' = st
           /\ read' \in Reads \cup {None}
           /\ read' # None => frontier'.inclusive
           /\ Accounted(Db, held, turnedAway, frontier, read)'
           /\ (read = None /\ ~owed => Filled(Db, held, frontier))'
<1> DEFINE Kept(K, g) ==
        /\ held' = K
        /\ read' = IF out = None /\ checks /\ NeedsRefill(g, t, K, st)
                   THEN RefillPlan(g, t, K) ELSE out
        /\ frontier' = IF read' # out THEN NoFrontier ELSE g
        /\ stalled' = st
<1>0. PICK K \in Best(t, H, Capacity) : \E g \in Evicted(f, t, H \ K) : Kept(K, g)
  BY DEF Maintain
<1>1. PICK g \in Evicted(f, t, H \ K) : Kept(K, g)
  BY <1>0
<1>2. K \subseteq H /\ K \subseteq Matching(t) /\ Cardinality(K) <= Capacity
  <2>1. Capacity \in Nat
    BY CapacityTyped
  <2> QED BY <2>1, BestKeeps
<1>3. g \in Frontiers /\ (out # None => g.inclusive)
  <2>1. H \ K \in SUBSET Matching(t)
    OBVIOUS
  <2> QED BY <2>1, EvictedPullsIn
<1>4. Accounted(t, K, T, g, out)
  BY <1>2, EvictingAccounts
<1>5. NoFrontier \in Frontiers /\ NoFrontier.inclusive
  BY DEF NoFrontier, Frontiers
<1>6. CASE read' = out
  <2>1. frontier' = g
    BY <1>1, <1>6
  <2>2. ASSUME out = None, ~owed'
        PROVE  Filled(t, K, g)
    <3>1. CASE Filled(t, H, f)
      BY <3>1, EvictingFills
    <3>2. CASE checks /\ ~st
      <4>1. st = FALSE /\ checks = TRUE
        BY <3>2
      <4>2. ~NeedsRefill(g, t, K, FALSE) \/ RefillPlan(g, t, K) = None
        BY <1>1, <1>6, <2>2, <4>1
      <4> QED BY <1>2, <1>3, <4>2, NothingAskedFills
    <3> QED BY <2>2, <3>1, <3>2
  <2>3. Accounted(Db, held, turnedAway, frontier, read)'
    BY <1>1, <1>4, <1>6, <2>1, NextState
  <2>4. read' = None /\ ~owed' => Filled(Db, held, frontier)'
    BY <1>1, <1>6, <2>1, <2>2, NextState
  <2> QED BY <1>1, <1>2, <1>3, <1>6, <2>1, <2>3, <2>4
<1>7. CASE read' # out
  <2>1. /\ out = None /\ read' = RefillPlan(g, t, K) /\ read' # None
        /\ frontier' = NoFrontier
    BY <1>1, <1>7
  <2>2. read' \in Reads
    BY <1>2, <1>3, <2>1, PlanTyped
  <2>3. Accounted(t, K, T, NoFrontier, RefillPlan(g, t, K))
    BY <1>2, <1>3, <1>4, <2>1, PlanAccounts
  <2>4. Accounted(Db, held, turnedAway, frontier, read)'
    BY <1>1, <2>1, <2>3, NextState
  <2> QED BY <1>1, <1>2, <1>5, <2>1, <2>2, <2>4
<1> QED BY <1>6, <1>7

-----------------------------------------------------------------------------
(* Writes *)

\* A write changes its row and no other.
LEMMA Committed ==
    ASSUME TypeOK, NEW k \in Keys, NEW v \in Values \cup {None}, Commit(k, v)
    PROVE  /\ Db \in Tables /\ Written(k, v) \in Tables
           /\ recent' \in Seq(Tables) /\ Len(recent') > 0 /\ writes' \in 0 .. MaxWrites
           /\ Db' = Written(k, v) /\ order' = order
           /\ Written(k, v)[k] = v
           /\ \A j \in Keys \ {k} : Written(k, v)[j] = Db[j]
<1>1. Db \in Tables
  BY DEF Db, TypeOK
<1>2. Written(k, v) \in Tables
  BY <1>1 DEF Written, Tables
<1>3. /\ recent' = Append(recent, Written(k, v))
      /\ recent \in Seq(Tables)
  BY DEF Commit, TypeOK
<1>4. recent' \in Seq(Tables) /\ Len(recent') > 0 /\ Db' = Written(k, v)
  BY <1>2, <1>3, AppendProperties DEF Db
<1>5. writes' \in 0 .. MaxWrites
  BY WindowAssumption DEF Commit, TypeOK
<1>6. /\ Written(k, v)[k] = v
      /\ \A j \in Keys \ {k} : Written(k, v)[j] = Db[j]
  BY <1>1 DEF Written, Tables
<1> QED BY <1>1, <1>2, <1>4, <1>5, <1>6 DEF Commit

\* The rows not written stay accounted for.
LEMMA WriteAccounts ==
    ASSUME Accounted(Db, held, turnedAway, frontier, read),
           NEW k \in Keys, NEW t, \A j \in Keys \ {k} : t[j] = Db[j],
           NEW H, NEW T,
           \A j \in Keys \ {k} : (j \in H <=> j \in held) /\ (j \in T <=> j \in turnedAway),
           k \in Missing(t, H, T) =>
               /\ Behind(frontier, OrderValue(t, k)) \/ (read # None /\ Passes(read, OrderValue(t, k)))
               /\ read = None /\ order = "unique" /\ frontier.at # None /\ ~frontier.inclusive =>
                      OrderValue(t, k) # frontier.at
    PROVE  Accounted(t, H, T, frontier, read)
<1>1. SUFFICES ASSUME NEW j \in Missing(t, H, T), j # k
      PROVE  j \in Missing(Db, held, turnedAway) /\ OrderValue(t, j) = OrderValue(Db, j)
  BY DEF Accounted
<1>2. OrderValue(t, j) = OrderValue(Db, j)
  BY <1>1 DEF OrderValue, Missing, Matching
<1> QED BY <1>1, <1>2 DEF Missing, Matching

\* A page stays filled when the row written is no worse than the frontier.
LEMMA WriteFills ==
    ASSUME held \subseteq Keys, Filled(Db, held, frontier),
           NEW k \in Keys, NEW t, \A j \in Keys \ {k} : t[j] = Db[j],
           NEW H \in SUBSET Keys, held \subseteq H,
           k \in held /\ frontier.at # None => ~Worse(OrderValue(t, k), frontier.at)
    PROVE  Filled(t, H, frontier)
<1> DEFINE P == {h \in held : ~Worse(OrderValue(Db, h), frontier.at)}
           Q == {h \in H : ~Worse(OrderValue(t, h), frontier.at)}
<1>1. SUFFICES ASSUME frontier.at # None
               PROVE  Cardinality(Q) >= Limit
  BY DEF Filled
<1>2. \A h \in held \ {k} : OrderValue(t, h) = OrderValue(Db, h)
  BY DEF OrderValue
<1>3. P \subseteq Q /\ P \subseteq Keys /\ Q \subseteq Keys
  BY <1>1, <1>2
<1>4. Cardinality(P) >= Limit
  BY <1>1 DEF Filled
<1> HIDE DEF P, Q
<1> QED BY <1>3, <1>4, KeysFinite, MoreCount, CapacityTyped

\* A write the window does not hold: the boundary drops a row only behind
\* the frontier, and notes one that is just there.
LEMMA ElsewhereKeeps ==
    ASSUME WindowInv, NEW k \in Keys, NEW v \in Values \cup {None}, Elsewhere(k, v)
    PROVE  WindowInv'
<1> DEFINE t == Written(k, v)
<1>1. Commit(k, v) /\ TypeOK /\ Honest
  BY DEF Elsewhere, WindowInv
<1>2. /\ Db \in Tables /\ t \in Tables
      /\ recent' \in Seq(Tables) /\ Len(recent') > 0 /\ writes' \in 0 .. MaxWrites
      /\ Db' = t /\ order' = order /\ t[k] = v
      /\ \A j \in Keys \ {k} : t[j] = Db[j]
  BY <1>1, Committed
<1>3. /\ k \notin held
      /\ v # None => ~Admits(t, k)
      /\ turnedAway' = IF v # None /\ TurnsAway(OrderValue(t, k))
                       THEN turnedAway \cup {k} ELSE turnedAway \ {k}
      /\ UNCHANGED <<held, frontier, unique, stalled, read, owed>>
  BY DEF Elsewhere
<1> HIDE DEF t
<1>4. TypeOK'
  <2>1. held' \subseteq Matching(Db)'
    BY <1>1, <1>2, <1>3 DEF TypeOK, Matching
  <2>2. turnedAway' \subseteq Keys \ held'
    BY <1>1, <1>3 DEF TypeOK
  <2> QED BY <1>1, <1>2, <1>3, <2>1, <2>2 DEF TypeOK
<1>5. Honest'
  BY <1>1, <1>2, <1>3 DEF Honest
<1>6. Accounted(t, held, turnedAway', frontier, read)
  <2>1. ASSUME k \in Missing(t, held, turnedAway')
        PROVE  /\ Behind(frontier, OrderValue(t, k))
               /\ read = None /\ order = "unique" /\ frontier.at # None /\ ~frontier.inclusive =>
                      OrderValue(t, k) # frontier.at
    <3>1. v # None /\ Enforceable(OrderValue(t, k)) /\ k \notin turnedAway'
      BY <1>2, <2>1 DEF Missing, Matching
    <3>2. frontier.at # None /\ ~Worse(frontier.at, OrderValue(t, k))
      BY <1>3, <3>1 DEF Admits
    <3>3. ~TurnsAway(OrderValue(t, k))
      BY <1>3, <3>1
    <3> QED BY <3>2, <3>3 DEF Behind, TurnsAway
  <2>2. \A j \in Keys \ {k} : j \in turnedAway' <=> j \in turnedAway
    BY <1>3
  <2> QED BY <1>2, <2>1, <2>2, WriteAccounts DEF WindowInv
<1>7. read = None /\ ~owed => Filled(t, held, frontier)
  <2>1. held \subseteq Keys
    BY <1>1 DEF TypeOK, Matching
  <2> QED BY <1>2, <1>3, <2>1, WriteFills DEF WindowInv
<1>8. /\ Accounted(Db, held, turnedAway, frontier, read)'
      /\ (read = None /\ ~owed => Filled(Db, held, frontier))'
  BY <1>2, <1>3, <1>6, <1>7, NextState
<1> QED BY <1>4, <1>5, <1>8 DEF WindowInv

\* A row let in is held, and what it pushes out is left behind.
LEMMA EntersKeeps ==
    ASSUME WindowInv, NEW k \in Keys, NEW v \in Values \cup {None}, Enters(k, v)
    PROVE  WindowInv'
<1> DEFINE t == Written(k, v)
           H == held \cup {k}
           T == turnedAway \ {k}
<1>1. Commit(k, v) /\ TypeOK /\ Honest
  BY DEF Enters, WindowInv
<1>2. /\ Db \in Tables /\ t \in Tables
      /\ recent' \in Seq(Tables) /\ Len(recent') > 0 /\ writes' \in 0 .. MaxWrites
      /\ Db' = t /\ order' = order /\ t[k] = v
      /\ \A j \in Keys \ {k} : t[j] = Db[j]
  BY <1>1, Committed
<1>3. /\ k \notin held /\ v # None /\ Admits(t, k)
      /\ unique' = Learned({k}) /\ turnedAway' = T /\ owed' = owed
      /\ Maintain(t, H, frontier, FALSE, read, FALSE)
  BY DEF Enters
<1> HIDE DEF t
<1>4. /\ H \in SUBSET Matching(t) /\ held \subseteq Keys
      /\ frontier \in Frontiers /\ read \in Reads \cup {None} /\ unique \in BOOLEAN
  BY <1>1, <1>2, <1>3 DEF TypeOK, Matching
<1>5. Accounted(t, H, T, frontier, read)
  <2>1. k \notin Missing(t, H, T)
    BY DEF Missing
  <2>2. \A j \in Keys \ {k} : (j \in H <=> j \in held) /\ (j \in T <=> j \in turnedAway)
    OBVIOUS
  <2> QED BY <1>2, <2>1, <2>2, WriteAccounts DEF WindowInv
<1>6. read = None /\ ~owed => Filled(t, H, frontier)
  <2>1. H \in SUBSET Keys /\ held \subseteq H
    BY <1>4
  <2> QED BY <1>2, <1>3, <1>4, <2>1, WriteFills DEF WindowInv
<1> HIDE DEF H, T
<1>7. /\ held' \subseteq H /\ Cardinality(held') <= Capacity
      /\ frontier' \in Frontiers /\ stalled' = FALSE
      /\ read' \in Reads \cup {None}
      /\ read' # None => frontier'.inclusive
      /\ Accounted(Db, held, turnedAway, frontier, read)'
      /\ (read = None /\ ~owed => Filled(Db, held, frontier))'
  BY <1>1, <1>2, <1>3, <1>4, <1>5, <1>6, MaintainKeeps DEF Honest
<1>8. TypeOK'
  <2>1. held' \subseteq Matching(Db)'
    BY <1>2, <1>4, <1>7 DEF Matching
  <2>2. turnedAway' \subseteq Keys \ held'
    BY <1>1, <1>3, <1>7 DEF TypeOK, H, T
  <2>3. unique' \in BOOLEAN
    BY <1>3, <1>4 DEF Learned
  <2> QED BY <1>1, <1>2, <1>3, <1>7, <2>1, <2>2, <2>3 DEF TypeOK
<1>9. Honest'
  BY <1>1, <1>2, <1>3, <1>7 DEF Honest, Learned
<1> QED BY <1>7, <1>8, <1>9 DEF WindowInv

\* A held row keeps its place; one that falls past the frontier is owed.
LEMMA RewritesKeeps ==
    ASSUME WindowInv, NEW k \in Keys, NEW v \in Values \cup {None}, Rewrites(k, v)
    PROVE  WindowInv'
<1> DEFINE t == Written(k, v)
<1>1. Commit(k, v) /\ TypeOK /\ Honest
  BY DEF Rewrites, WindowInv
<1>2. /\ Db \in Tables /\ t \in Tables
      /\ recent' \in Seq(Tables) /\ Len(recent') > 0 /\ writes' \in 0 .. MaxWrites
      /\ Db' = t /\ order' = order /\ t[k] = v
      /\ \A j \in Keys \ {k} : t[j] = Db[j]
  BY <1>1, Committed
<1>3. /\ k \in held /\ v # None
      /\ unique' = unique /\ turnedAway' = turnedAway
      /\ owed' = (owed \/ (frontier.at # None /\ Worse(OrderValue(t, k), frontier.at)))
      /\ Maintain(t, held, frontier, FALSE, read, FALSE)
  BY DEF Rewrites
<1> HIDE DEF t
<1>4. /\ held \in SUBSET Matching(t) /\ held \subseteq Keys
      /\ frontier \in Frontiers /\ read \in Reads \cup {None} /\ unique \in BOOLEAN
  BY <1>1, <1>2, <1>3 DEF TypeOK, Matching
<1>5. Accounted(t, held, turnedAway, frontier, read)
  <2>1. k \notin Missing(t, held, turnedAway)
    BY <1>3 DEF Missing
  <2> QED BY <1>2, <2>1, WriteAccounts DEF WindowInv
<1>6. read = None /\ ~owed' => Filled(t, held, frontier)
  BY <1>2, <1>3, <1>4, WriteFills DEF WindowInv
<1>7. /\ held' \subseteq held /\ Cardinality(held') <= Capacity
      /\ frontier' \in Frontiers /\ stalled' = FALSE
      /\ read' \in Reads \cup {None}
      /\ read' # None => frontier'.inclusive
      /\ Accounted(Db, held, turnedAway, frontier, read)'
      /\ (read = None /\ ~owed => Filled(Db, held, frontier))'
  BY <1>1, <1>2, <1>3, <1>4, <1>5, <1>6, MaintainKeeps DEF Honest
<1>8. TypeOK'
  <2>1. held' \subseteq Matching(Db)'
    BY <1>2, <1>4, <1>7 DEF Matching
  <2>2. turnedAway' \subseteq Keys \ held'
    BY <1>1, <1>3, <1>7 DEF TypeOK
  <2>3. owed' \in BOOLEAN
    BY <1>1, <1>3 DEF TypeOK
  <2> QED BY <1>1, <1>2, <1>3, <1>7, <2>1, <2>2, <2>3 DEF TypeOK
<1>9. Honest'
  BY <1>1, <1>2, <1>3, <1>7 DEF Honest
<1> QED BY <1>7, <1>8, <1>9 DEF WindowInv

\* A row leaves, and the window checks.
LEMMA LeavesKeeps ==
    ASSUME WindowInv, NEW k \in Keys, Leaves(k)
    PROVE  WindowInv'
<1> DEFINE t == Written(k, None)
           H == held \ {k}
<1>1. Commit(k, None) /\ TypeOK /\ Honest
  BY DEF Leaves, WindowInv
<1>2. /\ Db \in Tables /\ t \in Tables
      /\ recent' \in Seq(Tables) /\ Len(recent') > 0 /\ writes' \in 0 .. MaxWrites
      /\ Db' = t /\ order' = order /\ t[k] = None
      /\ \A j \in Keys \ {k} : t[j] = Db[j]
  BY <1>1, Committed
<1>3. /\ unique' = unique /\ turnedAway' = turnedAway /\ owed' = FALSE
      /\ Maintain(t, H, frontier, FALSE, read, TRUE)
  BY DEF Leaves
<1> HIDE DEF t
<1>4. /\ H \in SUBSET Matching(t)
      /\ frontier \in Frontiers /\ read \in Reads \cup {None} /\ unique \in BOOLEAN
  BY <1>1, <1>2 DEF TypeOK, Matching
<1>5. Accounted(t, H, turnedAway, frontier, read)
  <2>1. k \notin Missing(t, H, turnedAway)
    BY <1>2 DEF Missing, Matching
  <2>2. \A j \in Keys \ {k} : j \in H <=> j \in held
    OBVIOUS
  <2> QED BY <1>2, <2>1, <2>2, WriteAccounts DEF WindowInv
<1> HIDE DEF H
<1>6. /\ held' \subseteq H /\ Cardinality(held') <= Capacity
      /\ frontier' \in Frontiers /\ stalled' = FALSE
      /\ read' \in Reads \cup {None}
      /\ read' # None => frontier'.inclusive
      /\ Accounted(Db, held, turnedAway, frontier, read)'
      /\ (read = None /\ ~owed => Filled(Db, held, frontier))'
  BY <1>1, <1>2, <1>3, <1>4, <1>5, MaintainKeeps DEF Honest
<1>7. TypeOK'
  <2>1. held' \subseteq Matching(Db)'
    BY <1>2, <1>4, <1>6 DEF Matching
  <2>2. turnedAway' \subseteq Keys \ held'
    BY <1>1, <1>3, <1>6 DEF TypeOK, H
  <2> QED BY <1>1, <1>2, <1>3, <1>6, <2>1, <2>2 DEF TypeOK
<1>8. Honest'
  BY <1>1, <1>2, <1>3, <1>6 DEF Honest
<1> QED BY <1>6, <1>7, <1>8 DEF WindowInv

-----------------------------------------------------------------------------
(* A read lands *)

\* What the worst row of an answer says of the rows the answer leaves out.
LEMMA AnswerCovers ==
    ASSUME NEW r \in Reads, NEW t \in Tables, NEW S \in Answers(r, t),
           NEW worst \in WorstRead(r, t, S)
    PROVE  /\ S \subseteq Matching(t)
           /\ worst = None =>
                 \A j \in Matching(t) : Passes(r, OrderValue(t, j)) => j \in S
           /\ worst # None =>
                 /\ worst \in OrderValues
                 /\ \E i \in S : worst = OrderValue(t, i) /\ Passes(r, OrderValue(t, i))
                 /\ \A j \in Matching(t) :
                       Passes(r, OrderValue(t, j)) /\ Worse(worst, OrderValue(t, j)) =>
                           j \in S
<1> DEFINE P == {k \in Matching(t) : Passes(r, OrderValue(t, k))}
<1>1. r.limit \in Nat
  BY CapacityTyped DEF Reads
<1>2. /\ S \subseteq P /\ Cardinality(S) \in Nat
      /\ Cardinality(S) < r.limit => S = P
      /\ \A in \in S, out \in P \ S :
            ~Worse(OrderValue(t, in), OrderValue(t, out))
  <2>1. P \in SUBSET Matching(t) /\ S \in Best(t, P, r.limit)
    BY DEF Answers
  <2> HIDE DEF P
  <2> QED BY <1>1, <2>1, BestKeeps
<1>3. CASE Cardinality(S) < r.limit
  <2>1. worst = None
    BY <1>3 DEF WorstRead
  <2> QED BY <1>2, <1>3, <2>1
<1>4. CASE ~(Cardinality(S) < r.limit)
  <2>1. PICK i \in S : worst = OrderValue(t, i)
    BY <1>4 DEF WorstRead
  <2>2. worst \in OrderValues /\ worst # None
    BY <1>2, <2>1, OrderValueTyped, NoneApart
  <2>3. ASSUME NEW j \in Matching(t), Passes(r, OrderValue(t, j)),
               Worse(worst, OrderValue(t, j)), j \notin S
        PROVE  FALSE
    BY <1>2, <2>1, <2>3
  <2> QED BY <1>2, <2>1, <2>2, <2>3
<1> QED BY <1>3, <1>4

\* A row as it was at the location of the answer is in it still, and one
\* written since is brought up unless it is past the worst row read.
LEMMA LandAccounts ==
    ASSUME WindowInv, read # None,
           NEW at \in 1 .. Len(recent), NEW S \in Answers(read, recent[at]),
           NEW worst \in WorstRead(read, recent[at], S),
           NEW new, new = BroughtUp(read, at, S, worst) \ held,
           NEW f, f = IF worst = None THEN frontier ELSE Cover(frontier, worst, FALSE)
    PROVE  /\ new \subseteq Matching(Db) /\ f \in Frontiers
           /\ Accounted(Db, held \cup new, turnedAway \ new, f, None)
<1> DEFINE old == recent[at]
<1>1. /\ old \in Tables /\ Db \in Tables /\ read \in Reads
      /\ frontier \in Frontiers /\ frontier.inclusive
  BY DEF WindowInv, TypeOK, Honest, Db
<1>2. /\ S \subseteq Matching(old)
      /\ worst = None =>
            \A j \in Matching(old) : Passes(read, OrderValue(old, j)) => j \in S
      /\ worst # None =>
            /\ worst \in OrderValues
            /\ \E i \in S : worst = OrderValue(old, i) /\ Passes(read, OrderValue(old, i))
            /\ \A j \in Matching(old) :
                  Passes(read, OrderValue(old, j)) /\ Worse(worst, OrderValue(old, j)) =>
                      j \in S
  BY <1>1, AnswerCovers
<1>3. \A j \in Keys : ~WrittenSince(j, at) => old[j] = Db[j]
  <2>1. Len(recent) \in Nat
    BY DEF WindowInv, TypeOK
  <2>2. at \in at .. Len(recent)
    BY <2>1
  <2> QED BY <2>2 DEF WrittenSince
<1>4. f \in Frontiers
  BY <1>1, <1>2, CoverPullsIn
<1>5. new \subseteq Matching(Db)
  BY <1>2, <1>3 DEF BroughtUp, Matching
<1> HIDE DEF old
<1>6. ASSUME NEW j \in Missing(Db, held \cup new, turnedAway \ new)
      PROVE  /\ Behind(f, OrderValue(Db, j))
             /\ order = "unique" /\ f.at # None /\ ~f.inclusive =>
                    OrderValue(Db, j) # f.at
  <2> DEFINE o == OrderValue(Db, j)
  <2>1. /\ j \in Matching(Db) /\ j \in Keys /\ o \in OrderValues
        /\ j \notin BroughtUp(read, at, S, worst)
        /\ j \in Missing(Db, held, turnedAway)
    BY <1>1, <1>6, OrderValueTyped DEF Missing, Matching
  <2>2. Behind(frontier, o) \/ Passes(read, o)
    BY <2>1 DEF WindowInv, Accounted
  <2>3. ~WrittenSince(j, at) => OrderValue(old, j) = o /\ j \in Matching(old) /\ j \notin S
    BY <1>3, <2>1 DEF OrderValue, Matching, BroughtUp
  <2>4. WrittenSince(j, at) /\ Passes(read, o) => worst # None /\ Worse(o, worst)
    BY <2>1 DEF BroughtUp
  <2>5. CASE worst = None
    <3>1. f = frontier
      BY <2>5
    <3>2. ~Passes(read, o)
      BY <1>2, <2>3, <2>4, <2>5
    <3> QED BY <1>1, <2>2, <3>1, <3>2
  <2>6. CASE worst # None
    <3>1. f = Cover(frontier, worst, FALSE) /\ worst \in OrderValues
      BY <1>2, <2>6
    <3>2. /\ Behind(f, worst)
          /\ \A p \in OrderValues : Behind(frontier, p) => Behind(f, p)
          /\ ~f.inclusive => f.at = worst
      <4>1. /\ Behind(Cover(frontier, worst, FALSE), worst)
            /\ \A p \in OrderValues :
                  Behind(frontier, p) => Behind(Cover(frontier, worst, FALSE), p)
            /\ frontier.inclusive /\ ~Cover(frontier, worst, FALSE).inclusive =>
                  Cover(frontier, worst, FALSE).at = worst
        <5>1. FALSE \in BOOLEAN
          OBVIOUS
        <5> QED BY <1>1, <3>1, <5>1, CoverPullsIn
      <4> QED BY <1>1, <3>1, <4>1
    <3>3. Behind(f, o)
      <4>1. CASE Behind(frontier, o)
        BY <2>1, <3>2, <4>1
      <4>2. CASE Passes(read, o)
        <5>1. ~Worse(worst, o)
          BY <1>2, <2>1, <2>3, <2>4, <2>6, <4>2, WorseOrders
        <5> QED BY <1>4, <2>1, <3>1, <3>2, <5>1, WorseOrders DEF Behind, Frontiers
      <4> QED BY <2>2, <4>1, <4>2
    <3>4. ASSUME order = "unique", f.at # None, ~f.inclusive, o = f.at
          PROVE  FALSE
      <4>1. PICK i \in S : worst = OrderValue(old, i) /\ Passes(read, OrderValue(old, i))
        BY <1>2, <2>6
      <4>2. o = worst /\ Passes(read, o)
        BY <3>2, <3>4, <4>1
      <4>3. i = j
        BY <3>4, <4>1, <4>2 DEF OrderValue
      <4>4. WrittenSince(j, at)
        BY <2>3, <4>3
      <4> QED BY <2>1, <2>4, <4>2, <4>4, WorseOrders
    <3> QED BY <3>3, <3>4
  <2> QED BY <2>5, <2>6
<1>7. Accounted(Db, held \cup new, turnedAway \ new, f, None)
  BY <1>6 DEF Accounted
<1> QED BY <1>4, <1>5, <1>7

\* A read lands, and the window checks.
LEMMA LandKeeps ==
    ASSUME WindowInv, Land
    PROVE  WindowInv'
<1> DEFINE New(at, S, worst) == BroughtUp(read, at, S, worst) \ held
           F(worst) == IF worst = None THEN frontier ELSE Cover(frontier, worst, FALSE)
           Still(new) == IF new # {} THEN FALSE ELSE stalled \/ read.kind = "refill"
           Lands(at, new, f, still) ==
               /\ recent' = SubSeq(recent, at, Len(recent))
               /\ unique' = Learned(held \cup new)
               /\ turnedAway' = turnedAway \ new
               /\ owed' = (still /\ f.at # None)
               /\ Maintain(Db, held \cup new, f, still, None, TRUE)
<1>1. TypeOK /\ Honest /\ read # None /\ UNCHANGED <<writes, order>>
  BY DEF Land, WindowInv
<1>2. PICK at \in 1 .. Len(recent) :
        \E S \in Answers(read, recent[at]) : \E worst \in WorstRead(read, recent[at], S) :
          Lands(at, New(at, S, worst), F(worst), Still(New(at, S, worst)))
  BY DEF Land
<1>3. PICK S \in Answers(read, recent[at]) : \E worst \in WorstRead(read, recent[at], S) :
        Lands(at, New(at, S, worst), F(worst), Still(New(at, S, worst)))
  BY <1>2
<1>4. PICK worst \in WorstRead(read, recent[at], S) :
        Lands(at, New(at, S, worst), F(worst), Still(New(at, S, worst)))
  BY <1>3
<1> DEFINE new   == New(at, S, worst)
           f     == F(worst)
           still == Still(new)
           H     == held \cup new
           T     == turnedAway \ new
<1>5. /\ recent' = SubSeq(recent, at, Len(recent))
      /\ unique' = Learned(H) /\ turnedAway' = T
      /\ owed' = (still /\ f.at # None)
      /\ Maintain(Db, H, f, still, None, TRUE)
  BY <1>4
<1>6. new \subseteq Matching(Db) /\ f \in Frontiers /\ Accounted(Db, H, T, f, None)
  BY <1>1, LandAccounts
<1>7. still \in BOOLEAN
  BY <1>1 DEF TypeOK
<1> HIDE DEF new, f, still
<1>8. /\ recent' \in Seq(Tables) /\ Len(recent') > 0 /\ Db' = Db
  <2>1. /\ recent \in Seq(Tables) /\ Len(recent) \in Nat
        /\ at \in Nat /\ 1 <= at /\ at <= Len(recent)
    BY <1>1 DEF TypeOK
  <2>2. /\ recent' \in Seq(Tables) /\ Len(recent') = Len(recent) - at + 1
        /\ \A i \in 1 .. (Len(recent) - at + 1) : recent'[i] = recent[at + i - 1]
    BY <1>5, <2>1, SubSeqProperties
  <2>3. recent'[Len(recent')] = recent[Len(recent)]
    BY <2>1, <2>2
  <2> QED BY <2>1, <2>2, <2>3 DEF Db
<1>9. /\ Db \in Tables /\ H \in SUBSET Matching(Db)
      /\ unique \in BOOLEAN /\ (unique => order = "unique")
  BY <1>1, <1>6 DEF TypeOK, Honest, Db
<1>10. None \in Reads \cup {None} /\ TRUE \in BOOLEAN
  OBVIOUS
<1>11. ~owed' => Filled(Db, H, f) \/ (TRUE /\ ~still)
  BY <1>5 DEF Filled
<1> HIDE DEF H, T
<1>12. /\ held' \subseteq H /\ Cardinality(held') <= Capacity
       /\ frontier' \in Frontiers /\ stalled' = still
       /\ read' \in Reads \cup {None}
       /\ read' # None => frontier'.inclusive
       /\ Accounted(Db, held, turnedAway, frontier, read)'
       /\ (read = None /\ ~owed => Filled(Db, held, frontier))'
  BY <1>1, <1>5, <1>6, <1>7, <1>8, <1>9, <1>10, <1>11, MaintainKeeps
<1>13. TypeOK'
  <2>1. held' \subseteq Matching(Db)'
    BY <1>8, <1>9, <1>12 DEF Matching
  <2>2. turnedAway' \subseteq Keys \ held'
    BY <1>1, <1>5, <1>12 DEF TypeOK, H, T
  <2>3. unique' \in BOOLEAN /\ owed' \in BOOLEAN
    BY <1>5, <1>7, <1>9 DEF Learned
  <2> QED BY <1>1, <1>7, <1>8, <1>12, <2>1, <2>2, <2>3 DEF TypeOK
<1>14. Honest'
  BY <1>1, <1>5, <1>9, <1>12 DEF Honest, Learned
<1> QED BY <1>12, <1>13, <1>14 DEF WindowInv

-----------------------------------------------------------------------------
(* Theorems *)

\* At first everything is left to the snapshot's read.
LEMMA WindowInvInit == Init => WindowInv
<1> SUFFICES ASSUME Init
             PROVE  WindowInv
  OBVIOUS
<1>1. PICK t \in Tables : recent = <<t>>
  BY DEF Init
<1>2. recent \in Seq(Tables) /\ Len(recent) = 1
  BY <1>1
<1>3. Cardinality(held) = 0
  BY FS_EmptySet DEF Init
<1>4. read = Whole("snapshot") /\ read \in Reads /\ read # None
  BY WholeTyped, NoneApart DEF Init
<1>5. frontier \in Frontiers /\ frontier.inclusive
  BY DEF Init, NoFrontier, Frontiers
<1>6. TypeOK
  <2>1. writes \in 0 .. MaxWrites /\ Cardinality(held) <= Capacity
    BY <1>3, CapacityTyped, WindowAssumption DEF Init
  <2>2. order \in Orders /\ held \subseteq Matching(Db) /\ turnedAway \subseteq Keys \ held
    BY DEF Init
  <2>3. unique \in BOOLEAN /\ stalled \in BOOLEAN /\ owed \in BOOLEAN
    BY DEF Init
  <2> QED BY <1>2, <1>4, <1>5, <2>1, <2>2, <2>3 DEF TypeOK
<1>7. Honest
  BY <1>5 DEF Init, Honest
<1>8. Accounted(Db, held, turnedAway, frontier, read)
  BY <1>4 DEF Accounted, Passes, Whole
<1> QED BY <1>4, <1>6, <1>7, <1>8 DEF WindowInv

\* Every step keeps the invariant.
LEMMA WindowInvKept == WindowInv /\ [Next]_vars => WindowInv'
<1> SUFFICES ASSUME WindowInv, [Next]_vars
             PROVE  WindowInv'
  OBVIOUS
<1>1. ASSUME NEW k \in Keys, NEW v \in Values \cup {None}, Elsewhere(k, v)
      PROVE  WindowInv'
  BY <1>1, ElsewhereKeeps
<1>2. ASSUME NEW k \in Keys, NEW v \in Values \cup {None}, Enters(k, v)
      PROVE  WindowInv'
  BY <1>2, EntersKeeps
<1>3. ASSUME NEW k \in Keys, NEW v \in Values \cup {None}, Rewrites(k, v)
      PROVE  WindowInv'
  BY <1>3, RewritesKeeps
<1>4. ASSUME NEW k \in Keys, Leaves(k)
      PROVE  WindowInv'
  BY <1>4, LeavesKeeps
<1>5. CASE Land
  BY <1>5, LandKeeps
<1>6. CASE UNCHANGED vars
  BY <1>6 DEF vars, WindowInv, TypeOK, Honest, Accounted, Filled, Missing, Matching,
       OrderValue, Behind, Passes, Db, Enforceable
<1> QED BY <1>1, <1>2, <1>3, <1>4, <1>5, <1>6 DEF Next

\* The invariant holds of every behaviour.
LEMMA WindowInvAlways == Spec => []WindowInv
BY WindowInvInit, WindowInvKept, PTL DEF Spec

(* Every variable keeps its type, and the window never holds, nor ever      *)
(* reads, more than twice its limit of rows.                                *)
THEOREM TypesKept == Spec => []TypeOK
<1>1. WindowInv => TypeOK
  BY DEF WindowInv
<1> QED BY <1>1, WindowInvAlways, PTL

(* Whatever is written while a read is out, evicted or let in: between      *)
(* reads every row that refills can bring, and better than the frontier, is *)
(* held (learn, evict_overflow, refill_plan, land_rows, bring_up).          *)
THEOREM FrontierAlwaysCovers == Spec => []FrontierCovers
<1>1. WindowInv => FrontierCovers
  BY DEF WindowInv, FrontierCovers, Accounted, Reachable, Missing, Behind, Inside
<1> QED BY <1>1, WindowInvAlways, PTL

(* Between reads, and when the window was checked since it last fell short, *)
(* the held rows contain a page that no row that refills can bring improves *)
(* (needs_refill, refill, maintain_window).                                 *)
THEOREM PageAlwaysBest == Spec => []PageIsBest
<1>1. WindowInv => PageIsBest
  <2> SUFFICES ASSUME WindowInv, read = None, ~owed,
                      NEW k \in Keys \ held, Reachable(k)
               PROVE  Cardinality({h \in held :
                          ~Worse(OrderValue(Db, h), OrderValue(Db, k))}) >= Limit
    BY DEF PageIsBest
  <2> DEFINE o == OrderValue(Db, k)
             P == {h \in held : ~Worse(OrderValue(Db, h), frontier.at)}
             Q == {h \in held : ~Worse(OrderValue(Db, h), o)}
  <2>1. /\ Db \in Tables /\ held \subseteq Matching(Db) /\ held \subseteq Keys
        /\ frontier \in Frontiers
    BY DEF WindowInv, TypeOK, Db, Matching
  <2>2. o \in OrderValues /\ \A h \in held : OrderValue(Db, h) \in OrderValues
    BY <2>1, OrderValueTyped DEF Reachable
  <2>3. frontier.at \in OrderValues /\ ~Worse(frontier.at, o)
    BY <2>1 DEF WindowInv, Accounted, Reachable, Missing, Behind, Frontiers
  <2>4. P \subseteq Q /\ P \subseteq Keys /\ Q \subseteq Keys
    BY <2>1, <2>2, <2>3, WorseOrders
  <2>5. Cardinality(P) >= Limit
    BY <2>3, NoneApart DEF WindowInv, Filled
  <2> HIDE DEF P, Q
  <2>6. Cardinality(Q) >= Limit
    BY <2>4, <2>5, KeysFinite, MoreCount, CapacityTyped
  <2> QED BY <2>6 DEF Q
<1> QED BY <1>1, WindowInvAlways, PTL

=============================================================================
