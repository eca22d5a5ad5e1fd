----------------------------- MODULE ClientProofs -----------------------------
(***************************************************************************)
(* What a client sees over several requests: the pages of a listing, and   *)
(* the tabs of a browser.                                                  *)
(***************************************************************************)
EXTENDS Listings, BrowserSession,
        WellFoundedInduction, FiniteSetTheorems, SequenceTheorems, TLAPS

-----------------------------------------------------------------------------
(***************************************************************************)
(* Listings, for tables, page sizes and walks of any length.               *)
(*                                                                         *)
(* The rows of a page are found by counting, so the operators come first:  *)
(* the listing order is total, the first n rows are a prefix of it that    *)
(* has n rows unless it has all, and the first rows of several log tables  *)
(* contain the first rows of their union.                                  *)
(***************************************************************************)
Rows == [st : {"absent", "flight", "committed"}, at : Nat, tag : Tags]

\* The listing order is total.
LEMMA OrderIsTotal ==
    ASSUME row \in [Ids -> Rows]
    PROVE  /\ \A q \in Ids : ~Precedes(q, q)
           /\ \A q, r \in Ids : q = r \/ Precedes(q, r) \/ Precedes(r, q)
           /\ \A q, r, s \in Ids : Precedes(q, r) /\ Precedes(r, s) => Precedes(q, s)
<1>1. \A r \in Ids : row[r].at \in Nat /\ Source(r) \in Nat /\ r \in Nat
  BY IdsAssumption DEF Source, Rows
<1>2. \A q \in Ids : ~Precedes(q, q)
  BY <1>1 DEF Precedes
<1>3. \A q, r \in Ids : q = r \/ Precedes(q, r) \/ Precedes(r, q)
  BY <1>1 DEF Precedes
<1>4. \A q, r, s \in Ids : Precedes(q, r) /\ Precedes(r, s) => Precedes(q, s)
  BY <1>1 DEF Precedes
<1> QED BY <1>2, <1>3, <1>4

\* Every non-empty set of naturals has a least element.
LEMMA LeastOfNaturals ==
    ASSUME NEW T, T \subseteq Nat, T # {}
    PROVE  \E x \in T : \A y \in T : x <= y
<1>1. PICK R : R = {ss \in Nat \X Nat : ss[1] < ss[2]}
  OBVIOUS
<1>2. IsWellFoundedOn(R, Nat)
  BY <1>1, NatLessThanWellFounded DEF OpToRel
<1>3. PICK x \in T : \A y \in T : ~(<<y, x>> \in R)
  BY <1>2, WFMin, Zenon
<1>4. ASSUME NEW y \in T
      PROVE  x <= y
  <2>1. x \in Nat /\ y \in Nat /\ ~(<<y, x>> \in R)
    BY <1>3
  <2>2. ~(y < x)
    BY <1>1, <2>1
  <2> QED
    BY <2>1, <2>2
<1> QED
  BY <1>4

\* Some element of a set has the least count.
LEMMA LeastCount ==
    ASSUME NEW X, X # {}, NEW f \in [X -> Nat]
    PROVE  \E x \in X : \A y \in X : f[x] <= f[y]
<1>1. PICK T : T = {f[x] : x \in X}
  OBVIOUS
<1>2. T \subseteq Nat /\ T # {}
  BY <1>1
<1>3. PICK n \in T : \A m \in T : n <= m
  BY <1>2, LeastOfNaturals
<1>4. PICK x \in X : f[x] = n
  BY <1>1, <1>3
<1> QED BY <1>1, <1>3, <1>4

\* The rows of a set that come before r, and how many they are.
Before(rows, r) == {q \in rows : Precedes(q, r)}

LEMMA BeforeIs ==
    ASSUME row \in [Ids -> Rows], NEW S \in SUBSET Ids, IsFiniteSet(S)
    PROVE  /\ \A r \in Ids : IsFiniteSet(Before(S, r)) /\ Cardinality(Before(S, r)) \in Nat
           /\ \A q \in S, r \in Ids : Precedes(q, r) =>
                /\ Before(S, q) \subseteq Before(S, r)
                /\ Cardinality(Before(S, q)) < Cardinality(Before(S, r))
<1>1. ASSUME NEW r \in Ids
      PROVE  IsFiniteSet(Before(S, r)) /\ Cardinality(Before(S, r)) \in Nat
  <2>1. Before(S, r) \subseteq S
    BY DEF Before
  <2> QED BY <2>1, FS_Subset, FS_CardinalityType
<1>2. ASSUME NEW q \in S, NEW r \in Ids, Precedes(q, r)
      PROVE  /\ Before(S, q) \subseteq Before(S, r)
             /\ Cardinality(Before(S, q)) < Cardinality(Before(S, r))
  <2>1. PICK bq, br : bq = Before(S, q) /\ br = Before(S, r)
    OBVIOUS
  <2>2. bq \subseteq br
    BY <1>2, <2>1, OrderIsTotal DEF Before
  <2>3. q \in br /\ q \notin bq
    BY <1>2, <2>1, OrderIsTotal DEF Before
  <2>4. /\ IsFiniteSet(bq) /\ IsFiniteSet(br)
        /\ Cardinality(bq) \in Nat /\ Cardinality(br) \in Nat
    BY <1>1, <2>1
  <2>5. Cardinality(bq) <= Cardinality(br) /\ Cardinality(bq) # Cardinality(br)
    <3>1. /\ Cardinality(bq) <= Cardinality(br)
          /\ Cardinality(br) = Cardinality(bq) => br = bq
      BY <2>2, <2>4, FS_Subset
    <3> QED BY <2>3, <3>1
  <2> QED BY <2>1, <2>2, <2>4, <2>5
<1> QED BY <1>1, <1>2

LEMMA FirstIs ==
    ASSUME NEW S, NEW n
    PROVE  FirstRows(S, n) = {r \in S : Cardinality(Before(S, r)) < n}
BY DEF FirstRows, Before

\* ORDER BY ... LIMIT n: what it leaves out comes later.
LEMMA FirstIsPrefix ==
    ASSUME row \in [Ids -> Rows], NEW S \in SUBSET Ids, IsFiniteSet(S), NEW n \in Nat
    PROVE  /\ FirstRows(S, n) \subseteq S
           /\ \A r \in FirstRows(S, n), x \in S \ FirstRows(S, n) : Precedes(r, x)
<1>1. FirstRows(S, n) \subseteq S
  BY FirstIs
<1>2. ASSUME NEW r \in FirstRows(S, n), NEW x \in S \ FirstRows(S, n)
      PROVE  Precedes(r, x)
  <2>1. r \in S /\ x \in S /\ r # x /\ r \in Ids /\ x \in Ids
    BY <1>1, <1>2
  <2>2. ~Precedes(x, r)
    <3> SUFFICES ASSUME Precedes(x, r) PROVE FALSE
      OBVIOUS
    <3>1. /\ Cardinality(Before(S, x)) < Cardinality(Before(S, r))
          /\ Cardinality(Before(S, x)) \in Nat /\ Cardinality(Before(S, r)) \in Nat
      BY <2>1, BeforeIs
    <3>2. Cardinality(Before(S, r)) < n /\ ~(Cardinality(Before(S, x)) < n)
      BY <1>2, <2>1, FirstIs
    <3> QED BY <3>1, <3>2
  <2> QED BY <2>1, <2>2, OrderIsTotal
<1> QED BY <1>1, <1>2

\* It leaves something out only if it has n rows.
LEMMA FirstFills ==
    ASSUME row \in [Ids -> Rows], NEW S \in SUBSET Ids, IsFiniteSet(S), NEW n \in Nat,
           S # FirstRows(S, n)
    PROVE  /\ IsFiniteSet(FirstRows(S, n)) /\ Cardinality(FirstRows(S, n)) \in Nat
           /\ Cardinality(FirstRows(S, n)) >= n
<1>1. PICK F : F = FirstRows(S, n)
  OBVIOUS
<1>2. F \subseteq S /\ S \ F # {}
  BY <1>1, FirstIsPrefix
<1>3. IsFiniteSet(F) /\ Cardinality(F) \in Nat
  BY <1>2, FS_Subset, FS_CardinalityType
<1>4. PICK X : X = S \ F
  OBVIOUS
<1>5. PICK f : f = [x \in X |-> Cardinality(Before(S, x))]
  OBVIOUS
<1>6. f \in [X -> Nat]
  BY <1>4, <1>5, BeforeIs
<1>7. PICK x \in X : \A y \in X : f[x] <= f[y]
  BY <1>2, <1>4, <1>6, LeastCount
<1>8. x \in S /\ x \in Ids /\ x \notin F
  BY <1>4, <1>7
<1>9. Before(S, x) \subseteq F
  <2> SUFFICES ASSUME NEW q \in Before(S, x), q \notin F PROVE FALSE
    OBVIOUS
  <2>1. q \in S /\ q \in X /\ q \in Ids /\ Precedes(q, x)
    BY <1>4 DEF Before
  <2>2. f[q] < f[x] /\ f[q] \in Nat /\ f[x] \in Nat
    BY <1>5, <1>6, <1>7, <1>8, <2>1, BeforeIs
  <2> QED BY <1>7, <2>1, <2>2
<1>10. ~(Cardinality(Before(S, x)) < n) /\ Cardinality(Before(S, x)) \in Nat
  BY <1>1, <1>8, FirstIs, BeforeIs
<1>11. Cardinality(Before(S, x)) <= Cardinality(F)
  BY <1>3, <1>9, FS_Subset
<1> QED BY <1>1, <1>3, <1>10, <1>11

\* The rows one page shows, of the one more that was read.
LEMMA FirstOfFirst ==
    ASSUME row \in [Ids -> Rows], NEW S \in SUBSET Ids, IsFiniteSet(S), NEW n \in Nat
    PROVE  FirstRows(FirstRows(S, n + 1), n) = FirstRows(S, n)
<1>1. PICK F : F = FirstRows(S, n + 1)
  OBVIOUS
<1>2. n + 1 \in Nat /\ F \subseteq S
  BY <1>1, FirstIs
<1>3. ASSUME NEW r \in F PROVE Before(F, r) = Before(S, r)
  <2>1. ASSUME NEW q \in S, Precedes(q, r), q \notin F PROVE FALSE
    <3>1. Precedes(r, q)
      BY <1>1, <1>2, <1>3, <2>1, FirstIsPrefix
    <3>2. q \in Ids /\ r \in Ids
      BY <1>2, <1>3
    <3> QED BY <2>1, <3>1, <3>2, OrderIsTotal
  <2> QED BY <1>2, <2>1 DEF Before
<1>4. FirstRows(F, n) = {r \in F : Cardinality(Before(F, r)) < n}
  BY FirstIs
<1>5. FirstRows(S, n) = {r \in S : Cardinality(Before(S, r)) < n}
  BY FirstIs
<1>6. F = {r \in S : Cardinality(Before(S, r)) < n + 1}
  BY <1>1, FirstIs
<1>7. ASSUME NEW r \in S, Cardinality(Before(S, r)) < n PROVE r \in F
  <2>1. Cardinality(Before(S, r)) \in Nat
    BY BeforeIs
  <2> QED BY <1>6, <1>7, <2>1
<1> QED BY <1>1, <1>2, <1>3, <1>4, <1>5, <1>7

\* The last row of a page.
LEMMA LastIs ==
    ASSUME row \in [Ids -> Rows], NEW S \in SUBSET Ids, IsFiniteSet(S), S # {}
    PROVE  /\ LastRow(S) \in S
           /\ \A q \in S : q = LastRow(S) \/ Precedes(q, LastRow(S))
<1>1. PICK after : after = [r \in S |-> {q \in S : Precedes(r, q)}]
  OBVIOUS
<1>2. \A r \in S : IsFiniteSet(after[r]) /\ Cardinality(after[r]) \in Nat
  <2>1. \A r \in S : after[r] \subseteq S
    BY <1>1
  <2> QED BY <2>1, FS_Subset, FS_CardinalityType
<1>3. PICK f : f = [r \in S |-> Cardinality(after[r])]
  OBVIOUS
<1>4. f \in [S -> Nat]
  BY <1>2, <1>3
<1>5. PICK x \in S : \A y \in S : f[x] <= f[y]
  BY <1>4, LeastCount
<1>6. ASSUME NEW q \in S \ {x} PROVE Precedes(q, x)
  <2> SUFFICES ASSUME ~Precedes(q, x) PROVE FALSE
    OBVIOUS
  <2>1. q \in Ids /\ x \in Ids /\ Precedes(x, q)
    BY <1>5, <1>6, OrderIsTotal
  <2>2. after[q] \subseteq after[x] /\ q \in after[x] /\ q \notin after[q]
    BY <1>1, <1>5, <1>6, <2>1, OrderIsTotal
  <2>3. /\ Cardinality(after[q]) <= Cardinality(after[x])
        /\ Cardinality(after[x]) = Cardinality(after[q]) => after[x] = after[q]
    BY <1>2, <1>5, <1>6, <2>2, FS_Subset
  <2>4. f[q] < f[x] /\ f[q] \in Nat /\ f[x] \in Nat
    BY <1>2, <1>3, <1>5, <1>6, <2>2, <2>3
  <2> QED BY <1>5, <1>6, <2>4
<1>7. /\ LastRow(S) \in S
      /\ \A q \in S \ {LastRow(S)} : Precedes(q, LastRow(S))
  BY <1>5, <1>6 DEF LastRow
<1> QED BY <1>7

\* A page of a set with at most n rows has them all, and a page of a set that
\* has any has some.
LEMMA PageIs ==
    ASSUME row \in [Ids -> Rows], NEW S \in SUBSET Ids, IsFiniteSet(S),
           NEW limit \in Nat \ {0}
    PROVE  LET rows == FirstRows(S, limit + 1)
               items == FirstRows(rows, limit)
               more == Cardinality(rows) > limit /\ items # {}
           IN  /\ items = FirstRows(S, limit) /\ IsFiniteSet(items)
               /\ items \subseteq S /\ \A r \in items, x \in S \ items : Precedes(r, x)
               /\ ~more => items = S
               /\ more => /\ LastRow(items) \in items
                          /\ \A q \in items : q = LastRow(items) \/ Precedes(q, LastRow(items))
<1>1. PICK rows : rows = FirstRows(S, limit + 1)
  OBVIOUS
<1>2. PICK items : items = FirstRows(S, limit)
  OBVIOUS
<1>3. FirstRows(rows, limit) = items /\ limit \in Nat /\ limit + 1 \in Nat
  BY <1>1, <1>2, FirstOfFirst
<1>4. /\ items \subseteq S /\ rows \subseteq S
      /\ \A r \in items, x \in S \ items : Precedes(r, x)
  BY <1>1, <1>2, <1>3, FirstIsPrefix
<1>5. IsFiniteSet(items) /\ IsFiniteSet(rows) /\ Cardinality(rows) \in Nat
  BY <1>4, FS_Subset, FS_CardinalityType
<1>6. ASSUME items # {}
      PROVE  /\ LastRow(items) \in items
             /\ \A q \in items : q = LastRow(items) \/ Precedes(q, LastRow(items))
  <2>1. items \in SUBSET Ids
    BY <1>4
  <2> QED BY <1>5, <1>6, <2>1, LastIs
<1>7. ASSUME ~(Cardinality(rows) > limit) PROVE items = S
  <2>1. rows = S
    <3> SUFFICES ASSUME rows # S PROVE FALSE
      OBVIOUS
    <3>1. Cardinality(rows) >= limit + 1
      BY <1>1, <1>3, FirstFills
    <3> QED BY <1>3, <1>5, <1>7, <3>1
  <2>2. ASSUME NEW r \in S PROVE r \in items
    <3>1. Before(S, r) \subseteq S \ {r}
      BY OrderIsTotal DEF Before
    <3>2. IsFiniteSet(S \ {r}) /\ Cardinality(S \ {r}) = Cardinality(S) - 1
      BY FS_RemoveElement
    <3>3. Cardinality(Before(S, r)) <= Cardinality(S \ {r}) /\ Cardinality(Before(S, r)) \in Nat
      BY <3>1, <3>2, FS_Subset, FS_CardinalityType
    <3>4. Cardinality(Before(S, r)) < limit
      BY <1>3, <1>5, <1>7, <2>1, <3>2, <3>3
    <3> QED BY <1>2, <3>4, FirstIs
  <2> QED BY <1>4, <2>2
<1>8. ASSUME items = {} PROVE S = {}
  <2> SUFFICES ASSUME S # {} PROVE FALSE
    OBVIOUS
  <2>1. Cardinality(items) >= limit
    BY <1>2, <1>3, <1>8, FirstFills
  <2> QED BY <1>3, <1>8, <2>1, FS_EmptySet
<1> QED BY <1>1, <1>2, <1>3, <1>4, <1>5, <1>6, <1>7, <1>8

\* build_audit_log_statement: the first rows of the union of the log tables
\* are among the first rows of each.
LEMMA FirstOfSources ==
    ASSUME row \in [Ids -> Rows], NEW S \in SUBSET Ids, IsFiniteSet(S), NEW n \in Nat,
           NEW U, U = UNION {FirstRows({r \in S : Source(r) = Source(s)}, n) : s \in Ids}
    PROVE  FirstRows(U, n) = FirstRows(S, n)
<1>1. PICK part : part = [s \in Ids |-> {r \in S : Source(r) = Source(s)}]
  OBVIOUS
<1>2. \A s \in Ids : part[s] \in SUBSET Ids /\ IsFiniteSet(part[s]) /\ part[s] \subseteq S
  <2>1. \A s \in Ids : part[s] \subseteq S
    BY <1>1
  <2> QED BY <2>1, FS_Subset
<1>3. PICK first : first = [s \in Ids |-> FirstRows(part[s], n)]
  OBVIOUS
<1>4. U = UNION {first[s] : s \in Ids}
  BY <1>1, <1>3
<1>5. \A s \in Ids : first[s] \subseteq part[s]
  BY <1>2, <1>3, FirstIsPrefix
<1>6. U \subseteq S /\ IsFiniteSet(U) /\ U \in SUBSET Ids
  <2>1. U \subseteq S
    BY <1>2, <1>4, <1>5
  <2> QED BY <2>1, FS_Subset
<1>7. \A r \in Ids : /\ Cardinality(Before(U, r)) <= Cardinality(Before(S, r))
                     /\ Cardinality(Before(U, r)) \in Nat /\ Cardinality(Before(S, r)) \in Nat
  <2>1. ASSUME NEW r \in Ids PROVE Cardinality(Before(U, r)) <= Cardinality(Before(S, r))
    <3>1. Before(U, r) \subseteq Before(S, r)
      BY <1>6 DEF Before
    <3>2. IsFiniteSet(Before(S, r))
      BY BeforeIs
    <3> QED BY <3>1, <3>2, FS_Subset
  <2> QED BY <1>6, <2>1, BeforeIs
<1>8. ASSUME NEW r \in FirstRows(S, n) PROVE r \in FirstRows(U, n)
  <2>1. r \in S /\ r \in Ids /\ Cardinality(Before(S, r)) < n
    BY <1>8, FirstIs
  <2>2. r \in part[r]
    BY <1>1, <2>1
  <2>3. Cardinality(Before(part[r], r)) < n
    <3>1. Before(part[r], r) \subseteq Before(S, r)
      BY <1>2, <2>1 DEF Before
    <3>2. IsFiniteSet(Before(S, r)) /\ Cardinality(Before(S, r)) \in Nat
      BY <2>1, BeforeIs
    <3>3. /\ Cardinality(Before(part[r], r)) <= Cardinality(Before(S, r))
          /\ Cardinality(Before(part[r], r)) \in Nat
      BY <3>1, <3>2, FS_Subset, FS_CardinalityType
    <3> QED BY <2>1, <3>2, <3>3
  <2>4. r \in U
    <3>1. r \in first[r]
      BY <1>3, <2>1, <2>2, <2>3, FirstIs
    <3> QED BY <1>4, <2>1, <3>1
  <2>5. Cardinality(Before(U, r)) < n
    BY <1>7, <2>1
  <2> QED BY <2>4, <2>5, FirstIs
<1>9. ASSUME NEW r \in FirstRows(U, n), r \notin FirstRows(S, n) PROVE FALSE
  <2>1. r \in U /\ r \in S /\ r \in Ids /\ Cardinality(Before(U, r)) < n
    BY <1>6, <1>9, FirstIs
  <2>2. ~(Cardinality(Before(S, r)) < n)
    BY <1>9, <2>1, FirstIs
  <2>3. PICK q \in Before(S, r) : q \notin U
    <3>1. Before(U, r) # Before(S, r)
      BY <2>1, <2>2
    <3>2. Before(U, r) \subseteq Before(S, r)
      BY <1>6 DEF Before
    <3> QED BY <3>1, <3>2 DEF Before
  <2>4. q \in S /\ q \in Ids /\ Precedes(q, r) /\ q \in part[q] /\ q \notin first[q]
    BY <1>1, <1>4, <2>3 DEF Before
  <2>5. \A p \in first[q] : Precedes(p, q)
    BY <1>2, <1>3, <2>4, FirstIsPrefix
  <2>6. first[q] \subseteq Before(U, r)
    <3>1. ASSUME NEW p \in first[q] PROVE p \in U /\ Precedes(p, r)
      <4>1. p \in U /\ p \in Ids
        BY <1>4, <1>6, <2>4, <3>1
      <4>2. Precedes(p, q)
        BY <2>5, <3>1
      <4> QED BY <2>1, <2>4, <4>1, <4>2, OrderIsTotal
    <3> QED BY <3>1 DEF Before
  <2>7. Cardinality(first[q]) >= n /\ Cardinality(first[q]) \in Nat
    <3>1. part[q] # first[q]
      BY <2>4
    <3> QED BY <1>2, <1>3, <2>4, <3>1, FirstFills
  <2>8. Cardinality(first[q]) <= Cardinality(Before(U, r))
    <3>1. IsFiniteSet(Before(U, r))
      BY <1>6, <2>1, BeforeIs
    <3> QED BY <2>6, <3>1, FS_Subset
  <2> QED BY <1>7, <2>1, <2>7, <2>8
<1>10. FirstRows(U, n) \subseteq FirstRows(S, n)
  BY <1>9
<1> QED BY <1>8, <1>10

-----------------------------------------------------------------------------
(***************************************************************************)
(* The inductive invariant of a walk.  While it is open the cursor is the  *)
(* position of a committed row: what was received lies at or before it,    *)
(* and what has matched since the first page and was not received lies     *)
(* after it.                                                               *)
(***************************************************************************)
ListTypes ==
    /\ row \in [Ids -> Rows] /\ IsFiniteSet(Committed)
    /\ now \in Nat
    /\ scope \in {"all", "users"} /\ (kind # "users" => scope = "all")
    /\ query \in Queries \cup LogQueries
    /\ cursor \in Cursors \cup {Unset}
    /\ pages \in Seq(SUBSET Ids) /\ Len(served) = Len(pages)
    /\ served \in Seq((Queries \cup LogQueries) \X {"all", "users"})
    /\ phase \in {"new", "open", "done", "refused"}

\* The visibility the walk began with.
View == served[1][2]

\* What the filters and that visibility still let through.
InView(r) == r \in Filtered(query) /\ (kind = "users" => View = "all" \/ row[r].tag = Shown)

NotBegun ==
    /\ phase = "new" => cursor = Unset /\ pages = <<>> /\ served = <<>> /\ kept = {}
    /\ phase # "new" => Len(pages) >= 1

SameQuery == \A i \in 1..Len(served) : served[i] = <<query, View>>

CursorFits ==
    /\ cursor # Unset /\ cursor.id \in Committed
    /\ cursor.at = row[cursor.id].at /\ cursor.source = Source(cursor.id)
    /\ kind = "users" => cursor.print = <<query, View>>
    /\ kind = "audit" => cursor.print = <<query, Unset>>

Halfway ==
    phase = "open" =>
        /\ kind = "active" => query = ActiveOnly
        /\ kind # "users" => View = "all"
        /\ CursorFits
        /\ \A r \in Received : r = cursor.id \/ Precedes(r, cursor.id)
        /\ \A r \in kept \ Received : Precedes(cursor.id, r)

Descends ==
    \A i, j \in 1..Len(pages) : i < j =>
        \A q \in pages[i], r \in pages[j] : q # r /\ Precedes(q, r)

WalkInv ==
    /\ ListTypes
    /\ NotBegun
    /\ SameQuery
    /\ Halfway
    /\ Descends
    /\ Received \subseteq Committed
    /\ \A r \in kept : InView(r)
    /\ phase = "done" => kept \subseteq Received

\* What the statement of a page may show.
Match(q) == {r \in Filtered(q) : kind = "users" => r \in VisibleUsers}

\* The rows that are left of it once the walk has a cursor.
Ahead(q) == {r \in Match(q) : phase = "open" => Precedes(cursor.id, r)}

LEMMA AheadIs ==
    ASSUME ListTypes, NEW q
    PROVE  /\ Match(q) \subseteq Committed /\ Ahead(q) \subseteq Match(q)
           /\ Ahead(q) \in SUBSET Ids /\ IsFiniteSet(Ahead(q))
<1>1. /\ Match(q) \subseteq Committed /\ Ahead(q) \subseteq Match(q)
      /\ Committed \subseteq Ids
  BY DEF Match, Ahead, Filtered, Committed
<1>2. IsFiniteSet(Committed)
  BY DEF ListTypes
<1> QED BY <1>1, <1>2, FS_Subset

\* The two forms of the cursor condition say what the order says.
LEMMA ConditionIsOrder ==
    ASSUME ListTypes, CursorFits, NEW r \in Ids
    PROVE  /\ kind # "audit" => (Beyond(r, cursor) <=> Precedes(cursor.id, r))
           /\ AfterInSource(r, cursor) <=> Precedes(cursor.id, r)
<1>1. /\ row[r].at \in Nat /\ Source(r) \in Nat /\ r \in Nat
      /\ row[cursor.id].at \in Nat /\ Source(cursor.id) \in Nat /\ cursor.id \in Nat
  BY IdsAssumption DEF ListTypes, CursorFits, Committed, Source, Rows
<1>2. cursor # Unset /\ cursor.at = row[cursor.id].at /\ cursor.source = Source(cursor.id)
  BY DEF CursorFits
<1>3. Beyond(r, cursor) <=> \/ row[cursor.id].at > row[r].at
                            \/ row[cursor.id].at = row[r].at /\ cursor.id > r
  BY <1>1, <1>2 DEF Beyond
<1>4. kind # "audit" => Source(r) = 0 /\ Source(cursor.id) = 0
  BY DEF Source
<1>5. kind # "audit" => (Beyond(r, cursor) <=> Precedes(cursor.id, r))
  BY <1>1, <1>3, <1>4 DEF Precedes
<1>6. AfterInSource(r, cursor) <=> Precedes(cursor.id, r)
  <2>1. CASE Source(r) = Source(cursor.id)
    BY <1>1, <1>2, <1>3, <2>1 DEF AfterInSource, Precedes
  <2>2. CASE Source(r) > Source(cursor.id)
    BY <1>1, <1>2, <2>2 DEF AfterInSource, Precedes
  <2>3. CASE Source(r) < Source(cursor.id)
    BY <1>1, <1>2, <2>3 DEF AfterInSource, Precedes
  <2> QED BY <1>1, <2>1, <2>2, <2>3
<1> QED BY <1>5, <1>6

\* The condition of a page, with or without a cursor.
LEMMA ConditionIsAhead ==
    ASSUME WalkInv, phase \in {"new", "open"}, NEW r \in Ids
    PROVE  /\ kind # "audit" =>
                (Beyond(r, cursor) <=> (phase = "open" => Precedes(cursor.id, r)))
           /\ AfterInSource(r, cursor) <=> (phase = "open" => Precedes(cursor.id, r))
<1>1. CASE phase = "new"
  BY <1>1 DEF WalkInv, NotBegun, Beyond, AfterInSource
<1>2. CASE phase = "open"
  <2>1. ListTypes /\ CursorFits
    BY <1>2 DEF WalkInv, Halfway
  <2> QED BY <1>2, <2>1, ConditionIsOrder
<1> QED BY <1>1, <1>2

\* list_active, the change requests and list_users read what is ahead.
LEMMA TableReads ==
    ASSUME WalkInv, phase \in {"new", "open"}, NEW q, NEW limit
    PROVE  /\ kind \notin {"audit", "users"} =>
                FirstRows({r \in Filtered(q) : Beyond(r, cursor)}, limit + 1)
                    = FirstRows(Ahead(q), limit + 1)
           /\ kind = "users" => ListUsers(q, cursor, limit) = FirstRows(Ahead(q), limit + 1)
<1>1. ASSUME kind \notin {"audit", "users"}
      PROVE  {r \in Filtered(q) : Beyond(r, cursor)} = Ahead(q)
  <2>1. Filtered(q) \subseteq Ids /\ Match(q) = Filtered(q)
    BY <1>1 DEF Filtered, Committed, Match
  <2>2. \A r \in Ids : Beyond(r, cursor) <=> (phase = "open" => Precedes(cursor.id, r))
    BY <1>1, ConditionIsAhead
  <2> QED BY <2>1, <2>2 DEF Ahead
<1>2. ASSUME kind = "users"
      PROVE  {r \in Filtered(q) \cap VisibleUsers : Beyond(r, cursor)} = Ahead(q)
  <2>1. Filtered(q) \subseteq Ids /\ Match(q) = Filtered(q) \cap VisibleUsers
    BY <1>2 DEF Filtered, Committed, Match
  <2>2. \A r \in Ids : Beyond(r, cursor) <=> (phase = "open" => Precedes(cursor.id, r))
    BY <1>2, ConditionIsAhead
  <2> QED BY <2>1, <2>2 DEF Ahead
<1> QED BY <1>1, <1>2 DEF ListUsers

\* build_audit_log_statement reads what is ahead in all log tables together.
LEMMA LogsRead ==
    ASSUME WalkInv, kind = "audit", phase \in {"new", "open"}, NEW q,
           NEW limit \in Nat
    PROVE  ListLogs(q, cursor, limit) = FirstRows(Ahead(q), limit + 1)
<1>1. PICK S : S = Ahead(q)
  OBVIOUS
<1>2. S \in SUBSET Ids /\ IsFiniteSet(S) /\ row \in [Ids -> Rows] /\ limit + 1 \in Nat
  BY <1>1, AheadIs DEF WalkInv, ListTypes
<1>3. S = {r \in Filtered(q) : AfterInSource(r, cursor)}
  <2>1. Filtered(q) \subseteq Ids /\ Match(q) = Filtered(q)
    BY DEF Filtered, Committed, Match
  <2>2. \A r \in Ids : AfterInSource(r, cursor) <=> (phase = "open" => Precedes(cursor.id, r))
    BY ConditionIsAhead
  <2> QED BY <1>1, <2>1, <2>2 DEF Ahead
<1>4. \A s : SourceStatement(s, q, cursor, limit)
                = FirstRows({r \in S : Source(r) = s}, limit + 1)
  <2> SUFFICES ASSUME NEW s
               PROVE  SourceStatement(s, q, cursor, limit)
                        = FirstRows({r \in S : Source(r) = s}, limit + 1)
    OBVIOUS
  <2>1. {r \in Filtered(q) : Source(r) = s /\ AfterInSource(r, cursor)}
            = {r \in S : Source(r) = s}
    BY <1>3
  <2> QED BY <2>1 DEF SourceStatement
<1>5. CASE q.source # Unset
  <2>1. {r \in S : Source(r) = q.source} = S
    BY <1>3, <1>5 DEF Filtered
  <2>2. ListLogs(q, cursor, limit) = SourceStatement(q.source, q, cursor, limit)
    BY <1>5 DEF ListLogs
  <2> QED BY <1>1, <1>4, <2>1, <2>2
<1>6. CASE q.source = Unset
  <2>1. PICK U : U = UNION {FirstRows({r \in S : Source(r) = Source(s)}, limit + 1) : s \in Ids}
    OBVIOUS
  <2>2. UNION {SourceStatement(Source(s), q, cursor, limit) : s \in Ids} = U
    BY <1>4, <2>1
  <2>3. ListLogs(q, cursor, limit) = FirstRows(U, limit + 1)
    BY <1>6, <2>2 DEF ListLogs
  <2>4. FirstRows(U, limit + 1) = FirstRows(S, limit + 1)
    BY <1>2, <2>1, FirstOfSources
  <2> QED BY <1>1, <2>3, <2>4
<1> QED BY <1>5, <1>6

\* The statements look at nothing the client holds.
LEMMA SameOrder ==
    ASSUME row' = row, kind' = kind
    PROVE  /\ \A q, r : Precedes(q, r)' <=> Precedes(q, r)
           /\ \A r : Source(r)' = Source(r)
           /\ Committed' = Committed
           /\ \A q : Filtered(q)' = Filtered(q)
<1>1. \A r : Source(r)' = Source(r)
  BY DEF Source
<1>2. Committed' = Committed
  BY DEF Committed
<1> QED BY <1>1, <1>2 DEF Precedes, Filtered

\* One more page.
LEMMA ReceivedGrows ==
    ASSUME pages \in Seq(SUBSET Ids), NEW items \in SUBSET Ids,
           pages' = Append(pages, items)
    PROVE  /\ pages' \in Seq(SUBSET Ids) /\ Len(pages') = Len(pages) + 1 /\ Len(pages) \in Nat
           /\ Received' = Received \cup items
           /\ pages'[Len(pages) + 1] = items
           /\ \A i \in 1..Len(pages) : pages'[i] = pages[i] /\ pages[i] \subseteq Received
<1>1. /\ pages' \in Seq(SUBSET Ids) /\ Len(pages') = Len(pages) + 1 /\ Len(pages) \in Nat
      /\ pages'[Len(pages) + 1] = items
      /\ \A i \in 1..Len(pages) : pages'[i] = pages[i]
  OBVIOUS
<1>2. \A i \in 1..Len(pages) : pages[i] \subseteq Received
  BY DEF Received
<1>3. Received' \subseteq Received \cup items
  <2> SUFFICES ASSUME NEW i \in 1..Len(pages') PROVE pages'[i] \subseteq Received \cup items
    BY DEF Received
  <2>1. i \in 1..Len(pages) \/ i = Len(pages) + 1
    BY <1>1
  <2> QED BY <1>1, <1>2, <2>1
<1>4. Received \cup items \subseteq Received'
  <2>1. \A i \in 1..Len(pages') : pages'[i] \subseteq Received'
    BY DEF Received
  <2>2. items \subseteq Received'
    <3>1. Len(pages) + 1 \in 1..Len(pages')
      BY <1>1
    <3> QED BY <1>1, <2>1, <3>1
  <2>3. \A i \in 1..Len(pages) : pages[i] \subseteq Received'
    <3>1. \A i \in 1..Len(pages) : i \in 1..Len(pages')
      BY <1>1
    <3> QED BY <1>1, <2>1, <3>1
  <2> QED BY <2>2, <2>3 DEF Received
<1> QED BY <1>1, <1>2, <1>3, <1>4

\* A page that reads what is ahead keeps the invariant of the walk.
LEMMA PageStep ==
    ASSUME WalkInv, phase \in {"new", "open"},
           NEW limit \in Limits, NEW q \in Queries \cup LogQueries,
           NEW print \in Prints, NEW rows,
           rows = FirstRows(Ahead(q), limit + 1),
           AnswerPage(q, rows, limit, print),
           phase = "open" => q = query /\ scope = View,
           kind = "active" => q = ActiveOnly,
           kind = "users" => print = <<q, scope>>,
           kind = "audit" => print = <<q, Unset>>
    PROVE  WalkInv'
<1>1. PICK S : S = Ahead(q)
  OBVIOUS
<1>2. PICK items : items = FirstRows(rows, limit)
  OBVIOUS
<1>3. PICK more \in BOOLEAN : more = (Cardinality(rows) > limit /\ items # {})
  OBVIOUS
<1>4. ListTypes /\ row \in [Ids -> Rows] /\ limit \in Nat \ {0}
  BY LimitsAssumption DEF WalkInv, ListTypes
<1>5. /\ S \in SUBSET Ids /\ IsFiniteSet(S) /\ S \subseteq Committed
      /\ S \subseteq Match(q) /\ Committed \subseteq Ids
  BY <1>1, <1>4, AheadIs DEF Committed
<1>6. /\ items \subseteq S /\ \A r \in items, x \in S \ items : Precedes(r, x)
      /\ ~more => items = S
      /\ more => /\ LastRow(items) \in items
                 /\ \A x \in items : x = LastRow(items) \/ Precedes(x, LastRow(items))
  BY <1>1, <1>2, <1>3, <1>4, <1>5, PageIs
<1>7. /\ pages' = Append(pages, items) /\ served' = Append(served, <<q, scope>>)
      /\ query' = q
      /\ cursor' = IF more THEN Cursor(LastRow(items), print) ELSE Unset
      /\ phase' = IF more THEN "open" ELSE "done"
      /\ kept' = IF phase = "new" THEN Match(q) ELSE kept
      /\ kind' = kind /\ row' = row /\ now' = now /\ scope' = scope
  BY <1>2, <1>3 DEF AnswerPage, Match
<1>8. /\ \A x, r : Precedes(x, r)' <=> Precedes(x, r)
      /\ \A r : Source(r)' = Source(r)
      /\ Committed' = Committed
      /\ \A p : Filtered(p)' = Filtered(p)
  BY <1>7, SameOrder
<1>9. /\ pages' \in Seq(SUBSET Ids) /\ Len(pages') = Len(pages) + 1 /\ Len(pages) \in Nat
      /\ Received' = Received \cup items
      /\ pages'[Len(pages) + 1] = items
      /\ \A i \in 1..Len(pages) : pages'[i] = pages[i] /\ pages[i] \subseteq Received
  <2>1. items \in SUBSET Ids /\ pages \in Seq(SUBSET Ids)
    BY <1>4, <1>5, <1>6 DEF ListTypes
  <2> QED BY <1>7, <2>1, ReceivedGrows
<1>10. /\ served \in Seq((Queries \cup LogQueries) \X {"all", "users"})
       /\ served' \in Seq((Queries \cup LogQueries) \X {"all", "users"})
       /\ Len(served') = Len(served) + 1 /\ Len(served) = Len(pages)
       /\ served'[Len(served) + 1] = <<q, scope>>
       /\ \A i \in 1..Len(served) : served'[i] = served[i]
  <2>1. <<q, scope>> \in (Queries \cup LogQueries) \X {"all", "users"}
    BY <1>4 DEF ListTypes
  <2>2. /\ served \in Seq((Queries \cup LogQueries) \X {"all", "users"})
        /\ Len(served) = Len(pages)
    BY <1>4 DEF ListTypes
  <2> QED BY <1>7, <2>1, <2>2
<1>11. ASSUME phase = "new"
       PROVE  Received = {} /\ Len(served) = 0 /\ Len(pages) = 0 /\ S = Match(q)
  <2>1. pages = <<>> /\ served = <<>>
    BY <1>11 DEF WalkInv, NotBegun
  <2>2. Len(pages) = 0 /\ Len(served) = 0
    BY <2>1
  <2>3. Received = {}
    BY <2>2 DEF Received
  <2> QED BY <1>1, <1>11, <2>2, <2>3 DEF Ahead
<1>12. ASSUME phase = "open"
       PROVE  /\ CursorFits /\ Len(pages) >= 1 /\ cursor.id \in Ids
              /\ \A r \in Received : r = cursor.id \/ Precedes(r, cursor.id)
              /\ \A r \in kept \ Received : Precedes(cursor.id, r)
              /\ \A r \in S : Precedes(cursor.id, r)
              /\ \A r \in kept : InView(r) /\ r \in Match(q)
              /\ q = query /\ scope = View
  <2>1. /\ CursorFits /\ Len(pages) >= 1
        /\ \A r \in Received : r = cursor.id \/ Precedes(r, cursor.id)
        /\ \A r \in kept \ Received : Precedes(cursor.id, r)
    BY <1>12 DEF WalkInv, Halfway, NotBegun
  <2>2. \A r \in S : Precedes(cursor.id, r)
    BY <1>1, <1>12 DEF Ahead
  <2>3. cursor.id \in Ids
    BY <1>5, <2>1 DEF CursorFits
  <2>4. q = query /\ scope = View
    BY <1>12
  <2>5. \A r \in kept : InView(r) /\ r \in Filtered(q)
    BY <2>4 DEF WalkInv, InView
  <2>6. \A r \in kept : r \in Match(q)
    BY <2>4, <2>5 DEF InView, Match, VisibleUsers, Filtered
  <2> QED BY <2>1, <2>2, <2>3, <2>4, <2>5, <2>6
<1>13. \A r \in Received, x \in S : r # x /\ Precedes(r, x)
  <2>1. ASSUME phase = "open", NEW r \in Received, NEW x \in S
        PROVE  r # x /\ Precedes(r, x)
    <3>1. r \in Ids /\ x \in Ids /\ cursor.id \in Ids
      BY <1>5, <1>12, <2>1 DEF WalkInv
    <3>2. Precedes(cursor.id, x) /\ (r = cursor.id \/ Precedes(r, cursor.id))
      BY <1>12, <2>1
    <3>3. Precedes(r, x)
      BY <1>4, <3>1, <3>2, OrderIsTotal
    <3> QED BY <1>4, <3>1, <3>3, OrderIsTotal
  <2> QED BY <1>11, <2>1
<1>14. more => /\ LastRow(items) \in Ids /\ LastRow(items) \in Committed
               /\ LastRow(items) \in S
  BY <1>5, <1>6
<1>15. ListTypes'
  <2>1. cursor' \in Cursors \cup {Unset}
    <3>1. ASSUME more PROVE Cursor(LastRow(items), print) \in Cursors
      <4>1. /\ row[LastRow(items)].at \in Nat /\ Source(LastRow(items)) \in Nat
            /\ LastRow(items) \in Nat
        BY <1>4, <1>14, <3>1, IdsAssumption DEF Source, Rows
      <4> QED BY <4>1 DEF Cursor, Cursors
    <3> QED BY <1>7, <3>1
  <2>2. /\ row' \in [Ids -> Rows] /\ IsFiniteSet(Committed') /\ now' \in Nat
        /\ scope' \in {"all", "users"} /\ (kind' # "users" => scope' = "all")
        /\ query' \in Queries \cup LogQueries
        /\ phase' \in {"new", "open", "done", "refused"}
    BY <1>4, <1>7, <1>8 DEF ListTypes
  <2>3. Len(served') = Len(pages')
    BY <1>9, <1>10
  <2> QED BY <1>9, <1>10, <2>1, <2>2, <2>3 DEF ListTypes
<1>16. View' = scope
  <2>1. CASE phase = "new"
    <3>1. served'[1] = <<q, scope>>
      BY <1>10, <1>11, <2>1
    <3> QED BY <3>1 DEF View
  <2>2. CASE phase = "open"
    <3>1. served'[1] = served[1]
      BY <1>9, <1>10, <1>12, <2>2
    <3> QED BY <1>12, <2>2, <3>1 DEF View
  <2> QED BY <2>1, <2>2
<1>17. NotBegun'
  BY <1>7, <1>9 DEF NotBegun
<1>18. SameQuery'
  <2> SUFFICES ASSUME NEW i \in 1..Len(served') PROVE served'[i] = <<query', View'>>
    BY DEF SameQuery
  <2>1. CASE i = Len(served) + 1
    BY <1>7, <1>10, <1>16, <2>1
  <2>2. CASE i \in 1..Len(served)
    <3>1. phase = "open"
      BY <1>11, <2>2
    <3>2. served[i] = <<query, View>>
      BY <2>2 DEF WalkInv, SameQuery
    <3> QED BY <1>7, <1>10, <1>12, <1>16, <2>2, <3>1, <3>2
  <2>3. i \in 1..Len(served) \/ i = Len(served) + 1
    BY <1>9, <1>10
  <2> QED BY <2>1, <2>2, <2>3
<1>19. \A r \in kept' : r \in Match(q)
  BY <1>7, <1>12
<1>20. \A r \in kept' : InView(r)'
  BY <1>7, <1>8, <1>16, <1>19 DEF InView, Match, VisibleUsers
<1>21. \A r \in kept' : r \in Received' \/ r \in S
  <2>1. ASSUME phase = "open", NEW r \in kept, r \notin Received PROVE r \in S
    BY <1>1, <1>12, <2>1 DEF Ahead
  <2> QED BY <1>7, <1>9, <1>11, <2>1
<1>22. Halfway'
  <2> SUFFICES ASSUME more PROVE Halfway'
    BY <1>7 DEF Halfway
  <2>1. PICK last : last = LastRow(items)
    OBVIOUS
  <2>2. /\ cursor' = [at |-> row[last].at, source |-> Source(last), id |-> last, print |-> print]
        /\ last \in Ids /\ last \in Committed /\ last \in S /\ last \in items
    BY <1>6, <1>7, <1>14, <2>1 DEF Cursor
  <2>3. CursorFits'
    <3>1. cursor' # Unset
      <4>1. Cursor(last, print) \in Cursors
        <5>1. row[last].at \in Nat /\ Source(last) \in Nat /\ last \in Nat
          BY <1>4, <2>2, IdsAssumption DEF Source, Rows
        <5> QED BY <5>1 DEF Cursor, Cursors
      <4> QED BY <1>7, <2>1, <4>1, CursorSentinel
    <3>2. /\ cursor'.at = row[last].at /\ cursor'.source = Source(last) /\ cursor'.id = last
          /\ cursor'.print = print
      BY <2>2
    <3>3. /\ kind = "users" => cursor'.print = <<query', View'>>
          /\ kind = "audit" => cursor'.print = <<query', Unset>>
      BY <1>7, <1>16, <3>2
    <3> QED BY <1>7, <1>8, <2>2, <3>1, <3>2, <3>3 DEF CursorFits
  <2>4. \A r \in Received' : r = cursor'.id \/ Precedes(r, last)
    <3>1. \A r \in Received : Precedes(r, last)
      BY <1>13, <2>2
    <3>2. \A r \in items : r = last \/ Precedes(r, last)
      BY <1>6, <2>1
    <3> QED BY <1>9, <2>2, <3>1, <3>2
  <2>5. \A r \in kept' \ Received' : Precedes(last, r)
    <3>1. \A r \in kept' \ Received' : r \in S \ items
      BY <1>9, <1>21
    <3> QED BY <1>6, <2>2, <3>1
  <2>6. /\ kind' = "active" => query' = ActiveOnly'
        /\ kind' # "users" => View' = "all"
    BY <1>4, <1>7, <1>16 DEF ActiveOnly, ListTypes
  <2> QED BY <1>8, <2>2, <2>3, <2>4, <2>5, <2>6 DEF Halfway
<1>23. Descends'
  <2> SUFFICES ASSUME NEW i \in 1..Len(pages'), NEW j \in 1..Len(pages'), i < j,
                      NEW x \in pages'[i], NEW r \in pages'[j]
               PROVE  x # r /\ Precedes(x, r)'
    BY DEF Descends
  <2>1. i \in 1..Len(pages) /\ x \in pages[i] /\ x \in Received
    BY <1>9
  <2>2. CASE j = Len(pages) + 1
    BY <1>6, <1>8, <1>9, <1>13, <2>1, <2>2
  <2>3. CASE j \in 1..Len(pages)
    BY <1>8, <1>9, <2>1, <2>3 DEF WalkInv, Descends
  <2>4. j \in 1..Len(pages) \/ j = Len(pages) + 1
    BY <1>9
  <2> QED BY <2>2, <2>3, <2>4
<1>24. Received' \subseteq Committed'
  BY <1>5, <1>6, <1>8, <1>9 DEF WalkInv
<1>25. phase' = "done" => kept' \subseteq Received'
  BY <1>6, <1>7, <1>9, <1>21
<1> QED
  BY <1>15, <1>17, <1>18, <1>20, <1>22, <1>23, <1>24, <1>25 DEF WalkInv

\* Other transactions move nothing that a walk has read: a committed row keeps
\* its place, whatever else is inserted, committed or changed.
LEMMA OthersKeepWalk ==
    ASSUME WalkInv, row' \in [Ids -> Rows], IsFiniteSet(Committed'), now' \in Nat,
           scope' \in {"all", "users"}, kind # "users" => scope' = scope,
           kind' = kind, client' = client,
           \A r \in Committed : row'[r].st = "committed" /\ row'[r].at = row[r].at,
           kept' \subseteq kept, \A r \in kept' : InView(r)'
    PROVE  WalkInv'
<1>1. /\ query' = query /\ cursor' = cursor /\ pages' = pages /\ phase' = phase
      /\ served' = served
  BY DEF client
<1>2. Committed \subseteq Committed' /\ Committed \subseteq Ids
  BY DEF Committed
<1>3. \A r : Source(r)' = Source(r)
  BY DEF Source
<1>4. \A q, r \in Committed : Precedes(q, r)' <=> Precedes(q, r)
  BY <1>3 DEF Precedes
<1>5. Received' = Received /\ View' = View /\ ActiveOnly' = ActiveOnly
  BY <1>1 DEF Received, View, ActiveOnly
<1>6. Received \subseteq Committed /\ kept \subseteq Committed
  BY DEF WalkInv, InView, Filtered
<1>7. ListTypes'
  BY <1>1 DEF WalkInv, ListTypes
<1>8. NotBegun' /\ SameQuery'
  BY <1>1, <1>5 DEF WalkInv, NotBegun, SameQuery
<1>9. Halfway'
  <2> SUFFICES ASSUME phase = "open" PROVE Halfway'
    BY <1>1 DEF Halfway
  <2>1. /\ CursorFits /\ (kind = "active" => query = ActiveOnly)
        /\ kind # "users" => View = "all"
        /\ \A r \in Received : r = cursor.id \/ Precedes(r, cursor.id)
        /\ \A r \in kept \ Received : Precedes(cursor.id, r)
    BY DEF WalkInv, Halfway
  <2>2. cursor.id \in Committed
    BY <2>1 DEF CursorFits
  <2>3. CursorFits'
    BY <1>1, <1>2, <1>3, <1>5, <2>1, <2>2 DEF CursorFits
  <2>4. \A r \in Received' : r = cursor'.id \/ Precedes(r, cursor.id)'
    BY <1>1, <1>4, <1>5, <1>6, <2>1, <2>2
  <2>5. \A r \in kept' \ Received' : Precedes(cursor.id, r)'
    BY <1>1, <1>4, <1>5, <1>6, <2>1, <2>2
  <2> QED BY <1>1, <1>5, <2>1, <2>3, <2>4, <2>5 DEF Halfway
<1>10. Descends'
  <2> SUFFICES ASSUME NEW i \in 1..Len(pages), NEW j \in 1..Len(pages), i < j,
                      NEW x \in pages[i], NEW r \in pages[j]
               PROVE  x # r /\ Precedes(x, r)'
    BY <1>1 DEF Descends
  <2>1. x \in Received /\ r \in Received
    BY DEF Received
  <2>2. x # r /\ Precedes(x, r)
    BY DEF WalkInv, Descends
  <2> QED BY <1>4, <1>6, <2>1, <2>2
<1>11. Received' \subseteq Committed' /\ (phase' = "done" => kept' \subseteq Received')
  BY <1>1, <1>2, <1>5, <1>6 DEF WalkInv
<1> QED BY <1>7, <1>8, <1>9, <1>10, <1>11 DEF WalkInv

\* What matched still does when no committed row changes its tag.
LEMMA ViewUnmoved ==
    ASSUME WalkInv, kind' = kind, client' = client, kept' = kept,
           \A r \in Committed : row'[r].st = "committed" /\ row'[r].tag = row[r].tag
    PROVE  \A r \in kept' : InView(r)'
<1>1. query' = query /\ View' = View
  BY DEF client, View
<1>2. \A r : Source(r)' = Source(r)
  BY DEF Source
<1>3. \A r \in kept : InView(r) /\ r \in Committed
  BY DEF WalkInv, InView, Filtered
<1>4. Committed \subseteq Committed'
  BY DEF Committed
<1> QED BY <1>1, <1>2, <1>3, <1>4 DEF InView, Filtered

LEMMA WalkInvStarts == ListingInit => WalkInv
<1> SUFFICES ASSUME ListingInit PROVE WalkInv
  OBVIOUS
<1>1. NoRow \in Rows
  BY TagsAssumption DEF NoRow, Rows
<1>2. Committed = {}
  BY DEF ListingInit, Committed, NoRow
<1>3. query \in Queries
  BY DEF ListingInit, Queries
<1>4. ListTypes
  <2>1. IsFiniteSet(Committed)
    BY <1>2, FS_EmptySet
  <2>2. Len(served) = Len(pages) /\ pages \in Seq(SUBSET Ids)
        /\ served \in Seq((Queries \cup LogQueries) \X {"all", "users"})
    BY DEF ListingInit
  <2> QED BY <1>1, <1>3, <2>1, <2>2 DEF ListingInit, ListTypes
<1>5. Received = {} /\ Len(pages) = 0 /\ Len(served) = 0
  BY DEF ListingInit, Received
<1> QED
  BY <1>4, <1>5 DEF ListingInit, WalkInv, NotBegun, SameQuery, Halfway, Descends

LEMMA WalkInvHolds == WalkInv /\ [ListingNext]_listingVars => WalkInv'
<1> SUFFICES ASSUME WalkInv, [ListingNext]_listingVars PROVE WalkInv'
  OBVIOUS
<1>0. /\ ListTypes /\ row \in [Ids -> Rows] /\ IsFiniteSet(Committed) /\ now \in Nat
      /\ scope \in {"all", "users"} /\ Committed \subseteq Ids
  BY DEF WalkInv, ListTypes, Committed
<1>1. CASE Tick \/ UNCHANGED listingVars
  <2>1. /\ row' = row /\ kind' = kind /\ client' = client /\ kept' = kept /\ scope' = scope
        /\ now' \in Nat
    BY <1>0, <1>1 DEF Tick, Others, listingVars
  <2>2. Committed' = Committed
    BY <2>1 DEF Committed
  <2>3. \A r \in Committed : row'[r].st = "committed" /\ row'[r].tag = row[r].tag
    BY <2>1 DEF Committed
  <2> QED BY <1>0, <2>1, <2>2, <2>3, ViewUnmoved, OthersKeepWalk
<1>2. ASSUME NEW r \in Ids, NEW tag \in Tags, Insert(r, tag) PROVE WalkInv'
  <2>1. /\ row[r].st = "absent" /\ kind' = kind /\ client' = client /\ kept' = kept
        /\ scope' = scope /\ now' = now
        /\ row' = [row EXCEPT ![r] = [st |-> "flight", at |-> now, tag |-> tag]]
    BY <1>2 DEF Insert, Others
  <2>2. row' \in [Ids -> Rows]
    BY <1>0, <2>1 DEF Rows
  <2>3. \A x \in Ids \ {r} : row'[x] = row[x]
    BY <1>0, <2>1
  <2>4. row'[r].st = "flight"
    BY <1>0, <2>1
  <2>5. Committed' = Committed
    BY <2>1, <2>3, <2>4 DEF Committed
  <2>6. \A x \in Committed : row'[x].st = "committed" /\ row'[x] = row[x]
    BY <2>1, <2>3 DEF Committed
  <2> QED BY <1>0, <2>1, <2>2, <2>5, <2>6, ViewUnmoved, OthersKeepWalk
<1>3. ASSUME NEW r \in Ids, NEW tag \in Tags, Retag(r, tag) PROVE WalkInv'
  <2>1. /\ row[r].st = "committed" /\ kind' = kind /\ client' = client
        /\ scope' = scope /\ now' = now
        /\ row' = [row EXCEPT ![r].tag = tag]
        /\ kept' = {x \in kept : /\ query.tag # Unset => row'[x].tag = query.tag
                                 /\ View = "users" => row'[x].tag = Shown}
    BY <1>3 DEF Retag, Others, View
  <2>2. row' \in [Ids -> Rows]
    BY <1>0, <2>1 DEF Rows
  <2>3. \A x \in Ids : row'[x].st = row[x].st /\ row'[x].at = row[x].at
    BY <1>0, <2>1 DEF Rows
  <2>4. Committed' = Committed
    BY <2>3 DEF Committed
  <2>5. \A x \in Committed : row'[x].st = "committed" /\ row'[x].at = row[x].at
    BY <2>3 DEF Committed
  <2>6. kept' \subseteq kept
    BY <2>1
  <2>7. \A x \in kept' : InView(x)'
    <3>1. query' = query /\ View' = View
      BY <2>1 DEF client, View
    <3>2. \A x : Source(x)' = Source(x)
      BY <2>1 DEF Source
    <3>3. ASSUME NEW x \in kept' PROVE x \in Filtered(query)'
      <4>1. x \in Filtered(query)
        BY <2>6, <3>3 DEF WalkInv, InView
      <4> QED BY <2>1, <2>4, <3>1, <3>2, <3>3, <4>1 DEF Filtered
    <3>4. ASSUME NEW x \in kept', kind = "users", View # "all" PROVE row'[x].tag = Shown
      <4>1. Len(served) >= 1 /\ Len(served) \in Nat
        BY <1>0, <2>6, <3>4 DEF WalkInv, NotBegun, ListTypes
      <4>2. served[1] \in (Queries \cup LogQueries) \X {"all", "users"}
        BY <1>0, <4>1 DEF ListTypes
      <4>3. View = "users"
        BY <3>4, <4>2 DEF View
      <4> QED BY <2>1, <3>4, <4>3
    <3> QED BY <2>1, <3>1, <3>3, <3>4 DEF InView
  <2> QED BY <1>0, <2>1, <2>2, <2>4, <2>5, <2>6, <2>7, OthersKeepWalk
<1>4. ASSUME NEW r \in Ids, Commit(r) PROVE WalkInv'
  <2>1. /\ row[r].st = "flight" /\ kind' = kind /\ client' = client /\ kept' = kept
        /\ scope' = scope /\ now' = now
        /\ row' = [row EXCEPT ![r].st = "committed"]
    BY <1>4 DEF Commit, Others
  <2>2. row' \in [Ids -> Rows]
    BY <1>0, <2>1 DEF Rows
  <2>3. /\ \A x \in Ids \ {r} : row'[x] = row[x]
        /\ row'[r].st = "committed"
    BY <1>0, <2>1 DEF Rows
  <2>4. Committed' = Committed \cup {r}
    BY <2>3 DEF Committed
  <2>5. IsFiniteSet(Committed')
    BY <1>0, <2>4, FS_AddElement
  <2>6. \A x \in Committed : row'[x].st = "committed" /\ row'[x] = row[x]
    BY <2>1, <2>3 DEF Committed
  <2> QED BY <1>0, <2>1, <2>2, <2>5, <2>6, ViewUnmoved, OthersKeepWalk
<1>5. CASE ChangeScope
  <2>1. /\ row' = row /\ kind' = kind /\ client' = client /\ kept' = kept /\ now' = now
        /\ kind = "users" /\ scope' \in {"all", "users"}
    BY <1>5 DEF ChangeScope
  <2>2. Committed' = Committed
    BY <2>1 DEF Committed
  <2>3. \A r \in Committed : row'[r].st = "committed" /\ row'[r].tag = row[r].tag
    BY <2>1 DEF Committed
  <2> QED BY <1>0, <2>1, <2>2, <2>3, ViewUnmoved, OthersKeepWalk
<1>6. ASSUME Refuse, cursor # Unset PROVE WalkInv'
  <2>1. /\ UNCHANGED <<kind, row, now, scope, query, cursor, pages, served, kept>>
        /\ phase' = "refused"
    BY <1>6 DEF Refuse
  <2>2. /\ \A q, r : Precedes(q, r)' <=> Precedes(q, r)
        /\ Committed' = Committed /\ \A q : Filtered(q)' = Filtered(q)
    BY <2>1, SameOrder
  <2>3. ListTypes' /\ Halfway'
    BY <2>1, <2>2 DEF WalkInv, ListTypes, Halfway
  <2>7. NotBegun' /\ SameQuery'
    BY <1>6, <2>1 DEF WalkInv, NotBegun, SameQuery, View
  <2>4. Descends'
    BY <2>1, <2>2 DEF WalkInv, Descends
  <2>5. Received' = Received
    BY <2>1 DEF Received
  <2>6. \A r \in kept' : InView(r)'
    BY <2>1, <2>2 DEF WalkInv, InView, View
  <2> QED BY <2>1, <2>2, <2>3, <2>4, <2>5, <2>6, <2>7 DEF WalkInv
<1>8. phase = "open" => /\ kind = "active" => query = ActiveOnly
                        /\ kind # "users" => scope = View
  BY <1>0 DEF WalkInv, Halfway, ListTypes
<1>7. ASSUME NEW limit \in Limits, FetchActive(limit) PROVE WalkInv'
  <2>1. /\ kind = "active" /\ phase \in {"new", "open"}
        /\ AnswerPage(ActiveOnly, ListActive(ActiveOnly, cursor, limit), limit, Unset)
    BY <1>7 DEF FetchActive, Asks
  <2>2. ListActive(ActiveOnly, cursor, limit) = FirstRows(Ahead(ActiveOnly), limit + 1)
    BY <2>1, TableReads DEF ListActive
  <2>3. ActiveOnly \in Queries \cup LogQueries /\ Unset \in Prints
    BY TagsAssumption DEF ActiveOnly, Queries, Prints
  <2>4. phase = "open" => ActiveOnly = query /\ scope = View
    BY <1>8, <2>1
  <2> QED BY <2>1, <2>2, <2>3, <2>4, PageStep
<1>9. ASSUME NEW limit \in Limits, NEW q \in Queries, FetchRequests(limit, q) PROVE WalkInv'
  <2>1. /\ kind = "requests" /\ phase \in {"new", "open"} /\ (phase = "open" => q = query)
        /\ AnswerPage(q, ListRequests(q, cursor, limit), limit, Unset)
    BY <1>9 DEF FetchRequests, Asks
  <2>2. ListRequests(q, cursor, limit) = FirstRows(Ahead(q), limit + 1)
    BY <2>1, TableReads DEF ListRequests
  <2>3. q \in Queries \cup LogQueries /\ Unset \in Prints
    BY DEF Prints
  <2>4. phase = "open" => q = query /\ scope = View
    BY <1>8, <2>1
  <2> QED BY <2>1, <2>2, <2>3, <2>4, PageStep
<1>10. ASSUME NEW limit \in Limits, NEW q \in Queries, FetchUsers(limit, q) PROVE WalkInv'
  <2>1. kind = "users" /\ phase \in {"new", "open"}
    BY <1>10 DEF FetchUsers, Asks
  <2>2. CASE cursor # Unset /\ cursor.print # UserFingerprint(q)
    BY <1>6, <1>10, <2>2 DEF FetchUsers
  <2>3. CASE ~(cursor # Unset /\ cursor.print # UserFingerprint(q))
    <3>1. AnswerPage(q, ListUsers(q, cursor, limit), limit, UserFingerprint(q))
      BY <1>10, <2>3 DEF FetchUsers
    <3>2. ListUsers(q, cursor, limit) = FirstRows(Ahead(q), limit + 1)
      BY <2>1, TableReads
    <3>3. q \in Queries \cup LogQueries /\ UserFingerprint(q) \in Prints
      BY <1>0 DEF Prints, UserFingerprint
    <3>4. phase = "open" => q = query /\ scope = View
      <4> SUFFICES ASSUME phase = "open" PROVE q = query /\ scope = View
        OBVIOUS
      <4>1. cursor # Unset /\ cursor.print = <<query, View>>
        BY <2>1 DEF WalkInv, Halfway, CursorFits
      <4>2. cursor.print = <<q, scope>>
        BY <2>3, <4>1 DEF UserFingerprint
      <4> QED BY <4>1, <4>2
    <3>5. UserFingerprint(q) = <<q, scope>>
      BY DEF UserFingerprint
    <3> QED BY <2>1, <3>1, <3>2, <3>3, <3>4, <3>5, PageStep
  <2> QED BY <2>2, <2>3
<1>11. ASSUME NEW limit \in Limits, NEW q \in LogQueries, FetchLogs(limit, q) PROVE WalkInv'
  <2>1. kind = "audit" /\ phase \in {"new", "open"}
    BY <1>11 DEF FetchLogs, Asks
  <2>2. CASE cursor # Unset /\ cursor.print # LogFingerprint(q)
    BY <1>6, <1>11, <2>2 DEF FetchLogs
  <2>3. CASE ~(cursor # Unset /\ cursor.print # LogFingerprint(q))
    <3>1. AnswerPage(q, ListLogs(q, cursor, limit), limit, LogFingerprint(q))
      BY <1>11, <2>3 DEF FetchLogs
    <3>2. ListLogs(q, cursor, limit) = FirstRows(Ahead(q), limit + 1)
      BY <2>1, LogsRead, LimitsAssumption
    <3>3. q \in Queries \cup LogQueries /\ LogFingerprint(q) \in Prints
      BY DEF Prints, LogFingerprint
    <3>4. phase = "open" => q = query /\ scope = View
      <4> SUFFICES ASSUME phase = "open" PROVE q = query /\ scope = View
        OBVIOUS
      <4>1. cursor # Unset /\ cursor.print = <<query, Unset>>
        BY <2>1 DEF WalkInv, Halfway, CursorFits
      <4>2. cursor.print = <<q, Unset>>
        BY <2>3, <4>1 DEF LogFingerprint
      <4> QED BY <1>8, <2>1, <4>1, <4>2
    <3>5. LogFingerprint(q) = <<q, Unset>>
      BY DEF LogFingerprint
    <3> QED BY <2>1, <3>1, <3>2, <3>3, <3>4, <3>5, PageStep
  <2> QED BY <2>2, <2>3
<1> QED
  BY <1>1, <1>2, <1>3, <1>4, <1>5, <1>7, <1>9, <1>10, <1>11 DEF ListingNext

\* The invariant of a walk holds in every state of a listing.
THEOREM WalkInvariant == ListingSpec => []WalkInv
BY WalkInvStarts, WalkInvHolds, PTL DEF ListingSpec

\* No page of a walk repeats a row, and a walk that reaches the end has shown
\* every row that matched from its first page on: whatever the page sizes,
\* however many log tables, rows and pages, and whatever other transactions
\* insert, commit or change in between.
THEOREM WalksStayComplete == ListingSpec => []WalksAreComplete
<1>1. WalkInv => WalksAreComplete
  BY DEF WalkInv, Descends, WalksAreComplete
<1> QED BY <1>1, WalkInvariant, PTL

\* The fingerprint in the cursor holds a walk to one set of filters and one
\* visibility, also when the caller's role changes and changes back.
THEOREM OneQueryStays == ListingSpec => []OneQueryPerWalk
<1>1. WalkInv => OneQueryPerWalk
  BY DEF WalkInv, SameQuery, OneQueryPerWalk
<1> QED BY <1>1, WalkInvariant, PTL

-----------------------------------------------------------------------------
(***************************************************************************)
(* The browser session, for any number of tabs and accounts.               *)
(*                                                                         *)
(* The inductive invariant: the lock's queue holds exactly the jobs that   *)
(* tabs have, each once, and only its head is past the wait.  A job past   *)
(* the wait runs in a tab that has seen the marker and was not started     *)
(* under an older one; since only the head publishes, the marker stays     *)
(* what it saw.  What a tab that has seen the marker holds, shows or was   *)
(* asked to do for the account it shows belongs to the marker's owner.     *)
(***************************************************************************)
Jobs == [op : Ops \cup {"none", "initialize", "synchronize"},
         pc : {"none", "waiting", "send", "refresh", "retry", "me"},
         then : {"none", "me", "send"}, account : Accounts \cup {None},
         expected : {"none", "current", "older"}, shown : Accounts \cup {None}]

Controllers == [status : {"closed", "loading", "anonymous", "authenticated", "blocked"},
                profile : Accounts \cup {None}, credential : Accounts \cup {None},
                seen : {"none", "current", "older"}, restore : BOOLEAN]

BrowserTypes ==
    /\ cookie \in {None} \cup [account : Accounts, token : {"good", "used", "dead"}]
    /\ marker \in {"none", "signed-in", "signed-out"}
    /\ tab \in [Tabs -> Controllers]
    /\ job \in [Tabs -> [Slots -> Jobs]]
    /\ owner \in Accounts \cup {None, Torn}

\* Those who hold the lock or wait for it.
LockQueue ==
    /\ lock \in Seq(Tabs \X Slots)
    /\ \A i, k \in 1..Len(lock) : lock[i] = lock[k] => i = k
    /\ \A t \in Tabs, s \in Slots :
          job[t][s].pc # "none" <=> \E i \in 1..Len(lock) : lock[i] = <<t, s>>
    /\ \A t \in Tabs, s \in Slots :
          job[t][s].pc \notin {"none", "waiting"} => Len(lock) >= 1 /\ lock[1] = <<t, s>>

\* A job j of a tab in state w, under a marker that stands for account ow.
JobOk(j, w, ow) ==
    /\ j.pc = "none" => j = NoJob
    /\ j.pc # "none" => j.op # "none"
    /\ j.pc = "send" /\ j.op \in SignIns => j.account \in Accounts
    /\ j.op \notin Ops => j.expected = "none"
    /\ j.pc \in {"refresh", "retry"} => j.then \in {"me", "send"} /\ j.op # "login"
    /\ j.op = "login" /\ j.pc \in {"waiting", "send"} => j.expected # "none"
    /\ j.pc \notin {"none", "waiting"} => w.seen = "current" /\ j.expected # "older"
    /\ j.expected = "current" => w.seen = "current"
    /\ ow # Torn /\ j.expected = "current" /\ j.shown # None => j.shown = ow
    /\ ow # Torn /\ j.pc = "me" => j.account = ow

\* A tab in state w.
ShownOk(w, ow) ==
    /\ w.seen = "none" => /\ w.credential = None
                          /\ w.status \in {"closed", "loading", "blocked"}
    /\ ow # Torn /\ w.seen = "current" =>
          /\ w.credential # None => w.credential = ow
          /\ w.status = "authenticated" => w.profile = ow

\* A tab in state w with jobs m and y, under a marker of kind mk.
TabOk(w, m, y, mk, ow) ==
    /\ JobOk(m, w, ow) /\ JobOk(y, w, ow) /\ ShownOk(w, ow)
    /\ y.op \in {"none", "synchronize"} /\ m.op # "synchronize"
    /\ w.status = "closed" => w.seen = "none" /\ m.pc = "none" /\ y.pc = "none"
    /\ m.expected = "current" => w.status # "loading"
    /\ y.pc # "none" => w.seen # "none"
    /\ w.status = "loading" =>
          m.pc # "none" \/ (y.pc # "none" /\ (w.seen = "older" \/ mk = "signed-in"))

TabInv(t) == TabOk(tab[t], job[t]["main"], job[t]["sync"], marker, owner)

CookieOk == owner # Torn => (cookie # None => cookie.account = owner)

SessionInv ==
    /\ BrowserTypes
    /\ LockQueue
    /\ CookieOk
    /\ \A t \in Tabs : TabInv(t)

\* Taking an entry out of a queue without duplicates.
LEMMA EntryRemoved ==
    ASSUME NEW E, NEW ws \in Seq(E), NEW k \in 1..Len(ws), NEW rest, rest = RemoveAt(ws, k)
    PROVE  /\ rest \in Seq(E) /\ Len(rest) = Len(ws) - 1
           /\ \A i \in 1..Len(rest) : rest[i] = ws[IF i < k THEN i ELSE i + 1]
<1>1. PICK a, b : a = SubSeq(ws, 1, k - 1) /\ b = SubSeq(ws, k + 1, Len(ws))
  OBVIOUS
<1>2. Len(ws) \in Nat /\ k \in Nat
  OBVIOUS
<1>3. a \in Seq(E) /\ Len(a) = k - 1 /\ \A i \in 1..k - 1 : a[i] = ws[i]
  BY <1>1, <1>2
<1>4. b \in Seq(E) /\ Len(b) = Len(ws) - k /\ \A i \in 1..Len(ws) - k : b[i] = ws[k + i]
  BY <1>1, <1>2
<1>5. rest = a \o b
  BY <1>1 DEF RemoveAt
<1>6. /\ rest \in Seq(E) /\ Len(rest) = Len(ws) - 1
      /\ \A i \in 1..Len(rest) : rest[i] = IF i <= k - 1 THEN a[i] ELSE b[i - (k - 1)]
  <2>1. /\ a \o b \in Seq(E) /\ Len(a \o b) = Len(a) + Len(b)
        /\ \A i \in 1..Len(a) + Len(b) :
              (a \o b)[i] = IF i <= Len(a) THEN a[i] ELSE b[i - Len(a)]
    BY <1>3, <1>4, ConcatProperties
  <2>2. Len(a) = k - 1 /\ Len(a) + Len(b) = Len(ws) - 1
    BY <1>2, <1>3, <1>4
  <2> QED BY <1>5, <2>1, <2>2
<1>7. ASSUME NEW i \in 1..Len(rest)
      PROVE  rest[i] = ws[IF i < k THEN i ELSE i + 1]
  <2>1. CASE i < k
    BY <2>1, <1>2, <1>3, <1>6
  <2>2. CASE ~(i < k)
    <3>1. rest[i] = b[i - (k - 1)] /\ i - (k - 1) \in 1..Len(ws) - k
      BY <2>2, <1>2, <1>6
    <3>2. b[i - (k - 1)] = ws[k + (i - (k - 1))]
      BY <3>1, <1>4, Zenon
    <3>3. k + (i - (k - 1)) = i + 1
      BY <1>2
    <3> QED BY <3>1, <3>2, <3>3, <2>2
  <2> QED BY <2>1, <2>2
<1> QED BY <1>6, <1>7

\* rest is ws without e.
TakenOut(E, ws, e, rest) ==
    /\ rest \in Seq(E)
    /\ \A i, k \in 1..Len(rest) : rest[i] = rest[k] => i = k
    /\ \A x \in E : (\E i \in 1..Len(rest) : rest[i] = x)
                      <=> x # e /\ \E i \in 1..Len(ws) : ws[i] = x
    /\ Len(ws) >= 1 /\ ws[1] # e => Len(rest) >= 1 /\ rest[1] = ws[1]

LEMMA WithoutEntry ==
    ASSUME NEW E, NEW ws \in Seq(E), NEW e,
           \A i, k \in 1..Len(ws) : ws[i] = ws[k] => i = k,
           NEW rest, rest = RemoveFirst(ws, e)
    PROVE  TakenOut(E, ws, e, rest)
<1>0. Len(ws) \in Nat
  OBVIOUS
<1>1. CASE ~ \E i \in 1..Len(ws) : ws[i] = e
  <2>1. rest = ws
    BY <1>1 DEF RemoveFirst
  <2> QED BY <1>1, <2>1 DEF TakenOut
<1>2. CASE \E i \in 1..Len(ws) : ws[i] = e
  <2>1. PICK p : p = SelectInSeq(ws, LAMBDA v : v = e)
    OBVIOUS
  <2>2. rest = RemoveAt(ws, p)
    BY <1>2, <2>1 DEF RemoveFirst
  <2>3. p \in 1..Len(ws) /\ ws[p] = e
    <3>1. PICK I : I = {i \in 1..Len(ws) : ws[i] = e}
      OBVIOUS
    <3>2. I # {} /\ I \subseteq Nat
      BY <1>0, <1>2, <3>1
    <3>3. p = Min(I)
      BY <2>1, <3>1, <3>2 DEF SelectInSeq
    <3>4. Min(I) \in I
      BY <3>2, LeastOfNaturals DEF Min
    <3> QED BY <3>1, <3>3, <3>4
  <2>4. /\ rest \in Seq(E) /\ Len(rest) = Len(ws) - 1
        /\ \A i \in 1..Len(rest) : rest[i] = ws[IF i < p THEN i ELSE i + 1]
    BY <2>2, <2>3, EntryRemoved
  <2>5. PICK at : at = [i \in 1..Len(rest) |-> IF i < p THEN i ELSE i + 1]
    OBVIOUS
  <2>6. /\ \A i \in 1..Len(rest) : at[i] \in 1..Len(ws) /\ at[i] # p /\ rest[i] = ws[at[i]]
        /\ \A i, k \in 1..Len(rest) : at[i] = at[k] => i = k
    BY <1>0, <2>3, <2>4, <2>5
  <2>7. \A i, k \in 1..Len(rest) : rest[i] = rest[k] => i = k
    BY <2>6
  <2>8. ASSUME NEW i \in 1..Len(ws), i # p PROVE \E k \in 1..Len(rest) : rest[k] = ws[i]
    <3>1. CASE i < p
      <4>1. i \in 1..Len(rest)
        BY <1>0, <2>3, <2>4, <3>1
      <4> QED BY <2>4, <3>1, <4>1
    <3>2. CASE ~(i < p)
      <4>1. i - 1 \in 1..Len(rest) /\ ~(i - 1 < p) /\ (i - 1) + 1 = i
        BY <1>0, <2>3, <2>4, <2>8, <3>2
      <4>2. rest[i - 1] = ws[(i - 1) + 1]
        BY <2>4, <4>1
      <4> QED BY <4>1, <4>2
    <3> QED BY <3>1, <3>2
  <2>9. ASSUME NEW x \in E
        PROVE  (\E i \in 1..Len(rest) : rest[i] = x)
                  <=> x # e /\ \E i \in 1..Len(ws) : ws[i] = x
    <3>1. ASSUME NEW i \in 1..Len(rest), rest[i] = x
          PROVE  x # e /\ \E k \in 1..Len(ws) : ws[k] = x
      BY <2>3, <2>6, <3>1
    <3>2. ASSUME x # e, NEW i \in 1..Len(ws), ws[i] = x
          PROVE  \E k \in 1..Len(rest) : rest[k] = x
      BY <2>3, <2>8, <3>2
    <3> QED BY <3>1, <3>2
  <2>10. ASSUME Len(ws) >= 1, ws[1] # e PROVE Len(rest) >= 1 /\ rest[1] = ws[1]
    <3>1. p > 1
      BY <1>0, <2>3, <2>10
    <3>2. 1 \in 1..Len(rest)
      BY <1>0, <2>3, <2>4, <3>1
    <3> QED BY <2>4, <3>1, <3>2
  <2> QED BY <2>4, <2>7, <2>9, <2>10 DEF TakenOut
<1> QED BY <1>1, <1>2

\* The jobs of the others stay where they are.
OthersStay(t, s) ==
    \A u \in Tabs, r \in Slots : <<u, r>> # <<t, s>> => job'[u][r].pc = job[u][r].pc

LEMMA QueueEnters ==
    ASSUME LockQueue, NEW t \in Tabs, NEW s \in Slots, job[t][s].pc = "none",
           lock' = Append(lock, <<t, s>>), job'[t][s].pc = "waiting", OthersStay(t, s)
    PROVE  LockQueue'
<1>1. lock \in Seq(Tabs \X Slots) /\ Len(lock) \in Nat /\ <<t, s>> \in Tabs \X Slots
  BY DEF LockQueue
<1>2. /\ lock' \in Seq(Tabs \X Slots) /\ Len(lock') = Len(lock) + 1
      /\ lock'[Len(lock) + 1] = <<t, s>>
      /\ \A i \in 1..Len(lock) : lock'[i] = lock[i]
  BY <1>1
<1>3. \A i \in 1..Len(lock) : lock[i] # <<t, s>>
  BY DEF LockQueue
<1>4. \A i \in 1..Len(lock') : i \in 1..Len(lock) \/ i = Len(lock) + 1
  BY <1>1, <1>2
<1>5. \A i, k \in 1..Len(lock') : lock'[i] = lock'[k] => i = k
  BY <1>2, <1>3, <1>4 DEF LockQueue
<1>6. ASSUME NEW u \in Tabs, NEW r \in Slots
      PROVE  job'[u][r].pc # "none" <=> \E i \in 1..Len(lock') : lock'[i] = <<u, r>>
  <2>1. CASE <<u, r>> = <<t, s>>
    <3>1. u = t /\ r = s /\ Len(lock) + 1 \in 1..Len(lock')
      BY <1>1, <1>2, <2>1
    <3> QED BY <1>2, <3>1
  <2>2. CASE <<u, r>> # <<t, s>>
    <3>1. job'[u][r].pc = job[u][r].pc
      BY <2>2 DEF OthersStay
    <3>2. (\E i \in 1..Len(lock') : lock'[i] = <<u, r>>)
             <=> \E i \in 1..Len(lock) : lock[i] = <<u, r>>
      <4>1. \A i \in 1..Len(lock) : i \in 1..Len(lock')
        BY <1>1, <1>2
      <4> QED BY <1>2, <1>4, <2>2, <4>1
    <3> QED BY <3>1, <3>2 DEF LockQueue
  <2> QED BY <2>1, <2>2
<1>7. ASSUME NEW u \in Tabs, NEW r \in Slots, job'[u][r].pc \notin {"none", "waiting"}
      PROVE  Len(lock') >= 1 /\ lock'[1] = <<u, r>>
  <2>1. <<u, r>> # <<t, s>>
    BY <1>7
  <2>2. Len(lock) >= 1 /\ lock[1] = <<u, r>>
    BY <1>7, <2>1 DEF OthersStay, LockQueue
  <2> QED BY <1>1, <1>2, <2>2
<1> QED BY <1>2, <1>5, <1>6, <1>7 DEF LockQueue

LEMMA QueueStays ==
    ASSUME LockQueue, NEW t \in Tabs, NEW s \in Slots, Holds(t, s), lock' = lock,
           job'[t][s].pc # "none", OthersStay(t, s)
    PROVE  LockQueue'
<1>1. lock \in Seq(Tabs \X Slots) /\ Len(lock) \in Nat /\ Len(lock) >= 1 /\ lock[1] = <<t, s>>
  BY DEF LockQueue, Holds
<1>2. ASSUME NEW u \in Tabs, NEW r \in Slots
      PROVE  /\ job'[u][r].pc # "none" <=> \E i \in 1..Len(lock') : lock'[i] = <<u, r>>
             /\ job'[u][r].pc \notin {"none", "waiting"} =>
                    Len(lock') >= 1 /\ lock'[1] = <<u, r>>
  <2>1. CASE <<u, r>> = <<t, s>>
    <3>1. u = t /\ r = s /\ 1 \in 1..Len(lock)
      BY <1>1, <2>1
    <3> QED BY <1>1, <3>1
  <2>2. CASE <<u, r>> # <<t, s>>
    BY <2>2 DEF LockQueue, OthersStay
  <2> QED BY <2>1, <2>2
<1> QED BY <1>2 DEF LockQueue

LEMMA QueueLeaves ==
    ASSUME LockQueue, NEW t \in Tabs, NEW s \in Slots, Holds(t, s), lock' = Tail(lock),
           job'[t][s].pc = "none", OthersStay(t, s)
    PROVE  LockQueue'
<1>1. /\ lock \in Seq(Tabs \X Slots) /\ Len(lock) \in Nat /\ Len(lock) >= 1
      /\ lock[1] = <<t, s>>
  BY DEF LockQueue, Holds
<1>2. /\ lock' \in Seq(Tabs \X Slots) /\ Len(lock') = Len(lock) - 1
      /\ \A i \in 1..Len(lock') : lock'[i] = lock[i + 1] /\ i + 1 \in 1..Len(lock)
  BY <1>1
<1>3. \A i, k \in 1..Len(lock') : lock'[i] = lock'[k] => i = k
  <2> SUFFICES ASSUME NEW i \in 1..Len(lock'), NEW k \in 1..Len(lock'), lock'[i] = lock'[k]
               PROVE  i = k
    OBVIOUS
  <2>1. i + 1 = k + 1
    BY <1>2 DEF LockQueue
  <2> QED BY <2>1
<1>4. \A i \in 1..Len(lock') : lock'[i] # <<t, s>>
  <2> SUFFICES ASSUME NEW i \in 1..Len(lock'), lock'[i] = <<t, s>> PROVE FALSE
    OBVIOUS
  <2>1. i + 1 \in 1..Len(lock) /\ 1 \in 1..Len(lock) /\ lock[i + 1] = lock[1]
    BY <1>1, <1>2
  <2>2. i + 1 = 1
    BY <2>1 DEF LockQueue
  <2> QED BY <1>2, <2>2
<1>5. ASSUME NEW u \in Tabs, NEW r \in Slots
      PROVE  /\ job'[u][r].pc # "none" <=> \E i \in 1..Len(lock') : lock'[i] = <<u, r>>
             /\ job'[u][r].pc \notin {"none", "waiting"} =>
                    Len(lock') >= 1 /\ lock'[1] = <<u, r>>
  <2>1. CASE <<u, r>> = <<t, s>>
    BY <1>4, <2>1
  <2>2. CASE <<u, r>> # <<t, s>>
    <3>1. job'[u][r].pc = job[u][r].pc
      BY <2>2 DEF OthersStay
    <3>2. (\E i \in 1..Len(lock') : lock'[i] = <<u, r>>)
             <=> \E i \in 1..Len(lock) : lock[i] = <<u, r>>
      <4>1. ASSUME NEW i \in 1..Len(lock), lock[i] = <<u, r>>
            PROVE  \E k \in 1..Len(lock') : lock'[k] = <<u, r>>
        <5>1. i # 1
          BY <1>1, <2>2, <4>1
        <5>2. i - 1 \in 1..Len(lock') /\ (i - 1) + 1 = i
          BY <1>1, <1>2, <5>1
        <5>3. lock'[i - 1] = lock[(i - 1) + 1]
          BY <1>2, <5>2
        <5> QED BY <4>1, <5>2, <5>3
      <4> QED BY <1>2, <4>1
    <3>3. job[u][r].pc \in {"none", "waiting"}
      BY <1>1, <2>2 DEF LockQueue
    <3> QED BY <3>1, <3>2, <3>3 DEF LockQueue
  <2> QED BY <2>1, <2>2
<1> QED BY <1>2, <1>3, <1>5 DEF LockQueue

LEMMA QueueWithdraws ==
    ASSUME LockQueue, NEW t \in Tabs, lock' = Withdrawn(t),
           \A s \in Slots : job'[t][s].pc = "none",
           \A u \in Tabs \ {t}, r \in Slots : job'[u][r] = job[u][r]
    PROVE  LockQueue'
<1>1. PICK mid : mid = RemoveFirst(lock, <<t, "main">>)
  OBVIOUS
<1>2. lock' = RemoveFirst(mid, <<t, "sync">>)
  BY <1>1 DEF Withdrawn
<1>3. /\ lock \in Seq(Tabs \X Slots) /\ Len(lock) \in Nat
      /\ \A i, k \in 1..Len(lock) : lock[i] = lock[k] => i = k
  BY DEF LockQueue
<1>4. TakenOut(Tabs \X Slots, lock, <<t, "main">>, mid)
  BY <1>1, <1>3, WithoutEntry
<1>5. TakenOut(Tabs \X Slots, mid, <<t, "sync">>, lock')
  <2>1. mid \in Seq(Tabs \X Slots) /\ \A i, k \in 1..Len(mid) : mid[i] = mid[k] => i = k
    BY <1>4 DEF TakenOut
  <2> QED BY <1>2, <2>1, WithoutEntry
<1>6. ASSUME NEW u \in Tabs, NEW r \in Slots
      PROVE  /\ job'[u][r].pc # "none" <=> \E i \in 1..Len(lock') : lock'[i] = <<u, r>>
             /\ job'[u][r].pc \notin {"none", "waiting"} =>
                    Len(lock') >= 1 /\ lock'[1] = <<u, r>>
  <2>1. CASE u = t
    <3>1. <<u, r>> = <<t, "main">> \/ <<u, r>> = <<t, "sync">>
      BY <2>1 DEF Slots
    <3>2. ~ \E i \in 1..Len(lock') : lock'[i] = <<u, r>>
      BY <1>4, <1>5, <3>1 DEF TakenOut
    <3> QED BY <2>1, <3>2
  <2>2. CASE u # t
    <3>1. <<u, r>> # <<t, "main">> /\ <<u, r>> # <<t, "sync">> /\ job'[u][r] = job[u][r]
      BY <2>2
    <3>2. (\E i \in 1..Len(lock') : lock'[i] = <<u, r>>)
             <=> \E i \in 1..Len(lock) : lock[i] = <<u, r>>
      BY <1>4, <1>5, <3>1 DEF TakenOut
    <3>3. job'[u][r].pc # "none" <=> \E i \in 1..Len(lock') : lock'[i] = <<u, r>>
      <4>1. job[u][r].pc # "none" <=> \E i \in 1..Len(lock) : lock[i] = <<u, r>>
        BY DEF LockQueue
      <4> QED BY <3>1, <3>2, <4>1
    <3>4. ASSUME job'[u][r].pc \notin {"none", "waiting"}
          PROVE  Len(lock') >= 1 /\ lock'[1] = <<u, r>>
      <4>1. Len(lock) >= 1 /\ lock[1] = <<u, r>>
        BY <3>1, <3>4 DEF LockQueue
      <4>2. Len(mid) >= 1 /\ mid[1] = <<u, r>>
        BY <1>4, <3>1, <4>1 DEF TakenOut
      <4> QED BY <1>5, <3>1, <4>2 DEF TakenOut
    <3> QED BY <3>3, <3>4
  <2> QED BY <2>1, <2>2
<1>7. lock' \in Seq(Tabs \X Slots) /\ \A i, k \in 1..Len(lock') : lock'[i] = lock'[k] => i = k
  BY <1>5 DEF TakenOut
<1> QED BY <1>6, <1>7 DEF LockQueue

-----------------------------------------------------------------------------
\* The parts of the controller, field by field.
LEMMA ObserveIs ==
    ASSUME NEW w \in Controllers, NEW v, v = Observe(w)
    PROVE  /\ v \in Controllers /\ v.seen = "current"
           /\ Changed(w) => /\ v.credential = None /\ v.profile = None
                            /\ v.restore = (marker = "signed-in")
                            /\ v.status = IF marker = "signed-in" THEN "loading" ELSE "anonymous"
           /\ ~Changed(w) => /\ v.status = w.status /\ v.profile = w.profile
                             /\ v.credential = w.credential /\ v.restore = w.restore
<1>1. CASE Changed(w)
  BY <1>1 DEF Observe, Clear, Controllers
<1>2. CASE ~Changed(w)
  BY <1>2 DEF Observe, Controllers
<1> QED BY <1>1, <1>2

LEMMA FailedIs ==
    ASSUME NEW w \in Controllers, NEW e \in {"blocked", "invalid", "other"},
           NEW v, v = Failed(w, e), w.status # "closed"
    PROVE  /\ v \in Controllers /\ v.seen = w.seen
           /\ v.status \notin {"loading", "closed"}
           /\ v.credential = None \/ v.credential = w.credential
           /\ v.status = "authenticated" => w.status = "authenticated" /\ v.profile = w.profile
           /\ e = "blocked" => v.status = "blocked" /\ v.credential = None
<1>1. CASE e = "blocked"
  BY <1>1 DEF Failed, Controllers
<1>2. CASE e = "invalid"
  BY <1>2 DEF Failed, Clear, Controllers
<1>3. CASE e = "other"
  BY <1>3 DEF Failed, Controllers
<1> QED BY <1>1, <1>2, <1>3

\* What a tab shows stays in order.
LEMMA ObserveShows ==
    ASSUME NEW w \in Controllers, NEW ow, ShownOk(w, ow)
    PROVE  ShownOk(Observe(w), ow)
<1>1. PICK v : v = Observe(w)
  OBVIOUS
<1>2. w.seen \in {"none", "current", "older"} /\ (Changed(w) <=> w.seen = "older")
  BY DEF Controllers, Changed
<1>3. /\ v.seen = "current"
      /\ Changed(w) => /\ v.credential = None
                       /\ v.status = IF marker = "signed-in" THEN "loading" ELSE "anonymous"
      /\ ~Changed(w) => /\ v.status = w.status /\ v.profile = w.profile
                        /\ v.credential = w.credential
  BY <1>1, ObserveIs
<1>4. v.status = "authenticated" => ~Changed(w) /\ w.seen = "current"
  BY <1>2, <1>3 DEF ShownOk
<1> QED BY <1>1, <1>2, <1>3, <1>4 DEF ShownOk

LEMMA FailureShows ==
    ASSUME NEW w \in Controllers, NEW e \in {"blocked", "invalid", "other"},
           w.status # "closed", NEW ow, ShownOk(w, ow), w.seen # "none" \/ e = "blocked"
    PROVE  ShownOk(Failed(w, e), ow)
<1>1. PICK v : v = Failed(w, e)
  OBVIOUS
<1>2. /\ v.seen = w.seen
      /\ v.status \notin {"loading", "closed"}
      /\ v.credential = None \/ v.credential = w.credential
      /\ v.status = "authenticated" => w.status = "authenticated" /\ v.profile = w.profile
      /\ e = "blocked" => v.status = "blocked" /\ v.credential = None
  BY <1>1, FailedIs
<1> QED BY <1>1, <1>2 DEF ShownOk

\* A job when the marker is replaced by another.
Late(j) == [j EXCEPT !.expected = Older(@)]

LEMMA LateIs ==
    ASSUME NEW j \in Jobs
    PROVE  /\ Late(j) \in Jobs
           /\ Late(j).pc = j.pc /\ Late(j).op = j.op
           /\ Late(j).expected # "current"
BY DEF Late, Older, Jobs

LEMMA LateOk ==
    ASSUME NEW j \in Jobs, NEW w, NEW ow, JobOk(j, w, ow), j.pc \in {"none", "waiting"},
           NEW v, NEW ow2
    PROVE  JobOk(Late(j), v, ow2)
<1>1. PICK l : l = Late(j)
  OBVIOUS
<1>2. /\ l.pc = j.pc /\ l.op = j.op /\ l.then = j.then
      /\ l.expected = Older(j.expected) /\ j.expected \in {"none", "current", "older"}
  BY <1>1 DEF Late, Jobs
<1>3. l.expected # "current" /\ (l.expected = "none" <=> j.expected = "none")
  BY <1>2 DEF Older
<1>4. j.pc = "none" => l = NoJob
  <2> SUFFICES ASSUME j.pc = "none" PROVE l = NoJob
    OBVIOUS
  <2>1. j = NoJob
    BY DEF JobOk
  <2> QED BY <1>1, <2>1 DEF Late, NoJob, Older
<1> QED BY <1>1, <1>2, <1>3, <1>4 DEF JobOk

LEMMA NoJobOk ==
    ASSUME NEW w, NEW ow
    PROVE  JobOk(NoJob, w, ow) /\ NoJob \in Jobs /\ NoJob.pc = "none"
           /\ NoJob.expected = "none" /\ NoJob.op = "none"
BY DEF JobOk, NoJob, Jobs, Ops, SignIns, Kept

LEMMA JobStaysOk ==
    ASSUME NEW j, NEW w, NEW ow, JobOk(j, w, ow),
           NEW v, v.seen \in {w.seen, "current"}, NEW ow2, ow2 \in {ow, Torn}
    PROVE  JobOk(j, v, ow2)
BY DEF JobOk

\* A tab that comes to rest: by an error, or with an answer.
LEMMA TabSettles ==
    ASSUME NEW w, NEW m, NEW y, NEW mk, NEW ow, TabOk(w, m, y, mk, ow),
           NEW v, v.seen \in {w.seen, "current"}, v.status \notin {"loading", "closed"},
           NEW ow2, ow2 \in {ow, Torn}, ShownOk(v, ow2)
    PROVE  /\ TabOk(v, m, y, mk, ow2)
           /\ TabOk(v, NoJob, y, mk, ow2)
           /\ TabOk(v, m, NoJob, mk, ow2)
<1>1. JobOk(m, v, ow2) /\ JobOk(y, v, ow2)
  BY JobStaysOk DEF TabOk
<1>2. JobOk(NoJob, v, ow2) /\ NoJob.pc = "none" /\ NoJob.expected = "none" /\ NoJob.op = "none"
  BY NoJobOk
<1>3. /\ y.op \in {"none", "synchronize"} /\ (y.pc # "none" => v.seen # "none")
      /\ m.op # "synchronize"
  BY DEF TabOk
<1> QED BY <1>1, <1>2, <1>3 DEF TabOk

\* The tabs that did not publish the marker.
LEMMA TabIsLate ==
    ASSUME NEW w \in Controllers, NEW m \in Jobs, NEW y \in Jobs, NEW mk, NEW ow,
           TabOk(w, m, y, mk, ow),
           m.pc \in {"none", "waiting"}, y.pc \in {"none", "waiting"},
           NEW v, v = [w EXCEPT !.seen = Older(@)], NEW mk2, NEW ow2
    PROVE  TabOk(v, Late(m), Late(y), mk2, ow2)
<1>1. /\ v.seen = Older(w.seen) /\ v.status = w.status /\ v.credential = w.credential
      /\ w.seen \in {"none", "current", "older"}
  BY DEF Controllers
<1>2. v.seen # "current" /\ (v.seen = "none" <=> w.seen = "none")
  BY <1>1 DEF Older
<1>3. JobOk(Late(m), v, ow2) /\ JobOk(Late(y), v, ow2)
  BY LateOk DEF TabOk
<1>4. /\ Late(m).pc = m.pc /\ Late(y).pc = y.pc /\ Late(y).op = y.op /\ Late(m).op = m.op
      /\ Late(m).expected # "current"
  BY LateIs
<1>5. ShownOk(v, ow2)
  BY <1>1, <1>2 DEF TabOk, ShownOk
<1>6. v.status = "loading" => m.pc # "none" \/ (y.pc # "none" /\ v.seen = "older")
  <2>1. /\ w.status = "loading" => m.pc # "none" \/ y.pc # "none"
        /\ y.pc # "none" => w.seen # "none"
    BY DEF TabOk
  <2>2. w.seen # "none" => v.seen = "older"
    BY <1>1 DEF Older
  <2> QED BY <1>1, <2>1, <2>2
<1> QED BY <1>1, <1>2, <1>3, <1>4, <1>5, <1>6 DEF TabOk

\* The tab that published it; c is the access token it got with the answer.
Published(w, kd, c) ==
    [Clear(w) EXCEPT !.seen = "current", !.restore = FALSE, !.credential = c,
                     !.status = IF kd = "signed-in" THEN "loading" ELSE "anonymous"]

LEMMA PublishedIs ==
    ASSUME NEW w \in Controllers, NEW kd, NEW c \in Accounts \cup {None}, NEW v,
           v = Published(w, kd, c), NEW ow, c \in {None, ow}
    PROVE  /\ v \in Controllers /\ v.seen = "current" /\ ShownOk(v, ow)
           /\ v.status = IF kd = "signed-in" THEN "loading" ELSE "anonymous"
<1>1. /\ v \in Controllers /\ v.seen = "current" /\ v.credential = c
      /\ v.status = IF kd = "signed-in" THEN "loading" ELSE "anonymous"
  BY DEF Published, Clear, Controllers
<1> QED BY <1>1 DEF ShownOk

LEMMA PublisherEnds ==
    ASSUME NEW w \in Controllers, NEW m \in Jobs, NEW y \in Jobs, NEW mk, NEW ow,
           TabOk(w, m, y, mk, ow), NEW v, v = Published(w, "signed-out", None)
    PROVE  /\ y.pc \in {"none", "waiting"} => TabOk(v, NoJob, Late(y), "signed-out", None)
           /\ m.pc \in {"none", "waiting"} => TabOk(v, Late(m), NoJob, "signed-out", None)
<1>1. v.seen = "current" /\ ShownOk(v, None) /\ v.status = "anonymous"
  BY PublishedIs
<1>2. /\ JobOk(NoJob, v, None) /\ NoJob.pc = "none" /\ NoJob.expected = "none"
      /\ NoJob.op = "none"
  BY NoJobOk
<1>3. /\ Late(y).op \in {"none", "synchronize"} /\ Late(m).expected # "current"
      /\ Late(m).op # "synchronize"
  BY LateIs DEF TabOk
<1>4. y.pc \in {"none", "waiting"} => JobOk(Late(y), v, None)
  BY LateOk DEF TabOk
<1>5. m.pc \in {"none", "waiting"} => JobOk(Late(m), v, None)
  BY LateOk DEF TabOk
<1> QED BY <1>1, <1>2, <1>3, <1>4, <1>5 DEF TabOk

LEMMA PublisherGoesOn ==
    ASSUME NEW w \in Controllers, NEW m \in Jobs, NEW y \in Jobs, NEW mk, NEW ow,
           TabOk(w, m, y, mk, ow), y.pc \in {"none", "waiting"},
           NEW a \in Accounts, NEW c \in {None, a}, NEW v, v = Published(w, "signed-in", c),
           NEW j, JobOk(j, v, a), j.pc # "none", j.expected = "none", j.op # "synchronize"
    PROVE  TabOk(v, j, Late(y), "signed-in", a)
<1>1. v.seen = "current" /\ ShownOk(v, a) /\ v.status = "loading"
  BY PublishedIs
<1>2. JobOk(Late(y), v, a) /\ Late(y).op \in {"none", "synchronize"}
  BY LateOk, LateIs DEF TabOk
<1> QED BY <1>1, <1>2 DEF TabOk

\* A job that goes on.
LEMMA MainGoesOn ==
    ASSUME NEW w, NEW m, NEW y, NEW mk, NEW ow, TabOk(w, m, y, mk, ow),
           NEW v, v.seen = "current", v.status # "closed", ShownOk(v, ow),
           NEW j, JobOk(j, v, ow), j.pc # "none", j.op # "synchronize",
           j.expected = "current" => v.status # "loading"
    PROVE  TabOk(v, j, y, mk, ow)
<1>1. JobOk(y, v, ow)
  BY JobStaysOk DEF TabOk
<1> QED BY <1>1 DEF TabOk

LEMMA SyncGoesOn ==
    ASSUME NEW w, NEW m, NEW y, NEW mk, NEW ow, TabOk(w, m, y, mk, ow),
           NEW v, v.seen = "current", v.status # "closed", ShownOk(v, ow),
           NEW j, JobOk(j, v, ow), j.pc # "none", j.op \in {"none", "synchronize"},
           m.expected = "current" => v.status # "loading",
           v.status = "loading" => m.pc # "none" \/ mk = "signed-in"
    PROVE  TabOk(v, m, j, mk, ow)
<1>1. JobOk(m, v, ow)
  BY JobStaysOk DEF TabOk
<1> QED BY <1>1 DEF TabOk

\* observe does not disturb a job that waits under the current marker.
LEMMA ObserveLeavesMain ==
    ASSUME NEW w \in Controllers, NEW m, NEW y, NEW ow, TabOk(w, m, y, marker, ow)
    PROVE  m.expected = "current" => Observe(w).status # "loading"
<1> SUFFICES ASSUME m.expected = "current" PROVE Observe(w).status # "loading"
  OBVIOUS
<1>1. w.seen = "current" /\ w.status # "loading"
  BY DEF TabOk, JobOk
<1>2. Observe(w).status = w.status
  BY <1>1, ObserveIs DEF Changed
<1> QED BY <1>1, <1>2

\* synchronize without a job to add.
LEMMA TabObserves ==
    ASSUME NEW w \in Controllers, NEW m, NEW y, NEW ow, TabOk(w, m, y, marker, ow),
           w.status # "closed",
           Observe(w).restore /\ marker = "signed-in" => y.pc # "none"
    PROVE  TabOk(Observe(w), m, y, marker, ow)
<1>1. PICK v : v = Observe(w)
  OBVIOUS
<1>2. /\ v.seen = "current"
      /\ Changed(w) => /\ v.restore = (marker = "signed-in")
                       /\ v.status = IF marker = "signed-in" THEN "loading" ELSE "anonymous"
      /\ ~Changed(w) => v.status = w.status
      /\ Changed(w) <=> w.seen = "older"
  BY <1>1, ObserveIs DEF Changed
<1>3. ShownOk(v, ow)
  BY <1>1, ObserveShows DEF TabOk
<1>4. JobOk(m, v, ow) /\ JobOk(y, v, ow)
  BY <1>2, JobStaysOk DEF TabOk
<1>5. m.expected = "current" => v.status # "loading"
  BY <1>1, ObserveLeavesMain
<1>6. v.status = "loading" => m.pc # "none" \/ (y.pc # "none" /\ marker = "signed-in")
  <2>1. CASE Changed(w)
    BY <1>1, <1>2, <2>1
  <2>2. CASE ~Changed(w)
    BY <1>2, <2>2 DEF TabOk
  <2> QED BY <2>1, <2>2
<1>7. v.status # "closed" /\ y.op \in {"none", "synchronize"} /\ m.op # "synchronize"
  BY <1>2 DEF TabOk
<1> QED BY <1>1, <1>2, <1>3, <1>4, <1>5, <1>6, <1>7 DEF TabOk

-----------------------------------------------------------------------------
\* What the steps of the lock's holder do to the jobs.
LEMMA JobsSet ==
    ASSUME job \in [Tabs -> [Slots -> Jobs]], NEW t \in Tabs, NEW s \in Slots, NEW j \in Jobs,
           job' = [job EXCEPT ![t][s] = j]
    PROVE  /\ job' \in [Tabs -> [Slots -> Jobs]] /\ job'[t][s] = j
           /\ \A r \in Slots \ {s} : job'[t][r] = job[t][r]
           /\ \A u \in Tabs \ {t} : job'[u] = job[u]
           /\ OthersStay(t, s)
<1>1. /\ job' \in [Tabs -> [Slots -> Jobs]] /\ job'[t][s] = j
      /\ \A r \in Slots \ {s} : job'[t][r] = job[t][r]
      /\ \A u \in Tabs \ {t} : job'[u] = job[u]
  OBVIOUS
<1>2. \A u \in Tabs, r \in Slots : <<u, r>> # <<t, s>> => job'[u][r].pc = job[u][r].pc
  BY <1>1
<1> QED BY <1>1, <1>2 DEF OthersStay

LEMMA JobsLate ==
    ASSUME job \in [Tabs -> [Slots -> Jobs]], NEW t \in Tabs, NEW s \in Slots, NEW j \in Jobs,
           job' = [Outdated EXCEPT ![t][s] = j]
    PROVE  /\ job' \in [Tabs -> [Slots -> Jobs]] /\ job'[t][s] = j
           /\ \A r \in Slots \ {s} : job'[t][r] = Late(job[t][r])
           /\ \A u \in Tabs \ {t}, r \in Slots : job'[u][r] = Late(job[u][r])
           /\ OthersStay(t, s)
<1>1. PICK late : late = Outdated
  OBVIOUS
<1>2. \A u \in Tabs, r \in Slots : late[u][r] = Late(job[u][r])
  BY <1>1 DEF Outdated, Late
<1>3. \A u \in Tabs, r \in Slots : late[u][r] \in Jobs /\ late[u][r].pc = job[u][r].pc
  BY <1>2, LateIs
<1>4. late \in [Tabs -> [Slots -> Jobs]]
  BY <1>1, <1>3 DEF Outdated
<1>5. /\ job' \in [Tabs -> [Slots -> Jobs]] /\ job'[t][s] = j
      /\ \A r \in Slots \ {s} : job'[t][r] = late[t][r]
      /\ \A u \in Tabs \ {t} : job'[u] = late[u]
  BY <1>1, <1>4
<1>6. \A u \in Tabs, r \in Slots : <<u, r>> # <<t, s>> => job'[u][r].pc = job[u][r].pc
  BY <1>3, <1>5
<1> QED BY <1>2, <1>5, <1>6 DEF OthersStay

LEMMA OthersWait ==
    ASSUME LockQueue, NEW t \in Tabs, NEW s \in Slots, Holds(t, s),
           NEW u \in Tabs, NEW r \in Slots, <<u, r>> # <<t, s>>
    PROVE  job[u][r].pc \in {"none", "waiting"}
<1>1. lock[1] = <<t, s>>
  BY DEF LockQueue, Holds
<1> QED BY <1>1 DEF LockQueue

LEMMA HolderHasJob ==
    ASSUME LockQueue, NEW t \in Tabs, NEW s \in Slots, Holds(t, s)
    PROVE  job[t][s].pc # "none"
<1>1. Len(lock) \in Nat /\ Len(lock) >= 1 /\ lock[1] = <<t, s>>
  BY DEF LockQueue, Holds
<1>2. 1 \in 1..Len(lock)
  BY <1>1
<1> QED BY <1>1, <1>2 DEF LockQueue

\* A step of one tab that leaves the marker alone.
LEMMA OneTabMoves ==
    ASSUME SessionInv, NEW t \in Tabs, BrowserTypes', LockQueue', CookieOk',
           \A u \in Tabs \ {t} : tab'[u] = tab[u] /\ job'[u] = job[u],
           marker' = marker, owner' \in {owner, Torn}, TabInv(t)'
    PROVE  SessionInv'
<1>1. ASSUME NEW u \in Tabs \ {t} PROVE TabInv(u)'
  <2>1. PICK w, m, y : w = tab[u] /\ m = job[u]["main"] /\ y = job[u]["sync"]
    OBVIOUS
  <2>2. TabOk(w, m, y, marker, owner)
    BY <1>1, <2>1 DEF SessionInv, TabInv
  <2>3. JobOk(m, w, owner') /\ JobOk(y, w, owner')
    BY <2>2, JobStaysOk DEF TabOk
  <2>4. ShownOk(w, owner')
    BY <2>2 DEF TabOk, ShownOk
  <2>5. TabOk(w, m, y, marker, owner')
    BY <2>2, <2>3, <2>4 DEF TabOk
  <2> QED BY <1>1, <2>1, <2>5 DEF TabInv
<1>2. \A u \in Tabs : TabInv(u)'
  BY <1>1
<1> QED BY <1>2 DEF SessionInv

\* A step that replaces it.
LEMMA MarkerMoves ==
    ASSUME SessionInv, NEW t \in Tabs, NEW s \in Slots, Holds(t, s),
           BrowserTypes', LockQueue', CookieOk',
           \A u \in Tabs \ {t} : tab'[u] = [tab[u] EXCEPT !.seen = Older(@)],
           \A u \in Tabs \ {t}, r \in Slots : job'[u][r] = Late(job[u][r]),
           TabInv(t)'
    PROVE  SessionInv'
<1>1. ASSUME NEW u \in Tabs \ {t} PROVE TabInv(u)'
  <2>1. PICK w, m, y : w = tab[u] /\ m = job[u]["main"] /\ y = job[u]["sync"]
    OBVIOUS
  <2>2. w \in Controllers /\ m \in Jobs /\ y \in Jobs
    BY <1>1, <2>1 DEF SessionInv, BrowserTypes, Slots
  <2>3. TabOk(w, m, y, marker, owner)
    BY <1>1, <2>1 DEF SessionInv, TabInv
  <2>4. m.pc \in {"none", "waiting"} /\ y.pc \in {"none", "waiting"}
    BY <1>1, <2>1, OthersWait DEF SessionInv, Slots
  <2>5. tab'[u] = [w EXCEPT !.seen = Older(@)]
    BY <1>1, <2>1
  <2>6. TabOk(tab'[u], Late(m), Late(y), marker', owner')
    BY <2>2, <2>3, <2>4, <2>5, TabIsLate
  <2>7. job'[u]["main"] = Late(m) /\ job'[u]["sync"] = Late(y)
    BY <1>1, <2>1 DEF Slots
  <2> QED BY <2>6, <2>7 DEF TabInv
<1>2. \A u \in Tabs : TabInv(u)'
  BY <1>1
<1> QED BY <1>2 DEF SessionInv

\* Nothing the server did to a request without a marker gives the cookies to
\* another account.
LEMMA CookieKeptProcessed ==
    ASSUME BrowserTypes, CookieOk, NEW j \in Jobs
    PROVE  /\ Processed(j) \in {None} \cup [account : Accounts, token : {"good", "used", "dead"}]
           /\ owner # Torn /\ Processed(j) # None => Processed(j).account = owner
<1>1. CASE cookie = None
  BY <1>1 DEF Processed, Usable, Conflict, Token, Ended, EndedFor, MayChange
<1>2. CASE cookie # None
  <2>1. cookie \in [account : Accounts, token : {"good", "used", "dead"}]
    BY <1>2 DEF BrowserTypes
  <2>2. PICK d : d = [cookie EXCEPT !.token = "dead"]
    OBVIOUS
  <2>3. PICK e : e = [cookie EXCEPT !.token = "used"]
    OBVIOUS
  <2>4. /\ d \in [account : Accounts, token : {"good", "used", "dead"}]
        /\ e \in [account : Accounts, token : {"good", "used", "dead"}]
        /\ d.account = cookie.account /\ e.account = cookie.account
    BY <2>1, <2>2, <2>3
  <2>5. Ended(cookie) = d /\ EndedFor(j.account) \in {cookie, d}
    BY <1>2, <2>2 DEF Ended, EndedFor
  <2>6. Processed(j) \in {cookie, d, e}
    BY <2>3, <2>5 DEF Processed
  <2> QED BY <1>2, <2>1, <2>4, <2>6 DEF CookieOk
<1> QED BY <1>1, <1>2

LEMMA CookieKeptStored ==
    ASSUME BrowserTypes, CookieOk, NEW j \in Jobs,
           j.pc = "send" /\ j.op \in SignIns => j.account \in Accounts
    PROVE  /\ Stored(j) \in {None} \cup [account : Accounts, token : {"good", "used", "dead"}]
           /\ Unpublished(j) \in {owner, Torn}
           /\ Unpublished(j) # Torn /\ Stored(j) # None => Stored(j).account = owner
<1>1. CASE j.pc = "send" /\ j.op \in SignIns
  BY <1>1 DEF Stored, Session, Unpublished
<1>2. CASE ~(j.pc = "send" /\ j.op \in SignIns)
  <2>1. Unpublished(j) = owner
    BY <1>2 DEF Unpublished
  <2>2. CASE j.pc = "send" /\ j.op = "password" /\ MayChange(j)
    <3>1. cookie # None /\ cookie.account = j.account
      BY <2>2 DEF MayChange, Usable, Token
    <3>2. Stored(j) = Session(j.account)
      BY <1>2, <2>2 DEF Stored, SignIns
    <3>3. j.account \in Accounts
      BY <3>1 DEF BrowserTypes
    <3> QED BY <2>1, <3>1, <3>2, <3>3 DEF Session, CookieOk
  <2>3. CASE ~(j.pc = "send" /\ j.op = "password" /\ MayChange(j))
    <3>1. Stored(j) \in {cookie, None}
      BY <1>2, <2>3 DEF Stored
    <3> QED BY <2>1, <3>1 DEF CookieOk, BrowserTypes
  <2> QED BY <2>2, <2>3
<1> QED BY <1>1, <1>2

-----------------------------------------------------------------------------
\* The values of a tab and of its two slots, before a step.
LEMMA TabFacts ==
    ASSUME SessionInv, NEW t \in Tabs, NEW s \in Slots
    PROVE  /\ tab \in [Tabs -> Controllers] /\ job \in [Tabs -> [Slots -> Jobs]]
           /\ tab[t] \in Controllers /\ job[t][s] \in Jobs
           /\ job[t]["main"] \in Jobs /\ job[t]["sync"] \in Jobs
           /\ TabOk(tab[t], job[t]["main"], job[t]["sync"], marker, owner)
           /\ JobOk(job[t][s], tab[t], owner) /\ ShownOk(tab[t], owner)
           /\ job[t][s].pc # "none" => tab[t].status # "closed"
           /\ job[t][s].pc \notin {"none", "waiting"} => tab[t].seen = "current"
           /\ s = "main" \/ s = "sync"
<1>1. /\ tab \in [Tabs -> Controllers] /\ job \in [Tabs -> [Slots -> Jobs]]
      /\ tab[t] \in Controllers /\ job[t][s] \in Jobs
      /\ job[t]["main"] \in Jobs /\ job[t]["sync"] \in Jobs
      /\ s = "main" \/ s = "sync"
  BY DEF SessionInv, BrowserTypes, Slots
<1>2. TabOk(tab[t], job[t]["main"], job[t]["sync"], marker, owner)
  BY DEF SessionInv, TabInv
<1>3. JobOk(job[t][s], tab[t], owner) /\ ShownOk(tab[t], owner)
  BY <1>1, <1>2 DEF TabOk
<1>4. job[t][s].pc # "none" => tab[t].status # "closed"
  BY <1>1, <1>2 DEF TabOk
<1> QED BY <1>1, <1>2, <1>3, <1>4 DEF JobOk

\* The holder leaves and its tab comes to rest in state v.
LEMMA QuitStep ==
    ASSUME SessionInv, NEW t \in Tabs, NEW s \in Slots, Holds(t, s), Leave(t, s),
           NEW v \in Controllers, tab' = [tab EXCEPT ![t] = v],
           v.seen \in {tab[t].seen, "current"}, v.status \notin {"loading", "closed"},
           marker' = marker, owner' \in {owner, Torn}, ShownOk(v, owner'), CookieOk',
           cookie' \in {None} \cup [account : Accounts, token : {"good", "used", "dead"}]
    PROVE  SessionInv'
<1>1. /\ tab \in [Tabs -> Controllers] /\ job \in [Tabs -> [Slots -> Jobs]]
      /\ TabOk(tab[t], job[t]["main"], job[t]["sync"], marker, owner)
      /\ s = "main" \/ s = "sync"
  BY TabFacts
<1>2. tab' \in [Tabs -> Controllers] /\ tab'[t] = v /\ \A u \in Tabs \ {t} : tab'[u] = tab[u]
  BY <1>1
<1>3. NoJob \in Jobs /\ NoJob.pc = "none"
  BY NoJobOk
<1>4. job' = [job EXCEPT ![t][s] = NoJob] /\ lock' = Tail(lock)
  BY DEF Leave
<1>5. /\ job' \in [Tabs -> [Slots -> Jobs]] /\ job'[t][s] = NoJob
      /\ \A r \in Slots \ {s} : job'[t][r] = job[t][r]
      /\ \A u \in Tabs \ {t} : job'[u] = job[u]
      /\ OthersStay(t, s)
  BY <1>1, <1>3, <1>4, JobsSet
<1>6. LockQueue'
  BY <1>3, <1>4, <1>5, QueueLeaves DEF SessionInv
<1>7. BrowserTypes'
  <2>1. marker' \in {"none", "signed-in", "signed-out"} /\ owner' \in Accounts \cup {None, Torn}
    BY DEF SessionInv, BrowserTypes
  <2> QED BY <1>2, <1>5, <2>1 DEF BrowserTypes
<1>8. /\ TabOk(v, NoJob, job[t]["sync"], marker, owner')
      /\ TabOk(v, job[t]["main"], NoJob, marker, owner')
  BY <1>1, TabSettles
<1>9. TabInv(t)'
  <2>1. CASE s = "main"
    <3>1. job'[t]["main"] = NoJob /\ job'[t]["sync"] = job[t]["sync"]
      BY <1>5, <2>1 DEF Slots
    <3> QED BY <1>2, <1>8, <3>1 DEF TabInv
  <2>2. CASE s = "sync"
    <3>1. job'[t]["main"] = job[t]["main"] /\ job'[t]["sync"] = NoJob
      BY <1>5, <2>2 DEF Slots
    <3> QED BY <1>2, <1>8, <3>1 DEF TabInv
  <2> QED BY <1>1, <2>1, <2>2
<1> QED BY <1>2, <1>5, <1>6, <1>7, <1>9, OneTabMoves

\* It leaves with an error.
LEMMA FailStep ==
    ASSUME SessionInv, NEW t \in Tabs, NEW s \in Slots, Holds(t, s),
           NEW e \in {"blocked", "invalid", "other"}, Fail(t, s, e),
           e = "blocked" \/ job[t][s].pc # "waiting",
           marker' = marker, owner' \in {owner, Torn}, CookieOk',
           cookie' \in {None} \cup [account : Accounts, token : {"good", "used", "dead"}]
    PROVE  SessionInv'
<1>1. PICK v : v = Failed(tab[t], e)
  OBVIOUS
<1>2. Leave(t, s)
  BY DEF Fail
<1>3. tab' = [tab EXCEPT ![t] = v]
  BY <1>1 DEF Fail
<1>4. job[t][s].pc # "none"
  BY HolderHasJob DEF SessionInv
<1>5. /\ tab[t] \in Controllers /\ tab[t].status # "closed" /\ ShownOk(tab[t], owner)
      /\ e = "blocked" \/ tab[t].seen = "current"
  BY <1>4, TabFacts
<1>6. /\ v \in Controllers /\ v.seen = tab[t].seen
      /\ v.status \notin {"loading", "closed"}
  BY <1>1, <1>5, FailedIs
<1>7. ShownOk(v, owner)
  BY <1>1, <1>5, FailureShows
<1>8. ShownOk(v, owner')
  BY <1>7 DEF ShownOk
<1> QED BY <1>2, <1>3, <1>6, <1>8, QuitStep

\* It leaves with a form that was not accepted.
LEMMA LoginFails ==
    ASSUME SessionInv, NEW t \in Tabs, NEW s \in Slots, Sends(t, s, {"login"}),
           Leave(t, s), UNCHANGED tab,
           marker' = marker, owner' \in {owner, Torn}, CookieOk',
           cookie' \in {None} \cup [account : Accounts, token : {"good", "used", "dead"}]
    PROVE  SessionInv'
<1>1. Holds(t, s) /\ job[t][s].pc = "send" /\ job[t][s].op = "login"
  BY DEF Sends
<1>2. /\ tab \in [Tabs -> Controllers] /\ tab[t] \in Controllers /\ job[t][s] \in Jobs
      /\ TabOk(tab[t], job[t]["main"], job[t]["sync"], marker, owner)
      /\ JobOk(job[t][s], tab[t], owner) /\ ShownOk(tab[t], owner)
      /\ tab[t].status # "closed"
      /\ s = "main" \/ s = "sync"
  BY <1>1, TabFacts
<1>3. s = "main"
  BY <1>1, <1>2 DEF TabOk
<1>4. job[t][s].expected = "current"
  <2>1. job[t][s].expected \notin {"none", "older"}
    BY <1>1, <1>2 DEF JobOk
  <2> QED BY <1>2, <2>1 DEF Jobs
<1>5. tab[t].status # "loading"
  BY <1>2, <1>3, <1>4 DEF TabOk
<1>6. tab' = [tab EXCEPT ![t] = tab[t]]
  BY <1>2
<1>7. ShownOk(tab[t], owner')
  BY <1>2 DEF ShownOk
<1>8. PICK v : v = tab[t]
  OBVIOUS
<1> QED BY <1>1, <1>2, <1>5, <1>6, <1>7, <1>8, QuitStep

\* The holder goes on with job j, its tab in state v.
LEMMA GoStep ==
    ASSUME SessionInv, NEW t \in Tabs, NEW s \in Slots, Holds(t, s),
           NEW j \in Jobs, Go(t, s, j), j.pc # "none",
           NEW v \in Controllers, tab' = [tab EXCEPT ![t] = v],
           v.seen = "current", v.status # "closed", ShownOk(v, owner), JobOk(j, v, owner),
           s = "main" => /\ j.op # "synchronize"
                         /\ j.expected = "current" => v.status # "loading",
           s = "sync" => /\ j.op \in {"none", "synchronize"}
                         /\ job[t]["main"].expected = "current" => v.status # "loading"
                         /\ v.status = "loading" =>
                               job[t]["main"].pc # "none" \/ marker = "signed-in",
           UNCHANGED cookie, NoPublish
    PROVE  SessionInv'
<1>1. /\ tab \in [Tabs -> Controllers] /\ job \in [Tabs -> [Slots -> Jobs]]
      /\ TabOk(tab[t], job[t]["main"], job[t]["sync"], marker, owner)
      /\ s = "main" \/ s = "sync"
  BY TabFacts
<1>2. tab' \in [Tabs -> Controllers] /\ tab'[t] = v /\ \A u \in Tabs \ {t} : tab'[u] = tab[u]
  BY <1>1
<1>3. job' = [job EXCEPT ![t][s] = j] /\ lock' = lock /\ marker' = marker /\ owner' = owner
  BY DEF Go, NoPublish
<1>4. /\ job' \in [Tabs -> [Slots -> Jobs]] /\ job'[t][s] = j
      /\ \A r \in Slots \ {s} : job'[t][r] = job[t][r]
      /\ \A u \in Tabs \ {t} : job'[u] = job[u]
      /\ OthersStay(t, s)
  BY <1>1, <1>3, JobsSet
<1>5. LockQueue'
  BY <1>3, <1>4, QueueStays DEF SessionInv
<1>6. BrowserTypes' /\ CookieOk'
  BY <1>2, <1>3, <1>4 DEF SessionInv, BrowserTypes, CookieOk
<1>7. TabInv(t)'
  <2>1. CASE s = "main"
    <3>1. job'[t]["main"] = j /\ job'[t]["sync"] = job[t]["sync"]
      BY <1>4, <2>1 DEF Slots
    <3>2. TabOk(v, j, job[t]["sync"], marker, owner)
      BY <1>1, <2>1, MainGoesOn
    <3> QED BY <1>2, <1>3, <3>1, <3>2 DEF TabInv
  <2>2. CASE s = "sync"
    <3>1. job'[t]["main"] = job[t]["main"] /\ job'[t]["sync"] = j
      BY <1>4, <2>2 DEF Slots
    <3>2. TabOk(v, job[t]["main"], j, marker, owner)
      BY <1>1, <2>2, SyncGoesOn
    <3> QED BY <1>2, <1>3, <3>1, <3>2 DEF TabInv
  <2> QED BY <1>1, <2>1, <2>2
<1> QED BY <1>2, <1>3, <1>4, <1>5, <1>6, <1>7, OneTabMoves

\* The first request of an operation that was not cancelled.
LEMMA FirstRequestIs ==
    ASSUME NEW j \in Jobs, NEW w, NEW ow, JobOk(j, w, ow), j.pc = "waiting", ~Cancelled(j, w),
           NEW v \in Controllers, v.seen = "current", ShownOk(v, ow), NEW r \in FirstRequests(j, v)
    PROVE  /\ r \in Jobs /\ JobOk(r, v, ow) /\ r.pc \notin {"none", "waiting"}
           /\ r.op = j.op /\ r.expected = j.expected
<1>1. j.expected # "older"
  BY DEF Cancelled, JobOk, Ops, SignIns, Kept
<1>2. /\ r \in Jobs /\ r.op = j.op /\ r.expected = j.expected /\ r.shown = j.shown
      /\ r.pc \in {"send", "refresh", "me"}
      /\ r.pc = "refresh" => r.then \in {"me", "send"} /\ r.op # "login"
      /\ r.pc = "me" => r.account = v.credential /\ v.credential # None
      /\ r.pc = "send" /\ r.op \in SignIns => r.account \in Accounts
  <2>1. CASE j.op \in {"initialize", "synchronize"}
    <3>1. r = ToRefresh(j, "me")
      BY <2>1 DEF FirstRequests
    <3> QED BY <2>1, <3>1 DEF ToRefresh, Jobs
  <2>2. CASE j.op \in {"profile", "password"}
    <3>1. PICK then \in {"me", "send"} :
            /\ then = IF j.op = "profile" THEN "me" ELSE "send"
            /\ r = ToRefresh(j, then) \/ (v.credential # None /\ r = Bearing(j, then, v))
      BY <2>2 DEF FirstRequests
    <3>2. v.credential \in Accounts \cup {None}
      BY DEF Controllers
    <3> QED BY <2>2, <3>1, <3>2 DEF ToRefresh, Bearing, Jobs, SignIns
  <2>3. CASE j.op = "logout"
    <3>1. r = [j EXCEPT !.pc = "send"]
      BY <2>3 DEF FirstRequests
    <3> QED BY <2>3, <3>1 DEF Jobs, SignIns
  <2>4. CASE j.op \notin {"initialize", "synchronize", "profile", "password", "logout"}
    <3>1. PICK a \in Accounts : r = [j EXCEPT !.pc = "send", !.account = a]
      BY <2>4 DEF FirstRequests
    <3> QED BY <3>1 DEF Jobs
  <2> QED BY <2>1, <2>2, <2>3, <2>4
<1>3. /\ j.op # "none" /\ (j.op \notin Ops => j.expected = "none")
      /\ j.op = "login" => j.expected # "none"
      /\ ow # Torn /\ j.expected = "current" /\ j.shown # None => j.shown = ow
  BY DEF JobOk
<1>4. ow # Torn /\ v.credential # None => v.credential = ow
  BY DEF ShownOk
<1> QED BY <1>1, <1>2, <1>3, <1>4 DEF JobOk

-----------------------------------------------------------------------------
\* What stays when the cookies do.
LEMMA CookieStays ==
    ASSUME SessionInv, cookie' = cookie, owner' = owner
    PROVE  /\ CookieOk'
           /\ cookie' \in {None} \cup [account : Accounts, token : {"good", "used", "dead"}]
BY DEF SessionInv, CookieOk, BrowserTypes

LEMMA StartKeeps ==
    ASSUME SessionInv, NEW t \in Tabs, NEW s \in Slots, Start(t, s)
    PROVE  SessionInv'
<1>1. PICK j, w : j = job[t][s] /\ w = Observe(tab[t])
  OBVIOUS
<1>2. /\ Holds(t, s) /\ j.pc = "waiting" /\ cookie' = cookie /\ NoPublish
      /\ marker' = marker /\ owner' = owner
  BY <1>1 DEF Start, NoPublish
<1>3. /\ tab[t] \in Controllers /\ j \in Jobs /\ JobOk(j, tab[t], owner)
      /\ TabOk(tab[t], job[t]["main"], job[t]["sync"], marker, owner)
      /\ ShownOk(tab[t], owner) /\ tab[t].status # "closed"
      /\ s = "main" \/ s = "sync"
  BY <1>1, <1>2, TabFacts
<1>4. /\ w \in Controllers /\ w.seen = "current"
      /\ Changed(tab[t]) => w.status = IF marker = "signed-in" THEN "loading" ELSE "anonymous"
      /\ ~Changed(tab[t]) => w.status = tab[t].status
  BY <1>1, <1>3, ObserveIs
<1>5. ShownOk(w, owner) /\ w.status # "closed"
  BY <1>1, <1>3, <1>4, ObserveShows
<1>6. /\ CookieOk'
      /\ cookie' \in {None} \cup [account : Accounts, token : {"good", "used", "dead"}]
  BY <1>2, CookieStays
<1>7. CASE Fail(t, s, "blocked")
  BY <1>2, <1>6, <1>7, FailStep
<1>8. ASSUME tab' = [tab EXCEPT ![t] = Failed(w, "other")], Leave(t, s) PROVE SessionInv'
  <2>1. PICK v : v = Failed(w, "other")
    OBVIOUS
  <2>2. /\ v \in Controllers /\ v.seen = "current"
        /\ v.status \notin {"loading", "closed"}
    BY <1>4, <1>5, <2>1, FailedIs
  <2>3. ShownOk(v, owner)
    BY <1>4, <1>5, <2>1, FailureShows
  <2> QED BY <1>2, <1>6, <1>8, <2>1, <2>2, <2>3, QuitStep
<1>9. ASSUME Nothing(j), tab' = [tab EXCEPT ![t] = IF j.op = "initialize" THEN Clear(w) ELSE w],
             Leave(t, s)
      PROVE  SessionInv'
  <2>1. CASE j.op = "initialize"
    <3>1. PICK v : v = Clear(w)
      OBVIOUS
    <3>2. /\ v \in Controllers /\ v.seen = "current" /\ v.status = "anonymous"
          /\ v.credential = None
      BY <1>4, <3>1 DEF Clear, Controllers
    <3>3. ShownOk(v, owner)
      BY <3>2 DEF ShownOk
    <3> QED BY <1>2, <1>6, <1>9, <2>1, <3>1, <3>2, <3>3, QuitStep
  <2>2. CASE j.op = "synchronize" /\ marker # "signed-in"
    <3>1. tab' = [tab EXCEPT ![t] = w]
      BY <1>9, <2>2
    <3>2. CASE w.status # "loading"
      BY <1>2, <1>4, <1>5, <1>6, <1>9, <3>1, <3>2, QuitStep
    <3>3. CASE w.status = "loading"
      <4>1. ~Changed(tab[t]) /\ tab[t].status = "loading"
        BY <1>4, <2>2, <3>3
      <4>2. job[t]["main"].pc # "none" /\ job[t]["main"].expected # "current"
        BY <1>3, <2>2, <4>1 DEF TabOk, Changed
      <4>3. /\ tab \in [Tabs -> Controllers] /\ job \in [Tabs -> [Slots -> Jobs]]
        BY TabFacts
      <4>4. NoJob \in Jobs /\ NoJob.pc = "none" /\ NoJob.op = "none" /\ JobOk(NoJob, w, owner)
        BY NoJobOk
      <4>5. job' = [job EXCEPT ![t][s] = NoJob] /\ lock' = Tail(lock)
        BY <1>9 DEF Leave
      <4>6. /\ job' \in [Tabs -> [Slots -> Jobs]] /\ job'[t][s] = NoJob
            /\ \A r \in Slots \ {s} : job'[t][r] = job[t][r]
            /\ \A u \in Tabs \ {t} : job'[u] = job[u]
            /\ OthersStay(t, s)
        BY <4>3, <4>4, <4>5, JobsSet
      <4>7. LockQueue'
        BY <1>2, <4>4, <4>5, <4>6, QueueLeaves DEF SessionInv
      <4>8. tab' \in [Tabs -> Controllers] /\ tab'[t] = w
            /\ \A u \in Tabs \ {t} : tab'[u] = tab[u]
        BY <1>4, <3>1, <4>3
      <4>9. BrowserTypes'
        BY <1>2, <4>6, <4>8 DEF SessionInv, BrowserTypes
      <4>10. s = "sync"
        <5> SUFFICES ASSUME s = "main" PROVE FALSE
          BY <1>3
        <5> QED BY <1>1, <1>3, <2>2 DEF TabOk
      <4>11. job'[t]["main"] = job[t]["main"] /\ job'[t]["sync"] = NoJob
        BY <4>6, <4>10 DEF Slots
      <4>12. JobOk(job[t]["main"], w, owner)
        BY <1>3, <1>4, JobStaysOk DEF TabOk
      <4>13. TabOk(w, job[t]["main"], NoJob, marker, owner)
        <5>1. job[t]["main"].op # "synchronize"
          BY <1>3 DEF TabOk
        <5> QED BY <1>4, <1>5, <4>2, <4>4, <4>12, <5>1 DEF TabOk
      <4>14. TabInv(t)'
        BY <1>2, <4>8, <4>11, <4>13 DEF TabInv
      <4> QED BY <1>2, <1>6, <4>6, <4>7, <4>8, <4>9, <4>14, OneTabMoves
    <3> QED BY <3>2, <3>3
  <2> QED BY <1>9, <2>1, <2>2 DEF Nothing
<1>10. ASSUME ~Cancelled(j, tab[t]), ~Nothing(j), tab' = [tab EXCEPT ![t] = w],
              NEW r \in FirstRequests(j, w), Go(t, s, r)
       PROVE  SessionInv'
  <2>1. /\ r \in Jobs /\ JobOk(r, w, owner) /\ r.pc \notin {"none", "waiting"}
        /\ r.op = j.op /\ r.expected = j.expected
    BY <1>2, <1>3, <1>4, <1>5, <1>10, FirstRequestIs
  <2>2. job[t]["main"].expected = "current" => w.status # "loading"
    BY <1>1, <1>3, ObserveLeavesMain
  <2>3. s = "main" => /\ r.op # "synchronize"
                      /\ r.expected = "current" => w.status # "loading"
    BY <1>1, <1>3, <2>1, <2>2 DEF TabOk
  <2>4. s = "sync" => r.op \in {"none", "synchronize"} /\ marker = "signed-in"
    <3> SUFFICES ASSUME s = "sync" PROVE r.op \in {"none", "synchronize"} /\ marker = "signed-in"
      OBVIOUS
    <3>1. j.op \in {"none", "synchronize"} /\ j.op # "none"
      BY <1>1, <1>2, <1>3 DEF TabOk, JobOk
    <3> QED BY <1>10, <2>1, <3>1 DEF Nothing
  <2> QED BY <1>2, <1>4, <1>5, <1>10, <2>1, <2>2, <2>3, <2>4, GoStep
<1> QED
  BY <1>1, <1>7, <1>8, <1>9, <1>10 DEF Start

\* Publishing: the cookies are those of account a, or nobody's.
LEMMA PublishIs ==
    ASSUME SessionInv, NEW t \in Tabs, NEW kd \in {"signed-in", "signed-out"},
           NEW a \in Accounts \cup {None}, NEW c \in {a, None}, Publish(t, kd, a, c),
           cookie' = None \/ (a \in Accounts /\ cookie' = Session(a))
    PROVE  /\ marker' = kd /\ owner' = a /\ CookieOk'
           /\ cookie' \in {None} \cup [account : Accounts, token : {"good", "used", "dead"}]
           /\ tab' \in [Tabs -> Controllers] /\ tab'[t] = Published(tab[t], kd, c)
           /\ \A u \in Tabs \ {t} : tab'[u] = [tab[u] EXCEPT !.seen = Older(@)]
<1>1. marker' = kd /\ owner' = a
  BY DEF Publish
<1>2. /\ \A u \in Tabs \ {t} : tab'[u] = [tab[u] EXCEPT !.seen = Older(@)]
      /\ tab'[t] = Published(tab[t], kd, c)
      /\ tab' = [u \in Tabs |-> tab'[u]]
  BY DEF Publish, Published
<1>3. \A u \in Tabs : tab[u] \in Controllers
  BY DEF SessionInv, BrowserTypes
<1>4. \A u \in Tabs \ {t} : tab'[u] \in Controllers
  BY <1>2, <1>3 DEF Controllers, Older
<1>5. tab'[t] \in Controllers
  <2>1. c \in Accounts \cup {None} /\ c \in {None, c}
    OBVIOUS
  <2>2. PICK w, v : w = tab[t] /\ v = tab'[t]
    OBVIOUS
  <2>3. w \in Controllers /\ v = Published(w, kd, c)
    BY <1>2, <1>3, <2>2
  <2>4. v \in Controllers
    BY <2>1, <2>3, PublishedIs
  <2> QED BY <2>2, <2>4
<1>6. /\ cookie' \in {None} \cup [account : Accounts, token : {"good", "used", "dead"}]
      /\ CookieOk'
  BY <1>1 DEF Session, CookieOk
<1> QED BY <1>1, <1>2, <1>4, <1>5, <1>6

\* The marker is replaced and the publisher leaves.
LEMMA EndStep ==
    ASSUME SessionInv, NEW t \in Tabs, NEW s \in Slots, Holds(t, s), cookie' = None,
           Publish(t, "signed-out", None, None), End(t, s)
    PROVE  SessionInv'
<1>1. /\ marker' = "signed-out" /\ owner' = None /\ CookieOk'
      /\ cookie' \in {None} \cup [account : Accounts, token : {"good", "used", "dead"}]
      /\ tab' \in [Tabs -> Controllers] /\ tab'[t] = Published(tab[t], "signed-out", None)
      /\ \A u \in Tabs \ {t} : tab'[u] = [tab[u] EXCEPT !.seen = Older(@)]
  BY PublishIs
<1>2. /\ job \in [Tabs -> [Slots -> Jobs]] /\ tab[t] \in Controllers
      /\ job[t]["main"] \in Jobs /\ job[t]["sync"] \in Jobs
      /\ TabOk(tab[t], job[t]["main"], job[t]["sync"], marker, owner)
      /\ s = "main" \/ s = "sync"
  BY TabFacts
<1>3. NoJob \in Jobs /\ NoJob.pc = "none"
  BY NoJobOk
<1>4. job' = [Outdated EXCEPT ![t][s] = NoJob] /\ lock' = Tail(lock)
  BY DEF End
<1>5. /\ job' \in [Tabs -> [Slots -> Jobs]] /\ job'[t][s] = NoJob
      /\ \A r \in Slots \ {s} : job'[t][r] = Late(job[t][r])
      /\ \A u \in Tabs \ {t}, r \in Slots : job'[u][r] = Late(job[u][r])
      /\ OthersStay(t, s)
  BY <1>2, <1>3, <1>4, JobsLate
<1>6. LockQueue'
  BY <1>3, <1>4, <1>5, QueueLeaves DEF SessionInv
<1>7. BrowserTypes'
  BY <1>1, <1>5 DEF BrowserTypes
<1>8. TabInv(t)'
  <2>1. CASE s = "main"
    <3>1. job'[t]["main"] = NoJob /\ job'[t]["sync"] = Late(job[t]["sync"])
      BY <1>5, <2>1 DEF Slots
    <3>2. job[t]["sync"].pc \in {"none", "waiting"}
      BY <2>1, OthersWait DEF SessionInv, Slots
    <3>3. TabOk(tab'[t], NoJob, Late(job[t]["sync"]), "signed-out", None)
      BY <1>1, <1>2, <3>2, PublisherEnds
    <3> QED BY <1>1, <3>1, <3>3 DEF TabInv
  <2>2. CASE s = "sync"
    <3>1. job'[t]["main"] = Late(job[t]["main"]) /\ job'[t]["sync"] = NoJob
      BY <1>5, <2>2 DEF Slots
    <3>2. job[t]["main"].pc \in {"none", "waiting"}
      BY <2>2, OthersWait DEF SessionInv, Slots
    <3>3. TabOk(tab'[t], Late(job[t]["main"]), NoJob, "signed-out", None)
      BY <1>1, <1>2, <3>2, PublisherEnds
    <3> QED BY <1>1, <3>1, <3>3 DEF TabInv
  <2> QED BY <1>2, <2>1, <2>2
<1> QED BY <1>1, <1>5, <1>6, <1>7, <1>8, MarkerMoves

\* The marker is replaced for account a and the publisher goes on.
LEMMA GoOnStep ==
    ASSUME SessionInv, NEW t \in Tabs, Holds(t, "main"), NEW a \in Accounts,
           NEW c \in {a, None}, cookie' = Session(a), Publish(t, "signed-in", a, c),
           NEW j \in Jobs, GoOn(t, "main", j), j.op \notin {"none", "login", "synchronize"}
                              \/ (j.op = "login" /\ j.pc = "me"),
           \/ j.pc = "me" /\ j.account = a
           \/ j.pc = "refresh" /\ j.then = "me"
    PROVE  SessionInv'
<1>1. /\ marker' = "signed-in" /\ owner' = a /\ CookieOk'
      /\ cookie' \in {None} \cup [account : Accounts, token : {"good", "used", "dead"}]
      /\ tab' \in [Tabs -> Controllers] /\ tab'[t] = Published(tab[t], "signed-in", c)
      /\ \A u \in Tabs \ {t} : tab'[u] = [tab[u] EXCEPT !.seen = Older(@)]
  BY PublishIs
<1>2. /\ job \in [Tabs -> [Slots -> Jobs]] /\ tab[t] \in Controllers
      /\ job[t]["main"] \in Jobs /\ job[t]["sync"] \in Jobs
      /\ TabOk(tab[t], job[t]["main"], job[t]["sync"], marker, owner)
  BY TabFacts DEF Slots
<1>3. PICK k : k = [j EXCEPT !.expected = "none"]
  OBVIOUS
<1>4. /\ k \in Jobs /\ k.pc = j.pc /\ k.op = j.op /\ k.then = j.then /\ k.account = j.account
      /\ k.expected = "none"
  BY <1>3 DEF Jobs
<1>5. job' = [Outdated EXCEPT ![t]["main"] = k] /\ lock' = lock
  BY <1>3 DEF GoOn
<1>6. /\ job' \in [Tabs -> [Slots -> Jobs]] /\ job'[t]["main"] = k
      /\ \A r \in Slots \ {"main"} : job'[t][r] = Late(job[t][r])
      /\ \A u \in Tabs \ {t}, r \in Slots : job'[u][r] = Late(job[u][r])
      /\ OthersStay(t, "main")
  <2>1. "main" \in Slots
    BY DEF Slots
  <2> QED BY <1>2, <1>4, <1>5, <2>1, JobsLate
<1>7. LockQueue'
  <2>1. "main" \in Slots /\ k.pc # "none"
    BY <1>4 DEF Slots
  <2> QED BY <1>5, <1>6, <2>1, QueueStays DEF SessionInv
<1>8. BrowserTypes'
  BY <1>1, <1>6 DEF BrowserTypes
<1>9. JobOk(k, tab'[t], a)
  <2>1. c \in Accounts \cup {None} /\ c \in {None, a}
    OBVIOUS
  <2>2. PICK w, v : w = tab[t] /\ v = tab'[t]
    OBVIOUS
  <2>3. w \in Controllers /\ v = Published(w, "signed-in", c)
    BY <1>1, <1>2, <2>2
  <2>4. v.seen = "current"
    BY <2>1, <2>3, PublishedIs
  <2> QED BY <1>4, <2>2, <2>4 DEF JobOk
<1>10. TabInv(t)'
  <2>1. job'[t]["sync"] = Late(job[t]["sync"])
    BY <1>6 DEF Slots
  <2>2. job[t]["sync"].pc \in {"none", "waiting"}
    BY OthersWait DEF SessionInv, Slots
  <2>3. TabOk(tab'[t], k, Late(job[t]["sync"]), "signed-in", a)
    BY <1>1, <1>2, <1>4, <1>9, <2>2, PublisherGoesOn
  <2> QED BY <1>1, <1>6, <2>1, <2>3 DEF TabInv
<1> QED
  <2>1. "main" \in Slots
    BY DEF Slots
  <2> QED BY <1>1, <1>6, <1>7, <1>8, <1>10, <2>1, MarkerMoves

\* Requests that change the cookies are sent from the main slot.
LEMMA SendsFromMain ==
    ASSUME SessionInv, NEW t \in Tabs, NEW s \in Slots, NEW ops, ops \subseteq Ops,
           Sends(t, s, ops)
    PROVE  s = "main" /\ Holds(t, s) /\ job[t][s].pc = "send" /\ job[t][s].op \in ops
<1>1. Holds(t, s) /\ job[t][s].pc = "send" /\ job[t][s].op \in ops
  BY DEF Sends
<1>2. s = "main" \/ (s = "sync" /\ job[t]["sync"].op \in {"none", "synchronize"})
  BY TabFacts DEF TabOk
<1> QED BY <1>1, <1>2 DEF Ops, SignIns, Kept

LEMMA PublishingKeeps ==
    ASSUME SessionInv, NEW t \in Tabs, NEW s \in Slots,
           SignedIn(t, s) \/ SignedOut(t, s) \/ PasswordChanged(t, s) \/ SessionInvalid(t, s)
    PROVE  SessionInv'
<1>1. PICK j : j = job[t][s]
  OBVIOUS
<1>2. j \in Jobs /\ JobOk(j, tab[t], owner)
  BY <1>1, TabFacts
<1>3. CASE SignedIn(t, s)
  <2>1. Sends(t, s, SignIns)
    BY <1>3 DEF SignedIn
  <2>2. s = "main" /\ Holds(t, s) /\ j.pc = "send" /\ j.op \in SignIns
    BY <1>1, <2>1, SendsFromMain DEF Ops
  <2>3. j.account \in Accounts
    BY <1>2, <2>2 DEF JobOk
  <2>4. cookie' = Session(j.account)
    <3>1. Stored(j) = Session(j.account)
      BY <2>2 DEF Stored, SignIns
    <3> QED BY <1>1, <1>3, <3>1 DEF SignedIn
  <2>5. PICK k : k = [j EXCEPT !.pc = "me"]
    OBVIOUS
  <2>6. k \in Jobs /\ k.pc = "me" /\ k.op = j.op /\ k.account = j.account
    BY <1>2, <2>5 DEF Jobs
  <2>7. Publish(t, "signed-in", j.account, j.account) /\ GoOn(t, "main", k)
    BY <1>1, <1>3, <2>2, <2>5 DEF SignedIn
  <2>8. k.op \in {"login", "registration"}
    BY <2>2, <2>6 DEF SignIns
  <2>9. k.op \notin {"none", "login", "synchronize"} \/ (k.op = "login" /\ k.pc = "me")
    BY <2>6, <2>8
  <2> QED BY <2>2, <2>3, <2>4, <2>6, <2>7, <2>9, GoOnStep
<1>4. CASE SignedOut(t, s)
  <2>1. Sends(t, s, {"logout", "reset"})
    BY <1>4 DEF SignedOut
  <2>2. Holds(t, s) /\ j.pc = "send" /\ j.op \in {"logout", "reset"}
    BY <1>1, <2>1 DEF Sends
  <2>3. cookie' = None
    BY <1>1, <1>4, <2>2 DEF SignedOut, Stored, SignIns
  <2>4. Publish(t, "signed-out", None, None) /\ End(t, s)
    BY <1>4 DEF SignedOut
  <2> QED BY <2>2, <2>3, <2>4, EndStep
<1>5. CASE PasswordChanged(t, s)
  <2>1. Sends(t, s, {"password"}) /\ MayChange(j)
    BY <1>1, <1>5 DEF PasswordChanged
  <2>2. s = "main" /\ Holds(t, s) /\ j.pc = "send" /\ j.op = "password"
    BY <1>1, <2>1, SendsFromMain DEF Ops, Kept
  <2>3. j.account \in Accounts
    BY <2>1 DEF MayChange, Usable, Token, SessionInv, BrowserTypes
  <2>4. cookie' = Session(j.account)
    BY <1>1, <1>5, <2>1, <2>2 DEF PasswordChanged, Stored, SignIns
  <2>5. PICK k : k = ToRefresh(j, "me")
    OBVIOUS
  <2>6. k \in Jobs /\ k.pc = "refresh" /\ k.then = "me" /\ k.op = "password"
    BY <1>2, <2>2, <2>5 DEF Jobs, ToRefresh
  <2>7. Publish(t, "signed-in", j.account, None) /\ GoOn(t, "main", k)
    BY <1>1, <1>5, <2>2, <2>5 DEF PasswordChanged
  <2>8. k.op \notin {"none", "login", "synchronize"}
    BY <2>6
  <2> QED BY <2>2, <2>3, <2>4, <2>6, <2>7, <2>8, GoOnStep
<1>6. CASE SessionInvalid(t, s)
  <2>1. Holds(t, s)
    BY <1>6 DEF SessionInvalid, Refreshes, Sends
  <2>2. cookie' = None
    <3>1. \/ j.pc \in {"refresh", "retry"} /\ ~Usable /\ ~Conflict
          \/ j.pc = "send" /\ j.op = "password" /\ ~MayChange(j)
      BY <1>1, <1>6 DEF SessionInvalid, Refreshes, Sends
    <3>2. Stored(j) = None
      BY <3>1 DEF Stored, SignIns
    <3> QED BY <1>1, <1>6, <3>2 DEF SessionInvalid
  <2>3. Publish(t, "signed-out", None, None) /\ End(t, s)
    BY <1>6 DEF SessionInvalid
  <2> QED BY <2>1, <2>2, <2>3, EndStep
<1> QED BY <1>3, <1>4, <1>5, <1>6

LEMMA RefreshKeeps ==
    ASSUME SessionInv, NEW t \in Tabs, NEW s \in Slots,
           Refreshed(t, s) \/ RefreshConflict(t, s)
    PROVE  SessionInv'
<1>1. PICK j, w : j = job[t][s] /\ w = tab[t]
  OBVIOUS
<1>2. Holds(t, s) /\ j.pc \in {"refresh", "retry"} /\ cookie' = cookie /\ NoPublish
  BY <1>1 DEF Refreshed, RefreshConflict, Refreshes
<1>3. /\ tab \in [Tabs -> Controllers] /\ w \in Controllers /\ j \in Jobs
      /\ JobOk(j, w, owner) /\ ShownOk(w, owner)
      /\ TabOk(w, job[t]["main"], job[t]["sync"], marker, owner)
      /\ w.status # "closed" /\ w.seen = "current"
      /\ s = "main" \/ s = "sync"
  BY <1>1, <1>2, TabFacts
<1>4. ASSUME NEW k \in Jobs, k.pc \in {"me", "send", "retry"}, k.op = j.op,
             k.expected = j.expected, JobOk(k, w, owner), Go(t, s, k),
             NEW v \in Controllers, tab' = [tab EXCEPT ![t] = v],
             v.seen = w.seen, v.status = w.status, ShownOk(v, owner)
      PROVE  SessionInv'
  <2>1. JobOk(k, v, owner)
    BY <1>4, JobStaysOk
  <2>2. s = "main" => /\ k.op # "synchronize"
                      /\ k.expected = "current" => v.status # "loading"
    BY <1>1, <1>3, <1>4 DEF TabOk
  <2>3. s = "sync" => /\ k.op \in {"none", "synchronize"}
                      /\ job[t]["main"].expected = "current" => v.status # "loading"
                      /\ v.status = "loading" =>
                            job[t]["main"].pc # "none" \/ marker = "signed-in"
    BY <1>1, <1>3, <1>4 DEF TabOk
  <2>4. v.seen = "current" /\ v.status # "closed" /\ k.pc # "none"
    BY <1>3, <1>4
  <2> QED BY <1>2, <1>4, <2>1, <2>2, <2>3, <2>4, GoStep
<1>5. CASE Refreshed(t, s)
  <2>1. PICK v : v = [w EXCEPT !.credential = cookie.account]
    OBVIOUS
  <2>2. Usable /\ tab' = [tab EXCEPT ![t] = v] /\ Go(t, s, Bearing(j, j.then, v))
    BY <1>1, <1>5, <2>1 DEF Refreshed
  <2>3. /\ cookie # None /\ cookie.account \in Accounts
        /\ owner # Torn => cookie.account = owner
    BY <2>2 DEF Usable, Token, SessionInv, BrowserTypes, CookieOk
  <2>4. /\ v \in Controllers /\ v.seen = w.seen /\ v.status = w.status /\ v.profile = w.profile
        /\ v.credential = cookie.account
    BY <1>3, <2>1, <2>3 DEF Controllers
  <2>5. ShownOk(v, owner)
    BY <1>3, <2>3, <2>4 DEF ShownOk
  <2>6. PICK k : k = Bearing(j, j.then, v)
    OBVIOUS
  <2>7. j.then \in {"me", "send"}
    BY <1>2, <1>3 DEF JobOk
  <2>8. /\ k \in Jobs /\ k.pc = j.then /\ k.op = j.op /\ k.expected = j.expected
        /\ k.shown = j.shown /\ k.account = cookie.account
    BY <1>3, <2>3, <2>4, <2>6, <2>7 DEF Bearing, Jobs
  <2>9. JobOk(k, w, owner)
    <3>1. /\ j.op # "none" /\ (j.op \notin Ops => j.expected = "none")
          /\ w.seen = "current" /\ j.expected # "older"
          /\ owner # Torn /\ j.expected = "current" /\ j.shown # None => j.shown = owner
      BY <1>2, <1>3 DEF JobOk
    <3>2. j.op = "login" => FALSE
      BY <1>2, <1>3 DEF JobOk
    <3> QED BY <2>3, <2>7, <2>8, <3>1, <3>2 DEF JobOk
  <2> QED BY <1>4, <2>2, <2>4, <2>5, <2>6, <2>7, <2>8, <2>9
<1>6. CASE RefreshConflict(t, s)
  <2>1. CASE j.pc = "refresh"
    <3>1. PICK k : k = [j EXCEPT !.pc = "retry"]
      OBVIOUS
    <3>2. Go(t, s, k) /\ tab' = tab
      BY <1>1, <1>6, <2>1, <3>1 DEF RefreshConflict
    <3>3. /\ k \in Jobs /\ k.pc = "retry" /\ k.op = j.op /\ k.expected = j.expected
          /\ k.shown = j.shown /\ k.then = j.then
      BY <1>3, <3>1 DEF Jobs
    <3>4. JobOk(k, w, owner)
      BY <1>3, <2>1, <3>3 DEF JobOk
    <3>5. tab' = [tab EXCEPT ![t] = w]
      BY <1>1, <1>3, <3>2
    <3> QED BY <1>3, <1>4, <3>2, <3>3, <3>4, <3>5
  <2>2. CASE j.pc # "refresh"
    <3>1. Fail(t, s, "other")
      BY <1>1, <1>6, <2>2 DEF RefreshConflict
    <3>2. marker' = marker /\ owner' = owner
      BY <1>2 DEF NoPublish
    <3>3. /\ CookieOk'
          /\ cookie' \in {None} \cup [account : Accounts, token : {"good", "used", "dead"}]
      BY <1>2, <3>2, CookieStays
    <3> QED BY <1>1, <1>2, <3>1, <3>2, <3>3, FailStep
  <2> QED BY <2>1, <2>2
<1> QED BY <1>5, <1>6

LEMMA AnswersKeep ==
    ASSUME SessionInv, NEW t \in Tabs, NEW s \in Slots,
           Profile(t, s) \/ TokenInvalid(t, s) \/ Lost(t, s) \/ TornAnswer(t, s)
    PROVE  SessionInv'
<1>1. PICK j, w : j = job[t][s] /\ w = tab[t]
  OBVIOUS
<1>2. Holds(t, s) /\ j.pc \in {"send", "refresh", "retry", "me"} /\ marker' = marker
  BY <1>1 DEF Profile, TokenInvalid, Lost, TornAnswer, Sent, NoPublish
<1>3. /\ tab \in [Tabs -> Controllers] /\ w \in Controllers /\ j \in Jobs
      /\ JobOk(j, w, owner) /\ ShownOk(w, owner)
      /\ w.status # "closed" /\ w.seen = "current"
  BY <1>1, <1>2, TabFacts
<1>4. BrowserTypes /\ CookieOk
  BY DEF SessionInv
<1>5. CASE Profile(t, s)
  <2>1. /\ j.pc = "me" /\ Leave(t, s) /\ cookie' = cookie /\ owner' = owner
        /\ tab' = [tab EXCEPT ![t].status = "authenticated", ![t].restore = FALSE,
                              ![t].profile = j.account]
    BY <1>1, <1>5 DEF Profile, NoPublish
  <2>2. PICK v : v = [w EXCEPT !.status = "authenticated", !.restore = FALSE,
                               !.profile = j.account]
    OBVIOUS
  <2>3. j.account \in Accounts \cup {None}
    BY <1>3 DEF Jobs
  <2>4. /\ v \in Controllers /\ v.seen = w.seen /\ v.status = "authenticated"
        /\ v.profile = j.account /\ v.credential = w.credential
    BY <1>3, <2>2, <2>3 DEF Controllers
  <2>5. tab' = [tab EXCEPT ![t] = v]
    BY <1>1, <1>3, <2>1, <2>2 DEF Controllers
  <2>6. ShownOk(v, owner')
    BY <1>3, <2>1, <2>4 DEF ShownOk, JobOk
  <2>7. /\ CookieOk'
        /\ cookie' \in {None} \cup [account : Accounts, token : {"good", "used", "dead"}]
    BY <2>1, CookieStays
  <2> QED BY <1>1, <1>2, <1>3, <2>1, <2>4, <2>5, <2>6, <2>7, QuitStep
<1>6. CASE TokenInvalid(t, s)
  <2>1. Fail(t, s, "invalid") /\ cookie' = cookie /\ owner' = owner
    BY <1>6 DEF TokenInvalid, NoPublish
  <2>2. /\ CookieOk'
        /\ cookie' \in {None} \cup [account : Accounts, token : {"good", "used", "dead"}]
    BY <2>1, CookieStays
  <2> QED BY <1>1, <1>2, <2>1, <2>2, FailStep
<1>7. CASE Lost(t, s)
  <2>1. cookie' \in {cookie, Processed(j)} /\ owner' = owner
    BY <1>1, <1>7 DEF Lost, NoPublish
  <2>2. /\ Processed(j) \in {None} \cup [account : Accounts, token : {"good", "used", "dead"}]
        /\ owner # Torn /\ Processed(j) # None => Processed(j).account = owner
    BY <1>3, <1>4, CookieKeptProcessed
  <2>3. /\ CookieOk'
        /\ cookie' \in {None} \cup [account : Accounts, token : {"good", "used", "dead"}]
    BY <1>4, <2>1, <2>2 DEF CookieOk, BrowserTypes
  <2>4. CASE Sends(t, s, {"login"})
    <3>1. Leave(t, s) /\ UNCHANGED tab
      BY <1>7, <2>4 DEF Lost
    <3> QED BY <1>2, <2>1, <2>3, <2>4, <3>1, LoginFails
  <2>5. CASE ~Sends(t, s, {"login"})
    <3>1. Fail(t, s, "other")
      BY <1>7, <2>5 DEF Lost
    <3> QED BY <1>1, <1>2, <2>1, <2>3, <3>1, FailStep
  <2> QED BY <2>4, <2>5
<1>8. CASE TornAnswer(t, s)
  <2>1. cookie' = Stored(j) /\ owner' = Unpublished(j)
    BY <1>1, <1>8 DEF TornAnswer
  <2>2. j.pc = "send" /\ j.op \in SignIns => j.account \in Accounts
    BY <1>3 DEF JobOk
  <2>3. /\ Stored(j) \in {None} \cup [account : Accounts, token : {"good", "used", "dead"}]
        /\ Unpublished(j) \in {owner, Torn}
        /\ Unpublished(j) # Torn /\ Stored(j) # None => Stored(j).account = owner
    BY <1>3, <1>4, <2>2, CookieKeptStored
  <2>4. CookieOk' /\ owner' \in {owner, Torn}
        /\ cookie' \in {None} \cup [account : Accounts, token : {"good", "used", "dead"}]
    BY <2>1, <2>3 DEF CookieOk
  <2>5. \/ Fail(t, s, "blocked")
        \/ Fail(t, s, "other")
        \/ Sends(t, s, {"login"}) /\ Leave(t, s) /\ UNCHANGED tab
    BY <1>8 DEF TornAnswer
  <2>6. CASE Fail(t, s, "blocked")
    BY <1>2, <2>4, <2>6, FailStep
  <2>7. CASE Fail(t, s, "other")
    BY <1>1, <1>2, <2>4, <2>7, FailStep
  <2>8. CASE Sends(t, s, {"login"}) /\ Leave(t, s) /\ UNCHANGED tab
    BY <1>2, <2>4, <2>8, LoginFails
  <2> QED BY <2>5, <2>6, <2>7, <2>8
<1> QED BY <1>5, <1>6, <1>7, <1>8

\* A job joins the queue, its tab in state v.
LEMMA EnterStep ==
    ASSUME SessionInv, NEW t \in Tabs, NEW s \in Slots, job[t][s] = NoJob,
           NEW j \in Jobs, j.pc = "waiting", Enqueue(t, s, j),
           NEW v \in Controllers, tab' = [tab EXCEPT ![t] = v],
           s = "main" => TabOk(v, j, job[t]["sync"], marker, owner),
           s = "sync" => TabOk(v, job[t]["main"], j, marker, owner),
           UNCHANGED cookie, NoPublish
    PROVE  SessionInv'
<1>1. /\ tab \in [Tabs -> Controllers] /\ job \in [Tabs -> [Slots -> Jobs]]
      /\ s = "main" \/ s = "sync"
  BY TabFacts
<1>2. tab' \in [Tabs -> Controllers] /\ tab'[t] = v /\ \A u \in Tabs \ {t} : tab'[u] = tab[u]
  BY <1>1
<1>3. /\ job' = [job EXCEPT ![t][s] = j] /\ lock' = Append(lock, <<t, s>>)
      /\ marker' = marker /\ owner' = owner
  BY DEF Enqueue, NoPublish
<1>4. /\ job' \in [Tabs -> [Slots -> Jobs]] /\ job'[t][s] = j
      /\ \A r \in Slots \ {s} : job'[t][r] = job[t][r]
      /\ \A u \in Tabs \ {t} : job'[u] = job[u]
      /\ OthersStay(t, s)
  BY <1>1, <1>3, JobsSet
<1>5. LockQueue'
  <2>1. job[t][s].pc = "none"
    BY NoJobOk
  <2> QED BY <1>3, <1>4, <2>1, QueueEnters DEF SessionInv
<1>6. BrowserTypes' /\ CookieOk'
  BY <1>2, <1>3, <1>4 DEF SessionInv, BrowserTypes, CookieOk
<1>7. TabInv(t)'
  <2>1. CASE s = "main"
    <3>1. job'[t]["main"] = j /\ job'[t]["sync"] = job[t]["sync"]
      BY <1>4, <2>1 DEF Slots
    <3> QED BY <1>2, <1>3, <2>1, <3>1 DEF TabInv
  <2>2. CASE s = "sync"
    <3>1. job'[t]["main"] = job[t]["main"] /\ job'[t]["sync"] = j
      BY <1>4, <2>2 DEF Slots
    <3> QED BY <1>2, <1>3, <2>2, <3>1 DEF TabInv
  <2> QED BY <1>1, <2>1, <2>2
<1> QED BY <1>2, <1>3, <1>4, <1>5, <1>6, <1>7, OneTabMoves

\* A tab changes alone, without a job.
LEMMA TabStep ==
    ASSUME SessionInv, NEW t \in Tabs, NEW v \in Controllers, tab' = [tab EXCEPT ![t] = v],
           TabOk(v, job[t]["main"], job[t]["sync"], marker, owner),
           UNCHANGED <<cookie, job, lock>>, NoPublish
    PROVE  SessionInv'
<1>1. tab \in [Tabs -> Controllers]
  BY DEF SessionInv, BrowserTypes
<1>2. tab' \in [Tabs -> Controllers] /\ tab'[t] = v /\ \A u \in Tabs \ {t} : tab'[u] = tab[u]
  BY <1>1
<1>3. job' = job /\ lock' = lock /\ cookie' = cookie /\ marker' = marker /\ owner' = owner
  BY DEF NoPublish
<1>4. BrowserTypes' /\ CookieOk'
  BY <1>2, <1>3 DEF SessionInv, BrowserTypes, CookieOk
<1>6. LockQueue'
  BY <1>3 DEF SessionInv, LockQueue
<1>5. TabInv(t)'
  BY <1>2, <1>3 DEF TabInv
<1> QED BY <1>2, <1>3, <1>4, <1>5, <1>6, OneTabMoves

LEMMA EnteringKeeps ==
    ASSUME SessionInv, NEW t \in Tabs,
           \/ Initialize(t) \/ Synchronize(t) \/ Unavailable(t)
           \/ \E op \in Ops : Submit(t, op)
    PROVE  SessionInv'
<1>1. PICK w, m, y : w = tab[t] /\ m = job[t]["main"] /\ y = job[t]["sync"]
  OBVIOUS
<1>2. /\ tab \in [Tabs -> Controllers] /\ w \in Controllers /\ m \in Jobs /\ y \in Jobs
      /\ TabOk(w, m, y, marker, owner) /\ ShownOk(w, owner)
      /\ "main" \in Slots /\ "sync" \in Slots
  BY <1>1, TabFacts DEF Slots
<1>3. JobOk(NoJob, w, owner) /\ NoJob \in Jobs /\ NoJob.pc = "none" /\ NoJob.op = "none"
  BY NoJobOk
<1>4. CASE Initialize(t)
  <2>1. PICK j : j = [NoJob EXCEPT !.op = "initialize", !.pc = "waiting"]
    OBVIOUS
  <2>2. PICK v : v = IF IsOpen(t) THEN w ELSE Opened
    OBVIOUS
  <2>3. /\ m = NoJob /\ w.status \in {"closed", "anonymous", "authenticated"}
        /\ tab' = [tab EXCEPT ![t] = v] /\ Enqueue(t, "main", j)
        /\ UNCHANGED cookie /\ NoPublish
    BY <1>1, <1>4, <2>1, <2>2 DEF Initialize
  <2>4. /\ j \in Jobs /\ j.pc = "waiting" /\ j.op = "initialize" /\ j.expected = "none"
    BY <2>1 DEF NoJob, Jobs
  <2>5. \A x : JobOk(j, x, owner)
    BY <2>4 DEF JobOk, Ops, SignIns, Kept
  <2>6. CASE w.status # "closed"
    <3>1. v = w
      BY <1>1, <2>2, <2>6 DEF IsOpen
    <3>2. TabOk(v, j, y, marker, owner)
      BY <1>2, <2>3, <2>4, <2>5, <2>6, <3>1 DEF TabOk
    <3> QED BY <1>1, <1>2, <2>3, <2>4, <3>1, <3>2, EnterStep
  <2>7. CASE w.status = "closed"
    <3>1. /\ v \in Controllers /\ v.status = "loading" /\ v.seen = "none"
          /\ v.credential = None
      BY <1>1, <2>2, <2>7 DEF IsOpen, Opened, Closed, Controllers
    <3>2. w.seen = "none" /\ y.pc = "none"
      BY <1>2, <2>7 DEF TabOk
    <3>3. JobOk(y, v, owner) /\ y.op \in {"none", "synchronize"}
      BY <1>2, <3>1, <3>2, JobStaysOk DEF TabOk
    <3>4. ShownOk(v, owner)
      BY <3>1 DEF ShownOk
    <3>5. TabOk(v, j, y, marker, owner)
      BY <2>4, <2>5, <3>1, <3>2, <3>3, <3>4 DEF TabOk
    <3> QED BY <1>1, <1>2, <2>3, <2>4, <3>1, <3>5, EnterStep
  <2> QED BY <2>6, <2>7
<1>5. CASE Synchronize(t)
  <2>1. PICK v : v = Observe(w)
    OBVIOUS
  <2>2. /\ w.status # "closed" /\ tab' = [tab EXCEPT ![t] = v] /\ UNCHANGED cookie /\ NoPublish
        /\ tab'[t] = v
    BY <1>1, <1>2, <1>5, <2>1 DEF Synchronize, IsOpen
  <2>3. /\ v \in Controllers /\ v.seen = "current"
        /\ Changed(w) => v.status \in {"loading", "anonymous"}
        /\ ~Changed(w) => v.status = w.status
    BY <1>2, <2>1, ObserveIs
  <2>4. CASE y = NoJob /\ v.restore /\ marker = "signed-in"
    <3>1. PICK j : j = [NoJob EXCEPT !.op = "synchronize", !.pc = "waiting"]
      OBVIOUS
    <3>2. Enqueue(t, "sync", j)
      BY <1>1, <1>5, <2>2, <2>4, <3>1 DEF Synchronize
    <3>3. j \in Jobs /\ j.pc = "waiting" /\ j.op = "synchronize" /\ j.expected = "none"
      BY <3>1 DEF NoJob, Jobs
    <3>4. JobOk(j, v, owner)
      BY <3>3 DEF JobOk, Ops, SignIns, Kept
    <3>5. ShownOk(v, owner)
      BY <1>2, <2>1, ObserveShows
    <3>6. m.expected = "current" => v.status # "loading"
      BY <1>2, <2>1, ObserveLeavesMain
    <3>7. v.status # "closed"
      BY <2>2, <2>3
    <3>8. TabOk(v, m, j, marker, owner)
      BY <1>2, <2>3, <2>4, <3>3, <3>4, <3>5, <3>6, <3>7, SyncGoesOn
    <3> QED BY <1>1, <1>2, <2>2, <2>3, <2>4, <3>2, <3>3, <3>8, EnterStep
  <2>5. CASE ~(y = NoJob /\ v.restore /\ marker = "signed-in")
    <3>1. UNCHANGED <<job, lock>>
      BY <1>1, <1>5, <2>2, <2>5 DEF Synchronize
    <3>2. v.restore /\ marker = "signed-in" => y.pc # "none"
      BY <1>2, <2>5 DEF TabOk, JobOk
    <3>3. TabOk(v, m, y, marker, owner)
      BY <1>2, <2>1, <2>2, <3>2, TabObserves
    <3> QED BY <1>1, <2>2, <2>3, <3>1, <3>3, TabStep
  <2> QED BY <2>4, <2>5
<1>6. CASE Unavailable(t)
  <2>1. PICK v : v = Failed(w, "blocked")
    OBVIOUS
  <2>2. /\ w.status # "closed" /\ tab' = [tab EXCEPT ![t] = v]
        /\ UNCHANGED <<cookie, job, lock>> /\ NoPublish
    BY <1>1, <1>6, <2>1 DEF Unavailable, IsOpen
  <2>3. v \in Controllers /\ v.seen = w.seen /\ v.status \notin {"loading", "closed"}
    BY <1>2, <2>1, <2>2, FailedIs
  <2>4. ShownOk(v, owner)
    BY <1>2, <2>1, <2>2, FailureShows
  <2>5. TabOk(v, m, y, marker, owner)
    BY <1>2, <2>3, <2>4, TabSettles
  <2> QED BY <1>1, <2>2, <2>3, <2>5, TabStep
<1>7. ASSUME NEW op \in Ops, Submit(t, op) PROVE SessionInv'
  <2>1. m = NoJob /\ op \in Offered(w) /\ UNCHANGED cookie /\ NoPublish
    BY <1>1, <1>7 DEF Submit
  <2>2. w.status \in {"authenticated", "anonymous"} /\ w.seen # "none"
    <3>1. w.status \in {"authenticated", "anonymous"}
      BY <2>1 DEF Offered
    <3> QED BY <1>2, <3>1 DEF ShownOk
  <2>3. PICK v : v = Observe(w)
    OBVIOUS
  <2>4. v \in Controllers /\ v.seen = "current" /\ ShownOk(v, owner)
    BY <1>2, <2>3, ObserveIs, ObserveShows
  <2>5. CASE Changed(w)
    <3>1. PICK x : x = Failed(v, "other")
      OBVIOUS
    <3>2. tab' = [tab EXCEPT ![t] = x] /\ UNCHANGED <<job, lock>>
      BY <1>1, <1>7, <2>3, <2>5, <3>1 DEF Submit
    <3>3. v.status # "closed"
      BY <1>2, <2>3, <2>5, ObserveIs
    <3>4. x \in Controllers /\ x.seen = "current" /\ x.status \notin {"loading", "closed"}
      BY <2>4, <3>1, <3>3, FailedIs
    <3>5. ShownOk(x, owner)
      BY <2>4, <3>1, <3>3, FailureShows
    <3>6. TabOk(x, m, y, marker, owner)
      BY <1>2, <3>4, <3>5, TabSettles
    <3> QED BY <1>1, <2>1, <3>2, <3>4, <3>6, TabStep
  <2>6. CASE ~Changed(w)
    <3>1. PICK j : j = [NoJob EXCEPT !.op = op, !.pc = "waiting", !.expected = "current",
                                     !.shown = IF op \in Kept THEN w.profile ELSE None]
      OBVIOUS
    <3>2. tab' = [tab EXCEPT ![t] = v] /\ Enqueue(t, "main", j)
      BY <1>1, <1>7, <2>3, <2>6, <3>1 DEF Submit
    <3>3. v.status = w.status /\ w.seen = "current"
      BY <1>2, <2>2, <2>3, <2>6, ObserveIs DEF Changed, Controllers
    <3>4. /\ j \in Jobs /\ j.pc = "waiting" /\ j.op = op /\ j.expected = "current"
          /\ j.shown = IF op \in Kept THEN w.profile ELSE None
      <4>1. w.profile \in Accounts \cup {None}
        BY <1>2 DEF Controllers
      <4> QED BY <3>1, <4>1 DEF NoJob, Jobs
    <3>5. op \in Kept => w.status = "authenticated"
      BY <2>1, <2>2 DEF Offered, Kept, SignIns
    <3>6. owner # Torn /\ j.shown # None => j.shown = owner
      BY <1>2, <3>3, <3>4, <3>5 DEF ShownOk
    <3>7. op \notin {"none", "synchronize"}
      BY DEF Ops, SignIns, Kept
    <3>8. JobOk(j, v, owner)
      BY <2>4, <3>4, <3>6, <3>7 DEF JobOk
    <3>9. TabOk(v, j, y, marker, owner)
      BY <1>2, <2>2, <2>4, <3>3, <3>4, <3>7, <3>8, MainGoesOn
    <3> QED BY <1>1, <1>2, <2>1, <2>4, <3>2, <3>4, <3>9, EnterStep
  <2> QED BY <2>5, <2>6
<1> QED BY <1>4, <1>5, <1>6, <1>7

LEMMA ClosingKeeps ==
    ASSUME SessionInv, NEW t \in Tabs, Close(t)
    PROVE  SessionInv'
<1>1. /\ tab \in [Tabs -> Controllers] /\ job \in [Tabs -> [Slots -> Jobs]]
      /\ BrowserTypes /\ CookieOk /\ LockQueue
  BY DEF SessionInv, BrowserTypes
<1>2. /\ tab' = [tab EXCEPT ![t] = Closed] /\ marker' = marker /\ lock' = Withdrawn(t)
      /\ job' = [job EXCEPT ![t] = [s \in Slots |-> NoJob]]
  BY DEF Close
<1>3. \A v : JobOk(NoJob, v, owner') /\ NoJob \in Jobs /\ NoJob.pc = "none"
             /\ NoJob.expected = "none" /\ NoJob.op = "none"
  BY NoJobOk
<1>4. /\ Closed \in Controllers /\ Closed.status = "closed" /\ Closed.seen = "none"
      /\ Closed.credential = None
  BY DEF Closed, Controllers
<1>5. tab' \in [Tabs -> Controllers] /\ tab'[t] = Closed
      /\ \A u \in Tabs \ {t} : tab'[u] = tab[u]
  BY <1>1, <1>2, <1>4
<1>6. /\ job' \in [Tabs -> [Slots -> Jobs]] /\ \A s \in Slots : job'[t][s] = NoJob
      /\ \A u \in Tabs \ {t} : job'[u] = job[u]
  BY <1>1, <1>2, <1>3
<1>7. LockQueue'
  <2>1. /\ \A s \in Slots : job'[t][s].pc = "none"
        /\ \A u \in Tabs \ {t}, r \in Slots : job'[u][r] = job[u][r]
    BY <1>3, <1>6
  <2> QED BY <1>1, <1>2, <2>1, QueueWithdraws
<1>8. /\ cookie' \in {None} \cup [account : Accounts, token : {"good", "used", "dead"}]
      /\ owner' \in {owner, Torn} /\ CookieOk'
  <2>1. CASE UNCHANGED <<cookie, owner>>
    BY <2>1, CookieStays
  <2>2. ASSUME NEW s \in Slots, cookie' = Processed(job[t][s]), owner' = owner
        PROVE  /\ cookie' \in {None} \cup [account : Accounts, token : {"good", "used", "dead"}]
               /\ owner' \in {owner, Torn} /\ CookieOk'
    <3>1. PICK j : j = job[t][s]
      OBVIOUS
    <3>2. j \in Jobs
      BY <1>1, <3>1
    <3>3. /\ Processed(j) \in {None} \cup [account : Accounts, token : {"good", "used", "dead"}]
          /\ owner # Torn /\ Processed(j) # None => Processed(j).account = owner
      BY <1>1, <3>2, CookieKeptProcessed
    <3> QED BY <2>2, <3>1, <3>3 DEF CookieOk
  <2>3. ASSUME NEW s \in Slots, cookie' = Stored(job[t][s]), owner' = Unpublished(job[t][s])
        PROVE  /\ cookie' \in {None} \cup [account : Accounts, token : {"good", "used", "dead"}]
               /\ owner' \in {owner, Torn} /\ CookieOk'
    <3>1. PICK j : j = job[t][s]
      OBVIOUS
    <3>2. j \in Jobs /\ (j.pc = "send" /\ j.op \in SignIns => j.account \in Accounts)
      BY <3>1, TabFacts DEF JobOk
    <3>3. /\ Stored(j) \in {None} \cup [account : Accounts, token : {"good", "used", "dead"}]
          /\ Unpublished(j) \in {owner, Torn}
          /\ Unpublished(j) # Torn /\ Stored(j) # None => Stored(j).account = owner
      BY <1>1, <3>2, CookieKeptStored
    <3> QED BY <2>3, <3>1, <3>3 DEF CookieOk
  <2> QED BY <2>1, <2>2, <2>3 DEF Close
<1>9. BrowserTypes'
  BY <1>1, <1>2, <1>5, <1>6, <1>8 DEF BrowserTypes
<1>10. TabInv(t)'
  <2>1. ShownOk(Closed, owner')
    BY <1>4 DEF ShownOk
  <2>2. TabOk(Closed, NoJob, NoJob, marker, owner')
    BY <1>3, <1>4, <2>1 DEF TabOk
  <2>3. job'[t]["main"] = NoJob /\ job'[t]["sync"] = NoJob
    BY <1>6 DEF Slots
  <2> QED BY <1>2, <1>5, <2>2, <2>3 DEF TabInv
<1> QED BY <1>2, <1>5, <1>6, <1>7, <1>8, <1>9, <1>10, OneTabMoves

LEMMA SessionInvStarts == Init => SessionInv
<1> SUFFICES ASSUME Init PROVE SessionInv
  OBVIOUS
<1>1. \A v : JobOk(NoJob, v, owner) /\ NoJob \in Jobs /\ NoJob.pc = "none"
             /\ NoJob.expected = "none" /\ NoJob.op = "none"
  BY NoJobOk
<1>2. /\ Closed \in Controllers /\ Closed.status = "closed" /\ Closed.seen = "none"
      /\ Closed.credential = None
  BY DEF Closed, Controllers
<1>3. BrowserTypes /\ CookieOk
  BY <1>1, <1>2 DEF Init, BrowserTypes, CookieOk
<1>4. LockQueue
  <2>1. lock \in Seq(Tabs \X Slots) /\ Len(lock) = 0
    BY DEF Init
  <2>2. \A t \in Tabs, s \in Slots : job[t][s].pc = "none"
    BY <1>1 DEF Init
  <2> QED BY <2>1, <2>2 DEF LockQueue
<1>5. ASSUME NEW t \in Tabs PROVE TabInv(t)
  <2>1. tab[t] = Closed /\ job[t]["main"] = NoJob /\ job[t]["sync"] = NoJob
    BY DEF Init, Slots
  <2>2. ShownOk(Closed, owner)
    BY <1>2 DEF ShownOk
  <2>3. TabOk(Closed, NoJob, NoJob, marker, owner)
    BY <1>1, <1>2, <2>2 DEF TabOk
  <2> QED BY <2>1, <2>3 DEF TabInv
<1> QED BY <1>3, <1>4, <1>5 DEF SessionInv

LEMMA SessionInvHolds == SessionInv /\ [Next]_vars => SessionInv'
<1> SUFFICES ASSUME SessionInv, [Next]_vars PROVE SessionInv'
  OBVIOUS
<1>1. CASE Elsewhere \/ UNCHANGED vars
  <2>1. tab' = tab /\ job' = job /\ lock' = lock /\ marker' = marker /\ owner' = owner
    BY <1>1 DEF Elsewhere, NoPublish, vars
  <2>2. /\ CookieOk'
        /\ cookie' \in {None} \cup [account : Accounts, token : {"good", "used", "dead"}]
    <3>1. CASE cookie' = cookie
      BY <2>1, <3>1, CookieStays
    <3>2. CASE cookie' = None
      BY <3>2 DEF CookieOk
    <3>3. CASE cookie # None /\ cookie' = Ended(cookie)
      <4>1. cookie' = [cookie EXCEPT !.token = "dead"]
        BY <3>3 DEF Ended
      <4>2. cookie \in [account : Accounts, token : {"good", "used", "dead"}]
        BY <3>3 DEF SessionInv, BrowserTypes
      <4>3. /\ cookie' \in [account : Accounts, token : {"good", "used", "dead"}]
            /\ cookie'.account = cookie.account
        BY <4>1, <4>2
      <4> QED BY <2>1, <3>3, <4>3 DEF SessionInv, CookieOk
    <3> QED BY <1>1, <3>1, <3>2, <3>3 DEF Elsewhere, vars
  <2>3. BrowserTypes'
    BY <2>1, <2>2 DEF SessionInv, BrowserTypes
  <2>4. LockQueue'
    BY <2>1 DEF SessionInv, LockQueue
  <2>5. \A t \in Tabs : TabInv(t)'
    BY <2>1 DEF SessionInv, TabInv
  <2> QED BY <2>2, <2>3, <2>4, <2>5 DEF SessionInv
<1>2. ASSUME NEW t \in Tabs, NEW s \in Slots, Start(t, s) \/ Answer(t, s) PROVE SessionInv'
  BY <1>2, StartKeeps, PublishingKeeps, RefreshKeeps, AnswersKeep DEF Answer
<1>3. ASSUME NEW t \in Tabs,
             \/ Initialize(t) \/ Synchronize(t) \/ Unavailable(t) \/ Close(t)
             \/ \E op \in Ops : Submit(t, op)
      PROVE  SessionInv'
  BY <1>3, EnteringKeeps, ClosingKeeps
<1> QED
  BY <1>1, <1>2, <1>3 DEF Next, UnderLock

\* The invariant of the lock, the cookies, the tabs and their jobs holds in
\* every state of the browser.
THEOREM SessionInvariant == Spec => []SessionInv
BY SessionInvStarts, SessionInvHolds, PTL DEF Spec

\* However many tabs share the cookies and however long a request waits for
\* the lock: it is never carried out for another account than the one its
\* user saw, and no tab that knows the marker shows an account that is not
\* logged in to; except after a login whose cookies arrived without a marker.
THEOREM TabsAlwaysStayWithAccount == Spec => []TabsStayWithAccount
<1>1. SessionInv => TabsStayWithAccount
  <2> SUFFICES ASSUME SessionInv, owner # Torn
               PROVE  /\ cookie # None => cookie.account = owner
                      /\ \A t \in Tabs :
                            tab[t].status = "authenticated" /\ tab[t].seen = "current" =>
                                tab[t].profile = owner
                      /\ \A t \in Tabs :
                            /\ <<t, "main">> \in Running /\ job[t]["main"].expected # "none"
                            /\ job[t]["main"].shown # None /\ cookie # None
                            => cookie.account = job[t]["main"].shown
    BY DEF TabsStayWithAccount
  <2>1. cookie # None => cookie.account = owner
    BY DEF SessionInv, CookieOk
  <2>2. ASSUME NEW t \in Tabs, tab[t].status = "authenticated", tab[t].seen = "current"
        PROVE  tab[t].profile = owner
    BY <2>2 DEF SessionInv, TabInv, TabOk, ShownOk
  <2>3. ASSUME NEW t \in Tabs, <<t, "main">> \in Running, job[t]["main"].expected # "none",
               job[t]["main"].shown # None
        PROVE  job[t]["main"].shown = owner
    <3>1. PICK j : j = job[t]["main"]
      OBVIOUS
    <3>2. Sent(t, "main")
      BY <2>3 DEF Running
    <3>3. j.pc \notin {"none", "waiting"}
      BY <3>1, <3>2 DEF Sent
    <3>4. j \in Jobs /\ JobOk(j, tab[t], owner)
      BY <3>1, TabFacts DEF Slots
    <3>5. j.expected = "current"
      BY <2>3, <3>1, <3>3, <3>4 DEF JobOk, Jobs
    <3> QED BY <2>3, <3>1, <3>4, <3>5 DEF JobOk
  <2> QED BY <2>1, <2>2, <2>3
<1> QED BY <1>1, SessionInvariant, PTL

\* No interleaving of failures, of changes made by other tabs and of events
\* that arrive while a request waits leaves a tab loading with nothing queued
\* to end it.
THEOREM NoTabStaysLoading == Spec => []NoTabLeftLoading
<1>1. SessionInv => NoTabLeftLoading
  <2> SUFFICES ASSUME SessionInv, NEW t \in Tabs, tab[t].status = "loading"
               PROVE  \E s \in Slots, i \in DOMAIN lock :
                         lock[i] = <<t, s>> /\ job[t][s] # NoJob
    BY DEF NoTabLeftLoading
  <2>1. PICK s \in Slots : job[t][s].pc # "none"
    BY DEF SessionInv, TabInv, TabOk, Slots
  <2>2. PICK i \in 1..Len(lock) : lock[i] = <<t, s>>
    BY <2>1 DEF SessionInv, LockQueue
  <2>3. DOMAIN lock = 1..Len(lock)
    BY DEF SessionInv, LockQueue
  <2>4. job[t][s] # NoJob
    BY <2>1, NoJobOk
  <2> QED BY <2>2, <2>3, <2>4
<1> QED BY <1>1, SessionInvariant, PTL

=============================================================================
