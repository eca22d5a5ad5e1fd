-------------------------- MODULE AuditTrailProofs ---------------------------
(***************************************************************************)
(* The audit trail is complete and exact, for every history of mutations,  *)
(* every number of rows and every behaviour of the database clock.         *)
(*                                                                         *)
(* The inductive invariant relates every row to the newest of its log      *)
(* entries, field by field; the rest of the catalog's invariant comes from *)
(* AtomicCatalogProofs.                                                    *)
(***************************************************************************)
EXTENDS AuditTrail, AtomicCatalogProofs, WellFoundedInduction

FieldLog(d, field) == {e \in dimLog : e.id = d /\ e.field = field}
DimLogOf(d) == {e \in dimLog : e.id = d}
McLogOf(m) == {e \in mcLog : e.id = m}

\* The one newest entry.
Latest(entries, e) ==
    e \in entries /\ \A f \in entries : f = e \/ f.version < e.version

\* The log of one Dimension: the newest entry of each field holds its value,
\* and the newest of all its version and time.
DimLogged(d) ==
    IF Exists(dim[d])
    THEN /\ \E e \in dimLog : Latest(FieldLog(d, "CODE"), e) /\ e.new = dim[d].code
         /\ \E e \in dimLog : Latest(FieldLog(d, "VALUE"), e) /\ e.new = dim[d].val
         /\ \/ FieldLog(d, "DELETED") = {} /\ dim[d].st = "active"
            \/ \E e \in dimLog : /\ Latest(FieldLog(d, "DELETED"), e)
                                 /\ e.new = (dim[d].st = "deleted")
         /\ \E e \in DimLogOf(d) : e.version = dim[d].version
         /\ \A e \in DimLogOf(d) :
                /\ e.version <= dim[d].version
                /\ e.version = dim[d].version => e.at = dimAt[d]
    ELSE DimLogOf(d) = {}

\* The log of one MasterCode: its newest entry is a snapshot of the row.
McLogged(m) ==
    IF Exists(mc[m])
    THEN \E e \in mcLog : /\ Latest(McLogOf(m), e)
                          /\ e.version = mc[m].version /\ e.new = Snapshot(mc[m])
    ELSE McLogOf(m) = {}

LogTypes ==
    /\ ctx.cs \in Nat
    /\ \A e \in dimLog : e.id \in Dims /\ e.version \in Nat /\ e.cs \in 0..ctx.cs
    /\ \A e \in mcLog : e.id \in Mcs /\ e.version \in Nat /\ e.cs \in 0..ctx.cs

\* The time stamps of the rows are bounded, as the readings of a clock are.
Stamped ==
    /\ dimAt \in [Dims -> Nat] /\ mcAt \in [Mcs -> Nat]
    /\ \E last \in Nat : /\ \A d \in Dims : dimAt[d] <= last
                         /\ \A m \in Mcs : mcAt[m] <= last

AuditInv ==
    /\ CatalogOK(dim, mc) /\ KeysUnique(dim, mc)
    /\ Stamped /\ LogTypes
    /\ \A d \in Dims : DimLogged(d)
    /\ \A m \in Mcs : McLogged(m)
    /\ LogKeysUnique
    /\ RecompositionsExplained

-----------------------------------------------------------------------------
(***************************************************************************)
(* Clock readings.                                                         *)
(***************************************************************************)

\* A bounded set of naturals has a greatest element, and Max is it.
LEMMA GreatestBounded ==
    ASSUME NEW b \in Nat, NEW S, S \subseteq Nat, S # {}, \A y \in S : y <= b
    PROVE  Max(S) \in S /\ \A y \in S : y <= Max(S)
<1>1. PICK R : R = {ss \in Nat \X Nat : ss[1] < ss[2]}
  OBVIOUS
<1>2. IsWellFoundedOn(R, Nat)
  BY <1>1, NatLessThanWellFounded DEF OpToRel
<1>3. PICK T : T = {b - n : n \in S}
  OBVIOUS
<1>4. \A n \in S : b - n \in Nat
  OBVIOUS
<1>5. T \subseteq Nat /\ T # {}
  BY <1>3, <1>4
<1>6. PICK x \in T : \A y \in T : ~(<<y, x>> \in R)
  BY <1>2, <1>5, WFMin, Zenon
<1>7. \A y \in T : ~(y < x)
  BY <1>1, <1>5, <1>6
<1>8. PICK g \in S : x = b - g
  BY <1>3
<1>9. \A y \in S : g >= y
  <2>1. SUFFICES ASSUME NEW y \in S PROVE g >= y
    OBVIOUS
  <2>2. b - y \in T
    BY <1>3
  <2>3. ~(b - y < b - g)
    BY <1>7, <1>8, <2>2
  <2> QED BY <2>3
<1>10. Max(S) \in S /\ \A y \in S : Max(S) >= y
  BY <1>8, <1>9 DEF Max
<1> QED BY <1>10

\* The first instant is a clock reading.
LEMMA FirstReading == Min(Times) \in Nat
<1>1. PICK R : R = {ss \in Nat \X Nat : ss[1] < ss[2]}
  OBVIOUS
<1>2. IsWellFoundedOn(R, Nat)
  BY <1>1, NatLessThanWellFounded DEF OpToRel
<1>3. PICK x \in Times : \A y \in Times : ~(<<y, x>> \in R)
  BY <1>2, TimesAssumption, WFMin, Zenon
<1>4. ASSUME NEW y \in Times PROVE x =< y
  <2>1. x \in Nat /\ y \in Nat /\ ~(<<y, x>> \in R)
    BY <1>3, TimesAssumption
  <2>2. ~(y < x)
    BY <1>1, <2>1
  <2> QED BY <2>1, <2>2
<1>5. Min(Times) \in Times
  BY <1>3, <1>4 DEF Min
<1> QED BY <1>5, TimesAssumption

-----------------------------------------------------------------------------
(***************************************************************************)
(* Log entries.                                                            *)
(***************************************************************************)

\* The newest entry of a set that has one is found by its version.
LEMMA NewestIsLatest ==
    ASSUME NEW S, NEW e, Latest(S, e), \A f \in S : f.version \in Nat
    PROVE  Newest(S) = e
<1>1. e \in S /\ \A f \in S : f.version <= e.version
  BY DEF Latest
<1>2. Newest(S) \in S /\ \A f \in S : f.version <= Newest(S).version
  BY <1>1 DEF Newest
<1>3. ~(Newest(S).version < e.version)
  BY <1>1, <1>2
<1> QED BY <1>2, <1>3 DEF Latest

\* The fields of an entry.
LEMMA EntryFields ==
    ASSUME NEW c, NEW d, NEW row, NEW at, NEW operation, NEW field, NEW old, NEW new,
           NEW e, e = DimEntry(c, d, row, at, operation, field, old, new)
    PROVE  /\ e.id = d /\ e.cs = c.cs /\ e.version = row.version
           /\ e.operation = operation /\ e.field = field
           /\ e.old = old /\ e.new = new /\ e.at = at
BY DEF DimEntry

\* What a statement appends about one Dimension.
EntriesOf(c, d, old, new, at) ==
    IF Exists(old) THEN DimUpdateEntries(c, d, old, new, at)
    ELSE DimInsertEntries(c, d, new, at)

\* Every entry tells one field of the row written.
LEMMA EntriesTell ==
    ASSUME NEW c, NEW d, NEW old, NEW new, NEW at,
           NEW e \in EntriesOf(c, d, old, new, at)
    PROVE  /\ e.id = d /\ e.cs = c.cs /\ e.version = new.version /\ e.at = at
           /\ \/ /\ e.field = "CODE" /\ e.new = new.code
                 /\ IF Exists(old)
                    THEN e.operation = "UPDATE" /\ e.old = old.code /\ old.code # new.code
                    ELSE e.operation = "CREATE" /\ e.old = None
              \/ /\ e.field = "VALUE" /\ e.new = new.val
                 /\ IF Exists(old)
                    THEN e.operation = "UPDATE" /\ e.old = old.val /\ old.val # new.val
                    ELSE e.operation = "CREATE" /\ e.old = None
              \/ /\ e.field = "DELETED" /\ e.new = (new.st = "deleted")
                 /\ Exists(old) /\ e.old = (old.st = "deleted") /\ e.old # e.new
                 /\ e.operation = (IF new.st = "active" THEN "RESTORE" ELSE "DELETE")
<1>1. CASE Exists(old)
  <2>1. /\ e.old # e.new
        /\ \/ e = DimEntry(c, d, new, at, IF new.st = "active" THEN "RESTORE" ELSE "DELETE",
                           "DELETED", old.st = "deleted", new.st = "deleted")
           \/ e = DimEntry(c, d, new, at, "UPDATE", "CODE", old.code, new.code)
           \/ e = DimEntry(c, d, new, at, "UPDATE", "VALUE", old.val, new.val)
    BY <1>1 DEF EntriesOf, DimUpdateEntries
  <2>2. CASE e = DimEntry(c, d, new, at, IF new.st = "active" THEN "RESTORE" ELSE "DELETE",
                          "DELETED", old.st = "deleted", new.st = "deleted")
    BY <1>1, <2>1, <2>2 DEF DimEntry
  <2>3. CASE e = DimEntry(c, d, new, at, "UPDATE", "CODE", old.code, new.code)
    BY <1>1, <2>1, <2>3 DEF DimEntry
  <2>4. CASE e = DimEntry(c, d, new, at, "UPDATE", "VALUE", old.val, new.val)
    BY <1>1, <2>1, <2>4 DEF DimEntry
  <2> QED BY <2>1, <2>2, <2>3, <2>4
<1>2. CASE ~Exists(old)
  <2>1. \/ e = DimEntry(c, d, new, at, "CREATE", "CODE", None, new.code)
        \/ e = DimEntry(c, d, new, at, "CREATE", "VALUE", None, new.val)
    BY <1>2 DEF EntriesOf, DimInsertEntries
  <2> QED BY <1>2, <2>1 DEF DimEntry
<1> QED BY <1>1, <1>2

\* One entry for a field at most.
LEMMA EntriesDiffer ==
    ASSUME NEW c, NEW d, NEW old, NEW new, NEW at,
           NEW e \in EntriesOf(c, d, old, new, at),
           NEW f \in EntriesOf(c, d, old, new, at), e.field = f.field
    PROVE  e = f
<1>1. CASE Exists(old)
  <2> DEFINE e1 == DimEntry(c, d, new, at, IF new.st = "active" THEN "RESTORE" ELSE "DELETE",
                            "DELETED", old.st = "deleted", new.st = "deleted")
             e2 == DimEntry(c, d, new, at, "UPDATE", "CODE", old.code, new.code)
             e3 == DimEntry(c, d, new, at, "UPDATE", "VALUE", old.val, new.val)
  <2>1. e \in {e1, e2, e3} /\ f \in {e1, e2, e3}
    BY <1>1 DEF EntriesOf, DimUpdateEntries
  <2>2. e1.field = "DELETED" /\ e2.field = "CODE" /\ e3.field = "VALUE"
    BY DEF DimEntry
  <2> QED BY <2>1, <2>2
<1>2. CASE ~Exists(old)
  <2> DEFINE e2 == DimEntry(c, d, new, at, "CREATE", "CODE", None, new.code)
             e3 == DimEntry(c, d, new, at, "CREATE", "VALUE", None, new.val)
  <2>1. e \in {e2, e3} /\ f \in {e2, e3}
    BY <1>2 DEF EntriesOf, DimInsertEntries
  <2>2. e2.field = "CODE" /\ e3.field = "VALUE"
    BY DEF DimEntry
  <2> QED BY <2>1, <2>2
<1> QED BY <1>1, <1>2

\* No field that changed is left out.
LEMMA EntriesComplete ==
    ASSUME NEW c, NEW d, NEW old, NEW new, NEW at
    PROVE  /\ ~Exists(old) \/ old.code # new.code =>
                \E e \in EntriesOf(c, d, old, new, at) : e.field = "CODE"
           /\ ~Exists(old) \/ old.val # new.val =>
                \E e \in EntriesOf(c, d, old, new, at) : e.field = "VALUE"
           /\ Exists(old) /\ (old.st = "deleted") # (new.st = "deleted") =>
                \E e \in EntriesOf(c, d, old, new, at) : e.field = "DELETED"
<1>1. CASE Exists(old)
  <2> DEFINE e1 == DimEntry(c, d, new, at, IF new.st = "active" THEN "RESTORE" ELSE "DELETE",
                            "DELETED", old.st = "deleted", new.st = "deleted")
             e2 == DimEntry(c, d, new, at, "UPDATE", "CODE", old.code, new.code)
             e3 == DimEntry(c, d, new, at, "UPDATE", "VALUE", old.val, new.val)
  <2>1. EntriesOf(c, d, old, new, at) = {e \in {e1, e2, e3} : e.old # e.new}
    BY <1>1 DEF EntriesOf, DimUpdateEntries
  <2>2. /\ e1.field = "DELETED" /\ e1.old = (old.st = "deleted") /\ e1.new = (new.st = "deleted")
        /\ e2.field = "CODE" /\ e2.old = old.code /\ e2.new = new.code
        /\ e3.field = "VALUE" /\ e3.old = old.val /\ e3.new = new.val
    BY DEF DimEntry
  <2> HIDE DEF e1, e2, e3
  <2> QED BY <1>1, <2>1, <2>2
<1>2. CASE ~Exists(old)
  <2> DEFINE e2 == DimEntry(c, d, new, at, "CREATE", "CODE", None, new.code)
             e3 == DimEntry(c, d, new, at, "CREATE", "VALUE", None, new.val)
  <2>1. EntriesOf(c, d, old, new, at) = {e2, e3}
    BY <1>2 DEF EntriesOf, DimInsertEntries
  <2>2. e2.field = "CODE" /\ e3.field = "VALUE"
    BY DEF DimEntry
  <2> HIDE DEF e2, e3
  <2> QED BY <1>2, <2>1, <2>2
<1> QED BY <1>1, <1>2

\* The entries of a statement are those of the rows it changes.
LEMMA EntriesOfStatement ==
    ASSUME NEW c, NEW D, NEW E, NEW At
    PROVE  \A e : e \in DimEntries(c, D, E, At) <=>
                \E d \in Dims : D[d] # E[d] /\ e \in EntriesOf(c, d, D[d], E[d], At[d])
BY DEF DimEntries, EntriesOf

-----------------------------------------------------------------------------
(***************************************************************************)
(* Logs grow with the rows.                                                *)
(***************************************************************************)

\* What an operation of the catalog does to the rows it touches.
DimsTouched ==
    \A d \in Dims : dim'[d] # dim[d] =>
        /\ Exists(dim'[d])
        /\ IF Exists(dim[d])
           THEN /\ dim'[d].version = dim[d].version + 1
                /\ \/ dim'[d].code # dim[d].code \/ dim'[d].val # dim[d].val
                   \/ (dim'[d].st = "deleted") # (dim[d].st = "deleted")
           ELSE dim'[d].version = 1 /\ dim'[d].st = "active"
McsTouched ==
    \A m \in Mcs : mc'[m] # mc[m] =>
        /\ Exists(mc'[m])
        /\ IF Exists(mc[m]) THEN mc'[m].version = mc[m].version + 1
           ELSE mc'[m].version = 1 /\ mc'[m].st = "active"

\* Every atomic operation changes something of each row it touches, or
\* inserts it.
LEMMA AtomicTouches ==
    ASSUME CatalogOK(dim, mc), AtomicNext
    PROVE  DimsTouched /\ McsTouched
<1>1. /\ dim \in [Dims -> DimRow] /\ mc \in [Mcs -> McRow]
  BY DEF CatalogOK
<1>2. ASSUME NEW d \in Dims, NEW code \in Codes, NEW val \in Vals,
             CreateDimension(d, code, val)
      PROVE  DimsTouched /\ McsTouched
  BY <1>1, <1>2 DEF CreateDimension, NewDim, Exists, DimsTouched, McsTouched
<1>3. ASSUME NEW d \in Dims, NEW code \in Codes \cup {None}, NEW val \in Vals \cup {None},
             ChangeDimension(d, code, val)
      PROVE  DimsTouched /\ McsTouched
  <2>1. DimsTouched
    BY <1>1, <1>3 DEF ChangeDimension, ChangeDim, Exists, DimsTouched
  <2>2. McsTouched
    BY <1>1, <1>3 DEF ChangeDimension, Recompose, NextMasterCode, References, Exists,
       McsTouched
  <2> QED BY <2>1, <2>2
<1>4. ASSUME NEW d \in Dims, DeleteDimension(d) \/ RestoreDimension(d)
      PROVE  DimsTouched /\ McsTouched
  BY <1>1, <1>4 DEF DeleteDimension, RestoreDimension, TransitionDeletion, Exists,
     DimsTouched, McsTouched
<1>5. ASSUME NEW m \in Mcs, NEW refs \in Refs, NEW code \in Codes, NEW val \in Vals,
             CreateMasterCode(m, refs, code, val) \/ ReplaceReferences(m, refs, code, val)
      PROVE  DimsTouched /\ McsTouched
  <2>1. dim' = WithInline(refs, code, val)
    BY <1>5 DEF CreateMasterCode, ReplaceReferences
  <2>2. DimsTouched
    BY <2>1 DEF WithInline, NewDim, Exists, DimsTouched
  <2>3. CASE CreateMasterCode(m, refs, code, val)
    BY <1>1, <2>2, <2>3 DEF CreateMasterCode, NewMasterCode, Exists, McsTouched
  <2>4. CASE ReplaceReferences(m, refs, code, val)
    BY <1>1, <2>2, <2>4 DEF ReplaceReferences, UpdateReferences, NextMasterCode, Exists,
       McsTouched
  <2> QED BY <1>5, <2>3, <2>4
<1>6. ASSUME NEW m \in Mcs, Delete(m) \/ Restore(m)
      PROVE  DimsTouched /\ McsTouched
  BY <1>1, <1>6 DEF Delete, Restore, DeleteMasterCode, RestoreMasterCode, NextMasterCode,
     Exists, DimsTouched, McsTouched
<1> QED BY <1>2, <1>3, <1>4, <1>5, <1>6, Zenon DEF AtomicNext

\* A newer entry is the newest.
LEMMA LatestOfNew ==
    ASSUME NEW S, NEW N, NEW n, \A f \in S : f.version < n,
           \A f \in N : f.version = n, NEW e \in N, \A f \in N : f = e
    PROVE  Latest(S \cup N, e)
BY DEF Latest

\* The statement that changes rows appends entries that make the log of each
\* of them end with what it is now.
LEMMA DimLogStep ==
    ASSUME AuditInv, DimsTouched, dim' \in [Dims -> DimRow],
           \A d \in Dims : dim'[d] = dim[d] => dimAt'[d] = dimAt[d],
           NEW c, c.cs = ctx.cs + 1,
           dimLog' = dimLog \cup DimEntries(c, dim, dim', dimAt')
    PROVE  /\ \A d \in Dims : DimLogged(d)'
           /\ \A e \in dimLog' : e.id \in Dims /\ e.version \in Nat /\ e.cs \in 0..c.cs
           /\ \A e, f \in dimLog' : e.id = f.id /\ e.cs = f.cs /\ e.field = f.field => e = f
<1> DEFINE New(d) == EntriesOf(c, d, dim[d], dim'[d], dimAt'[d])
<1>1. \A e : e \in dimLog' <=>
        e \in dimLog \/ \E d \in Dims : dim'[d] # dim[d] /\ e \in New(d)
  BY EntriesOfStatement
<1>2. ASSUME NEW d \in Dims, NEW e \in New(d)
      PROVE  e.id = d /\ e.cs = c.cs /\ e.version = dim'[d].version /\ e.at = dimAt'[d]
  BY <1>2, EntriesTell
<1>3. /\ ctx.cs \in Nat
      /\ \A e \in dimLog : e.id \in Dims /\ e.version \in Nat /\ e.cs \in 0..ctx.cs
      /\ \A d \in Dims : DimLogged(d)
      /\ \A e, f \in dimLog : e.id = f.id /\ e.cs = f.cs /\ e.field = f.field => e = f
      /\ dim \in [Dims -> DimRow]
  BY DEF AuditInv, LogTypes, LogKeysUnique, CatalogOK
<1>4. \A d \in Dims : Exists(dim'[d]) => dim'[d].version \in Nat
  BY DimRowShape
<1> HIDE DEF New
<1>5. \A e \in dimLog' : e.id \in Dims /\ e.version \in Nat /\ e.cs \in 0..c.cs
  BY <1>1, <1>2, <1>3, <1>4 DEF DimsTouched
<1>6. ASSUME NEW e \in dimLog', NEW f \in dimLog',
             e.id = f.id, e.cs = f.cs, e.field = f.field
      PROVE  e = f
  <2>1. CASE e \in dimLog /\ f \in dimLog
    BY <1>3, <1>6, <2>1
  <2>2. ASSUME NEW d \in Dims, e \in New(d), f \in dimLog PROVE FALSE
    BY <1>2, <1>3, <1>6, <2>2
  <2>3. ASSUME NEW d \in Dims, f \in New(d), e \in dimLog PROVE FALSE
    BY <1>2, <1>3, <1>6, <2>3
  <2>4. ASSUME NEW d \in Dims, NEW g \in Dims, e \in New(d), f \in New(g) PROVE e = f
    <3>1. d = g
      BY <1>2, <1>6, <2>4
    <3> QED BY <1>6, <2>4, <3>1, EntriesDiffer DEF New
  <2> QED BY <1>1, <2>1, <2>2, <2>3, <2>4
<1>7. ASSUME NEW d \in Dims, dim'[d] = dim[d] PROVE DimLogged(d)'
  <2>1. DimLogOf(d)' = DimLogOf(d)
    BY <1>1, <1>2, <1>7 DEF DimLogOf
  <2>2. /\ FieldLog(d, "CODE")' = FieldLog(d, "CODE")
        /\ FieldLog(d, "VALUE")' = FieldLog(d, "VALUE")
        /\ FieldLog(d, "DELETED")' = FieldLog(d, "DELETED")
    BY <1>1, <1>2, <1>7 DEF FieldLog
  <2>3. dimAt'[d] = dimAt[d] /\ DimLogged(d) /\ dimLog \subseteq dimLog'
    BY <1>1, <1>3, <1>7
  <2> QED BY <1>7, <2>1, <2>2, <2>3 DEF DimLogged, Latest
<1>8. ASSUME NEW d \in Dims, dim'[d] # dim[d] PROVE DimLogged(d)'
  <2>0. PICK n : n = dim'[d].version
    OBVIOUS
  <2>1. /\ Exists(dim'[d]) /\ n \in Nat
        /\ DimLogged(d) /\ dimLog \subseteq dimLog' /\ New(d) \subseteq dimLog'
    BY <1>1, <1>3, <1>4, <1>8, <2>0 DEF DimsTouched
  <2>2. DimLogOf(d)' = DimLogOf(d) \cup New(d)
    BY <1>1, <1>2, <1>8 DEF DimLogOf
  <2>3. ASSUME NEW field
        PROVE  FieldLog(d, field)' = FieldLog(d, field) \cup {e \in New(d) : e.field = field}
    BY <1>1, <1>2, <1>8 DEF FieldLog
  <2>4. \A e \in DimLogOf(d) : e.version < n
    <3>1. CASE Exists(dim[d])
      <4>1. dim[d].version \in Nat /\ n = dim[d].version + 1
        BY <1>3, <1>8, <2>0, <3>1, DimRowShape DEF DimsTouched
      <4>2. \A e \in DimLogOf(d) : e.version <= dim[d].version /\ e.version \in Nat
        BY <1>3, <2>1, <3>1 DEF DimLogged, DimLogOf
      <4> QED BY <4>1, <4>2
    <3>2. CASE ~Exists(dim[d])
      BY <2>1, <3>2 DEF DimLogged
    <3> QED BY <3>1, <3>2
  <2>5. \A e \in New(d) : e.version = n /\ e.at = dimAt'[d]
    BY <1>2, <2>0
  <2>6. New(d) # {}
    BY <1>8, EntriesComplete DEF DimsTouched, New
  <2>7. ASSUME NEW field, NEW e \in New(d), e.field = field
        PROVE  Latest(FieldLog(d, field)', e)
    <3>1. \A f \in {g \in New(d) : g.field = field} : f = e
      BY <2>7, EntriesDiffer DEF New
    <3>2. \A f \in FieldLog(d, field) : f.version < n
      BY <2>4 DEF FieldLog, DimLogOf
    <3>3. PICK N : N = {g \in New(d) : g.field = field}
      OBVIOUS
    <3>4. e \in N /\ (\A f \in N : f.version = n) /\ \A f \in N : f = e
      BY <2>5, <2>7, <3>1, <3>3
    <3>5. Latest(FieldLog(d, field) \cup N, e)
      BY <3>2, <3>4, LatestOfNew
    <3> QED BY <2>3, <3>3, <3>5
  <2>8. ASSUME NEW field, \A e \in New(d) : e.field # field
        PROVE  FieldLog(d, field)' = FieldLog(d, field)
    BY <2>3, <2>8
  <2>9. \E e \in dimLog' : Latest(FieldLog(d, "CODE")', e) /\ e.new = dim'[d].code
    <3>1. CASE \E e \in New(d) : e.field = "CODE"
      <4>1. PICK e \in New(d) : e.field = "CODE"
        BY <3>1
      <4>2. e.new = dim'[d].code
        BY <4>1, EntriesTell DEF New
      <4> QED BY <2>1, <2>7, <4>1, <4>2
    <3>2. CASE \A e \in New(d) : e.field # "CODE"
      <4>1. Exists(dim[d]) /\ dim'[d].code = dim[d].code
        BY <3>2, EntriesComplete DEF New
      <4> QED BY <2>1, <2>8, <3>2, <4>1 DEF DimLogged
    <3> QED BY <3>1, <3>2
  <2>10. \E e \in dimLog' : Latest(FieldLog(d, "VALUE")', e) /\ e.new = dim'[d].val
    <3>1. CASE \E e \in New(d) : e.field = "VALUE"
      <4>1. PICK e \in New(d) : e.field = "VALUE"
        BY <3>1
      <4>2. e.new = dim'[d].val
        BY <4>1, EntriesTell DEF New
      <4> QED BY <2>1, <2>7, <4>1, <4>2
    <3>2. CASE \A e \in New(d) : e.field # "VALUE"
      <4>1. Exists(dim[d]) /\ dim'[d].val = dim[d].val
        BY <3>2, EntriesComplete DEF New
      <4> QED BY <2>1, <2>8, <3>2, <4>1 DEF DimLogged
    <3> QED BY <3>1, <3>2
  <2>11. \/ FieldLog(d, "DELETED")' = {} /\ dim'[d].st = "active"
         \/ \E e \in dimLog' : /\ Latest(FieldLog(d, "DELETED")', e)
                               /\ e.new = (dim'[d].st = "deleted")
    <3>1. CASE \E e \in New(d) : e.field = "DELETED"
      <4>1. PICK e \in New(d) : e.field = "DELETED"
        BY <3>1
      <4>2. e.new = (dim'[d].st = "deleted")
        BY <4>1, EntriesTell DEF New
      <4> QED BY <2>1, <2>7, <4>1, <4>2
    <3>2. CASE \A e \in New(d) : e.field # "DELETED"
      <4>1. FieldLog(d, "DELETED")' = FieldLog(d, "DELETED")
        BY <2>8, <3>2
      <4>2. CASE Exists(dim[d])
        <5>1. (dim'[d].st = "deleted") = (dim[d].st = "deleted")
          BY <3>2, <4>2, EntriesComplete DEF New
        <5>2. dim'[d].st \in {"active", "deleted"} /\ dim[d].st \in {"active", "deleted"}
          BY <1>3, <2>1, <4>2, DimRowShape
        <5> QED BY <2>1, <4>1, <4>2, <5>1, <5>2 DEF DimLogged
      <4>3. CASE ~Exists(dim[d])
        <5>1. dim'[d].st = "active" /\ DimLogOf(d) = {}
          BY <1>8, <2>1, <4>3 DEF DimsTouched, DimLogged
        <5>2. FieldLog(d, "DELETED") \subseteq DimLogOf(d)
          BY DEF FieldLog, DimLogOf
        <5> QED BY <4>1, <5>1, <5>2
      <4> QED BY <4>2, <4>3
    <3> QED BY <3>1, <3>2
  <2>12. \E e \in DimLogOf(d)' : e.version = dim'[d].version
    BY <2>0, <2>2, <2>5, <2>6
  <2>13. \A e \in DimLogOf(d)' : /\ e.version <= dim'[d].version
                                 /\ e.version = dim'[d].version => e.at = dimAt'[d]
    <3>1. \A e \in DimLogOf(d) : e.version \in Nat
      BY <1>3 DEF DimLogOf
    <3> QED BY <2>0, <2>1, <2>2, <2>4, <2>5, <3>1
  <2> QED BY <2>1, <2>9, <2>10, <2>11, <2>12, <2>13 DEF DimLogged
<1> QED BY <1>5, <1>6, <1>7, <1>8

\* What a statement appends about one MasterCode.
McEntryOf(c, m, old, new, at) ==
    IF Exists(old) THEN McUpdateEntry(c, m, old, new, at)
    ELSE McInsertEntry(c, m, new, at)

\* An entry is a snapshot of the row written.
LEMMA McEntryTells ==
    ASSUME NEW c, NEW m, NEW old, NEW new, NEW at, NEW e,
           e = McEntryOf(c, m, old, new, at)
    PROVE  /\ e.id = m /\ e.cs = c.cs /\ e.version = new.version /\ e.at = at
           /\ e.new = Snapshot(new)
           /\ IF Exists(old) THEN e.operation = c.master_code /\ e.old = Snapshot(old)
              ELSE e.operation = "CREATE" /\ e.old = None
<1>1. CASE Exists(old)
  BY <1>1 DEF McEntryOf, McUpdateEntry
<1>2. CASE ~Exists(old)
  BY <1>2 DEF McEntryOf, McInsertEntry
<1> QED BY <1>1, <1>2

\* The entries of a statement are those of the rows it changes.
LEMMA McEntriesOfStatement ==
    ASSUME NEW c, NEW M, NEW N, NEW At
    PROVE  \A e : e \in McEntries(c, M, N, At) <=>
                \E m \in Mcs : M[m] # N[m] /\ e = McEntryOf(c, m, M[m], N[m], At[m])
BY DEF McEntries, McEntryOf

\* The same for MasterCodes: one entry per version.
LEMMA McLogStep ==
    ASSUME AuditInv, McsTouched, mc' \in [Mcs -> McRow],
           NEW c, c.cs = ctx.cs + 1,
           mcLog' = mcLog \cup McEntries(c, mc, mc', mcAt')
    PROVE  /\ \A m \in Mcs : McLogged(m)'
           /\ \A e \in mcLog' : e.id \in Mcs /\ e.version \in Nat /\ e.cs \in 0..c.cs
           /\ \A e, f \in mcLog' : e.id = f.id /\ e.version = f.version => e = f
<1> DEFINE New(m) == McEntryOf(c, m, mc[m], mc'[m], mcAt'[m])
<1>1. \A e : e \in mcLog' <=> e \in mcLog \/ \E m \in Mcs : mc'[m] # mc[m] /\ e = New(m)
  BY McEntriesOfStatement
<1>2. ASSUME NEW m \in Mcs
      PROVE  /\ New(m).id = m /\ New(m).cs = c.cs /\ New(m).version = mc'[m].version
             /\ New(m).new = Snapshot(mc'[m])
  BY McEntryTells
<1>3. /\ ctx.cs \in Nat
      /\ \A e \in mcLog : e.id \in Mcs /\ e.version \in Nat /\ e.cs \in 0..ctx.cs
      /\ \A m \in Mcs : McLogged(m)
      /\ \A e, f \in mcLog : e.id = f.id /\ e.version = f.version => e = f
      /\ mc \in [Mcs -> McRow]
  BY DEF AuditInv, LogTypes, LogKeysUnique, CatalogOK
<1>4. \A m \in Mcs : Exists(mc'[m]) => mc'[m].version \in Nat
  BY McRowShape
<1> HIDE DEF New
<1>5. \A e \in mcLog' : e.id \in Mcs /\ e.version \in Nat /\ e.cs \in 0..c.cs
  BY <1>1, <1>2, <1>3, <1>4 DEF McsTouched
<1>6. ASSUME NEW m \in Mcs, mc'[m] # mc[m], NEW e \in McLogOf(m)
      PROVE  e.version < mc'[m].version
  <2>1. CASE Exists(mc[m])
    <3>1. mc[m].version \in Nat /\ mc'[m].version = mc[m].version + 1
      BY <1>3, <1>6, <2>1, McRowShape DEF McsTouched
    <3>2. PICK f \in mcLog : Latest(McLogOf(m), f) /\ f.version = mc[m].version
      BY <1>3, <2>1 DEF McLogged
    <3>3. e.version \in Nat /\ (e = f \/ e.version < f.version)
      BY <1>3, <1>6, <3>2 DEF McLogOf, Latest
    <3> QED BY <3>1, <3>2, <3>3
  <2>2. CASE ~Exists(mc[m])
    BY <1>3, <1>6, <2>2 DEF McLogged
  <2> QED BY <2>1, <2>2
<1>7. ASSUME NEW e \in mcLog', NEW f \in mcLog', e.id = f.id, e.version = f.version
      PROVE  e = f
  <2>1. CASE e \in mcLog /\ f \in mcLog
    BY <1>3, <1>7, <2>1
  <2>2. ASSUME NEW m \in Mcs, NEW x \in mcLog, mc'[m] # mc[m],
               x.id = New(m).id, x.version = New(m).version
        PROVE  FALSE
    <3>1. x \in McLogOf(m) /\ x.version = mc'[m].version
      BY <1>2, <2>2 DEF McLogOf
    <3>2. x.version < x.version /\ x.version \in Nat
      BY <1>3, <1>6, <2>2, <3>1
    <3> QED BY <3>2
  <2>3. CASE e \notin mcLog /\ f \notin mcLog
    <3>1. PICK m \in Mcs : e = New(m)
      BY <1>1, <2>3
    <3>2. PICK n \in Mcs : f = New(n)
      BY <1>1, <2>3
    <3> QED BY <1>2, <1>7, <3>1, <3>2
  <2> QED BY <1>1, <1>7, <2>1, <2>2, <2>3
<1>8. ASSUME NEW m \in Mcs, mc'[m] = mc[m] PROVE McLogged(m)'
  <2>1. McLogOf(m)' = McLogOf(m)
    BY <1>1, <1>2, <1>8 DEF McLogOf
  <2>2. McLogged(m) /\ mcLog \subseteq mcLog'
    BY <1>1, <1>3
  <2> QED BY <1>8, <2>1, <2>2 DEF McLogged, Latest
<1>9. ASSUME NEW m \in Mcs, mc'[m] # mc[m] PROVE McLogged(m)'
  <2>1. McLogOf(m)' = McLogOf(m) \cup {New(m)}
    BY <1>1, <1>2, <1>9 DEF McLogOf
  <2>2. PICK e : e = New(m)
    OBVIOUS
  <2>3. e.version = mc'[m].version /\ e.new = Snapshot(mc'[m]) /\ e \in mcLog'
    BY <1>1, <1>2, <1>9, <2>2
  <2>4. \A f \in McLogOf(m) : f.version < e.version
    BY <1>6, <1>9, <2>3
  <2>5. Latest(McLogOf(m)', e)
    BY <2>1, <2>2, <2>4 DEF Latest
  <2>6. Exists(mc'[m])
    BY <1>9 DEF McsTouched
  <2> QED BY <2>3, <2>5, <2>6 DEF McLogged
<1> QED BY <1>5, <1>7, <1>8, <1>9

-----------------------------------------------------------------------------
(***************************************************************************)
(* One mutation: its context, its time and the rows it may touch.          *)
(***************************************************************************)

\* The timestamp of a mutation is not before that of any row it read.
LEMMA InstalledTime ==
    ASSUME Stamped, NEW dimension, NEW master_code, NEW minimum,
           minimum \subseteq {dimAt[d] : d \in Dims} \cup {mcAt[m] : m \in Mcs},
           Installed(dimension, master_code, minimum)
    PROVE  /\ ctx'.cs = ctx.cs + 1
           /\ ctx'.dimension = dimension /\ ctx'.master_code = master_code
           /\ ctx'.at \in Nat /\ \A y \in minimum : y <= ctx'.at
<1>1. PICK now \in Times :
        ctx' = NewContext(dimension, master_code, MutationTimestamp(now, minimum))
  BY DEF Installed
<1>2. /\ ctx'.cs = ctx.cs + 1
      /\ ctx'.dimension = dimension /\ ctx'.master_code = master_code
      /\ ctx'.at = Max({now} \cup minimum)
  BY <1>1 DEF NewContext, MutationTimestamp
<1>3. PICK last \in Nat : /\ \A d \in Dims : dimAt[d] <= last
                          /\ \A m \in Mcs : mcAt[m] <= last
  BY DEF Stamped
<1>4. now \in Nat
  BY TimesAssumption
<1>5. PICK b \in Nat : last <= b /\ now <= b
  <2>1. CASE last <= now
    BY <1>4, <2>1
  <2>2. CASE now <= last
    BY <1>4, <2>2
  <2> QED BY <1>3, <1>4, <2>1, <2>2
<1>6. ASSUME NEW y \in minimum PROVE y \in Nat /\ y <= b
  <2>1. CASE \E d \in Dims : y = dimAt[d]
    BY <1>3, <1>5, <2>1 DEF Stamped
  <2>2. CASE \E m \in Mcs : y = mcAt[m]
    BY <1>3, <1>5, <2>2 DEF Stamped
  <2> QED BY <1>6, <2>1, <2>2
<1>7. PICK S : S = {now} \cup minimum
  OBVIOUS
<1>8. S \subseteq Nat /\ S # {} /\ \A y \in S : y <= b
  BY <1>4, <1>5, <1>6, <1>7
<1>9. Max(S) \in S /\ \A y \in S : y <= Max(S)
  BY <1>8, GreatestBounded
<1> QED BY <1>2, <1>7, <1>8, <1>9

\* Flushed rows carry the time they are flushed with.
LEMMA FlushedStamps ==
    ASSUME Stamped, NEW at \in Nat, Flushed(at)
    PROVE  Stamped'
<1>1. /\ dimAt' = [d \in Dims |-> IF dim'[d] = dim[d] THEN dimAt[d] ELSE at]
      /\ mcAt' = [m \in Mcs |-> IF mc'[m] = mc[m] THEN mcAt[m] ELSE at]
  BY DEF Flushed
<1>2. dimAt' \in [Dims -> Nat] /\ mcAt' \in [Mcs -> Nat]
  BY <1>1 DEF Stamped
<1>3. PICK last \in Nat : /\ \A d \in Dims : dimAt[d] <= last
                          /\ \A m \in Mcs : mcAt[m] <= last
  BY DEF Stamped
<1>4. PICK b \in Nat : last <= b /\ at <= b
  <2>1. CASE last <= at
    BY <2>1
  <2>2. CASE at <= last
    BY <2>2
  <2> QED BY <1>3, <2>1, <2>2
<1>5. (\A d \in Dims : dimAt'[d] <= b) /\ \A m \in Mcs : mcAt'[m] <= b
  BY <1>1, <1>3, <1>4 DEF Stamped
<1> QED BY <1>2, <1>4, <1>5 DEF Stamped

\* What AuditNext does: an operation of the catalog under a new context.
Mutation ==
    /\ AtomicNext
    /\ ctx'.cs = ctx.cs + 1
    /\ \E at \in Nat : Flushed(at)

\* Every audited operation is one.
LEMMA AuditIsMutation ==
    ASSUME AuditInv, AuditNext
    PROVE  Mutation
<1>0. Stamped
  BY DEF AuditInv
<1>1. ASSUME NEW dimension, NEW master_code, NEW minimum,
             minimum \subseteq {dimAt[d] : d \in Dims} \cup {mcAt[m] : m \in Mcs},
             Audited(dimension, master_code, minimum)
      PROVE  ctx'.cs = ctx.cs + 1 /\ \E at \in Nat : Flushed(at)
  BY <1>0, <1>1, InstalledTime DEF Audited
<1>2. ASSUME NEW d \in Dims, NEW code \in Codes, NEW val \in Vals,
             AuditedCreateDim(d, code, val)
      PROVE  Mutation
  <2>1. CreateDimension(d, code, val) /\ Installed("CREATE", None, {})
        /\ \E default \in Times : Flushed(default)
    BY <1>2 DEF AuditedCreateDim
  <2>2. ctx'.cs = ctx.cs + 1
    BY <1>0, <2>1, InstalledTime
  <2>3. \E at \in Nat : Flushed(at)
    BY <2>1, TimesAssumption
  <2>4. AtomicNext
    BY <2>1 DEF AtomicNext
  <2> QED BY <2>2, <2>3, <2>4 DEF Mutation
<1>3. ASSUME NEW d \in Dims, NEW code \in Codes \cup {None}, NEW val \in Vals \cup {None},
             AuditedChangeDim(d, code, val)
      PROVE  Mutation
  <2>1. AtomicNext
    BY <1>3, Zenon DEF AuditedChangeDim, AtomicNext
  <2>2. ChangeMinimum(d, code) \subseteq {dimAt[e] : e \in Dims} \cup {mcAt[m] : m \in Mcs}
    BY DEF ChangeMinimum
  <2>3. ctx'.cs = ctx.cs + 1 /\ \E at \in Nat : Flushed(at)
    BY <1>1, <1>3, <2>2 DEF AuditedChangeDim
  <2> QED BY <2>1, <2>3 DEF Mutation
<1>4. ASSUME NEW d \in Dims, AuditedDimLifecycle(d)
      PROVE  Mutation
  <2>1. AtomicNext
    BY <1>4, Zenon DEF AuditedDimLifecycle, AtomicNext
  <2>2. {dimAt[d]} \subseteq {dimAt[e] : e \in Dims} \cup {mcAt[m] : m \in Mcs}
    OBVIOUS
  <2>3. ctx'.cs = ctx.cs + 1 /\ \E at \in Nat : Flushed(at)
    BY <1>1, <1>4, <2>2 DEF AuditedDimLifecycle
  <2> QED BY <2>1, <2>3 DEF Mutation
<1>5. ASSUME NEW m \in Mcs, NEW refs \in Refs, NEW code \in Codes, NEW val \in Vals,
             AuditedCreateMc(m, refs, code, val) \/ AuditedReplaceRefs(m, refs, code, val)
      PROVE  Mutation
  <2>1. AtomicNext
    BY <1>5, Zenon DEF AuditedCreateMc, AuditedReplaceRefs, AtomicNext
  <2>2. {mcAt[m]} \subseteq {dimAt[e] : e \in Dims} \cup {mcAt[n] : n \in Mcs}
    OBVIOUS
  <2>3. ctx'.cs = ctx.cs + 1 /\ \E at \in Nat : Flushed(at)
    BY <1>1, <1>5, <2>2 DEF AuditedCreateMc, AuditedReplaceRefs
  <2> QED BY <2>1, <2>3 DEF Mutation
<1>6. ASSUME NEW m \in Mcs, AuditedMcLifecycle(m)
      PROVE  Mutation
  <2>1. AtomicNext
    BY <1>6, Zenon DEF AuditedMcLifecycle, AtomicNext
  <2>2. {mcAt[m]} \subseteq {dimAt[e] : e \in Dims} \cup {mcAt[n] : n \in Mcs}
    OBVIOUS
  <2>3. ctx'.cs = ctx.cs + 1 /\ \E at \in Nat : Flushed(at)
    BY <1>1, <1>6, <2>2 DEF AuditedMcLifecycle
  <2> QED BY <2>1, <2>3 DEF Mutation
<1> QED BY <1>2, <1>3, <1>4, <1>5, <1>6, Zenon DEF AuditNext

-----------------------------------------------------------------------------
(***************************************************************************)
(* Recompositions.                                                         *)
(***************************************************************************)

\* A changed code replaces exactly one part of the code of every MasterCode
\* that references the Dimension, and of no other.
LEMMA ChangeReplacesOnePart ==
    ASSUME CatalogOK(dim, mc), NEW d \in Dims, NEW code \in Codes \cup {None},
           NEW val \in Vals \cup {None}, ChangeDimension(d, code, val)
    PROVE  /\ Exists(dim[d]) /\ \A e \in Dims \ {d} : dim'[e] = dim[e]
           /\ dim'[d].code = IF code = None THEN dim[d].code ELSE code
           /\ \A m \in Mcs : mc'[m] # mc[m] =>
                /\ References(mc[m], d) /\ dim'[d].code # dim[d].code
                /\ mc'[m].refs = mc[m].refs /\ mc'[m].st = mc[m].st
                /\ mc'[m].version = mc[m].version + 1
                /\ mc[m].code[SlotOf[d]] = dim[d].code
                /\ mc'[m].code = [mc[m].code EXCEPT ![SlotOf[d]] = dim'[d].code]
                /\ mc'[m].code # mc[m].code
           /\ \A m \in Mcs : References(mc[m], d) /\ dim'[d].code # dim[d].code =>
                mc'[m] # mc[m]
<1>1. /\ dim[d].st = "active"
      /\ dim' = [dim EXCEPT ![d] = ChangeDim(dim[d], code, val)]
      /\ mc' = [m \in Mcs |-> IF References(mc[m], d) THEN Recompose(mc[m], dim')
                              ELSE mc[m]]
  BY DEF ChangeDimension
<1>2. dim \in [Dims -> DimRow] /\ mc \in [Mcs -> McRow]
  BY DEF CatalogOK
<1>3. /\ Exists(dim[d]) /\ \A e \in Dims \ {d} : dim'[e] = dim[e]
      /\ dim'[d] = ChangeDim(dim[d], code, val)
  BY <1>1, <1>2 DEF Exists
<1>4. dim'[d].code = IF code = None THEN dim[d].code ELSE code
  BY <1>3 DEF ChangeDim
<1>5. ASSUME NEW m \in Mcs, References(mc[m], d)
      PROVE  /\ mc[m].code[SlotOf[d]] = dim[d].code
             /\ Compose(mc[m].refs, dim') = [mc[m].code EXCEPT ![SlotOf[d]] = dim'[d].code]
             /\ mc[m].code \in [Slots -> Codes \cup {NNN}] /\ SlotOf[d] \in Slots
  <2>1. /\ mc[m].refs \in Refs /\ mc[m].code = Compose(mc[m].refs, dim)
        /\ mc[m].code \in [Slots -> Codes \cup {NNN}]
    BY <1>5, StoredMasterCode DEF References
  <2>2. PICK s \in Slots : mc[m].refs[s] = d
    BY <1>5 DEF References, RefDims
  <2>3. d # None
    BY SentinelAssumption
  <2>4. s = SlotOf[d]
    BY <2>1, <2>2, <2>3 DEF Refs
  <2>5. \A t \in Slots : mc[m].refs[t] = d <=> t = s
    BY <2>1, <2>2, <2>3, <2>4 DEF Refs
  <2>6. mc[m].code[s] = dim[d].code
    BY <2>1, <2>2, <2>3 DEF Compose
  <2>7. ASSUME NEW t \in Slots
        PROVE  Compose(mc[m].refs, dim')[t] = [mc[m].code EXCEPT ![s] = dim'[d].code][t]
    <3>1. CASE t = s
      BY <2>1, <2>2, <2>3, <3>1 DEF Compose
    <3>2. CASE t # s
      <4>1. mc[m].refs[t] # None => mc[m].refs[t] \in Dims \ {d}
        BY <2>1, <2>5, <3>2 DEF Refs
      <4>2. Compose(mc[m].refs, dim')[t] = Compose(mc[m].refs, dim)[t]
        BY <1>3, <4>1 DEF Compose
      <4> QED BY <2>1, <3>2, <4>2
    <3> QED BY <3>1, <3>2
  <2>8. Compose(mc[m].refs, dim') = [mc[m].code EXCEPT ![s] = dim'[d].code]
    BY <2>1, <2>7 DEF Compose
  <2> QED BY <2>1, <2>4, <2>6, <2>8
<1>6. ASSUME NEW m \in Mcs, References(mc[m], d)
      PROVE  /\ mc'[m] = Recompose(mc[m], dim')
             /\ (mc[m].code = Compose(mc[m].refs, dim')) <=> (dim'[d].code = dim[d].code)
  <2>1. mc'[m] = Recompose(mc[m], dim')
    BY <1>1, <1>6
  <2>2. PICK f \in [Slots -> Codes \cup {NNN}] : f = mc[m].code
    BY <1>5, <1>6
  <2>3. PICK c : c = dim'[d].code
    OBVIOUS
  <2>4. /\ Compose(mc[m].refs, dim') = [f EXCEPT ![SlotOf[d]] = c]
        /\ f[SlotOf[d]] = dim[d].code /\ SlotOf[d] \in Slots
    BY <1>5, <1>6, <2>2, <2>3
  <2>5. (f = [f EXCEPT ![SlotOf[d]] = c]) <=> (c = f[SlotOf[d]])
    BY <2>4
  <2> QED BY <2>1, <2>2, <2>3, <2>4, <2>5
<1>7. ASSUME NEW m \in Mcs, mc'[m] # mc[m]
      PROVE  /\ References(mc[m], d) /\ dim'[d].code # dim[d].code
             /\ mc'[m].refs = mc[m].refs /\ mc'[m].st = mc[m].st
             /\ mc'[m].version = mc[m].version + 1
             /\ mc'[m].code = Compose(mc[m].refs, dim')
  <2>1. References(mc[m], d)
    BY <1>1, <1>7
  <2>2. mc'[m] = Recompose(mc[m], dim')
    BY <1>6, <2>1
  <2>3. mc[m].code # Compose(mc[m].refs, dim')
    BY <1>7, <2>2 DEF Recompose
  <2>4. mc'[m] = NextMasterCode(mc[m], mc[m].st, mc[m].refs, Compose(mc[m].refs, dim'))
    BY <2>2, <2>3 DEF Recompose
  <2>5. dim'[d].code # dim[d].code
    BY <1>6, <2>1, <2>3
  <2> QED BY <2>1, <2>4, <2>5 DEF NextMasterCode
<1>8. ASSUME NEW m \in Mcs, References(mc[m], d), dim'[d].code # dim[d].code
      PROVE  mc'[m] # mc[m]
  <2>1. /\ mc[m].code # Compose(mc[m].refs, dim')
        /\ mc'[m] = Recompose(mc[m], dim')
    BY <1>6, <1>8
  <2>2. mc'[m].code = Compose(mc[m].refs, dim')
    BY <2>1 DEF Recompose, NextMasterCode
  <2> QED BY <2>1, <2>2
<1>9. ASSUME NEW m \in Mcs, mc'[m] # mc[m]
      PROVE  /\ mc[m].code[SlotOf[d]] = dim[d].code
             /\ mc'[m].code = [mc[m].code EXCEPT ![SlotOf[d]] = dim'[d].code]
             /\ mc'[m].code # mc[m].code
  BY <1>5, <1>6, <1>7, <1>9
<1> QED BY <1>3, <1>4, <1>7, <1>8, <1>9

\* Other operations change no code of a Dimension that exists.
OtherMutation ==
    /\ \A d \in Dims : Exists(dim[d]) => dim'[d].code = dim[d].code
    /\ \A m \in Mcs : Exists(mc[m]) /\ mc'[m] # mc[m] => ctx'.master_code # "RECOMPOSE"

\* An operation is a change of a Dimension or one of the others.
LEMMA MutationKinds ==
    ASSUME AuditInv, AuditNext
    PROVE  \/ OtherMutation
           \/ \E d \in Dims, code \in Codes \cup {None}, val \in Vals \cup {None} :
                AuditedChangeDim(d, code, val)
<1>1. /\ Stamped /\ CatalogOK(dim, mc)
      /\ dim \in [Dims -> DimRow] /\ mc \in [Mcs -> McRow]
  BY DEF AuditInv, CatalogOK
<1>2. ASSUME NEW d \in Dims, NEW code \in Codes, NEW val \in Vals,
             AuditedCreateDim(d, code, val)
      PROVE  OtherMutation
  BY <1>1, <1>2 DEF AuditedCreateDim, CreateDimension, OtherMutation
<1>3. ASSUME NEW d \in Dims, AuditedDimLifecycle(d)
      PROVE  OtherMutation
  BY <1>1, <1>3 DEF AuditedDimLifecycle, DeleteDimension, RestoreDimension,
     TransitionDeletion, OtherMutation
<1>4. ASSUME NEW m \in Mcs, NEW refs \in Refs, NEW code \in Codes, NEW val \in Vals,
             AuditedCreateMc(m, refs, code, val) \/ AuditedReplaceRefs(m, refs, code, val)
      PROVE  OtherMutation
  <2>1. dim' = WithInline(refs, code, val)
    BY <1>4 DEF AuditedCreateMc, AuditedReplaceRefs, CreateMasterCode, ReplaceReferences
  <2>2. \A d \in Dims : Exists(dim[d]) => dim'[d] = dim[d]
    BY <2>1 DEF WithInline
  <2>3. ctx'.master_code \in {"CREATE", "REFERENCE_UPDATE"}
    BY <1>1, <1>4, InstalledTime DEF AuditedCreateMc, AuditedReplaceRefs, Audited
  <2> QED BY <2>2, <2>3 DEF OtherMutation
<1>5. ASSUME NEW m \in Mcs, AuditedMcLifecycle(m)
      PROVE  OtherMutation
  <2>1. dim' = dim
    BY <1>5 DEF AuditedMcLifecycle, Delete, Restore
  <2>2. ctx'.master_code \in {"DELETE", "RESTORE"}
    BY <1>1, <1>5, InstalledTime DEF AuditedMcLifecycle, Audited
  <2> QED BY <2>1, <2>2 DEF OtherMutation
<1> QED BY <1>2, <1>3, <1>4, <1>5, Zenon DEF AuditNext

\* What RecompositionsExplained says of one entry of each table.
Explained(e) ==
    \E f \in dimLog :
        /\ f.cs = e.cs /\ f.at = e.at
        /\ f.operation = "UPDATE" /\ f.field = "CODE"
        /\ f.id \in RefDims(e.new.refs)
        /\ e.old.code[SlotOf[f.id]] = f.old
        /\ e.new.code = [e.old.code EXCEPT ![SlotOf[f.id]] = f.new]
FannedOut(f) ==
    \A m \in {e.id : e \in {e \in mcLog : e.cs < f.cs}} :
        f.id \in RefDims(StateBefore(m, f.cs).refs) =>
            \E e \in mcLog : e.id = m /\ e.cs = f.cs /\ e.operation = "RECOMPOSE"

\* What was explained stays explained: a new change set is newer than every
\* entry, and entries are never removed.
LEMMA OldStaysExplained ==
    ASSUME AuditInv, dimLog \subseteq dimLog', mcLog \subseteq mcLog',
           \A e \in mcLog' \ mcLog : e.cs = ctx.cs + 1
    PROVE  /\ \A e \in mcLog : e.operation = "RECOMPOSE" => Explained(e)'
           /\ \A f \in dimLog : f.operation = "UPDATE" /\ f.field = "CODE" => FannedOut(f)'
<1>1. /\ \A e \in mcLog : e.operation = "RECOMPOSE" => Explained(e)
      /\ \A f \in dimLog : f.operation = "UPDATE" /\ f.field = "CODE" => FannedOut(f)
  BY DEF AuditInv, RecompositionsExplained, Explained, FannedOut
<1>2. /\ ctx.cs \in Nat
      /\ \A e \in dimLog : e.cs \in 0..ctx.cs
  BY DEF AuditInv, LogTypes
<1>3. ASSUME NEW e \in mcLog, Explained(e) PROVE Explained(e)'
  BY <1>3 DEF Explained
<1>4. ASSUME NEW f \in dimLog, FannedOut(f) PROVE FannedOut(f)'
  <2>1. f.cs <= ctx.cs /\ f.cs \in Nat
    BY <1>2
  <2>2. \A e \in mcLog' : e.cs < f.cs => e \in mcLog
    BY <1>2, <2>1
  <2>3. ASSUME NEW m PROVE StateBefore(m, f.cs)' = StateBefore(m, f.cs)
    <3>1. {e \in mcLog' : e.id = m /\ e.cs < f.cs} = {e \in mcLog : e.id = m /\ e.cs < f.cs}
      BY <2>2
    <3> QED BY <3>1 DEF StateBefore
  <2>4. {e.id : e \in {e \in mcLog' : e.cs < f.cs}} = {e.id : e \in {e \in mcLog : e.cs < f.cs}}
    BY <2>2
  <2> QED BY <1>4, <2>3, <2>4 DEF FannedOut
<1> QED BY <1>1, <1>3, <1>4

\* The state of a MasterCode before the change set that comes next is the row.
LEMMA StateBeforeNext ==
    ASSUME AuditInv, mcLog \subseteq mcLog', NEW cs, cs = ctx.cs + 1,
           \A e \in mcLog' \ mcLog : e.cs = cs,
           NEW m, m \in {e.id : e \in {e \in mcLog' : e.cs < cs}}
    PROVE  /\ m \in Mcs /\ Exists(mc[m])
           /\ (StateBefore(m, cs)').refs = mc[m].refs
<1>1. /\ ctx.cs \in Nat
      /\ \A e \in mcLog : e.id \in Mcs /\ e.version \in Nat /\ e.cs \in 0..ctx.cs
  BY DEF AuditInv, LogTypes
<1>2. \A e \in mcLog' : e.cs < cs <=> e \in mcLog
  BY <1>1
<1>3. PICK e \in mcLog : e.id = m
  BY <1>2
<1>4. m \in Mcs /\ McLogged(m) /\ e \in McLogOf(m)
  BY <1>1, <1>3 DEF AuditInv, McLogOf
<1>5. Exists(mc[m])
  BY <1>4 DEF McLogged
<1>6. PICK f \in mcLog : Latest(McLogOf(m), f) /\ f.new = Snapshot(mc[m])
  BY <1>4, <1>5 DEF McLogged
<1>7. {g \in mcLog' : g.id = m /\ g.cs < cs} = McLogOf(m)
  BY <1>2 DEF McLogOf
<1>8. Newest(McLogOf(m)) = f
  <2>1. \A g \in McLogOf(m) : g.version \in Nat
    BY <1>1 DEF McLogOf
  <2> QED BY <1>6, <2>1, NewestIsLatest
<1>9. StateBefore(m, cs)' = Snapshot(mc[m])
  BY <1>6, <1>7, <1>8 DEF StateBefore
<1> QED BY <1>4, <1>5, <1>9 DEF Snapshot

\* Every operation explains its recompositions and leaves none out.
LEMMA RecompositionStep ==
    ASSUME AuditInv, AuditNext, NEW at \in Nat, Flushed(at), ctx'.cs = ctx.cs + 1
    PROVE  RecompositionsExplained'
<1>1. /\ dimLog' = dimLog \cup DimEntries(ctx', dim, dim', dimAt')
      /\ mcLog' = mcLog \cup McEntries(ctx', mc, mc', mcAt')
      /\ \A d \in Dims : dim'[d] # dim[d] => dimAt'[d] = at
      /\ \A m \in Mcs : mc'[m] # mc[m] => mcAt'[m] = at
  BY DEF Flushed
<1> DEFINE NewOf(d) == EntriesOf(ctx', d, dim[d], dim'[d], dimAt'[d])
           McOf(m) == McEntryOf(ctx', m, mc[m], mc'[m], mcAt'[m])
<1>2. \A f : f \in dimLog' <=>
        f \in dimLog \/ \E d \in Dims : dim'[d] # dim[d] /\ f \in NewOf(d)
  BY <1>1, EntriesOfStatement
<1>3. \A e : e \in mcLog' <=> e \in mcLog \/ \E m \in Mcs : mc'[m] # mc[m] /\ e = McOf(m)
  BY <1>1, McEntriesOfStatement
<1>4. ASSUME NEW d \in Dims, NEW f \in NewOf(d), f.operation = "UPDATE", f.field = "CODE"
      PROVE  /\ f.id = d /\ f.cs = ctx.cs + 1 /\ f.at = dimAt'[d]
             /\ Exists(dim[d]) /\ dim'[d].code # dim[d].code
             /\ f.old = dim[d].code /\ f.new = dim'[d].code
  BY <1>4, EntriesTell
<1>5. ASSUME NEW m \in Mcs
      PROVE  /\ McOf(m).id = m /\ McOf(m).cs = ctx.cs + 1 /\ McOf(m).at = mcAt'[m]
             /\ McOf(m).new = Snapshot(mc'[m])
             /\ IF Exists(mc[m])
                THEN McOf(m).operation = ctx'.master_code /\ McOf(m).old = Snapshot(mc[m])
                ELSE McOf(m).operation = "CREATE"
  BY McEntryTells
<1>6. ASSUME NEW d \in Dims, Exists(dim[d]), dim'[d].code # dim[d].code
      PROVE  \E f \in dimLog' : /\ f.id = d /\ f.cs = ctx.cs + 1 /\ f.at = at
                                /\ f.operation = "UPDATE" /\ f.field = "CODE"
                                /\ f.old = dim[d].code /\ f.new = dim'[d].code
  <2>1. PICK f \in NewOf(d) : f.field = "CODE"
    BY <1>6, EntriesComplete
  <2>2. f.operation = "UPDATE" /\ f.id = d /\ f.cs = ctx.cs + 1 /\ f.at = dimAt'[d]
        /\ f.old = dim[d].code /\ f.new = dim'[d].code
    BY <1>6, <2>1, EntriesTell
  <2>3. dim'[d] # dim[d]
    BY <1>6
  <2> QED BY <1>1, <1>2, <2>1, <2>2, <2>3
<1> HIDE DEF NewOf, McOf
<1>7. /\ \A e \in mcLog : e.operation = "RECOMPOSE" => Explained(e)'
      /\ \A f \in dimLog : f.operation = "UPDATE" /\ f.field = "CODE" => FannedOut(f)'
  <2>1. dimLog \subseteq dimLog' /\ mcLog \subseteq mcLog'
    BY <1>1
  <2>2. \A e \in mcLog' \ mcLog : e.cs = ctx.cs + 1
    BY <1>3, <1>5
  <2> QED BY <2>1, <2>2, OldStaysExplained
<1>8. SUFFICES
        /\ \A m \in Mcs : \A e : mc'[m] # mc[m] /\ e = McOf(m) /\ e.operation = "RECOMPOSE" =>
                Explained(e)'
        /\ \A d \in Dims : \A f \in NewOf(d) :
                f.operation = "UPDATE" /\ f.field = "CODE" => FannedOut(f)'
  <2>1. \A e \in mcLog' : e.operation = "RECOMPOSE" => Explained(e)'
    BY <1>3, <1>7, <1>8
  <2>2. \A f \in dimLog' : f.operation = "UPDATE" /\ f.field = "CODE" => FannedOut(f)'
    BY <1>2, <1>7, <1>8
  <2> QED BY <2>1, <2>2 DEF RecompositionsExplained, Explained, FannedOut
<1>9. CASE OtherMutation
  <2>1. ASSUME NEW m \in Mcs, mc'[m] # mc[m], McOf(m).operation = "RECOMPOSE"
        PROVE  FALSE
    BY <1>5, <1>9, <2>1 DEF OtherMutation
  <2>2. ASSUME NEW d \in Dims, NEW f \in NewOf(d), f.operation = "UPDATE", f.field = "CODE"
        PROVE  FALSE
    BY <1>4, <1>9, <2>2 DEF OtherMutation
  <2> QED BY <2>1, <2>2
<1>10. ASSUME NEW d \in Dims, NEW code \in Codes \cup {None}, NEW val \in Vals \cup {None},
              AuditedChangeDim(d, code, val)
       PROVE  /\ \A m \in Mcs : \A e :
                    mc'[m] # mc[m] /\ e = McOf(m) /\ e.operation = "RECOMPOSE" => Explained(e)'
              /\ \A g \in Dims : \A f \in NewOf(g) :
                    f.operation = "UPDATE" /\ f.field = "CODE" => FannedOut(f)'
  <2>1. CatalogOK(dim, mc) /\ ChangeDimension(d, code, val)
    BY <1>10 DEF AuditInv, AuditedChangeDim
  <2>2. /\ Exists(dim[d]) /\ \A e \in Dims \ {d} : dim'[e] = dim[e]
        /\ code = None => dim'[d].code = dim[d].code
        /\ \A m \in Mcs : mc'[m] # mc[m] =>
                /\ References(mc[m], d) /\ dim'[d].code # dim[d].code
                /\ mc'[m].refs = mc[m].refs
                /\ mc[m].code[SlotOf[d]] = dim[d].code
                /\ mc'[m].code = [mc[m].code EXCEPT ![SlotOf[d]] = dim'[d].code]
        /\ \A m \in Mcs : References(mc[m], d) /\ dim'[d].code # dim[d].code =>
                mc'[m] # mc[m]
    BY <2>1, ChangeReplacesOnePart
  <2>3. ASSUME NEW m \in Mcs, NEW e, mc'[m] # mc[m], e = McOf(m)
        PROVE  Explained(e)'
    <3>1. PICK f \in dimLog' : /\ f.id = d /\ f.cs = ctx.cs + 1 /\ f.at = at
                               /\ f.operation = "UPDATE" /\ f.field = "CODE"
                               /\ f.old = dim[d].code /\ f.new = dim'[d].code
      BY <1>6, <2>2, <2>3
    <3>3. Exists(mc[m])
      BY <2>2, <2>3 DEF References
    <3>4. /\ e.cs = ctx.cs + 1 /\ e.at = at
          /\ e.new = Snapshot(mc'[m]) /\ e.old = Snapshot(mc[m])
      BY <1>1, <1>5, <2>3, <3>3
    <3>5. /\ e.new.refs = mc[m].refs /\ e.old.code = mc[m].code
          /\ e.new.code = mc'[m].code
      <4>1. /\ e.new.refs = mc'[m].refs /\ e.old.code = mc[m].code
            /\ e.new.code = mc'[m].code
        BY <3>4 DEF Snapshot
      <4>2. mc'[m].refs = mc[m].refs
        BY <2>2, <2>3
      <4> QED BY <4>1, <4>2
    <3>6. d \in RefDims(mc[m].refs)
      BY <2>2, <2>3 DEF References
    <3>7. /\ f.cs = e.cs /\ f.at = e.at
          /\ f.id \in RefDims(e.new.refs)
          /\ e.old.code[SlotOf[f.id]] = f.old
          /\ e.new.code = [e.old.code EXCEPT ![SlotOf[f.id]] = f.new]
      BY <2>2, <2>3, <3>1, <3>4, <3>5, <3>6
    <3> QED BY <3>1, <3>7 DEF Explained
  <2>4. ASSUME NEW g \in Dims, NEW f \in NewOf(g), f.operation = "UPDATE", f.field = "CODE"
        PROVE  FannedOut(f)'
    <3>1. /\ f.id = d /\ g = d /\ f.cs = ctx.cs + 1 /\ dim'[d].code # dim[d].code
      BY <1>4, <2>2, <2>4
    <3>2. ctx'.master_code = "RECOMPOSE"
      <4>1. code # None
        BY <2>2, <3>1
      <4>2. Installed("UPDATE", "RECOMPOSE", ChangeMinimum(d, code))
        BY <1>10, <4>1 DEF AuditedChangeDim, Audited
      <4> QED BY <4>2 DEF Installed, NewContext
    <3>3. SUFFICES ASSUME NEW m \in {e.id : e \in {e \in mcLog' : e.cs < f.cs}},
                          f.id \in RefDims((StateBefore(m, f.cs)').refs)
                   PROVE  \E e \in mcLog' : e.id = m /\ e.cs = f.cs /\ e.operation = "RECOMPOSE"
      BY DEF FannedOut
    <3>4. /\ m \in Mcs /\ Exists(mc[m])
          /\ (StateBefore(m, f.cs)').refs = mc[m].refs
      <4>1. mcLog \subseteq mcLog' /\ \A e \in mcLog' \ mcLog : e.cs = f.cs
        BY <1>1, <1>3, <1>5, <3>1
      <4> QED BY <3>1, <3>3, <4>1, StateBeforeNext
    <3>5. References(mc[m], d)
      BY <3>1, <3>3, <3>4 DEF References
    <3>6. mc'[m] # mc[m]
      BY <2>2, <3>1, <3>4, <3>5
    <3>7. McOf(m) \in mcLog' /\ McOf(m).id = m /\ McOf(m).cs = f.cs
          /\ McOf(m).operation = "RECOMPOSE"
      BY <1>3, <1>5, <3>1, <3>2, <3>4, <3>6
    <3> QED BY <3>7
  <2> QED BY <2>3, <2>4
<1> QED BY <1>9, <1>10, MutationKinds

-----------------------------------------------------------------------------
(***************************************************************************)
(* The inductive invariant.                                                *)
(***************************************************************************)

\* A seed row is the inserted row, or that row deleted.
LEMMA SeedDimRow ==
    ASSUME NEW row \in DimRow, Exists(row),
           row.version = IF row.st = "active" THEN 1 ELSE 2
    PROVE  /\ Exists(Inserted(row)) /\ Inserted(row).version = 1
           /\ Inserted(row).st = "active"
           /\ Inserted(row).code = row.code /\ Inserted(row).val = row.val
           /\ row.st = "active" => Inserted(row) = row /\ row.version = 1
           /\ row.st # "active" => row.st = "deleted" /\ row.version = 2
<1>1. row \in [st : {"active", "deleted"}, code : Codes, val : Vals, version : Nat \ {0}]
  BY DimRowShape
<1> QED BY <1>1 DEF Inserted, Exists

\* The same for a MasterCode.
LEMMA SeedMcRow ==
    ASSUME NEW row \in McRow, Exists(row),
           row.version = IF row.st = "active" THEN 1 ELSE 2
    PROVE  /\ Exists(Inserted(row)) /\ Inserted(row).version = 1
           /\ Inserted(row).st = "active"
           /\ Inserted(row).code = row.code /\ Inserted(row).refs = row.refs
           /\ row.st = "active" => Inserted(row) = row /\ row.version = 1
           /\ row.st # "active" => row.st = "deleted" /\ row.version = 2
<1>1. row \in [st : {"active", "deleted"}, refs : Refs,
               code : [Slots -> Codes \cup {NNN}], version : Nat \ {0}]
  BY McRowShape
<1> QED BY <1>1 DEF Inserted, Exists

\* The logs the seed comes with account for its Dimensions.
LEMMA SeedDimsLogged ==
    ASSUME AuditInit, dim \in [Dims -> DimRow],
           \A d \in Dims : Exists(dim[d]) =>
                dim[d].version = IF dim[d].st = "active" THEN 1 ELSE 2
    PROVE  /\ \A d \in Dims : DimLogged(d)
           /\ \A e \in dimLog : /\ e.id \in Dims /\ e.version \in Nat /\ e.cs \in 0..ctx.cs
                                /\ e.operation # "UPDATE"
           /\ \A e, f \in dimLog : e.id = f.id /\ e.cs = f.cs /\ e.field = f.field => e = f
<1> DEFINE row(d) == Inserted(dim[d])
           Ins(d) == EntriesOf(ctx, d, NoDim, row(d), dimAt[d])
           Del(d) == EntriesOf(ctx, d, row(d), dim[d], dimAt[d])
<1>1. /\ ctx.cs = 0
      /\ dimLog = DimEntries(ctx, [d \in Dims |-> NoDim], SeedDims(dim), dimAt)
                    \cup DimEntries(ctx, SeedDims(dim), dim, dimAt)
  BY DEF AuditInit, SeedContext
<1>2. ~Exists(NoDim)
  BY DEF Exists, NoDim
<1>3. ASSUME NEW d \in Dims
      PROVE  /\ Exists(dim[d]) => SeedDims(dim)[d] = row(d)
             /\ ~Exists(dim[d]) => SeedDims(dim)[d] = NoDim /\ dim[d] = NoDim
  BY DEF SeedDims, DimRow, Exists
<1>4. ASSUME NEW d \in Dims, Exists(dim[d])
      PROVE  /\ Exists(row(d)) /\ row(d).version = 1 /\ row(d).st = "active"
             /\ row(d).code = dim[d].code /\ row(d).val = dim[d].val
             /\ dim[d].st = "active" => row(d) = dim[d] /\ dim[d].version = 1
             /\ dim[d].st # "active" => dim[d].st = "deleted" /\ dim[d].version = 2
  BY <1>4, SeedDimRow
<1> HIDE DEF row
<1>5. \A e : e \in dimLog <=>
        \E d \in Dims : Exists(dim[d]) /\ (e \in Ins(d) \/ (row(d) # dim[d] /\ e \in Del(d)))
  <2>1. \A e : e \in DimEntries(ctx, [d \in Dims |-> NoDim], SeedDims(dim), dimAt) <=>
            \E d \in Dims : Exists(dim[d]) /\ e \in Ins(d)
    <3>1. \A e : e \in DimEntries(ctx, [d \in Dims |-> NoDim], SeedDims(dim), dimAt) <=>
            \E d \in Dims : /\ NoDim # SeedDims(dim)[d]
                            /\ e \in EntriesOf(ctx, d, NoDim, SeedDims(dim)[d], dimAt[d])
      BY EntriesOfStatement
    <3>2. \A d \in Dims : NoDim # SeedDims(dim)[d] <=> Exists(dim[d])
      BY <1>2, <1>3, <1>4
    <3> QED BY <1>3, <3>1, <3>2
  <2>2. \A e : e \in DimEntries(ctx, SeedDims(dim), dim, dimAt) <=>
            \E d \in Dims : Exists(dim[d]) /\ row(d) # dim[d] /\ e \in Del(d)
    <3>1. \A e : e \in DimEntries(ctx, SeedDims(dim), dim, dimAt) <=>
            \E d \in Dims : /\ SeedDims(dim)[d] # dim[d]
                            /\ e \in EntriesOf(ctx, d, SeedDims(dim)[d], dim[d], dimAt[d])
      BY EntriesOfStatement
    <3>2. \A d \in Dims : ~Exists(dim[d]) => SeedDims(dim)[d] = dim[d]
      BY <1>3
    <3> QED BY <1>3, <3>1, <3>2
  <2> QED BY <1>1, <2>1, <2>2
<1>6. ASSUME NEW d \in Dims, Exists(dim[d]), NEW e \in Ins(d)
      PROVE  /\ e.id = d /\ e.cs = 0 /\ e.version = 1 /\ e.at = dimAt[d]
             /\ e.operation = "CREATE"
             /\ \/ e.field = "CODE" /\ e.new = dim[d].code
                \/ e.field = "VALUE" /\ e.new = dim[d].val
  BY <1>1, <1>2, <1>4, <1>6, EntriesTell
<1>7. ASSUME NEW d \in Dims, Exists(dim[d]), NEW e \in Del(d)
      PROVE  /\ e.id = d /\ e.cs = 0 /\ e.version = dim[d].version /\ e.at = dimAt[d]
             /\ e.operation # "UPDATE"
             /\ e.field = "DELETED" /\ e.new = (dim[d].st = "deleted")
  BY <1>1, <1>4, <1>7, EntriesTell
<1>8. ASSUME NEW d \in Dims, Exists(dim[d])
      PROVE  /\ \E e \in Ins(d) : e.field = "CODE"
             /\ \E e \in Ins(d) : e.field = "VALUE"
             /\ row(d) # dim[d] => \E e \in Del(d) : e.field = "DELETED"
  <2>1. /\ \E e \in Ins(d) : e.field = "CODE"
        /\ \E e \in Ins(d) : e.field = "VALUE"
    BY <1>2, EntriesComplete
  <2>2. row(d) # dim[d] => \E e \in Del(d) : e.field = "DELETED"
    BY <1>4, <1>8, EntriesComplete
  <2> QED BY <2>1, <2>2
<1>9. ASSUME NEW d \in Dims, NEW e \in Ins(d), NEW f \in Ins(d), e.field = f.field
      PROVE  e = f
  BY <1>9, EntriesDiffer
<1>10. ASSUME NEW d \in Dims, NEW e \in Del(d), NEW f \in Del(d), e.field = f.field
       PROVE  e = f
  BY <1>10, EntriesDiffer
<1> HIDE DEF Ins, Del
<1>11. ASSUME NEW e \in dimLog
       PROVE  /\ e.id \in Dims /\ e.version \in Nat /\ e.cs = 0 /\ e.operation # "UPDATE"
              /\ Exists(dim[e.id])
              /\ e \in Ins(e.id) \/ (row(e.id) # dim[e.id] /\ e \in Del(e.id))
  <2>1. PICK d \in Dims : Exists(dim[d]) /\ (e \in Ins(d) \/ (row(d) # dim[d] /\ e \in Del(d)))
    BY <1>5
  <2>2. dim[d].version \in Nat
    BY <2>1, DimRowShape
  <2> QED BY <1>6, <1>7, <2>1, <2>2
<1>12. ASSUME NEW e \in dimLog, NEW f \in dimLog, e.id = f.id, e.field = f.field
       PROVE  e = f
  BY <1>6, <1>7, <1>9, <1>10, <1>11, <1>12
<1>13. ASSUME NEW d \in Dims, ~Exists(dim[d]) PROVE DimLogged(d)
  BY <1>11, <1>13 DEF DimLogged, DimLogOf
<1>14. ASSUME NEW d \in Dims, Exists(dim[d]) PROVE DimLogged(d)
  <2>1. ASSUME NEW field, NEW e \in dimLog, e.id = d, e.field = field
        PROVE  Latest(FieldLog(d, field), e)
    BY <1>12, <2>1 DEF Latest, FieldLog
  <2>2. PICK e1 \in Ins(d) : e1.field = "CODE"
    BY <1>8, <1>14
  <2>3. e1 \in dimLog /\ e1.id = d /\ e1.new = dim[d].code /\ e1.version = 1
    BY <1>5, <1>6, <1>14, <2>2
  <2>4. PICK e2 \in Ins(d) : e2.field = "VALUE"
    BY <1>8, <1>14
  <2>5. e2 \in dimLog /\ e2.id = d /\ e2.new = dim[d].val
    BY <1>5, <1>6, <1>14, <2>4
  <2>6. /\ \/ FieldLog(d, "DELETED") = {} /\ dim[d].st = "active"
           \/ \E e \in dimLog : /\ Latest(FieldLog(d, "DELETED"), e)
                                /\ e.new = (dim[d].st = "deleted")
        /\ \E e \in DimLogOf(d) : e.version = dim[d].version
    <3>1. CASE row(d) = dim[d]
      <4>1. dim[d].st = "active" /\ dim[d].version = 1
        BY <1>4, <1>14, <3>1
      <4>2. FieldLog(d, "DELETED") = {}
        BY <1>6, <1>11, <1>14, <3>1 DEF FieldLog
      <4> QED BY <2>3, <4>1, <4>2 DEF DimLogOf
    <3>2. CASE row(d) # dim[d]
      <4>1. PICK e \in Del(d) : e.field = "DELETED"
        BY <1>8, <1>14, <3>2
      <4>2. /\ e \in dimLog /\ e.id = d /\ e.new = (dim[d].st = "deleted")
            /\ e.version = dim[d].version
        BY <1>5, <1>7, <1>14, <3>2, <4>1
      <4> QED BY <2>1, <4>1, <4>2 DEF DimLogOf
    <3> QED BY <3>1, <3>2
  <2>7. \A e \in DimLogOf(d) : /\ e.version <= dim[d].version
                               /\ e.version = dim[d].version => e.at = dimAt[d]
    <3>1. SUFFICES ASSUME NEW e \in dimLog, e.id = d
                   PROVE  e.version <= dim[d].version /\ e.at = dimAt[d]
      BY DEF DimLogOf
    <3>2. dim[d].version \in {1, 2}
      BY <1>4, <1>14
    <3> QED BY <1>6, <1>7, <1>11, <1>14, <3>1, <3>2
  <2> QED BY <1>14, <2>1, <2>2, <2>3, <2>4, <2>5, <2>6, <2>7 DEF DimLogged
<1> QED BY <1>1, <1>11, <1>12, <1>13, <1>14

\* The same for its MasterCodes.
LEMMA SeedMcsLogged ==
    ASSUME AuditInit, mc \in [Mcs -> McRow],
           \A m \in Mcs : Exists(mc[m]) =>
                mc[m].version = IF mc[m].st = "active" THEN 1 ELSE 2
    PROVE  /\ \A m \in Mcs : McLogged(m)
           /\ \A e \in mcLog : /\ e.id \in Mcs /\ e.version \in Nat /\ e.cs \in 0..ctx.cs
                               /\ e.operation # "RECOMPOSE"
           /\ \A e, f \in mcLog : e.id = f.id /\ e.version = f.version => e = f
<1> DEFINE deletion == [ctx EXCEPT !.master_code = "DELETE"]
           row(m) == Inserted(mc[m])
           Ins(m) == McEntryOf(ctx, m, NoMc, row(m), mcAt[m])
           Del(m) == McEntryOf(deletion, m, row(m), mc[m], mcAt[m])
<1>1. /\ ctx.cs = 0
      /\ mcLog = McEntries(ctx, [m \in Mcs |-> NoMc], SeedMcs(mc), mcAt)
                    \cup McEntries(deletion, SeedMcs(mc), mc, mcAt)
  BY DEF AuditInit, SeedContext
<1>2. ~Exists(NoMc)
  BY DEF Exists, NoMc
<1>3. deletion.cs = 0 /\ deletion.master_code = "DELETE"
  BY DEF AuditInit, SeedContext
<1> HIDE DEF deletion
<1>4. ASSUME NEW m \in Mcs
      PROVE  /\ Exists(mc[m]) => SeedMcs(mc)[m] = row(m)
             /\ ~Exists(mc[m]) => SeedMcs(mc)[m] = NoMc /\ mc[m] = NoMc
  BY DEF SeedMcs, McRow, Exists
<1>5. ASSUME NEW m \in Mcs, Exists(mc[m])
      PROVE  /\ Exists(row(m)) /\ row(m).version = 1 /\ row(m).st = "active"
             /\ row(m).code = mc[m].code /\ row(m).refs = mc[m].refs
             /\ mc[m].st = "active" => row(m) = mc[m] /\ mc[m].version = 1
             /\ mc[m].st # "active" => mc[m].st = "deleted" /\ mc[m].version = 2
  BY <1>5, SeedMcRow
<1> HIDE DEF row
<1>6. \A e : e \in mcLog <=>
        \E m \in Mcs : Exists(mc[m]) /\ (e = Ins(m) \/ (row(m) # mc[m] /\ e = Del(m)))
  <2>1. \A e : e \in McEntries(ctx, [m \in Mcs |-> NoMc], SeedMcs(mc), mcAt) <=>
            \E m \in Mcs : Exists(mc[m]) /\ e = Ins(m)
    <3>1. \A e : e \in McEntries(ctx, [m \in Mcs |-> NoMc], SeedMcs(mc), mcAt) <=>
            \E m \in Mcs : /\ NoMc # SeedMcs(mc)[m]
                           /\ e = McEntryOf(ctx, m, NoMc, SeedMcs(mc)[m], mcAt[m])
      BY McEntriesOfStatement
    <3>2. \A m \in Mcs : NoMc # SeedMcs(mc)[m] <=> Exists(mc[m])
      BY <1>2, <1>4, <1>5
    <3> QED BY <1>4, <3>1, <3>2
  <2>2. \A e : e \in McEntries(deletion, SeedMcs(mc), mc, mcAt) <=>
            \E m \in Mcs : Exists(mc[m]) /\ row(m) # mc[m] /\ e = Del(m)
    <3>1. \A e : e \in McEntries(deletion, SeedMcs(mc), mc, mcAt) <=>
            \E m \in Mcs : /\ SeedMcs(mc)[m] # mc[m]
                           /\ e = McEntryOf(deletion, m, SeedMcs(mc)[m], mc[m], mcAt[m])
      BY McEntriesOfStatement
    <3>2. \A m \in Mcs : ~Exists(mc[m]) => SeedMcs(mc)[m] = mc[m]
      BY <1>4
    <3> QED BY <1>4, <3>1, <3>2
  <2> QED BY <1>1, <2>1, <2>2
<1>7. ASSUME NEW m \in Mcs, Exists(mc[m])
      PROVE  /\ Ins(m).id = m /\ Ins(m).cs = 0 /\ Ins(m).version = 1
             /\ Ins(m).operation = "CREATE" /\ Ins(m).new = Snapshot(row(m))
             /\ Del(m).id = m /\ Del(m).cs = 0 /\ Del(m).version = mc[m].version
             /\ Del(m).operation = "DELETE" /\ Del(m).new = Snapshot(mc[m])
  <2>1. /\ Ins(m).id = m /\ Ins(m).cs = 0 /\ Ins(m).version = 1
        /\ Ins(m).operation = "CREATE" /\ Ins(m).new = Snapshot(row(m))
    BY <1>1, <1>2, <1>5, <1>7, McEntryTells
  <2>2. /\ Del(m).id = m /\ Del(m).cs = 0 /\ Del(m).version = mc[m].version
        /\ Del(m).operation = "DELETE" /\ Del(m).new = Snapshot(mc[m])
    BY <1>3, <1>5, <1>7, McEntryTells
  <2> QED BY <2>1, <2>2
<1> HIDE DEF Ins, Del
<1>8. ASSUME NEW e \in mcLog
      PROVE  /\ e.id \in Mcs /\ e.version \in Nat /\ e.cs = 0 /\ e.operation # "RECOMPOSE"
             /\ Exists(mc[e.id])
             /\ \/ e = Ins(e.id)
                \/ row(e.id) # mc[e.id] /\ e = Del(e.id)
  <2>1. PICK m \in Mcs : Exists(mc[m]) /\ (e = Ins(m) \/ (row(m) # mc[m] /\ e = Del(m)))
    BY <1>6
  <2>2. mc[m].version \in Nat
    BY <2>1, McRowShape
  <2> QED BY <1>7, <2>1, <2>2
<1>9. ASSUME NEW e \in mcLog, NEW f \in mcLog, e.id = f.id, e.version = f.version
      PROVE  e = f
  BY <1>5, <1>7, <1>8, <1>9
<1>10. ASSUME NEW m \in Mcs, ~Exists(mc[m]) PROVE McLogged(m)
  BY <1>8, <1>10 DEF McLogged, McLogOf
<1>11. ASSUME NEW m \in Mcs, Exists(mc[m]) PROVE McLogged(m)
  <2>1. CASE row(m) = mc[m]
    <3>1. McLogOf(m) = {Ins(m)} /\ Ins(m) \in mcLog
      BY <1>6, <1>7, <1>8, <1>11, <2>1 DEF McLogOf
    <3>2. Ins(m).version = mc[m].version /\ Ins(m).new = Snapshot(mc[m])
      BY <1>5, <1>7, <1>11, <2>1
    <3> QED BY <1>11, <3>1, <3>2 DEF McLogged, Latest
  <2>2. CASE row(m) # mc[m]
    <3>1. McLogOf(m) = {Ins(m), Del(m)} /\ Del(m) \in mcLog
      BY <1>6, <1>7, <1>8, <1>11, <2>2 DEF McLogOf
    <3>2. /\ Ins(m).version = 1 /\ Del(m).version = 2 /\ mc[m].version = 2
          /\ Del(m).new = Snapshot(mc[m])
      BY <1>5, <1>7, <1>11, <2>2
    <3>3. Latest(McLogOf(m), Del(m))
      BY <3>1, <3>2 DEF Latest
    <3> QED BY <1>11, <3>1, <3>2, <3>3 DEF McLogged
  <2> QED BY <2>1, <2>2
<1> QED BY <1>1, <1>8, <1>9, <1>10, <1>11

\* The invariant holds of every seed.
LEMMA AuditInitially == AuditInit => AuditInv
<1> SUFFICES ASSUME AuditInit PROVE AuditInv
  OBVIOUS
<1>1. AtomicInit
  BY DEF AuditInit
<1>2. CatalogOK(dim, mc) /\ KeysUnique(dim, mc)
  BY <1>1, AtomicInitially, KeysInitially
<1>3. dim \in [Dims -> DimRow] /\ mc \in [Mcs -> McRow]
  BY <1>2 DEF CatalogOK
<1>4. /\ \A d \in Dims : Exists(dim[d]) =>
            dim[d].version = IF dim[d].st = "active" THEN 1 ELSE 2
      /\ \A m \in Mcs : Exists(mc[m]) =>
            mc[m].version = IF mc[m].st = "active" THEN 1 ELSE 2
  <2>1. PICK s \in Seeds : dim = s.dim /\ mc = s.mc
    BY <1>1 DEF AtomicInit
  <2>2. DOMAIN dim = Dims /\ DOMAIN mc = Mcs
    BY <1>3
  <2> QED BY <2>1, <2>2, AuditSeedAssumption
<1>5. Stamped
  <2>1. dimAt = [d \in Dims |-> Min(Times)] /\ mcAt = [m \in Mcs |-> Min(Times)]
    BY DEF AuditInit, FirstInstant
  <2>2. PICK t \in Nat : t = Min(Times)
    BY FirstReading
  <2> QED BY <2>1, <2>2 DEF Stamped
<1>6. ctx.cs = 0
  BY DEF AuditInit, SeedContext
<1>7. /\ \A d \in Dims : DimLogged(d)
      /\ \A e \in dimLog : /\ e.id \in Dims /\ e.version \in Nat /\ e.cs \in 0..ctx.cs
                           /\ e.operation # "UPDATE"
      /\ \A e, f \in dimLog : e.id = f.id /\ e.cs = f.cs /\ e.field = f.field => e = f
  BY <1>3, <1>4, SeedDimsLogged
<1>8. /\ \A m \in Mcs : McLogged(m)
      /\ \A e \in mcLog : /\ e.id \in Mcs /\ e.version \in Nat /\ e.cs \in 0..ctx.cs
                          /\ e.operation # "RECOMPOSE"
      /\ \A e, f \in mcLog : e.id = f.id /\ e.version = f.version => e = f
  BY <1>3, <1>4, SeedMcsLogged
<1>9. LogTypes /\ LogKeysUnique
  BY <1>6, <1>7, <1>8 DEF LogTypes, LogKeysUnique
<1>10. RecompositionsExplained
  BY <1>7, <1>8 DEF RecompositionsExplained
<1> QED BY <1>2, <1>5, <1>7, <1>8, <1>9, <1>10 DEF AuditInv

\* Every mutation keeps it.
LEMMA AuditPreserves ==
    ASSUME AuditInv, [AuditNext]_auditVars
    PROVE  AuditInv'
<1>1. CASE UNCHANGED auditVars
  <2>1. /\ dim' = dim /\ mc' = mc /\ ctx' = ctx /\ dimAt' = dimAt /\ mcAt' = mcAt
        /\ dimLog' = dimLog /\ mcLog' = mcLog
    BY <1>1 DEF auditVars, db, trail
  <2>2. (CatalogOK(dim, mc) /\ KeysUnique(dim, mc))' <=> CatalogOK(dim, mc) /\ KeysUnique(dim, mc)
    BY <2>1
  <2>3. (Stamped' <=> Stamped) /\ (LogTypes' <=> LogTypes) /\ (LogKeysUnique' <=> LogKeysUnique)
    BY <2>1 DEF Stamped, LogTypes, LogKeysUnique
  <2>4. ASSUME NEW d \in Dims PROVE DimLogged(d)' <=> DimLogged(d)
    BY <2>1 DEF DimLogged, FieldLog, DimLogOf
  <2>5. ASSUME NEW m \in Mcs PROVE McLogged(m)' <=> McLogged(m)
    BY <2>1 DEF McLogged, McLogOf
  <2>6. RecompositionsExplained' <=> RecompositionsExplained
    BY <2>1 DEF RecompositionsExplained, StateBefore
  <2> QED BY <2>2, <2>3, <2>4, <2>5, <2>6 DEF AuditInv
<1>2. CASE AuditNext
  <2>1. PICK at \in Nat : AtomicNext /\ ctx'.cs = ctx.cs + 1 /\ Flushed(at)
    BY <1>2, AuditIsMutation DEF Mutation
  <2>2. CatalogOK(dim, mc) /\ KeysUnique(dim, mc) /\ Stamped /\ LogTypes
    BY DEF AuditInv
  <2>3. CatalogOK(dim', mc') /\ KeysUnique(dim', mc')
    BY <2>1, <2>2, AtomicPreserves, AtomicKeepsKeys
  <2>4. DimsTouched /\ McsTouched
    BY <2>1, <2>2, AtomicTouches
  <2>5. Stamped'
    BY <2>1, <2>2, FlushedStamps
  <2>6. /\ dimLog' = dimLog \cup DimEntries(ctx', dim, dim', dimAt')
        /\ mcLog' = mcLog \cup McEntries(ctx', mc, mc', mcAt')
        /\ \A d \in Dims : dim'[d] = dim[d] => dimAt'[d] = dimAt[d]
    BY <2>1 DEF Flushed
  <2>7. PICK c : c = ctx'
    OBVIOUS
  <2>8. /\ \A d \in Dims : DimLogged(d)'
        /\ \A e \in dimLog' : e.id \in Dims /\ e.version \in Nat /\ e.cs \in 0..c.cs
        /\ \A e, f \in dimLog' : e.id = f.id /\ e.cs = f.cs /\ e.field = f.field => e = f
    <3>1. dim' \in [Dims -> DimRow]
      BY <2>3 DEF CatalogOK
    <3> QED BY <2>1, <2>4, <2>6, <2>7, <3>1, DimLogStep
  <2>9. /\ \A m \in Mcs : McLogged(m)'
        /\ \A e \in mcLog' : e.id \in Mcs /\ e.version \in Nat /\ e.cs \in 0..c.cs
        /\ \A e, f \in mcLog' : e.id = f.id /\ e.version = f.version => e = f
    <3>1. mc' \in [Mcs -> McRow]
      BY <2>3 DEF CatalogOK
    <3> QED BY <2>1, <2>4, <2>6, <2>7, <3>1, McLogStep
  <2>10. LogTypes' /\ LogKeysUnique'
    BY <2>1, <2>2, <2>7, <2>8, <2>9 DEF LogTypes, LogKeysUnique
  <2>11. RecompositionsExplained'
    BY <1>2, <2>1, RecompositionStep
  <2>12. CatalogOK(dim, mc)' /\ KeysUnique(dim, mc)'
    BY <2>3 DEF CatalogOK
  <2> QED BY <2>5, <2>8, <2>9, <2>10, <2>11, <2>12 DEF AuditInv
<1> QED BY <1>1, <1>2

\* In every reachable state the logs account for the catalog.
THEOREM AuditTrailIsSound == AuditSpec => []AuditInv
<1>1. AuditInv /\ [AuditNext]_auditVars => AuditInv'
  BY AuditPreserves
<1> QED BY <1>1, AuditInitially, PTL DEF AuditSpec

-----------------------------------------------------------------------------
(***************************************************************************)
(* What the logs are good for.                                             *)
(***************************************************************************)

\* Reading the newest entry of each field gives the Dimension back.
LEMMA DimReplays ==
    ASSUME AuditInv, NEW d \in Dims
    PROVE  /\ ReplayedDim(d) = dim[d]
           /\ Exists(dim[d]) =>
                \A e \in dimLog : e.id = d /\ e.version = dim[d].version => e.at = dimAt[d]
<1>1. /\ DimLogged(d) /\ dim[d] \in DimRow
      /\ \A e \in dimLog : e.version \in Nat
  BY DEF AuditInv, LogTypes, CatalogOK
<1>2. ASSUME NEW field, NEW e \in dimLog, Latest(FieldLog(d, field), e)
      PROVE  Newest({f \in dimLog : f.id = d /\ f.field = field}) = e
  <2>1. \A f \in FieldLog(d, field) : f.version \in Nat
    BY <1>1 DEF FieldLog
  <2>2. Newest(FieldLog(d, field)) = e
    BY <1>2, <2>1, NewestIsLatest
  <2> QED BY <2>2 DEF FieldLog
<1>3. CASE ~Exists(dim[d])
  <2>1. DimLogOf(d) = {}
    BY <1>1, <1>3 DEF DimLogged
  <2>2. dim[d] = NoDim
    BY <1>1, <1>3 DEF DimRow, Exists
  <2>3. ReplayedDim(d) = NoDim
    BY <2>1 DEF ReplayedDim, DimLogOf
  <2> QED BY <1>3, <2>2, <2>3
<1>4. CASE Exists(dim[d])
  <2>1. /\ \E e \in dimLog : Latest(FieldLog(d, "CODE"), e) /\ e.new = dim[d].code
        /\ \E e \in dimLog : Latest(FieldLog(d, "VALUE"), e) /\ e.new = dim[d].val
        /\ \/ FieldLog(d, "DELETED") = {} /\ dim[d].st = "active"
           \/ \E e \in dimLog : /\ Latest(FieldLog(d, "DELETED"), e)
                                /\ e.new = (dim[d].st = "deleted")
        /\ \E e \in DimLogOf(d) : e.version = dim[d].version
        /\ \A e \in DimLogOf(d) :
                /\ e.version <= dim[d].version
                /\ e.version = dim[d].version => e.at = dimAt[d]
    BY <1>1, <1>4 DEF DimLogged
  <2>2. dim[d] \in [st : {"active", "deleted"}, code : Codes, val : Vals,
                    version : Nat \ {0}]
    BY <1>1, <1>4, DimRowShape
  <2>3. Newest({e \in dimLog : e.id = d /\ e.field = "CODE"}).new = dim[d].code
    BY <1>2, <2>1
  <2>4. Newest({e \in dimLog : e.id = d /\ e.field = "VALUE"}).new = dim[d].val
    BY <1>2, <2>1
  <2>5. (/\ {e \in dimLog : e.id = d /\ e.field = "DELETED"} # {}
         /\ Newest({e \in dimLog : e.id = d /\ e.field = "DELETED"}).new = TRUE)
            <=> dim[d].st = "deleted"
    <3>1. CASE FieldLog(d, "DELETED") = {} /\ dim[d].st = "active"
      BY <3>1 DEF FieldLog
    <3>2. CASE \E e \in dimLog : /\ Latest(FieldLog(d, "DELETED"), e)
                                 /\ e.new = (dim[d].st = "deleted")
      <4>1. PICK e \in dimLog : /\ Latest(FieldLog(d, "DELETED"), e)
                                /\ e.new = (dim[d].st = "deleted")
        BY <3>2
      <4>2. e \in {f \in dimLog : f.id = d /\ f.field = "DELETED"}
        BY <4>1 DEF Latest, FieldLog
      <4>3. Newest({f \in dimLog : f.id = d /\ f.field = "DELETED"}) = e
        BY <1>2, <4>1
      <4> QED BY <4>1, <4>2, <4>3
    <3> QED BY <2>1, <3>1, <3>2
  <2>6. Newest({e \in dimLog : e.id = d}).version = dim[d].version
    <3>1. PICK S : S = DimLogOf(d)
      OBVIOUS
    <3>2. \E e \in S : \A f \in S : f.version <= e.version
      BY <2>1, <3>1
    <3>3. Newest(S) \in S /\ \A f \in S : f.version <= Newest(S).version
      BY <3>2 DEF Newest
    <3>4. PICK e \in S : e.version = dim[d].version
      BY <2>1, <3>1
    <3>5. /\ Newest(S).version \in Nat /\ e.version \in Nat
          /\ e.version <= Newest(S).version /\ Newest(S).version <= e.version
      BY <1>1, <2>1, <3>1, <3>3, <3>4 DEF DimLogOf
    <3>6. Newest(S).version = dim[d].version
      BY <3>4, <3>5
    <3> QED BY <3>1, <3>6 DEF DimLogOf
  <2>7. {e \in dimLog : e.id = d} # {}
    BY <2>1 DEF DimLogOf
  <2>8. ReplayedDim(d) = [st |-> IF dim[d].st = "deleted" THEN "deleted" ELSE "active",
                          code |-> dim[d].code, val |-> dim[d].val,
                          version |-> dim[d].version]
    BY <2>3, <2>4, <2>5, <2>6, <2>7 DEF ReplayedDim
  <2>9. ReplayedDim(d) = dim[d]
    BY <2>2, <2>8
  <2> QED BY <2>1, <2>9 DEF DimLogOf
<1> QED BY <1>3, <1>4

\* Reading the newest snapshot gives the MasterCode back.
LEMMA McReplays ==
    ASSUME AuditInv, NEW m \in Mcs
    PROVE  ReplayedMc(m) = mc[m]
<1>1. /\ McLogged(m) /\ mc[m] \in McRow
      /\ \A e \in mcLog : e.version \in Nat
  BY DEF AuditInv, LogTypes, CatalogOK
<1>2. CASE ~Exists(mc[m])
  <2>1. McLogOf(m) = {}
    BY <1>1, <1>2 DEF McLogged
  <2>2. mc[m] = NoMc
    BY <1>1, <1>2 DEF McRow, Exists
  <2> QED BY <2>1, <2>2 DEF ReplayedMc, McLogOf
<1>3. CASE Exists(mc[m])
  <2>1. PICK e \in mcLog : /\ Latest(McLogOf(m), e)
                           /\ e.version = mc[m].version /\ e.new = Snapshot(mc[m])
    BY <1>1, <1>3 DEF McLogged
  <2>2. Newest(McLogOf(m)) = e
    <3>1. \A f \in McLogOf(m) : f.version \in Nat
      BY <1>1 DEF McLogOf
    <3> QED BY <2>1, <3>1, NewestIsLatest
  <2>3. McLogOf(m) # {}
    BY <2>1 DEF Latest
  <2>4. /\ e.new.refs = mc[m].refs /\ e.new.code = mc[m].code
        /\ e.new.deleted = (mc[m].st = "deleted")
    BY <2>1 DEF Snapshot
  <2>5. ReplayedMc(m) = [st |-> IF e.new.deleted THEN "deleted" ELSE "active",
                         refs |-> e.new.refs, code |-> e.new.code, version |-> e.version]
    BY <2>2, <2>3 DEF ReplayedMc, McLogOf
  <2>6. mc[m] \in [st : {"active", "deleted"}, refs : Refs,
                   code : [Slots -> Codes \cup {NNN}], version : Nat \ {0}]
    BY <1>1, <1>3, McRowShape
  <2>7. ReplayedMc(m) = [st |-> mc[m].st, refs |-> mc[m].refs, code |-> mc[m].code,
                         version |-> mc[m].version]
    BY <2>1, <2>4, <2>5, <2>6
  <2> QED BY <2>6, <2>7
<1> QED BY <1>2, <1>3

\* The rows can be rebuilt from the log tables alone, and the newest entry of
\* a row has its updated_at: no write of any use case escapes the triggers.
THEOREM RowsAlwaysReplay == AuditSpec => []RowsReplayFromLogs
<1>1. AuditInv => RowsReplayFromLogs
  BY DimReplays, McReplays DEF RowsReplayFromLogs
<1> QED BY <1>1, AuditTrailIsSound, PTL

\* Every recomposition is explained by one code change of its change set, and
\* no code change leaves a MasterCode that referenced the Dimension out.
THEOREM RecompositionsStayExplained == AuditSpec => []RecompositionsExplained
<1>1. AuditInv => RecompositionsExplained
  BY DEF AuditInv
<1> QED BY <1>1, AuditTrailIsSound, PTL

-----------------------------------------------------------------------------
(***************************************************************************)
(* The triggers accept every mutation.                                     *)
(***************************************************************************)
RowsAccepted ==
    /\ ContextAccepted(ctx')
    /\ \A d \in Dims : dim'[d] # dim[d] =>
            DimensionBeforeWrite(ctx', mc', d, dim[d], dim'[d], dimAt[d], dimAt'[d])
    /\ \A m \in Mcs : mc'[m] # mc[m] =>
            MasterCodeBeforeWrite(ctx', mc[m], mc'[m], mcAt[m], mcAt'[m])
    /\ \A m \in Mcs : mc'[m] # mc[m] /\ Exists(mc[m]) => ctx'.master_code # "CREATE"

\* A plain insert.
LEMMA AcceptsCreateDim ==
    ASSUME AuditInv, NEW d \in Dims, NEW code \in Codes, NEW val \in Vals,
           AuditedCreateDim(d, code, val)
    PROVE  RowsAccepted
<1>1. /\ CreateDimension(d, code, val) /\ Installed("CREATE", None, {})
      /\ Stamped /\ dim \in [Dims -> DimRow]
  BY DEF AuditedCreateDim, AuditInv, CatalogOK
<1>2. ctx'.dimension = "CREATE" /\ ctx'.master_code = None
  BY <1>1, InstalledTime
<1>3. /\ mc' = mc /\ \A e \in Dims : dim'[e] # dim[e] => e = d
      /\ dim'[d].version = 1 /\ dim'[d].st = "active" /\ ~Exists(dim[d])
  BY <1>1 DEF CreateDimension, NewDim
<1>4. DimensionBeforeWrite(ctx', mc', d, dim[d], dim'[d], dimAt[d], dimAt'[d])
  BY <1>2, <1>3 DEF DimensionBeforeWrite
<1>5. ContextAccepted(ctx')
  BY <1>2, AuditSentinel DEF ContextAccepted
<1> QED BY <1>3, <1>4, <1>5 DEF RowsAccepted

\* Rows flushed under a context have its time.
LEMMA AuditedTime ==
    ASSUME Stamped, NEW dimension, NEW master_code, NEW minimum,
           minimum \subseteq {dimAt[d] : d \in Dims} \cup {mcAt[m] : m \in Mcs},
           Audited(dimension, master_code, minimum)
    PROVE  /\ ctx'.dimension = dimension /\ ctx'.master_code = master_code
           /\ \A y \in minimum : y <= ctx'.at
           /\ \A d \in Dims : dim'[d] # dim[d] => dimAt'[d] = ctx'.at
           /\ \A m \in Mcs : mc'[m] # mc[m] => mcAt'[m] = ctx'.at
<1>1. Installed(dimension, master_code, minimum) /\ Flushed(ctx'.at)
  BY DEF Audited
<1>2. /\ ctx'.dimension = dimension /\ ctx'.master_code = master_code
      /\ \A y \in minimum : y <= ctx'.at
  BY <1>1, InstalledTime
<1>3. /\ \A d \in Dims : dim'[d] # dim[d] => dimAt'[d] = ctx'.at
      /\ \A m \in Mcs : mc'[m] # mc[m] => mcAt'[m] = ctx'.at
  BY <1>1 DEF Flushed
<1> QED BY <1>2, <1>3

\* A changed Dimension and the MasterCodes of its fan-out: their time stamps
\* were read before the clock was.
LEMMA AcceptsChangeDim ==
    ASSUME AuditInv, NEW d \in Dims, NEW code \in Codes \cup {None},
           NEW val \in Vals \cup {None}, AuditedChangeDim(d, code, val)
    PROVE  RowsAccepted
<1>1. /\ CatalogOK(dim, mc) /\ ChangeDimension(d, code, val) /\ Stamped
      /\ dim \in [Dims -> DimRow] /\ mc \in [Mcs -> McRow]
      /\ Audited("UPDATE", IF code = None THEN None ELSE "RECOMPOSE", ChangeMinimum(d, code))
  BY DEF AuditedChangeDim, AuditInv, CatalogOK
<1>2. /\ ctx'.dimension = "UPDATE"
      /\ ctx'.master_code = IF code = None THEN None ELSE "RECOMPOSE"
      /\ \A y \in ChangeMinimum(d, code) : y <= ctx'.at
      /\ \A e \in Dims : dim'[e] # dim[e] => dimAt'[e] = ctx'.at
      /\ \A m \in Mcs : mc'[m] # mc[m] => mcAt'[m] = ctx'.at
  <2>1. ChangeMinimum(d, code) \subseteq {dimAt[e] : e \in Dims} \cup {mcAt[m] : m \in Mcs}
    BY DEF ChangeMinimum
  <2> QED BY <1>1, <2>1, AuditedTime
<1>3. /\ Exists(dim[d]) /\ \A e \in Dims \ {d} : dim'[e] = dim[e]
      /\ dim'[d].code = IF code = None THEN dim[d].code ELSE code
      /\ \A m \in Mcs : mc'[m] # mc[m] =>
            /\ References(mc[m], d) /\ dim'[d].code # dim[d].code
            /\ mc'[m].refs = mc[m].refs /\ mc'[m].st = mc[m].st
            /\ mc'[m].version = mc[m].version + 1
            /\ mc'[m].code # mc[m].code
  BY <1>1, ChangeReplacesOnePart
<1>4. /\ dim[d].st = "active" /\ dim'[d].st = "active"
      /\ dim'[d].version = dim[d].version + 1
  BY <1>1 DEF ChangeDimension, ChangeDim
<1>5. ContextAccepted(ctx')
  BY <1>2, AuditSentinel DEF ContextAccepted
<1>6. ASSUME dim'[d] # dim[d]
      PROVE  DimensionBeforeWrite(ctx', mc', d, dim[d], dim'[d], dimAt[d], dimAt'[d])
  <2>1. dimAt'[d] = ctx'.at /\ dimAt[d] <= ctx'.at
    BY <1>2, <1>6 DEF ChangeMinimum
  <2>2. TechnicalFields(ctx', dim[d], dim'[d], dimAt[d], dimAt'[d])
    BY <1>4, <2>1 DEF TechnicalFields
  <2>3. dim'[d].code # dim[d].code => ctx'.master_code = "RECOMPOSE"
    BY <1>2, <1>3
  <2> QED BY <1>2, <1>3, <1>4, <2>2, <2>3 DEF DimensionBeforeWrite
<1>7. ASSUME NEW m \in Mcs, mc'[m] # mc[m]
      PROVE  /\ MasterCodeBeforeWrite(ctx', mc[m], mc'[m], mcAt[m], mcAt'[m])
             /\ ctx'.master_code # "CREATE"
  <2>1. code # None /\ code # dim[d].code /\ References(mc[m], d) /\ Exists(mc[m])
    BY <1>3, <1>7 DEF References
  <2>2. mcAt'[m] = ctx'.at /\ mcAt[m] <= ctx'.at
    BY <1>2, <1>7, <2>1 DEF ChangeMinimum
  <2>3. TechnicalFields(ctx', mc[m], mc'[m], mcAt[m], mcAt'[m])
    BY <1>3, <1>7, <2>2 DEF TechnicalFields
  <2>4. ctx'.master_code = "RECOMPOSE"
    BY <1>2, <2>1
  <2>5. MasterCodeBeforeWrite(ctx', mc[m], mc'[m], mcAt[m], mcAt'[m])
    BY <1>3, <1>7, <2>1, <2>3, <2>4 DEF MasterCodeBeforeWrite
  <2> QED BY <2>4, <2>5
<1> QED BY <1>3, <1>5, <1>6, <1>7 DEF RowsAccepted

\* A deleted or restored Dimension.
LEMMA AcceptsDimLifecycle ==
    ASSUME AuditInv, NEW d \in Dims, AuditedDimLifecycle(d)
    PROVE  RowsAccepted
<1>1. Stamped /\ dim \in [Dims -> DimRow]
  BY DEF AuditInv, CatalogOK
<1>2. {dimAt[d]} \subseteq {dimAt[e] : e \in Dims} \cup {mcAt[m] : m \in Mcs}
  OBVIOUS
<1>3. CASE DeleteDimension(d) /\ Audited("DELETE", None, {dimAt[d]})
  <2>1. /\ ctx'.dimension = "DELETE" /\ ctx'.master_code = None
        /\ dimAt[d] <= ctx'.at
        /\ \A e \in Dims : dim'[e] # dim[e] => dimAt'[e] = ctx'.at
    BY <1>1, <1>2, <1>3, AuditedTime
  <2>2. /\ mc' = mc /\ \A e \in Dims : dim'[e] # dim[e] => e = d
        /\ dim[d].st = "active" /\ Exists(dim[d]) /\ dim'[d].st = "deleted"
        /\ dim'[d].version = dim[d].version + 1
        /\ dim'[d].code = dim[d].code /\ dim'[d].val = dim[d].val
        /\ \A m \in Mcs : References(mc'[m], d) => mc'[m].st # "active"
    BY <1>1, <1>3 DEF DeleteDimension, TransitionDeletion, Exists
  <2>3. dim'[d] # dim[d]
    BY <2>2
  <2>4. DimensionBeforeWrite(ctx', mc', d, dim[d], dim'[d], dimAt[d], dimAt'[d])
    BY <2>1, <2>2, <2>3 DEF DimensionBeforeWrite, TechnicalFields
  <2>5. ContextAccepted(ctx')
    BY <2>1, AuditSentinel DEF ContextAccepted
  <2> QED BY <2>2, <2>4, <2>5 DEF RowsAccepted
<1>4. CASE RestoreDimension(d) /\ Audited("RESTORE", None, {dimAt[d]})
  <2>1. /\ ctx'.dimension = "RESTORE" /\ ctx'.master_code = None
        /\ dimAt[d] <= ctx'.at
        /\ \A e \in Dims : dim'[e] # dim[e] => dimAt'[e] = ctx'.at
    BY <1>1, <1>2, <1>4, AuditedTime
  <2>2. /\ mc' = mc /\ \A e \in Dims : dim'[e] # dim[e] => e = d
        /\ dim[d].st = "deleted" /\ Exists(dim[d]) /\ dim'[d].st = "active"
        /\ dim'[d].version = dim[d].version + 1
        /\ dim'[d].code = dim[d].code /\ dim'[d].val = dim[d].val
    BY <1>1, <1>4 DEF RestoreDimension, TransitionDeletion, Exists
  <2>3. dim'[d] # dim[d]
    BY <2>2
  <2>4. DimensionBeforeWrite(ctx', mc', d, dim[d], dim'[d], dimAt[d], dimAt'[d])
    BY <2>1, <2>2, <2>3 DEF DimensionBeforeWrite, TechnicalFields
  <2>5. ContextAccepted(ctx')
    BY <2>1, AuditSentinel DEF ContextAccepted
  <2> QED BY <2>2, <2>4, <2>5 DEF RowsAccepted
<1> QED BY <1>3, <1>4 DEF AuditedDimLifecycle

\* A Dimension inserted with a MasterCode is one of its references, and the
\* context announces it.
LEMMA AcceptsInline ==
    ASSUME NEW refs \in Refs, NEW code \in Codes, NEW val \in Vals,
           dim \in [Dims -> DimRow], dim' = WithInline(refs, code, val),
           ctx'.dimension = InlineOperation(refs)
    PROVE  \A d \in Dims : dim'[d] # dim[d] =>
                DimensionBeforeWrite(ctx', mc', d, dim[d], dim'[d], dimAt[d], dimAt'[d])
<1> SUFFICES ASSUME NEW d \in Dims, dim'[d] # dim[d]
             PROVE  DimensionBeforeWrite(ctx', mc', d, dim[d], dim'[d], dimAt[d], dimAt'[d])
  OBVIOUS
<1>1. /\ d \in RefDims(refs) /\ ~Exists(dim[d])
      /\ dim'[d].version = 1 /\ dim'[d].st = "active"
  BY DEF WithInline, NewDim
<1>2. ctx'.dimension = "CREATE"
  BY <1>1 DEF InlineOperation
<1> QED BY <1>1, <1>2 DEF DimensionBeforeWrite

\* A new MasterCode.
LEMMA AcceptsCreateMc ==
    ASSUME AuditInv, NEW m \in Mcs, NEW refs \in Refs, NEW code \in Codes, NEW val \in Vals,
           AuditedCreateMc(m, refs, code, val)
    PROVE  RowsAccepted
<1>1. /\ CreateMasterCode(m, refs, code, val) /\ Stamped
      /\ dim \in [Dims -> DimRow] /\ mc \in [Mcs -> McRow]
      /\ Audited(InlineOperation(refs), "CREATE", {})
  BY DEF AuditedCreateMc, AuditInv, CatalogOK
<1>2. /\ ctx'.dimension = InlineOperation(refs) /\ ctx'.master_code = "CREATE"
      /\ \A n \in Mcs : mc'[n] # mc[n] => mcAt'[n] = ctx'.at
  BY <1>1, AuditedTime
<1>3. /\ dim' = WithInline(refs, code, val) /\ ~Exists(mc[m])
      /\ \A n \in Mcs : mc'[n] # mc[n] => n = m
      /\ mc'[m].version = 1 /\ mc'[m].st = "active"
  BY <1>1 DEF CreateMasterCode, NewMasterCode
<1>4. \A d \in Dims : dim'[d] # dim[d] =>
        DimensionBeforeWrite(ctx', mc', d, dim[d], dim'[d], dimAt[d], dimAt'[d])
  BY <1>1, <1>2, <1>3, AcceptsInline
<1>5. ASSUME mc'[m] # mc[m]
      PROVE  MasterCodeBeforeWrite(ctx', mc[m], mc'[m], mcAt[m], mcAt'[m])
  BY <1>2, <1>3, <1>5 DEF MasterCodeBeforeWrite
<1>6. ContextAccepted(ctx')
  BY <1>2, AuditSentinel DEF ContextAccepted, InlineOperation
<1> QED BY <1>3, <1>4, <1>5, <1>6 DEF RowsAccepted

\* Replaced references: other references compose to another code, because
\* Dimensions of a slot have different codes.
LEMMA AcceptsReplaceRefs ==
    ASSUME AuditInv, AuditInv', NEW m \in Mcs, NEW refs \in Refs, NEW code \in Codes,
           NEW val \in Vals, AuditedReplaceRefs(m, refs, code, val)
    PROVE  RowsAccepted
<1>1. /\ ReplaceReferences(m, refs, code, val) /\ Stamped /\ CatalogOK(dim, mc)
      /\ dim \in [Dims -> DimRow] /\ mc \in [Mcs -> McRow]
      /\ Audited(InlineOperation(refs), "REFERENCE_UPDATE", {mcAt[m]})
  BY DEF AuditedReplaceRefs, AuditInv, CatalogOK
<1>2. dim' \in [Dims -> DimRow] /\ UniqueDims(dim')
  BY DEF AuditInv, CatalogOK, KeysUnique
<1>3. /\ ctx'.dimension = InlineOperation(refs) /\ ctx'.master_code = "REFERENCE_UPDATE"
      /\ \A n \in Mcs : mc'[n] # mc[n] => mcAt'[n] = ctx'.at
      /\ mcAt[m] <= ctx'.at
  <2>1. {mcAt[m]} \subseteq {dimAt[e] : e \in Dims} \cup {mcAt[n] : n \in Mcs}
    OBVIOUS
  <2> QED BY <1>1, <2>1, AuditedTime
<1>4. /\ dim' = WithInline(refs, code, val) /\ mc[m].st = "active" /\ Exists(mc[m])
      /\ refs # mc[m].refs /\ Usable(refs, dim')
      /\ \A n \in Mcs : mc'[n] # mc[n] => n = m
      /\ mc'[m] = UpdateReferences(mc[m], refs, dim')
  BY <1>1 DEF ReplaceReferences, Exists
<1>5. /\ mc'[m].refs = refs /\ mc'[m].st = "active"
      /\ mc'[m].version = mc[m].version + 1 /\ mc'[m].code = Compose(refs, dim')
  BY <1>4 DEF UpdateReferences, NextMasterCode
<1>6. /\ mc[m].refs \in Refs /\ mc[m].code = Compose(mc[m].refs, dim)
      /\ \A e \in RefDims(mc[m].refs) : e \in Dims /\ Exists(dim[e])
  BY <1>1, <1>4, StoredMasterCode
<1>7. \A e \in Dims : Exists(dim[e]) => dim'[e] = dim[e]
  BY <1>4 DEF WithInline
<1>8. mc[m].code = Compose(mc[m].refs, dim')
  BY <1>1, <1>2, <1>6, <1>7, ComposeStable
<1>9. mc'[m].code # mc[m].code
  <2>1. \A e \in RefDims(refs) \cup RefDims(mc[m].refs) : Exists(dim'[e])
    BY <1>4, <1>6, <1>7, UsableRefs
  <2> QED BY <1>2, <1>4, <1>5, <1>6, <1>8, <2>1, ComposedCodesDiffer
<1>10. \A d \in Dims : dim'[d] # dim[d] =>
        DimensionBeforeWrite(ctx', mc', d, dim[d], dim'[d], dimAt[d], dimAt'[d])
  BY <1>1, <1>3, <1>4, AcceptsInline
<1>11. ASSUME mc'[m] # mc[m]
       PROVE  MasterCodeBeforeWrite(ctx', mc[m], mc'[m], mcAt[m], mcAt'[m])
  <2>1. TechnicalFields(ctx', mc[m], mc'[m], mcAt[m], mcAt'[m])
    BY <1>3, <1>5, <1>11 DEF TechnicalFields
  <2> QED BY <1>3, <1>4, <1>5, <1>9, <2>1 DEF MasterCodeBeforeWrite
<1>12. ContextAccepted(ctx')
  BY <1>3, AuditSentinel DEF ContextAccepted, InlineOperation
<1> QED BY <1>3, <1>4, <1>10, <1>11, <1>12 DEF RowsAccepted

\* A deleted or restored MasterCode.
LEMMA AcceptsMcLifecycle ==
    ASSUME AuditInv, NEW m \in Mcs, AuditedMcLifecycle(m)
    PROVE  RowsAccepted
<1>1. Stamped /\ mc \in [Mcs -> McRow]
  BY DEF AuditInv, CatalogOK
<1>2. {mcAt[m]} \subseteq {dimAt[e] : e \in Dims} \cup {mcAt[n] : n \in Mcs}
  OBVIOUS
<1>3. CASE Delete(m) /\ Audited(None, "DELETE", {mcAt[m]})
  <2>1. /\ ctx'.dimension = None /\ ctx'.master_code = "DELETE"
        /\ mcAt[m] <= ctx'.at
        /\ \A n \in Mcs : mc'[n] # mc[n] => mcAt'[n] = ctx'.at
    BY <1>1, <1>2, <1>3, AuditedTime
  <2>2. /\ dim' = dim /\ \A n \in Mcs : mc'[n] # mc[n] => n = m
        /\ mc[m].st = "active" /\ Exists(mc[m]) /\ mc'[m].st = "deleted"
        /\ mc'[m].version = mc[m].version + 1
        /\ mc'[m].code = mc[m].code /\ mc'[m].refs = mc[m].refs
    BY <1>1, <1>3 DEF Delete, DeleteMasterCode, NextMasterCode, Exists
  <2>3. mc'[m] # mc[m]
    BY <2>2
  <2>4. MasterCodeBeforeWrite(ctx', mc[m], mc'[m], mcAt[m], mcAt'[m])
    BY <2>1, <2>2, <2>3 DEF MasterCodeBeforeWrite, TechnicalFields
  <2>5. ContextAccepted(ctx')
    BY <2>1, AuditSentinel DEF ContextAccepted
  <2> QED BY <2>1, <2>2, <2>4, <2>5 DEF RowsAccepted
<1>4. CASE Restore(m) /\ Audited(None, "RESTORE", {mcAt[m]})
  <2>1. /\ ctx'.dimension = None /\ ctx'.master_code = "RESTORE"
        /\ mcAt[m] <= ctx'.at
        /\ \A n \in Mcs : mc'[n] # mc[n] => mcAt'[n] = ctx'.at
    BY <1>1, <1>2, <1>4, AuditedTime
  <2>2. /\ dim' = dim /\ \A n \in Mcs : mc'[n] # mc[n] => n = m
        /\ mc[m].st = "deleted" /\ Exists(mc[m]) /\ mc'[m].st = "active"
        /\ mc'[m].version = mc[m].version + 1 /\ mc'[m].refs = mc[m].refs
    BY <1>1, <1>4 DEF Restore, RestoreMasterCode, NextMasterCode, Exists
  <2>3. mc'[m] # mc[m]
    BY <2>2
  <2>4. MasterCodeBeforeWrite(ctx', mc[m], mc'[m], mcAt[m], mcAt'[m])
    BY <2>1, <2>2, <2>3 DEF MasterCodeBeforeWrite, TechnicalFields
  <2>5. ContextAccepted(ctx')
    BY <2>1, AuditSentinel DEF ContextAccepted
  <2> QED BY <2>1, <2>2, <2>4, <2>5 DEF RowsAccepted
<1> QED BY <1>3, <1>4 DEF AuditedMcLifecycle

\* What the rows pass, their log entries pass.
LEMMA EntriesAccepted ==
    ASSUME AuditInv, AuditInv', AuditNext, RowsAccepted
    PROVE  /\ \A e \in dimLog' \ dimLog : DimEntryAccepted(e)
           /\ \A e \in mcLog' \ mcLog : McEntryAccepted(e)
<1>1. PICK at \in Nat : Flushed(at) /\ AtomicNext
  BY AuditIsMutation DEF Mutation
<1>2. /\ dim \in [Dims -> DimRow] /\ mc \in [Mcs -> McRow]
      /\ dim' \in [Dims -> DimRow] /\ mc' \in [Mcs -> McRow]
      /\ DimsTouched /\ McsTouched
  BY <1>1, AtomicTouches DEF AuditInv, CatalogOK
<1>3. ASSUME NEW e \in dimLog' \ dimLog PROVE DimEntryAccepted(e)
  <2>1. PICK d \in Dims : /\ dim'[d] # dim[d]
                          /\ e \in EntriesOf(ctx', d, dim[d], dim'[d], dimAt'[d])
    <3>1. e \in DimEntries(ctx', dim, dim', dimAt')
      BY <1>1, <1>3 DEF Flushed
    <3> QED BY <3>1, EntriesOfStatement
  <2>2. /\ Exists(dim'[d]) /\ dim'[d].code \in Codes /\ dim'[d].val \in Vals
        /\ dim'[d].st \in {"active", "deleted"}
    BY <1>2, <2>1, DimRowShape DEF DimsTouched
  <2>3. Exists(dim[d]) => /\ dim[d].code \in Codes /\ dim[d].val \in Vals
                          /\ dim[d].st \in {"active", "deleted"}
    BY <1>2, DimRowShape
  <2>4. None \notin Codes /\ None \notin Vals
    BY SentinelAssumption
  <2>5. \/ /\ e.field = "CODE" /\ e.new = dim'[d].code
           /\ IF Exists(dim[d])
              THEN e.operation = "UPDATE" /\ e.old = dim[d].code /\ dim[d].code # dim'[d].code
              ELSE e.operation = "CREATE" /\ e.old = None
        \/ /\ e.field = "VALUE" /\ e.new = dim'[d].val
           /\ IF Exists(dim[d])
              THEN e.operation = "UPDATE" /\ e.old = dim[d].val /\ dim[d].val # dim'[d].val
              ELSE e.operation = "CREATE" /\ e.old = None
        \/ /\ e.field = "DELETED" /\ e.new = (dim'[d].st = "deleted")
           /\ Exists(dim[d]) /\ e.old = (dim[d].st = "deleted") /\ e.old # e.new
           /\ e.operation = (IF dim'[d].st = "active" THEN "RESTORE" ELSE "DELETE")
    BY <2>1, EntriesTell
  <2>6. CASE e.field = "DELETED"
    <3>1. /\ e.new = (dim'[d].st = "deleted") /\ e.old = (dim[d].st = "deleted")
          /\ e.old # e.new /\ Exists(dim[d])
          /\ e.operation = (IF dim'[d].st = "active" THEN "RESTORE" ELSE "DELETE")
      BY <2>5, <2>6
    <3>2. CASE dim'[d].st = "active"
      <4>1. e.operation = "RESTORE" /\ e.new = FALSE /\ e.old = TRUE
        BY <2>3, <3>1, <3>2
      <4> QED BY <2>6, <4>1 DEF DimEntryAccepted
    <3>3. CASE dim'[d].st = "deleted"
      <4>1. e.operation = "DELETE" /\ e.new = TRUE /\ e.old = FALSE
        BY <2>3, <3>1, <3>3
      <4> QED BY <2>6, <4>1 DEF DimEntryAccepted
    <3> QED BY <2>2, <3>2, <3>3
  <2>7. CASE e.field # "DELETED"
    <3>1. /\ e.new # None
          /\ \/ e.operation = "CREATE" /\ e.old = None
             \/ e.operation = "UPDATE" /\ e.old # None /\ e.old # e.new
      BY <2>2, <2>3, <2>4, <2>5, <2>7
    <3> QED BY <2>7, <3>1 DEF DimEntryAccepted
  <2> QED BY <2>6, <2>7
<1>4. ASSUME NEW e \in mcLog' \ mcLog PROVE McEntryAccepted(e)
  <2>1. PICK m \in Mcs : /\ mc'[m] # mc[m]
                         /\ e = McEntryOf(ctx', m, mc[m], mc'[m], mcAt'[m])
    <3>1. e \in McEntries(ctx', mc, mc', mcAt')
      BY <1>1, <1>4 DEF Flushed
    <3> QED BY <3>1, McEntriesOfStatement
  <2>2. IF Exists(mc[m]) THEN e.operation = ctx'.master_code /\ e.old = Snapshot(mc[m])
        ELSE e.operation = "CREATE" /\ e.old = None
    BY <2>1, McEntryTells
  <2>3. CASE Exists(mc[m])
    <3>1. mc[m].refs \in Refs /\ mc[m].code \in [Slots -> Codes \cup {NNN}]
      BY <1>2, <2>3, McRowShape
    <3>2. Snapshot(mc[m]) \in [refs : Refs, code : [Slots -> Codes \cup {NNN}],
                               deleted : BOOLEAN]
      BY <3>1 DEF Snapshot
    <3>3. Snapshot(mc[m]) # None
      BY <3>2, AuditSentinel
    <3>4. ctx'.master_code # "CREATE"
      BY <2>1, <2>3 DEF RowsAccepted
    <3> QED BY <2>2, <2>3, <3>3, <3>4 DEF McEntryAccepted
  <2>4. CASE ~Exists(mc[m])
    BY <2>2, <2>4 DEF McEntryAccepted
  <2> QED BY <2>3, <2>4
<1> QED BY <1>3, <1>4

\* No mutation the repositories accept is refused by a trigger or by a
\* constraint of the log tables, whatever the clock of the database shows.
THEOREM TriggersAlwaysAccept == AuditSpec => TriggersAccept
<1> DEFINE Accepted ==
        /\ ContextAccepted(ctx')
        /\ \A d \in Dims : dim'[d] # dim[d] =>
             DimensionBeforeWrite(ctx', mc', d, dim[d], dim'[d], dimAt[d], dimAt'[d])
        /\ \A m \in Mcs : mc'[m] # mc[m] =>
             MasterCodeBeforeWrite(ctx', mc[m], mc'[m], mcAt[m], mcAt'[m])
        /\ \A e \in dimLog' \ dimLog : DimEntryAccepted(e)
        /\ \A e \in mcLog' \ mcLog : McEntryAccepted(e)
        /\ LogKeysUnique'
<1>1. ASSUME AuditInv, AuditInv', AuditNext PROVE Accepted
  <2>1. RowsAccepted
    BY <1>1, AcceptsCreateDim, AcceptsChangeDim, AcceptsDimLifecycle, AcceptsCreateMc,
       AcceptsReplaceRefs, AcceptsMcLifecycle, Zenon DEF AuditNext
  <2>2. /\ \A e \in dimLog' \ dimLog : DimEntryAccepted(e)
        /\ \A e \in mcLog' \ mcLog : McEntryAccepted(e)
    BY <1>1, <2>1, EntriesAccepted
  <2>3. LogKeysUnique'
    BY <1>1 DEF AuditInv
  <2> QED BY <2>1, <2>2, <2>3 DEF RowsAccepted
<1>2. AuditInv /\ AuditInv' /\ [AuditNext]_auditVars => [Accepted]_auditVars
  BY <1>1
<1> HIDE DEF Accepted
<1>3. AuditSpec => [][Accepted]_auditVars
  BY <1>2, AuditTrailIsSound, PTL DEF AuditSpec
<1> USE DEF Accepted
<1> QED BY <1>3 DEF TriggersAccept

\* The catalog a reader of the logs sees.
Readable == ReplayedDims = dim /\ ReplayedMcs = mc

\* It is the catalog.
LEMMA ReadersSee == AuditInv => Readable
<1> SUFFICES ASSUME AuditInv PROVE Readable
  OBVIOUS
<1>1. dim \in [Dims -> DimRow] /\ mc \in [Mcs -> McRow]
  BY DEF AuditInv, CatalogOK
<1>2. \A d \in Dims : ReplayedDim(d) = dim[d]
  BY DimReplays
<1>3. \A m \in Mcs : ReplayedMc(m) = mc[m]
  BY McReplays
<1> QED BY <1>1, <1>2, <1>3 DEF Readable, ReplayedDims, ReplayedMcs

\* And it changes as the catalog does: operation by operation.
LEMMA ReadersStep ==
    ASSUME Readable, Readable', AtomicNext
    PROVE  Replayed!AtomicNext
<1>1. /\ ReplayedDims = dim /\ ReplayedMcs = mc
      /\ ReplayedDims' = dim' /\ ReplayedMcs' = mc'
  BY DEF Readable
<1>2. ASSUME NEW d \in Dims, NEW code \in Codes, NEW val \in Vals,
             CreateDimension(d, code, val)
      PROVE  Replayed!CreateDimension(d, code, val)
  BY <1>1, <1>2 DEF CreateDimension, Replayed!CreateDimension, Exists, Replayed!Exists,
     DimKeyTaken, Replayed!DimKeyTaken, CodeTaken, Replayed!CodeTaken, ValueTaken,
     Replayed!ValueTaken, NewDim, Replayed!NewDim
<1>3. ASSUME NEW d \in Dims, NEW code \in Codes \cup {None}, NEW val \in Vals \cup {None},
             ChangeDimension(d, code, val)
      PROVE  Replayed!ChangeDimension(d, code, val)
  BY <1>1, <1>3 DEF ChangeDimension, Replayed!ChangeDimension, Exists, Replayed!Exists,
     DimKeyTaken, Replayed!DimKeyTaken, CodeTaken, Replayed!CodeTaken, ValueTaken,
     Replayed!ValueTaken, ChangeDim, Replayed!ChangeDim, References, Replayed!References,
     RefDims, Replayed!RefDims, Slots, Replayed!Slots, Recompose, Replayed!Recompose,
     NextMasterCode, Replayed!NextMasterCode, Compose, Replayed!Compose
<1>4. ASSUME NEW d \in Dims, DeleteDimension(d) \/ RestoreDimension(d)
      PROVE  Replayed!DeleteDimension(d) \/ Replayed!RestoreDimension(d)
  BY <1>1, <1>4 DEF DeleteDimension, Replayed!DeleteDimension, RestoreDimension,
     Replayed!RestoreDimension, TransitionDeletion, Replayed!TransitionDeletion,
     References, Replayed!References, Exists, Replayed!Exists, RefDims, Replayed!RefDims,
     Slots, Replayed!Slots
<1>5. ASSUME NEW refs \in Refs, NEW code \in Codes, NEW val \in Vals
      PROVE  /\ Replayed!WithInline(refs, code, val) = WithInline(refs, code, val)
             /\ Replayed!Insertable(refs, code, val) <=> Insertable(refs, code, val)
  <2>1. Replayed!WithInline(refs, code, val) = WithInline(refs, code, val)
    BY <1>1 DEF WithInline, Replayed!WithInline, Exists, Replayed!Exists, RefDims,
       Replayed!RefDims, Slots, Replayed!Slots, NewDim, Replayed!NewDim
  <2>2. Replayed!Insertable(refs, code, val) <=> Insertable(refs, code, val)
    BY <1>1 DEF Insertable, Replayed!Insertable, Exists, Replayed!Exists, RefDims,
       Replayed!RefDims, Slots, Replayed!Slots, NewDim, Replayed!NewDim,
       DimKeyTaken, Replayed!DimKeyTaken, CodeTaken, Replayed!CodeTaken, ValueTaken,
       Replayed!ValueTaken
  <2> QED BY <2>1, <2>2
<1>6. ASSUME NEW refs, NEW D, NEW row
       PROVE  /\ Replayed!Usable(refs, D) <=> Usable(refs, D)
              /\ Replayed!NewMasterCode(refs, D) = NewMasterCode(refs, D)
              /\ Replayed!UpdateReferences(row, refs, D) = UpdateReferences(row, refs, D)
  <2>1. Replayed!Compose(refs, D) = Compose(refs, D)
    BY DEF Compose, Replayed!Compose, Slots, Replayed!Slots
  <2>2. Replayed!Usable(refs, D) <=> Usable(refs, D)
    BY DEF Usable, Replayed!Usable, RefDims, Replayed!RefDims, Slots, Replayed!Slots
  <2> QED BY <2>1, <2>2 DEF NewMasterCode, Replayed!NewMasterCode, UpdateReferences,
             Replayed!UpdateReferences, NextMasterCode, Replayed!NextMasterCode
<1>7. ASSUME NEW M, NEW m, NEW row
       PROVE  Replayed!McKeyTaken(M, m, row) <=> McKeyTaken(M, m, row)
  BY DEF McKeyTaken, Replayed!McKeyTaken, Exists, Replayed!Exists
<1>8. ASSUME NEW m \in Mcs, NEW refs \in Refs, NEW code \in Codes, NEW val \in Vals,
             CreateMasterCode(m, refs, code, val)
      PROVE  Replayed!CreateMasterCode(m, refs, code, val)
  <2>1. PICK D : D = WithInline(refs, code, val)
    OBVIOUS
  <2>2. /\ ~Exists(mc[m]) /\ Insertable(refs, code, val) /\ Usable(refs, D)
        /\ ~McKeyTaken(mc, m, NewMasterCode(refs, D))
        /\ dim' = D /\ mc' = [mc EXCEPT ![m] = NewMasterCode(refs, D)]
    BY <1>8, <2>1 DEF CreateMasterCode
  <2>3. Replayed!WithInline(refs, code, val) = D
    BY <1>5, <2>1
  <2> QED BY <1>1, <1>5, <1>6, <1>7, <2>2, <2>3
          DEF Replayed!CreateMasterCode, Exists, Replayed!Exists
<1>9. ASSUME NEW m \in Mcs, NEW refs \in Refs, NEW code \in Codes, NEW val \in Vals,
             ReplaceReferences(m, refs, code, val)
      PROVE  Replayed!ReplaceReferences(m, refs, code, val)
  <2>1. PICK D : D = WithInline(refs, code, val)
    OBVIOUS
  <2>2. /\ mc[m].st = "active" /\ refs # mc[m].refs
        /\ Insertable(refs, code, val) /\ Usable(refs, D)
        /\ ~McKeyTaken(mc, m, UpdateReferences(mc[m], refs, D))
        /\ dim' = D /\ mc' = [mc EXCEPT ![m] = UpdateReferences(mc[m], refs, D)]
    BY <1>9, <2>1 DEF ReplaceReferences
  <2>3. Replayed!WithInline(refs, code, val) = D
    BY <1>5, <2>1
  <2> QED BY <1>1, <1>5, <1>6, <1>7, <2>2, <2>3 DEF Replayed!ReplaceReferences
<1>10. ASSUME NEW m \in Mcs, Delete(m) \/ Restore(m)
      PROVE  Replayed!Delete(m) \/ Replayed!Restore(m)
  BY <1>1, <1>10 DEF Delete, Replayed!Delete, Restore, Replayed!Restore, Usable,
     Replayed!Usable, RefDims, Replayed!RefDims, Slots, Replayed!Slots,
     DeleteMasterCode, Replayed!DeleteMasterCode, RestoreMasterCode,
     Replayed!RestoreMasterCode, NextMasterCode, Replayed!NextMasterCode,
     Compose, Replayed!Compose
<1>11. Replayed!Refs = Refs
  BY DEF Refs, Replayed!Refs, Slots, Replayed!Slots
<1> QED BY <1>2, <1>3, <1>4, <1>8, <1>9, <1>10, <1>11, Zenon
        DEF AtomicNext, Replayed!AtomicNext

\* A reader who only has the log tables sees the atomic catalog: it starts
\* from a seed and changes by one whole operation at a time.
THEOREM LogsAccountForCatalog == AuditSpec => LogsImplementCatalog
<1>1. ASSUME Readable, AtomicInit PROVE Replayed!AtomicInit
  BY <1>1 DEF AtomicInit, Replayed!AtomicInit, Readable
<1>2. ASSUME AuditInv, Readable, Readable', [AuditNext]_auditVars
      PROVE  [Replayed!AtomicNext]_Replayed!db
  <2>1. CASE AuditNext
    <3>1. AtomicNext
      BY <1>2, <2>1, AuditIsMutation DEF Mutation
    <3> QED BY <1>2, <3>1, ReadersStep
  <2>2. CASE UNCHANGED auditVars
    <3>1. dim' = dim /\ mc' = mc
      BY <2>2 DEF auditVars, db
    <3>2. ReplayedDims' = ReplayedDims /\ ReplayedMcs' = ReplayedMcs
      BY <1>2, <3>1 DEF Readable
    <3> QED BY <3>2 DEF Replayed!db
  <2> QED BY <1>2, <2>1, <2>2
<1>3. AuditSpec => []Readable
  BY AuditTrailIsSound, ReadersSee, PTL
<1>4. AuditSpec => Replayed!AtomicSpec
  <2>1. AuditInit => AtomicInit
    BY DEF AuditInit
  <2> QED BY <1>1, <1>2, <1>3, <2>1, AuditTrailIsSound, PTL DEF AuditSpec, Replayed!AtomicSpec
<1> QED BY <1>4 DEF LogsImplementCatalog
=============================================================================
