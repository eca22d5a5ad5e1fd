------------------------- MODULE AtomicCatalogProofs -------------------------
(***************************************************************************)
(* The atomic catalog keeps every stored code composed and every active    *)
(* reference grounded, for every number of slots, rows, codes and values.  *)
(***************************************************************************)
EXTENDS AtomicCatalog, TLAPS

(***************************************************************************)
(* Rows.                                                                   *)
(***************************************************************************)
CatalogOK(D, M) ==
    /\ D \in [Dims -> DimRow]
    /\ M \in [Mcs -> McRow]
    /\ Composed(D, M)
    /\ Grounded(D, M)

\* A row that exists is active or deleted and has a code, a value, a version.
LEMMA DimRowShape ==
    ASSUME NEW row \in DimRow
    PROVE  /\ Exists(row) <=> row.st \in {"active", "deleted"}
           /\ Exists(row) => row \in [st : {"active", "deleted"}, code : Codes,
                                      val : Vals, version : Nat \ {0}]
BY DEF DimRow, NoDim, Exists

\* A MasterCode row that exists has references, a code and a version.
LEMMA McRowShape ==
    ASSUME NEW row \in McRow
    PROVE  /\ Exists(row) <=> row.st \in {"active", "deleted"}
           /\ Exists(row) => row \in [st : {"active", "deleted"}, refs : Refs,
                                      code : [Slots -> Codes \cup {NNN}],
                                      version : Nat \ {0}]
BY DEF McRow, NoMc, Exists

\* What create, change, delete and restore make of a Dimension row.
LEMMA NewDimRow ==
    ASSUME NEW code \in Codes, NEW val \in Vals
    PROVE  /\ NewDim(code, val) \in DimRow
           /\ NewDim(code, val).st = "active"
BY DEF NewDim, DimRow

\* Dimension.change yields a row and keeps its state.
LEMMA ChangeDimRow ==
    ASSUME NEW row \in DimRow, Exists(row),
           NEW code \in Codes \cup {None}, NEW val \in Vals \cup {None}
    PROVE  /\ ChangeDim(row, code, val) \in DimRow
           /\ ChangeDim(row, code, val).st = row.st
<1>1. row \in [st : {"active", "deleted"}, code : Codes, val : Vals,
               version : Nat \ {0}]
  BY DimRowShape
<1> QED BY <1>1 DEF ChangeDim, DimRow

\* Deletion and restoration yield a row and keep its code.
LEMMA TransitionDimRow ==
    ASSUME NEW row \in DimRow, Exists(row), NEW deleted \in BOOLEAN
    PROVE  /\ TransitionDeletion(row, deleted) \in DimRow
           /\ TransitionDeletion(row, deleted).code = row.code
           /\ TransitionDeletion(row, deleted).st =
                (IF deleted THEN "deleted" ELSE "active")
<1>1. row \in [st : {"active", "deleted"}, code : Codes, val : Vals,
               version : Nat \ {0}]
  BY DimRowShape
<1> QED BY <1>1 DEF TransitionDeletion, DimRow

\* A composition over existing rows is a code.
LEMMA ComposeType ==
    ASSUME NEW refs \in Refs, NEW D \in [Dims -> DimRow],
           \A d \in RefDims(refs) : Exists(D[d])
    PROVE  Compose(refs, D) \in [Slots -> Codes \cup {NNN}]
<1>1. SUFFICES ASSUME NEW s \in Slots, refs[s] # None
               PROVE  D[refs[s]].code \in Codes
  BY DEF Compose
<1>2. refs[s] \in Dims /\ refs[s] \in RefDims(refs)
  BY <1>1 DEF Refs, RefDims
<1> QED BY <1>2, DimRowShape

\* Writing one Dimension row whose code stays leaves every composition alone.
LEMMA ComposeStable ==
    ASSUME NEW refs \in Refs, NEW D \in [Dims -> DimRow], NEW E \in [Dims -> DimRow],
           \A d \in RefDims(refs) : D[d].code = E[d].code
    PROVE  Compose(refs, D) = Compose(refs, E)
BY DEF Compose, Refs, RefDims

\* A MasterCode created over existing rows is a row.
LEMMA NewMcRow ==
    ASSUME NEW refs \in Refs, NEW D \in [Dims -> DimRow],
           \A d \in RefDims(refs) : Exists(D[d])
    PROVE  NewMasterCode(refs, D) \in McRow
<1>1. Compose(refs, D) \in [Slots -> Codes \cup {NNN}]
  BY ComposeType
<1> QED BY <1>1 DEF NewMasterCode, McRow

\* The next version of a MasterCode is a row.
LEMMA NextMcRow ==
    ASSUME NEW row \in McRow, Exists(row), NEW st \in {"active", "deleted"},
           NEW refs \in Refs, NEW code \in [Slots -> Codes \cup {NNN}]
    PROVE  NextMasterCode(row, st, refs, code) \in McRow
<1>1. row.version + 1 \in Nat \ {0}
  BY McRowShape
<1> QED BY <1>1 DEF NextMasterCode, McRow

(***************************************************************************)
(* The atomic catalog.                                                     *)
(***************************************************************************)

\* An inserted Dimension is referenced by nobody yet.
LEMMA AtomicCreateDimension ==
    ASSUME CatalogOK(dim, mc), NEW d \in Dims, NEW code \in Codes, NEW val \in Vals,
           CreateDimension(d, code, val)
    PROVE  CatalogOK(dim', mc')
<1> DEFINE row == NewDim(code, val)
<1>1. dim' = [dim EXCEPT ![d] = row] /\ mc' = mc /\ ~Exists(dim[d])
  BY DEF CreateDimension
<1>2. row \in DimRow /\ row.st = "active"
  BY NewDimRow
<1>3. dim' \in [Dims -> DimRow] /\ mc' \in [Mcs -> McRow]
  BY <1>1, <1>2 DEF CatalogOK
<1>4. ASSUME NEW m \in Mcs, Exists(mc[m])
      PROVE  mc[m].refs \in Refs /\ \A e \in RefDims(mc[m].refs) :
                e # d /\ e \in Dims /\ dim'[e] = dim[e]
  <2>1. mc[m].refs \in Refs
    BY <1>4, McRowShape DEF CatalogOK
  <2>2. ASSUME NEW e \in RefDims(mc[m].refs) PROVE e \in Dims /\ Exists(dim[e])
    BY <1>4, <2>1, <2>2 DEF CatalogOK, Grounded, RefDims, Refs
  <2> QED BY <2>1, <2>2, <1>1 DEF CatalogOK
<1>5. Composed(dim', mc')
  <2>1. SUFFICES ASSUME NEW m \in Mcs, Exists(mc[m])
                 PROVE  mc[m].code = Compose(mc[m].refs, dim')
    BY <1>1 DEF Composed
  <2> QED BY <1>3, <1>4, <2>1, ComposeStable DEF CatalogOK, Composed
<1>6. Grounded(dim', mc')
  BY <1>1, <1>3, <1>4 DEF CatalogOK, Grounded, RefDims
<1> QED BY <1>3, <1>5, <1>6 DEF CatalogOK

\* A row that no MasterCode can see the difference of: code and activity of
\* every referenced row are as before.
LEMMA AtomicSameCodes ==
    ASSUME CatalogOK(dim, mc), mc' = mc, NEW d \in Dims, NEW row \in DimRow,
           dim' = [dim EXCEPT ![d] = row], Exists(dim[d]), Exists(row),
           row.code = dim[d].code,
           \A m \in Mcs : References(mc[m], d) /\ mc[m].st = "active" =>
                row.st = "active"
    PROVE  CatalogOK(dim', mc')
<1>1. dim' \in [Dims -> DimRow] /\ mc' \in [Mcs -> McRow]
  BY DEF CatalogOK
<1>2. ASSUME NEW m \in Mcs, Exists(mc[m]) PROVE mc[m].refs \in Refs
  BY <1>2, McRowShape DEF CatalogOK
<1>3. \A e \in Dims : dim'[e].code = dim[e].code /\ (Exists(dim[e]) => Exists(dim'[e]))
  BY DEF CatalogOK
<1>4. Composed(dim', mc')
  <2>1. SUFFICES ASSUME NEW m \in Mcs, Exists(mc[m])
                 PROVE  mc[m].code = Compose(mc[m].refs, dim')
    BY DEF Composed
  <2>2. \A e \in RefDims(mc[m].refs) : dim[e].code = dim'[e].code
    BY <1>2, <1>3, <2>1 DEF RefDims, Refs
  <2>3. Compose(mc[m].refs, dim) = Compose(mc[m].refs, dim')
    BY <1>1, <1>2, <2>1, <2>2, ComposeStable DEF CatalogOK
  <2> QED BY <2>1, <2>3 DEF CatalogOK, Composed
<1>5. Grounded(dim', mc')
  <2>1. SUFFICES ASSUME NEW m \in Mcs, NEW s \in Slots, Exists(mc[m]),
                        mc[m].refs[s] # None
                 PROVE  /\ Exists(dim'[mc[m].refs[s]])
                        /\ mc[m].st = "active" => dim'[mc[m].refs[s]].st = "active"
    BY DEF Grounded
  <2>2. mc[m].refs[s] \in Dims
    BY <1>2, <2>1 DEF Refs
  <2>3. /\ Exists(dim[mc[m].refs[s]])
        /\ mc[m].st = "active" => dim[mc[m].refs[s]].st = "active"
    BY <2>1 DEF CatalogOK, Grounded
  <2>4. CASE mc[m].refs[s] = d
    <3>1. References(mc[m], d)
      BY <2>1, <2>2, <2>4, SentinelAssumption DEF References, RefDims
    <3> QED BY <3>1, <2>2, <2>4 DEF CatalogOK
  <2>5. CASE mc[m].refs[s] # d
    BY <2>2, <2>3, <2>5 DEF CatalogOK
  <2> QED BY <2>4, <2>5
<1> QED BY <1>1, <1>4, <1>5 DEF CatalogOK

\* A Dimension is deleted only when no active MasterCode references it.
LEMMA AtomicDeleteDimension ==
    ASSUME CatalogOK(dim, mc), NEW d \in Dims, DeleteDimension(d)
    PROVE  CatalogOK(dim', mc')
<1> DEFINE row == TransitionDeletion(dim[d], TRUE)
<1>1. /\ dim[d] \in DimRow /\ Exists(dim[d])
      /\ dim' = [dim EXCEPT ![d] = row] /\ mc' = mc
      /\ \A m \in Mcs : References(mc[m], d) => mc[m].st # "active"
  BY DEF CatalogOK, DeleteDimension, Exists
<1>2. row \in DimRow /\ row.code = dim[d].code /\ row.st = "deleted"
  BY <1>1, TransitionDimRow
<1>3. Exists(row)
  BY <1>2 DEF Exists
<1> HIDE DEF row
<1> QED BY <1>1, <1>2, <1>3, AtomicSameCodes

\* Restoring a Dimension changes no code.
LEMMA AtomicRestoreDimension ==
    ASSUME CatalogOK(dim, mc), NEW d \in Dims, RestoreDimension(d)
    PROVE  CatalogOK(dim', mc')
<1> DEFINE row == TransitionDeletion(dim[d], FALSE)
<1>1. /\ dim[d] \in DimRow /\ Exists(dim[d])
      /\ dim' = [dim EXCEPT ![d] = row] /\ mc' = mc
  BY DEF CatalogOK, RestoreDimension, Exists
<1>2. row \in DimRow /\ row.code = dim[d].code /\ row.st = "active"
  BY <1>1, TransitionDimRow
<1>3. Exists(row)
  BY <1>2 DEF Exists
<1> HIDE DEF row
<1> QED BY <1>1, <1>2, <1>3, AtomicSameCodes

\* The fan-out: every MasterCode that references the changed row is
\* recomposed, the others do not see it.
LEMMA AtomicChangeDimension ==
    ASSUME CatalogOK(dim, mc), NEW d \in Dims, NEW code \in Codes \cup {None},
           NEW val \in Vals \cup {None}, ChangeDimension(d, code, val)
    PROVE  CatalogOK(dim', mc')
<1> DEFINE row == ChangeDim(dim[d], code, val)
<1>1. /\ dim[d].st = "active" /\ dim[d] \in DimRow
      /\ dim' = [dim EXCEPT ![d] = row]
      /\ mc' = [m \in Mcs |-> IF References(mc[m], d) THEN Recompose(mc[m], dim')
                              ELSE mc[m]]
  BY DEF CatalogOK, ChangeDimension
<1>2. Exists(dim[d])
  BY <1>1 DEF Exists
<1>3. row \in DimRow /\ row.st = "active"
  BY <1>1, <1>2, ChangeDimRow
<1> HIDE DEF row
<1>4. /\ dim' \in [Dims -> DimRow]
      /\ \A e \in Dims : dim'[e].st = dim[e].st /\ (e # d => dim'[e] = dim[e])
  BY <1>1, <1>3 DEF CatalogOK
<1>5. ASSUME NEW m \in Mcs, Exists(mc[m])
      PROVE  /\ mc[m].refs \in Refs
             /\ \A e \in RefDims(mc[m].refs) : e \in Dims /\ Exists(dim'[e])
  <2>1. mc[m].refs \in Refs
    BY <1>5, McRowShape DEF CatalogOK
  <2>2. ASSUME NEW e \in RefDims(mc[m].refs) PROVE e \in Dims /\ Exists(dim[e])
    BY <1>5, <2>1, <2>2 DEF CatalogOK, Grounded, RefDims, Refs
  <2> QED BY <2>1, <2>2, <1>4 DEF Exists
<1>6. ASSUME NEW m \in Mcs
      PROVE  /\ mc'[m] \in McRow
             /\ mc'[m].st = mc[m].st
             /\ mc'[m].refs = mc[m].refs
             /\ Exists(mc[m]) => mc'[m].code = Compose(mc[m].refs, dim')
  <2>0. mc[m] \in McRow
    BY DEF CatalogOK
  <2>1. CASE References(mc[m], d)
    <3>1. Exists(mc[m]) /\ mc'[m] = Recompose(mc[m], dim')
      BY <1>1, <2>1 DEF References
    <3>2. Compose(mc[m].refs, dim') \in [Slots -> Codes \cup {NNN}]
      BY <1>4, <1>5, <3>1, ComposeType
    <3>3. mc[m].st \in {"active", "deleted"} /\ mc[m].refs \in Refs
      BY <2>0, <3>1, McRowShape
    <3>4. NextMasterCode(mc[m], mc[m].st, mc[m].refs, Compose(mc[m].refs, dim'))
            \in McRow
      BY <2>0, <3>1, <3>2, <3>3, NextMcRow
    <3> QED BY <2>0, <3>1, <3>4 DEF Recompose, NextMasterCode
  <2>2. CASE ~References(mc[m], d)
    <3>1. mc'[m] = mc[m]
      BY <1>1, <2>2
    <3>2. ASSUME Exists(mc[m]) PROVE mc[m].code = Compose(mc[m].refs, dim')
      <4>1. \A e \in RefDims(mc[m].refs) : dim[e].code = dim'[e].code
        BY <1>4, <1>5, <2>2, <3>2 DEF References
      <4>2. Compose(mc[m].refs, dim) = Compose(mc[m].refs, dim')
        BY <1>4, <1>5, <3>2, <4>1, ComposeStable DEF CatalogOK
      <4> QED BY <3>2, <4>2 DEF CatalogOK, Composed
    <3> QED BY <2>0, <3>1, <3>2
  <2> QED BY <2>1, <2>2
<1>7. mc' \in [Mcs -> McRow]
  BY <1>1, <1>6
<1>8. Composed(dim', mc')
  BY <1>6 DEF Composed, Exists
<1>9. Grounded(dim', mc')
  <2>1. SUFFICES ASSUME NEW m \in Mcs, NEW s \in Slots, Exists(mc'[m]),
                        mc'[m].refs[s] # None
                 PROVE  /\ Exists(dim'[mc'[m].refs[s]])
                        /\ mc'[m].st = "active" => dim'[mc'[m].refs[s]].st = "active"
    BY DEF Grounded
  <2>2. Exists(mc[m]) /\ mc'[m].refs = mc[m].refs /\ mc'[m].st = mc[m].st
    BY <1>6, <2>1 DEF Exists
  <2>3. mc[m].refs[s] \in Dims
    BY <1>5, <2>1, <2>2 DEF Refs
  <2> QED BY <1>4, <2>1, <2>2, <2>3 DEF CatalogOK, Grounded, Exists
<1> QED BY <1>4, <1>7, <1>8, <1>9 DEF CatalogOK

\* Inserting Dimensions leaves the existing rows alone.
LEMMA InlineRows ==
    ASSUME CatalogOK(dim, mc), NEW refs \in Refs, NEW code \in Codes, NEW val \in Vals
    PROVE  /\ WithInline(refs, code, val) \in [Dims -> DimRow]
           /\ \A e \in Dims : Exists(dim[e]) => WithInline(refs, code, val)[e] = dim[e]
<1>1. NewDim(code, val) \in DimRow
  BY NewDimRow
<1> QED BY <1>1 DEF WithInline, CatalogOK

\* Writing one MasterCode row, composed over usable references.
LEMMA AtomicWriteMasterCode ==
    ASSUME CatalogOK(dim, mc), NEW m \in Mcs, NEW row \in McRow,
           dim' \in [Dims -> DimRow],
           \A e \in Dims : Exists(dim[e]) => dim'[e] = dim[e],
           mc' = [mc EXCEPT ![m] = row],
           row.refs \in Refs,
           row.code = Compose(row.refs, dim'),
           \A e \in RefDims(row.refs) :
                Exists(dim'[e]) /\ (row.st = "active" => dim'[e].st = "active")
    PROVE  CatalogOK(dim', mc')
<1>1. mc' \in [Mcs -> McRow]
  BY DEF CatalogOK
<1>2. ASSUME NEW n \in Mcs, n # m, Exists(mc[n])
      PROVE  /\ mc[n].refs \in Refs
             /\ \A e \in RefDims(mc[n].refs) : e \in Dims /\ dim'[e] = dim[e]
             /\ mc[n].code = Compose(mc[n].refs, dim')
  <2>1. mc[n].refs \in Refs
    BY <1>2, McRowShape DEF CatalogOK
  <2>2. ASSUME NEW e \in RefDims(mc[n].refs) PROVE e \in Dims /\ Exists(dim[e])
    BY <1>2, <2>1, <2>2 DEF CatalogOK, Grounded, RefDims, Refs
  <2>3. Compose(mc[n].refs, dim) = Compose(mc[n].refs, dim')
    BY <2>1, <2>2, ComposeStable DEF CatalogOK
  <2> QED BY <1>2, <2>1, <2>2, <2>3 DEF CatalogOK, Composed
<1>3. mc'[m] = row /\ \A n \in Mcs : n # m => mc'[n] = mc[n]
  BY DEF CatalogOK
<1>4. Composed(dim', mc')
  BY <1>2, <1>3 DEF Composed
<1>5. Grounded(dim', mc')
  <2>1. SUFFICES ASSUME NEW n \in Mcs, NEW s \in Slots, Exists(mc'[n]),
                        mc'[n].refs[s] # None
                 PROVE  /\ Exists(dim'[mc'[n].refs[s]])
                        /\ mc'[n].st = "active" => dim'[mc'[n].refs[s]].st = "active"
    BY DEF Grounded
  <2>2. mc'[n].refs[s] \in RefDims(mc'[n].refs)
    BY <2>1 DEF RefDims
  <2>3. CASE n = m
    BY <1>3, <2>2, <2>3
  <2>4. CASE n # m
    <3>1. mc'[n] = mc[n] /\ dim'[mc[n].refs[s]] = dim[mc[n].refs[s]]
      BY <1>2, <1>3, <2>1, <2>2, <2>4
    <3> QED BY <2>1, <3>1 DEF CatalogOK, Grounded
  <2> QED BY <2>3, <2>4
<1> QED BY <1>1, <1>4, <1>5 DEF CatalogOK

\* Usable references exist and are active.
LEMMA UsableRefs ==
    ASSUME NEW refs, NEW D, Usable(refs, D)
    PROVE  \A e \in RefDims(refs) : Exists(D[e]) /\ D[e].st = "active"
BY DEF Usable, Exists

\* A new MasterCode is composed over usable rows.
LEMMA AtomicCreateMasterCode ==
    ASSUME CatalogOK(dim, mc), NEW m \in Mcs, NEW refs \in Refs,
           NEW code \in Codes, NEW val \in Vals, CreateMasterCode(m, refs, code, val)
    PROVE  CatalogOK(dim', mc')
<1>1. /\ dim' = WithInline(refs, code, val)
      /\ Usable(refs, dim')
      /\ mc' = [mc EXCEPT ![m] = NewMasterCode(refs, dim')]
  BY DEF CreateMasterCode
<1>2. dim' \in [Dims -> DimRow] /\ \A e \in Dims : Exists(dim[e]) => dim'[e] = dim[e]
  BY <1>1, InlineRows
<1>3. \A e \in RefDims(refs) : Exists(dim'[e]) /\ dim'[e].st = "active"
  BY <1>1, UsableRefs
<1>4. NewMasterCode(refs, dim') \in McRow
  BY <1>2, <1>3, NewMcRow
<1>5. /\ NewMasterCode(refs, dim').refs = refs
      /\ NewMasterCode(refs, dim').code = Compose(refs, dim')
  BY DEF NewMasterCode
<1> QED BY <1>1, <1>2, <1>3, <1>4, <1>5, AtomicWriteMasterCode

\* Replaced references are usable and the code is recomposed.
LEMMA AtomicReplaceReferences ==
    ASSUME CatalogOK(dim, mc), NEW m \in Mcs, NEW refs \in Refs,
           NEW code \in Codes, NEW val \in Vals, ReplaceReferences(m, refs, code, val)
    PROVE  CatalogOK(dim', mc')
<1>1. /\ dim' = WithInline(refs, code, val)
      /\ Usable(refs, dim')
      /\ mc[m] \in McRow /\ mc[m].st = "active"
      /\ mc' = [mc EXCEPT ![m] = UpdateReferences(mc[m], refs, dim')]
  BY DEF CatalogOK, ReplaceReferences
<1>2. dim' \in [Dims -> DimRow] /\ \A e \in Dims : Exists(dim[e]) => dim'[e] = dim[e]
  BY <1>1, InlineRows
<1>3. \A e \in RefDims(refs) : Exists(dim'[e]) /\ dim'[e].st = "active"
  BY <1>1, UsableRefs
<1>4. Compose(refs, dim') \in [Slots -> Codes \cup {NNN}]
  BY <1>2, <1>3, ComposeType
<1>5. UpdateReferences(mc[m], refs, dim') \in McRow
  BY <1>1, <1>4, NextMcRow DEF UpdateReferences, Exists
<1>6. /\ UpdateReferences(mc[m], refs, dim').refs = refs
      /\ UpdateReferences(mc[m], refs, dim').code = Compose(refs, dim')
  BY DEF UpdateReferences, NextMasterCode
<1> QED BY <1>1, <1>2, <1>3, <1>5, <1>6, AtomicWriteMasterCode

\* What the catalog says of one stored MasterCode.
LEMMA StoredMasterCode ==
    ASSUME CatalogOK(dim, mc), NEW m \in Mcs, Exists(mc[m])
    PROVE  /\ mc[m] \in McRow /\ mc[m].refs \in Refs
           /\ mc[m].code \in [Slots -> Codes \cup {NNN}]
           /\ mc[m].code = Compose(mc[m].refs, dim)
           /\ \A e \in RefDims(mc[m].refs) :
                /\ e \in Dims /\ Exists(dim[e])
                /\ mc[m].st = "active" => dim[e].st = "active"
<1>1. /\ mc[m] \in McRow /\ mc[m].refs \in Refs
      /\ mc[m].code \in [Slots -> Codes \cup {NNN}]
  BY McRowShape DEF CatalogOK
<1>2. ASSUME NEW e \in RefDims(mc[m].refs)
      PROVE  e \in Dims /\ Exists(dim[e]) /\ (mc[m].st = "active" => dim[e].st = "active")
  BY <1>1, <1>2 DEF CatalogOK, Grounded, RefDims, Refs
<1> QED BY <1>1, <1>2 DEF CatalogOK, Composed

\* A deleted MasterCode keeps its references and its code.
LEMMA AtomicDelete ==
    ASSUME CatalogOK(dim, mc), NEW m \in Mcs, Delete(m)
    PROVE  CatalogOK(dim', mc')
<1>1. /\ dim' = dim /\ mc[m].st = "active" /\ Exists(mc[m])
      /\ mc' = [mc EXCEPT ![m] = DeleteMasterCode(mc[m])]
  BY DEF Delete, Exists
<1>2. DeleteMasterCode(mc[m]) \in McRow
  BY <1>1, StoredMasterCode, NextMcRow DEF DeleteMasterCode
<1>3. /\ DeleteMasterCode(mc[m]).refs = mc[m].refs
      /\ DeleteMasterCode(mc[m]).code = mc[m].code
      /\ DeleteMasterCode(mc[m]).st = "deleted"
  BY DEF DeleteMasterCode, NextMasterCode
<1>4. dim' \in [Dims -> DimRow] /\ \A e \in Dims : dim'[e] = dim[e]
  BY <1>1 DEF CatalogOK
<1> QED BY <1>1, <1>2, <1>3, <1>4, StoredMasterCode, AtomicWriteMasterCode

\* A MasterCode is restored over usable rows.
LEMMA AtomicRestore ==
    ASSUME CatalogOK(dim, mc), NEW m \in Mcs, Restore(m)
    PROVE  CatalogOK(dim', mc')
<1>1. /\ dim' = dim /\ mc[m].st = "deleted" /\ Exists(mc[m])
      /\ Usable(mc[m].refs, dim)
      /\ mc' = [mc EXCEPT ![m] = RestoreMasterCode(mc[m], dim)]
  BY DEF Restore, Exists
<1>2. RestoreMasterCode(mc[m], dim) \in McRow
  BY <1>1, StoredMasterCode, NextMcRow DEF RestoreMasterCode
<1>3. /\ RestoreMasterCode(mc[m], dim).refs = mc[m].refs
      /\ RestoreMasterCode(mc[m], dim).code = Compose(mc[m].refs, dim)
  BY DEF RestoreMasterCode, NextMasterCode
<1>4. dim' \in [Dims -> DimRow] /\ \A e \in Dims : dim'[e] = dim[e]
  BY <1>1 DEF CatalogOK
<1>5. \A e \in RefDims(mc[m].refs) : Exists(dim[e]) /\ dim[e].st = "active"
  BY <1>1, UsableRefs
<1> QED BY <1>1, <1>2, <1>3, <1>4, <1>5, StoredMasterCode, AtomicWriteMasterCode

\* Every atomic operation preserves the catalog's invariant.
LEMMA AtomicPreserves ==
    ASSUME CatalogOK(dim, mc), [AtomicNext]_db
    PROVE  CatalogOK(dim', mc')
<1>1. CASE UNCHANGED db
  BY <1>1 DEF db
<1>2. CASE \E d \in Dims, code \in Codes, val \in Vals : CreateDimension(d, code, val)
  BY <1>2, AtomicCreateDimension
<1>3. CASE \E d \in Dims, code \in Codes \cup {None}, val \in Vals \cup {None} :
                ChangeDimension(d, code, val)
  BY <1>3, AtomicChangeDimension
<1>4. CASE \E d \in Dims : DeleteDimension(d) \/ RestoreDimension(d)
  BY <1>4, AtomicDeleteDimension, AtomicRestoreDimension
<1>5. CASE \E m \in Mcs, refs \in Refs, code \in Codes, val \in Vals :
                \/ CreateMasterCode(m, refs, code, val)
                \/ ReplaceReferences(m, refs, code, val)
  BY <1>5, AtomicCreateMasterCode, AtomicReplaceReferences
<1>6. CASE \E m \in Mcs : Delete(m) \/ Restore(m)
  BY <1>6, AtomicDelete, AtomicRestore
<1> QED BY <1>1, <1>2, <1>3, <1>4, <1>5, <1>6 DEF AtomicNext

\* The catalogs the database may start from are in order.
LEMMA AtomicInitially == AtomicInit => CatalogOK(dim, mc)
BY SeedAssumption DEF AtomicInit, CatalogOK

\* Whatever whole operations are applied to the catalog, in any order: every
\* stored code is the composition of its references' current codes, and no
\* active MasterCode references a deleted Dimension.
THEOREM AtomicCatalogInvariant == AtomicSpec => []CatalogOK(dim, mc)
<1>1. AtomicInit => CatalogOK(dim, mc)
  BY AtomicInitially
<1>2. CatalogOK(dim, mc) /\ [AtomicNext]_db => CatalogOK(dim, mc)'
  BY AtomicPreserves
<1> QED BY <1>1, <1>2, PTL DEF AtomicSpec

(***************************************************************************)
(* Keys and versions.                                                      *)
(***************************************************************************)
KeysUnique(D, M) == UniqueDims(D) /\ UniqueMcs(M)

\* Writing one Dimension row whose keys are free keeps keys unique.
LEMMA WriteDimKeepsKeys ==
    ASSUME dim \in [Dims -> DimRow], UniqueDims(dim), NEW d \in Dims, NEW row,
           ~DimKeyTaken(dim, d, row), dim' = [dim EXCEPT ![d] = row]
    PROVE  UniqueDims(dim')
<1>1. dim'[d] = row /\ \A e \in Dims : e # d => dim'[e] = dim[e]
  OBVIOUS
<1> QED BY <1>1 DEF UniqueDims, DimKeyTaken, CodeTaken, ValueTaken

\* Deletion and restoration of a Dimension leave its keys alone.
LEMMA TransitionKeepsKeys ==
    ASSUME dim \in [Dims -> DimRow], UniqueDims(dim), NEW d \in Dims, Exists(dim[d]),
           NEW deleted \in BOOLEAN,
           dim' = [dim EXCEPT ![d] = TransitionDeletion(dim[d], deleted)]
    PROVE  UniqueDims(dim')
<1>1. \A e \in Dims : /\ Exists(dim'[e]) <=> Exists(dim[e])
                      /\ dim'[e].code = dim[e].code /\ dim'[e].val = dim[e].val
  BY DEF TransitionDeletion, Exists
<1> QED BY <1>1 DEF UniqueDims

\* Dimensions inserted with one MasterCode are of different slots.
LEMMA InlineKeepsKeys ==
    ASSUME dim \in [Dims -> DimRow], UniqueDims(dim), NEW refs \in Refs,
           NEW code \in Codes, NEW val \in Vals, Insertable(refs, code, val),
           dim' = WithInline(refs, code, val)
    PROVE  UniqueDims(dim')
<1> DEFINE new == {d \in Dims : d \in RefDims(refs) /\ ~Exists(dim[d])}
<1>1. \A d \in Dims : dim'[d] = IF d \in new THEN NewDim(code, val) ELSE dim[d]
  BY DEF WithInline
<1>2. NewDim(code, val).code = code /\ NewDim(code, val).val = val
  BY DEF NewDim
<1>3. \A d \in new : \E s \in Slots : refs[s] = d /\ SlotOf[d] = s
  BY DEF RefDims, Refs
<1>4. \A d, e \in new : SlotOf[d] = SlotOf[e] => d = e
  BY <1>3
<1>5. ASSUME NEW d \in new, NEW e \in Dims, Exists(dim[e]), e # d, SlotOf[e] = SlotOf[d]
      PROVE  dim[e].code # code /\ dim[e].val # val
  <2>1. ~DimKeyTaken(dim, d, NewDim(code, val))
    BY <1>5 DEF Insertable
  <2> QED BY <1>2, <1>5, <2>1 DEF DimKeyTaken, CodeTaken, ValueTaken
<1>6. SUFFICES ASSUME NEW d \in Dims, NEW e \in Dims, Exists(dim'[d]), Exists(dim'[e]),
                      d # e, SlotOf[d] = SlotOf[e]
               PROVE  dim'[d].code # dim'[e].code /\ dim'[d].val # dim'[e].val
  BY DEF UniqueDims
<1> HIDE DEF new
<1>7. CASE d \in new
  BY <1>1, <1>2, <1>4, <1>5, <1>6, <1>7
<1>8. CASE e \in new /\ d \notin new
  BY <1>1, <1>2, <1>5, <1>6, <1>8
<1>9. CASE d \notin new /\ e \notin new
  BY <1>1, <1>6, <1>9 DEF UniqueDims
<1> QED BY <1>7, <1>8, <1>9

\* Writing one MasterCode row keeps references unique, if they are free or
\* the row has them already.
LEMMA WriteMcKeepsKeys ==
    ASSUME mc \in [Mcs -> McRow], UniqueMcs(mc), NEW m \in Mcs, NEW row,
           mc' = [mc EXCEPT ![m] = row],
           ~McKeyTaken(mc, m, row) \/ (Exists(mc[m]) /\ row.refs = mc[m].refs)
    PROVE  UniqueMcs(mc')
<1>1. mc'[m] = row /\ \A n \in Mcs : n # m => mc'[n] = mc[n]
  OBVIOUS
<1> QED BY <1>1 DEF UniqueMcs, McKeyTaken

\* Every atomic operation keeps the Dimension keys and the reference sets
\* unique, deleted rows included.
LEMMA AtomicKeepsKeys ==
    ASSUME CatalogOK(dim, mc), KeysUnique(dim, mc), [AtomicNext]_db
    PROVE  KeysUnique(dim', mc')
<1>1. /\ dim \in [Dims -> DimRow] /\ mc \in [Mcs -> McRow]
      /\ UniqueDims(dim) /\ UniqueMcs(mc)
  BY DEF CatalogOK, KeysUnique
<1>2. CASE UNCHANGED db
  BY <1>1, <1>2 DEF db, KeysUnique
<1>3. ASSUME NEW d \in Dims, NEW code \in Codes, NEW val \in Vals,
             CreateDimension(d, code, val)
      PROVE  KeysUnique(dim', mc')
  BY <1>1, <1>3, WriteDimKeepsKeys DEF CreateDimension, KeysUnique
<1>4. ASSUME NEW d \in Dims, NEW code \in Codes \cup {None}, NEW val \in Vals \cup {None},
             ChangeDimension(d, code, val)
      PROVE  KeysUnique(dim', mc')
  <2>1. UniqueDims(dim')
    BY <1>1, <1>4, WriteDimKeepsKeys DEF ChangeDimension
  <2>2. \A m \in Mcs : mc'[m].st = mc[m].st /\ mc'[m].refs = mc[m].refs
    BY <1>4 DEF ChangeDimension, Recompose, NextMasterCode
  <2> QED BY <1>1, <2>1, <2>2 DEF UniqueMcs, KeysUnique, Exists
<1>5. ASSUME NEW d \in Dims, DeleteDimension(d) \/ RestoreDimension(d)
      PROVE  KeysUnique(dim', mc')
  <2>1. /\ Exists(dim[d]) /\ mc' = mc
        /\ \/ dim' = [dim EXCEPT ![d] = TransitionDeletion(dim[d], TRUE)]
           \/ dim' = [dim EXCEPT ![d] = TransitionDeletion(dim[d], FALSE)]
    BY <1>5 DEF DeleteDimension, RestoreDimension, Exists
  <2> QED BY <1>1, <2>1, TransitionKeepsKeys DEF KeysUnique
<1>6. ASSUME NEW m \in Mcs, NEW refs \in Refs, NEW code \in Codes, NEW val \in Vals,
             CreateMasterCode(m, refs, code, val) \/ ReplaceReferences(m, refs, code, val)
      PROVE  KeysUnique(dim', mc')
  <2>1. PICK row : mc' = [mc EXCEPT ![m] = row] /\ ~McKeyTaken(mc, m, row)
    BY <1>6 DEF CreateMasterCode, ReplaceReferences
  <2>2. UniqueMcs(mc')
    BY <1>1, <2>1, WriteMcKeepsKeys
  <2>3. UniqueDims(dim')
    BY <1>1, <1>6, InlineKeepsKeys DEF CreateMasterCode, ReplaceReferences
  <2> QED BY <2>2, <2>3 DEF KeysUnique
<1>7. ASSUME NEW m \in Mcs, Delete(m) \/ Restore(m)
      PROVE  KeysUnique(dim', mc')
  <2>1. PICK row : mc' = [mc EXCEPT ![m] = row] /\ row.refs = mc[m].refs
    BY <1>7 DEF Delete, Restore, DeleteMasterCode, RestoreMasterCode, NextMasterCode
  <2>2. Exists(mc[m]) /\ dim' = dim
    BY <1>7 DEF Delete, Restore, Exists
  <2>3. UniqueMcs(mc')
    BY <1>1, <2>1, <2>2, WriteMcKeepsKeys
  <2> QED BY <1>1, <2>2, <2>3 DEF KeysUnique
<1> QED BY <1>2, <1>3, <1>4, <1>5, <1>6, <1>7 DEF AtomicNext

\* An atomic operation that touches a stored row counts its version up.
LEMMA AtomicCountsUp ==
    ASSUME CatalogOK(dim, mc), [AtomicNext]_db
    PROVE  /\ \A d \in Dims : Exists(dim[d]) /\ dim'[d] # dim[d] =>
                dim'[d].version = dim[d].version + 1
           /\ \A m \in Mcs : Exists(mc[m]) /\ mc'[m] # mc[m] =>
                mc'[m].version = mc[m].version + 1
<1>1. /\ dim \in [Dims -> DimRow] /\ mc \in [Mcs -> McRow]
  BY DEF CatalogOK
<1>2. CASE UNCHANGED db
  BY <1>2 DEF db
<1>3. CASE \E d \in Dims, code \in Codes, val \in Vals : CreateDimension(d, code, val)
  BY <1>1, <1>3 DEF CreateDimension
<1>4. ASSUME NEW d \in Dims, NEW code \in Codes \cup {None}, NEW val \in Vals \cup {None},
             ChangeDimension(d, code, val)
      PROVE  /\ \A e \in Dims : dim'[e] # dim[e] => dim'[e].version = dim[e].version + 1
             /\ \A m \in Mcs : mc'[m] # mc[m] => mc'[m].version = mc[m].version + 1
  BY <1>1, <1>4 DEF ChangeDimension, ChangeDim, Recompose, NextMasterCode
<1>5. ASSUME NEW d \in Dims, DeleteDimension(d) \/ RestoreDimension(d)
      PROVE  /\ \A e \in Dims : dim'[e] # dim[e] => dim'[e].version = dim[e].version + 1
             /\ mc' = mc
  BY <1>1, <1>5 DEF DeleteDimension, RestoreDimension, TransitionDeletion
<1>6. ASSUME NEW m \in Mcs, NEW refs \in Refs, NEW code \in Codes, NEW val \in Vals,
             CreateMasterCode(m, refs, code, val) \/ ReplaceReferences(m, refs, code, val)
      PROVE  /\ \A d \in Dims : Exists(dim[d]) => dim'[d] = dim[d]
             /\ \A n \in Mcs : Exists(mc[n]) /\ mc'[n] # mc[n] =>
                    mc'[n].version = mc[n].version + 1
  <2>1. dim' = WithInline(refs, code, val)
    BY <1>6 DEF CreateMasterCode, ReplaceReferences
  <2>2. \A d \in Dims : Exists(dim[d]) => dim'[d] = dim[d]
    BY <2>1 DEF WithInline
  <2>3. CASE CreateMasterCode(m, refs, code, val)
    BY <1>1, <2>2, <2>3 DEF CreateMasterCode
  <2>4. CASE ReplaceReferences(m, refs, code, val)
    BY <1>1, <2>2, <2>4 DEF ReplaceReferences, UpdateReferences, NextMasterCode
  <2> QED BY <1>6, <2>3, <2>4
<1>7. ASSUME NEW m \in Mcs, Delete(m) \/ Restore(m)
      PROVE  /\ dim' = dim
             /\ \A n \in Mcs : mc'[n] # mc[n] => mc'[n].version = mc[n].version + 1
  BY <1>1, <1>7 DEF Delete, Restore, DeleteMasterCode, RestoreMasterCode, NextMasterCode
<1> QED BY <1>2, <1>3, <1>4, <1>5, <1>6, <1>7, Zenon DEF AtomicNext

\* Unique references over unique Dimension codes compose to unique codes.
LEMMA ComposedCodesDiffer ==
    ASSUME NEW D \in [Dims -> DimRow], UniqueDims(D), NEW r \in Refs, NEW q \in Refs,
           \A d \in RefDims(r) \cup RefDims(q) : Exists(D[d]),
           r # q
    PROVE  Compose(r, D) # Compose(q, D)
<1>1. PICK s \in Slots : r[s] # q[s]
  BY DEF Refs
<1>2. \A x \in {r[s], q[s]} : x # None =>
        x \in Dims /\ SlotOf[x] = s /\ Exists(D[x]) /\ D[x].code \in Codes
  <2>1. ASSUME NEW x \in {r[s], q[s]}, x # None
        PROVE  x \in Dims /\ SlotOf[x] = s /\ Exists(D[x])
    BY <2>1 DEF Refs, RefDims
  <2> QED BY <2>1, DimRowShape
<1>3. (IF r[s] = None THEN NNN ELSE D[r[s]].code)
        # (IF q[s] = None THEN NNN ELSE D[q[s]].code)
  BY <1>1, <1>2, SentinelAssumption DEF UniqueDims
<1> QED BY <1>3 DEF Compose

\* The catalogs the database may start from have unique keys.
LEMMA KeysInitially == AtomicInit => KeysUnique(dim, mc)
BY SeedAssumption DEF AtomicInit, KeysUnique

=============================================================================
