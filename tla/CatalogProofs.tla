---------------------------- MODULE CatalogProofs ----------------------------
(***************************************************************************)
(* The transactions of Catalog implement the atomic catalog, for every     *)
(* number of slots, rows, codes, values and concurrent requests.           *)
(*                                                                         *)
(* A transaction computes its writes from what its session read.  The      *)
(* inductive invariant says why that is as good as reading the tables at   *)
(* COMMIT: everything the writes depend on is held by a lock of the        *)
(* transaction (SessionInv), no other transaction holds it (Apart), and a  *)
(* commit changes nothing but what its transaction holds (Protected).      *)
(***************************************************************************)
EXTENDS Catalog, AtomicCatalogProofs

DimKinds == {"UpdateDim", "DeleteDim", "RestoreDim"}
McKinds == {"CreateMc"} \cup TargetKinds

\* The row ids a running request has drawn for rows it will insert.
NewDims(t) ==
    IF pc[t] \notin Running THEN {}
    ELSE op[t].inline \cup (IF op[t].kind = "CreateDim" THEN {op[t].d} ELSE {})
NewMcs(t) ==
    IF pc[t] \in Running /\ op[t].kind = "CreateMc" THEN {op[t].m} ELSE {}

\* What a running request asks for fits its kind and the statement it is at.
Shape(t) ==
    pc[t] \in Running =>
        /\ op[t].kind \in {"CreateDim"} \cup DimKinds \cup McKinds
        /\ op[t].kind \in {"CreateDim"} \cup DimKinds => op[t].d \in Dims
        /\ op[t].kind \in McKinds => op[t].m \in Mcs
        /\ op[t].kind = "CreateDim" => op[t].code \in Codes /\ op[t].val \in Vals
        /\ op[t].kind \in DimKinds => Exists(dim[op[t].d])
        /\ op[t].kind \in TargetKinds => Exists(mc[op[t].m])
        /\ op[t].kind = "CreateMc" => op[t].sel \in Refs
        /\ \A s \in Slots : op[t].sel[s] \in Dims => SlotOf[op[t].sel[s]] = s
        /\ op[t].inline \subseteq SelectedRefs(t)
        /\ op[t].inline # {} =>
            /\ op[t].code \in Codes /\ op[t].val \in Vals
            /\ op[t].kind \in {"CreateMc", "UpdateMc"}
        /\ pc[t] = "begin" => op[t].kind # "CreateMc"
        /\ pc[t] = "inuse" => op[t].kind = "DeleteDim"
        /\ pc[t] = "fanout" => op[t].kind = "UpdateDim"
        /\ pc[t] = "resolve" => op[t].kind \in McKinds
        /\ pc[t] = "flush" => op[t].kind \in DimKinds \cup TargetKinds

\* Locked rows exist and are as the session saw them; inserted rows wait in
\* the session; a transaction that does not run holds nothing.
Holds(t) ==
    /\ \A d \in sharedDims[t] \cup lockedDims[t] :
            Exists(dim[d]) /\ seenDim[t][d] = dim[d]
    /\ \A d \in fresh[t] :
            d \in op[t].inline /\ seenDim[t][d] = NewDim(op[t].code, op[t].val)
    /\ pc[t] \notin Running =>
            /\ sharedDims[t] = {} /\ lockedDims[t] = {}
            /\ lockedMcs[t] = {} /\ fresh[t] = {}
    /\ pc[t] \in {"begin", "inuse"} => lockedMcs[t] = {}
    /\ pc[t] = "begin" => sharedDims[t] = {} /\ lockedDims[t] = {} /\ fresh[t] = {}

\* The update changes the code, respectively anything at all.
CodeChanges(t) == op[t].code # None /\ op[t].code # dim[op[t].d].code
RowChanges(t) ==
    CodeChanges(t) \/ (op[t].val # None /\ op[t].val # dim[op[t].d].val)

\* A Dimension mutation past its lock.
DimWork(t) ==
    op[t].kind \in DimKinds /\ pc[t] \in {"inuse", "fanout", "flush"} =>
        /\ lockedDims[t] = {op[t].d}
        /\ sharedDims[t] = {} /\ fresh[t] = {}
        /\ dim[op[t].d].st = (IF op[t].kind = "RestoreDim" THEN "deleted" ELSE "active")
        /\ dim[op[t].d].version = op[t].version
        /\ op[t].kind = "UpdateDim" => RowChanges(t)
        /\ op[t].kind # "UpdateDim" => lockedMcs[t] = {}
        /\ op[t].kind = "DeleteDim" /\ pc[t] = "flush" =>
            \A m \in Mcs : References(mc[m], op[t].d) => mc[m].st # "active"

\* The fan-out of a code change: when it is complete every referencing row is
\* locked, and the codes it joined are still current.
FanOut(t) ==
    op[t].kind = "UpdateDim" /\ pc[t] \in {"fanout", "flush"} =>
        /\ \A m \in lockedMcs[t] : References(mc[m], op[t].d)
        /\ ~CodeChanges(t) => pc[t] = "flush" /\ lockedMcs[t] = {}
        /\ CodeChanges(t) /\ pc[t] = "flush" =>
            /\ \A m \in Mcs : References(mc[m], op[t].d) => m \in lockedMcs[t]
            /\ \A m \in lockedMcs[t] :
                /\ seenMc[t][m] = mc[m]
                /\ \A d \in RefDims(mc[m].refs) : seenDim[t][d].code = dim[d].code

\* A MasterCode transaction while it resolves its references.
Resolving(t) ==
    op[t].kind \in McKinds /\ pc[t] = "resolve" =>
        /\ lockedDims[t] = {} /\ lockedMcs[t] = {}
        /\ op[t].kind \in TargetKinds => Exists(seenMc[t][op[t].m])
        /\ op[t].kind \in {"CreateMc", "UpdateMc"} =>
            \A d \in (sharedDims[t] \cap SelectedRefs(t)) \ bad[t] : dim[d].st = "active"

\* A MasterCode mutation with its target locked.
Targeted(t) ==
    op[t].kind \in TargetKinds /\ pc[t] = "flush" =>
        /\ lockedDims[t] = {} /\ lockedMcs[t] = {op[t].m}
        /\ seenMc[t][op[t].m] = mc[op[t].m]
        /\ Etag(mc[op[t].m], dim) = op[t].etag
        /\ RefDims(mc[op[t].m].refs) \subseteq sharedDims[t]
        /\ mc[op[t].m].st = (IF op[t].kind = "RestoreMc" THEN "deleted" ELSE "active")
        /\ op[t].kind = "RestoreMc" =>
            \A d \in RefDims(mc[op[t].m].refs) : dim[d].st = "active"
        /\ op[t].kind = "UpdateMc" =>
            /\ NextRefs(t) # mc[op[t].m].refs
            /\ SelectedRefs(t) \subseteq sharedDims[t] \cup fresh[t]
            /\ \A d \in sharedDims[t] \cap SelectedRefs(t) : dim[d].st = "active"
        /\ op[t].kind # "UpdateMc" => fresh[t] = {}

SessionOK(t) ==
    Shape(t) /\ Holds(t) /\ DimWork(t) /\ FanOut(t) /\ Resolving(t) /\ Targeted(t)

\* Two transactions never hold the same row in conflicting modes and never
\* insert a row under the same id; ids drawn for inserts are unused.
Apart ==
    /\ \A t, u \in Txs : t # u =>
        /\ lockedDims[t] \cap (lockedDims[u] \cup sharedDims[u]) = {}
        /\ lockedMcs[t] \cap lockedMcs[u] = {}
        /\ NewDims(t) \cap NewDims(u) = {}
        /\ NewMcs(t) \cap NewMcs(u) = {}
    /\ \A t \in Txs : /\ \A d \in NewDims(t) : ~Exists(dim[d])
                      /\ \A m \in NewMcs(t) : ~Exists(mc[m])

\* The keys of an inserted row stay free until its transaction commits.
KeysFree ==
    \A t \in Txs : \A d \in fresh[t] :
        /\ ~DimKeyTaken(dim, d, seenDim[t][d])
        /\ \A u \in Txs \ {t} : \A e \in fresh[u] :
            SlotOf[d] = SlotOf[e] =>
                /\ seenDim[t][d].code # seenDim[u][e].code
                /\ seenDim[t][d].val # seenDim[u][e].val

SessionInv ==
    /\ TypeOK
    /\ CatalogOK(dim, mc)
    /\ Apart
    /\ KeysFree
    /\ \A t \in Txs : SessionOK(t)


-----------------------------------------------------------------------------
(***************************************************************************)
(* What a step of t may do to the others.                                  *)
(***************************************************************************)
OthersUnchanged(t) ==
    \A u \in Txs \ {t} :
        /\ pc'[u] = pc[u] /\ op'[u] = op[u]
        /\ seenDim'[u] = seenDim[u] /\ seenMc'[u] = seenMc[u]
        /\ fresh'[u] = fresh[u] /\ bad'[u] = bad[u]
        /\ sharedDims'[u] = sharedDims[u] /\ lockedDims'[u] = lockedDims[u]
        /\ lockedMcs'[u] = lockedMcs[u]

\* t writes only rows that it holds or inserts, removes none, and makes a
\* MasterCode reference only rows that it holds or inserts; it changes the
\* code of a row only if it holds every MasterCode that references it, and
\* takes no key of a row that another transaction has inserted.
Protected(t) ==
    /\ \A d \in Dims : /\ dim'[d] # dim[d] => d \in lockedDims[t] \cup NewDims(t)
                       /\ Exists(dim[d]) => Exists(dim'[d])
    /\ \A m \in Mcs : /\ mc'[m] # mc[m] => m \in lockedMcs[t] \cup NewMcs(t)
                      /\ Exists(mc[m]) => Exists(mc'[m])
    /\ \A m \in Mcs, d \in Dims :
        References(mc'[m], d) /\ d \notin sharedDims[t] \cup NewDims(t) =>
            /\ References(mc[m], d)
            /\ mc'[m].st = "active" => mc[m].st = "active"
    /\ \A m \in Mcs, d \in Dims :
        Exists(dim[d]) /\ dim'[d].code # dim[d].code /\ References(mc[m], d) =>
            m \in lockedMcs[t]
    /\ \A u \in Txs \ {t} : \A e \in fresh[u] : ~DimKeyTaken(dim', e, seenDim[u][e])

\* A step that writes nothing is protected.
LEMMA UnchangedProtects ==
    ASSUME SessionInv, NEW t \in Txs, UNCHANGED db
    PROVE  Protected(t)
<1>1. \A u \in Txs : \A e \in fresh[u] : ~DimKeyTaken(dim, e, seenDim[u][e])
  BY DEF SessionInv, KeysFree
<1> QED BY <1>1 DEF Protected, db

\* Rows that another transaction holds are not written.
LEMMA HeldRows ==
    ASSUME SessionInv, NEW t \in Txs, NEW u \in Txs, t # u, Protected(t)
    PROVE  /\ \A d \in sharedDims[u] \cup lockedDims[u] :
                d \in Dims /\ Exists(dim[d]) /\ dim'[d] = dim[d]
           /\ \A m \in lockedMcs[u] : m \in Mcs /\ (Exists(mc[m]) => mc'[m] = mc[m])
           /\ \A m \in Mcs : \A d \in lockedDims[u] :
                References(mc'[m], d) =>
                    References(mc[m], d) /\ (mc'[m].st = "active" => mc[m].st = "active")
<1>1. ASSUME NEW d \in sharedDims[u] \cup lockedDims[u]
      PROVE  d \in Dims /\ Exists(dim[d]) /\ d \notin lockedDims[t] \cup NewDims(t)
  <2>1. d \in Dims
    BY <1>1 DEF SessionInv, TypeOK
  <2>2. Exists(dim[d])
    BY <1>1 DEF SessionInv, SessionOK, Holds
  <2>3. d \notin lockedDims[t]
    BY <1>1 DEF SessionInv, Apart
  <2>4. d \notin NewDims(t)
    BY <2>2 DEF SessionInv, Apart
  <2> QED BY <2>1, <2>2, <2>3, <2>4
<1>2. \A d \in sharedDims[u] \cup lockedDims[u] : dim'[d] = dim[d]
  BY <1>1 DEF Protected
<1>3. ASSUME NEW m \in lockedMcs[u], Exists(mc[m]) PROVE mc'[m] = mc[m]
  <2>1. m \in Mcs /\ m \notin lockedMcs[t]
    BY DEF SessionInv, TypeOK, Apart
  <2>2. m \notin NewMcs(t)
    BY <1>3 DEF SessionInv, Apart
  <2> QED BY <2>1, <2>2 DEF Protected
<1>4. \A m \in lockedMcs[u] : m \in Mcs
  BY DEF SessionInv, TypeOK
<1>5. \A d \in lockedDims[u] : d \notin sharedDims[t]
  BY DEF SessionInv, Apart
<1> QED BY <1>1, <1>2, <1>3, <1>4, <1>5 DEF Protected

\* An ETag over rows that two catalogs share.
LEMMA EtagSeen ==
    ASSUME NEW row, NEW D, NEW E, \A d \in RefDims(row.refs) : D[d] = E[d]
    PROVE  Etag(row, D) = Etag(row, E)
BY DEF Etag, RefDims

\* A protected step of one transaction leaves the sessions of the others as
\* good as they were.
LEMMA OthersKeep ==
    ASSUME SessionInv, NEW t \in Txs, NEW u \in Txs, t # u,
           Protected(t), OthersUnchanged(t)
    PROVE  SessionOK(u)'
<1>1. /\ pc'[u] = pc[u] /\ op'[u] = op[u]
      /\ seenDim'[u] = seenDim[u] /\ seenMc'[u] = seenMc[u]
      /\ fresh'[u] = fresh[u] /\ bad'[u] = bad[u]
      /\ sharedDims'[u] = sharedDims[u] /\ lockedDims'[u] = lockedDims[u]
      /\ lockedMcs'[u] = lockedMcs[u]
  BY DEF OthersUnchanged
<1>2. /\ \A d \in sharedDims[u] \cup lockedDims[u] :
                d \in Dims /\ Exists(dim[d]) /\ dim'[d] = dim[d]
      /\ \A m \in lockedMcs[u] : m \in Mcs /\ (Exists(mc[m]) => mc'[m] = mc[m])
      /\ \A m \in Mcs : \A d \in lockedDims[u] :
                References(mc'[m], d) =>
                    References(mc[m], d) /\ (mc'[m].st = "active" => mc[m].st = "active")
  BY HeldRows
<1>3. SessionOK(u) /\ CatalogOK(dim, mc)
  BY DEF SessionInv
<1>4. SelectedRefs(u)' = SelectedRefs(u)
  BY <1>1 DEF SelectedRefs
<1>5. Shape(u)'
  BY <1>1, <1>3, <1>4 DEF SessionOK, Shape, Protected, DimKinds, McKinds, TargetKinds
<1>6. Holds(u)'
  BY <1>1, <1>2, <1>3 DEF SessionOK, Holds
<1>7. DimWork(u)'
  BY <1>1, <1>2, <1>3 DEF SessionOK, DimWork, RowChanges, CodeChanges
<1>8. Resolving(u)'
  BY <1>1, <1>2, <1>3, <1>4 DEF SessionOK, Resolving
<1>9. Targeted(u)'
  <2>1. SUFFICES ASSUME op[u].kind \in TargetKinds, pc[u] = "flush"
                 PROVE  Targeted(u)'
    BY <1>1 DEF Targeted
  <2>2. op[u].m \in lockedMcs[u] /\ Exists(mc[op[u].m])
    BY <1>3, <2>1 DEF SessionOK, Targeted, Shape, Running
  <2>3. mc'[op[u].m] = mc[op[u].m]
    BY <1>2, <2>2
  <2>4. NextRefs(u)' = NextRefs(u)
    BY <1>1 DEF NextRefs
  <2>5. RefDims(mc[op[u].m].refs) \subseteq sharedDims[u]
    BY <1>3, <2>1 DEF SessionOK, Targeted
  <2>6. Etag(mc[op[u].m], dim') = Etag(mc[op[u].m], dim)
    BY <1>2, <2>5, EtagSeen
  <2> QED BY <1>1, <1>2, <1>3, <1>4, <2>1, <2>3, <2>4, <2>6 DEF SessionOK, Targeted
<1>10. FanOut(u)'
  <2>1. SUFFICES ASSUME op[u].kind = "UpdateDim", pc[u] \in {"fanout", "flush"}
                 PROVE  FanOut(u)'
    BY <1>1 DEF FanOut
  <2>2. op[u].d \in lockedDims[u]
    BY <1>3, <2>1 DEF SessionOK, DimWork, DimKinds
  <2>3. CodeChanges(u)' = CodeChanges(u)
    BY <1>1, <1>2, <2>2 DEF CodeChanges
  <2>4. \A m \in lockedMcs[u] : References(mc[m], op[u].d) /\ mc'[m] = mc[m] /\ m \in Mcs
    BY <1>2, <1>3, <2>1 DEF SessionOK, FanOut, References
  <2>5. ASSUME NEW m \in lockedMcs[u], NEW d \in RefDims(mc[m].refs)
        PROVE  dim'[d].code = dim[d].code
    <3>1. d \in Dims /\ Exists(dim[d]) /\ References(mc[m], d)
      BY <1>3, <2>4, <2>5, StoredMasterCode DEF References
    <3>2. m \notin lockedMcs[t]
      BY DEF SessionInv, Apart
    <3> QED BY <2>4, <3>1, <3>2 DEF Protected
  <2>6. \A m \in Mcs : References(mc'[m], op[u].d) => References(mc[m], op[u].d)
    BY <1>2, <2>2
  <2> QED BY <1>1, <1>3, <2>1, <2>3, <2>4, <2>5, <2>6 DEF SessionOK, FanOut
<1> QED BY <1>5, <1>6, <1>7, <1>8, <1>9, <1>10 DEF SessionOK

\* MasterCode rows held FOR UPDATE exist.
LEMMA HeldMcsExist ==
    ASSUME SessionInv, NEW t \in Txs, NEW m \in lockedMcs[t]
    PROVE  Exists(mc[m])
<1>1. SessionOK(t)
  BY DEF SessionInv
<1>2. pc[t] \in Running /\ pc[t] \notin {"begin", "inuse"}
  BY <1>1 DEF SessionOK, Holds
<1>3. pc[t] # "resolve"
  BY <1>1, <1>2 DEF SessionOK, Shape, Resolving
<1>4. CASE pc[t] = "fanout"
  <2>1. op[t].kind = "UpdateDim"
    BY <1>1, <1>2, <1>4 DEF SessionOK, Shape
  <2> QED BY <1>1, <1>4, <2>1 DEF SessionOK, FanOut, References
<1>5. CASE pc[t] = "flush"
  <2>1. op[t].kind \in DimKinds \cup TargetKinds
    BY <1>1, <1>2, <1>5 DEF SessionOK, Shape
  <2>2. CASE op[t].kind \in TargetKinds
    BY <1>1, <1>2, <1>5, <2>2 DEF SessionOK, Shape, Targeted
  <2>3. CASE op[t].kind \in DimKinds
    <3>1. op[t].kind = "UpdateDim"
      BY <1>1, <1>5, <2>3 DEF SessionOK, DimWork
    <3> QED BY <1>1, <1>5, <3>1 DEF SessionOK, FanOut, References
  <2> QED BY <2>1, <2>2, <2>3
<1> QED BY <1>2, <1>3, <1>4, <1>5 DEF Running

\* After its step t conflicts with nobody's locks and its drawn ids are unused.
LocksApart(t) ==
    \A u \in Txs \ {t} :
        /\ lockedDims'[t] \cap (lockedDims[u] \cup sharedDims[u]) = {}
        /\ sharedDims'[t] \cap lockedDims[u] = {}
        /\ lockedMcs'[t] \cap lockedMcs[u] = {}
IdsApart(t) ==
    /\ \A u \in Txs \ {t} : /\ NewDims(t)' \cap NewDims(u) = {}
                            /\ NewMcs(t)' \cap NewMcs(u) = {}
    /\ \A d \in NewDims(t)' : ~Exists(dim'[d])
    /\ \A m \in NewMcs(t)' : ~Exists(mc'[m])

\* The rows t has inserted after its step have keys that nobody else has.
KeysApart(t) ==
    \A d \in fresh'[t] :
        /\ ~DimKeyTaken(dim', d, seenDim'[t][d])
        /\ \A u \in Txs \ {t} : \A e \in fresh[u] :
            SlotOf[d] = SlotOf[e] =>
                /\ seenDim'[t][d].code # seenDim[u][e].code
                /\ seenDim'[t][d].val # seenDim[u][e].val

\* A statement that inserts nothing leaves the inserted keys alone.
LEMMA SameKeys ==
    ASSUME SessionInv, NEW t \in Txs, dim' = dim, fresh'[t] = fresh[t],
           \A d \in fresh[t] : seenDim'[t][d] = seenDim[t][d]
    PROVE  KeysApart(t)
BY DEF SessionInv, KeysFree, KeysApart

\* Drawn ids belong to the tables.
LEMMA DrawnIds ==
    ASSUME SessionInv, NEW t \in Txs
    PROVE  NewDims(t) \subseteq Dims /\ NewMcs(t) \subseteq Mcs
<1>1. op[t].inline \subseteq Dims
  BY DEF SessionInv, TypeOK, Op
<1>2. pc[t] \in Running /\ op[t].kind = "CreateDim" => op[t].d \in Dims
  BY DEF SessionInv, SessionOK, Shape
<1>3. pc[t] \in Running /\ op[t].kind = "CreateMc" => op[t].m \in Mcs
  BY DEF SessionInv, SessionOK, Shape, McKinds
<1> QED BY <1>1, <1>2, <1>3 DEF NewDims, NewMcs

\* Transactions stay apart.
LEMMA ApartKeeps ==
    ASSUME SessionInv, NEW t \in Txs, Protected(t), OthersUnchanged(t),
           LocksApart(t), IdsApart(t)
    PROVE  Apart'
<1>1. ASSUME NEW u \in Txs \ {t}
      PROVE  /\ NewDims(u)' = NewDims(u) /\ NewMcs(u)' = NewMcs(u)
             /\ lockedDims'[u] = lockedDims[u] /\ sharedDims'[u] = sharedDims[u]
             /\ lockedMcs'[u] = lockedMcs[u]
  BY <1>1 DEF OthersUnchanged, NewDims, NewMcs
<1>2. Apart
  BY DEF SessionInv
<1>3. ASSUME NEW u \in Txs \ {t}, NEW d \in NewDims(u) PROVE ~Exists(dim'[d])
  <2>1. d \in Dims /\ ~Exists(dim[d]) /\ d \notin NewDims(t)
    BY <1>2, <1>3, DrawnIds DEF Apart
  <2>2. d \notin lockedDims[t]
    BY <2>1 DEF SessionInv, SessionOK, Holds
  <2> QED BY <2>1, <2>2 DEF Protected
<1>4. ASSUME NEW u \in Txs \ {t}, NEW m \in NewMcs(u) PROVE ~Exists(mc'[m])
  <2>1. m \in Mcs /\ ~Exists(mc[m]) /\ m \notin NewMcs(t)
    BY <1>2, <1>4, DrawnIds DEF Apart
  <2>2. m \notin lockedMcs[t]
    BY <2>1, HeldMcsExist
  <2> QED BY <2>1, <2>2 DEF Protected
<1>5. ASSUME NEW u \in Txs, NEW w \in Txs, u # w
      PROVE  /\ lockedDims'[u] \cap (lockedDims'[w] \cup sharedDims'[w]) = {}
             /\ lockedMcs'[u] \cap lockedMcs'[w] = {}
             /\ NewDims(u)' \cap NewDims(w)' = {}
             /\ NewMcs(u)' \cap NewMcs(w)' = {}
  <2>1. CASE u = t
    BY <1>1, <1>5, <2>1 DEF LocksApart, IdsApart
  <2>2. CASE w = t
    BY <1>1, <1>5, <2>2 DEF LocksApart, IdsApart
  <2>3. CASE u # t /\ w # t
    BY <1>1, <1>2, <1>5, <2>3 DEF Apart
  <2> QED BY <2>1, <2>2, <2>3
<1>6. ASSUME NEW u \in Txs
      PROVE  /\ \A d \in NewDims(u)' : ~Exists(dim'[d])
             /\ \A m \in NewMcs(u)' : ~Exists(mc'[m])
  BY <1>1, <1>3, <1>4 DEF IdsApart
<1> QED BY <1>5, <1>6 DEF Apart

\* Inserted keys stay free.
LEMMA KeysKeep ==
    ASSUME SessionInv, NEW t \in Txs, Protected(t), OthersUnchanged(t), KeysApart(t)
    PROVE  KeysFree'
<1>1. KeysFree
  BY DEF SessionInv
<1>2. \A u \in Txs \ {t} : fresh'[u] = fresh[u] /\ seenDim'[u] = seenDim[u]
  BY DEF OthersUnchanged
<1>3. SUFFICES ASSUME NEW u \in Txs, NEW d \in fresh'[u]
               PROVE  /\ ~DimKeyTaken(dim', d, seenDim'[u][d])
                      /\ \A w \in Txs \ {u} : \A e \in fresh'[w] :
                          SlotOf[d] = SlotOf[e] =>
                            /\ seenDim'[u][d].code # seenDim'[w][e].code
                            /\ seenDim'[u][d].val # seenDim'[w][e].val
  BY DEF KeysFree
<1>4. CASE u = t
  BY <1>2, <1>3, <1>4 DEF KeysApart
<1>5. CASE u # t
  <2>1. ~DimKeyTaken(dim', d, seenDim'[u][d])
    BY <1>2, <1>3, <1>5 DEF Protected
  <2>2. ASSUME NEW w \in Txs \ {u}, NEW e \in fresh'[w], SlotOf[d] = SlotOf[e]
        PROVE  /\ seenDim'[u][d].code # seenDim'[w][e].code
               /\ seenDim'[u][d].val # seenDim'[w][e].val
    <3>1. CASE w = t
      BY <1>2, <1>3, <1>5, <2>2, <3>1 DEF KeysApart
    <3>2. CASE w # t
      BY <1>1, <1>2, <1>3, <1>5, <2>2, <3>2 DEF KeysFree
    <3> QED BY <3>1, <3>2
  <2> QED BY <2>1, <2>2
<1> QED BY <1>4, <1>5

\* The invariant is kept by a step that implements an atomic operation or
\* none, is protected, and leaves its own session in order.
LEMMA StepKeeps ==
    ASSUME SessionInv, NEW t \in Txs, [AtomicNext]_db, Protected(t), TypeOK',
           OthersUnchanged(t), LocksApart(t), IdsApart(t), KeysApart(t), SessionOK(t)'
    PROVE  SessionInv'
<1>1. CatalogOK(dim', mc')
  BY AtomicPreserves DEF SessionInv
<1>2. Apart'
  BY ApartKeeps
<1>3. \A u \in Txs : SessionOK(u)'
  BY OthersKeep
<1>4. KeysFree'
  BY KeysKeep
<1> QED BY <1>1, <1>2, <1>3, <1>4 DEF SessionInv

\* A statement that only reads and locks.
LEMMA StatementKeeps ==
    ASSUME SessionInv, NEW t \in Txs, UNCHANGED <<db, op>>,
           pc[t] \in Running, pc'[t] \in Running, TypeOK',
           OthersUnchanged(t), LocksApart(t), KeysApart(t), SessionOK(t)'
    PROVE  SessionInv'
<1>1. NewDims(t)' = NewDims(t) /\ NewMcs(t)' = NewMcs(t)
  BY DEF NewDims, NewMcs
<1>2. IdsApart(t)
  BY <1>1 DEF IdsApart, SessionInv, Apart, db
<1>3. Protected(t)
  BY UnchangedProtects
<1> QED BY <1>2, <1>3, StepKeeps

\* A transaction that ends holds nothing.
LEMMA EndKeeps ==
    ASSUME SessionInv, NEW t \in Txs, NEW r \in Outcomes, End(t, r),
           [AtomicNext]_db, Protected(t)
    PROVE  SessionInv'
<1>1. OthersUnchanged(t)
  BY DEF End, OthersUnchanged, SessionInv, TypeOK
<1>2. CatalogOK(dim', mc')
  BY AtomicPreserves DEF SessionInv
<1>3. Unread \in [Dims -> DimRow] /\ UnreadMc \in [Mcs -> McRow]
  BY DEF Unread, UnreadMc, DimRow, McRow
<1>4. TypeOK'
  BY <1>2, <1>3 DEF End, SessionInv, TypeOK, CatalogOK
<1>5. /\ pc'[t] = r /\ r \notin Running
      /\ sharedDims'[t] = {} /\ lockedDims'[t] = {}
      /\ lockedMcs'[t] = {} /\ fresh'[t] = {}
  BY DEF End, SessionInv, TypeOK, Outcomes, Running
<1>6. LocksApart(t)
  BY <1>5 DEF LocksApart
<1>7. IdsApart(t)
  BY <1>5 DEF IdsApart, NewDims, NewMcs
<1>8. SessionOK(t)'
  BY <1>5 DEF SessionOK, Shape, Holds, DimWork, FanOut, Resolving, Targeted, Running
<1>9. KeysApart(t)
  BY <1>5 DEF KeysApart
<1> QED BY <1>1, <1>4, <1>6, <1>7, <1>8, <1>9, StepKeeps

\* A rolled-back transaction leaves no trace.
LEMMA AbortKeeps ==
    ASSUME SessionInv, NEW t \in Txs, NEW r \in Outcomes, Abort(t, r)
    PROVE  SessionInv' /\ UNCHANGED db
BY UnchangedProtects, EndKeeps DEF Abort

-----------------------------------------------------------------------------
(***************************************************************************)
(* Statements of Dimension transactions.                                   *)
(***************************************************************************)

\* A Dimension row is locked: what comes next depends on its state and, for
\* an update, on whether the code changes.
LEMMA HoldDimKeeps ==
    ASSUME SessionInv, NEW t \in Txs, pc[t] = "begin", op[t].kind \in DimKinds,
           NEW next \in {"inuse", "fanout", "flush"}, HoldDim(t, next),
           UpdateBlockers(t, op[t].d) = {},
           dim[op[t].d].st = (IF op[t].kind = "RestoreDim" THEN "deleted" ELSE "active"),
           dim[op[t].d].version = op[t].version,
           op[t].kind = "UpdateDim" =>
                RowChanges(t) /\ next = (IF CodeChanges(t) THEN "fanout" ELSE "flush"),
           op[t].kind = "DeleteDim" => next = "inuse",
           op[t].kind = "RestoreDim" => next = "flush"
    PROVE  SessionInv'
<1> DEFINE d == op[t].d
<1>1. /\ pc[t] \in Running /\ pc'[t] = next /\ pc'[t] \in Running
      /\ op' = op /\ dim' = dim /\ mc' = mc
  BY DEF HoldDim, Running, SessionInv, TypeOK, db
<1>2. /\ Shape(t) /\ Holds(t) /\ d \in Dims /\ Exists(dim[d])
      /\ sharedDims[t] = {} /\ fresh[t] = {} /\ lockedMcs[t] = {}
  BY <1>1 DEF SessionInv, SessionOK, Shape, Holds
<1>3. /\ lockedDims'[t] = {d} /\ sharedDims'[t] = {} /\ fresh'[t] = {}
      /\ lockedMcs'[t] = {} /\ seenDim'[t][d] = dim[d]
  BY <1>2 DEF HoldDim, SessionInv, TypeOK, Unread
<1>4. OthersUnchanged(t)
  BY DEF HoldDim, OthersUnchanged, SessionInv, TypeOK
<1>5. Unread \in [Dims -> DimRow]
  BY DEF Unread, DimRow
<1>6. TypeOK'
  BY <1>1, <1>2, <1>5 DEF HoldDim, SessionInv, TypeOK, Running
<1>7. LocksApart(t)
  BY <1>3 DEF LocksApart, UpdateBlockers
<1>8. KeysApart(t)
  BY <1>3 DEF KeysApart
<1>9. Shape(t)'
  BY <1>1, <1>2 DEF Shape, DimKinds, McKinds, TargetKinds, SelectedRefs
<1>10. Holds(t)'
  BY <1>1, <1>2, <1>3 DEF Holds
<1>11. DimWork(t)'
  BY <1>1, <1>2, <1>3 DEF DimWork, DimKinds, RowChanges, CodeChanges
<1>12. FanOut(t)'
  BY <1>1, <1>2, <1>3 DEF FanOut, CodeChanges
<1>13. Resolving(t)' /\ Targeted(t)'
  BY <1>1 DEF Resolving, Targeted, DimKinds, TargetKinds
<1> QED BY <1>1, <1>4, <1>6, <1>7, <1>8, <1>9, <1>10, <1>11, <1>12, <1>13,
           StatementKeeps DEF SessionOK, db

\* The first statements of update_value: abort, or hold the row.
LEMMA LockDimForUpdateKeeps ==
    ASSUME SessionInv, NEW t \in Txs, LockDimForUpdate(t)
    PROVE  SessionInv' /\ UNCHANGED db
<1> DEFINE o == op[t]
           row == dim[o.d]
           code == IF o.code = row.code THEN None ELSE o.code
           val == IF o.val = row.val THEN None ELSE o.val
<1>1. CASE \E r \in Outcomes : Abort(t, r)
  BY <1>1, AbortKeeps
<1>2. CASE /\ row.st = "active" /\ UpdateBlockers(t, o.d) = {}
           /\ row.version = o.version
           /\ ~(code = None /\ val = None)
           /\ HoldDim(t, IF code # None THEN "fanout" ELSE "flush")
  <2>1. CodeChanges(t) <=> code # None
    BY DEF CodeChanges
  <2>2. RowChanges(t)
    BY <1>2 DEF CodeChanges, RowChanges
  <2>3. pc[t] = "begin" /\ o.kind = "UpdateDim"
    BY DEF LockDimForUpdate
  <2> DEFINE next == IF CodeChanges(t) THEN "fanout" ELSE "flush"
  <2>4. next \in {"inuse", "fanout", "flush"} /\ HoldDim(t, next)
    BY <1>2, <2>1
  <2>5. SessionInv'
    BY <1>2, <2>2, <2>3, <2>4, HoldDimKeeps DEF DimKinds
  <2> QED BY <1>2, <2>5 DEF HoldDim
<1> QED BY <1>1, <1>2 DEF LockDimForUpdate, Outcomes

\* The first statements of a deletion or restoration.
LEMMA LockDimForLifecycleKeeps ==
    ASSUME SessionInv, NEW t \in Txs, LockDimForLifecycle(t)
    PROVE  SessionInv' /\ UNCHANGED db
<1> DEFINE o == op[t]
           row == dim[o.d]
           next == IF o.kind = "DeleteDim" THEN "inuse" ELSE "flush"
<1>1. CASE \E r \in Outcomes : Abort(t, r)
  BY <1>1, AbortKeeps
<1>2. CASE /\ ~(o.kind = "DeleteDim" /\ row.st # "active")
           /\ ~(o.kind = "RestoreDim" /\ row.st = "active")
           /\ row.version = o.version
           /\ HoldDim(t, next)
  <2>1. /\ pc[t] = "begin" /\ o.kind \in {"DeleteDim", "RestoreDim"}
        /\ UpdateBlockers(t, o.d) = {}
    BY DEF LockDimForLifecycle
  <2>2. o.d \in Dims /\ Exists(dim[o.d])
    BY <2>1 DEF SessionInv, SessionOK, Shape, DimKinds, Running
  <2>3. row.st \in {"active", "deleted"}
    BY <2>2, DimRowShape DEF SessionInv, CatalogOK
  <2>4. next \in {"inuse", "fanout", "flush"}
    OBVIOUS
  <2>5. SessionInv'
    BY <1>2, <2>1, <2>3, <2>4, HoldDimKeeps DEF DimKinds
  <2> QED BY <1>2, <2>5 DEF HoldDim
<1> QED BY <1>1, <1>2 DEF LockDimForLifecycle, Outcomes

\* A deletion that found no active reference can rely on it: whoever adds one
\* has to share the row first.
LEMMA CheckInUseKeeps ==
    ASSUME SessionInv, NEW t \in Txs, CheckInUse(t)
    PROVE  SessionInv' /\ UNCHANGED db
<1>1. CASE Abort(t, "in_use")
  BY <1>1, AbortKeeps DEF Outcomes
<1>2. CASE /\ ~ \E m \in Mcs : mc[m].st = "active" /\ References(mc[m], op[t].d)
           /\ pc' = [pc EXCEPT ![t] = "flush"]
           /\ UNCHANGED <<db, op, session, locks>>
  <2>1. /\ pc[t] = "inuse" /\ pc[t] \in Running /\ pc'[t] = "flush"
        /\ pc'[t] \in Running /\ UNCHANGED <<dim, mc, op, session, locks>>
    BY <1>2 DEF CheckInUse, Running, SessionInv, TypeOK, db
  <2>2. SessionOK(t) /\ op[t].kind = "DeleteDim"
    BY <2>1 DEF SessionInv, SessionOK, Shape
  <2>3. OthersUnchanged(t)
    BY <1>2 DEF OthersUnchanged, SessionInv, TypeOK, session, locks
  <2>4. TypeOK'
    BY <1>2, <2>1 DEF SessionInv, TypeOK, session, locks
  <2>5. LocksApart(t)
    BY <2>1 DEF LocksApart, SessionInv, Apart, locks
  <2>6. KeysApart(t)
    BY <2>1, SameKeys DEF session
  <2>7. Shape(t)'
    BY <2>1, <2>2 DEF SessionOK, Shape, DimKinds, SelectedRefs
  <2>8. Holds(t)'
    BY <2>1, <2>2 DEF SessionOK, Holds, session, locks
  <2>9. DimWork(t)'
    BY <1>2, <2>1, <2>2 DEF SessionOK, DimWork, DimKinds, session, locks
  <2>10. FanOut(t)' /\ Resolving(t)' /\ Targeted(t)'
    BY <2>1, <2>2 DEF FanOut, Resolving, Targeted, McKinds, TargetKinds
  <2>11. SessionInv'
    BY <1>2, <2>1, <2>3, <2>4, <2>5, <2>6, <2>7, <2>8, <2>9, <2>10,
       StatementKeeps DEF SessionOK
  <2> QED BY <1>2, <2>11
<1> QED BY <1>1, <1>2 DEF CheckInUse

\* A fan-out collects the locks of the MasterCodes one by one.
LEMMA LockReferencingKeeps ==
    ASSUME SessionInv, NEW t \in Txs, LockReferencing(t)
    PROVE  SessionInv' /\ UNCHANGED db
<1>1. PICK m \in Mcs : /\ IsNextMc(t, m) /\ McBlockers(t, m) = {}
                       /\ lockedMcs' = [lockedMcs EXCEPT ![t] = @ \cup {m}]
  BY DEF LockReferencing
<1>2. /\ pc[t] = "fanout" /\ pc[t] \in Running
      /\ UNCHANGED <<dim, mc, pc, op, session, sharedDims, lockedDims>>
  BY DEF LockReferencing, Running, db
<1>3. SessionOK(t) /\ op[t].kind = "UpdateDim"
  BY <1>2 DEF SessionInv, SessionOK, Shape
<1>4. /\ lockedMcs'[t] = lockedMcs[t] \cup {m}
      /\ References(mc[m], op[t].d)
  BY <1>1 DEF SessionInv, TypeOK, IsNextMc, ToLockMcs
<1>5. OthersUnchanged(t)
  BY <1>1, <1>2 DEF OthersUnchanged, SessionInv, TypeOK, session
<1>6. TypeOK'
  BY <1>1, <1>2 DEF SessionInv, TypeOK, session
<1>7. LocksApart(t)
  BY <1>1, <1>2, <1>4 DEF LocksApart, SessionInv, Apart, McBlockers
<1>8. KeysApart(t)
  BY <1>2, SameKeys DEF session
<1>9. Shape(t)'
  BY <1>2, <1>3 DEF SessionOK, Shape, SelectedRefs
<1>10. Holds(t)'
  BY <1>2, <1>3 DEF SessionOK, Holds, session
<1>11. DimWork(t)'
  BY <1>2, <1>3 DEF SessionOK, DimWork, DimKinds, RowChanges, CodeChanges, session
<1>12. FanOut(t)'
  BY <1>2, <1>3, <1>4 DEF SessionOK, FanOut, CodeChanges, session
<1>13. Resolving(t)' /\ Targeted(t)'
  BY <1>2, <1>3 DEF Resolving, Targeted
<1>14. SessionInv'
  BY <1>2, <1>5, <1>6, <1>7, <1>8, <1>9, <1>10, <1>11, <1>12, <1>13,
     StatementKeeps DEF SessionOK, db
<1> QED BY <1>2, <1>14 DEF db

\* The joined read of a fan-out sees current rows, and sees all it needs.
LEMMA ReadJoinedKeeps ==
    ASSUME SessionInv, NEW t \in Txs, ReadJoined(t)
    PROVE  SessionInv' /\ UNCHANGED db
<1>1. /\ pc[t] = "fanout" /\ pc[t] \in Running
      /\ pc' = [pc EXCEPT ![t] = "flush"] /\ pc'[t] = "flush" /\ pc'[t] \in Running
      /\ seenDim'[t] = dim
      /\ \A m \in lockedMcs[t] : seenMc'[t][m] = mc[m]
      /\ UNCHANGED <<dim, mc, op, fresh, bad, sharedDims, lockedDims, lockedMcs>>
  BY DEF ReadJoined, Running, SessionInv, TypeOK, db, locks
<1>2. SessionOK(t) /\ op[t].kind = "UpdateDim" /\ fresh[t] = {}
  BY <1>1 DEF SessionInv, SessionOK, Shape, DimWork, DimKinds
<1>3. OthersUnchanged(t)
  BY DEF ReadJoined, OthersUnchanged, SessionInv, TypeOK, locks
<1>4. [m \in Mcs |-> IF m \in lockedMcs[t] THEN mc[m] ELSE NoMc] \in [Mcs -> McRow]
  BY DEF SessionInv, TypeOK, McRow
<1>5. TypeOK'
  BY <1>1, <1>4 DEF ReadJoined, SessionInv, TypeOK
<1>6. LocksApart(t)
  BY <1>1 DEF LocksApart, SessionInv, Apart
<1>7. KeysApart(t)
  BY <1>1, <1>2 DEF KeysApart
<1>8. Shape(t)'
  BY <1>1, <1>2 DEF SessionOK, Shape, SelectedRefs, DimKinds
<1>9. Holds(t)'
  BY <1>1, <1>2 DEF SessionOK, Holds
<1>10. DimWork(t)'
  BY <1>1, <1>2 DEF SessionOK, DimWork, DimKinds, RowChanges, CodeChanges
<1>11. FanOut(t)'
  <2>1. \A m \in Mcs : References(mc[m], op[t].d) => m \in lockedMcs[t]
    BY DEF ReadJoined, ToLockMcs
  <2>2. CodeChanges(t) /\ \A m \in lockedMcs[t] : References(mc[m], op[t].d)
    BY <1>1, <1>2 DEF SessionOK, FanOut
  <2> QED BY <1>1, <1>2, <2>1, <2>2 DEF FanOut, CodeChanges
<1>12. Resolving(t)' /\ Targeted(t)'
  BY <1>1, <1>2 DEF Resolving, Targeted, TargetKinds
<1>13. SessionInv'
  BY <1>1, <1>3, <1>5, <1>6, <1>7, <1>8, <1>9, <1>10, <1>11, <1>12,
     StatementKeeps DEF SessionOK, db
<1> QED BY <1>1, <1>13 DEF db

-----------------------------------------------------------------------------
(***************************************************************************)
(* Statements of MasterCode transactions.                                  *)
(***************************************************************************)

\* The unlocked read of a target promises nothing but that the row exists.
LEMMA ReadTargetKeeps ==
    ASSUME SessionInv, NEW t \in Txs, ReadTarget(t)
    PROVE  SessionInv' /\ UNCHANGED db
<1> DEFINE row == mc[op[t].m]
<1>1. CASE \E r \in Outcomes : Abort(t, r)
  BY <1>1, AbortKeeps
<1>2. CASE /\ Exists(row)
           /\ seenMc' = [seenMc EXCEPT ![t] = [UnreadMc EXCEPT ![op[t].m] = row]]
           /\ pc' = [pc EXCEPT ![t] = "resolve"]
           /\ UNCHANGED <<db, op, seenDim, fresh, bad, locks>>
  <2>1. /\ pc[t] = "begin" /\ pc[t] \in Running /\ op[t].kind \in TargetKinds
        /\ pc'[t] = "resolve" /\ pc'[t] \in Running
        /\ UNCHANGED <<dim, mc, op, seenDim, fresh, bad, sharedDims, lockedDims, lockedMcs>>
    BY <1>2 DEF ReadTarget, Running, SessionInv, TypeOK, db, locks
  <2>2. /\ SessionOK(t) /\ op[t].m \in Mcs
        /\ sharedDims[t] = {} /\ lockedDims[t] = {} /\ lockedMcs[t] = {} /\ fresh[t] = {}
    BY <2>1 DEF SessionInv, SessionOK, Shape, Holds, McKinds
  <2>3. UnreadMc \in [Mcs -> McRow]
    BY DEF UnreadMc, McRow
  <2>4. seenMc'[t][op[t].m] = row
    BY <1>2, <2>2, <2>3 DEF SessionInv, TypeOK
  <2>5. OthersUnchanged(t)
    BY <1>2, <2>1 DEF OthersUnchanged, SessionInv, TypeOK
  <2>6. TypeOK'
    BY <1>2, <2>1, <2>2, <2>3 DEF SessionInv, TypeOK
  <2>7. LocksApart(t)
    BY <2>1 DEF LocksApart, SessionInv, Apart
  <2>8. KeysApart(t)
    BY <2>1, <2>2 DEF KeysApart
  <2>9. Shape(t)'
    BY <2>1, <2>2 DEF SessionOK, Shape, SelectedRefs, McKinds
  <2>10. Holds(t)'
    BY <2>1, <2>2 DEF SessionOK, Holds
  <2>11. Resolving(t)'
    BY <1>2, <2>1, <2>2, <2>4 DEF Resolving
  <2>12. DimWork(t)' /\ FanOut(t)' /\ Targeted(t)'
    BY <2>1 DEF DimWork, FanOut, Targeted
  <2>13. SessionInv'
    BY <2>1, <2>5, <2>6, <2>7, <2>8, <2>9, <2>10, <2>11, <2>12,
       StatementKeeps DEF SessionOK, db
  <2> QED BY <1>2, <2>13
<1> QED BY <1>1, <1>2 DEF ReadTarget, Outcomes

\* References are shared one by one; the unusable ones are remembered.
LEMMA LockReferenceKeeps ==
    ASSUME SessionInv, NEW t \in Txs, LockReference(t)
    PROVE  SessionInv' /\ UNCHANGED db
<1>1. PICK d \in Dims \ op[t].inline :
        /\ IsNextDim(t, d)
        /\ IF VisibleToLock(t, d)
           THEN /\ ShareBlockers(t, d) = {}
                /\ sharedDims' = [sharedDims EXCEPT ![t] = @ \cup {d}]
                /\ seenDim' = [seenDim EXCEPT ![t][d] = dim[d]]
                /\ bad' = [bad EXCEPT ![t] = IF Unusable(t, d) THEN @ \cup {d} ELSE @]
                /\ UNCHANGED <<db, pc, op, seenMc, fresh, lockedDims, lockedMcs>>
           ELSE IF d \in CurrentRefs(t) THEN Abort(t, "precondition_failed")
           ELSE /\ bad' = [bad EXCEPT ![t] = @ \cup {d}]
                /\ UNCHANGED <<db, pc, op, seenDim, seenMc, fresh, locks>>
  BY DEF LockReference
<1>2. /\ pc[t] = "resolve" /\ pc[t] \in Running /\ SessionOK(t)
      /\ op[t].kind \in McKinds
  BY DEF LockReference, Running, SessionInv, SessionOK, Shape
<1>3. CASE VisibleToLock(t, d)
  <2>1. /\ UNCHANGED <<dim, mc, pc, op, seenMc, fresh, lockedDims, lockedMcs>>
        /\ sharedDims'[t] = sharedDims[t] \cup {d}
        /\ seenDim'[t][d] = dim[d]
        /\ \A e \in Dims : e # d => seenDim'[t][e] = seenDim[t][e]
        /\ bad'[t] = IF Unusable(t, d) THEN bad[t] \cup {d} ELSE bad[t]
    BY <1>1, <1>3 DEF SessionInv, TypeOK, db
  <2>2. fresh[t] \subseteq Dims /\ sharedDims[t] \subseteq Dims /\ lockedDims[t] \subseteq Dims
    BY DEF SessionInv, TypeOK
  <2>3. \A e \in fresh[t] : e \in op[t].inline /\ e # d
    BY <1>1, <1>2 DEF SessionOK, Holds
  <2>4. Exists(dim[d])
    BY <1>3 DEF VisibleToLock, Exists
  <2>5. OthersUnchanged(t)
    BY <1>1, <1>3 DEF OthersUnchanged, SessionInv, TypeOK
  <2>6. TypeOK'
    <3>1. TypeOK /\ d \in Dims /\ dim[d] \in DimRow
      BY DEF SessionInv, TypeOK
    <3>2. seenDim' \in [Txs -> [Dims -> DimRow]]
      <4>1. seenDim' = [seenDim EXCEPT ![t][d] = dim[d]]
        BY <1>1, <1>3
      <4>2. seenDim \in [Txs -> [Dims -> DimRow]]
        BY <3>1 DEF TypeOK
      <4> QED BY <3>1, <4>1, <4>2
    <3>3. bad' \in [Txs -> SUBSET Dims]
      <4>1. bad' = [bad EXCEPT ![t] = bad'[t]] /\ bad \in [Txs -> SUBSET Dims]
        BY <1>1, <1>3, <3>1 DEF TypeOK
      <4>2. bad'[t] \subseteq Dims
        BY <2>1, <3>1, <4>1
      <4> QED BY <4>1, <4>2
    <3>4. sharedDims' \in [Txs -> SUBSET Dims]
      BY <1>1, <1>3, <3>1 DEF TypeOK
    <3> QED BY <2>1, <3>1, <3>2, <3>3, <3>4 DEF TypeOK
  <2>7. LocksApart(t)
    BY <1>1, <1>3, <2>1 DEF LocksApart, SessionInv, Apart, ShareBlockers
  <2>8. KeysApart(t)
    BY <2>1, <2>2, <2>3, SameKeys
  <2>9. Shape(t)'
    BY <1>2, <2>1 DEF SessionOK, Shape, SelectedRefs
  <2>10. Holds(t)'
    BY <1>2, <2>1, <2>2, <2>3, <2>4 DEF SessionOK, Holds
  <2>11. Resolving(t)'
    <3>1. SelectedRefs(t)' = SelectedRefs(t)
      BY <2>1 DEF SelectedRefs
    <3>2. ASSUME op[t].kind \in {"CreateMc", "UpdateMc"}, d \in SelectedRefs(t) \ bad'[t]
          PROVE  dim[d].st = "active"
      <4>1. dim[d].st \in {"active", "deleted"}
        BY <2>4, DimRowShape DEF SessionInv, CatalogOK
      <4> QED BY <1>3, <2>1, <3>2, <4>1 DEF VisibleToLock, Unusable
    <3>3. bad[t] \subseteq bad'[t]
      BY <2>1
    <3> QED BY <1>2, <2>1, <3>1, <3>2, <3>3 DEF SessionOK, Resolving
  <2>12. DimWork(t)' /\ FanOut(t)' /\ Targeted(t)'
    BY <1>2, <2>1 DEF DimWork, FanOut, Targeted
  <2>13. SessionInv'
    BY <1>2, <2>1, <2>5, <2>6, <2>7, <2>8, <2>9, <2>10, <2>11, <2>12,
       StatementKeeps DEF SessionOK, db
  <2> QED BY <2>1, <2>13 DEF db
<1>4. CASE Abort(t, "precondition_failed")
  BY <1>4, AbortKeeps DEF Outcomes
<1>5. CASE /\ bad' = [bad EXCEPT ![t] = @ \cup {d}]
           /\ UNCHANGED <<db, pc, op, seenDim, seenMc, fresh, locks>>
  <2>1. /\ UNCHANGED <<dim, mc, pc, op, seenDim, seenMc, fresh, sharedDims,
                       lockedDims, lockedMcs>>
        /\ bad[t] \subseteq bad'[t]
    BY <1>5 DEF SessionInv, TypeOK, db, locks
  <2>2. OthersUnchanged(t)
    BY <1>5, <2>1 DEF OthersUnchanged, SessionInv, TypeOK
  <2>3. TypeOK'
    BY <1>5, <2>1 DEF SessionInv, TypeOK
  <2>4. LocksApart(t)
    BY <2>1 DEF LocksApart, SessionInv, Apart
  <2>5. KeysApart(t)
    BY <2>1, SameKeys
  <2>6. Shape(t)' /\ Holds(t)'
    BY <1>2, <2>1 DEF SessionOK, Shape, Holds, SelectedRefs
  <2>7. Resolving(t)'
    BY <1>2, <2>1 DEF SessionOK, Resolving, SelectedRefs
  <2>8. DimWork(t)' /\ FanOut(t)' /\ Targeted(t)'
    BY <1>2, <2>1 DEF DimWork, FanOut, Targeted
  <2>9. SessionInv'
    BY <1>2, <2>1, <2>2, <2>3, <2>4, <2>5, <2>6, <2>7, <2>8,
       StatementKeeps DEF SessionOK, db
  <2> QED BY <1>5, <2>9
<1> QED BY <1>1, <1>3, <1>4, <1>5

\* A row drawn for an insert is not there yet.
LEMMA InlineIsNew ==
    ASSUME SessionInv, NEW t \in Txs, pc[t] \in Running, NEW d \in op[t].inline
    PROVE  d \in NewDims(t) /\ d \in Dims /\ ~Exists(dim[d])
<1>1. d \in NewDims(t)
  BY DEF NewDims
<1> QED BY <1>1, DrawnIds DEF SessionInv, Apart

\* An inline Dimension is inserted under keys nobody has or reserved.
LEMMA InsertInlineKeeps ==
    ASSUME SessionInv, NEW t \in Txs, InsertInline(t)
    PROVE  SessionInv' /\ UNCHANGED db
<1> DEFINE row == NewDim(op[t].code, op[t].val)
<1>1. PICK d \in op[t].inline :
        IF DimKeyTaken(dim, d, row)
        THEN Abort(t, "dimension_conflict")
        ELSE /\ KeyBlockers(t, d, row) = {}
             /\ fresh' = [fresh EXCEPT ![t] = @ \cup {d}]
             /\ seenDim' = [seenDim EXCEPT ![t][d] = row]
             /\ UNCHANGED <<db, pc, op, seenMc, bad, locks>>
  BY DEF InsertInline
<1>2. /\ pc[t] = "resolve" /\ pc[t] \in Running /\ SessionOK(t)
      /\ op[t].kind \in McKinds
  BY DEF InsertInline, Running, SessionInv, SessionOK, Shape
<1>3. CASE Abort(t, "dimension_conflict")
  BY <1>3, AbortKeeps DEF Outcomes
<1>4. CASE /\ ~DimKeyTaken(dim, d, row)
           /\ KeyBlockers(t, d, row) = {}
           /\ fresh' = [fresh EXCEPT ![t] = @ \cup {d}]
           /\ seenDim' = [seenDim EXCEPT ![t][d] = row]
           /\ UNCHANGED <<db, pc, op, seenMc, bad, locks>>
  <2>1. d \in Dims /\ ~Exists(dim[d])
    BY <1>2, InlineIsNew
  <2>2. row \in DimRow
    <3>1. op[t].code \in Codes /\ op[t].val \in Vals
      BY <1>2 DEF SessionOK, Shape
    <3> QED BY <3>1, NewDimRow
  <2> HIDE DEF row
  <2>3. /\ UNCHANGED <<dim, mc, pc, op, seenMc, bad, sharedDims, lockedDims, lockedMcs>>
        /\ fresh'[t] = fresh[t] \cup {d}
        /\ seenDim'[t][d] = row
        /\ \A e \in Dims : e # d => seenDim'[t][e] = seenDim[t][e]
    BY <1>4, <2>1 DEF SessionInv, TypeOK, db, locks
  <2>4. OthersUnchanged(t)
    BY <1>4, <2>3 DEF OthersUnchanged, SessionInv, TypeOK
  <2>5. TypeOK'
    <3>1. TypeOK /\ seenDim \in [Txs -> [Dims -> DimRow]] /\ fresh \in [Txs -> SUBSET Dims]
      BY DEF SessionInv, TypeOK
    <3>2. seenDim' \in [Txs -> [Dims -> DimRow]]
      BY <1>4, <2>1, <2>2, <3>1
    <3>3. fresh' \in [Txs -> SUBSET Dims]
      BY <1>4, <2>1, <3>1
    <3> QED BY <2>3, <3>1, <3>2, <3>3 DEF TypeOK
  <2>6. LocksApart(t)
    BY <2>3 DEF LocksApart, SessionInv, Apart
  <2>7. KeysApart(t)
    <3>1. SUFFICES ASSUME NEW e \in fresh'[t]
                   PROVE  /\ ~DimKeyTaken(dim', e, seenDim'[t][e])
                          /\ \A u \in Txs \ {t} : \A f \in fresh[u] :
                              SlotOf[e] = SlotOf[f] =>
                                /\ seenDim'[t][e].code # seenDim[u][f].code
                                /\ seenDim'[t][e].val # seenDim[u][f].val
      BY DEF KeysApart
    <3>2. CASE e = d
      BY <1>4, <2>3, <3>2 DEF KeyBlockers
    <3>3. CASE e # d
      <4>1. e \in fresh[t] /\ seenDim'[t][e] = seenDim[t][e]
        BY <2>3, <3>1, <3>3 DEF SessionInv, TypeOK
      <4> QED BY <2>3, <4>1 DEF SessionInv, KeysFree
    <3> QED BY <3>2, <3>3
  <2>8. Shape(t)'
    BY <1>2, <2>3 DEF SessionOK, Shape, SelectedRefs
  <2>9. Holds(t)'
    <3>1. \A e \in sharedDims[t] \cup lockedDims[t] :
            e \in Dims /\ Exists(dim[e]) /\ seenDim[t][e] = dim[e] /\ e # d
      BY <1>2, <2>1 DEF SessionInv, TypeOK, SessionOK, Holds
    <3>2. \A e \in fresh[t] : e \in Dims /\ e \in op[t].inline /\ seenDim[t][e] = row
      BY <1>2 DEF SessionInv, TypeOK, SessionOK, Holds, row
    <3>3. \A e \in fresh'[t] : e \in op[t].inline /\ seenDim'[t][e] = row
      BY <1>1, <2>3, <3>2
    <3> QED BY <1>2, <2>3, <3>1, <3>3 DEF SessionOK, Holds, row
  <2>10. Resolving(t)'
    BY <1>2, <2>3 DEF SessionOK, Resolving, SelectedRefs
  <2>11. DimWork(t)' /\ FanOut(t)' /\ Targeted(t)'
    BY <1>2, <2>3 DEF DimWork, FanOut, Targeted
  <2>12. SessionInv'
    BY <1>2, <2>3, <2>4, <2>5, <2>6, <2>7, <2>8, <2>9, <2>10, <2>11,
       StatementKeeps DEF SessionOK, db
  <2> QED BY <1>4, <2>12
<1> QED BY <1>1, <1>3, <1>4

\* What LockTarget has established when it does not abort.
LEMMA Accepted ==
    ASSUME NEW t \in Txs, NEW row, op[t].kind \in TargetKinds,
           Refusal(t, row) = "none"
    PROVE  /\ op[t].kind # "RestoreMc" => row.st = "active"
           /\ op[t].kind = "RestoreMc" =>
                /\ row.st # "active"
                /\ \A d \in RefDims(row.refs) : seenDim[t][d].st # "deleted"
           /\ op[t].kind = "UpdateMc" => NextRefs(t) # row.refs
BY DEF Refusal, TargetKinds

\* A refusal is an outcome of a request.
LEMMA RefusalOutcome ==
    ASSUME NEW t \in Txs, NEW row
    PROVE  Refusal(t, row) \in Outcomes \cup {"none"}
BY DEF Refusal, Outcomes

\* The target is locked and found as it was read, with every reference shared.
LEMMA LockTargetKeeps ==
    ASSUME SessionInv, NEW t \in Txs, LockTarget(t)
    PROVE  SessionInv' /\ UNCHANGED db
<1> DEFINE m == op[t].m
           row == mc[m]
<1>1. /\ pc[t] = "resolve" /\ pc[t] \in Running /\ SessionOK(t)
      /\ op[t].kind \in TargetKinds /\ Unresolved(t) = {}
      /\ m \in Mcs /\ Exists(row)
  BY DEF LockTarget, Running, SessionInv, SessionOK, Shape, McKinds
<1>2. CASE \E r \in Outcomes : Abort(t, r)
  BY <1>2, AbortKeeps
<1>3. CASE /\ bad[t] = {} /\ McBlockers(t, m) = {}
           /\ ~StaleTarget(t, row) /\ Refusal(t, row) = "none"
           /\ lockedMcs' = [lockedMcs EXCEPT ![t] = {m}]
           /\ seenMc' = [seenMc EXCEPT ![t][m] = row]
           /\ pc' = [pc EXCEPT ![t] = "flush"]
           /\ UNCHANGED <<db, op, seenDim, fresh, bad, sharedDims, lockedDims>>
  <2>1. /\ UNCHANGED <<dim, mc, op, seenDim, fresh, bad, sharedDims, lockedDims>>
        /\ pc'[t] = "flush" /\ pc'[t] \in Running
        /\ lockedMcs'[t] = {m} /\ seenMc'[t][m] = row
    BY <1>1, <1>3 DEF SessionInv, TypeOK, db, Running
  <2>2. seenMc[t][m].refs = row.refs
    BY <1>3 DEF StaleTarget, SamePersistedState
  <2>3. /\ row.refs \in Refs
        /\ \A d \in RefDims(row.refs) : d \in Dims /\ Exists(dim[d])
    BY <1>1, StoredMasterCode DEF SessionInv
  <2>4. \A d \in fresh[t] : ~Exists(dim[d]) /\ d \in op[t].inline
    BY <1>1, InlineIsNew DEF SessionOK, Holds
  <2>5. RefDims(row.refs) \subseteq sharedDims[t]
    <3>1. CurrentRefs(t) = RefDims(row.refs)
      BY <1>1, <2>2 DEF CurrentRefs, TargetKinds
    <3> QED BY <1>1, <1>3, <2>3, <2>4, <3>1 DEF Unresolved
  <2>6. SelectedRefs(t) \subseteq sharedDims[t] \cup fresh[t]
    BY <1>1, <1>3 DEF Unresolved
  <2>7. NextRefs(t)' = NextRefs(t) /\ SelectedRefs(t)' = SelectedRefs(t)
    BY <2>1, <2>2 DEF NextRefs, SelectedRefs
  <2>8. row.st = (IF op[t].kind = "RestoreMc" THEN "deleted" ELSE "active")
    <3>1. row.st \in {"active", "deleted"}
      BY <1>1, McRowShape DEF SessionInv, CatalogOK
    <3> QED BY <1>1, <1>3, <3>1, Accepted
  <2>9. ASSUME op[t].kind = "RestoreMc", NEW d \in RefDims(row.refs)
        PROVE  dim[d].st = "active"
    <3>1. seenDim[t][d] = dim[d]
      BY <1>1, <2>5, <2>9 DEF SessionOK, Holds
    <3>2. dim[d].st \in {"active", "deleted"}
      BY <2>3, <2>9, DimRowShape DEF SessionInv, CatalogOK
    <3> QED BY <1>1, <1>3, <2>9, <3>1, <3>2, Accepted
  <2>10. op[t].kind = "UpdateMc" =>
            /\ NextRefs(t) # row.refs
            /\ \A d \in sharedDims[t] \cap SelectedRefs(t) : dim[d].st = "active"
    BY <1>1, <1>3, Accepted DEF SessionOK, Resolving, McKinds
  <2>11. op[t].kind # "UpdateMc" => fresh[t] = {}
    BY <1>1, <2>4 DEF SessionOK, Shape, TargetKinds
  <2>12. lockedDims[t] = {} /\ lockedMcs[t] = {}
    BY <1>1 DEF SessionOK, Resolving, McKinds
  <2>13. OthersUnchanged(t)
    BY <1>3, <2>1 DEF OthersUnchanged, SessionInv, TypeOK
  <2>14. TypeOK'
    <3>1. TypeOK /\ seenMc \in [Txs -> [Mcs -> McRow]] /\ row \in McRow
      BY <1>1 DEF SessionInv, TypeOK
    <3>2. seenMc' \in [Txs -> [Mcs -> McRow]]
      BY <1>1, <1>3, <3>1
    <3>3. lockedMcs' \in [Txs -> SUBSET Mcs]
      BY <1>1, <1>3, <3>1 DEF TypeOK
    <3>4. pc' \in [Txs -> {"idle"} \cup Running \cup Outcomes]
      BY <1>3, <3>1 DEF TypeOK, Running
    <3> QED BY <2>1, <3>1, <3>2, <3>3, <3>4 DEF TypeOK
  <2>15. LocksApart(t)
    BY <1>3, <2>1 DEF LocksApart, SessionInv, Apart, McBlockers
  <2>16. KeysApart(t)
    BY <2>1, SameKeys
  <2>17. Shape(t)'
    BY <1>1, <2>1, <2>7 DEF SessionOK, Shape
  <2>18. Holds(t)'
    BY <1>1, <2>1 DEF SessionOK, Holds
  <2>19. Targeted(t)'
    <3>1. \A d \in RefDims(row.refs) : seenDim[t][d] = dim[d]
      BY <1>1, <2>5 DEF SessionOK, Holds
    <3>2. Etag(row, dim) = op[t].etag
      BY <1>3, <3>1, EtagSeen DEF StaleTarget
    <3> QED BY <3>2, <2>1, <2>5, <2>6, <2>7, <2>8, <2>9, <2>10, <2>11, <2>12 DEF Targeted
  <2>20. DimWork(t)' /\ FanOut(t)' /\ Resolving(t)'
    BY <1>1, <2>1 DEF DimWork, FanOut, Resolving, DimKinds, TargetKinds
  <2>21. SessionInv'
    BY <1>1, <2>1, <2>13, <2>14, <2>15, <2>16, <2>17, <2>18, <2>19, <2>20,
       StatementKeeps DEF SessionOK, db
  <2> QED BY <1>3, <2>21
<1>4. Refusal(t, row) # "none" => Refusal(t, row) \in Outcomes
  BY RefusalOutcome
<1>5. {"invalid_reference", "precondition_failed"} \subseteq Outcomes
  BY DEF Outcomes
<1> QED BY <1>2, <1>3, <1>4, <1>5 DEF LockTarget

-----------------------------------------------------------------------------
(***************************************************************************)
(* Commits.                                                                *)
(***************************************************************************)

\* A commit is one atomic operation and writes only what it holds.
LEMMA CommitKeeps ==
    ASSUME SessionInv, NEW t \in Txs, End(t, "committed"), AtomicNext, Protected(t)
    PROVE  SessionInv' /\ [AtomicNext]_db
<1>1. "committed" \in Outcomes
  BY DEF Outcomes
<1> QED BY <1>1, EndKeeps

\* Writing one row takes no key that another transaction's insert reserved,
\* if the writer did not have to wait for that transaction.
LEMMA WritesFreeKey ==
    ASSUME SessionInv, NEW t \in Txs, NEW d \in Dims, NEW row,
           KeyBlockers(t, d, row) = {}, dim' = [dim EXCEPT ![d] = row]
    PROVE  \A u \in Txs \ {t} : \A e \in fresh[u] : ~DimKeyTaken(dim', e, seenDim[u][e])
<1>1. SUFFICES ASSUME NEW u \in Txs \ {t}, NEW e \in fresh[u]
               PROVE  ~DimKeyTaken(dim', e, seenDim[u][e])
  OBVIOUS
<1>2. e \in Dims /\ ~DimKeyTaken(dim, e, seenDim[u][e])
  BY <1>1 DEF SessionInv, TypeOK, KeysFree
<1>3. SlotOf[e] = SlotOf[d] =>
        seenDim[u][e].code # row.code /\ seenDim[u][e].val # row.val
  BY <1>1 DEF KeyBlockers
<1>4. dim'[d] = row /\ \A f \in Dims \ {d} : dim'[f] = dim[f]
  BY DEF SessionInv, TypeOK
<1> QED BY <1>2, <1>3, <1>4 DEF DimKeyTaken, CodeTaken, ValueTaken

\* The insert of a Dimension is one atomic creation.
LEMMA CreateDimKeeps ==
    ASSUME SessionInv, NEW t \in Txs, CreateDim(t)
    PROVE  SessionInv' /\ [AtomicNext]_db /\ Protected(t)
<1> DEFINE d == op[t].d
           row == NewDim(op[t].code, op[t].val)
<1>1. CASE Abort(t, "dimension_conflict")
  BY <1>1, AbortKeeps, UnchangedProtects DEF Outcomes
<1>2. CASE /\ ~DimKeyTaken(dim, d, row)
           /\ KeyBlockers(t, d, row) = {}
           /\ dim' = [dim EXCEPT ![d] = row]
           /\ UNCHANGED mc
           /\ End(t, "committed")
  <2>1. pc[t] \in Running /\ op[t].kind = "CreateDim"
    BY DEF CreateDim, Running
  <2>2. d \in Dims /\ op[t].code \in Codes /\ op[t].val \in Vals
    BY <2>1 DEF SessionInv, SessionOK, Shape
  <2>3. d \in NewDims(t) /\ ~Exists(dim[d])
    BY <2>1 DEF NewDims, SessionInv, Apart
  <2>4. CreateDimension(d, op[t].code, op[t].val)
    BY <1>2, <2>3 DEF CreateDimension
  <2>5. AtomicNext
    BY <2>2, <2>4 DEF AtomicNext
  <2>6. \A e \in Dims : e # d => dim'[e] = dim[e]
    BY <1>2 DEF SessionInv, TypeOK
  <2>7. \A u \in Txs \ {t} : \A e \in fresh[u] : ~DimKeyTaken(dim', e, seenDim[u][e])
    BY <1>2, <2>2, WritesFreeKey
  <2>8. Protected(t)
    BY <1>2, <2>3, <2>6, <2>7 DEF Protected
  <2> QED BY <1>2, <2>5, <2>8, CommitKeeps
<1> QED BY <1>1, <1>2 DEF CreateDim

\* Recomposition keeps identity, state and references.
LEMMA RecomposeKeeps ==
    ASSUME NEW row, NEW D
    PROVE  /\ Recompose(row, D).st = row.st
           /\ Recompose(row, D).refs = row.refs
BY DEF Recompose, NextMasterCode

\* The fan-out computed from the session is the one over the live tables.
LEMMA FanOutIsCurrent ==
    ASSUME SessionInv, NEW t \in Txs, pc[t] = "flush", op[t].kind = "UpdateDim",
           NEW E, E = [dim EXCEPT ![op[t].d] = ChangedDim(t)]
    PROVE  RecomposedMcs(t) =
            [m \in Mcs |-> IF References(mc[m], op[t].d) THEN Recompose(mc[m], E)
                           ELSE mc[m]]
<1> DEFINE d == op[t].d
           row == ChangedDim(t)
           D == [seenDim[t] EXCEPT ![d] = row]
<1>1. /\ SessionOK(t) /\ CatalogOK(dim, mc) /\ d \in Dims /\ Exists(dim[d])
      /\ seenDim[t][d] = dim[d]
      /\ seenDim[t] \in [Dims -> DimRow] /\ dim \in [Dims -> DimRow]
  BY DEF SessionInv, TypeOK, SessionOK, Shape, Running, DimKinds, DimWork, Holds
<1>2. row = ChangeDim(dim[d], op[t].code, op[t].val)
  BY <1>1 DEF ChangedDim
<1>3. row \in DimRow
  <2>1. op[t].code \in Codes \cup {None} /\ op[t].val \in Vals \cup {None}
    BY DEF SessionInv, TypeOK, Op
  <2>2. dim[d] \in DimRow
    BY <1>1
  <2> QED BY <1>1, <1>2, <2>1, <2>2, ChangeDimRow
<1>4. ~CodeChanges(t) => row.code = dim[d].code
  BY <1>2 DEF ChangeDim, CodeChanges
<1>5. E = [dim EXCEPT ![d] = row]
  OBVIOUS
<1> HIDE DEF row
<1>6. /\ D \in [Dims -> DimRow] /\ E \in [Dims -> DimRow]
       /\ D[d] = row /\ E[d] = row
       /\ \A e \in Dims : e # d => D[e] = seenDim[t][e] /\ E[e] = dim[e]
  BY <1>1, <1>3, <1>5
<1>7. SUFFICES ASSUME NEW m \in Mcs
               PROVE  (IF m \in lockedMcs[t] THEN Recompose(seenMc[t][m], D) ELSE mc[m])
                      = (IF References(mc[m], d) THEN Recompose(mc[m], E) ELSE mc[m])
  BY DEF RecomposedMcs, row
<1> HIDE DEF D
<1>8. ASSUME References(mc[m], d)
      PROVE  /\ mc[m].refs \in Refs /\ mc[m].code = Compose(mc[m].refs, dim)
             /\ \A e \in RefDims(mc[m].refs) : e \in Dims
  BY <1>1, <1>8, StoredMasterCode DEF References
<1>9. CASE CodeChanges(t)
  <2>1. m \in lockedMcs[t] <=> References(mc[m], d)
    BY <1>1, <1>9 DEF SessionOK, FanOut
  <2>2. ASSUME References(mc[m], d) PROVE Recompose(seenMc[t][m], D) = Recompose(mc[m], E)
    <3>1. /\ seenMc[t][m] = mc[m]
          /\ \A e \in RefDims(mc[m].refs) : seenDim[t][e].code = dim[e].code
      BY <1>1, <1>9, <2>1, <2>2 DEF SessionOK, FanOut
    <3>2. \A e \in RefDims(mc[m].refs) : D[e].code = E[e].code
      BY <1>6, <1>8, <2>2, <3>1
    <3>3. Compose(mc[m].refs, D) = Compose(mc[m].refs, E)
      BY <1>8, <2>2, <3>2 DEF Compose, RefDims
    <3> QED BY <3>1, <3>3 DEF Recompose
  <2> QED BY <2>1, <2>2
<1>10. CASE ~CodeChanges(t)
  <2>1. m \notin lockedMcs[t]
    BY <1>1, <1>10 DEF SessionOK, FanOut
  <2>2. ASSUME References(mc[m], d) PROVE Recompose(mc[m], E) = mc[m]
    <3>1. \A e \in RefDims(mc[m].refs) : dim[e].code = E[e].code
      BY <1>4, <1>8, <1>10, <1>6, <2>2
    <3>2. Compose(mc[m].refs, dim) = Compose(mc[m].refs, E)
      BY <1>8, <2>2, <3>1 DEF Compose, RefDims
    <3> QED BY <1>8, <2>2, <3>2 DEF Recompose
  <2> QED BY <2>1, <2>2
<1> QED BY <1>9, <1>10

\* Every Dimension commit is an atomic operation.
LEMMA CommitDimIsAtomic ==
    ASSUME SessionInv, NEW t \in Txs, pc[t] = "flush", op[t].kind \in DimKinds,
           ~DimKeyTaken(dim, op[t].d, ChangedDim(t)),
           dim' = [dim EXCEPT ![op[t].d] = ChangedDim(t)], mc' = RecomposedMcs(t)
    PROVE  AtomicNext
<1> DEFINE d == op[t].d
<1>1. /\ SessionOK(t) /\ d \in Dims /\ d \in lockedDims[t] /\ seenDim[t][d] = dim[d]
      /\ dim[d].st = (IF op[t].kind = "RestoreDim" THEN "deleted" ELSE "active")
      /\ op[t].kind = "UpdateDim" => RowChanges(t)
      /\ op[t].kind # "UpdateDim" => lockedMcs[t] = {}
  BY DEF SessionInv, SessionOK, Shape, Running, DimWork, Holds
<1>2. CASE op[t].kind = "UpdateDim"
  <2>1. ChangedDim(t) = ChangeDim(dim[d], op[t].code, op[t].val)
    BY <1>1, <1>2 DEF ChangedDim
  <2>2. /\ ChangedDim(t).code = (IF op[t].code = None THEN dim[d].code ELSE op[t].code)
        /\ ChangedDim(t).val = (IF op[t].val = None THEN dim[d].val ELSE op[t].val)
    BY <2>1 DEF ChangeDim
  <2>3. ChangedDim(t).code # dim[d].code \/ ChangedDim(t).val # dim[d].val
    BY <1>1, <1>2, <2>2 DEF RowChanges, CodeChanges
  <2>4. mc' = [m \in Mcs |-> IF References(mc[m], d) THEN Recompose(mc[m], dim')
                             ELSE mc[m]]
    BY <1>2, FanOutIsCurrent
  <2>5. ChangeDimension(d, op[t].code, op[t].val)
    BY <1>1, <1>2, <2>1, <2>3, <2>4 DEF ChangeDimension
  <2>6. op[t].code \in Codes \cup {None} /\ op[t].val \in Vals \cup {None}
    BY DEF SessionInv, TypeOK, Op
  <2> QED BY <1>1, <2>5, <2>6 DEF AtomicNext
<1>3. CASE op[t].kind # "UpdateDim"
  <2>1. mc' = mc
    BY <1>1, <1>3 DEF RecomposedMcs, SessionInv, TypeOK
  <2>2. CASE op[t].kind = "DeleteDim"
    <3>1. \A m \in Mcs : References(mc[m], d) => mc[m].st # "active"
      BY <1>1, <2>2 DEF SessionOK, DimWork, DimKinds
    <3>2. DeleteDimension(d)
      BY <1>1, <2>1, <2>2, <3>1 DEF DeleteDimension, ChangedDim
    <3> QED BY <1>1, <3>2 DEF AtomicNext
  <2>3. CASE op[t].kind = "RestoreDim"
    <3>1. RestoreDimension(d)
      BY <1>1, <2>1, <2>3 DEF RestoreDimension, ChangedDim
    <3> QED BY <1>1, <3>1 DEF AtomicNext
  <2> QED BY <1>3, <2>2, <2>3 DEF DimKinds
<1> QED BY <1>2, <1>3

\* The commit of a Dimension mutation is atomic and protected.
LEMMA CommitDimKeeps ==
    ASSUME SessionInv, NEW t \in Txs, CommitDim(t)
    PROVE  SessionInv' /\ [AtomicNext]_db /\ Protected(t)
<1> DEFINE d == op[t].d
           row == ChangedDim(t)
<1>1. CASE Abort(t, "dimension_conflict") \/ Abort(t, "mc_conflict")
  BY <1>1, AbortKeeps, UnchangedProtects DEF Outcomes
<1>2. CASE /\ ~DimKeyTaken(dim, d, row)
           /\ dim' = [dim EXCEPT ![d] = row]
           /\ mc' = RecomposedMcs(t)
           /\ End(t, "committed")
  <2>1. /\ pc[t] = "flush" /\ op[t].kind \in DimKinds /\ KeyBlockers(t, d, row) = {}
    BY DEF CommitDim, DimKinds
  <2>2. AtomicNext
    BY <1>2, <2>1, CommitDimIsAtomic
  <2>3. /\ SessionOK(t) /\ d \in Dims /\ d \in lockedDims[t] /\ Exists(dim[d])
        /\ seenDim[t][d] = dim[d]
    BY <2>1 DEF SessionInv, SessionOK, Shape, Running, DimWork, Holds
  <2>4. Exists(row)
    BY <2>3 DEF ChangedDim, ChangeDim, TransitionDeletion, Exists
  <2>5. op[t].kind # "UpdateDim" \/ ~CodeChanges(t) => row.code = dim[d].code
    BY <2>1, <2>3 DEF ChangedDim, ChangeDim, TransitionDeletion, CodeChanges, DimKinds
  <2>6. \A e \in Dims : e # d => dim'[e] = dim[e]
    BY <1>2 DEF SessionInv, TypeOK
  <2>7. dim'[d] = row
    BY <1>2, <2>3 DEF SessionInv, TypeOK
  <2>8. \A m \in lockedMcs[t] : seenMc[t][m] = mc[m]
    BY <2>1, <2>3 DEF SessionOK, DimWork, FanOut
  <2>9. ASSUME NEW m \in Mcs
        PROVE  /\ mc'[m].st = mc[m].st /\ mc'[m].refs = mc[m].refs
               /\ m \notin lockedMcs[t] => mc'[m] = mc[m]
    BY <1>2, <2>8, <2>9, RecomposeKeeps DEF RecomposedMcs
  <2>10. ASSUME NEW m \in Mcs, row.code # dim[d].code, References(mc[m], d)
         PROVE  m \in lockedMcs[t]
    BY <2>1, <2>3, <2>5, <2>10 DEF SessionOK, FanOut
  <2>11. \A u \in Txs \ {t} : \A e \in fresh[u] : ~DimKeyTaken(dim', e, seenDim[u][e])
    BY <1>2, <2>1, <2>3, WritesFreeKey
  <2> HIDE DEF row, d
  <2>12. Protected(t)
    BY <2>3, <2>4, <2>6, <2>7, <2>9, <2>10, <2>11 DEF Protected, References, Exists
  <2> QED BY <1>2, <2>2, <2>12, CommitKeeps
<1> QED BY <1>1, <1>2 DEF CommitDim

\* A written MasterCode and the rows inserted with it are protected.
LEMMA WriteMcIsProtected ==
    ASSUME SessionInv, NEW t \in Txs, pc[t] \in Running, WriteMc(t),
           op[t].m \in Mcs, op[t].m \in lockedMcs[t] \cup NewMcs(t),
           Exists(ChangedMc(t)),
           \A d \in Dims \ (sharedDims[t] \cup NewDims(t)) :
                References(ChangedMc(t), d) =>
                    /\ References(mc[op[t].m], d)
                    /\ ChangedMc(t).st = "active" => mc[op[t].m].st = "active"
    PROVE  Protected(t)
<1>1. SessionOK(t) /\ fresh[t] \subseteq Dims
  BY DEF SessionInv, TypeOK
<1>2. \A d \in fresh[t] : d \in NewDims(t) /\ ~Exists(dim[d]) /\ d \in op[t].inline
  BY <1>1, InlineIsNew DEF SessionOK, Holds
<1>3. \A d \in Dims : dim'[d] = IF d \in fresh[t] THEN seenDim[t][d] ELSE dim[d]
  BY DEF WriteMc
<1>4. /\ mc'[op[t].m] = ChangedMc(t)
      /\ \A m \in Mcs : m # op[t].m => mc'[m] = mc[m]
  BY DEF WriteMc, SessionInv, TypeOK
<1>5. ASSUME NEW u \in Txs \ {t}, NEW e \in fresh[u]
      PROVE  ~DimKeyTaken(dim', e, seenDim[u][e])
  <2>1. e \in Dims /\ ~DimKeyTaken(dim, e, seenDim[u][e])
    BY <1>5 DEF SessionInv, TypeOK, KeysFree
  <2>2. \A f \in fresh[t] : SlotOf[f] = SlotOf[e] =>
            seenDim[t][f].code # seenDim[u][e].code /\ seenDim[t][f].val # seenDim[u][e].val
    BY <1>5 DEF SessionInv, KeysFree
  <2> QED BY <1>3, <2>1, <2>2 DEF DimKeyTaken, CodeTaken, ValueTaken
<1> QED BY <1>2, <1>3, <1>4, <1>5 DEF Protected

\* The inline rows of a commit are those its references need.
LEMMA InlineRowsWritten ==
    ASSUME SessionInv, NEW t \in Txs, pc[t] \in Running, NEW refs \in Refs,
           dim' = [d \in Dims |-> IF d \in fresh[t] THEN seenDim[t][d] ELSE dim[d]],
           fresh[t] \subseteq RefDims(refs),
           RefDims(refs) \subseteq sharedDims[t] \cup fresh[t]
    PROVE  /\ \E code \in Codes, val \in Vals :
                dim' = WithInline(refs, code, val) /\ Insertable(refs, code, val)
           /\ \A d \in RefDims(refs) : dim'[d] = seenDim[t][d]
           /\ \A d \in fresh[t] : dim'[d].st = "active"
<1>1. SessionOK(t) /\ RefDims(refs) \subseteq Dims
  BY DEF SessionInv, RefDims, Refs
<1>2. \A d \in fresh[t] :
        /\ d \in Dims /\ ~Exists(dim[d]) /\ d \in op[t].inline
        /\ seenDim[t][d] = NewDim(op[t].code, op[t].val)
        /\ ~DimKeyTaken(dim, d, seenDim[t][d])
  BY <1>1, InlineIsNew DEF SessionOK, Holds, SessionInv, KeysFree
<1>3. \A d \in sharedDims[t] : Exists(dim[d]) /\ seenDim[t][d] = dim[d]
  BY <1>1 DEF SessionOK, Holds
<1>4. \A d \in Dims : d \in fresh[t] <=> d \in RefDims(refs) /\ ~Exists(dim[d])
  BY <1>2, <1>3
<1>5. PICK code \in Codes, val \in Vals :
        fresh[t] # {} => code = op[t].code /\ val = op[t].val
  <2>1. CASE fresh[t] # {}
    <3>1. op[t].code \in Codes /\ op[t].val \in Vals
      BY <1>1, <1>2, <2>1 DEF SessionOK, Shape
    <3> QED BY <3>1
  <2>2. CASE fresh[t] = {}
    BY <2>2, ValueAssumption
  <2> QED BY <2>1, <2>2
<1>6. dim' = WithInline(refs, code, val)
  BY <1>2, <1>4, <1>5 DEF WithInline
<1>7. Insertable(refs, code, val)
  BY <1>1, <1>2, <1>4, <1>5 DEF Insertable
<1>8. \A d \in RefDims(refs) : dim'[d] = seenDim[t][d]
  BY <1>1, <1>3
<1>9. \A d \in fresh[t] : dim'[d].st = "active"
  BY <1>2 DEF NewDim
<1> QED BY <1>6, <1>7, <1>8, <1>9

\* The references a commit of an update leaves its target with.
LEMMA NextRefsOK ==
    ASSUME SessionInv, NEW t \in Txs, pc[t] = "flush", op[t].kind = "UpdateMc"
    PROVE  /\ NextRefs(t) \in Refs
           /\ fresh[t] \subseteq RefDims(NextRefs(t))
           /\ RefDims(NextRefs(t)) \subseteq sharedDims[t] \cup fresh[t]
           /\ \A d \in RefDims(NextRefs(t)) \cap sharedDims[t] : dim[d].st = "active"
<1> DEFINE m == op[t].m
           refs == NextRefs(t)
<1>1. /\ SessionOK(t) /\ m \in Mcs /\ Exists(mc[m]) /\ mc[m].st = "active"
      /\ seenMc[t][m] = mc[m] /\ RefDims(mc[m].refs) \subseteq sharedDims[t]
      /\ SelectedRefs(t) \subseteq sharedDims[t] \cup fresh[t]
      /\ \A d \in sharedDims[t] \cap SelectedRefs(t) : dim[d].st = "active"
  BY DEF SessionInv, SessionOK, Shape, Running, Targeted, TargetKinds, McKinds
<1>2. /\ mc[m].refs \in Refs
      /\ \A d \in RefDims(mc[m].refs) : dim[d].st = "active"
  BY <1>1, StoredMasterCode DEF SessionInv
<1>3. /\ op[t].sel \in [Slots -> Dims \cup {None, Keep}]
      /\ \A s \in Slots : op[t].sel[s] \in Dims => SlotOf[op[t].sel[s]] = s
  BY <1>1 DEF SessionInv, TypeOK, Op, Selections, SessionOK, Shape, Running
<1>4. refs = [s \in Slots |-> IF op[t].sel[s] # Keep THEN op[t].sel[s] ELSE mc[m].refs[s]]
  BY <1>1 DEF NextRefs
<1> HIDE DEF refs
<1>5. refs \in Refs
  BY <1>2, <1>3, <1>4 DEF Refs
<1>6. RefDims(refs) \subseteq SelectedRefs(t) \cup RefDims(mc[m].refs)
  BY <1>4 DEF RefDims, SelectedRefs
<1>7. SelectedRefs(t) \subseteq RefDims(refs)
  BY <1>4 DEF RefDims, SelectedRefs
<1>8. fresh[t] \subseteq SelectedRefs(t)
  BY <1>1 DEF SessionOK, Shape, Holds, Running
<1>9. \A d \in RefDims(refs) \cap sharedDims[t] : dim[d].st = "active"
  BY <1>1, <1>2, <1>6
<1>10. refs \in Refs /\ fresh[t] \subseteq RefDims(refs)
       /\ RefDims(refs) \subseteq sharedDims[t] \cup fresh[t]
  BY <1>1, <1>5, <1>6, <1>7, <1>8
<1> QED BY <1>9, <1>10 DEF refs

\* A composition over rows the session shares with the tables.
LEMMA ComposeSeen ==
    ASSUME NEW refs, NEW D, NEW E, \A d \in RefDims(refs) : D[d] = E[d]
    PROVE  Compose(refs, D) = Compose(refs, E)
BY DEF Compose, RefDims

\* The commit of a reference update.
LEMMA CommitUpdate ==
    ASSUME SessionInv, NEW t \in Txs, pc[t] = "flush", op[t].kind = "UpdateMc",
           WriteMc(t), ~McKeyTaken(mc, op[t].m, ChangedMc(t))
    PROVE  AtomicNext /\ Protected(t)
<1> DEFINE m == op[t].m
           refs == NextRefs(t)
<1>1. /\ SessionOK(t) /\ m \in Mcs /\ Exists(mc[m]) /\ mc[m].st = "active"
      /\ seenMc[t][m] = mc[m] /\ m \in lockedMcs[t] /\ refs # mc[m].refs
  BY DEF SessionInv, SessionOK, Shape, Running, Targeted, TargetKinds, McKinds
<1>2. /\ refs \in Refs /\ fresh[t] \subseteq RefDims(refs)
      /\ RefDims(refs) \subseteq sharedDims[t] \cup fresh[t]
      /\ \A d \in RefDims(refs) \cap sharedDims[t] : dim[d].st = "active"
  BY NextRefsOK
<1>3. /\ dim' = [d \in Dims |-> IF d \in fresh[t] THEN seenDim[t][d] ELSE dim[d]]
      /\ mc' = [mc EXCEPT ![m] = ChangedMc(t)]
  BY DEF WriteMc
<1>4. ChangedMc(t) = UpdateReferences(mc[m], refs, seenDim[t])
  BY <1>1 DEF ChangedMc
<1>5. pc[t] \in Running
  BY DEF Running
<1> HIDE DEF refs
<1>6. /\ \E code \in Codes, val \in Vals :
            dim' = WithInline(refs, code, val) /\ Insertable(refs, code, val)
      /\ \A d \in RefDims(refs) : dim'[d] = seenDim[t][d]
      /\ \A d \in fresh[t] : dim'[d].st = "active"
  BY <1>2, <1>3, <1>5, InlineRowsWritten
<1>7. Usable(refs, dim')
  <2>1. SUFFICES ASSUME NEW d \in RefDims(refs), d \notin fresh[t]
                 PROVE  dim'[d].st = "active"
    BY <1>6 DEF Usable
  <2>2. d \in Dims
    BY <1>2 DEF RefDims, Refs
  <2> QED BY <1>2, <1>3, <2>1, <2>2
<1>8. ChangedMc(t) = UpdateReferences(mc[m], refs, dim')
  <2>1. Compose(refs, seenDim[t]) = Compose(refs, dim')
    BY <1>6 DEF Compose, RefDims
  <2> QED BY <1>4, <2>1 DEF UpdateReferences
<1>9. PICK code \in Codes, val \in Vals :
        dim' = WithInline(refs, code, val) /\ Insertable(refs, code, val)
  BY <1>6
<1>10. ReplaceReferences(m, refs, code, val)
  <2>1. mc' = [mc EXCEPT ![m] = UpdateReferences(mc[m], refs, WithInline(refs, code, val))]
    BY <1>3, <1>8, <1>9
  <2>2. /\ Usable(refs, WithInline(refs, code, val))
        /\ ~McKeyTaken(mc, m, UpdateReferences(mc[m], refs, WithInline(refs, code, val)))
    BY <1>7, <1>8, <1>9
  <2> QED BY <1>1, <1>9, <2>1, <2>2 DEF ReplaceReferences, refs
<1>11. AtomicNext
  BY <1>1, <1>2, <1>9, <1>10 DEF AtomicNext
<1>12. /\ Exists(ChangedMc(t)) /\ ChangedMc(t).refs = refs
  BY <1>4 DEF UpdateReferences, NextMasterCode, Exists
<1>13. fresh[t] \subseteq NewDims(t)
  BY <1>1, <1>5 DEF SessionOK, Holds, NewDims
<1>14. Protected(t)
  BY <1>1, <1>2, <1>5, <1>12, <1>13, WriteMcIsProtected DEF References
<1> QED BY <1>11, <1>14

\* The commit of a deletion or restoration.
LEMMA CommitMcLifecycle ==
    ASSUME SessionInv, NEW t \in Txs, pc[t] = "flush",
           op[t].kind \in {"DeleteMc", "RestoreMc"}, WriteMc(t)
    PROVE  AtomicNext /\ Protected(t)
<1> DEFINE m == op[t].m
<1>1. /\ SessionOK(t) /\ m \in Mcs /\ Exists(mc[m])
      /\ mc[m].st = (IF op[t].kind = "RestoreMc" THEN "deleted" ELSE "active")
      /\ seenMc[t][m] = mc[m] /\ m \in lockedMcs[t] /\ fresh[t] = {}
      /\ RefDims(mc[m].refs) \subseteq sharedDims[t]
      /\ op[t].kind = "RestoreMc" => \A d \in RefDims(mc[m].refs) : dim[d].st = "active"
  BY DEF SessionInv, SessionOK, Shape, Running, Targeted, TargetKinds, McKinds
<1>2. dim' = dim /\ mc' = [mc EXCEPT ![m] = ChangedMc(t)]
  BY <1>1 DEF WriteMc, SessionInv, TypeOK
<1>3. pc[t] \in Running
  BY DEF Running
<1>4. CASE op[t].kind = "DeleteMc"
  <2>1. ChangedMc(t) = DeleteMasterCode(mc[m])
    BY <1>1, <1>4 DEF ChangedMc
  <2>2. Delete(m)
    BY <1>1, <1>2, <1>4, <2>1 DEF Delete
  <2>3. /\ Exists(ChangedMc(t)) /\ ChangedMc(t).refs = mc[m].refs
        /\ ChangedMc(t).st = "deleted"
    BY <2>1 DEF DeleteMasterCode, NextMasterCode, Exists
  <2>4. Protected(t)
    BY <1>1, <1>3, <2>3, WriteMcIsProtected DEF References
  <2> QED BY <1>1, <2>2, <2>4 DEF AtomicNext
<1>5. CASE op[t].kind = "RestoreMc"
  <2>1. ChangedMc(t) = RestoreMasterCode(mc[m], seenDim[t])
    BY <1>1, <1>5 DEF ChangedMc
  <2>2. \A d \in RefDims(mc[m].refs) : seenDim[t][d] = dim[d]
    BY <1>1 DEF SessionOK, Holds
  <2>3. Compose(mc[m].refs, seenDim[t]) = Compose(mc[m].refs, dim)
    BY <2>2, ComposeSeen
  <2>4. ChangedMc(t) = RestoreMasterCode(mc[m], dim)
    BY <2>1, <2>3 DEF RestoreMasterCode
  <2>5. Restore(m)
    BY <1>1, <1>2, <1>5, <2>4 DEF Restore, Usable
  <2>6. Exists(ChangedMc(t)) /\ ChangedMc(t).refs = mc[m].refs
    BY <2>1 DEF RestoreMasterCode, NextMasterCode, Exists
  <2>7. Protected(t)
    BY <1>1, <1>3, <2>6, WriteMcIsProtected DEF References
  <2> QED BY <1>1, <2>5, <2>7 DEF AtomicNext
<1> QED BY <1>4, <1>5

\* The commit of a MasterCode mutation is atomic and protected.
LEMMA CommitTargetKeeps ==
    ASSUME SessionInv, NEW t \in Txs, CommitTarget(t)
    PROVE  SessionInv' /\ [AtomicNext]_db /\ Protected(t)
<1>1. CASE Abort(t, "mc_conflict")
  BY <1>1, AbortKeeps, UnchangedProtects DEF Outcomes
<1>2. CASE ~McKeyTaken(mc, op[t].m, ChangedMc(t)) /\ WriteMc(t)
  <2>1. pc[t] = "flush" /\ op[t].kind \in TargetKinds
    BY DEF CommitTarget
  <2>2. AtomicNext /\ Protected(t)
    BY <1>2, <2>1, CommitUpdate, CommitMcLifecycle DEF TargetKinds
  <2> QED BY <1>2, <2>2, CommitKeeps DEF WriteMc
<1> QED BY <1>1, <1>2 DEF CommitTarget

\* The commit of a new MasterCode is atomic and protected.
LEMMA CommitCreateMcKeeps ==
    ASSUME SessionInv, NEW t \in Txs, CommitCreateMc(t)
    PROVE  SessionInv' /\ [AtomicNext]_db /\ Protected(t)
<1> DEFINE m == op[t].m
           refs == op[t].sel
<1>1. CASE \E r \in Outcomes : Abort(t, r)
  BY <1>1, AbortKeeps, UnchangedProtects
<1>2. CASE bad[t] = {} /\ ~McKeyTaken(mc, m, ChangedMc(t)) /\ WriteMc(t)
  <2>1. /\ pc[t] = "resolve" /\ pc[t] \in Running /\ op[t].kind = "CreateMc"
        /\ Unresolved(t) = {}
    BY DEF CommitCreateMc, Running
  <2>2. SessionOK(t) /\ m \in Mcs /\ refs \in Refs
    BY <2>1 DEF SessionInv, SessionOK, Shape, McKinds
  <2>3. m \in NewMcs(t) /\ ~Exists(mc[m])
    BY <2>1 DEF NewMcs, SessionInv, Apart
  <2>4. RefDims(refs) = SelectedRefs(t)
    <3>1. \A s \in Slots : refs[s] # Keep
      BY <2>2, KeepAssumption DEF Refs
    <3> QED BY <3>1 DEF RefDims, SelectedRefs
  <2>5. RefDims(refs) \subseteq sharedDims[t] \cup fresh[t]
    BY <1>2, <2>1, <2>4 DEF Unresolved
  <2>6. fresh[t] \subseteq RefDims(refs)
    BY <2>1, <2>2, <2>4 DEF SessionOK, Shape, Holds
  <2>7. \A d \in RefDims(refs) \cap sharedDims[t] : dim[d].st = "active"
    BY <1>2, <2>1, <2>2, <2>4 DEF SessionOK, Resolving, McKinds
  <2>8. /\ dim' = [d \in Dims |-> IF d \in fresh[t] THEN seenDim[t][d] ELSE dim[d]]
        /\ mc' = [mc EXCEPT ![m] = ChangedMc(t)]
    BY <1>2 DEF WriteMc
  <2>9. ChangedMc(t) = NewMasterCode(refs, seenDim[t])
    BY <2>1 DEF ChangedMc, TargetKinds
  <2> HIDE DEF refs
  <2>10. /\ \E code \in Codes, val \in Vals :
                dim' = WithInline(refs, code, val) /\ Insertable(refs, code, val)
         /\ \A d \in RefDims(refs) : dim'[d] = seenDim[t][d]
         /\ \A d \in fresh[t] : dim'[d].st = "active"
    BY <2>1, <2>2, <2>5, <2>6, <2>8, InlineRowsWritten
  <2>11. Usable(refs, dim')
    <3>1. SUFFICES ASSUME NEW d \in RefDims(refs), d \notin fresh[t]
                   PROVE  dim'[d].st = "active"
      BY <2>10 DEF Usable
    <3>2. d \in Dims
      BY <2>2 DEF RefDims, Refs
    <3> QED BY <2>5, <2>7, <2>8, <3>1, <3>2
  <2>12. ChangedMc(t) = NewMasterCode(refs, dim')
    <3>1. Compose(refs, seenDim[t]) = Compose(refs, dim')
      BY <2>10 DEF Compose, RefDims
    <3> QED BY <2>9, <3>1 DEF NewMasterCode
  <2>13. PICK code \in Codes, val \in Vals :
            dim' = WithInline(refs, code, val) /\ Insertable(refs, code, val)
    BY <2>10
  <2>14. CreateMasterCode(m, refs, code, val)
    <3>1. mc' = [mc EXCEPT ![m] = NewMasterCode(refs, WithInline(refs, code, val))]
      BY <2>8, <2>12, <2>13
    <3>2. /\ Usable(refs, WithInline(refs, code, val))
          /\ ~McKeyTaken(mc, m, NewMasterCode(refs, WithInline(refs, code, val)))
      BY <1>2, <2>11, <2>12, <2>13
    <3> QED BY <2>3, <2>13, <3>1, <3>2 DEF CreateMasterCode
  <2>15. AtomicNext
    BY <2>2, <2>13, <2>14 DEF AtomicNext
  <2>16. Exists(ChangedMc(t)) /\ ChangedMc(t).refs = refs
    BY <2>9 DEF NewMasterCode, Exists
  <2>17. fresh[t] \subseteq NewDims(t)
    BY <2>1, <2>2 DEF SessionOK, Holds, NewDims
  <2>18. Protected(t)
    BY <1>2, <2>1, <2>2, <2>3, <2>5, <2>16, <2>17, WriteMcIsProtected DEF References
  <2> QED BY <1>2, <2>15, <2>18, CommitKeeps DEF WriteMc
<1>3. {"invalid_reference", "no_effect", "mc_conflict"} \subseteq Outcomes
  BY DEF Outcomes
<1> QED BY <1>1, <1>2, <1>3 DEF CommitCreateMc

-----------------------------------------------------------------------------
(***************************************************************************)
(* Requests.                                                               *)
(***************************************************************************)

\* A request that fits the catalog starts a transaction that holds nothing.
LEMMA RequestKeeps ==
    ASSUME SessionInv, NEW t \in Txs, pc[t] = "idle", NEW o \in Op,
           NEW first \in {"begin", "resolve"}, Request(t, o, first),
           first = "resolve" => o.kind = "CreateMc", Shape(t)', IdsApart(t)
    PROVE  SessionInv' /\ UNCHANGED db
<1>1. /\ UNCHANGED <<dim, mc, seenDim, seenMc, fresh, bad, sharedDims, lockedDims, lockedMcs>>
      /\ pc'[t] = first /\ op'[t] = o
  BY DEF Request, db, session, locks, SessionInv, TypeOK
<1>2. /\ SessionOK(t) /\ sharedDims[t] = {} /\ lockedDims[t] = {}
      /\ lockedMcs[t] = {} /\ fresh[t] = {}
  BY DEF SessionInv, SessionOK, Holds, Running
<1>3. OthersUnchanged(t)
  BY <1>1 DEF Request, OthersUnchanged, SessionInv, TypeOK
<1>4. TypeOK'
  <2>1. op' \in [Txs -> Op]
    BY DEF Request, SessionInv, TypeOK
  <2>2. pc' \in [Txs -> {"idle"} \cup Running \cup Outcomes]
    BY DEF Request, SessionInv, TypeOK, Running
  <2> QED BY <1>1, <2>1, <2>2 DEF SessionInv, TypeOK
<1>5. LocksApart(t)
  BY <1>1, <1>2 DEF LocksApart
<1>6. KeysApart(t)
  BY <1>1, <1>2 DEF KeysApart
<1>7. Holds(t)'
  BY <1>1, <1>2 DEF Holds
<1>8. Resolving(t)'
  BY <1>1, <1>2 DEF Resolving, TargetKinds
<1>9. DimWork(t)' /\ FanOut(t)' /\ Targeted(t)'
  BY <1>1 DEF DimWork, FanOut, Targeted
<1>10. Protected(t)
  BY <1>1, UnchangedProtects DEF db
<1>11. SessionInv'
  BY <1>1, <1>3, <1>4, <1>5, <1>6, <1>7, <1>8, <1>9, <1>10, StepKeeps DEF SessionOK, db
<1> QED BY <1>1, <1>11 DEF db

\* Requests are of type Op.
LEMMA DimOpType ==
    ASSUME NEW kind \in AllKinds, NEW d \in Dims, NEW code \in Codes \cup {None},
           NEW val \in Vals \cup {None}, NEW version \in Nat
    PROVE  DimOp(kind, d, code, val, version) \in Op
<1>1. NoChoice \in Selections
  BY DEF NoChoice, Selections
<1>2. NoEtag \in Nat \X [Slots -> (Dims \cup {None}) \X Nat]
  BY DEF NoEtag
<1> QED BY <1>1, <1>2 DEF DimOp, Op

\* The same for MasterCodes.
LEMMA McOpType ==
    ASSUME NEW kind \in AllKinds, NEW m \in Mcs, NEW sel \in Selections,
           NEW inline \in SUBSET Dims, NEW code \in Codes \cup {None},
           NEW val \in Vals \cup {None},
           NEW etag \in Nat \X [Slots -> (Dims \cup {None}) \X Nat],
           NEW review \in BOOLEAN
    PROVE  McOp(kind, m, sel, inline, code, val, etag, review) \in Op
BY DEF McOp, Op

\* The ETag of a stored MasterCode.
LEMMA EtagType ==
    ASSUME CatalogOK(dim, mc), NEW m \in Mcs, Exists(mc[m])
    PROVE  Etag(mc[m], dim) \in Nat \X [Slots -> (Dims \cup {None}) \X Nat]
<1>1. mc[m].version \in Nat /\ mc[m].refs \in Refs
  BY McRowShape DEF CatalogOK
<1>2. \A d \in Dims : dim[d].version \in Nat
  BY DEF CatalogOK, DimRow, NoDim
<1>3. ASSUME NEW s \in Slots, mc[m].refs[s] # None
      PROVE  <<mc[m].refs[s], dim[mc[m].refs[s]].version>> \in (Dims \cup {None}) \X Nat
  BY <1>1, <1>2, <1>3 DEF Refs
<1> QED BY <1>1, <1>3 DEF Etag

\* A request for a Dimension; an id it draws is unused.
LEMMA RequestDimKeeps ==
    ASSUME SessionInv, NEW t \in Txs, pc[t] = "idle",
           NEW kind \in {"CreateDim"} \cup DimKinds, NEW d \in Dims,
           NEW code \in Codes \cup {None}, NEW val \in Vals \cup {None},
           NEW version \in Nat,
           Request(t, DimOp(kind, d, code, val, version), "begin"),
           kind = "CreateDim" => code \in Codes /\ val \in Vals /\ FreshDimId(d),
           kind \in DimKinds => Exists(dim[d])
    PROVE  SessionInv' /\ UNCHANGED db
<1> DEFINE o == DimOp(kind, d, code, val, version)
<1>1. o \in Op
  BY DimOpType DEF AllKinds, DimKinds
<1>2. /\ o.kind = kind /\ o.d = d /\ o.code = code /\ o.val = val
      /\ o.sel = NoChoice /\ o.inline = {}
  BY DEF DimOp
<1> HIDE DEF o
<1>3. pc'[t] = "begin" /\ op'[t] = o /\ dim' = dim /\ mc' = mc
  BY DEF Request, db, SessionInv, TypeOK, o
<1>4. \A s \in Slots : NoChoice[s] \notin Dims
  BY KeepAssumption DEF NoChoice
<1>5. Shape(t)'
  BY <1>2, <1>3, <1>4 DEF Shape, DimKinds, McKinds, TargetKinds
<1>6. IdsApart(t)
  <2>1. /\ NewDims(t)' = IF kind = "CreateDim" THEN {d} ELSE {}
        /\ NewMcs(t)' = {}
    BY <1>2, <1>3 DEF NewDims, NewMcs, Running, DimKinds
  <2>2. kind = "CreateDim" => \A u \in Txs : d \notin NewDims(u)
    BY DEF FreshDimId, Claims, NewDims
  <2> QED BY <1>3, <2>1, <2>2 DEF IdsApart, FreshDimId
<1> QED BY <1>1, <1>2, <1>5, <1>6, RequestKeeps DEF o, DimKinds

\* A request for the change of a MasterCode that exists.
LEMMA RequestTargetKeeps ==
    ASSUME SessionInv, NEW t \in Txs, pc[t] = "idle", NEW kind \in TargetKinds,
           NEW m \in Mcs, Exists(mc[m]), NEW sel \in Selections,
           \A s \in Slots : sel[s] \in Dims => SlotOf[sel[s]] = s,
           Request(t, McOp(kind, m, sel, {}, None, None, Etag(mc[m], dim), FALSE), "begin")
    PROVE  SessionInv' /\ UNCHANGED db
<1> DEFINE o == McOp(kind, m, sel, {}, None, None, Etag(mc[m], dim), FALSE)
<1>1. o \in Op
  BY EtagType, McOpType DEF AllKinds, TargetKinds, SessionInv
<1>2. o.kind = kind /\ o.m = m /\ o.sel = sel /\ o.inline = {}
  BY DEF McOp
<1> HIDE DEF o
<1>3. pc'[t] = "begin" /\ op'[t] = o /\ dim' = dim /\ mc' = mc
  BY DEF Request, db, SessionInv, TypeOK, o
<1>4. Shape(t)'
  BY <1>2, <1>3 DEF Shape, DimKinds, McKinds, TargetKinds
<1>5. NewDims(t)' = {} /\ NewMcs(t)' = {}
  BY <1>2, <1>3 DEF NewDims, NewMcs, TargetKinds
<1>6. IdsApart(t)
  BY <1>5 DEF IdsApart
<1> QED BY <1>1, <1>2, <1>4, <1>6, RequestKeeps DEF o, TargetKinds

\* A request for a new MasterCode, possibly with new Dimensions.
LEMMA RequestCreateKeeps ==
    ASSUME SessionInv, NEW t \in Txs, pc[t] = "idle", NEW m \in Mcs, NEW sel \in Refs,
           NEW code \in Codes \cup {None}, NEW val \in Vals \cup {None},
           RequestCreateMc(t, m, sel, code, val)
    PROVE  SessionInv' /\ UNCHANGED db
<1> DEFINE inl == Inlined(sel)
           o == McOp("CreateMc", m, sel, inl, code, val, NoEtag, FALSE)
<1>1. /\ Request(t, o, "resolve") /\ FreshMcId(m)
      /\ \A s \in Slots : sel[s] \in {None} \cup Selectable(s) \cup Inlinable(s)
      /\ inl # {} => code # None /\ val # None
  BY DEF RequestCreateMc
<1>2. inl \subseteq Dims /\ \A d \in inl : \E s \in Slots : sel[s] = d /\ ~Exists(dim[d])
  BY DEF Inlined
<1>3. \A d \in inl : FreshDimId(d)
  BY <1>1, <1>2, SentinelAssumption DEF Selectable, Inlinable
<1> HIDE DEF inl
<1>4. o \in Op
  <2>1. sel \in Selections
    BY DEF Refs, Selections
  <2>2. NoEtag \in Nat \X [Slots -> (Dims \cup {None}) \X Nat]
    BY DEF NoEtag
  <2> QED BY <1>2, <2>1, <2>2, McOpType DEF AllKinds
<1>5. /\ o.kind = "CreateMc" /\ o.m = m /\ o.sel = sel /\ o.inline = inl
      /\ o.code = code /\ o.val = val
  BY DEF McOp
<1> HIDE DEF o
<1>6. pc'[t] = "resolve" /\ op'[t] = o /\ dim' = dim /\ mc' = mc
  BY <1>1 DEF Request, db, SessionInv, TypeOK
<1>7. Shape(t)'
  <2>1. \A d \in inl : d \in {sel[s] : s \in Slots} \ {None, Keep}
    BY <1>2, SentinelAssumption, KeepAssumption
  <2>2. \A s \in Slots : sel[s] \in Dims => SlotOf[sel[s]] = s
    BY SentinelAssumption DEF Refs
  <2>3. inl # {} => code \in Codes /\ val \in Vals
    BY <1>1
  <2> QED BY <1>5, <1>6, <2>1, <2>2, <2>3
          DEF Shape, DimKinds, McKinds, TargetKinds, SelectedRefs
<1>8. IdsApart(t)
  <2>1. NewDims(t)' = inl /\ NewMcs(t)' = {m}
    BY <1>5, <1>6 DEF NewDims, NewMcs, Running
  <2>2. \A d \in inl : ~Exists(dim[d]) /\ \A u \in Txs : d \notin NewDims(u)
    BY <1>3 DEF FreshDimId, Claims, NewDims
  <2>3. ~Exists(mc[m]) /\ \A u \in Txs : m \notin NewMcs(u)
    BY <1>1 DEF FreshMcId, NewMcs
  <2> QED BY <1>6, <2>1, <2>2, <2>3 DEF IdsApart
<1> QED BY <1>1, <1>4, <1>5, <1>7, <1>8, RequestKeeps

\* Every request a client can make keeps the invariant.
LEMMA BeginKeeps ==
    ASSUME SessionInv, NEW t \in Txs, Begin(t)
    PROVE  SessionInv' /\ UNCHANGED db
<1>1. /\ pc[t] = "idle" /\ CatalogOK(dim, mc)
      /\ \A d \in Dims : dim[d].version \in Nat
  BY DEF Begin, SessionInv, CatalogOK, DimRow, NoDim
<1>2. ASSUME NEW d \in Dims, NEW code \in Codes, NEW val \in Vals,
             RequestCreateDim(t, d, code, val)
      PROVE  SessionInv' /\ UNCHANGED db
  BY <1>1, <1>2, RequestDimKeeps DEF RequestCreateDim, DimKinds
<1>3. ASSUME NEW d \in Dims, NEW code \in Codes \cup {None}, NEW val \in Vals \cup {None},
             RequestUpdateDim(t, d, code, val)
      PROVE  SessionInv' /\ UNCHANGED db
  BY <1>1, <1>3, RequestDimKeeps DEF RequestUpdateDim, DimKinds, Exists
<1>4. ASSUME NEW d \in Dims, NEW kind \in {"DeleteDim", "RestoreDim"},
             RequestDimLifecycle(t, d, kind)
      PROVE  SessionInv' /\ UNCHANGED db
  BY <1>1, <1>4, RequestDimKeeps DEF RequestDimLifecycle, DimKinds, Exists
<1>5. ASSUME NEW m \in Mcs, NEW sel \in Selections, RequestUpdateMc(t, m, sel)
      PROVE  SessionInv' /\ UNCHANGED db
  <2>1. \A s \in Slots : sel[s] \in Dims => SlotOf[sel[s]] = s
    BY <1>5, SentinelAssumption, KeepAssumption DEF RequestUpdateMc, Selectable
  <2> QED BY <1>1, <1>5, <2>1, RequestTargetKeeps DEF RequestUpdateMc, TargetKinds, Exists
<1>6. ASSUME NEW m \in Mcs, NEW kind \in {"DeleteMc", "RestoreMc"},
             RequestMcLifecycle(t, m, kind)
      PROVE  SessionInv' /\ UNCHANGED db
  <2>1. NoChoice \in Selections /\ \A s \in Slots : NoChoice[s] \notin Dims
    BY KeepAssumption DEF NoChoice, Selections
  <2> QED BY <1>1, <1>6, <2>1, RequestTargetKeeps DEF RequestMcLifecycle, TargetKinds, Exists
<1>7. ASSUME NEW d \in Dims, NEW code \in Codes, RequestUpdateDim(t, d, code, None)
      PROVE  SessionInv' /\ UNCHANGED db
  BY <1>3, <1>7
<1> QED BY <1>1, <1>2, <1>3, <1>4, <1>5, <1>6, <1>7, RequestCreateKeeps DEF Begin

-----------------------------------------------------------------------------
(***************************************************************************)
(* The theorems.                                                           *)
(***************************************************************************)

\* Initially no request runs.
LEMMA InitSession == Init => SessionInv
<1> SUFFICES ASSUME Init PROVE SessionInv
  OBVIOUS
<1>1. CatalogOK(dim, mc)
  BY AtomicInitially DEF Init
<1>2. Unread \in [Dims -> DimRow] /\ UnreadMc \in [Mcs -> McRow]
  BY DEF Unread, UnreadMc, DimRow, McRow
<1>3. NoOp \in Op
  <2>1. NoChoice \in Selections /\ NoEtag \in Nat \X [Slots -> (Dims \cup {None}) \X Nat]
    BY DEF NoChoice, Selections, NoEtag
  <2> QED BY <2>1 DEF NoOp, DimOp, Op
<1>4. TypeOK
  BY <1>1, <1>2, <1>3 DEF Init, TypeOK, CatalogOK
<1>5. \A t \in Txs : /\ pc[t] \notin Running /\ pc[t] = "idle"
                     /\ sharedDims[t] = {} /\ lockedDims[t] = {}
                     /\ lockedMcs[t] = {} /\ fresh[t] = {}
  BY DEF Init, Running
<1>6. Apart /\ KeysFree
  BY <1>5 DEF Apart, KeysFree, NewDims, NewMcs
<1>7. \A t \in Txs : SessionOK(t)
  BY <1>5 DEF SessionOK, Shape, Holds, DimWork, FanOut, Resolving, Targeted
<1> QED BY <1>1, <1>4, <1>6, <1>7 DEF SessionInv

\* Every step keeps the invariant and is an atomic operation or none.
LEMMA NextKeeps ==
    ASSUME SessionInv, [Next]_vars
    PROVE  SessionInv' /\ [AtomicNext]_db
<1>1. CASE UNCHANGED vars
  <2>1. UNCHANGED <<dim, mc, pc, op, seenDim, seenMc, fresh, bad, sharedDims,
                    lockedDims, lockedMcs>>
    BY <1>1 DEF vars, db, session, locks
  <2>2. TypeOK' /\ CatalogOK(dim', mc')
    BY <2>1 DEF SessionInv, TypeOK
  <2>3. Apart' /\ KeysFree'
    BY <2>1 DEF SessionInv, Apart, KeysFree, NewDims, NewMcs
  <2>4. ASSUME NEW t \in Txs PROVE SessionOK(t)'
    BY <2>1 DEF SessionInv, SessionOK, Shape, Holds, DimWork, FanOut, Resolving,
       Targeted, SelectedRefs, NextRefs, RowChanges, CodeChanges
  <2> QED BY <2>1, <2>2, <2>3, <2>4 DEF SessionInv, db
<1>2. ASSUME NEW t \in Txs, DimStep(t) PROVE SessionInv' /\ [AtomicNext]_db
  BY <1>2, CreateDimKeeps, LockDimForUpdateKeeps, LockDimForLifecycleKeeps,
     CheckInUseKeeps, LockReferencingKeeps, ReadJoinedKeeps, CommitDimKeeps
     DEF DimStep
<1>3. ASSUME NEW t \in Txs, McStep(t) PROVE SessionInv' /\ [AtomicNext]_db
  BY <1>3, ReadTargetKeeps, LockReferenceKeeps, InsertInlineKeeps, LockTargetKeeps,
     CommitTargetKeeps, CommitCreateMcKeeps DEF McStep
<1>4. ASSUME NEW t \in Txs, DeadlockVictim(t) \/ ConnectionLost(t)
      PROVE  SessionInv' /\ [AtomicNext]_db
  <2>1. Abort(t, "unavailable") /\ "unavailable" \in Outcomes
    BY <1>4 DEF DeadlockVictim, ConnectionLost, Outcomes
  <2> QED BY <2>1, AbortKeeps
<1> QED BY <1>1, <1>2, <1>3, <1>4, BeginKeeps DEF Next, Step

\* What every session read and will base its writes on is still true of the
\* tables: no interleaving of the transactions' statements invalidates it.
THEOREM SessionsAreSound == Spec => []SessionInv
<1>1. Init => SessionInv
  BY InitSession
<1>2. SessionInv /\ [Next]_vars => SessionInv'
  BY NextKeeps
<1> QED BY <1>1, <1>2, PTL DEF Spec

\* Rows, requests, sessions and locks keep their types; in particular no
\* commit ever stores a row with an absent code, value or reference.
THEOREM TypeCorrect == Spec => []TypeOK
<1>1. SessionInv => TypeOK
  BY DEF SessionInv
<1> QED BY <1>1, SessionsAreSound, PTL

\* Stored codes are composed of the current codes of their references,
\* whatever code changes, reference updates and restorations run concurrently.
THEOREM CodesStayComposed == Spec => []CodesComposed
<1>1. SessionInv => CodesComposed
  BY DEF SessionInv, CatalogOK, CodesComposed
<1> QED BY <1>1, SessionsAreSound, PTL

\* An active MasterCode references active Dimensions only: no deletion slips
\* past a concurrent creation, reference update or restoration.
THEOREM ReferencesStayActive == Spec => []ActiveReferences
<1>1. SessionInv => ActiveReferences
  BY DEF SessionInv, CatalogOK, ActiveReferences
<1> QED BY <1>1, SessionsAreSound, PTL

\* A transaction about to commit computed its writes from current rows, the
\* unlocked rows of a fan-out's joined read included.
THEOREM SessionsStayCurrent == Spec => []SessionCurrent
<1>1. ASSUME SessionInv PROVE SessionCurrent
  <2>1. SUFFICES ASSUME NEW t \in Txs, pc[t] = "flush"
                 PROVE  /\ \A d \in sharedDims[t] \cup lockedDims[t] :
                                seenDim[t][d] = dim[d]
                        /\ \A m \in lockedMcs[t] :
                            /\ seenMc[t][m] = mc[m]
                            /\ \A d \in RefDims(mc[m].refs) :
                                seenDim[t][d].code = dim[d].code
    BY DEF SessionCurrent
  <2>2. SessionOK(t) /\ op[t].kind \in DimKinds \cup TargetKinds
    BY <1>1, <2>1 DEF SessionInv, SessionOK, Shape, Running
  <2>3. \A d \in sharedDims[t] \cup lockedDims[t] : seenDim[t][d] = dim[d]
    BY <2>2 DEF SessionOK, Holds
  <2>4. CASE op[t].kind \in TargetKinds
    BY <2>1, <2>2, <2>3, <2>4 DEF SessionOK, Targeted
  <2>5. CASE op[t].kind \in DimKinds
    BY <2>1, <2>2, <2>3, <2>5 DEF SessionOK, DimWork, FanOut
  <2> QED BY <2>2, <2>3, <2>4, <2>5
<1> QED BY <1>1, SessionsAreSound, PTL

\* The transactions implement the atomic catalog: every interleaving of their
\* statements, aborts included, is a sequence of whole operations, each
\* applied to the catalog as it is when the transaction commits.
THEOREM TransactionsAreAtomic == Spec => ImplementsAtomicCatalog
<1>1. Init => AtomicInit
  BY DEF Init
<1>2. SessionInv /\ [Next]_vars => [AtomicNext]_db
  BY NextKeeps
<1> QED BY <1>1, <1>2, SessionsAreSound, PTL DEF Spec, AtomicSpec, ImplementsAtomicCatalog

\* The last statement before a conditional request commits has checked what
\* the client sent.
LEMMA CommitStep ==
    ASSUME SessionInv, NEW t \in Txs, Step(t), pc'[t] = "committed"
    PROVE  pc[t] = "flush" \/ op[t].kind \in {"CreateDim", "CreateMc"}
<1>0. pc \in [Txs -> {"idle"} \cup Running \cup Outcomes]
  BY DEF SessionInv, TypeOK
<1>1. \A r : Abort(t, r) \/ End(t, r) => pc'[t] = r
  BY <1>0 DEF Abort, End
<1>2. CASE CreateDim(t) \/ CommitCreateMc(t)
  BY <1>2 DEF CreateDim, CommitCreateMc
<1>3. CASE CommitDim(t) \/ CommitTarget(t)
  BY <1>3 DEF CommitDim, CommitTarget
<1>4. CASE LockDimForUpdate(t)
  BY <1>0, <1>1, <1>4 DEF LockDimForUpdate, HoldDim
<1>5. CASE LockDimForLifecycle(t)
  BY <1>0, <1>1, <1>5 DEF LockDimForLifecycle, HoldDim
<1>6. CASE CheckInUse(t)
  BY <1>0, <1>1, <1>6 DEF CheckInUse
<1>7. CASE LockReferencing(t)
  BY <1>7 DEF LockReferencing
<1>8. CASE ReadJoined(t)
  BY <1>0, <1>8 DEF ReadJoined
<1>9. CASE ReadTarget(t)
  BY <1>0, <1>1, <1>9 DEF ReadTarget
<1>10. CASE LockReference(t)
  BY <1>1, <1>10 DEF LockReference
<1>11. CASE InsertInline(t)
  BY <1>1, <1>11 DEF InsertInline
<1>12. CASE LockTarget(t)
  <2>1. Refusal(t, mc[op[t].m]) # "committed"
    BY DEF Refusal
  <2> QED BY <1>0, <1>1, <1>12, <2>1 DEF LockTarget
<1> QED BY <1>2, <1>3, <1>4, <1>5, <1>6, <1>7, <1>8, <1>9, <1>10, <1>11, <1>12
        DEF Step, DimStep, McStep

\* A step changes the state of one request only.
LEMMA OneMoves ==
    ASSUME SessionInv, NEW t \in Txs, NEW u \in Txs, t # u,
           Begin(u) \/ Step(u) \/ DeadlockVictim(u) \/ ConnectionLost(u)
    PROVE  pc'[t] = pc[t]
<1>0. pc \in [Txs -> {"idle"} \cup Running \cup Outcomes]
  BY DEF SessionInv, TypeOK
<1>1. \A r : Abort(u, r) \/ End(u, r) => pc'[t] = pc[t]
  BY <1>0 DEF Abort, End
<1>2. \A o, r : Request(u, o, r) => pc'[t] = pc[t]
  BY <1>0 DEF Request
<1>3. \A r : HoldDim(u, r) => pc'[t] = pc[t]
  BY <1>0 DEF HoldDim
<1>4. CASE Begin(u)
  BY <1>2, <1>4 DEF Begin, RequestCreateDim, RequestUpdateDim, RequestDimLifecycle,
     RequestCreateMc, RequestUpdateMc, RequestMcLifecycle
<1>5. CASE DeadlockVictim(u) \/ ConnectionLost(u)
  BY <1>1, <1>5 DEF DeadlockVictim, ConnectionLost
<1>6. CASE DimStep(u)
  BY <1>0, <1>1, <1>3, <1>6 DEF DimStep, CreateDim, LockDimForUpdate,
     LockDimForLifecycle, CheckInUse, LockReferencing, ReadJoined, CommitDim
<1>7. CASE McStep(u)
  BY <1>0, <1>1, <1>7 DEF McStep, ReadTarget, LockReference, InsertInline, LockTarget,
     CommitTarget, CommitCreateMc, WriteMc
<1> QED BY <1>4, <1>5, <1>6, <1>7 DEF Step

\* No lost update: a conditional request commits only while the version or
\* the aggregate ETag its client sent describes the committed catalog.
THEOREM CommitsStayConditional == Spec => CommitsAreConditional
<1>1. ASSUME SessionInv, Next, NEW t \in Txs, Commits(t)
      PROVE  /\ op[t].kind \in {"UpdateDim", "DeleteDim", "RestoreDim"} =>
                    dim[op[t].d].version = op[t].version
             /\ op[t].kind \in TargetKinds => Etag(mc[op[t].m], dim) = op[t].etag
  <2>1. PICK u \in Txs : Begin(u) \/ Step(u) \/ DeadlockVictim(u) \/ ConnectionLost(u)
    BY <1>1 DEF Next
  <2>2. u = t
    BY <1>1, <2>1, OneMoves DEF Commits
  <2>3. pc \in [Txs -> {"idle"} \cup Running \cup Outcomes]
    BY <1>1 DEF SessionInv, TypeOK
  <2>4. ~(DeadlockVictim(t) \/ ConnectionLost(t))
    BY <1>1, <2>3 DEF DeadlockVictim, ConnectionLost, Abort, End, Commits
  <2>5. ~Begin(t)
    <3>1. \A o : ~Request(t, o, "begin") /\ ~Request(t, o, "resolve")
      BY <1>1, <2>3 DEF Request, Commits
    <3> QED BY <3>1 DEF Begin, RequestCreateDim, RequestUpdateDim,
            RequestDimLifecycle, RequestCreateMc, RequestUpdateMc, RequestMcLifecycle
  <2>6. pc[t] = "flush" \/ op[t].kind \in {"CreateDim", "CreateMc"}
    BY <1>1, <2>1, <2>2, <2>4, <2>5, CommitStep DEF Commits
  <2>7. SessionOK(t)
    BY <1>1 DEF SessionInv
  <2> QED BY <2>6, <2>7 DEF SessionOK, DimWork, Targeted, DimKinds, TargetKinds
<1>2. SessionInv /\ [Next]_vars =>
        [\A t \in Txs : Commits(t) =>
            /\ op[t].kind \in {"UpdateDim", "DeleteDim", "RestoreDim"} =>
                    dim[op[t].d].version = op[t].version
            /\ op[t].kind \in TargetKinds => Etag(mc[op[t].m], dim) = op[t].etag]_vars
  BY <1>1
<1> QED BY <1>2, SessionsAreSound, PTL DEF Spec, CommitsAreConditional

-----------------------------------------------------------------------------
(***************************************************************************)
(* ETags and fan-outs.                                                     *)
(***************************************************************************)

\* A MasterCode whose representation changes gets another ETag: every commit
\* counts up the version of each stored row it touches.
THEOREM EtagsTrackRepresentations == Spec => EtagTracksRepresentation
<1>1. ASSUME SessionInv, [Next]_vars, NEW m \in Mcs, Exists(mc[m]),
             Etag(mc[m], dim)' = Etag(mc[m], dim)
      PROVE  Representation(m)' = Representation(m)
  <2>1. CatalogOK(dim, mc) /\ [AtomicNext]_db
    BY <1>1, NextKeeps DEF SessionInv
  <2>2. mc[m] \in McRow /\ mc[m].refs \in Refs /\ mc[m].version \in Nat
    BY <1>1, <2>1, StoredMasterCode, McRowShape
  <2>3. mc'[m].version = mc[m].version
    BY <1>1 DEF Etag
  <2>4. mc'[m] = mc[m]
    BY <1>1, <2>1, <2>2, <2>3, AtomicCountsUp
  <2>5. ASSUME NEW s \in Slots, mc[m].refs[s] # None
        PROVE  dim'[mc[m].refs[s]] = dim[mc[m].refs[s]]
    <3>1. PICK d : d = mc[m].refs[s]
      OBVIOUS
    <3>2. d \in Dims /\ Exists(dim[d])
      BY <1>1, <2>1, <2>2, <2>5, <3>1 DEF CatalogOK, Grounded, Refs
    <3>3. dim[d].version \in Nat
      BY <2>1, <3>2, DimRowShape DEF CatalogOK
    <3>4. Etag(mc[m], dim)[2][s] = <<d, dim[d].version>>
      BY <2>5, <3>1 DEF Etag
    <3>5. Etag(mc[m], dim)'[2][s] = <<d, dim'[d].version>>
      BY <2>4, <2>5, <3>1 DEF Etag
    <3>6. dim'[d].version = dim[d].version
      BY <1>1, <3>4, <3>5
    <3> QED BY <2>1, <3>1, <3>2, <3>3, <3>6, AtomicCountsUp
  <2> QED BY <2>4, <2>5 DEF Representation
<1>2. SessionInv /\ [Next]_vars =>
        [\A m \in Mcs : Exists(mc[m]) /\ Representation(m)' # Representation(m) =>
            Etag(mc[m], dim)' # Etag(mc[m], dim)]_vars
  BY <1>1
<1> QED BY <1>2, SessionsAreSound, PTL DEF Spec, EtagTracksRepresentation

\* The rows a code change recomposes conflict with no stored row.
LEMMA FanOutHasNoTwins ==
    ASSUME SessionInv, KeysUnique(dim, mc), NEW t \in Txs, pc[t] = "flush",
           op[t].kind = "UpdateDim", ~DimKeyTaken(dim, op[t].d, ChangedDim(t)),
           NEW m \in lockedMcs[t]
    PROVE  ~McKeyTaken(RecomposedMcs(t), m, RecomposedMcs(t)[m])
<1> DEFINE d == op[t].d
           M == RecomposedMcs(t)
<1>1. PICK D : D = [dim EXCEPT ![d] = ChangedDim(t)]
  OBVIOUS
<1>2. /\ SessionOK(t) /\ CatalogOK(dim, mc) /\ d \in Dims /\ Exists(dim[d])
      /\ seenDim[t][d] = dim[d] /\ dim[d] \in DimRow /\ m \in Mcs
      /\ op[t].code \in Codes \cup {None} /\ op[t].val \in Vals \cup {None}
      /\ UniqueDims(dim) /\ UniqueMcs(mc)
  BY DEF SessionInv, TypeOK, Op, SessionOK, Shape, Running, DimKinds, DimWork, Holds,
     KeysUnique
<1>3. PICK row : row = ChangedDim(t)
  OBVIOUS
<1>4. row \in DimRow /\ row.st = dim[d].st
  BY <1>2, <1>3, ChangeDimRow DEF ChangedDim
<1>5. /\ D \in [Dims -> DimRow] /\ D[d] = row
      /\ \A e \in Dims : e # d => D[e] = dim[e]
  BY <1>1, <1>2, <1>3, <1>4 DEF CatalogOK
<1>6. UniqueDims(D)
  BY <1>2, <1>3, <1>5 DEF UniqueDims, DimKeyTaken, CodeTaken, ValueTaken
<1>7. M = [n \in Mcs |-> IF References(mc[n], d) THEN Recompose(mc[n], D) ELSE mc[n]]
  BY <1>1, FanOutIsCurrent
<1>8. References(mc[m], d)
  BY <1>2 DEF SessionOK, FanOut
<1> HIDE DEF M, d
<1>9. ASSUME NEW n \in Mcs
      PROVE  M[n].st = mc[n].st /\ M[n].refs = mc[n].refs
  BY <1>7, RecomposeKeeps
<1>10. ASSUME NEW n \in Mcs, Exists(mc[n])
       PROVE  /\ mc[n].refs \in Refs
              /\ \A e \in RefDims(mc[n].refs) : Exists(D[e])
              /\ M[n].code = Compose(mc[n].refs, D)
  <2>1. /\ mc[n].refs \in Refs /\ mc[n].code = Compose(mc[n].refs, dim)
        /\ \A e \in RefDims(mc[n].refs) : e \in Dims /\ Exists(dim[e])
    BY <1>2, <1>10, StoredMasterCode
  <2>2. \A e \in RefDims(mc[n].refs) : Exists(D[e])
    BY <1>2, <1>4, <1>5, <2>1 DEF Exists
  <2>3. CASE References(mc[n], d)
    BY <1>7, <2>1, <2>2, <2>3 DEF Recompose, NextMasterCode
  <2>4. CASE ~References(mc[n], d)
    <3>1. \A e \in RefDims(mc[n].refs) : D[e] = dim[e]
      BY <1>5, <1>10, <2>1, <2>4 DEF References
    <3> QED BY <1>7, <2>1, <2>2, <2>4, <3>1, ComposeSeen
  <2> QED BY <2>3, <2>4
<1>11. SUFFICES ASSUME NEW n \in Mcs \ {m}, Exists(M[n])
                PROVE  M[n].code # M[m].code /\ M[n].refs # M[m].refs
  BY DEF McKeyTaken, M
<1>12. Exists(mc[n]) /\ Exists(mc[m])
  BY <1>2, <1>8, <1>9, <1>11 DEF References, Exists
<1>13. mc[n].refs # mc[m].refs
  BY <1>2, <1>12 DEF UniqueMcs
<1>14. Compose(mc[n].refs, D) # Compose(mc[m].refs, D)
  BY <1>2, <1>5, <1>6, <1>10, <1>12, <1>13, ComposedCodesDiffer
<1> QED BY <1>2, <1>9, <1>10, <1>12, <1>13, <1>14

\* Only a MasterCode statement or the fan-out reports a MasterCode conflict.
LEMMA ConflictStep ==
    ASSUME SessionInv, NEW t \in Txs, Step(t), pc'[t] = "mc_conflict"
    PROVE  CommitDim(t) \/ op[t].kind \in McKinds
<1>0. pc \in [Txs -> {"idle"} \cup Running \cup Outcomes]
  BY DEF SessionInv, TypeOK
<1>1. \A r : Abort(t, r) \/ End(t, r) => pc'[t] = r
  BY <1>0 DEF Abort, End
<1>2. CASE CreateDim(t)
  BY <1>1, <1>2 DEF CreateDim
<1>3. CASE CommitTarget(t) \/ CommitCreateMc(t) \/ LockTarget(t) \/ ReadTarget(t)
  BY <1>3 DEF CommitTarget, CommitCreateMc, LockTarget, ReadTarget, McKinds
<1>4. CASE LockDimForUpdate(t)
  BY <1>0, <1>1, <1>4 DEF LockDimForUpdate, HoldDim
<1>5. CASE LockDimForLifecycle(t)
  BY <1>0, <1>1, <1>5 DEF LockDimForLifecycle, HoldDim
<1>6. CASE CheckInUse(t)
  BY <1>0, <1>1, <1>6 DEF CheckInUse
<1>7. CASE LockReferencing(t)
  BY <1>7 DEF LockReferencing
<1>8. CASE ReadJoined(t)
  BY <1>0, <1>8 DEF ReadJoined
<1>9. CASE LockReference(t)
  BY <1>1, <1>9 DEF LockReference
<1>10. CASE InsertInline(t)
  BY <1>1, <1>10 DEF InsertInline
<1> QED BY <1>2, <1>3, <1>4, <1>5, <1>6, <1>7, <1>8, <1>9, <1>10
        DEF Step, DimStep, McStep

\* A statement leaves the requests alone; a new request is not answered yet.
LEMMA RequestsStay ==
    ASSUME SessionInv, NEW t \in Txs, NEW u \in Txs,
           Begin(u) \/ Step(u) \/ DeadlockVictim(u) \/ ConnectionLost(u)
    PROVE  op'[t] = op[t] \/ pc'[t] \in {"begin", "resolve"}
<1>0. /\ pc \in [Txs -> {"idle"} \cup Running \cup Outcomes]
      /\ op \in [Txs -> Op]
  BY DEF SessionInv, TypeOK
<1>1. \A r : Abort(u, r) \/ End(u, r) => op' = op
  BY DEF Abort, End
<1>2. \A o : Request(u, o, "begin") \/ Request(u, o, "resolve") =>
        op'[t] = op[t] \/ pc'[t] \in {"begin", "resolve"}
  BY <1>0 DEF Request
<1>3. \A r : HoldDim(u, r) => op' = op
  BY DEF HoldDim
<1>4. CASE Begin(u)
  BY <1>2, <1>4 DEF Begin, RequestCreateDim, RequestUpdateDim, RequestDimLifecycle,
     RequestCreateMc, RequestUpdateMc, RequestMcLifecycle
<1>5. CASE DeadlockVictim(u) \/ ConnectionLost(u)
  BY <1>1, <1>5 DEF DeadlockVictim, ConnectionLost
<1>6. CASE DimStep(u)
  BY <1>1, <1>3, <1>6 DEF DimStep, CreateDim, LockDimForUpdate,
     LockDimForLifecycle, CheckInUse, LockReferencing, ReadJoined, CommitDim
<1>7. CASE McStep(u)
  BY <1>1, <1>7 DEF McStep, ReadTarget, LockReference, InsertInline, LockTarget,
     CommitTarget, CommitCreateMc, WriteMc
<1> QED BY <1>4, <1>5, <1>6, <1>7 DEF Step

\* Dimension keys and reference sets stay unique, deleted rows included: the
\* constraints the recomposition relies on.
THEOREM KeysStayUnique == Spec => []KeysUnique(dim, mc)
<1>1. Init => KeysUnique(dim, mc)
  BY KeysInitially DEF Init
<1>2. SessionInv /\ KeysUnique(dim, mc) /\ [Next]_vars => KeysUnique(dim, mc)'
  BY NextKeeps, AtomicKeepsKeys DEF SessionInv
<1> QED BY <1>1, <1>2, SessionsAreSound, PTL DEF Spec

\* A code change never fails on a MasterCode key: whatever runs concurrently,
\* the codes its fan-out recomposes are unique.
THEOREM RecompositionsNeverConflict == Spec => []RecompositionNeverConflicts
<1>1. Init => RecompositionNeverConflicts
  BY DEF Init, RecompositionNeverConflicts
<1>2. ASSUME SessionInv, KeysUnique(dim, mc), RecompositionNeverConflicts, Next
      PROVE  RecompositionNeverConflicts'
  <2>1. PICK u \in Txs : Begin(u) \/ Step(u) \/ DeadlockVictim(u) \/ ConnectionLost(u)
    BY <1>2 DEF Next
  <2>2. SUFFICES ASSUME NEW t \in Txs, op'[t].kind = "UpdateDim", pc'[t] = "mc_conflict"
                 PROVE  FALSE
    BY DEF RecompositionNeverConflicts
  <2>3. op'[t] = op[t]
    BY <1>2, <2>1, <2>2, RequestsStay
  <2>4. t = u
    BY <1>2, <2>1, <2>2, <2>3, OneMoves DEF RecompositionNeverConflicts
  <2>5. pc \in [Txs -> {"idle"} \cup Running \cup Outcomes]
    BY <1>2 DEF SessionInv, TypeOK
  <2>6. ~(DeadlockVictim(t) \/ ConnectionLost(t))
    BY <2>2, <2>5 DEF DeadlockVictim, ConnectionLost, Abort, End
  <2>7. ~Begin(t)
    <3>1. \A o : ~Request(t, o, "begin") /\ ~Request(t, o, "resolve")
      BY <2>2, <2>5 DEF Request
    <3> QED BY <3>1 DEF Begin, RequestCreateDim, RequestUpdateDim,
            RequestDimLifecycle, RequestCreateMc, RequestUpdateMc, RequestMcLifecycle
  <2>8. CommitDim(t)
    <3>1. op[t].kind \notin McKinds
      BY <2>2, <2>3 DEF McKinds, TargetKinds
    <3> QED BY <1>2, <2>1, <2>2, <2>4, <2>6, <2>7, <3>1, ConflictStep
  <2>9. /\ pc[t] = "flush" /\ op[t].kind = "UpdateDim"
        /\ ~DimKeyTaken(dim, op[t].d, ChangedDim(t))
        /\ \E m \in lockedMcs[t] : McKeyTaken(RecomposedMcs(t), m, RecomposedMcs(t)[m])
    BY <2>2, <2>3, <2>5, <2>8 DEF CommitDim, Abort, End
  <2> QED BY <1>2, <2>9, FanOutHasNoTwins
<1>3. ASSUME RecompositionNeverConflicts, UNCHANGED vars
      PROVE  RecompositionNeverConflicts'
  BY <1>3 DEF RecompositionNeverConflicts, vars
<1>4. SessionInv /\ KeysUnique(dim, mc) /\ RecompositionNeverConflicts /\ [Next]_vars
        => RecompositionNeverConflicts'
  BY <1>2, <1>3
<1> QED BY <1>1, <1>4, SessionsAreSound, KeysStayUnique, PTL DEF Spec

-----------------------------------------------------------------------------
(***************************************************************************)
(* The lock order.                                                         *)
(***************************************************************************)

\* The MasterCodes a fan-out still has to lock come after those it holds,
\* and so do the references a MasterCode statement still has to lock: a row
\* another transaction commits meanwhile never slips in before them.
FanOutOrder(t) ==
    pc[t] = "fanout" => \A m \in lockedMcs[t], n \in ToLockMcs(t) : m < n
ShareOrder(t) ==
    pc[t] = "resolve" =>
        \A d \in sharedDims[t], e \in Unresolved(t) \ op[t].inline : d < e
OrderInv == \A t \in Txs : FanOutOrder(t) /\ ShareOrder(t)

\* Whatever a transaction does, it does to itself.
LEMMA StepIsOwn ==
    ASSUME SessionInv, NEW t \in Txs,
           Begin(t) \/ Step(t) \/ DeadlockVictim(t) \/ ConnectionLost(t)
    PROVE  OthersUnchanged(t)
<1>0. TypeOK
  BY DEF SessionInv
<1>1. \A r : Abort(t, r) \/ End(t, r) => OthersUnchanged(t)
  BY <1>0 DEF Abort, End, OthersUnchanged, TypeOK
<1>2. \A o, r : Request(t, o, r) => OthersUnchanged(t)
  BY <1>0 DEF Request, session, locks, OthersUnchanged, TypeOK
<1>3. \A r : HoldDim(t, r) => OthersUnchanged(t)
  BY <1>0 DEF HoldDim, OthersUnchanged, TypeOK
<1>4. CASE Begin(t)
  BY <1>2, <1>4 DEF Begin, RequestCreateDim, RequestUpdateDim, RequestDimLifecycle,
     RequestCreateMc, RequestUpdateMc, RequestMcLifecycle
<1>5. CASE DeadlockVictim(t) \/ ConnectionLost(t)
  BY <1>1, <1>5 DEF DeadlockVictim, ConnectionLost
<1>6. CASE CreateDim(t) \/ CommitDim(t) \/ CommitTarget(t) \/ CommitCreateMc(t)
  BY <1>1, <1>6 DEF CreateDim, CommitDim, CommitTarget, CommitCreateMc, WriteMc
<1>7. CASE LockDimForUpdate(t) \/ LockDimForLifecycle(t)
  BY <1>1, <1>3, <1>7 DEF LockDimForUpdate, LockDimForLifecycle
<1>8. CASE CheckInUse(t)
  BY <1>0, <1>1, <1>8 DEF CheckInUse, session, locks, OthersUnchanged, TypeOK
<1>9. CASE LockReferencing(t)
  BY <1>0, <1>9 DEF LockReferencing, session, OthersUnchanged, TypeOK
<1>10. CASE ReadJoined(t)
  BY <1>0, <1>10 DEF ReadJoined, locks, OthersUnchanged, TypeOK
<1>11. CASE ReadTarget(t)
  BY <1>0, <1>1, <1>11 DEF ReadTarget, locks, OthersUnchanged, TypeOK
<1>12. CASE LockReference(t)
  BY <1>0, <1>1, <1>12 DEF LockReference, locks, OthersUnchanged, TypeOK
<1>13. CASE InsertInline(t)
  BY <1>0, <1>1, <1>13 DEF InsertInline, locks, OthersUnchanged, TypeOK
<1>14. CASE LockTarget(t)
  BY <1>0, <1>1, <1>14 DEF LockTarget, OthersUnchanged, TypeOK
<1> QED BY <1>4, <1>5, <1>6, <1>7, <1>8, <1>9, <1>10, <1>11, <1>12, <1>13, <1>14
        DEF Step, DimStep, McStep

\* Only commits write, and they write what they hold.
LEMMA StepIsProtected ==
    ASSUME SessionInv, NEW t \in Txs,
           Begin(t) \/ Step(t) \/ DeadlockVictim(t) \/ ConnectionLost(t)
    PROVE  Protected(t)
<1>1. \A r : Abort(t, r) => Protected(t)
  BY UnchangedProtects DEF Abort
<1>2. CASE CreateDim(t) \/ CommitDim(t) \/ CommitTarget(t) \/ CommitCreateMc(t)
  BY <1>2, CreateDimKeeps, CommitDimKeeps, CommitTargetKeeps, CommitCreateMcKeeps
<1>3. CASE Begin(t)
  BY <1>3, BeginKeeps, UnchangedProtects
<1>4. CASE DeadlockVictim(t) \/ ConnectionLost(t)
  BY <1>1, <1>4 DEF DeadlockVictim, ConnectionLost
<1>5. CASE LockDimForUpdate(t) \/ LockDimForLifecycle(t)
  BY <1>1, <1>5, UnchangedProtects DEF LockDimForUpdate, LockDimForLifecycle, HoldDim
<1>6. CASE CheckInUse(t) \/ LockReferencing(t) \/ ReadJoined(t)
  BY <1>1, <1>6, UnchangedProtects DEF CheckInUse, LockReferencing, ReadJoined
<1>7. CASE ReadTarget(t) \/ LockReference(t) \/ InsertInline(t) \/ LockTarget(t)
  BY <1>1, <1>7, UnchangedProtects DEF ReadTarget, LockReference, InsertInline, LockTarget
<1> QED BY <1>2, <1>3, <1>4, <1>5, <1>6, <1>7 DEF Step, DimStep, McStep

\* A step of another transaction adds nothing to what is left to lock.
LEMMA OthersKeepOrder ==
    ASSUME SessionInv, NEW t \in Txs, NEW u \in Txs, t # u,
           Protected(t), OthersUnchanged(t), FanOutOrder(u), ShareOrder(u)
    PROVE  FanOutOrder(u)' /\ ShareOrder(u)'
<1>1. /\ pc'[u] = pc[u] /\ op'[u] = op[u] /\ seenMc'[u] = seenMc[u]
      /\ fresh'[u] = fresh[u] /\ bad'[u] = bad[u]
      /\ sharedDims'[u] = sharedDims[u] /\ lockedMcs'[u] = lockedMcs[u]
  BY DEF OthersUnchanged
<1>2. Unresolved(u)' = Unresolved(u)
  BY <1>1 DEF Unresolved, CurrentRefs, SelectedRefs
<1>3. ASSUME pc[u] = "fanout" PROVE ToLockMcs(u)' \subseteq ToLockMcs(u)
  <2>1. op[u].d \in lockedDims[u]
    BY <1>3 DEF SessionInv, SessionOK, Shape, Running, DimWork, DimKinds
  <2>2. \A m \in Mcs : References(mc'[m], op[u].d) => References(mc[m], op[u].d)
    BY <2>1, HeldRows
  <2> QED BY <1>1, <2>2 DEF ToLockMcs
<1>4. FanOutOrder(u)'
  BY <1>1, <1>3 DEF FanOutOrder
<1> QED BY <1>1, <1>2, <1>4 DEF ShareOrder

\* Among existing references, the order of the statements is that of the ids.
LEMMA NextComesFirst ==
    ASSUME SessionInv, NEW t \in Txs, NEW d \in Dims \ op[t].inline, IsNextDim(t, d),
           NEW e \in Unresolved(t) \ op[t].inline, e \in Dims, e # d
    PROVE  d < e
<1>1. Before(t, d, e)
  BY DEF IsNextDim
<1>2. SlotOf[d] \in Nat /\ SlotOf[e] \in Nat
  BY SlotAssumption DEF Slots
<1> QED BY <1>1, <1>2, IdAssumption DEF Before

\* References left to lock are Dimensions.
LEMMA UnresolvedDims ==
    ASSUME SessionInv, NEW t \in Txs, pc[t] = "resolve"
    PROVE  Unresolved(t) \subseteq Dims
<1>1. SelectedRefs(t) \subseteq Dims
  BY DEF SessionInv, TypeOK, Op, Selections, SelectedRefs
<1>2. CurrentRefs(t) \subseteq Dims
  <2>1. op[t].kind # "CreateMc" => op[t].m \in Mcs /\ seenMc[t][op[t].m] \in McRow
    BY DEF SessionInv, TypeOK, SessionOK, Shape, Running, McKinds
  <2>2. \A row \in McRow : RefDims(row.refs) \subseteq Dims
    BY DEF McRow, NoMc, Refs, RefDims
  <2> QED BY <2>1, <2>2 DEF CurrentRefs
<1> QED BY <1>1, <1>2 DEF Unresolved

\* A transaction locks in order.
LEMMA OwnKeepsOrder ==
    ASSUME SessionInv, NEW t \in Txs, FanOutOrder(t), ShareOrder(t),
           Begin(t) \/ Step(t) \/ DeadlockVictim(t) \/ ConnectionLost(t)
    PROVE  FanOutOrder(t)' /\ ShareOrder(t)'
<1>0. TypeOK /\ SessionOK(t)
  BY DEF SessionInv
<1>1. ASSUME pc'[t] \notin {"fanout", "resolve"} PROVE FanOutOrder(t)' /\ ShareOrder(t)'
  BY <1>1 DEF FanOutOrder, ShareOrder
<1>2. \A r : r \notin {"fanout", "resolve"} /\ (Abort(t, r) \/ End(t, r)) =>
        FanOutOrder(t)' /\ ShareOrder(t)'
  BY <1>0, <1>1 DEF Abort, End, TypeOK
<1>3. CASE Begin(t)
  <2>1. sharedDims[t] = {}
    BY <1>0, <1>3 DEF Begin, SessionOK, Holds, Running
  <2>2. \A o, r : Request(t, o, r) /\ r # "fanout" => FanOutOrder(t)' /\ ShareOrder(t)'
    BY <1>0, <2>1 DEF Request, locks, TypeOK, FanOutOrder, ShareOrder
  <2> QED BY <1>3, <2>2 DEF Begin, RequestCreateDim, RequestUpdateDim,
          RequestDimLifecycle, RequestCreateMc, RequestUpdateMc, RequestMcLifecycle
<1>4. CASE DeadlockVictim(t) \/ ConnectionLost(t)
  BY <1>2, <1>4 DEF DeadlockVictim, ConnectionLost
<1>5. CASE CreateDim(t) \/ CommitDim(t) \/ CommitTarget(t) \/ CommitCreateMc(t)
  BY <1>2, <1>5 DEF CreateDim, CommitDim, CommitTarget, CommitCreateMc, WriteMc
<1>6. CASE LockDimForUpdate(t)
  <2>1. lockedMcs[t] = {}
    BY <1>0, <1>6 DEF LockDimForUpdate, SessionOK, Holds
  <2>2. \A r : HoldDim(t, r) /\ r # "resolve" => FanOutOrder(t)' /\ ShareOrder(t)'
    BY <1>0, <2>1 DEF HoldDim, TypeOK, FanOutOrder, ShareOrder
  <2> QED BY <1>2, <1>6, <2>2 DEF LockDimForUpdate
<1>7. CASE LockDimForLifecycle(t)
  <2>1. \A r : HoldDim(t, r) => pc'[t] = r
    BY <1>0 DEF HoldDim, TypeOK
  <2> QED BY <1>1, <1>2, <1>7, <2>1 DEF LockDimForLifecycle
<1>8. CASE CheckInUse(t)
  BY <1>0, <1>1, <1>2, <1>8 DEF CheckInUse, TypeOK
<1>9. CASE LockReferencing(t)
  <2>1. PICK m \in Mcs : IsNextMc(t, m) /\ lockedMcs' = [lockedMcs EXCEPT ![t] = @ \cup {m}]
    BY <1>9 DEF LockReferencing
  <2>2. pc[t] = "fanout" /\ pc' = pc /\ op' = op /\ mc' = mc
    BY <1>9 DEF LockReferencing, db
  <2>3. lockedMcs'[t] = lockedMcs[t] \cup {m}
    BY <1>0, <2>1 DEF TypeOK
  <2>4. ToLockMcs(t)' = ToLockMcs(t) \ {m}
    BY <2>2, <2>3 DEF ToLockMcs
  <2>5. \A n \in ToLockMcs(t) \ {m} : m < n
    BY <2>1, IdAssumption DEF IsNextMc, ToLockMcs
  <2> QED BY <2>2, <2>3, <2>4, <2>5 DEF FanOutOrder, ShareOrder
<1>10. CASE ReadJoined(t)
  BY <1>0, <1>1, <1>10 DEF ReadJoined, TypeOK
<1>11. CASE ReadTarget(t)
  <2>1. sharedDims[t] = {}
    BY <1>0, <1>11 DEF ReadTarget, SessionOK, Holds
  <2>2. CASE pc' = [pc EXCEPT ![t] = "resolve"] /\ UNCHANGED locks
    BY <1>0, <2>1, <2>2 DEF locks, TypeOK, FanOutOrder, ShareOrder
  <2> QED BY <1>2, <1>11, <2>2 DEF ReadTarget
<1>12. CASE LockReference(t)
  <2>1. PICK d \in Dims \ op[t].inline :
            /\ IsNextDim(t, d)
            /\ \/ /\ sharedDims' = [sharedDims EXCEPT ![t] = @ \cup {d}]
                  /\ bad' = [bad EXCEPT ![t] = IF Unusable(t, d) THEN @ \cup {d} ELSE @]
                  /\ UNCHANGED <<pc, op, seenMc, fresh>>
               \/ Abort(t, "precondition_failed")
               \/ /\ bad' = [bad EXCEPT ![t] = @ \cup {d}]
                  /\ UNCHANGED <<pc, op, seenMc, fresh, sharedDims>>
    BY <1>12 DEF LockReference, locks
  <2>2. pc[t] = "resolve" /\ Unresolved(t) \subseteq Dims
    BY <1>12, UnresolvedDims DEF LockReference
  <2>3. \A e \in Unresolved(t) \ op[t].inline : e # d => d < e
    BY <2>1, <2>2, NextComesFirst
  <2>4. ASSUME pc'[t] = pc[t], op'[t] = op[t], seenMc'[t] = seenMc[t], fresh'[t] = fresh[t],
               bad[t] \subseteq bad'[t],
               sharedDims'[t] \in {sharedDims[t], sharedDims[t] \cup {d}},
               sharedDims'[t] = sharedDims[t] \cup {d} \/ d \in bad'[t]
        PROVE  FanOutOrder(t)' /\ ShareOrder(t)'
    <3>1. Unresolved(t)' \subseteq Unresolved(t) \ {d}
      BY <2>4 DEF Unresolved, CurrentRefs, SelectedRefs
    <3> QED BY <2>2, <2>3, <2>4, <3>1 DEF FanOutOrder, ShareOrder
  <2>5. CASE Abort(t, "precondition_failed")
    BY <1>2, <2>5
  <2>6. CASE /\ sharedDims' = [sharedDims EXCEPT ![t] = @ \cup {d}]
             /\ bad' = [bad EXCEPT ![t] = IF Unusable(t, d) THEN @ \cup {d} ELSE @]
             /\ UNCHANGED <<pc, op, seenMc, fresh>>
    BY <1>0, <2>4, <2>6 DEF TypeOK
  <2>7. CASE /\ bad' = [bad EXCEPT ![t] = @ \cup {d}]
             /\ UNCHANGED <<pc, op, seenMc, fresh, sharedDims>>
    BY <1>0, <2>4, <2>7 DEF TypeOK
  <2> QED BY <2>1, <2>5, <2>6, <2>7
<1>13. CASE InsertInline(t)
  <2>1. pc[t] = "resolve"
    BY <1>13 DEF InsertInline
  <2>2. ASSUME NEW d \in op[t].inline, fresh' = [fresh EXCEPT ![t] = @ \cup {d}],
               UNCHANGED <<pc, op, seenMc, bad, sharedDims>>
        PROVE  FanOutOrder(t)' /\ ShareOrder(t)'
    <3>1. fresh'[t] = fresh[t] \cup {d}
      BY <1>0, <2>2 DEF TypeOK
    <3>2. Unresolved(t)' \subseteq Unresolved(t)
      BY <2>2, <3>1 DEF Unresolved, CurrentRefs, SelectedRefs
    <3> QED BY <2>1, <2>2, <3>2 DEF FanOutOrder, ShareOrder
  <2> QED BY <1>2, <1>13, <2>2 DEF InsertInline, locks
<1>14. CASE LockTarget(t)
  <2>1. Refusal(t, mc[op[t].m]) \notin {"fanout", "resolve"}
    BY DEF Refusal
  <2>2. \/ pc' = [pc EXCEPT ![t] = "flush"]
        \/ Abort(t, "invalid_reference") \/ Abort(t, "precondition_failed")
        \/ Abort(t, Refusal(t, mc[op[t].m]))
    BY <1>14, Zenon DEF LockTarget
  <2>3. CASE pc' = [pc EXCEPT ![t] = "flush"]
    BY <1>0, <1>1, <2>3 DEF TypeOK
  <2> QED BY <1>2, <2>1, <2>2, <2>3
<1> QED BY <1>3, <1>4, <1>5, <1>6, <1>7, <1>8, <1>9, <1>10, <1>11, <1>12, <1>13, <1>14
        DEF Step, DimStep, McStep

\* The order of the locks is kept by every step.
LEMMA OrderKeeps ==
    ASSUME SessionInv, OrderInv, [Next]_vars
    PROVE  OrderInv'
<1>1. CASE UNCHANGED vars
  BY <1>1 DEF OrderInv, FanOutOrder, ShareOrder, ToLockMcs, Unresolved, CurrentRefs,
     SelectedRefs, vars, db, session, locks
<1>2. ASSUME NEW t \in Txs,
             Begin(t) \/ Step(t) \/ DeadlockVictim(t) \/ ConnectionLost(t)
      PROVE  OrderInv'
  <2>1. Protected(t) /\ OthersUnchanged(t)
    BY <1>2, StepIsOwn, StepIsProtected
  <2>2. ASSUME NEW u \in Txs PROVE FanOutOrder(u)' /\ ShareOrder(u)'
    <3>1. CASE u = t
      BY <1>2, <3>1, OwnKeepsOrder DEF OrderInv
    <3>2. CASE u # t
      BY <2>1, <3>2, OthersKeepOrder DEF OrderInv
    <3> QED BY <3>1, <3>2
  <2> QED BY <2>2 DEF OrderInv
<1> QED BY <1>1, <1>2 DEF Next

\* Rows are locked in one order: Dimensions by slot and id, MasterCodes by
\* id, also while other transactions commit between two of the locks.
THEOREM LocksAreOrdered == Spec => []OrderInv
<1>1. Init => OrderInv
  BY DEF Init, OrderInv, FanOutOrder, ShareOrder
<1>2. SessionInv /\ OrderInv /\ [Next]_vars => OrderInv'
  BY OrderKeeps
<1> QED BY <1>1, <1>2, SessionsAreSound, PTL DEF Spec

\* The rows the next statement of t locks: Dimensions, or MasterCodes.
WantsDims(t) ==
    {d \in Dims : \/ pc[t] = "begin" /\ op[t].kind \in DimKinds /\ d = op[t].d
                  \/ pc[t] = "resolve" /\ d \notin op[t].inline /\ IsNextDim(t, d)}
WantsMcs(t) ==
    {m \in Mcs : \/ pc[t] = "fanout" /\ IsNextMc(t, m)
                 \/ pc[t] = "resolve" /\ Unresolved(t) = {}}

\* Whoever t waits for holds a row that t's next statement locks.
LEMMA HoldersHold ==
    ASSUME SessionInv, NEW t \in Txs, NEW u \in RowHolders(t)
    PROVE  /\ u \in Txs
           /\ \/ \E d \in WantsDims(t) : d \in lockedDims[u] \cup sharedDims[u]
              \/ \E m \in WantsMcs(t) : m \in lockedMcs[u]
<1>1. SessionOK(t)
  BY DEF SessionInv
<1>2. CASE pc[t] = "begin"
  <2>1. op[t].kind \in DimKinds /\ u \in UpdateBlockers(t, op[t].d)
    BY <1>2 DEF RowHolders, DimKinds
  <2>2. op[t].d \in Dims
    BY <1>1, <1>2, <2>1 DEF SessionOK, Shape, Running
  <2> QED BY <1>2, <2>1, <2>2 DEF UpdateBlockers, WantsDims
<1>3. CASE pc[t] = "fanout"
  <2>1. PICK m \in Mcs : IsNextMc(t, m) /\ u \in McBlockers(t, m)
    BY <1>3 DEF RowHolders
  <2> QED BY <1>3, <2>1 DEF McBlockers, WantsMcs
<1>4. CASE pc[t] = "resolve" /\ Unresolved(t) # {}
  <2>1. PICK d \in Dims \ op[t].inline : IsNextDim(t, d) /\ u \in ShareBlockers(t, d)
    BY <1>4 DEF RowHolders
  <2> QED BY <1>4, <2>1 DEF ShareBlockers, WantsDims
<1>5. CASE pc[t] = "resolve" /\ Unresolved(t) = {}
  <2>1. PICK m : u \in McBlockers(t, m) /\ (m \in Twins(t) \/ m = op[t].m)
    BY <1>5 DEF RowHolders
  <2>2. m \in lockedMcs[u] /\ u \in Txs
    BY <2>1 DEF McBlockers
  <2>3. m \in Mcs
    BY <2>2 DEF SessionInv, TypeOK
  <2> QED BY <1>5, <2>2, <2>3 DEF WantsMcs
<1>6. CASE pc[t] \notin {"begin", "fanout", "resolve"}
  BY <1>6 DEF RowHolders
<1> QED BY <1>2, <1>3, <1>4, <1>5, <1>6

\* What a transaction holds comes before what it wants.
LEMMA HeldBeforeWanted ==
    ASSUME SessionInv, OrderInv, NEW t \in Txs
    PROVE  /\ \A d \in lockedDims[t] \cup sharedDims[t], e \in WantsDims(t) : d < e
           /\ \A m \in lockedMcs[t], n \in WantsMcs(t) : m < n
           /\ lockedMcs[t] # {} => WantsDims(t) = {}
<1>1. SessionOK(t) /\ FanOutOrder(t) /\ ShareOrder(t)
  BY DEF SessionInv, OrderInv
<1>2. CASE pc[t] = "begin"
  BY <1>1, <1>2 DEF SessionOK, Holds, WantsMcs
<1>3. CASE pc[t] = "resolve"
  <2>1. lockedDims[t] = {} /\ lockedMcs[t] = {}
    BY <1>1, <1>3 DEF SessionOK, Shape, Running, Resolving
  <2>2. \A e \in WantsDims(t) : e \in Unresolved(t) \ op[t].inline
    BY <1>3 DEF WantsDims, IsNextDim
  <2> QED BY <1>1, <1>3, <2>1, <2>2 DEF ShareOrder
<1>4. CASE pc[t] = "fanout"
  BY <1>1, <1>4 DEF FanOutOrder, WantsDims, WantsMcs, IsNextMc
<1>5. CASE pc[t] \notin {"begin", "resolve", "fanout"}
  BY <1>5 DEF WantsDims, WantsMcs
<1> QED BY <1>2, <1>3, <1>4, <1>5

\* A statement of a transaction locks one Dimension at a time, and one
\* MasterCode at a time unless it is the first one.
LEMMA OneWanted ==
    ASSUME SessionInv, NEW t \in Txs
    PROVE  /\ \A d, e \in WantsDims(t) : d = e
           /\ lockedMcs[t] # {} => \A m, n \in WantsMcs(t) : m = n
<1>1. ASSUME NEW d \in WantsDims(t), NEW e \in WantsDims(t), d # e PROVE FALSE
  <2>1. CASE pc[t] = "begin"
    BY <1>1, <2>1 DEF WantsDims
  <2>2. CASE pc[t] = "resolve"
    <3>1. /\ d \in Dims \ op[t].inline /\ e \in Dims \ op[t].inline
          /\ IsNextDim(t, d) /\ IsNextDim(t, e)
          /\ d \in Unresolved(t) /\ e \in Unresolved(t)
      BY <2>2 DEF WantsDims, IsNextDim
    <3>2. d < e
      BY <1>1, <3>1, NextComesFirst
    <3>3. e < d
      BY <1>1, <3>1, NextComesFirst
    <3> QED BY <3>1, <3>2, <3>3, IdAssumption
  <2> QED BY <1>1, <2>1, <2>2 DEF WantsDims
<1>2. ASSUME lockedMcs[t] # {}, NEW m \in WantsMcs(t), NEW n \in WantsMcs(t)
      PROVE  m = n
  <2>1. pc[t] # "resolve"
    BY <1>2 DEF SessionInv, SessionOK, Shape, Running, Resolving
  <2>2. m \in Nat /\ n \in Nat /\ m <= n /\ n <= m
    BY <1>2, <2>1, IdAssumption DEF WantsMcs, IsNextMc
  <2> QED BY <2>2
<1> QED BY <1>1, <1>2

\* No cycle of row locks: whoever t waits for, directly or through others,
\* wants rows that come later than the row t wants.
LEMMA OrderIsAcyclic ==
    ASSUME SessionInv, OrderInv, NEW t \in Txs
    PROVE  ~OnCycle([u \in Txs |-> RowHolders(u)], t)
<1> DEFINE waits == [u \in Txs |-> RowHolders(u)]
<1> SUFFICES ~OnCycle(waits, t)
  OBVIOUS
<1>1. ASSUME NEW S \in SUBSET Txs, RowHolders(t) \subseteq S,
             \A u \in S : RowHolders(u) \subseteq S, t \notin S
      PROVE  ~OnCycle(waits, t)
  BY <1>1 DEF OnCycle
<1> HIDE DEF waits
<1>2. ASSUME NEW u \in Txs, NEW v \in RowHolders(u)
      PROVE  /\ v \in Txs
             /\ \/ \E d \in WantsDims(u) : d \in lockedDims[v] \cup sharedDims[v]
                \/ \E m \in WantsMcs(u) : m \in lockedMcs[v]
  BY <1>2, HoldersHold
<1>3. ASSUME NEW u \in Txs
      PROVE  /\ \A d \in lockedDims[u] \cup sharedDims[u], e \in WantsDims(u) : d < e
             /\ \A m \in lockedMcs[u], n \in WantsMcs(u) : m < n
             /\ lockedMcs[u] # {} => WantsDims(u) = {}
  BY <1>3, HeldBeforeWanted
<1>4. \A u \in Txs : WantsDims(u) \subseteq Nat /\ WantsMcs(u) \subseteq Nat
  BY IdAssumption DEF WantsDims, WantsMcs
<1>5. CASE WantsDims(t) # {}
  <2>1. PICK d \in WantsDims(t) : \A e \in WantsDims(t) : e = d
    BY <1>5, OneWanted
  <2>2. WantsMcs(t) = {}
    BY <1>5 DEF WantsDims, WantsMcs, IsNextDim
  <2> DEFINE S == {u \in Txs : \A e \in WantsDims(u) : d < e}
  <2>3. RowHolders(t) \subseteq S
    BY <1>2, <1>3, <2>1, <2>2
  <2>4. ASSUME NEW u \in S, NEW v \in RowHolders(u) PROVE v \in S
    <3>1. CASE \E m \in WantsMcs(u) : m \in lockedMcs[v]
      BY <1>2, <1>3, <2>4, <3>1
    <3>2. CASE \E e \in WantsDims(u) : e \in lockedDims[v] \cup sharedDims[v]
      <4>1. PICK e \in WantsDims(u) : e \in lockedDims[v] \cup sharedDims[v]
        BY <3>2
      <4>2. d < e /\ v \in Txs /\ \A f \in WantsDims(v) : e < f
        BY <1>2, <1>3, <2>4, <4>1
      <4> QED BY <1>4, <2>1, <2>4, <4>1, <4>2
    <3> QED BY <1>2, <2>4, <3>1, <3>2
  <2>5. t \notin S
    BY <1>4, <2>1
  <2> HIDE DEF S
  <2>6. S \in SUBSET Txs
    BY DEF S
  <2> QED BY <1>1, <2>3, <2>4, <2>5, <2>6
<1>6. CASE WantsDims(t) = {} /\ lockedMcs[t] = {}
  <2> DEFINE S == {u \in Txs : WantsDims(u) = {} /\ lockedMcs[u] # {}}
  <2>1. \A u \in Txs : WantsDims(u) = {} => RowHolders(u) \subseteq S
    BY <1>2, <1>3
  <2>2. S \in SUBSET Txs /\ t \notin S /\ \A u \in S : u \in Txs /\ WantsDims(u) = {}
    BY <1>6
  <2> HIDE DEF S
  <2> QED BY <1>1, <1>6, <2>1, <2>2
<1>7. CASE WantsDims(t) = {} /\ lockedMcs[t] # {} /\ WantsMcs(t) = {}
  <2>1. RowHolders(t) \subseteq {}
    BY <1>2, <1>7
  <2> QED BY <1>1, <2>1
<1>8. CASE WantsDims(t) = {} /\ lockedMcs[t] # {} /\ WantsMcs(t) # {}
  <2>1. PICK m \in WantsMcs(t) : \A n \in WantsMcs(t) : n = m
    BY <1>8, OneWanted
  <2> DEFINE S == {u \in Txs : WantsDims(u) = {} /\ \A n \in WantsMcs(u) : m < n}
  <2>2. RowHolders(t) \subseteq S
    BY <1>2, <1>3, <1>8, <2>1
  <2>3. ASSUME NEW u \in S, NEW v \in RowHolders(u) PROVE v \in S
    <3>1. PICK n \in WantsMcs(u) : n \in lockedMcs[v] /\ v \in Txs
      BY <1>2, <2>3
    <3>2. m < n /\ WantsDims(v) = {} /\ \A k \in WantsMcs(v) : n < k
      BY <1>3, <2>3, <3>1
    <3> QED BY <1>4, <2>1, <2>3, <3>1, <3>2
  <2>4. t \notin S
    BY <1>4, <2>1
  <2> HIDE DEF S
  <2>5. S \in SUBSET Txs
    BY DEF S
  <2> QED BY <1>1, <2>2, <2>3, <2>4, <2>5
<1> QED BY <1>5, <1>6, <1>7, <1>8

\* The documented lock order works: no number of concurrent transactions, of
\* whatever kinds, deadlocks on row locks alone.
THEOREM RowLocksStayAcyclic == Spec => []RowLocksAcyclic
<1>1. SessionInv /\ OrderInv => RowLocksAcyclic
  BY OrderIsAcyclic DEF RowLocksAcyclic
<1> QED BY <1>1, SessionsAreSound, LocksAreOrdered, PTL

=============================================================================
