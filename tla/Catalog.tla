------------------------------- MODULE Catalog -------------------------------
(***************************************************************************)
(* The master-data repositories: eight Dimension tables and the MasterCode *)
(* table that derives its code from them, mutated by concurrent requests.  *)
(*                                                                         *)
(* Every request is one database transaction, modelled statement by        *)
(* statement.  PostgreSQL runs at READ COMMITTED: a plain SELECT sees the  *)
(* rows committed when it starts, SELECT ... FOR SHARE / FOR UPDATE waits  *)
(* for conflicting row locks and returns the latest committed row, and     *)
(* writes become visible to others at COMMIT, when all locks are dropped.  *)
(* What a statement read stays in the ORM session (seenDim, seenMc); the   *)
(* code computes its writes from there and never from the live tables.     *)
(*                                                                         *)
(* The committed tables dim and mc are those of AtomicCatalog, which these *)
(* transactions implement without any change of representation.            *)
(*                                                                         *)
(* The last flush of a transaction and its COMMIT are one step: after that *)
(* flush the code issues no further statement.                             *)
(***************************************************************************)
EXTENDS AtomicCatalog

CONSTANTS
    Keep,       \* a slot a reference update does not mention
    Txs,        \* requests, each handled by one transaction
    Kinds,      \* the operations the requests of a run may ask for
    Faults      \* may a connection be lost or a statement time out?

ASSUME KeepAssumption == Keep \notin Dims /\ Keep # None

-----------------------------------------------------------------------------
VARIABLES
    pc,          \* where each request is, or how it ended
    op,          \* what each request asks for
    seenDim,     \* Dimension rows in each transaction's ORM session
    seenMc,      \* MasterCode rows in each transaction's ORM session
    fresh,       \* Dimensions each transaction inserted and not yet committed
    bad,         \* selected references each transaction found unusable
    sharedDims,  \* rows each transaction holds FOR SHARE
    lockedDims,  \* rows each transaction holds FOR UPDATE
    lockedMcs    \* MasterCode rows each transaction holds FOR UPDATE

session == <<seenDim, seenMc, fresh, bad>>
locks == <<sharedDims, lockedDims, lockedMcs>>
vars == <<db, pc, op, session, locks>>

AllKinds == {"CreateDim", "UpdateDim", "DeleteDim", "RestoreDim",
             "CreateMc", "UpdateMc", "DeleteMc", "RestoreMc"}
TargetKinds == {"UpdateMc", "DeleteMc", "RestoreMc"}

Running == {"begin", "resolve", "inuse", "fanout", "flush"}
Outcomes == {"committed", "unchanged", "not_found", "not_deleted",
             "precondition_failed", "dimension_conflict", "mc_conflict",
             "in_use", "invalid_reference", "reference_inactive",
             "no_effect", "restore_mismatch", "unavailable"}

Selections == [Slots -> Dims \cup {None, Keep}]

Op == [kind : AllKinds \cup {"none"}, d : Dims \cup {None}, m : Mcs \cup {None},
       code : Codes \cup {None}, val : Vals \cup {None},
       sel : Selections, inline : SUBSET Dims,
       version : Nat, etag : Nat \X [Slots -> (Dims \cup {None}) \X Nat],
       review : BOOLEAN]

NoChoice == [s \in Slots |-> Keep]
NoEtag == <<0, [s \in Slots |-> <<None, 0>>]>>

\* A request for a Dimension, and one for a MasterCode.
DimOp(kind, d, code, val, version) ==
    [kind |-> kind, d |-> d, m |-> None, code |-> code, val |-> val,
     sel |-> NoChoice, inline |-> {}, version |-> version, etag |-> NoEtag,
     review |-> FALSE]
McOp(kind, m, sel, inline, code, val, etag, review) ==
    [kind |-> kind, d |-> None, m |-> m, code |-> code, val |-> val,
     sel |-> sel, inline |-> inline, version |-> 0, etag |-> etag,
     review |-> review]
NoOp == DimOp("none", None, None, None, 0)

\* The tables hold well-formed rows under every id (an omitted request field
\* is never written as NULL), and each transaction's session and locks are
\* made of rows and ids of the right kind.
TypeOK ==
    /\ dim \in [Dims -> DimRow]
    /\ mc \in [Mcs -> McRow]
    /\ pc \in [Txs -> {"idle"} \cup Running \cup Outcomes]
    /\ op \in [Txs -> Op]
    /\ seenDim \in [Txs -> [Dims -> DimRow]]
    /\ seenMc \in [Txs -> [Mcs -> McRow]]
    /\ fresh \in [Txs -> SUBSET Dims]
    /\ bad \in [Txs -> SUBSET Dims]
    /\ sharedDims \in [Txs -> SUBSET Dims]
    /\ lockedDims \in [Txs -> SUBSET Dims]
    /\ lockedMcs \in [Txs -> SUBSET Mcs]

Unread == [d \in Dims |-> NoDim]
UnreadMc == [m \in Mcs |-> NoMc]

Init ==
    /\ AtomicInit
    /\ pc = [t \in Txs |-> "idle"]
    /\ op = [t \in Txs |-> NoOp]
    /\ seenDim = [t \in Txs |-> Unread]
    /\ seenMc = [t \in Txs |-> UnreadMc]
    /\ fresh = [t \in Txs |-> {}]
    /\ bad = [t \in Txs |-> {}]
    /\ sharedDims = [t \in Txs |-> {}]
    /\ lockedDims = [t \in Txs |-> {}]
    /\ lockedMcs = [t \in Txs |-> {}]

-----------------------------------------------------------------------------
(***************************************************************************)
(* PostgreSQL: who holds a lock or an uncommitted unique key in the way.   *)
(***************************************************************************)
\* Faulty: a reference is read without FOR SHARE.
NoShareBlockers(t, d) == {}
\* Faulty: MasterCodes are read without FOR UPDATE.
NoMcBlockers(t, m) == {}

ShareBlockers(t, d) == {u \in Txs \ {t} : d \in lockedDims[u]}
UpdateBlockers(t, d) == {u \in Txs \ {t} : d \in lockedDims[u] \cup sharedDims[u]}
McBlockers(t, m) == {u \in Txs \ {t} : m \in lockedMcs[u]}
KeyBlockers(t, d, row) ==
    {u \in Txs \ {t} : \E e \in fresh[u] :
        /\ SlotOf[e] = SlotOf[d]
        /\ seenDim[u][e].code = row.code \/ seenDim[u][e].val = row.val}

\* Faulty: the transaction is left open and keeps its shared row locks.
EndLeaking(t, outcome) ==
    /\ pc' = [pc EXCEPT ![t] = outcome]
    /\ lockedDims' = [lockedDims EXCEPT ![t] = {}]
    /\ lockedMcs' = [lockedMcs EXCEPT ![t] = {}]
    /\ UNCHANGED <<op, session, sharedDims>>

\* The transaction ends: locks are dropped, the session is closed.
End(t, outcome) ==
    /\ pc' = [pc EXCEPT ![t] = outcome]
    /\ seenDim' = [seenDim EXCEPT ![t] = Unread]
    /\ seenMc' = [seenMc EXCEPT ![t] = UnreadMc]
    /\ fresh' = [fresh EXCEPT ![t] = {}]
    /\ bad' = [bad EXCEPT ![t] = {}]
    /\ sharedDims' = [sharedDims EXCEPT ![t] = {}]
    /\ lockedDims' = [lockedDims EXCEPT ![t] = {}]
    /\ lockedMcs' = [lockedMcs EXCEPT ![t] = {}]
    /\ UNCHANGED op

\* ROLLBACK: an exception leaves the session's transaction block.
Abort(t, reason) == End(t, reason) /\ UNCHANGED db

-----------------------------------------------------------------------------
(***************************************************************************)
(* Requests arrive.  A conditional request carries the version or ETag its *)
(* client read earlier: it is taken here, and other transactions may       *)
(* commit before this one executes its first statement.                    *)
(***************************************************************************)

\* Row ids are UUIDv7 values no other row has or is about to get.
Claims(u, d) == pc[u] \in Running /\ d \in op[u].inline \cup {op[u].d}
FreshDimId(d) == ~Exists(dim[d]) /\ \A u \in Txs : ~Claims(u, d)
FreshMcId(m) ==
    ~Exists(mc[m]) /\ \A u \in Txs : ~(pc[u] \in Running /\ op[u].m = m)

Request(t, o, first) ==
    /\ op' = [op EXCEPT ![t] = o]
    /\ pc' = [pc EXCEPT ![t] = first]
    /\ UNCHANGED <<db, session, locks>>

RequestCreateDim(t, d, code, val) ==
    /\ FreshDimId(d)
    /\ Request(t, DimOp("CreateDim", d, code, val, 0), "begin")

RequestUpdateDim(t, d, code, val) ==
    /\ dim[d].st = "active"
    /\ code # None \/ val # None
    /\ Request(t, DimOp("UpdateDim", d, code, val, dim[d].version), "begin")

RequestDimLifecycle(t, d, kind) ==
    /\ dim[d].st = (IF kind = "DeleteDim" THEN "active" ELSE "deleted")
    /\ Request(t, DimOp(kind, d, None, None, dim[d].version), "begin")

\* One selection per slot: not applicable, an existing row, or a new inline
\* row whose code and value come with the request.
Selectable(s) == {d \in Dims : SlotOf[d] = s /\ Exists(dim[d])}
Inlinable(s) == {d \in Dims : SlotOf[d] = s /\ FreshDimId(d)}
Inlined(sel) == {d \in Dims : \E s \in Slots : sel[s] = d /\ ~Exists(dim[d])}

RequestCreateMc(t, m, sel, code, val) ==
    /\ FreshMcId(m)
    /\ \A s \in Slots : sel[s] \in {None} \cup Selectable(s) \cup Inlinable(s)
    /\ IF Inlined(sel) = {} THEN code = None /\ val = None
                            ELSE code # None /\ val # None
    /\ Request(t, McOp("CreateMc", m, sel, Inlined(sel), code, val, NoEtag, FALSE),
               "resolve")

\* UpdateMasterCodeReferences takes existing rows and NULLs only.
RequestUpdateMc(t, m, sel) ==
    /\ mc[m].st = "active"
    /\ \A s \in Slots : sel[s] \in {None, Keep} \cup Selectable(s)
    /\ \E s \in Slots : sel[s] # Keep
    /\ Request(t, McOp("UpdateMc", m, sel, {}, None, None, Etag(mc[m], dim), FALSE),
               "begin")

RequestMcLifecycle(t, m, kind) ==
    /\ mc[m].st = (IF kind = "DeleteMc" THEN "active" ELSE "deleted")
    /\ Request(t, McOp(kind, m, NoChoice, {}, None, None, Etag(mc[m], dim), FALSE),
               "begin")

Begin(t) ==
    /\ pc[t] = "idle"
    /\ \E kind \in Kinds :
        \/ /\ kind = "CreateDim"
           /\ \E d \in Dims, code \in Codes, val \in Vals :
                RequestCreateDim(t, d, code, val)
        \/ /\ kind = "UpdateDim"
           /\ \E d \in Dims, code \in Codes \cup {None}, val \in Vals \cup {None} :
                RequestUpdateDim(t, d, code, val)
        \/ /\ kind = "RenameDim"  \* an update that carries no value
           /\ \E d \in Dims, code \in Codes : RequestUpdateDim(t, d, code, None)
        \/ /\ kind \in {"DeleteDim", "RestoreDim"}
           /\ \E d \in Dims : RequestDimLifecycle(t, d, kind)
        \/ /\ kind = "CreateMc"
           /\ \E m \in Mcs, sel \in Refs,
                 code \in Codes \cup {None}, val \in Vals \cup {None} :
                RequestCreateMc(t, m, sel, code, val)
        \/ /\ kind = "UpdateMc"
           /\ \E m \in Mcs, sel \in Selections : RequestUpdateMc(t, m, sel)
        \/ /\ kind \in {"DeleteMc", "RestoreMc"}
           /\ \E m \in Mcs : RequestMcLifecycle(t, m, kind)

-----------------------------------------------------------------------------
(***************************************************************************)
(* Dimension transactions.                                                 *)
(***************************************************************************)

\* INSERT of a new row: the conflict query, the insert and its COMMIT.
CreateDim(t) ==
    LET o == op[t]
        row == NewDim(o.code, o.val)
    IN  /\ pc[t] = "begin"
        /\ o.kind = "CreateDim"
        /\ IF DimKeyTaken(dim, o.d, row)
           THEN Abort(t, "dimension_conflict")
           ELSE /\ KeyBlockers(t, o.d, row) = {}
                /\ dim' = [dim EXCEPT ![o.d] = row]
                /\ UNCHANGED mc
                /\ End(t, "committed")

\* The row is locked and stays in the session.
HoldDim(t, next) ==
    /\ lockedDims' = [lockedDims EXCEPT ![t] = {op[t].d}]
    /\ seenDim' = [seenDim EXCEPT ![t] = [Unread EXCEPT ![op[t].d] = dim[op[t].d]]]
    /\ pc' = [pc EXCEPT ![t] = next]
    /\ UNCHANGED <<db, op, seenMc, fresh, bad, sharedDims, lockedMcs>>

\* update_value, up to the conflict query: lock the active row, compare the
\* version, return early when nothing changes, look for taken keys.
LockDimForUpdate(t) ==
    LET o == op[t]
        row == dim[o.d]
        code == IF o.code = row.code THEN None ELSE o.code
        val == IF o.val = row.val THEN None ELSE o.val
    IN  /\ pc[t] = "begin"
        /\ o.kind = "UpdateDim"
        /\ IF row.st # "active" THEN Abort(t, "not_found")
           ELSE /\ UpdateBlockers(t, o.d) = {}
                /\ IF row.version # o.version THEN Abort(t, "precondition_failed")
                   ELSE IF code = None /\ val = None THEN Abort(t, "unchanged")
                   ELSE IF \/ code # None /\ CodeTaken(dim, o.d, code)
                           \/ val # None /\ ValueTaken(dim, o.d, val)
                        THEN Abort(t, "dimension_conflict")
                   ELSE HoldDim(t, IF code # None THEN "fanout" ELSE "flush")

\* _mutate of the lifecycle repository, up to the version comparison.
LockDimForLifecycle(t) ==
    LET o == op[t]
        row == dim[o.d]
    IN  /\ pc[t] = "begin"
        /\ o.kind \in {"DeleteDim", "RestoreDim"}
        /\ UpdateBlockers(t, o.d) = {}
        /\ IF o.kind = "DeleteDim" /\ row.st # "active" THEN Abort(t, "not_found")
           ELSE IF o.kind = "RestoreDim" /\ row.st = "active"
                THEN Abort(t, "not_deleted")
           ELSE IF row.version # o.version THEN Abort(t, "precondition_failed")
           ELSE HoldDim(t, IF o.kind = "DeleteDim" THEN "inuse" ELSE "flush")

\* The query for an active MasterCode that references the row.
CheckInUse(t) ==
    /\ pc[t] = "inuse"
    /\ IF \E m \in Mcs : mc[m].st = "active" /\ References(mc[m], op[t].d)
       THEN Abort(t, "in_use")
       ELSE /\ pc' = [pc EXCEPT ![t] = "flush"]
            /\ UNCHANGED <<db, op, session, locks>>

\* lock_referencing_master_codes: rows referencing the Dimension, deleted
\* ones included, FOR UPDATE in UUID order; each may have to be waited for.
ToLockActiveMcs(t) ==  \* faulty: deleted MasterCodes are left out
    {m \in Mcs : mc[m].st = "active" /\ References(mc[m], op[t].d)} \ lockedMcs[t]
ToLockMcs(t) == {m \in Mcs : References(mc[m], op[t].d)} \ lockedMcs[t]
IsNextMc(t, m) == m \in ToLockMcs(t) /\ \A n \in ToLockMcs(t) : m <= n

LockReferencing(t) ==
    /\ pc[t] = "fanout"
    /\ \E m \in Mcs :
        /\ IsNextMc(t, m)
        /\ McBlockers(t, m) = {}
        /\ lockedMcs' = [lockedMcs EXCEPT ![t] = @ \cup {m}]
    /\ UNCHANGED <<db, pc, op, session, sharedDims, lockedDims>>

\* The joined read of the locked MasterCodes: one snapshot of their rows and
\* of every Dimension they reference, none of which but one is locked.
ReadJoined(t) ==
    /\ pc[t] = "fanout"
    /\ ToLockMcs(t) = {}
    /\ seenMc' = [seenMc EXCEPT ![t] =
                    [m \in Mcs |-> IF m \in lockedMcs[t] THEN mc[m] ELSE NoMc]]
    /\ seenDim' = [seenDim EXCEPT ![t] = dim]
    /\ pc' = [pc EXCEPT ![t] = "flush"]
    /\ UNCHANGED <<db, op, fresh, bad, locks>>

\* The row a Dimension mutation writes.
ChangedDim(t) ==
    CASE op[t].kind = "UpdateDim" ->
            ChangeDim(seenDim[t][op[t].d], op[t].code, op[t].val)
      [] op[t].kind = "DeleteDim" ->
            TransitionDeletion(seenDim[t][op[t].d], TRUE)
      [] OTHER -> TransitionDeletion(seenDim[t][op[t].d], FALSE)

\* recompose_locked_master_codes over what the joined read returned.
RecomposedMcs(t) ==
    LET D == [seenDim[t] EXCEPT ![op[t].d] = ChangedDim(t)]
    IN  [m \in Mcs |-> IF m \in lockedMcs[t] THEN Recompose(seenMc[t][m], D)
                       ELSE mc[m]]

\* Flush and COMMIT of update_value, delete and restore.  The UPDATE of a key
\* waits for uncommitted inserts of the same key.
CommitDim(t) ==
    LET o == op[t]
        row == ChangedDim(t)
        M == RecomposedMcs(t)
    IN  /\ pc[t] = "flush"
        /\ o.kind \in {"UpdateDim", "DeleteDim", "RestoreDim"}
        /\ KeyBlockers(t, o.d, row) = {}
        /\ IF DimKeyTaken(dim, o.d, row)
           THEN Abort(t, "dimension_conflict")
           ELSE IF \E m \in lockedMcs[t] : McKeyTaken(M, m, M[m])
           THEN Abort(t, "mc_conflict")
           ELSE /\ dim' = [dim EXCEPT ![o.d] = row]
                /\ mc' = M
                /\ End(t, "committed")

-----------------------------------------------------------------------------
(***************************************************************************)
(* MasterCode transactions.                                                *)
(***************************************************************************)

\* Faulty: the target is locked before its references.
ReadTargetForUpdate(t) ==
    /\ pc[t] = "begin"
    /\ op[t].kind \in TargetKinds
    /\ McBlockers(t, op[t].m) = {}
    /\ lockedMcs' = [lockedMcs EXCEPT ![t] = {op[t].m}]
    /\ seenMc' = [seenMc EXCEPT ![t] = [UnreadMc EXCEPT ![op[t].m] = mc[op[t].m]]]
    /\ pc' = [pc EXCEPT ![t] = "resolve"]
    /\ UNCHANGED <<db, op, seenDim, fresh, bad, sharedDims, lockedDims>>

\* The unlocked joined read that tells which rows to lock.  A review reads
\* the target whatever its state.
ReadTarget(t) ==
    LET row == mc[op[t].m]
    IN  /\ pc[t] = "begin"
        /\ op[t].kind \in TargetKinds
        /\ IF ~Exists(row) THEN Abort(t, "not_found")
           ELSE IF ~op[t].review /\ op[t].kind = "RestoreMc" /\ row.st = "active"
                THEN Abort(t, "not_deleted")
           ELSE IF ~op[t].review /\ op[t].kind # "RestoreMc" /\ row.st # "active"
                THEN Abort(t, "not_found")
           ELSE /\ seenMc' = [seenMc EXCEPT ![t] = [UnreadMc EXCEPT ![op[t].m] = row]]
                /\ pc' = [pc EXCEPT ![t] = "resolve"]
                /\ UNCHANGED <<db, op, seenDim, fresh, bad, locks>>

CurrentRefs(t) == IF op[t].kind = "CreateMc" THEN {}
                  ELSE RefDims(seenMc[t][op[t].m].refs)
SelectedRefs(t) == {op[t].sel[s] : s \in Slots} \ {None, Keep}
Unresolved(t) ==
    (CurrentRefs(t) \cup SelectedRefs(t)) \ (sharedDims[t] \cup fresh[t] \cup bad[t])

\* Slot order; in a slot existing rows by UUID, then the inline row.
Before(t, d, e) ==
    \/ SlotOf[d] < SlotOf[e]
    \/ /\ SlotOf[d] = SlotOf[e]
       /\ IF d \in op[t].inline THEN FALSE
          ELSE e \in op[t].inline \/ d < e
IsNextDim(t, d) ==
    /\ d \in Unresolved(t)
    /\ \A e \in Unresolved(t) \ {d} : Before(t, d, e)

\* Create and reference update lock active rows only; deletion, restoration
\* and reviews lock deleted rows too, their versions being part of the ETag.
VisibleToLock(t, d) ==
    IF op[t].kind = "CreateMc" \/ (op[t].kind = "UpdateMc" /\ ~op[t].review)
    THEN dim[d].st = "active" ELSE Exists(dim[d])

\* A locked row a review may not select: deleted, and not for a restoration.
Unusable(t, d) ==
    /\ d \in SelectedRefs(t)
    /\ dim[d].st = "deleted"
    /\ op[t].kind # "RestoreMc"

\* SELECT ... FOR SHARE of one referenced row.  A current reference that is
\* missing fails the precondition when its slot's query returns (a row lock
\* that query would still wait for is dropped by the same rollback); an
\* unusable selection is reported after the last slot.
LockReference(t) ==
    /\ pc[t] = "resolve"
    /\ \E d \in Dims \ op[t].inline :
        /\ IsNextDim(t, d)
        /\ IF VisibleToLock(t, d)
           THEN /\ ShareBlockers(t, d) = {}
                /\ sharedDims' = [sharedDims EXCEPT ![t] = @ \cup {d}]
                /\ seenDim' = [seenDim EXCEPT ![t][d] = dim[d]]
                /\ bad' = [bad EXCEPT ![t] = IF Unusable(t, d) THEN @ \cup {d} ELSE @]
                /\ UNCHANGED <<db, pc, op, seenMc, fresh, lockedDims, lockedMcs>>
           ELSE IF d \in CurrentRefs(t) THEN Abort(t, "precondition_failed")
           ELSE /\ bad' = [bad EXCEPT ![t] = @ \cup {d}]
                /\ UNCHANGED <<db, pc, op, seenDim, seenMc, fresh, locks>>

\* _create_inline: conflict query and flushed INSERT of a new Dimension,
\* whose keys stay reserved until this transaction ends.
InsertInline(t) ==
    LET o == op[t]
        row == NewDim(o.code, o.val)
    IN  /\ pc[t] = "resolve"
        /\ \E d \in o.inline :
            /\ IsNextDim(t, d)
            /\ IF DimKeyTaken(dim, d, row)
               THEN Abort(t, "dimension_conflict")
               ELSE /\ KeyBlockers(t, d, row) = {}
                    /\ fresh' = [fresh EXCEPT ![t] = @ \cup {d}]
                    /\ seenDim' = [seenDim EXCEPT ![t][d] = row]
                    /\ UNCHANGED <<db, pc, op, seenMc, bad, locks>>

\* The references the target has after the update.
NextRefs(t) ==
    [s \in Slots |-> IF op[t].sel[s] # Keep THEN op[t].sel[s]
                     ELSE seenMc[t][op[t].m].refs[s]]

\* _same_persisted_state.
SamePersistedState(row, initial) ==
    row.version = initial.version /\ row.refs = initial.refs

\* Faulty: the versions of the referenced Dimensions are not compared.
StaleTargetOwnVersion(t, row) == ~SamePersistedState(row, seenMc[t][op[t].m])

StaleTarget(t, row) ==
    \/ ~SamePersistedState(row, seenMc[t][op[t].m])
    \/ Etag(row, seenDim[t]) # op[t].etag

\* A direct reference update looks for an active row only.
OutOfSight(t, row) ==
    op[t].kind = "UpdateMc" /\ ~op[t].review /\ row.st # "active"

\* Why a target that passed the staleness checks is still refused.
Refusal(t, row) ==
    LET inactive == \E d \in RefDims(row.refs) : seenDim[t][d].st = "deleted"
        same == NextRefs(t) = row.refs
    IN  CASE op[t].kind = "UpdateMc" /\ row.st # "active" -> "not_found"
          [] op[t].kind = "UpdateMc" /\ same ->
                IF op[t].review THEN "no_effect" ELSE "unchanged"
          [] op[t].kind = "DeleteMc" /\ row.st # "active" -> "no_effect"
          [] op[t].kind = "RestoreMc" /\ row.st = "active" -> "not_deleted"
          [] op[t].kind = "RestoreMc" /\ op[t].review /\ ~same -> "restore_mismatch"
          [] op[t].kind = "RestoreMc" /\ inactive -> "reference_inactive"
          [] OTHER -> "none"

\* With every reference locked: the target FOR UPDATE, re-read and compared
\* with the first read, then its ETag with the one the client sent.
LockTarget(t) ==
    LET o == op[t]
        row == mc[o.m]
    IN  /\ pc[t] = "resolve"
        /\ o.kind \in TargetKinds
        /\ Unresolved(t) = {}
        /\ IF bad[t] # {} THEN Abort(t, "invalid_reference")
           ELSE IF OutOfSight(t, row) THEN Abort(t, "precondition_failed")
           ELSE /\ McBlockers(t, o.m) = {}
                /\ IF StaleTarget(t, row) THEN Abort(t, "precondition_failed")
                   ELSE IF Refusal(t, row) # "none" THEN Abort(t, Refusal(t, row))
                   ELSE /\ lockedMcs' = [lockedMcs EXCEPT ![t] = {o.m}]
                        /\ seenMc' = [seenMc EXCEPT ![t][o.m] = row]
                        /\ pc' = [pc EXCEPT ![t] = "flush"]
                        /\ UNCHANGED <<db, op, seenDim, fresh, bad, sharedDims,
                                       lockedDims>>

\* The row a MasterCode mutation writes.
ChangedMc(t) ==
    LET row == seenMc[t][op[t].m]
    IN  CASE op[t].kind = "UpdateMc" -> UpdateReferences(row, NextRefs(t), seenDim[t])
          [] op[t].kind = "DeleteMc" -> DeleteMasterCode(row)
          [] op[t].kind = "RestoreMc" -> RestoreMasterCode(row, seenDim[t])
          [] OTHER -> NewMasterCode(op[t].sel, seenDim[t])

\* The flushed inline rows and the MasterCode row become visible together.
WriteMc(t) ==
    /\ dim' = [d \in Dims |-> IF d \in fresh[t] THEN seenDim[t][d] ELSE dim[d]]
    /\ mc' = [mc EXCEPT ![op[t].m] = ChangedMc(t)]
    /\ End(t, "committed")

CommitTarget(t) ==
    /\ pc[t] = "flush"
    /\ op[t].kind \in TargetKinds
    /\ IF McKeyTaken(mc, op[t].m, ChangedMc(t)) THEN Abort(t, "mc_conflict")
       ELSE WriteMc(t)

\* Rows that already have the composed code.
Twins(t) == {n \in Mcs : Exists(mc[n]) /\ mc[n].code = ChangedMc(t).code}

\* The insert of a new MasterCode once every slot is resolved.  A review
\* first locks an existing row with the same code: an active one means the
\* proposal has no effect, a deleted one is left to the unique constraint.
CommitCreateMc(t) ==
    LET row == ChangedMc(t)
    IN  /\ pc[t] = "resolve"
        /\ op[t].kind = "CreateMc"
        /\ Unresolved(t) = {}
        /\ IF bad[t] # {} THEN Abort(t, "invalid_reference")
           ELSE /\ op[t].review => \A n \in Twins(t) : McBlockers(t, n) = {}
                /\ IF op[t].review /\ \E n \in Twins(t) : mc[n].st = "active"
                   THEN Abort(t, "no_effect")
                   ELSE IF McKeyTaken(mc, op[t].m, row) THEN Abort(t, "mc_conflict")
                   ELSE WriteMc(t)


-----------------------------------------------------------------------------
(***************************************************************************)
(* Waiting.  RowHolders(t) hold the row lock t's next statement needs,     *)
(* KeyHolders(t) an uncommitted row with the unique key it writes.         *)
(***************************************************************************)
RowHolders(t) ==
    LET o == op[t]
    IN  CASE pc[t] = "begin" /\ o.kind = "UpdateDim" ->
                IF dim[o.d].st = "active" THEN UpdateBlockers(t, o.d) ELSE {}
          [] pc[t] = "begin" /\ o.kind \in {"DeleteDim", "RestoreDim"} ->
                UpdateBlockers(t, o.d)
          [] pc[t] = "fanout" ->
                UNION {McBlockers(t, m) : m \in {n \in Mcs : IsNextMc(t, n)}}
          [] pc[t] = "resolve" /\ Unresolved(t) # {} ->
                UNION {ShareBlockers(t, d) : d \in
                    {e \in Dims \ o.inline : IsNextDim(t, e) /\ VisibleToLock(t, e)}}
          [] pc[t] = "resolve" /\ Unresolved(t) = {} /\ bad[t] = {} ->
                IF o.kind = "CreateMc"
                THEN IF o.review THEN UNION {McBlockers(t, n) : n \in Twins(t)} ELSE {}
                ELSE IF OutOfSight(t, mc[o.m]) THEN {} ELSE McBlockers(t, o.m)
          [] OTHER -> {}

KeyHolders(t) ==
    LET o == op[t]
    IN  CASE pc[t] = "begin" /\ o.kind = "CreateDim" ->
                KeyBlockers(t, o.d, NewDim(o.code, o.val))
          [] pc[t] = "resolve" ->
                UNION {KeyBlockers(t, d, NewDim(o.code, o.val)) :
                           d \in {e \in o.inline : IsNextDim(t, e)}}
          [] pc[t] = "flush" /\ o.kind = "UpdateDim" ->
                KeyBlockers(t, o.d, ChangedDim(t))
          [] OTHER -> {}

\* t waits, directly or through others, for itself: it is in every set that
\* holds the ones it waits for and is closed under waiting.
OnCycle(waits, t) ==
    \A S \in SUBSET Txs :
        waits[t] \subseteq S /\ (\A u \in S : waits[u] \subseteq S) => t \in S

WaitsFor(t) == RowHolders(t) \cup KeyHolders(t)

\* PostgreSQL ends one transaction of a cycle with 40P01, which the
\* repositories report as temporarily unavailable.
DeadlockVictim(t) ==
    /\ pc[t] \in Running
    /\ WaitsFor(t) # {}
    /\ OnCycle([u \in Txs |-> WaitsFor(u)], t)
    /\ Abort(t, "unavailable")

\* A lost connection, a statement or lock timeout: nothing was committed.
ConnectionLost(t) ==
    /\ Faults
    /\ pc[t] \in Running
    /\ Abort(t, "unavailable")

-----------------------------------------------------------------------------
DimStep(t) ==
    \/ CreateDim(t)
    \/ LockDimForUpdate(t)
    \/ LockDimForLifecycle(t)
    \/ CheckInUse(t)
    \/ LockReferencing(t)
    \/ ReadJoined(t)
    \/ CommitDim(t)

McStep(t) ==
    \/ ReadTarget(t)
    \/ LockReference(t)
    \/ InsertInline(t)
    \/ LockTarget(t)
    \/ CommitTarget(t)
    \/ CommitCreateMc(t)

Step(t) == DimStep(t) \/ McStep(t)

Next == \E t \in Txs : Begin(t) \/ Step(t) \/ DeadlockVictim(t) \/ ConnectionLost(t)

Spec == Init /\ [][Next]_vars

\* The server executes the statements of a request it accepted, and
\* PostgreSQL's deadlock detector runs.  Clients and faults owe nothing.
FairSpec ==
    /\ Spec
    /\ \A t \in Txs : WF_vars(Step(t))
    /\ WF_vars(\E t \in Txs : DeadlockVictim(t))

-----------------------------------------------------------------------------
(***************************************************************************)
(* Properties.                                                             *)
(***************************************************************************)

\* Every stored MasterCode code, deleted rows included, is the composition
\* of the current codes of its references: no interleaving of code changes,
\* reference updates and restorations leaves a stale code behind
\* (MasterCode.__post_init__ would refuse to load such a row).
CodesComposed == Composed(dim, mc)

\* An active MasterCode never references a deleted Dimension: deleting a
\* Dimension cannot race the creation, update or restoration of a reference.
ActiveReferences == Grounded(dim, mc)

\* What a transaction is about to write was computed from rows that are still
\* current: the rows it locked, and the codes of the Dimensions that the
\* joined read of a fan-out returned without locking them.
SessionCurrent ==
    \A t \in Txs : pc[t] = "flush" =>
        /\ \A d \in sharedDims[t] \cup lockedDims[t] : seenDim[t][d] = dim[d]
        /\ \A m \in lockedMcs[t] :
            /\ seenMc[t][m] = mc[m]
            /\ \A d \in RefDims(mc[m].refs) : seenDim[t][d].code = dim[d].code

\* A Dimension's code change never fails on a MasterCode key: with unique
\* references and unique codes per slot, recomposed codes stay unique.
RecompositionNeverConflicts ==
    \A t \in Txs : op[t].kind = "UpdateDim" => pc[t] # "mc_conflict"

\* The documented lock order (Dimension rows by slot and id, then MasterCodes
\* by id) keeps row locks free of cycles: a deadlock, when PostgreSQL reports
\* one, needs somebody waiting for an uncommitted unique key.
RowLocksAcyclic ==
    LET waits == [t \in Txs |-> RowHolders(t)]
    IN  \A t \in Txs : ~OnCycle(waits, t)

Commits(t) == pc[t] # "committed" /\ pc'[t] = "committed"

\* No lost update: a conditional request commits only if the version or the
\* aggregate ETag its client sent still describes the committed catalog.
CommitsAreConditional ==
    [][\A t \in Txs : Commits(t) =>
        /\ op[t].kind \in {"UpdateDim", "DeleteDim", "RestoreDim"} =>
                dim[op[t].d].version = op[t].version
        /\ op[t].kind \in TargetKinds => Etag(mc[op[t].m], dim) = op[t].etag]_vars

\* What a reader of a MasterCode sees: the row and the Dimensions it joins.
Representation(m) ==
    <<mc[m].st, mc[m].code,
      [s \in Slots |-> IF mc[m].refs[s] = None THEN None
                       ELSE LET d == dim[mc[m].refs[s]]
                            IN  <<mc[m].refs[s], d.st, d.code, d.val>>]>>

\* A MasterCode whose representation changes gets another ETag, whichever
\* row the change was made to.
EtagTracksRepresentation ==
    [][\A m \in Mcs : Exists(mc[m]) /\ Representation(m)' # Representation(m) =>
        Etag(mc[m], dim)' # Etag(mc[m], dim)]_vars

\* Every request that was accepted is answered: no transaction waits forever.
EveryRequestEnds ==
    \A t \in Txs : pc[t] \in Running ~> pc[t] \in Outcomes

\* The transactions implement the atomic catalog: every commit is one whole
\* operation on the catalog as it is at that instant, and nothing else shows.
ImplementsAtomicCatalog == AtomicSpec

=============================================================================
