---------------------------- MODULE AtomicCatalog ----------------------------
(***************************************************************************)
(* What the master-data repositories promise: a catalog that only changes  *)
(* by whole operations, each checked against and computed from the catalog *)
(* as it is at that instant.  Locks, sessions, stale reads and rollbacks   *)
(* are not visible here.                                                   *)
(***************************************************************************)
EXTENDS MasterData

VARIABLES
    dim,         \* committed Dimension rows
    mc           \* committed MasterCode rows

db == <<dim, mc>>

AtomicInit == \E s \in Seeds : dim = s.dim /\ mc = s.mc

CreateDimension(d, code, val) ==
    /\ ~Exists(dim[d])
    /\ ~DimKeyTaken(dim, d, NewDim(code, val))
    /\ dim' = [dim EXCEPT ![d] = NewDim(code, val)]
    /\ UNCHANGED mc

\* A new code reaches every MasterCode that references the Dimension, the
\* deleted ones too, in the same instant.
ChangeDimension(d, code, val) ==
    LET row == ChangeDim(dim[d], code, val)
        D == [dim EXCEPT ![d] = row]
    IN  /\ dim[d].st = "active"
        /\ row.code # dim[d].code \/ row.val # dim[d].val
        /\ ~DimKeyTaken(dim, d, row)
        /\ dim' = D
        /\ mc' = [m \in Mcs |-> IF References(mc[m], d) THEN Recompose(mc[m], D)
                                ELSE mc[m]]

DeleteDimension(d) ==
    /\ dim[d].st = "active"
    /\ \A m \in Mcs : References(mc[m], d) => mc[m].st # "active"
    /\ dim' = [dim EXCEPT ![d] = TransitionDeletion(@, TRUE)]
    /\ UNCHANGED mc

RestoreDimension(d) ==
    /\ dim[d].st = "deleted"
    /\ dim' = [dim EXCEPT ![d] = TransitionDeletion(@, FALSE)]
    /\ UNCHANGED mc

\* The catalog with the references that do not exist yet inserted.
WithInline(refs, code, val) ==
    [d \in Dims |-> IF d \in RefDims(refs) /\ ~Exists(dim[d])
                    THEN NewDim(code, val) ELSE dim[d]]
Insertable(refs, code, val) ==
    \A d \in RefDims(refs) :
        ~Exists(dim[d]) => ~DimKeyTaken(dim, d, NewDim(code, val))

Usable(refs, D) == \A d \in RefDims(refs) : D[d].st = "active"

CreateMasterCode(m, refs, code, val) ==
    LET D == WithInline(refs, code, val)
    IN  /\ ~Exists(mc[m])
        /\ Insertable(refs, code, val)
        /\ Usable(refs, D)
        /\ ~McKeyTaken(mc, m, NewMasterCode(refs, D))
        /\ dim' = D
        /\ mc' = [mc EXCEPT ![m] = NewMasterCode(refs, D)]

ReplaceReferences(m, refs, code, val) ==
    LET D == WithInline(refs, code, val)
    IN  /\ mc[m].st = "active"
        /\ refs # mc[m].refs
        /\ Insertable(refs, code, val)
        /\ Usable(refs, D)
        /\ ~McKeyTaken(mc, m, UpdateReferences(mc[m], refs, D))
        /\ dim' = D
        /\ mc' = [mc EXCEPT ![m] = UpdateReferences(@, refs, D)]

Delete(m) ==
    /\ mc[m].st = "active"
    /\ mc' = [mc EXCEPT ![m] = DeleteMasterCode(@)]
    /\ UNCHANGED dim

Restore(m) ==
    /\ mc[m].st = "deleted"
    /\ Usable(mc[m].refs, dim)
    /\ mc' = [mc EXCEPT ![m] = RestoreMasterCode(@, dim)]
    /\ UNCHANGED dim

AtomicNext ==
    \/ \E d \in Dims, code \in Codes, val \in Vals : CreateDimension(d, code, val)
    \/ \E d \in Dims, code \in Codes \cup {None}, val \in Vals \cup {None} :
            ChangeDimension(d, code, val)
    \/ \E d \in Dims : DeleteDimension(d) \/ RestoreDimension(d)
    \/ \E m \in Mcs, refs \in Refs, code \in Codes, val \in Vals :
            \/ CreateMasterCode(m, refs, code, val)
            \/ ReplaceReferences(m, refs, code, val)
    \/ \E m \in Mcs : Delete(m) \/ Restore(m)

AtomicSpec == AtomicInit /\ [][AtomicNext]_db

=============================================================================
