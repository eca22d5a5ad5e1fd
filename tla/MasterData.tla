----------------------------- MODULE MasterData -----------------------------
(***************************************************************************)
(* Master data: Dimension rows and the MasterCode rows that reference at   *)
(* most one Dimension per slot, with the pure functions of the domain      *)
(* layer.  There is no state here; the catalog modules share it.           *)
(***************************************************************************)
EXTENDS Naturals, FiniteSets

CONSTANTS
    NSlots,     \* number of MasterCode slots (MasterCodeDimensions.ORDER)
    Dims,       \* Dimension row ids, numbered in lock order: slot, then UUID
    SlotOf,     \* the slot (Dimension table) a Dimension id belongs to
    Mcs,        \* MasterCode row ids, numbered in UUID order
    Codes,      \* normalized Dimension codes
    Vals,       \* normalized Dimension values
    NNN,        \* NOT_APPLICABLE_CODE, which no Dimension code can be
    None,       \* SQL NULL, an absent request field
    Seeds       \* catalogs the database may start from

Slots == 1..NSlots

\* References: per slot a row of that slot's table, or NULL.
Refs == {r \in [Slots -> Dims \cup {None}] :
            \A s \in Slots : r[s] # None => SlotOf[r[s]] = s}

NoDim == [st |-> "absent", code |-> None, val |-> None, version |-> 0]
NoMc == [st |-> "absent", refs |-> [s \in Slots |-> None],
         code |-> [s \in Slots |-> NNN], version |-> 0]

\* A table row, or no row under that id.
DimRow == {NoDim} \cup
    [st : {"active", "deleted"}, code : Codes, val : Vals, version : Nat \ {0}]
McRow == {NoMc} \cup
    [st : {"active", "deleted"}, refs : Refs,
     code : [Slots -> Codes \cup {NNN}], version : Nat \ {0}]

Exists(row) == row.st # "absent"

(***************************************************************************)
(* The domain: composition, ETags and state transitions.                   *)
(***************************************************************************)

\* MasterCode.compose.  The joined string is kept as the sequence of its
\* parts: a Dimension code never contains the separator.
Compose(refs, D) ==
    [s \in Slots |-> IF refs[s] = None THEN NNN ELSE D[refs[s]].code]

\* MasterCode.etag, the digest kept as the vector it is computed from.
Etag(row, D) ==
    <<row.version,
      [s \in Slots |-> IF row.refs[s] = None THEN <<None, 0>>
                       ELSE <<row.refs[s], D[row.refs[s]].version>>]>>

RefDims(refs) == {refs[s] : s \in Slots} \ {None}

References(row, d) == Exists(row) /\ d \in RefDims(row.refs)

\* A new Dimension, as the create methods and _create_inline insert it.
NewDim(code, val) == [st |-> "active", code |-> code, val |-> val, version |-> 1]

\* Faulty: an omitted field is cleared.
ChangeDimOverwriting(row, code, val) ==
    [st |-> row.st, code |-> code, val |-> val, version |-> row.version + 1]
\* Faulty: a value change keeps the version.
ChangeDimSilently(row, code, val) ==
    [st |-> row.st,
     code |-> IF code = None THEN row.code ELSE code,
     val |-> IF val = None THEN row.val ELSE val,
     version |-> IF code = None THEN row.version ELSE row.version + 1]

\* Dimension.change: an omitted field keeps its value.
ChangeDim(row, code, val) ==
    [st |-> row.st,
     code |-> IF code = None THEN row.code ELSE code,
     val |-> IF val = None THEN row.val ELSE val,
     version |-> row.version + 1]

\* Dimension.delete and Dimension.restore.
TransitionDeletion(row, deleted) ==
    [st |-> IF deleted THEN "deleted" ELSE "active",
     code |-> row.code, val |-> row.val, version |-> row.version + 1]

\* A new MasterCode with the given references.
NewMasterCode(refs, D) ==
    [st |-> "active", refs |-> refs, code |-> Compose(refs, D), version |-> 1]

\* The next version of a MasterCode row.
NextMasterCode(row, st, refs, code) ==
    [st |-> st, refs |-> refs, code |-> code, version |-> row.version + 1]

\* MasterCode.recompose: unchanged unless the composed code changes.
Recompose(row, D) ==
    IF row.code = Compose(row.refs, D) THEN row
    ELSE NextMasterCode(row, row.st, row.refs, Compose(row.refs, D))

\* MasterCode.update_references.
UpdateReferences(row, refs, D) ==
    NextMasterCode(row, "active", refs, Compose(refs, D))

\* MasterCode.delete and MasterCode.restore.
DeleteMasterCode(row) == NextMasterCode(row, "deleted", row.refs, row.code)
RestoreMasterCode(row, D) ==
    NextMasterCode(row, "active", row.refs, Compose(row.refs, D))

(***************************************************************************)
(* Uniqueness: deleted rows keep their keys, NULLs are not distinct.       *)
(***************************************************************************)
\* Faulty: a deleted row gives its code up.
CodeTakenByActive(D, d, code) ==
    \E e \in Dims \ {d} :
        D[e].st = "active" /\ SlotOf[e] = SlotOf[d] /\ D[e].code = code

CodeTaken(D, d, code) ==
    \E e \in Dims \ {d} :
        Exists(D[e]) /\ SlotOf[e] = SlotOf[d] /\ D[e].code = code
ValueTaken(D, d, val) ==
    \E e \in Dims \ {d} :
        Exists(D[e]) /\ SlotOf[e] = SlotOf[d] /\ D[e].val = val
DimKeyTaken(D, d, row) == CodeTaken(D, d, row.code) \/ ValueTaken(D, d, row.val)

McKeyTaken(M, m, row) ==
    \E n \in Mcs \ {m} : /\ Exists(M[n])
                         /\ M[n].code = row.code \/ M[n].refs = row.refs

\* What every catalog satisfies: each stored code is the composition of the
\* current Dimension codes, an active MasterCode references active
\* Dimensions only, references point to existing rows, keys are unique.
Composed(D, M) == \A m \in Mcs : Exists(M[m]) => M[m].code = Compose(M[m].refs, D)
Grounded(D, M) ==
    \A m \in Mcs : \A s \in Slots :
        Exists(M[m]) /\ M[m].refs[s] # None =>
            /\ Exists(D[M[m].refs[s]])
            /\ M[m].st = "active" => D[M[m].refs[s]].st = "active"
UniqueDims(D) ==
    \A d, e \in Dims :
        Exists(D[d]) /\ Exists(D[e]) /\ d # e /\ SlotOf[d] = SlotOf[e] =>
            D[d].code # D[e].code /\ D[d].val # D[e].val
UniqueMcs(M) ==
    \A m, n \in Mcs : Exists(M[m]) /\ Exists(M[n]) /\ m # n =>
        M[m].refs # M[n].refs
ASSUME ValueAssumption == Codes # {} /\ Vals # {}
ASSUME SlotAssumption == NSlots \in Nat \ {0} /\ SlotOf \in [Dims -> Slots]
ASSUME IdAssumption ==
    /\ Dims \subseteq Nat /\ Mcs \subseteq Nat
    /\ \A d, e \in Dims : d < e => SlotOf[d] <= SlotOf[e]
ASSUME SentinelAssumption ==
    /\ None \notin Dims \cup Mcs \cup Codes \cup Vals
    /\ NNN \notin Codes /\ None # NNN
ASSUME SeedAssumption ==
    \A s \in Seeds :
        /\ s.dim \in [Dims -> DimRow] /\ s.mc \in [Mcs -> McRow]
        /\ Composed(s.dim, s.mc) /\ Grounded(s.dim, s.mc)
        /\ UniqueDims(s.dim) /\ UniqueMcs(s.mc)
=============================================================================
