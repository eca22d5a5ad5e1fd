-------------------------- MODULE MCChangeRequests --------------------------
(***************************************************************************)
(* Small instances of ChangeRequests.                                      *)
(***************************************************************************)
EXTENDS ChangeRequests, TLC

CONSTANTS a, b, v

\* One id per slot; the row of slot 2 is still to be created.
DeskSlotOf == <<1, 2>>

Dim(st, code, val, version) ==
    [st |-> st, code |-> code, val |-> val, version |-> version]

LiveDims == <<Dim("active", a, v, 1), NoDim>>
Row(st, refs, D, version) ==
    [st |-> st, refs |-> refs, code |-> Compose(refs, D), version |-> version]

\* An active MasterCode, and room for one more.
Live == [dim |-> LiveDims, mc |-> <<Row("active", <<1, None>>, LiveDims, 1), NoMc>>]
\* The same, deleted: a CREATE of its references can only become a RESTORE.
Gone == [dim |-> LiveDims, mc |-> <<Row("deleted", <<1, None>>, LiveDims, 2), NoMc>>]

\* Deleted together with its reference.
BuriedDims == <<Dim("deleted", a, v, 2), NoDim>>
Buried == [dim |-> BuriedDims,
           mc |-> <<Row("deleted", <<1, None>>, BuriedDims, 2), NoMc>>]

DeskSeeds == {Live, Gone, Buried}
DeskKinds == {"RenameDim", "DeleteDim", "DeleteMc", "RestoreMc"}

Interchangeable == Permutations(Txs)

=============================================================================
