---------------------------- MODULE MCAuditTrail -----------------------------
(***************************************************************************)
(* A small instance of AuditTrail.                                         *)
(***************************************************************************)
EXTENDS AuditTrail

CONSTANTS a, b, v, w

\* Slot 1 has a used and an unused id, slot 2 one row.
MCSlotOf == <<1, 1, 2>>

Dim(st, code, val, version) ==
    [st |-> st, code |-> code, val |-> val, version |-> version]
Mc(st, refs, D, version) ==
    [st |-> st, refs |-> refs, code |-> Compose(refs, D), version |-> version]

\* Two MasterCodes over the same row, one of them deleted.
SharedDims == <<Dim("active", a, v, 1), NoDim, Dim("active", a, v, 1)>>
Shared == [dim |-> SharedDims,
           mc |-> <<Mc("active", <<1, 3>>, SharedDims, 1),
                    Mc("deleted", <<1, None>>, SharedDims, 2)>>]

\* A deleted row with a deleted MasterCode; a Dimension and a MasterCode to add.
BuriedDims == <<Dim("deleted", a, v, 2), NoDim, Dim("active", a, v, 1)>>
Buried == [dim |-> BuriedDims,
           mc |-> <<Mc("deleted", <<1, 3>>, BuriedDims, 2), NoMc>>]

MCSeeds == {Shared, Buried}
=============================================================================
