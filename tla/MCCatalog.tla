------------------------------ MODULE MCCatalog ------------------------------
(***************************************************************************)
(* Small instances of Catalog.                                             *)
(***************************************************************************)
EXTENDS Catalog, TLC

CONSTANTS a, b, c, v, w

\* Slot 1 has two Dimension ids, slot 2 two more.
MCSlotOf == <<1, 1, 2, 2>>

Dim(st, code, val, version) ==
    [st |-> st, code |-> code, val |-> val, version |-> version]

\* A MasterCode row as compose left it.
Mc(st, refs, D, version) ==
    [st |-> st, refs |-> refs, code |-> Compose(refs, D), version |-> version]

\* One MasterCode over two active rows; the other ids are free for inserts.
BusyDims == <<Dim("active", a, v, 1), NoDim, Dim("active", a, v, 1), NoDim>>
Busy == [dim |-> BusyDims, mc |-> <<Mc("active", <<1, 3>>, BusyDims, 1), NoMc>>]

\* A deleted MasterCode over an active and a deleted row, an active one that
\* shares the active row.
WornDims == <<Dim("active", a, v, 2), Dim("active", b, w, 1),
              Dim("deleted", a, v, 2), NoDim>>
Worn == [dim |-> WornDims,
         mc |-> <<Mc("deleted", <<1, 3>>, WornDims, 2),
                  Mc("active", <<1, None>>, WornDims, 1)>>]

\* Two rows of slot 1 with the same companion, one of them deleted together
\* with its MasterCode: every key is still taken.
TombDims == <<Dim("deleted", a, v, 2), Dim("active", b, w, 1),
              Dim("active", a, v, 1), NoDim>>
Tomb == [dim |-> TombDims,
         mc |-> <<Mc("deleted", <<1, 3>>, TombDims, 2),
                  Mc("active", <<2, 3>>, TombDims, 1)>>]

\* Both MasterCodes reference the first row of slot 1, one of them deleted;
\* another row of slot 1 is there to be referenced instead.
FanDims == <<Dim("active", a, v, 1), Dim("active", b, w, 1),
             Dim("active", a, v, 1), NoDim>>
Fan == [dim |-> FanDims,
        mc |-> <<Mc("active", <<1, 3>>, FanDims, 1),
                 Mc("deleted", <<1, None>>, FanDims, 2)>>]

\* One MasterCode over a row of each slot, a free id in slot 1: room for a
\* deadlock through a unique key.
KeySlotOf == <<1, 1, 2>>
KeyDims == <<Dim("active", a, v, 1), NoDim, Dim("active", a, v, 1)>>
Key == [dim |-> KeyDims, mc |-> <<Mc("active", <<1, 3>>, KeyDims, 1), NoMc>>]
KeyKinds == {"RenameDim", "CreateMc", "DeleteDim", "DeleteMc"}

PairSeeds == {Busy, Worn, Tomb, Fan}
KeySeed == {Key}

Interchangeable == Permutations(Txs)

=============================================================================
