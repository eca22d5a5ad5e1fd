----------------------------- MODULE AuditTrail ------------------------------
(***************************************************************************)
(* The audit trail of the master data.  A mutation installs one audit      *)
(* context in its transaction (change set, operations, timestamp); BEFORE  *)
(* triggers compare every row it writes with that context, AFTER triggers  *)
(* append what changed to the log tables, all in the same COMMIT.          *)
(*                                                                         *)
(* The mutations are the commits of AtomicCatalog, which is what the       *)
(* statement-level transactions of Catalog implement.  A row keeps its     *)
(* locks from the moment its updated_at is read to the COMMIT, and the     *)
(* clock may show anything, so that the clock is read at the commit here.  *)
(*                                                                         *)
(* The change set id stands for the actor, the role and the reason that    *)
(* are installed with it and copied to every entry.                        *)
(***************************************************************************)
EXTENDS AtomicCatalog, FiniteSetsExt

CONSTANTS
    Times,       \* readings of the database clock, which may go backwards
    MaxChanges   \* bound: mutations in a behaviour

ASSUME TimesAssumption == Times # {} /\ Times \subseteq Nat
ASSUME ChangesAssumption == MaxChanges \in Nat
\* NULL is no operation and no snapshot.
ASSUME AuditSentinel ==
    None \notin {"CREATE", "UPDATE", "DELETE", "RESTORE", "REFERENCE_UPDATE", "RECOMPOSE"}
        \cup [refs : Refs, code : [Slots -> Codes \cup {NNN}], deleted : BOOLEAN]
\* A seed row was inserted and, if it is deleted, deleted since; no more.
ASSUME AuditSeedAssumption ==
    \A s \in Seeds : \A table \in {s.dim, s.mc} : \A i \in DOMAIN table :
        Exists(table[i]) => table[i].version = IF table[i].st = "active" THEN 1 ELSE 2

VARIABLES
    ctx,         \* the audit context of the last mutation
    dimAt,       \* updated_at of every Dimension row
    mcAt,        \* updated_at of every MasterCode row
    dimLog,      \* the eight dimension_*_logs tables
    mcLog        \* master_code_logs

trail == <<ctx, dimAt, mcAt, dimLog, mcLog>>
auditVars == <<db, trail>>

-----------------------------------------------------------------------------
(***************************************************************************)
(* AFTER triggers: the entries a written row leaves.                       *)
(***************************************************************************)
DimEntry(c, d, row, at, operation, field, old, new) ==
    [id |-> d, cs |-> c.cs, version |-> row.version, operation |-> operation,
     field |-> field, old |-> old, new |-> new, at |-> at]

Snapshot(row) ==
    [refs |-> row.refs, code |-> row.code, deleted |-> row.st = "deleted"]

\* mdm_dimension_*_after_insert.
DimInsertEntries(c, d, new, at) ==
    {DimEntry(c, d, new, at, "CREATE", "CODE", None, new.code),
     DimEntry(c, d, new, at, "CREATE", "VALUE", None, new.val)}

\* Faulty: a code change hides the value change made with it.
DimUpdateEntriesFirst(c, d, old, new, at) ==
    IF new.code # old.code
    THEN {DimEntry(c, d, new, at, "UPDATE", "CODE", old.code, new.code)}
    ELSE IF new.val # old.val
    THEN {DimEntry(c, d, new, at, "UPDATE", "VALUE", old.val, new.val)}
    ELSE {DimEntry(c, d, new, at, IF new.st = "active" THEN "RESTORE" ELSE "DELETE",
                   "DELETED", old.st = "deleted", new.st = "deleted")}

\* mdm_dimension_*_after_update: one entry per field that changed.
DimUpdateEntries(c, d, old, new, at) ==
    {e \in {DimEntry(c, d, new, at, IF new.st = "active" THEN "RESTORE" ELSE "DELETE",
                     "DELETED", old.st = "deleted", new.st = "deleted"),
            DimEntry(c, d, new, at, "UPDATE", "CODE", old.code, new.code),
            DimEntry(c, d, new, at, "UPDATE", "VALUE", old.val, new.val)} :
        e.old # e.new}

\* mdm_master_code_after_insert.
McInsertEntry(c, m, new, at) ==
    [id |-> m, cs |-> c.cs, version |-> new.version, operation |-> "CREATE",
     old |-> None, new |-> Snapshot(new), at |-> at]

\* Faulty: the snapshot of the row before the update.
McUpdateEntryStale(c, m, old, new, at) ==
    [id |-> m, cs |-> c.cs, version |-> new.version, operation |-> c.master_code,
     old |-> Snapshot(old), new |-> [Snapshot(new) EXCEPT !.code = old.code], at |-> at]

\* mdm_master_code_after_update.
McUpdateEntry(c, m, old, new, at) ==
    [id |-> m, cs |-> c.cs, version |-> new.version, operation |-> c.master_code,
     old |-> Snapshot(old), new |-> Snapshot(new), at |-> at]

DimEntries(c, D, E, At) ==
    UNION {IF Exists(D[d]) THEN DimUpdateEntries(c, d, D[d], E[d], At[d])
                           ELSE DimInsertEntries(c, d, E[d], At[d]) :
               d \in {d \in Dims : D[d] # E[d]}}
McEntries(c, M, N, At) ==
    {IF Exists(M[m]) THEN McUpdateEntry(c, m, M[m], N[m], At[m])
                     ELSE McInsertEntry(c, m, N[m], At[m]) :
         m \in {m \in Mcs : M[m] # N[m]}}

-----------------------------------------------------------------------------
(***************************************************************************)
(* The audit context.                                                      *)
(***************************************************************************)

\* GREATEST(clock_timestamp(), minimum_timestamp), the minimum possibly NULL.
MutationTimestamp(now, minimum) == Max({now} \cup minimum)

\* Faulty: every context belongs to a change set of its own table.
ContextPerTable(dimension, master_code, at) ==
    [cs |-> IF master_code = "RECOMPOSE" THEN ctx.cs ELSE ctx.cs + 1,
     dimension |-> dimension, master_code |-> master_code, at |-> at]

\* The metadata the audit factory built for this use case, with a change set
\* id nobody used before, and the timestamp the database answered.
NewContext(dimension, master_code, at) ==
    [cs |-> ctx.cs + 1, dimension |-> dimension, master_code |-> master_code,
     at |-> at]

\* set_context.
Installed(dimension, master_code, minimum) ==
    /\ ctx.cs < MaxChanges
    /\ \E now \in Times :
        ctx' = NewContext(dimension, master_code, MutationTimestamp(now, minimum))

\* The flushed rows with their updated_at, and what the AFTER triggers append.
Flushed(at) ==
    /\ dimAt' = [d \in Dims |-> IF dim'[d] = dim[d] THEN dimAt[d] ELSE at]
    /\ mcAt' = [m \in Mcs |-> IF mc'[m] = mc[m] THEN mcAt[m] ELSE at]
    /\ dimLog' = dimLog \cup DimEntries(ctx', dim, dim', dimAt')
    /\ mcLog' = mcLog \cup McEntries(ctx', mc, mc', mcAt')

Audited(dimension, master_code, minimum) ==
    Installed(dimension, master_code, minimum) /\ Flushed(ctx'.at)

-----------------------------------------------------------------------------
(***************************************************************************)
(* Mutations: a commit of the catalog, its context and its entries.        *)
(***************************************************************************)

\* A plain insert takes updated_at from the column default,
\* statement_timestamp(), and not from the context.
AuditedCreateDim(d, code, val) ==
    /\ CreateDimension(d, code, val)
    /\ Installed("CREATE", None, {})
    /\ \E default \in Times : Flushed(default)

\* Faulty: the MasterCodes of the fan-out are left out.
ChangeMinimumOwn(d, code) == {dimAt[d]}

\* The rows update_value holds: the Dimension and, when its code changes, the
\* MasterCodes that reference it.
ChangeMinimum(d, code) ==
    {dimAt[d]} \cup IF code \in {None, dim[d].code} THEN {}
                    ELSE {mcAt[m] : m \in {m \in Mcs : References(mc[m], d)}}

AuditedChangeDim(d, code, val) ==
    /\ ChangeDimension(d, code, val)
    /\ Audited("UPDATE", IF code = None THEN None ELSE "RECOMPOSE",
               ChangeMinimum(d, code))

AuditedDimLifecycle(d) ==
    \/ DeleteDimension(d) /\ Audited("DELETE", None, {dimAt[d]})
    \/ RestoreDimension(d) /\ Audited("RESTORE", None, {dimAt[d]})

\* The Dimension operation of a request that may bring inline Dimensions.
InlineOperation(refs) ==
    IF \E d \in RefDims(refs) : ~Exists(dim[d]) THEN "CREATE" ELSE None

AuditedCreateMc(m, refs, code, val) ==
    /\ CreateMasterCode(m, refs, code, val)
    /\ Audited(InlineOperation(refs), "CREATE", {})

AuditedReplaceRefs(m, refs, code, val) ==
    /\ ReplaceReferences(m, refs, code, val)
    /\ Audited(InlineOperation(refs), "REFERENCE_UPDATE", {mcAt[m]})

AuditedMcLifecycle(m) ==
    \/ Delete(m) /\ Audited(None, "DELETE", {mcAt[m]})
    \/ Restore(m) /\ Audited(None, "RESTORE", {mcAt[m]})

-----------------------------------------------------------------------------
\* The rows of the seed were inserted, and the deleted ones then deleted, by
\* earlier change sets (0 stands for all of them) at the first instant.
SeedContext == [cs |-> 0, dimension |-> "CREATE", master_code |-> "CREATE",
                at |-> Min(Times)]
Inserted(row) == [row EXCEPT !.st = "active", !.version = 1]
SeedDims(D) == [d \in Dims |-> IF Exists(D[d]) THEN Inserted(D[d]) ELSE NoDim]
SeedMcs(M) == [m \in Mcs |-> IF Exists(M[m]) THEN Inserted(M[m]) ELSE NoMc]
FirstInstant(ids) == [i \in ids |-> Min(Times)]

AuditInit ==
    /\ AtomicInit
    /\ ctx = SeedContext
    /\ dimAt = FirstInstant(Dims)
    /\ mcAt = FirstInstant(Mcs)
    /\ dimLog = DimEntries(ctx, [d \in Dims |-> NoDim], SeedDims(dim), dimAt)
                    \cup DimEntries(ctx, SeedDims(dim), dim, dimAt)
    /\ mcLog = LET deletion == [ctx EXCEPT !.master_code = "DELETE"]
               IN  McEntries(ctx, [m \in Mcs |-> NoMc], SeedMcs(mc), mcAt)
                    \cup McEntries(deletion, SeedMcs(mc), mc, mcAt)

AuditNext ==
    \/ \E d \in Dims, code \in Codes, val \in Vals : AuditedCreateDim(d, code, val)
    \/ \E d \in Dims, code \in Codes \cup {None}, val \in Vals \cup {None} :
            AuditedChangeDim(d, code, val)
    \/ \E d \in Dims : AuditedDimLifecycle(d)
    \/ \E m \in Mcs, refs \in Refs, code \in Codes, val \in Vals :
            \/ AuditedCreateMc(m, refs, code, val)
            \/ AuditedReplaceRefs(m, refs, code, val)
    \/ \E m \in Mcs : AuditedMcLifecycle(m)

AuditSpec == AuditInit /\ [][AuditNext]_auditVars

-----------------------------------------------------------------------------
(***************************************************************************)
(* BEFORE triggers and log constraints.  A refused row would roll the      *)
(* whole transaction back as an unexpected error; TriggersAccept says that *)
(* this never happens, so that Next has no action for it.                  *)
(***************************************************************************)

\* mdm_current_mutation_audit_context: what every trigger asks of the context
\* before it looks at the row.
ContextAccepted(c) ==
    /\ c.dimension \in {None, "CREATE", "UPDATE", "DELETE", "RESTORE"}
    /\ c.master_code \in {None, "CREATE", "REFERENCE_UPDATE", "RECOMPOSE", "DELETE", "RESTORE"}
    /\ c.dimension # None \/ c.master_code # None

\* version + 1, updated_at the mutation timestamp and not before the old one.
TechnicalFields(c, old, new, oldAt, newAt) ==
    new.version = old.version + 1 /\ newAt = c.at /\ oldAt <= newAt

\* mdm_dimension_*_before_write.
DimensionBeforeWrite(c, M, d, old, new, oldAt, newAt) ==
    LET change == TechnicalFields(c, old, new, oldAt, newAt)
        same == new.code = old.code /\ new.val = old.val
    IN  CASE ~Exists(old) ->
                c.dimension = "CREATE" /\ new.version = 1 /\ new.st = "active"
          [] Exists(old) /\ c.dimension = "DELETE" ->
                /\ same /\ old.st = "active" /\ new.st = "deleted" /\ change
                /\ \A m \in Mcs : References(M[m], d) => M[m].st # "active"
          [] Exists(old) /\ c.dimension = "RESTORE" ->
                same /\ old.st = "deleted" /\ new.st = "active" /\ change
          [] OTHER ->
                /\ c.dimension = "UPDATE"
                /\ old.st = "active" /\ new.st = "active" /\ change
                /\ new.code # old.code => c.master_code = "RECOMPOSE"

\* mdm_master_code_before_write.
MasterCodeBeforeWrite(c, old, new, oldAt, newAt) ==
    LET change == TechnicalFields(c, old, new, oldAt, newAt)
        moved == new.refs # old.refs
    IN  CASE ~Exists(old) ->
                /\ c.master_code = "CREATE" /\ new.version = 1
                /\ newAt = c.at /\ new.st = "active"
          [] Exists(old) /\ c.master_code = "RECOMPOSE" ->
                ~moved /\ new.code # old.code /\ new.st = old.st /\ change
          [] Exists(old) /\ c.master_code = "REFERENCE_UPDATE" ->
                /\ moved /\ new.code # old.code /\ change
                /\ old.st = "active" /\ new.st = "active"
          [] Exists(old) /\ c.master_code = "DELETE" ->
                /\ ~moved /\ new.code = old.code /\ change
                /\ old.st = "active" /\ new.st = "deleted"
          [] Exists(old) /\ c.master_code = "RESTORE" ->
                ~moved /\ old.st = "deleted" /\ new.st = "active" /\ change
          [] OTHER -> FALSE

\* What the CHECK constraints of the log tables admit as an entry.
DimEntryAccepted(e) ==
    \/ e.operation = "CREATE" /\ e.field # "DELETED" /\ e.old = None /\ e.new # None
    \/ /\ e.operation = "UPDATE" /\ e.field # "DELETED"
       /\ e.old # None /\ e.new # None /\ e.old # e.new
    \/ e.operation = "DELETE" /\ e.field = "DELETED" /\ ~e.old /\ e.new
    \/ e.operation = "RESTORE" /\ e.field = "DELETED" /\ e.old /\ ~e.new
McEntryAccepted(e) == e.operation = "CREATE" <=> e.old = None

\* The unique keys of the log tables.
LogKeysUnique ==
    /\ \A e, f \in dimLog :
        e.id = f.id /\ e.cs = f.cs /\ e.field = f.field => e = f
    /\ \A e, f \in mcLog : e.id = f.id /\ e.version = f.version => e = f

\* Everything the application writes passes the triggers and the constraints
\* of the log tables, even when the clock of the database goes backwards: no
\* mutation that the repositories accept ends as an unexpected error.
TriggersAccept ==
    [][/\ ContextAccepted(ctx')
       /\ \A d \in Dims : dim'[d] # dim[d] =>
            DimensionBeforeWrite(ctx', mc', d, dim[d], dim'[d], dimAt[d], dimAt'[d])
       /\ \A m \in Mcs : mc'[m] # mc[m] =>
            MasterCodeBeforeWrite(ctx', mc[m], mc'[m], mcAt[m], mcAt'[m])
       /\ \A e \in dimLog' \ dimLog : DimEntryAccepted(e)
       /\ \A e \in mcLog' \ mcLog : McEntryAccepted(e)
       /\ LogKeysUnique']_auditVars

-----------------------------------------------------------------------------
(***************************************************************************)
(* What the logs are good for.                                             *)
(***************************************************************************)
Newest(entries) == CHOOSE e \in entries : \A f \in entries : f.version <= e.version

ReplayedDim(d) ==
    LET of(field) == {e \in dimLog : e.id = d /\ e.field = field}
        all == {e \in dimLog : e.id = d}
    IN  IF all = {} THEN NoDim
        ELSE [st |-> IF of("DELETED") # {} /\ Newest(of("DELETED")).new = TRUE
                     THEN "deleted" ELSE "active",
              code |-> Newest(of("CODE")).new,
              val |-> Newest(of("VALUE")).new,
              version |-> Newest(all).version]

ReplayedMc(m) ==
    LET all == {e \in mcLog : e.id = m}
        state == Newest(all).new
    IN  IF all = {} THEN NoMc
        ELSE [st |-> IF state.deleted THEN "deleted" ELSE "active",
              refs |-> state.refs, code |-> state.code,
              version |-> Newest(all).version]

\* The two tables of the catalog, read back from the logs.
ReplayedDims == [d \in Dims |-> ReplayedDim(d)]
ReplayedMcs == [m \in Mcs |-> ReplayedMc(m)]

Replayed == INSTANCE AtomicCatalog WITH dim <- ReplayedDims, mc <- ReplayedMcs

\* The logs are a complete account of the catalog: a reader who only has the
\* log tables sees the atomic catalog, one whole operation at a time.
LogsImplementCatalog == Replayed!AtomicSpec

\* Every row is what its log entries say, and was last updated when the
\* newest of them says: no write of any use case escapes the triggers.
RowsReplayFromLogs ==
    /\ \A d \in Dims : dim[d] = ReplayedDim(d)
    /\ \A m \in Mcs : mc[m] = ReplayedMc(m)
    /\ \A d \in Dims : Exists(dim[d]) =>
        \A e \in dimLog : e.id = d /\ e.version = dim[d].version => e.at = dimAt[d]

\* The state of a MasterCode just before a change set.
StateBefore(m, cs) == Newest({e \in mcLog : e.id = m /\ e.cs < cs}).new

\* A code change and the recompositions it causes are one change set at one
\* instant: every recomposition replaces exactly the code one Dimension entry
\* of its change set replaced, and no MasterCode that referenced the Dimension
\* is missing from it.
RecompositionsExplained ==
    /\ \A e \in mcLog : e.operation = "RECOMPOSE" =>
        \E f \in dimLog :
            /\ f.cs = e.cs /\ f.at = e.at
            /\ f.operation = "UPDATE" /\ f.field = "CODE"
            /\ f.id \in RefDims(e.new.refs)
            /\ e.old.code[SlotOf[f.id]] = f.old
            /\ e.new.code = [e.old.code EXCEPT ![SlotOf[f.id]] = f.new]
    /\ \A f \in dimLog : f.operation = "UPDATE" /\ f.field = "CODE" =>
        \A m \in {e.id : e \in {e \in mcLog : e.cs < f.cs}} :
            f.id \in RefDims(StateBefore(m, f.cs).refs) =>
                \E e \in mcLog :
                    e.id = m /\ e.cs = f.cs /\ e.operation = "RECOMPOSE"

=============================================================================
