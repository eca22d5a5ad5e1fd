------------------------------ MODULE Listings -------------------------------
(***************************************************************************)
(* Paged listings: a client walks a table page by page with the cursor of  *)
(* the page before, while other transactions insert, commit and change     *)
(* rows.  Every page is one statement with a snapshot of its own; nothing  *)
(* is kept on the server between two pages.                                *)
(*                                                                         *)
(* A row's position is (timestamp descending, source ascending, id         *)
(* descending), and its timestamp is taken by the INSERT, not by COMMIT.   *)
(* Only the audit logs have several sources.  The tag is what filters and  *)
(* visibility look at: deletion of master data, role of a user, status of  *)
(* a request, change set of a log entry.                                   *)
(***************************************************************************)
EXTENDS Naturals, Sequences, FiniteSets

CONSTANTS
    Kinds,       \* the listings of a run
    Ids,         \* row ids, in UUID order
    SourceOf,    \* the log table of a row, numbered in the order of its name
    Tags,        \* filterable attributes
    Shown,       \* the tag of active rows, of plain users, of pending requests
    Unset,       \* no filter, no cursor
    MaxTime,     \* bound: readings of the database clock
    Limits       \* page sizes a client asks for

ASSUME IdsAssumption == Ids \subseteq Nat /\ SourceOf \in [Ids -> Nat]
ASSUME TagsAssumption == Shown \in Tags /\ Unset \notin Tags \cup Nat
ASSUME LimitsAssumption == Limits \subseteq Nat \ {0} /\ MaxTime \in Nat

VARIABLES
    kind,        \* the listing that is walked
    row,         \* the table: state, timestamp and tag of every id
    now,         \* the clock of the database
    scope,       \* may the caller see every user, or plain users only?
    query,       \* the filters of the walk
    cursor,      \* what the client got with the last page
    pages,       \* the pages received so far, each a set of ids
    phase,       \* "new", "open", "done" or "refused"
    served,      \* the filters and the visibility each page was read under
    kept,        \* rows that matched from the first page on until now
    early        \* rows that were committed when the first page was read

client == <<query, cursor, pages, phase, served, early>>
listingVars == <<kind, row, now, scope, client, kept>>

Source(r) == IF kind = "audit" THEN SourceOf[r] ELSE 0

\* Listing order.
Precedes(q, r) ==
    \/ row[q].at > row[r].at
    \/ row[q].at = row[r].at /\ Source(q) < Source(r)
    \/ row[q].at = row[r].at /\ Source(q) = Source(r) /\ q > r

\* ORDER BY ... LIMIT n.
FirstRows(rows, n) == {r \in rows : Cardinality({q \in rows : Precedes(q, r)}) < n}
LastRow(rows) == CHOOSE r \in rows : \A q \in rows \ {r} : Precedes(q, r)

-----------------------------------------------------------------------------
(***************************************************************************)
(* The statements of the repositories.                                     *)
(***************************************************************************)
Committed == {r \in Ids : row[r].st = "committed"}
Filtered(q) ==
    {r \in Committed : /\ q.tag # Unset => row[r].tag = q.tag
                       /\ q.source # Unset => Source(r) = q.source}

\* The cursor condition of a single table.
Beyond(r, after) ==
    \/ after = Unset
    \/ row[r].at < after.at
    \/ row[r].at = after.at /\ r < after.id

\* list_active of the Dimension tables and of the MasterCodes.
ListActive(q, after, limit) ==
    FirstRows({r \in Filtered(q) : Beyond(r, after)}, limit + 1)

\* list of the change requests.
ListRequests(q, after, limit) ==
    FirstRows({r \in Filtered(q) : Beyond(r, after)}, limit + 1)

\* list_users: what the caller's role may see, then the filters.
VisibleUsers == {r \in Committed : scope = "all" \/ row[r].tag = Shown}
ListUsers(q, after, limit) ==
    FirstRows({r \in Filtered(q) \cap VisibleUsers : Beyond(r, after)}, limit + 1)

\* Faulty: one comparison for all sources.
AfterInSourceUniform(r, after) == Beyond(r, after)

\* The cursor condition of one branch of the union: sources after the one of
\* the cursor still have to show their entries of the same instant.
AfterInSource(r, after) ==
    after = Unset \/ CASE Source(r) = after.source -> Beyond(r, after)
                      [] Source(r) > after.source -> row[r].at <= after.at
                      [] OTHER -> row[r].at < after.at

\* _source_statement: one log table, limited on its own.
SourceStatement(s, q, after, limit) ==
    FirstRows({r \in Filtered(q) : Source(r) = s /\ AfterInSource(r, after)}, limit + 1)

\* build_audit_log_statement.
ListLogs(q, after, limit) ==
    IF q.source # Unset THEN SourceStatement(q.source, q, after, limit)
    ELSE FirstRows(UNION {SourceStatement(Source(s), q, after, limit) : s \in Ids},
               limit + 1)

-----------------------------------------------------------------------------
(***************************************************************************)
(* Cursors: the position of the last item; those of the logs and the users *)
(* carry a fingerprint of what they were issued for.                       *)
(***************************************************************************)
Cursor(r, print) ==
    [at |-> row[r].at, source |-> Source(r), id |-> r, print |-> print]

LogFingerprint(q) == <<q, Unset>>

\* Faulty: the caller's visibility is left out.
UserFingerprintFilters(q) == <<q, Unset>>

UserFingerprint(q) == <<q, scope>>

\* A page as the client gets it: limit rows, and a cursor if there are more.
AnswerPage(q, rows, limit, print) ==
    LET items == FirstRows(rows, limit)
        more == Cardinality(rows) > limit
    IN  /\ pages' = Append(pages, items)
        /\ cursor' = IF more /\ items # {} THEN Cursor(LastRow(items), print) ELSE Unset
        /\ phase' = IF more /\ items # {} THEN "open" ELSE "done"
        /\ query' = q
        /\ served' = Append(served, <<q, scope>>)
        /\ kept' = IF phase = "new"
                   THEN {r \in Filtered(q) : kind = "users" => r \in VisibleUsers}
                   ELSE kept
        /\ early' = IF phase = "new" THEN Committed ELSE early
        /\ UNCHANGED <<kind, row, now, scope>>

\* 422: the cursor was issued for something else.
Refuse ==
    /\ phase' = "refused"
    /\ UNCHANGED <<kind, row, now, scope, query, cursor, pages, served, early, kept>>

\* The client asks for the first page, or for the next one with its cursor.
Asks(k) == kind = k /\ phase \in {"new", "open"}

ActiveOnly == [tag |-> Shown, source |-> Unset]

FetchActive(limit) ==
    /\ Asks("active")
    /\ AnswerPage(ActiveOnly, ListActive(ActiveOnly, cursor, limit), limit, Unset)

\* The cursor is not bound to the filter; the client is told to keep it.
FetchRequests(limit, q) ==
    /\ Asks("requests")
    /\ phase = "open" => q = query
    /\ AnswerPage(q, ListRequests(q, cursor, limit), limit, Unset)

FetchUsers(limit, q) ==
    /\ Asks("users")
    /\ IF cursor # Unset /\ cursor.print # UserFingerprint(q) THEN Refuse
       ELSE AnswerPage(q, ListUsers(q, cursor, limit), limit, UserFingerprint(q))

FetchLogs(limit, q) ==
    /\ Asks("audit")
    /\ IF cursor # Unset /\ cursor.print # LogFingerprint(q) THEN Refuse
       ELSE AnswerPage(q, ListLogs(q, cursor, limit), limit, LogFingerprint(q))

-----------------------------------------------------------------------------
(***************************************************************************)
(* Other transactions.                                                     *)
(***************************************************************************)
Others == <<kind, scope, client>>

Tick == now < MaxTime /\ now' = now + 1 /\ UNCHANGED <<row, kept, Others>>

\* An INSERT takes its timestamp and its place; COMMIT shows it.
Insert(r, tag) ==
    /\ row[r].st = "absent"
    /\ row' = [row EXCEPT ![r] = [st |-> "flight", at |-> now, tag |-> tag]]
    /\ UNCHANGED <<now, kept, Others>>

Commit(r) ==
    /\ row[r].st = "flight"
    /\ row' = [row EXCEPT ![r].st = "committed"]
    /\ UNCHANGED <<now, kept, Others>>

\* A deletion or restoration, a role change, the review of a request.  Log
\* entries never change, a reviewed request stays reviewed.
Retag(r, tag) ==
    /\ row[r].st = "committed"
    /\ kind # "audit"
    /\ kind = "requests" => row[r].tag = Shown
    /\ row[r].tag # tag
    /\ row' = [row EXCEPT ![r].tag = tag]
    /\ kept' = {x \in kept : /\ query.tag # Unset => row'[x].tag = query.tag
                             /\ served[1][2] = "users" => row'[x].tag = Shown}
    /\ UNCHANGED <<now, Others>>

\* The caller is promoted or demoted between two pages.
ChangeScope ==
    /\ kind = "users"
    /\ scope' = IF scope = "all" THEN "users" ELSE "all"
    /\ UNCHANGED <<kind, row, now, client, kept>>

-----------------------------------------------------------------------------
NoRow == [st |-> "absent", at |-> 0, tag |-> Shown]
Queries == [tag : Tags \cup {Unset}, source : {Unset}]
LogQueries == [tag : {Shown}, source : {Unset} \cup {SourceOf[r] : r \in Ids}]

\* What a cursor decodes to.
Prints == {Unset} \cup (Queries \cup LogQueries) \X {Unset, "all", "users"}
Cursors == [at : Nat, source : Nat, id : Nat, print : Prints]

ASSUME CursorSentinel == Unset \notin Cursors

ListingInit ==
    /\ kind \in Kinds
    /\ row = [r \in Ids |-> NoRow]
    /\ now = 1
    /\ scope = "all"
    /\ query = [tag |-> Unset, source |-> Unset]
    /\ cursor = Unset
    /\ pages = <<>>
    /\ phase = "new"
    /\ served = <<>>
    /\ kept = {}
    /\ early = {}

ListingNext ==
    \/ Tick
    \/ \E r \in Ids, tag \in Tags : Insert(r, tag) \/ Retag(r, tag)
    \/ \E r \in Ids : Commit(r)
    \/ ChangeScope
    \/ \E limit \in Limits :
        \/ FetchActive(limit)
        \/ \E q \in Queries : FetchRequests(limit, q) \/ FetchUsers(limit, q)
        \/ \E q \in LogQueries : FetchLogs(limit, q)

ListingSpec == ListingInit /\ [][ListingNext]_listingVars

-----------------------------------------------------------------------------
Received == UNION {pages[i] : i \in 1..Len(pages)}

\* A walk returns nothing twice: its pages descend strictly through the list.
\* One that reaches the end has returned every row that matched from its first
\* page on: no insert, commit or change in between, no entry of another log
\* table and no change of the page size makes a page skip or repeat a row.
WalksAreComplete ==
    /\ \A i, j \in 1..Len(pages) : i < j =>
        \A q \in pages[i], r \in pages[j] : q # r /\ Precedes(q, r)
    /\ phase = "done" => kept \subseteq Received

\* All pages of one walk are read under the same filters and the same
\* visibility: a cursor does not survive a change of either.
OneQueryPerWalk ==
    \A i, j \in 1..Len(served) : kind \in {"users", "audit"} => served[i] = served[j]

\* The documented promise of the Dimension and MasterCode listings: rows that
\* appear during a walk lie before the position it has reached and do not get
\* into its later pages.
LaterPagesAreOld ==
    kind = "active" => \A i \in 2..Len(pages) : pages[i] \subseteq early

=============================================================================
