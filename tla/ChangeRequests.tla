--------------------------- MODULE ChangeRequests ---------------------------
(***************************************************************************)
(* MasterCode change requests: a user submits a proposal, an administrator *)
(* approves it, possibly modified, or rejects it.  An approval locks the   *)
(* request row, applies the proposal with the catalog's own statements and *)
(* records the review in the same transaction, so it composes with Catalog:*)
(* a review is a Catalog transaction that also holds a request row.        *)
(***************************************************************************)
EXTENDS Catalog

CONSTANTS
    Requests,   \* change request ids
    Inline      \* a slot for which the proposal brings a new Dimension

ASSUME InlineAssumption == Inline \notin Dims \cup {None, Keep}

VARIABLES
    request,    \* committed change request rows
    desk        \* the review each transaction carries out, if any

rvars == <<vars, request, desk>>

-----------------------------------------------------------------------------
(***************************************************************************)
(* Proposals and requests.                                                 *)
(***************************************************************************)
Approvals == {"APPROVED", "MODIFIED_AND_APPROVED"}
ProposalKinds == {"CreateMc"} \cup TargetKinds

NoProposal == [kind |-> "none", m |-> None, sel |-> NoChoice,
               code |-> None, val |-> None, etag |-> NoEtag]

NoRequest == [status |-> "absent", original |-> NoProposal,
              approved |-> NoProposal, message |-> FALSE]
NoReview == [stage |-> "none", req |-> None, verdict |-> "none",
             plan |-> NoProposal, message |-> FALSE]

\* validate_proposal: every slot is filled in for CREATE and RESTORE, at
\* least one for a reference update, none for DELETE; a restoration brings no
\* new Dimension; a new Dimension brings its code and value.
Filled(sel) == \A s \in Slots : sel[s] # Keep
Brings(sel) == \E s \in Slots : sel[s] = Inline
ValidProposal(p) ==
    /\ p.kind \in {"CreateMc", "RestoreMc"} => Filled(p.sel)
    /\ p.kind = "UpdateMc" => \E s \in Slots : p.sel[s] # Keep
    /\ p.kind = "DeleteMc" => \A s \in Slots : p.sel[s] = Keep
    /\ p.kind = "RestoreMc" => ~Brings(p.sel)
    /\ (p.kind = "CreateMc") = (p.m = None)

\* The proposals a client can make of what it reads now.  A new Dimension is
\* proposed where the bounded pool of ids has one left.
Choices(s) ==
    {None, Keep} \cup Selectable(s) \cup (IF Inlinable(s) = {} THEN {} ELSE {Inline})
Selected == {f \in [Slots -> Dims \cup {None, Keep, Inline}] :
                \A s \in Slots : f[s] \in Choices(s)}
Forms(kind, m, sel) ==
    [kind : {kind}, m : {m}, sel : {sel},
     code : IF Brings(sel) THEN Codes ELSE {None},
     val : IF Brings(sel) THEN Vals ELSE {None},
     etag : {IF m = None THEN NoEtag ELSE Etag(mc[m], dim)}]
Proposals(kinds) ==
    {p \in UNION {Forms(kind, m, sel) : kind \in kinds, sel \in Selected,
                  m \in {n \in Mcs : Exists(mc[n])} \cup {None}} :
        ValidProposal(p)}

\* classify_approval: the operation and the target stay, except that a CREATE
\* may be approved as the RESTORE of a deleted row; a change needs a message.
KeepsTarget(original, p) ==
    \/ original.kind = "CreateMc" /\ p.kind = "RestoreMc"
    \/ original.kind = p.kind /\ original.m = p.m
ValidApproval(original, p, message) ==
    KeepsTarget(original, p) /\ (p = original \/ message)
ApprovalStatus(original, p) ==
    IF p = original THEN "APPROVED" ELSE "MODIFIED_AND_APPROVED"

-----------------------------------------------------------------------------
ReviewInit ==
    /\ Init
    /\ request = [r \in Requests |-> NoRequest]
    /\ desk = [t \in Txs |-> NoReview]

\* submit: one INSERT.  Nothing is looked up in the catalog, and a user may
\* not propose a RESTORE.
Submit(r) ==
    /\ request[r].status = "absent"
    /\ \E p \in Proposals(ProposalKinds \ {"RestoreMc"}) :
        request' = [request EXCEPT ![r] =
                        [NoRequest EXCEPT !.status = "PENDING", !.original = p]]
    /\ UNCHANGED <<vars, desk>>

\* A review arrives: approval as submitted, approval of another proposal made
\* from what the reviewer sees now, or rejection with its message.  (An
\* approval that would be refused for two reasons at once is left out.)
Ask(t, r, verdict, p, message) ==
    /\ request[r].status # "absent"
    /\ desk' = [desk EXCEPT ![t] = [stage |-> "asked", req |-> r,
                    verdict |-> verdict, plan |-> p, message |-> message]]
    /\ UNCHANGED <<vars, request>>

AskReview(t) ==
    /\ pc[t] = "idle"
    /\ desk[t].stage = "none"
    /\ \E r \in Requests :
        \/ \E message \in BOOLEAN : Ask(t, r, "approve", request[r].original, message)
        \/ \E p \in Proposals(ProposalKinds), message \in BOOLEAN :
                /\ message \/ KeepsTarget(request[r].original, p)
                /\ Ask(t, r, "approve", p, message)
        \/ Ask(t, r, "reject", NoProposal, TRUE)

\* Faulty: the request is read without FOR UPDATE.
NoRequestBlockers(t, r) == {}

RequestBlockers(t, r) ==
    {u \in Txs \ {t} : desk[u].stage = "held" /\ desk[u].req = r}

Close(t, stage) == desk' = [desk EXCEPT ![t].stage = stage]

\* approve, up to the first catalog statement: the request FOR UPDATE, still
\* pending, the approval valid; ids are drawn for the rows to be inserted.
LockRequest(t) ==
    LET p == desk[t].plan
        r == desk[t].req
        original == request[r].original
    IN  /\ desk[t].stage = "asked"
        /\ desk[t].verdict = "approve"
        /\ RequestBlockers(t, r) = {}
        /\ IF request[r].status # "PENDING"
           THEN Close(t, "already_reviewed") /\ UNCHANGED <<vars, request>>
           ELSE IF ~ValidApproval(original, p, desk[t].message)
           THEN Close(t, "invalid_review") /\ UNCHANGED <<vars, request>>
           ELSE /\ Close(t, "held")
                /\ \E m \in Mcs, sel \in Selections :
                    /\ IF p.m = None THEN FreshMcId(m) ELSE m = p.m
                    /\ \A s \in Slots :
                        IF p.sel[s] = Inline THEN sel[s] \in Inlinable(s)
                        ELSE sel[s] = p.sel[s]
                    /\ Request(t, McOp(p.kind, m, sel,
                                    {sel[s] : s \in {z \in Slots : p.sel[z] = Inline}},
                                    p.code, p.val, p.etag, TRUE),
                               IF p.kind = "CreateMc" THEN "resolve" ELSE "begin")
                /\ UNCHANGED request

\* The rest of approve: the catalog's statements, then the review is written
\* to the request row by the transaction that commits the catalog change.
ApplyReview(t) ==
    LET r == desk[t].req
        p == desk[t].plan
    IN  /\ desk[t].stage = "held"
        /\ Step(t) \/ DeadlockVictim(t) \/ ConnectionLost(t)
        /\ IF pc'[t] = "committed"
           THEN /\ request' = [request EXCEPT
                        ![r].status = ApprovalStatus(request[r].original, p),
                        ![r].approved = p, ![r].message = desk[t].message]
                /\ Close(t, "reviewed")
           ELSE /\ IF pc'[t] \in Outcomes THEN Close(t, "failed") ELSE UNCHANGED desk
                /\ UNCHANGED request

\* Faulty: the status is not looked at again under the lock.
RejectUnchecked(t) ==
    /\ desk[t].stage = "asked"
    /\ desk[t].verdict = "reject"
    /\ RequestBlockers(t, desk[t].req) = {}
    /\ request' = [request EXCEPT ![desk[t].req].status = "REJECTED",
                                  ![desk[t].req].message = TRUE]
    /\ Close(t, "reviewed")
    /\ UNCHANGED vars

\* reject: the request FOR UPDATE, still pending, and its final state.
Reject(t) ==
    LET r == desk[t].req
    IN  /\ desk[t].stage = "asked"
        /\ desk[t].verdict = "reject"
        /\ RequestBlockers(t, r) = {}
        /\ IF request[r].status # "PENDING"
           THEN Close(t, "already_reviewed") /\ UNCHANGED request
           ELSE /\ request' = [request EXCEPT ![r].status = "REJECTED",
                                              ![r].message = TRUE]
                /\ Close(t, "reviewed")
        /\ UNCHANGED vars

\* Requests to the catalog that no review is behind.
Direct(t) ==
    /\ desk[t].stage = "none"
    /\ Begin(t) \/ Step(t) \/ DeadlockVictim(t) \/ ConnectionLost(t)
    /\ UNCHANGED <<request, desk>>

ReviewNext ==
    \/ \E r \in Requests : Submit(r)
    \/ \E t \in Txs :
        AskReview(t) \/ LockRequest(t) \/ ApplyReview(t) \/ Reject(t) \/ Direct(t)

ReviewSpec == ReviewInit /\ [][ReviewNext]_rvars

-----------------------------------------------------------------------------
Applications(r) == {t \in Txs : op[t].review /\ desk[t].req = r /\ pc[t] = "committed"}

\* A proposal is applied exactly once if its request is recorded as approved
\* and never otherwise, whatever reviews race, fail or are repeated.
AppliedExactlyOnce ==
    \A r \in Requests :
        Cardinality(Applications(r)) =
            IF request[r].status \in Approvals THEN 1 ELSE 0

\* An approval is recorded only in the step that changes the catalog, and for
\* a target only while the approved ETag still describes it: a request that
\* went stale while pending cannot be approved as it was submitted.
ApprovalsAreCurrent ==
    [][\A r \in Requests :
        request'[r].status \in Approvals /\ request[r].status \notin Approvals =>
            /\ mc' # mc
            /\ request'[r].approved.m # None =>
                Etag(mc[request'[r].approved.m], dim) = request'[r].approved.etag]_rvars

-----------------------------------------------------------------------------
(***************************************************************************)
(* The CHECK constraints and the trigger of master_code_change_requests.   *)
(***************************************************************************)
HasPayload(p) == p.sel # NoChoice
HasTarget(p) == p.m # None /\ p.etag # NoEtag

\* ck_change_requests_original, and what ck_change_requests_review asks of
\* the approved proposal by itself.
OriginalAccepted(p) ==
    \/ p.kind = "CreateMc" /\ p.m = None /\ p.etag = NoEtag /\ HasPayload(p)
    \/ p.kind = "UpdateMc" /\ HasTarget(p) /\ HasPayload(p)
    \/ p.kind = "DeleteMc" /\ HasTarget(p) /\ ~HasPayload(p)
ApprovedAccepted(p) ==
    OriginalAccepted(p) \/ (p.kind = "RestoreMc" /\ HasTarget(p) /\ HasPayload(p))

\* ck_change_requests_review.
ReviewAccepted(row) ==
    LET o == row.original
        p == row.approved
    IN  \/ row.status = "PENDING" /\ p = NoProposal /\ ~row.message
        \/ row.status = "REJECTED" /\ p = NoProposal /\ row.message
        \/ /\ row.status \in Approvals
           /\ ApprovedAccepted(p)
           /\ \/ p.kind = o.kind /\ p.m = o.m
              \/ o.kind = "CreateMc" /\ p.kind = "RestoreMc"
           /\ row.status = "APPROVED" => p = o
           /\ row.status = "MODIFIED_AND_APPROVED" => p # o /\ row.message

\* mdm_change_request_before_write.
ChangeRequestBeforeWrite(old, new) ==
    \/ old = NoRequest /\ new.status = "PENDING"
    \/ /\ old.status = "PENDING" /\ new.status # "PENDING"
       /\ new.original = old.original

\* The request table accepts whatever submissions and racing reviews write,
\* so that a review is final, leaves the submission as it was, and never ends
\* as an unexpected error after it has changed the catalog.
RequestTableAccepts ==
    [][\A r \in Requests : request'[r] # request[r] =>
        /\ ChangeRequestBeforeWrite(request[r], request'[r])
        /\ OriginalAccepted(request'[r].original)
        /\ ReviewAccepted(request'[r])]_rvars

=============================================================================
