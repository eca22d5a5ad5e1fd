------------------------- MODULE ChangeRequestsProofs -------------------------
(***************************************************************************)
(* Change requests on top of the catalog, for every number of requests,    *)
(* reviewers and concurrent transactions.                                  *)
(*                                                                         *)
(* A review is a catalog transaction that also holds a request row.  So    *)
(* everything that was proved of the catalog's transactions holds with     *)
(* reviews among them, once the transaction a review starts fits the       *)
(* catalog: its proposal was made from rows that existed, and rows stay    *)
(* (WellFormed).  That a proposal is applied once comes from the row lock: *)
(* while a review holds its request, the request is pending (Reviewing).   *)
(***************************************************************************)
EXTENDS ChangeRequests, CatalogProofs, FiniteSetTheorems

EtagValues == Nat \X [Slots -> (Dims \cup {None}) \X Nat]

\* A proposal, at any time after it was made.
Proposal == [kind : ProposalKinds, m : Mcs \cup {None},
             sel : [Slots -> Dims \cup {None, Keep, Inline}],
             code : Codes \cup {None}, val : Vals \cup {None}, etag : EtagValues]
WellFormed(p) ==
    /\ p \in Proposal
    /\ ValidProposal(p)
    /\ \A s \in Slots : p.sel[s] \in Dims => SlotOf[p.sel[s]] = s
    /\ Brings(p.sel) => p.code \in Codes /\ p.val \in Vals
    /\ IF p.m = None THEN p.etag = NoEtag
       ELSE Exists(mc[p.m]) /\ p.etag # NoEtag

Row == [status : {"absent", "PENDING", "REJECTED"} \cup Approvals,
        original : Proposal \cup {NoProposal}, approved : Proposal \cup {NoProposal},
        message : BOOLEAN]
RequestOK(r) ==
    /\ request[r].status = "absent" => request[r] = NoRequest
    /\ request[r].status # "absent" =>
        WellFormed(request[r].original) /\ request[r].original.kind # "RestoreMc"
    /\ request[r].status = "PENDING" =>
        request[r].approved = NoProposal /\ ~request[r].message

Stages == {"none", "asked", "held", "reviewed", "failed", "already_reviewed",
           "invalid_review"}
Review == [stage : Stages, req : Requests \cup {None},
           verdict : {"none", "approve", "reject"},
           plan : Proposal \cup {NoProposal}, message : BOOLEAN]

\* A transaction with a review behind it, from the click to its end.
Asked(t) ==
    /\ desk[t].stage # "none" =>
        /\ desk[t].req \in Requests /\ request[desk[t].req].status # "absent"
        /\ desk[t].verdict # "none"
        /\ desk[t].verdict = "approve" => WellFormed(desk[t].plan)
    /\ desk[t].stage \in {"asked", "already_reviewed", "invalid_review"} => pc[t] = "idle"
    /\ pc[t] = "idle" \/ desk[t].stage = "none" => ~op[t].review

\* Its request stays pending while it is held, and it is the only holder.
Reviewing(t) ==
    desk[t].stage = "held" =>
        /\ desk[t].verdict = "approve"
        /\ pc[t] \in Running /\ op[t].review
        /\ op[t].kind = desk[t].plan.kind /\ op[t].etag = desk[t].plan.etag
        /\ desk[t].plan.m # None => op[t].m = desk[t].plan.m
        /\ request[desk[t].req].status = "PENDING"
        /\ ValidApproval(request[desk[t].req].original, desk[t].plan, desk[t].message)
        /\ RequestBlockers(t, desk[t].req) = {}

\* Committed with it, or not.
Approver(t) == desk[t].stage = "reviewed" /\ desk[t].verdict = "approve"
Reviewed(t) ==
    /\ desk[t].stage = "failed" => pc[t] # "committed"
    /\ Approver(t) =>
        /\ pc[t] = "committed" /\ op[t].review
        /\ request[desk[t].req].status \in Approvals
    /\ desk[t].stage = "reviewed" /\ desk[t].verdict # "approve" => pc[t] = "idle"

OneApprover ==
    /\ \A t, u \in Txs : Approver(t) /\ Approver(u) /\ desk[t].req = desk[u].req => t = u
    /\ \A r \in Requests : request[r].status \in Approvals =>
            \E t \in Txs : Approver(t) /\ desk[t].req = r

ReviewInv ==
    /\ SessionInv
    /\ request \in [Requests -> Row] /\ desk \in [Txs -> Review]
    /\ \A r \in Requests : RequestOK(r)
    /\ \A t \in Txs : Asked(t) /\ Reviewing(t) /\ Reviewed(t)
    /\ OneApprover

-----------------------------------------------------------------------------
(***************************************************************************)
(* Proposals.                                                              *)
(***************************************************************************)

\* No operation of the catalog removes a MasterCode row.
LEMMA RowsRemain ==
    ASSUME CatalogOK(dim, mc), [AtomicNext]_db, NEW m \in Mcs, Exists(mc[m])
    PROVE  Exists(mc'[m])
<1>1. mc \in [Mcs -> McRow] /\ mc[m].st \in {"active", "deleted"}
  BY McRowShape DEF CatalogOK, Exists
<1>2. CASE UNCHANGED mc
  BY <1>2
<1>3. ASSUME NEW d \in Dims, NEW code, NEW val, ChangeDimension(d, code, val)
      PROVE  Exists(mc'[m])
  <2>1. PICK D : mc'[m] = IF References(mc[m], d) THEN Recompose(mc[m], D) ELSE mc[m]
    BY <1>3 DEF ChangeDimension
  <2> QED
    BY <2>1, <1>1 DEF Recompose, NextMasterCode, Exists
<1>4. ASSUME NEW n \in Mcs, NEW refs, NEW code, NEW val, CreateMasterCode(n, refs, code, val)
      PROVE  Exists(mc'[m])
  BY <1>1, <1>4 DEF CreateMasterCode, NewMasterCode, Exists
<1>5. ASSUME NEW n \in Mcs, NEW refs, NEW code, NEW val, ReplaceReferences(n, refs, code, val)
      PROVE  Exists(mc'[m])
  BY <1>1, <1>5 DEF ReplaceReferences, UpdateReferences, NextMasterCode, Exists
<1>6. ASSUME NEW n \in Mcs, Delete(n) \/ Restore(n)
      PROVE  Exists(mc'[m])
  BY <1>1, <1>6 DEF Delete, DeleteMasterCode, Restore, RestoreMasterCode,
                    NextMasterCode, Exists
<1> QED
  BY <1>2, <1>3, <1>4, <1>5, <1>6
     DEF AtomicNext, CreateDimension, DeleteDimension, RestoreDimension, db

\* So a proposal stays well formed.
LEMMA ProposalsStay ==
    ASSUME SessionInv, [AtomicNext]_db
    PROVE  \A p : WellFormed(p) => WellFormed(p)'
<1> SUFFICES ASSUME NEW p, WellFormed(p) PROVE WellFormed(p)'
  OBVIOUS
<1>1. p.m # None => p.m \in Mcs /\ Exists(mc[p.m])
  BY DEF WellFormed, Proposal
<1>2. p.m # None => Exists(mc'[p.m])
  BY <1>1, RowsRemain DEF SessionInv
<1> QED
  BY <1>2 DEF WellFormed

\* What a client proposes of what it reads is well formed.
LEMMA ProposalsFit ==
    ASSUME SessionInv, NEW kinds \in SUBSET ProposalKinds, NEW p \in Proposals(kinds)
    PROVE  WellFormed(p) /\ p.kind \in kinds
<1>1. ValidProposal(p) /\ p \in UNION {Forms(kind, m, sel) : kind \in kinds, sel \in Selected,
                                        m \in {n \in Mcs : Exists(mc[n])} \cup {None}}
  BY DEF Proposals
<1>2. PICK kind \in kinds, sel \in Selected, m \in {n \in Mcs : Exists(mc[n])} \cup {None} :
        p \in Forms(kind, m, sel)
  BY <1>1
<1>3. /\ p.kind = kind /\ p.m = m /\ p.sel = sel
      /\ p.code \in (IF Brings(sel) THEN Codes ELSE {None})
      /\ p.val \in (IF Brings(sel) THEN Vals ELSE {None})
      /\ p.etag = IF m = None THEN NoEtag ELSE Etag(mc[m], dim)
      /\ p = [kind |-> p.kind, m |-> p.m, sel |-> p.sel, code |-> p.code,
              val |-> p.val, etag |-> p.etag]
  BY <1>2 DEF Forms
<1>4. sel \in [Slots -> Dims \cup {None, Keep, Inline}]
      /\ \A s \in Slots : sel[s] \in Choices(s)
  BY DEF Selected
<1>5. \A s \in Slots : sel[s] \in Dims => SlotOf[sel[s]] = s
  BY <1>4, SentinelAssumption, KeepAssumption, InlineAssumption DEF Choices, Selectable
<1>6. NoEtag \in EtagValues
  BY DEF NoEtag, EtagValues
<1>7. ASSUME m # None
      PROVE  /\ m \in Mcs /\ Exists(mc[m]) /\ Etag(mc[m], dim) \in EtagValues
             /\ Etag(mc[m], dim) # NoEtag
  <2>1. m \in Mcs /\ Exists(mc[m])
    BY <1>7
  <2>2. mc[m].version # 0
    BY <2>1, McRowShape DEF SessionInv, CatalogOK
  <2> QED
    BY <2>1, <2>2, EtagType DEF SessionInv, EtagValues, Etag, NoEtag
<1>8. p.etag \in EtagValues
  BY <1>3, <1>6, <1>7
<1>9. p \in Proposal
  BY <1>3, <1>4, <1>8 DEF Proposal
<1> QED
  BY <1>1, <1>3, <1>5, <1>7, <1>9 DEF WellFormed

-----------------------------------------------------------------------------
(***************************************************************************)
(* What a step of the catalog does to its transaction.                     *)
(***************************************************************************)
Moves(t) == Step(t) \/ DeadlockVictim(t) \/ ConnectionLost(t)

\* A transaction goes on: its request stays as it is, the others stay.
LEMMA MoveFrame ==
    ASSUME SessionInv, NEW t \in Txs, Moves(t)
    PROVE  /\ op' = op /\ pc[t] \in Running /\ pc'[t] # "idle"
           /\ \A u \in Txs \ {t} : pc'[u] = pc[u]
<1>0. pc \in [Txs -> {"idle"} \cup Running \cup Outcomes]
  BY DEF SessionInv, TypeOK
<1>1. \A u \in Txs \ {t} : pc'[u] = pc[u]
  BY OneMoves DEF Moves
<1> SUFFICES op' = op /\ pc[t] \in Running /\ pc'[t] # "idle"
  BY <1>1
<1>2. \A r : Abort(t, r) \/ End(t, r) => op' = op /\ pc'[t] = r
  BY <1>0 DEF Abort, End
<1>3. \A r : HoldDim(t, r) => op' = op /\ pc'[t] = r
  BY <1>0 DEF HoldDim
<1>4. CASE DeadlockVictim(t) \/ ConnectionLost(t)
  BY <1>2, <1>4 DEF DeadlockVictim, ConnectionLost
<1>5. CASE DimStep(t)
  <2>1. CASE CreateDim(t) \/ CommitDim(t)
    BY <2>1, <1>2 DEF CreateDim, CommitDim, Running
  <2>2. CASE LockDimForUpdate(t)
    BY <2>2, <1>2, <1>3 DEF LockDimForUpdate, Running
  <2>3. CASE LockDimForLifecycle(t)
    BY <2>3, <1>2, <1>3 DEF LockDimForLifecycle, Running
  <2>4. CASE CheckInUse(t)
    BY <2>4, <1>0, <1>2 DEF CheckInUse, Running
  <2>5. CASE LockReferencing(t) \/ ReadJoined(t)
    BY <2>5, <1>0 DEF LockReferencing, ReadJoined, Running
  <2> QED
    BY <1>5, <2>1, <2>2, <2>3, <2>4, <2>5 DEF DimStep
<1>6. CASE McStep(t)
  <2>1. CASE ReadTarget(t)
    BY <2>1, <1>0, <1>2 DEF ReadTarget, Running
  <2>2. CASE LockReference(t)
    BY <2>2, <1>0, <1>2 DEF LockReference, Running
  <2>3. CASE InsertInline(t)
    BY <2>3, <1>0, <1>2 DEF InsertInline, Running
  <2>4. CASE LockTarget(t)
    <3>1. Refusal(t, mc[op[t].m]) # "idle"
      BY DEF Refusal
    <3> QED
      BY <2>4, <3>1, <1>0, <1>2 DEF LockTarget, Running
  <2>5. CASE CommitTarget(t)
    BY <2>5, <1>2 DEF CommitTarget, WriteMc, Running
  <2>6. CASE CommitCreateMc(t)
    BY <2>6, <1>2 DEF CommitCreateMc, WriteMc, Running
  <2> QED
    BY <1>6, <2>1, <2>2, <2>3, <2>4, <2>5, <2>6 DEF McStep
<1> QED
  BY <1>4, <1>5, <1>6 DEF Moves, Step

\* A request without a review behind it.
LEMMA BeginFrame ==
    ASSUME SessionInv, NEW t \in Txs, Begin(t)
    PROVE  /\ ~op'[t].review /\ pc[t] = "idle" /\ pc'[t] # "idle"
           /\ \A u \in Txs \ {t} : op'[u] = op[u] /\ pc'[u] = pc[u]
<1>1. op \in [Txs -> Op] /\ pc \in [Txs -> {"idle"} \cup Running \cup Outcomes]
  BY DEF SessionInv, TypeOK
<1>2. \A o, first : Request(t, o, first) =>
        /\ op'[t] = o /\ pc'[t] = first
        /\ \A u \in Txs \ {t} : op'[u] = op[u] /\ pc'[u] = pc[u]
  BY <1>1 DEF Request
<1>3. /\ \A kind, d, code, val, version : ~DimOp(kind, d, code, val, version).review
      /\ \A kind, m, sel, inline, code, val, etag :
            ~McOp(kind, m, sel, inline, code, val, etag, FALSE).review
  BY DEF DimOp, McOp
<1>4. pc[t] = "idle" /\ \E o : ~o.review /\ (Request(t, o, "begin") \/ Request(t, o, "resolve"))
  BY <1>3, Zenon DEF Begin, RequestCreateDim, RequestUpdateDim, RequestDimLifecycle,
     RequestCreateMc, RequestUpdateMc, RequestMcLifecycle
<1> QED
  BY <1>2, <1>4

\* The commit of a MasterCode mutation changes the table, and a conditional
\* one was checked against it.
LEMMA CommittedMutation ==
    ASSUME SessionInv, NEW t \in Txs, Moves(t), pc'[t] = "committed",
           op[t].kind \in McKinds
    PROVE  /\ mc' # mc
           /\ op[t].kind \in TargetKinds => Etag(mc[op[t].m], dim) = op[t].etag
<1>1. /\ SessionOK(t) /\ pc[t] \in Running /\ mc \in [Mcs -> McRow]
      /\ pc \in [Txs -> {"idle"} \cup Running \cup Outcomes]
  BY MoveFrame DEF SessionInv, TypeOK
<1>2. op[t].m \in Mcs
  BY <1>1 DEF SessionOK, Shape
<1>3. \A r : Abort(t, r) => r = "committed"
  BY <1>1 DEF Abort, End
<1>4. Step(t)
  BY <1>3 DEF Moves, DeadlockVictim, ConnectionLost
<1>5. pc[t] = "flush" \/ op[t].kind = "CreateMc"
  BY <1>4, CommitStep DEF McKinds, TargetKinds
<1>6. CASE pc[t] = "flush"
  <2>1. op[t].kind \in TargetKinds
    BY <1>1, <1>6 DEF SessionOK, Shape, McKinds, DimKinds, TargetKinds
  <2>2. /\ seenMc[t][op[t].m] = mc[op[t].m] /\ Exists(mc[op[t].m])
        /\ Etag(mc[op[t].m], dim) = op[t].etag
    BY <1>1, <1>6, <2>1 DEF SessionOK, Targeted, Shape
  <2>3. WriteMc(t)
    <3>1. CommitTarget(t)
      BY <1>4, <1>6, <2>1 DEF Step, DimStep, McStep, CreateDim, LockDimForUpdate,
         LockDimForLifecycle, CheckInUse, LockReferencing, ReadJoined, CommitDim,
         ReadTarget, LockReference, InsertInline, LockTarget, CommitCreateMc, TargetKinds
    <3> QED
      BY <3>1, <1>3 DEF CommitTarget
  <2>4. mc[op[t].m].version \in Nat
    BY <1>1, <1>2, <2>2, McRowShape
  <2>5. ChangedMc(t).version = mc[op[t].m].version + 1
    BY <2>1, <2>2 DEF ChangedMc, UpdateReferences, DeleteMasterCode, RestoreMasterCode,
                      NextMasterCode, TargetKinds
  <2>6. mc'[op[t].m] = ChangedMc(t)
    BY <1>1, <1>2, <2>3 DEF WriteMc
  <2> QED
    BY <2>2, <2>4, <2>5, <2>6
<1>7. CASE op[t].kind = "CreateMc"
  <2>1. ~Exists(mc[op[t].m])
    BY <1>1, <1>7 DEF SessionInv, Apart, NewMcs
  <2>2. WriteMc(t)
    <3>1. McStep(t)
      BY <1>1, <1>4, <1>7 DEF Step, DimStep, CreateDim, LockDimForUpdate,
         LockDimForLifecycle, CheckInUse, LockReferencing, ReadJoined, CommitDim,
         SessionOK, Shape, DimKinds, McKinds, TargetKinds
    <3>2. ~(LockReference(t) \/ InsertInline(t))
      BY <1>1, <1>3 DEF LockReference, InsertInline, Running
    <3>3. CommitCreateMc(t)
      BY <3>1, <3>2, <1>7 DEF McStep, ReadTarget, LockTarget, CommitTarget, TargetKinds
    <3> QED
      BY <3>3, <1>3 DEF CommitCreateMc
  <2>3. ChangedMc(t).st = "active"
    BY <1>7 DEF ChangedMc, NewMasterCode
  <2>4. mc'[op[t].m] = ChangedMc(t)
    BY <1>1, <1>2, <2>2 DEF WriteMc
  <2> QED
    BY <2>1, <2>3, <2>4, <1>7 DEF Exists, TargetKinds
<1> QED
  BY <1>5, <1>6, <1>7

\* The transaction a review starts, drawn ids included.
Starts(t, m, sel) ==
    LET p == desk[t].plan IN
    /\ IF p.m = None THEN FreshMcId(m) ELSE m = p.m
    /\ \A s \in Slots : IF p.sel[s] = Inline THEN sel[s] \in Inlinable(s)
                        ELSE sel[s] = p.sel[s]
    /\ Request(t, McOp(p.kind, m, sel,
                       {sel[s] : s \in {z \in Slots : p.sel[z] = Inline}},
                       p.code, p.val, p.etag, TRUE),
               IF p.kind = "CreateMc" THEN "resolve" ELSE "begin")

\* It fits the catalog.
LEMMA ReviewFits ==
    ASSUME SessionInv, NEW t \in Txs, pc[t] = "idle", WellFormed(desk[t].plan),
           NEW m \in Mcs, NEW sel \in Selections, Starts(t, m, sel)
    PROVE  SessionInv' /\ UNCHANGED db
<1>1. PICK p : p = desk[t].plan
  OBVIOUS
<1>2. WellFormed(p) /\ p \in Proposal /\ ValidProposal(p)
  BY <1>1 DEF WellFormed
<1>3. PICK inl : inl = {sel[s] : s \in {z \in Slots : p.sel[z] = Inline}}
  OBVIOUS
<1>4. PICK o : o = McOp(p.kind, m, sel, inl, p.code, p.val, p.etag, TRUE)
  OBVIOUS
<1>5. PICK first : first = IF p.kind = "CreateMc" THEN "resolve" ELSE "begin"
  OBVIOUS
<1>6. /\ Request(t, o, first)
      /\ IF p.m = None THEN FreshMcId(m) ELSE m = p.m
      /\ \A s \in Slots : IF p.sel[s] = Inline THEN sel[s] \in Inlinable(s)
                          ELSE sel[s] = p.sel[s]
  BY <1>1, <1>3, <1>4, <1>5 DEF Starts
<1>7. /\ p.kind \in ProposalKinds /\ p.code \in Codes \cup {None} /\ p.val \in Vals \cup {None}
      /\ p.etag \in EtagValues /\ p.m \in Mcs \cup {None}
      /\ p.sel \in [Slots -> Dims \cup {None, Keep, Inline}]
  BY <1>2 DEF Proposal
<1>8. \A d \in inl : d \in Dims /\ FreshDimId(d) /\ \E s \in Slots : sel[s] = d /\ p.sel[s] = Inline
  BY <1>3, <1>6 DEF Inlinable
<1>9. inl \in SUBSET Dims
  BY <1>8
<1>10. o \in Op
  <2>1. p.kind \in AllKinds
    BY <1>7 DEF ProposalKinds, TargetKinds, AllKinds
  <2> QED
    BY <1>4, <1>7, <1>9, <2>1, McOpType DEF EtagValues
<1>11. /\ o.kind = p.kind /\ o.m = m /\ o.sel = sel /\ o.inline = inl
       /\ o.code = p.code /\ o.val = p.val
  BY <1>4 DEF McOp
<1>12. pc'[t] = first /\ op'[t] = o /\ dim' = dim /\ mc' = mc
  BY <1>6 DEF Request, db, SessionInv, TypeOK
<1>13. Inline \notin Dims /\ Inline # None /\ Inline # Keep /\ None \notin Dims /\ Keep \notin Dims
       /\ Keep # None
  BY InlineAssumption, SentinelAssumption, KeepAssumption
<1>14. \A s \in Slots : sel[s] \in Dims => SlotOf[sel[s]] = s
  BY <1>2, <1>6 DEF WellFormed, Inlinable
<1>15. inl # {} => Brings(p.sel)
  BY <1>8 DEF Brings
<1>16. Shape(t)'
  <2>1. p.kind \in TargetKinds => Exists(mc[m])
    <3> SUFFICES ASSUME p.kind \in TargetKinds PROVE Exists(mc[m])
      OBVIOUS
    <3>1. p.m # None
      BY <1>2 DEF ValidProposal, TargetKinds
    <3> QED
      BY <3>1, <1>2, <1>6 DEF WellFormed
  <2>2. p.kind = "CreateMc" => sel \in Refs
    <3> SUFFICES ASSUME p.kind = "CreateMc" PROVE sel \in Refs
      OBVIOUS
    <3>1. Filled(p.sel)
      BY <1>2 DEF ValidProposal
    <3>2. \A s \in Slots : sel[s] \in Dims \cup {None}
      BY <3>1, <1>6, <1>7 DEF Filled, Inlinable
    <3> QED
      BY <3>2, <1>14 DEF Refs, Selections
  <2>3. \A d \in inl : d \in {sel[s] : s \in Slots} \ {None, Keep}
    BY <1>8, <1>13
  <2>4. inl # {} => /\ p.code \in Codes /\ p.val \in Vals
                    /\ p.kind \in {"CreateMc", "UpdateMc"}
    <3> SUFFICES ASSUME inl # {}
                 PROVE  p.code \in Codes /\ p.val \in Vals /\ p.kind \in {"CreateMc", "UpdateMc"}
      OBVIOUS
    <3>1. Brings(p.sel)
      BY <1>15
    <3>2. p.kind # "RestoreMc" /\ p.kind # "DeleteMc"
      BY <3>1, <1>2, <1>13 DEF ValidProposal, Brings
    <3> QED
      BY <3>1, <3>2, <1>2, <1>7 DEF WellFormed, ProposalKinds, TargetKinds
  <2> QED
    BY <1>5, <1>7, <1>11, <1>12, <1>14, <2>1, <2>2, <2>3, <2>4
       DEF Shape, DimKinds, McKinds, TargetKinds, ProposalKinds, SelectedRefs
<1>17. IdsApart(t)
  <2>1. /\ NewDims(t)' = inl
        /\ NewMcs(t)' = IF p.kind = "CreateMc" THEN {m} ELSE {}
    BY <1>5, <1>7, <1>11, <1>12 DEF NewDims, NewMcs, Running, ProposalKinds, TargetKinds
  <2>2. \A d \in inl : ~Exists(dim[d]) /\ \A u \in Txs : d \notin NewDims(u)
    BY <1>8 DEF FreshDimId, Claims, NewDims
  <2>3. p.kind = "CreateMc" => ~Exists(mc[m]) /\ \A u \in Txs : m \notin NewMcs(u)
    <3>1. p.kind = "CreateMc" => p.m = None
      BY <1>2 DEF ValidProposal
    <3> QED
      BY <3>1, <1>6 DEF FreshMcId, NewMcs
  <2> QED
    BY <1>12, <2>1, <2>2, <2>3 DEF IdsApart
<1>18. first \in {"begin", "resolve"} /\ (first = "resolve" => o.kind = "CreateMc")
  BY <1>5, <1>11
<1> QED
  BY <1>6, <1>10, <1>16, <1>17, <1>18, RequestKeeps

-----------------------------------------------------------------------------
(***************************************************************************)
(* What a step leaves alone.                                               *)
(***************************************************************************)

\* A transaction that does not move keeps its review: the request it holds is
\* not written and not locked by another.
LEMMA OthersKeepReview ==
    ASSUME ReviewInv, NEW u \in Txs,
           desk'[u] = desk[u], pc'[u] = pc[u], op'[u] = op[u],
           \A p : WellFormed(p) => WellFormed(p)',
           \A r \in Requests :
              \/ request'[r] = request[r]
              \/ request[r].status = "absent"
              \/ /\ request[r].status = "PENDING" /\ request'[r].status # "absent"
                 /\ ~(desk[u].stage = "held" /\ desk[u].req = r),
           desk[u].stage = "held" => RequestBlockers(u, desk[u].req)' = {}
    PROVE  Asked(u)' /\ Reviewing(u)' /\ Reviewed(u)'
<1>1. Asked(u) /\ Reviewing(u) /\ Reviewed(u)
  BY DEF ReviewInv
<1>2. desk[u].stage # "none" => desk[u].req \in Requests /\ request[desk[u].req].status # "absent"
  BY <1>1 DEF Asked
<1>3. Asked(u)'
  BY <1>1, <1>2 DEF Asked
<1>4. desk[u].stage = "held" => request'[desk[u].req] = request[desk[u].req]
  BY <1>2
<1>5. Reviewing(u)'
  BY <1>1, <1>2, <1>4 DEF Reviewing
<1>6. Approver(u) => request'[desk[u].req] = request[desk[u].req]
  BY <1>1, <1>2 DEF Approver, Reviewed, Approvals
<1>7. Reviewed(u)'
  BY <1>1, <1>6 DEF Reviewed, Approver
<1> QED
  BY <1>3, <1>5, <1>7

\* Request rows that are not written.
LEMMA RequestsKeep ==
    ASSUME ReviewInv, UNCHANGED request, \A p : WellFormed(p) => WellFormed(p)'
    PROVE  \A r \in Requests : RequestOK(r)'
BY DEF ReviewInv, RequestOK

\* No review is recorded.
LEMMA ApproversKeep ==
    ASSUME ReviewInv,
           \A t \in Txs : Approver(t)' <=> Approver(t),
           \A t \in Txs : Approver(t) => desk'[t].req = desk[t].req,
           \A r \in Requests : request'[r].status \in Approvals => request[r].status \in Approvals
    PROVE  OneApprover'
<1>1. OneApprover
  BY DEF ReviewInv
<1>2. \A t, u \in Txs : Approver(t)' /\ Approver(u)' /\ desk'[t].req = desk'[u].req => t = u
  BY <1>1 DEF OneApprover
<1>3. ASSUME NEW r \in Requests, request'[r].status \in Approvals
      PROVE  \E t \in Txs : Approver(t)' /\ desk'[t].req = r
  <2>1. PICK t \in Txs : Approver(t) /\ desk[t].req = r
    BY <1>1, <1>3 DEF OneApprover
  <2> QED
    BY <2>1
<1> QED
  BY <1>2, <1>3 DEF OneApprover

\* The catalog's part of a step that leaves it alone.
LEMMA CatalogUnchanged ==
    ASSUME ReviewInv, UNCHANGED vars
    PROVE  /\ SessionInv' /\ \A p : WellFormed(p) => WellFormed(p)'
           /\ pc' = pc /\ op' = op
<1>1. SessionInv' /\ [AtomicNext]_db
  BY NextKeeps DEF ReviewInv
<1> QED
  BY <1>1, ProposalsStay DEF ReviewInv, vars

-----------------------------------------------------------------------------
(***************************************************************************)
(* The steps.                                                              *)
(***************************************************************************)

\* Submit: nobody reviews a request that is not there yet.
LEMMA SubmitKeeps ==
    ASSUME ReviewInv, NEW r \in Requests, Submit(r)
    PROVE  ReviewInv' /\ UNCHANGED db
<1>1. PICK p \in Proposals(ProposalKinds \ {"RestoreMc"}) :
        request' = [request EXCEPT ![r] = [NoRequest EXCEPT !.status = "PENDING", !.original = p]]
  BY DEF Submit
<1>2. /\ request[r].status = "absent" /\ UNCHANGED vars /\ desk' = desk
      /\ request \in [Requests -> Row]
  BY DEF Submit, ReviewInv
<1>3. SessionInv' /\ (\A q : WellFormed(q) => WellFormed(q)') /\ pc' = pc /\ op' = op
  BY <1>2, CatalogUnchanged
<1>4. WellFormed(p) /\ p.kind # "RestoreMc" /\ p \in Proposal
  BY ProposalsFit DEF ReviewInv, WellFormed
<1>5. PICK row : row = [NoRequest EXCEPT !.status = "PENDING", !.original = p]
  OBVIOUS
<1>6. /\ row \in Row /\ row.status = "PENDING" /\ row.original = p
      /\ row.approved = NoProposal /\ row.message = FALSE
  BY <1>4, <1>5 DEF NoRequest, Row
<1>7. /\ request' \in [Requests -> Row] /\ request'[r] = row
      /\ \A q \in Requests : q # r => request'[q] = request[q]
  BY <1>1, <1>2, <1>5, <1>6
<1>8. \A q \in Requests : RequestOK(q)'
  BY <1>3, <1>4, <1>6, <1>7 DEF ReviewInv, RequestOK
<1>9. \A u \in Txs : Asked(u)' /\ Reviewing(u)' /\ Reviewed(u)'
  <2> TAKE u \in Txs
  <2>1. desk[u].stage = "held" => RequestBlockers(u, desk[u].req)' = {}
    BY <1>2 DEF ReviewInv, Reviewing, RequestBlockers
  <2> QED
    BY <1>2, <1>3, <1>7, <2>1, OthersKeepReview
<1>10. OneApprover'
  BY <1>2, <1>6, <1>7, ApproversKeep DEF Approver, Approvals
<1> QED
  BY <1>2, <1>3, <1>7, <1>8, <1>9, <1>10 DEF ReviewInv, vars, db

\* Only the review of t changes; it does not become a holder or an approver.
LEMMA DeskMoves ==
    ASSUME ReviewInv, NEW t \in Txs, UNCHANGED <<vars, request>>,
           NEW review \in Review, desk' = [desk EXCEPT ![t] = review],
           review.stage \notin {"held", "none"}, desk[t].stage \notin {"reviewed", "held"},
           ~Approver(t)', Asked(t)', Reviewed(t)'
    PROVE  ReviewInv' /\ UNCHANGED db
<1>1. desk \in [Txs -> Review] /\ desk'[t] = review
      /\ \A u \in Txs : u # t => desk'[u] = desk[u]
  BY DEF ReviewInv
<1>2. SessionInv' /\ (\A q : WellFormed(q) => WellFormed(q)') /\ pc' = pc /\ op' = op
  BY CatalogUnchanged
<1>3. \A r \in Requests : RequestOK(r)'
  BY <1>2, RequestsKeep
<1>4. \A u \in Txs : Asked(u)' /\ Reviewing(u)' /\ Reviewed(u)'
  <2> TAKE u \in Txs
  <2>1. CASE u = t
    BY <2>1, <1>1 DEF Reviewing
  <2>2. CASE u # t
    <3>1. desk[u].stage = "held" => RequestBlockers(u, desk[u].req)' = {}
      BY <1>1, <2>2 DEF ReviewInv, Reviewing, RequestBlockers
    <3> QED
      BY <1>1, <1>2, <2>2, <3>1, OthersKeepReview
  <2> QED
    BY <2>1, <2>2
<1>5. \A u \in Txs : (Approver(u)' <=> Approver(u)) /\ (Approver(u) => desk'[u].req = desk[u].req)
  BY <1>1 DEF Approver
<1>6. OneApprover'
  BY <1>5, ApproversKeep
<1> QED
  BY <1>1, <1>2, <1>3, <1>4, <1>6 DEF ReviewInv, vars, db

LEMMA AskReviewKeeps ==
    ASSUME ReviewInv, NEW t \in Txs, AskReview(t)
    PROVE  ReviewInv' /\ UNCHANGED db
<1>1. /\ pc[t] = "idle" /\ desk[t].stage = "none" /\ Asked(t)
      /\ desk \in [Txs -> Review] /\ request \in [Requests -> Row]
  BY DEF AskReview, ReviewInv
<1>2. ASSUME NEW r \in Requests, NEW verdict \in {"approve", "reject"},
             NEW p \in Proposal \cup {NoProposal}, NEW message \in BOOLEAN,
             Ask(t, r, verdict, p, message), verdict = "approve" => WellFormed(p)
      PROVE  ReviewInv' /\ UNCHANGED db
  <2>1. PICK review : review = [stage |-> "asked", req |-> r, verdict |-> verdict,
                                plan |-> p, message |-> message]
    OBVIOUS
  <2>2. /\ review \in Review /\ review.stage = "asked" /\ review.req = r
        /\ review.verdict = verdict /\ review.plan = p
    BY <1>2, <2>1 DEF Review, Stages
  <2>3. /\ desk' = [desk EXCEPT ![t] = review] /\ UNCHANGED <<vars, request>>
        /\ request[r].status # "absent"
    BY <1>2, <2>1 DEF Ask
  <2>4. desk'[t] = review /\ pc' = pc /\ op' = op /\ (\A q : WellFormed(q) => WellFormed(q)')
    BY <1>1, <2>3, CatalogUnchanged
  <2>5. Asked(t)' /\ Reviewed(t)' /\ ~Approver(t)'
    BY <1>1, <1>2, <2>2, <2>3, <2>4 DEF Asked, Reviewed, Approver
  <2> QED
    BY <1>1, <2>2, <2>3, <2>5, DeskMoves
<1>3. \A r \in Requests : request[r].status # "absent" =>
        WellFormed(request[r].original) /\ request[r].original \in Proposal
  BY DEF ReviewInv, RequestOK, WellFormed
<1>4. \A p \in Proposals(ProposalKinds) : WellFormed(p) /\ p \in Proposal
  BY ProposalsFit DEF ReviewInv, WellFormed
<1>5. PICK r \in Requests :
        \/ \E message \in BOOLEAN : Ask(t, r, "approve", request[r].original, message)
        \/ \E p \in Proposals(ProposalKinds), message \in BOOLEAN :
                Ask(t, r, "approve", p, message)
        \/ Ask(t, r, "reject", NoProposal, TRUE)
  BY DEF AskReview
<1>6. request[r].status # "absent"
  BY <1>5 DEF Ask
<1>7. CASE \E message \in BOOLEAN : Ask(t, r, "approve", request[r].original, message)
  BY <1>2, <1>3, <1>6, <1>7
<1>8. CASE \E p \in Proposals(ProposalKinds), message \in BOOLEAN :
                Ask(t, r, "approve", p, message)
  BY <1>2, <1>4, <1>8
<1>9. CASE Ask(t, r, "reject", NoProposal, TRUE)
  BY <1>2, <1>9
<1> QED
  BY <1>5, <1>7, <1>8, <1>9

\* The review is refused.
LEMMA RefusedKeeps ==
    ASSUME ReviewInv, NEW t \in Txs, UNCHANGED <<vars, request>>,
           NEW stage \in {"already_reviewed", "invalid_review"},
           desk[t].stage = "asked", Close(t, stage)
    PROVE  ReviewInv' /\ UNCHANGED db
<1>1. desk \in [Txs -> Review] /\ desk[t] \in Review /\ Asked(t)
  BY DEF ReviewInv
<1>2. PICK review : review = [desk[t] EXCEPT !.stage = stage]
  OBVIOUS
<1>3. /\ review \in Review /\ review.stage = stage /\ review.req = desk[t].req
      /\ review.verdict = desk[t].verdict /\ review.plan = desk[t].plan
  BY <1>1, <1>2 DEF Review, Stages
<1>4. desk' = [desk EXCEPT ![t] = review] /\ desk'[t] = review
  BY <1>1, <1>2 DEF Close
<1>5. pc' = pc /\ op' = op /\ (\A q : WellFormed(q) => WellFormed(q)')
  BY CatalogUnchanged
<1>6. Asked(t)' /\ Reviewed(t)' /\ ~Approver(t)'
  BY <1>1, <1>3, <1>4, <1>5 DEF Asked, Reviewed, Approver
<1> QED
  BY <1>3, <1>4, <1>6, DeskMoves

LEMMA LockRequestKeeps ==
    ASSUME ReviewInv, NEW t \in Txs, LockRequest(t)
    PROVE  ReviewInv' /\ UNCHANGED db
<1>1. PICK r : r = desk[t].req
  OBVIOUS
<1>2. /\ desk \in [Txs -> Review] /\ desk[t] \in Review /\ Asked(t) /\ SessionInv
      /\ desk[t].stage = "asked" /\ desk[t].verdict = "approve" /\ RequestBlockers(t, r) = {}
  BY <1>1 DEF ReviewInv, LockRequest
<1>3. /\ r \in Requests /\ pc[t] = "idle" /\ ~op[t].review /\ WellFormed(desk[t].plan)
      /\ request[r].status # "absent"
  BY <1>1, <1>2 DEF Asked
<1>4. CASE Close(t, "already_reviewed") /\ UNCHANGED <<vars, request>>
  BY <1>2, <1>4, RefusedKeeps
<1>5. CASE Close(t, "invalid_review") /\ UNCHANGED <<vars, request>>
  BY <1>2, <1>5, RefusedKeeps
<1>6. CASE /\ request[r].status = "PENDING"
           /\ ValidApproval(request[r].original, desk[t].plan, desk[t].message)
           /\ Close(t, "held") /\ UNCHANGED request
           /\ \E m \in Mcs, sel \in Selections : Starts(t, m, sel)
  <2>1. PICK m \in Mcs, sel \in Selections : Starts(t, m, sel)
    BY <1>6
  <2>2. SessionInv' /\ UNCHANGED db
    BY <2>1, <1>2, <1>3, ReviewFits
  <2>3. \A q : WellFormed(q) => WellFormed(q)'
    BY <2>2, <1>2, ProposalsStay
  <2>4. PICK review : review = [desk[t] EXCEPT !.stage = "held"]
    OBVIOUS
  <2>5. /\ review \in Review /\ review.stage = "held" /\ review.req = r
        /\ review.verdict = "approve" /\ review.plan = desk[t].plan
        /\ review.message = desk[t].message
    BY <1>1, <1>2, <2>4 DEF Review, Stages
  <2>6. /\ desk' = [desk EXCEPT ![t] = review] /\ desk'[t] = review
        /\ \A u \in Txs : u # t => desk'[u] = desk[u]
    BY <1>2, <1>6, <2>4 DEF Close
  <2>7. PICK o, first :
          /\ Request(t, o, first) /\ first \in Running
          /\ o.review = TRUE /\ o.kind = desk[t].plan.kind /\ o.etag = desk[t].plan.etag
          /\ o.m = m
    <3>1. \A inl : LET o == McOp(desk[t].plan.kind, m, sel, inl, desk[t].plan.code,
                               desk[t].plan.val, desk[t].plan.etag, TRUE)
                   IN  /\ o.review = TRUE /\ o.kind = desk[t].plan.kind
                       /\ o.etag = desk[t].plan.etag /\ o.m = m
      BY DEF McOp
    <3>2. (IF desk[t].plan.kind = "CreateMc" THEN "resolve" ELSE "begin") \in Running
      BY DEF Running
    <3> QED
      BY <3>1, <3>2, <2>1, Zenon DEF Starts
  <2>8. /\ pc'[t] = first /\ op'[t] = o
        /\ \A u \in Txs : u # t => pc'[u] = pc[u] /\ op'[u] = op[u]
    BY <1>2, <2>7 DEF Request, SessionInv, TypeOK
  <2>9. desk[t].plan.m # None => m = desk[t].plan.m
    BY <2>1 DEF Starts
  <2>10. \A q \in Requests : RequestOK(q)'
    BY <1>6, <2>3, RequestsKeep
  <2>11. Asked(t)' /\ Reviewed(t)'
    BY <1>3, <1>6, <2>3, <2>5, <2>6, <2>7, <2>8 DEF Asked, Reviewed, Approver, Running
  <2>12. Reviewing(t)'
    <3>1. RequestBlockers(t, r)' = {}
      BY <1>2, <2>6 DEF RequestBlockers
    <3> QED
      BY <3>1, <1>6, <2>5, <2>6, <2>7, <2>8, <2>9 DEF Reviewing
  <2>13. \A u \in Txs : Asked(u)' /\ Reviewing(u)' /\ Reviewed(u)'
    <3> TAKE u \in Txs
    <3>1. CASE u # t
      <4>1. desk[u].stage = "held" => RequestBlockers(u, desk[u].req) = {} /\ desk[u].req # r
        BY <1>2, <3>1 DEF ReviewInv, Reviewing, RequestBlockers
      <4>2. desk[u].stage = "held" => RequestBlockers(u, desk[u].req)' = {}
        BY <4>1, <2>5, <2>6, <3>1 DEF RequestBlockers
      <4> QED
        BY <4>2, <1>6, <2>3, <2>6, <2>8, <3>1, OthersKeepReview
    <3> QED
      BY <3>1, <2>11, <2>12
  <2>14. \A u \in Txs : (Approver(u)' <=> Approver(u)) /\ (Approver(u) => desk'[u].req = desk[u].req)
    BY <1>2, <2>5, <2>6 DEF Approver
  <2>15. OneApprover'
    BY <1>6, <2>14, ApproversKeep
  <2>16. request' \in [Requests -> Row] /\ desk' \in [Txs -> Review]
    BY <1>2, <1>6, <2>5, <2>6 DEF ReviewInv
  <2> QED
    BY <2>2, <2>10, <2>13, <2>15, <2>16 DEF ReviewInv
<1> QED
  BY <1>1, <1>4, <1>5, <1>6, Zenon DEF LockRequest, Starts

\* The review of t is written to its request, which was pending.
Records(t, row) ==
    LET r == desk[t].req IN
    /\ r \in Requests /\ request[r].status = "PENDING" /\ RequestBlockers(t, r) = {}
    /\ request' = [request EXCEPT ![r] = row]
    /\ row \in Row /\ row.status \notin {"absent", "PENDING"}
    /\ row.original = request[r].original
    /\ Close(t, "reviewed")

LEMMA RecordsKeeps ==
    ASSUME ReviewInv, NEW t \in Txs, NEW row, Records(t, row),
           SessionInv', \A q : WellFormed(q) => WellFormed(q)',
           \A u \in Txs : u # t => pc'[u] = pc[u] /\ op'[u] = op[u],
           desk[t].stage \in {"asked", "held"},
           IF desk[t].verdict = "approve"
           THEN row.status \in Approvals /\ pc'[t] = "committed" /\ op'[t].review
           ELSE row.status \notin Approvals /\ pc'[t] = "idle" /\ ~op'[t].review
    PROVE  ReviewInv'
<1>1. PICK r \in Requests : r = desk[t].req
  BY DEF Records
<1>2. /\ desk \in [Txs -> Review] /\ request \in [Requests -> Row] /\ desk[t] \in Review
      /\ Asked(t) /\ request[r].status = "PENDING" /\ RequestBlockers(t, r) = {}
  BY <1>1 DEF ReviewInv, Records
<1>3. /\ request' \in [Requests -> Row] /\ request'[r] = row
      /\ \A q \in Requests : q # r => request'[q] = request[q]
      /\ row.status \notin {"absent", "PENDING"} /\ row.original = request[r].original
  BY <1>1, <1>2 DEF Records
<1>4. PICK review : review = [desk[t] EXCEPT !.stage = "reviewed"]
  OBVIOUS
<1>5. /\ review \in Review /\ review.stage = "reviewed" /\ review.req = r
      /\ review.verdict = desk[t].verdict /\ review.plan = desk[t].plan
  BY <1>1, <1>2, <1>4 DEF Review, Stages
<1>6. /\ desk' \in [Txs -> Review] /\ desk'[t] = review
      /\ \A u \in Txs : u # t => desk'[u] = desk[u]
  BY <1>2, <1>4, <1>5 DEF Records, Close
<1>7. \A q \in Requests : RequestOK(q)'
  <2> TAKE q \in Requests
  <2>1. RequestOK(q)
    BY DEF ReviewInv
  <2>2. CASE q = r
    BY <1>2, <1>3, <2>1, <2>2 DEF RequestOK
  <2>3. CASE q # r
    BY <1>3, <2>1, <2>3 DEF RequestOK
  <2> QED
    BY <2>2, <2>3
<1>8. Asked(t)' /\ Reviewing(t)' /\ Reviewed(t)'
  BY <1>2, <1>3, <1>5, <1>6 DEF Asked, Reviewing, Reviewed, Approver
<1>9. \A u \in Txs : Asked(u)' /\ Reviewing(u)' /\ Reviewed(u)'
  <2> TAKE u \in Txs
  <2>1. CASE u # t
    <3>1. ~(desk[u].stage = "held" /\ desk[u].req = r)
      BY <1>2, <2>1 DEF RequestBlockers
    <3>2. desk[u].stage = "held" => RequestBlockers(u, desk[u].req)' = {}
      BY <1>5, <1>6, <2>1 DEF ReviewInv, Reviewing, RequestBlockers
    <3> QED
      BY <1>2, <1>3, <1>6, <2>1, <3>1, <3>2, OthersKeepReview
  <2> QED
    BY <1>8, <2>1
<1>10. \A u \in Txs : Approver(u) => desk[u].req # r /\ u # t
  BY <1>2 DEF ReviewInv, Reviewed, Approver, Approvals
<1>11. \A u \in Txs : u # t => (Approver(u)' <=> Approver(u))
  BY <1>6 DEF Approver
<1>12. OneApprover'
  <2>1. OneApprover
    BY DEF ReviewInv
  <2>2. \A u, v \in Txs : Approver(u)' /\ Approver(v)' /\ desk'[u].req = desk'[v].req => u = v
    BY <1>5, <1>6, <1>10, <1>11, <2>1 DEF OneApprover
  <2>3. ASSUME NEW q \in Requests, request'[q].status \in Approvals
        PROVE  \E u \in Txs : Approver(u)' /\ desk'[u].req = q
    <3>1. CASE q = r
      <4>1. Approver(t)'
        BY <3>1, <2>3, <1>3, <1>5, <1>6 DEF Approver
      <4> QED
        BY <4>1, <3>1, <1>5, <1>6
    <3>2. CASE q # r
      <4>1. PICK u \in Txs : Approver(u) /\ desk[u].req = q
        BY <3>2, <2>3, <1>3, <2>1 DEF OneApprover
      <4> QED
        BY <4>1, <1>6, <1>10, <1>11
    <3> QED
      BY <3>1, <3>2
  <2> QED
    BY <2>2, <2>3 DEF OneApprover
<1> QED
  BY <1>3, <1>6, <1>7, <1>9, <1>12 DEF ReviewInv

LEMMA RejectKeeps ==
    ASSUME ReviewInv, NEW t \in Txs, Reject(t)
    PROVE  ReviewInv' /\ UNCHANGED db
<1>1. PICK r : r = desk[t].req
  OBVIOUS
<1>2. /\ desk[t].stage = "asked" /\ desk[t].verdict = "reject" /\ UNCHANGED vars
      /\ RequestBlockers(t, r) = {} /\ Asked(t) /\ request \in [Requests -> Row]
  BY <1>1 DEF Reject, ReviewInv
<1>3. /\ r \in Requests /\ pc[t] = "idle" /\ ~op[t].review
      /\ SessionInv' /\ (\A q : WellFormed(q) => WellFormed(q)') /\ pc' = pc /\ op' = op
  BY <1>1, <1>2, CatalogUnchanged DEF Asked
<1>4. CASE Close(t, "already_reviewed") /\ UNCHANGED request
  BY <1>2, <1>4, RefusedKeeps
<1>5. CASE /\ request[r].status = "PENDING"
           /\ request' = [request EXCEPT ![r].status = "REJECTED", ![r].message = TRUE]
           /\ Close(t, "reviewed")
  <2>1. PICK row : row = [request[r] EXCEPT !.status = "REJECTED", !.message = TRUE]
    OBVIOUS
  <2>2. request[r] \in Row
    BY <1>2, <1>3
  <2>3. /\ row \in Row /\ row.status = "REJECTED" /\ row.original = request[r].original
    BY <2>1, <2>2 DEF Row
  <2>4. request' = [request EXCEPT ![r] = row]
    BY <1>2, <1>3, <1>5, <2>1
  <2>5. Records(t, row)
    BY <1>1, <1>2, <1>3, <1>5, <2>3, <2>4 DEF Records
  <2>6. ReviewInv'
    BY <1>2, <1>3, <2>3, <2>5, RecordsKeeps DEF Approvals
  <2> QED
    BY <2>6, <1>2 DEF vars, db
<1> QED
  BY <1>1, <1>4, <1>5 DEF Reject

\* A step of a transaction, whoever is behind it.
LEMMA MovesKeep ==
    ASSUME ReviewInv, NEW t \in Txs, Moves(t)
    PROVE  /\ SessionInv' /\ [AtomicNext]_db /\ (\A q : WellFormed(q) => WellFormed(q)')
           /\ op' = op /\ pc[t] \in Running /\ pc'[t] # "idle"
           /\ pc'[t] \in Running \cup Outcomes
           /\ \A u \in Txs : u # t => pc'[u] = pc[u]
<1>1. SessionInv
  BY DEF ReviewInv
<1>2. SessionInv' /\ [AtomicNext]_db
  BY <1>1, NextKeeps DEF Next, Moves
<1>3. pc'[t] \in {"idle"} \cup Running \cup Outcomes
  BY <1>2 DEF SessionInv, TypeOK
<1> QED
  BY <1>1, <1>2, <1>3, MoveFrame, ProposalsStay

LEMMA ApplyReviewKeeps ==
    ASSUME ReviewInv, NEW t \in Txs, ApplyReview(t)
    PROVE  ReviewInv' /\ [AtomicNext]_db
<1>1. PICK r : r = desk[t].req
  OBVIOUS
<1>2. /\ desk[t].stage = "held" /\ Moves(t) /\ Asked(t) /\ Reviewing(t)
      /\ request \in [Requests -> Row] /\ desk \in [Txs -> Review] /\ desk[t] \in Review
  BY DEF ApplyReview, ReviewInv, Moves
<1>3. /\ r \in Requests /\ desk[t].verdict = "approve" /\ WellFormed(desk[t].plan)
      /\ op[t].review /\ request[r].status = "PENDING" /\ RequestBlockers(t, r) = {}
  BY <1>1, <1>2 DEF Asked, Reviewing
<1>4. /\ SessionInv' /\ [AtomicNext]_db /\ (\A q : WellFormed(q) => WellFormed(q)')
      /\ op' = op /\ pc'[t] # "idle" /\ pc'[t] \in Running \cup Outcomes
      /\ \A u \in Txs : u # t => pc'[u] = pc[u]
  BY <1>2, MovesKeep
<1>5. CASE pc'[t] = "committed"
  <2>1. PICK row : row = [request[r] EXCEPT
                            !.status = ApprovalStatus(request[r].original, desk[t].plan),
                            !.approved = desk[t].plan, !.message = desk[t].message]
    OBVIOUS
  <2>2. request[r] \in Row /\ desk[t].plan \in Proposal /\ desk[t].message \in BOOLEAN
    BY <1>2, <1>3 DEF WellFormed, Review
  <2>3. ApprovalStatus(request[r].original, desk[t].plan) \in Approvals
    BY DEF ApprovalStatus, Approvals
  <2>4. row \in Row /\ row.status \in Approvals /\ row.original = request[r].original
    BY <2>1, <2>2, <2>3 DEF Row
  <2>5. request' = [request EXCEPT ![r] = row] /\ Close(t, "reviewed")
    BY <1>1, <1>2, <1>3, <1>5, <2>1 DEF ApplyReview
  <2>6. Records(t, row)
    BY <1>1, <1>3, <2>4, <2>5 DEF Records, Approvals
  <2>7. ReviewInv'
    BY <1>2, <1>3, <1>4, <1>5, <2>4, <2>6, RecordsKeeps
  <2> QED
    BY <2>7, <1>4
<1>6. CASE pc'[t] # "committed"
  <2>1. request' = request
    BY <1>6 DEF ApplyReview
  <2>2. PICK stage \in {"held", "failed"} :
          /\ desk' = [desk EXCEPT ![t].stage = stage]
          /\ stage = "held" => pc'[t] \in Running
    <3>1. CASE pc'[t] \in Outcomes
      BY <3>1, <1>6 DEF ApplyReview, Close
    <3>2. CASE pc'[t] \notin Outcomes
      <4>1. desk' = desk
        BY <3>2, <1>6 DEF ApplyReview
      <4>2. desk' = [desk EXCEPT ![t].stage = "held"]
        BY <4>1, <1>2 DEF Review
      <4> QED
        BY <4>2, <3>2, <1>4
    <3> QED
      BY <3>1, <3>2
  <2>3. PICK review : review = [desk[t] EXCEPT !.stage = stage]
    OBVIOUS
  <2>4. /\ review \in Review /\ review.stage = stage /\ review.req = r
        /\ review.verdict = "approve" /\ review.plan = desk[t].plan
        /\ review.message = desk[t].message
    BY <1>1, <1>2, <1>3, <2>3 DEF Review, Stages
  <2>5. /\ desk' \in [Txs -> Review] /\ desk'[t] = review
        /\ \A u \in Txs : u # t => desk'[u] = desk[u]
    BY <1>2, <2>2, <2>3, <2>4
  <2>6. \A q \in Requests : RequestOK(q)'
    BY <1>4, <2>1, RequestsKeep
  <2>7. Asked(t)' /\ Reviewed(t)'
    <3>1. PICK p : p = desk[t].plan
      OBVIOUS
    <3>2. WellFormed(p)' /\ desk'[t].plan = p
      BY <1>3, <1>4, <2>4, <2>5, <3>1
    <3>3. WellFormed(desk[t].plan)'
      BY <3>2 DEF WellFormed
    <3>4. Asked(t)'
      BY <1>3, <1>4, <2>1, <2>2, <2>4, <2>5, <3>3 DEF Asked
    <3> QED
      BY <1>6, <2>2, <2>4, <2>5, <3>4 DEF Reviewed, Approver
  <2>8. Reviewing(t)'
    <3>1. RequestBlockers(t, r)' = {}
      BY <1>3, <2>5 DEF RequestBlockers
    <3> QED
      BY <3>1, <1>1, <1>2, <1>4, <2>1, <2>2, <2>4, <2>5 DEF Reviewing
  <2>9. \A u \in Txs : Asked(u)' /\ Reviewing(u)' /\ Reviewed(u)'
    <3> TAKE u \in Txs
    <3>1. CASE u # t
      <4>1. desk[u].stage = "held" => RequestBlockers(u, desk[u].req)' = {}
        BY <1>1, <1>2, <2>4, <2>5, <3>1 DEF ReviewInv, Reviewing, RequestBlockers
      <4> QED
        BY <4>1, <1>4, <2>1, <2>5, <3>1, OthersKeepReview
    <3> QED
      BY <3>1, <2>7, <2>8
  <2>10. \A u \in Txs : (Approver(u)' <=> Approver(u)) /\ (Approver(u) => desk'[u].req = desk[u].req)
    BY <1>2, <2>4, <2>5 DEF Approver
  <2>11. OneApprover'
    BY <2>1, <2>10, ApproversKeep
  <2> QED
    BY <1>2, <1>4, <2>1, <2>5, <2>6, <2>9, <2>11 DEF ReviewInv
<1> QED
  BY <1>5, <1>6

LEMMA DirectKeeps ==
    ASSUME ReviewInv, NEW t \in Txs, Direct(t)
    PROVE  ReviewInv' /\ [AtomicNext]_db
<1>1. /\ desk[t].stage = "none" /\ UNCHANGED <<request, desk>> /\ SessionInv
      /\ Asked(t) /\ ~op[t].review
  BY DEF Direct, ReviewInv, Asked
<1>2. SessionInv' /\ [AtomicNext]_db
  BY <1>1, NextKeeps DEF Direct, Next
<1>3. \A q : WellFormed(q) => WellFormed(q)'
  BY <1>1, <1>2, ProposalsStay
<1>4. ~op'[t].review /\ \A u \in Txs : u # t => pc'[u] = pc[u] /\ op'[u] = op[u]
  BY <1>1, BeginFrame, MoveFrame DEF Direct, Moves
<1>5. \A q \in Requests : RequestOK(q)'
  BY <1>1, <1>3, RequestsKeep
<1>6. \A u \in Txs : Asked(u)' /\ Reviewing(u)' /\ Reviewed(u)'
  <2> TAKE u \in Txs
  <2>1. CASE u = t
    BY <2>1, <1>1, <1>4 DEF Asked, Reviewing, Reviewed, Approver
  <2>2. CASE u # t
    <3>1. desk[u].stage = "held" => RequestBlockers(u, desk[u].req)' = {}
      BY <1>1 DEF ReviewInv, Reviewing, RequestBlockers
    <3> QED
      BY <3>1, <1>1, <1>3, <1>4, <2>2, OthersKeepReview
  <2> QED
    BY <2>1, <2>2
<1>7. OneApprover'
  BY <1>1, ApproversKeep DEF Approver
<1> QED
  BY <1>1, <1>2, <1>5, <1>6, <1>7 DEF ReviewInv

\* Every step keeps the invariant and is a step of the atomic catalog.
LEMMA ReviewStep ==
    ASSUME ReviewInv, [ReviewNext]_rvars
    PROVE  ReviewInv' /\ [AtomicNext]_db
<1>1. ASSUME NEW r \in Requests, Submit(r)
      PROVE  ReviewInv' /\ [AtomicNext]_db
  BY <1>1, SubmitKeeps
<1>2. ASSUME NEW t \in Txs,
             AskReview(t) \/ LockRequest(t) \/ ApplyReview(t) \/ Reject(t) \/ Direct(t)
      PROVE  ReviewInv' /\ [AtomicNext]_db
  <2>1. CASE AskReview(t)
    BY <2>1, AskReviewKeeps
  <2>2. CASE LockRequest(t)
    BY <2>2, LockRequestKeeps
  <2>3. CASE ApplyReview(t)
    BY <2>3, ApplyReviewKeeps
  <2>4. CASE Reject(t)
    BY <2>4, RejectKeeps
  <2>5. CASE Direct(t)
    BY <2>5, DirectKeeps
  <2> QED
    BY <1>2, <2>1, <2>2, <2>3, <2>4, <2>5
<1>3. CASE UNCHANGED rvars
  <2>1. UNCHANGED vars /\ request' = request /\ desk' = desk
    BY <1>3 DEF rvars
  <2>2. SessionInv' /\ (\A q : WellFormed(q) => WellFormed(q)') /\ pc' = pc /\ op' = op
    BY <2>1, CatalogUnchanged
  <2>3. \A q \in Requests : RequestOK(q)'
    BY <2>1, <2>2, RequestsKeep
  <2>4. \A u \in Txs : Asked(u)' /\ Reviewing(u)' /\ Reviewed(u)'
    <3> TAKE u \in Txs
    <3>1. desk[u].stage = "held" => RequestBlockers(u, desk[u].req)' = {}
      BY <2>1 DEF ReviewInv, Reviewing, RequestBlockers
    <3> QED
      BY <2>1, <2>2, <3>1, OthersKeepReview
  <2>5. OneApprover'
    BY <2>1, ApproversKeep DEF Approver
  <2> QED
    BY <2>1, <2>2, <2>3, <2>4, <2>5 DEF ReviewInv, vars, db
<1> QED
  BY <1>1, <1>2, <1>3 DEF ReviewNext

LEMMA ReviewStart == ReviewInit => ReviewInv
<1> SUFFICES ASSUME ReviewInit PROVE ReviewInv
  OBVIOUS
<1>1. SessionInv
  BY InitSession DEF ReviewInit
<1>2. NoRequest \in Row /\ NoRequest.status = "absent"
  BY DEF NoRequest, Row
<1>3. NoReview \in Review /\ NoReview.stage = "none"
  BY DEF NoReview, Review, Stages
<1>4. /\ \A r \in Requests : request[r] = NoRequest
      /\ \A t \in Txs : desk[t] = NoReview /\ op[t] = NoOp
      /\ request \in [Requests -> Row] /\ desk \in [Txs -> Review]
  BY <1>2, <1>3 DEF ReviewInit, Init
<1>5. NoOp.review = FALSE
  BY DEF NoOp, DimOp
<1>6. \A r \in Requests : RequestOK(r)
  BY <1>2, <1>4 DEF RequestOK
<1>7. \A t \in Txs : Asked(t) /\ Reviewing(t) /\ Reviewed(t) /\ ~Approver(t)
  BY <1>3, <1>4, <1>5 DEF Asked, Reviewing, Reviewed, Approver
<1>8. OneApprover
  BY <1>2, <1>4, <1>7 DEF OneApprover, Approvals
<1> QED
  BY <1>1, <1>4, <1>6, <1>7, <1>8 DEF ReviewInv

-----------------------------------------------------------------------------
(***************************************************************************)
(* The theorems.                                                           *)
(***************************************************************************)

\* The inductive invariant: the catalog's own, with reviews among its
\* transactions, and a held request that is pending and has one holder.
THEOREM ReviewsAreSound == ReviewSpec => []ReviewInv
<1>1. ReviewInit => ReviewInv
  BY ReviewStart
<1>2. ReviewInv /\ [ReviewNext]_rvars => ReviewInv'
  BY ReviewStep
<1> QED
  BY <1>1, <1>2, PTL DEF ReviewSpec

\* The transactions reviews start, racing each other and direct requests,
\* still implement the atomic catalog: every approval applies its proposal as
\* one whole operation, and a review that is refused or lost applies nothing.
THEOREM ReviewsAreAtomic == ReviewSpec => ImplementsAtomicCatalog
<1>1. ReviewInit => AtomicInit
  BY DEF ReviewInit, Init
<1>2. ReviewInv /\ [ReviewNext]_rvars => [AtomicNext]_db
  BY ReviewStep
<1> QED
  BY <1>1, <1>2, ReviewsAreSound, PTL DEF ReviewSpec, AtomicSpec, ImplementsAtomicCatalog

\* approve under its row lock: a proposal is applied exactly once if its
\* request is recorded as approved and never otherwise.
THEOREM AppliedOnce == ReviewSpec => []AppliedExactlyOnce
<1>1. ASSUME ReviewInv, NEW r \in Requests
      PROVE  Cardinality(Applications(r)) = IF request[r].status \in Approvals THEN 1 ELSE 0
  <2>1. \A t \in Txs : op[t].review /\ pc[t] = "committed" <=> Approver(t)
    <3> TAKE t \in Txs
    <3>1. Asked(t) /\ Reviewing(t) /\ Reviewed(t) /\ desk[t] \in Review
      BY <1>1 DEF ReviewInv
    <3>2. desk[t].stage \in Stages
      BY <3>1 DEF Review
    <3> QED
      BY <3>1, <3>2 DEF Asked, Reviewing, Reviewed, Approver, Stages, Running
  <2>2. Applications(r) = {t \in Txs : Approver(t) /\ desk[t].req = r}
    BY <2>1 DEF Applications
  <2>3. CASE request[r].status \in Approvals
    <3>1. PICK t \in Txs : Approver(t) /\ desk[t].req = r
      BY <1>1, <2>3 DEF ReviewInv, OneApprover
    <3>2. Applications(r) = {t}
      BY <1>1, <2>2, <3>1 DEF ReviewInv, OneApprover
    <3> QED
      BY <2>3, <3>2, FS_Singleton
  <2>4. CASE request[r].status \notin Approvals
    <3>1. Applications(r) = {}
      BY <1>1, <2>2, <2>4 DEF ReviewInv, Reviewed
    <3> QED
      BY <2>4, <3>1, FS_EmptySet
  <2> QED
    BY <2>3, <2>4
<1>2. ReviewInv => AppliedExactlyOnce
  BY <1>1 DEF AppliedExactlyOnce
<1> QED
  BY <1>2, ReviewsAreSound, PTL

\* The three writes to a request row.
Submission(r, p) ==
    /\ p \in Proposals(ProposalKinds \ {"RestoreMc"})
    /\ request[r].status = "absent"
    /\ request'[r] = [NoRequest EXCEPT !.status = "PENDING", !.original = p]
Approval(r, t) ==
    /\ desk[t].stage = "held" /\ desk[t].req = r /\ Moves(t) /\ pc'[t] = "committed"
    /\ request'[r] = [request[r] EXCEPT
                        !.status = ApprovalStatus(request[r].original, desk[t].plan),
                        !.approved = desk[t].plan, !.message = desk[t].message]
Rejection(r) ==
    /\ request[r].status = "PENDING"
    /\ request'[r] = [request[r] EXCEPT !.status = "REJECTED", !.message = TRUE]

LEMMA RequestWrites ==
    ASSUME ReviewInv, ReviewNext, NEW r \in Requests, request'[r] # request[r]
    PROVE  (\E p : Submission(r, p)) \/ (\E t \in Txs : Approval(r, t)) \/ Rejection(r)
<1>1. request \in [Requests -> Row]
  BY DEF ReviewInv
<1>2. ASSUME NEW q \in Requests, Submit(q)
      PROVE  \E p : Submission(r, p)
  BY <1>1, <1>2 DEF Submit, Submission
<1>3. ASSUME NEW t \in Txs, ApplyReview(t)
      PROVE  Approval(r, t)
  <2>1. pc'[t] = "committed" /\ r = desk[t].req
    BY <1>1, <1>3 DEF ApplyReview
  <2> QED
    BY <1>1, <1>3, <2>1 DEF ApplyReview, Approval, Moves
<1>4. ASSUME NEW t \in Txs, Reject(t)
      PROVE  Rejection(r)
  <2>1. r = desk[t].req /\ request[r].status = "PENDING"
    BY <1>1, <1>4 DEF Reject
  <2> QED
    BY <1>1, <1>4, <2>1 DEF Reject, Rejection
<1>5. \A t \in Txs : ~(AskReview(t) \/ LockRequest(t) \/ Direct(t))
  BY DEF AskReview, Ask, LockRequest, Direct
<1> QED
  BY <1>2, <1>3, <1>4, <1>5 DEF ReviewNext

\* What the review that commits knows of its request and of its target.
LEMMA ApprovalFacts ==
    ASSUME ReviewInv, NEW r \in Requests, NEW t \in Txs, Approval(r, t)
    PROVE  /\ request[r] \in Row /\ request[r].status = "PENDING"
           /\ WellFormed(desk[t].plan)
           /\ ValidApproval(request[r].original, desk[t].plan, desk[t].message)
           /\ mc' # mc
           /\ desk[t].plan.m # None => Etag(mc[desk[t].plan.m], dim) = desk[t].plan.etag
           /\ request'[r].status = ApprovalStatus(request[r].original, desk[t].plan)
           /\ request'[r].approved = desk[t].plan
           /\ request'[r].message = desk[t].message
           /\ request'[r].original = request[r].original
<1>1. /\ request[r] \in Row /\ SessionInv /\ Asked(t) /\ Reviewing(t)
      /\ desk[t].stage = "held" /\ desk[t].req = r /\ Moves(t) /\ pc'[t] = "committed"
  BY DEF ReviewInv, Approval
<1>2. /\ request[r].status = "PENDING" /\ WellFormed(desk[t].plan)
      /\ ValidApproval(request[r].original, desk[t].plan, desk[t].message)
      /\ op[t].kind = desk[t].plan.kind /\ op[t].etag = desk[t].plan.etag
      /\ desk[t].plan.m # None => op[t].m = desk[t].plan.m
  BY <1>1 DEF Asked, Reviewing
<1>3. /\ desk[t].plan.kind \in ProposalKinds
      /\ desk[t].plan.m # None => desk[t].plan.kind \in TargetKinds
  BY <1>2 DEF WellFormed, Proposal, ValidProposal, ProposalKinds
<1>4. op[t].kind \in McKinds
  BY <1>2, <1>3 DEF ProposalKinds, TargetKinds, McKinds
<1>5. mc' # mc /\ (op[t].kind \in TargetKinds => Etag(mc[op[t].m], dim) = op[t].etag)
  BY <1>1, <1>4, CommittedMutation
<1>6. desk[t].plan.m # None => Etag(mc[desk[t].plan.m], dim) = desk[t].plan.etag
  BY <1>2, <1>3, <1>5
<1>7. /\ request'[r].status = ApprovalStatus(request[r].original, desk[t].plan)
      /\ request'[r].approved = desk[t].plan
      /\ request'[r].message = desk[t].message
      /\ request'[r].original = request[r].original
  BY <1>1 DEF Approval, Row
<1> QED
  BY <1>1, <1>2, <1>5, <1>6, <1>7

\* approve applies its proposal and records the review in one transaction, so
\* an approval is recorded only in the step that changes the catalog, and for
\* a target only while the approved ETag still describes it.
THEOREM ApprovalsStayCurrent == ReviewSpec => ApprovalsAreCurrent
<1>1. ASSUME ReviewInv, ReviewNext, NEW r \in Requests,
             request'[r].status \in Approvals, request[r].status \notin Approvals
      PROVE  /\ mc' # mc
             /\ request'[r].approved.m # None =>
                    Etag(mc[request'[r].approved.m], dim) = request'[r].approved.etag
  <2>1. ~\E p : Submission(r, p)
    BY <1>1 DEF Submission, NoRequest, Approvals
  <2>2. ~Rejection(r)
    BY <1>1 DEF Rejection, ReviewInv, Row, Approvals
  <2>3. PICK t \in Txs : Approval(r, t)
    BY <1>1, <2>1, <2>2, RequestWrites
  <2> QED
    BY <1>1, <2>3, ApprovalFacts
<1>2. ReviewInv /\ [ReviewNext]_rvars =>
        [\A r \in Requests :
            request'[r].status \in Approvals /\ request[r].status \notin Approvals =>
                /\ mc' # mc
                /\ request'[r].approved.m # None =>
                    Etag(mc[request'[r].approved.m], dim) = request'[r].approved.etag]_rvars
  BY <1>1
<1> QED
  BY <1>2, ReviewsAreSound, PTL DEF ReviewSpec, ApprovalsAreCurrent

\* A proposal the code accepted is one the table's CHECK constraint accepts.
LEMMA ProposalAccepted ==
    ASSUME NEW p, WellFormed(p)
    PROVE  ApprovedAccepted(p) /\ (p.kind # "RestoreMc" => OriginalAccepted(p))
<1>1. /\ p \in Proposal /\ ValidProposal(p) /\ p.sel \in [Slots -> Dims \cup {None, Keep, Inline}]
      /\ p.kind \in {"CreateMc", "UpdateMc", "DeleteMc", "RestoreMc"}
  BY DEF WellFormed, Proposal, ProposalKinds, TargetKinds
<1>2. 1 \in Slots
  BY SlotAssumption DEF Slots
<1>3. p.kind # "DeleteMc" => \E s \in Slots : p.sel[s] # Keep
  BY <1>1, <1>2 DEF ValidProposal, Filled
<1>4. p.kind # "DeleteMc" => HasPayload(p)
  BY <1>3 DEF HasPayload, NoChoice
<1>5. p.kind = "DeleteMc" => p.sel = NoChoice
  BY <1>1 DEF ValidProposal, NoChoice
<1>6. p.kind = "CreateMc" => p.m = None /\ p.etag = NoEtag
  BY <1>1 DEF ValidProposal, WellFormed
<1>7. p.kind # "CreateMc" => HasTarget(p)
  BY <1>1 DEF ValidProposal, WellFormed, HasTarget
<1> QED
  BY <1>1, <1>4, <1>5, <1>6, <1>7 DEF ApprovedAccepted, OriginalAccepted, HasPayload

\* The table of change requests accepts whatever submissions and racing
\* reviews write, so no review fails at its last statement.
THEOREM RequestTableAlwaysAccepts == ReviewSpec => RequestTableAccepts
<1>1. ASSUME ReviewInv, ReviewNext, NEW r \in Requests, request'[r] # request[r]
      PROVE  /\ ChangeRequestBeforeWrite(request[r], request'[r])
             /\ OriginalAccepted(request'[r].original)
             /\ ReviewAccepted(request'[r])
  <2>0. request[r] \in Row /\ RequestOK(r)
    BY <1>1 DEF ReviewInv
  <2>1. ASSUME NEW p, Submission(r, p)
        PROVE  /\ ChangeRequestBeforeWrite(request[r], request'[r])
               /\ OriginalAccepted(request'[r].original)
               /\ ReviewAccepted(request'[r])
    <3>1. request[r] = NoRequest
      BY <2>0, <2>1 DEF RequestOK, Submission
    <3>2. /\ request'[r].status = "PENDING" /\ request'[r].original = p
          /\ request'[r].approved = NoProposal /\ request'[r].message = FALSE
      BY <2>1 DEF Submission, NoRequest
    <3>3. WellFormed(p) /\ p.kind # "RestoreMc"
      BY <1>1, <2>1, ProposalsFit DEF Submission, ReviewInv
    <3> QED
      BY <3>1, <3>2, <3>3, ProposalAccepted DEF ChangeRequestBeforeWrite, ReviewAccepted
  <2>2. ASSUME NEW t \in Txs, Approval(r, t)
        PROVE  /\ ChangeRequestBeforeWrite(request[r], request'[r])
               /\ OriginalAccepted(request'[r].original)
               /\ ReviewAccepted(request'[r])
    <3>1. PICK p : p = desk[t].plan
      OBVIOUS
    <3>2. /\ request[r].status = "PENDING" /\ WellFormed(p)
          /\ ValidApproval(request[r].original, p, desk[t].message)
          /\ request'[r].status = ApprovalStatus(request[r].original, p)
          /\ request'[r].approved = p /\ request'[r].message = desk[t].message
          /\ request'[r].original = request[r].original
      BY <1>1, <2>2, <3>1, ApprovalFacts
    <3>3. OriginalAccepted(request'[r].original)
      BY <2>0, <3>2, ProposalAccepted DEF RequestOK
    <3>4. ReviewAccepted(request'[r])
      BY <3>2, ProposalAccepted DEF ReviewAccepted, ValidApproval, KeepsTarget,
                                    ApprovalStatus, Approvals
    <3> QED
      BY <3>2, <3>3, <3>4 DEF ChangeRequestBeforeWrite, ApprovalStatus
  <2>3. CASE Rejection(r)
    <3>1. /\ request[r].status = "PENDING" /\ request'[r].status = "REJECTED"
          /\ request'[r].message = TRUE /\ request'[r].original = request[r].original
          /\ request'[r].approved = request[r].approved
      BY <2>0, <2>3 DEF Rejection, Row
    <3> QED
      BY <2>0, <3>1, ProposalAccepted DEF RequestOK, ChangeRequestBeforeWrite, ReviewAccepted
  <2> QED
    BY <1>1, <2>1, <2>2, <2>3, RequestWrites
<1>2. ReviewInv /\ [ReviewNext]_rvars =>
        [\A r \in Requests : request'[r] # request[r] =>
            /\ ChangeRequestBeforeWrite(request[r], request'[r])
            /\ OriginalAccepted(request'[r].original)
            /\ ReviewAccepted(request'[r])]_rvars
  BY <1>1
<1> QED
  BY <1>2, ReviewsAreSound, PTL DEF ReviewSpec, RequestTableAccepts

=============================================================================
