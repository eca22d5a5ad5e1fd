--------------------------- MODULE CredentialsProofs --------------------------
(***************************************************************************)
(* Sessions, resets and accounts stay consistent, for every number of      *)
(* users, sessions, tokens, links and overlapping requests.                *)
(*                                                                         *)
(* A request decides from a snapshot and from the row it reads under the   *)
(* lock of its user.  The inductive invariant says why that is enough: the *)
(* row a transaction holds is the current one and nobody else holds it     *)
(* (RequestOK, HeldOnce), what a request presented is still there and of   *)
(* the same user (RequestOK), rows refer to rows (Referential), and of     *)
(* each user at most one session and one challenge is live, under the      *)
(* current password and only while the user is active (LiveRows).          *)
(***************************************************************************)
EXTENDS Credentials, FiniteSetTheorems, SequenceTheorems, TLAPS

\* What a request carries still describes the tables.
RequestOK(r) ==
    LET q == req[r] IN
    /\ q.pc # "idle" => q.kind \in AllKinds /\ q.user \in Users
    /\ q.pc = "locked" => q.row = user[q.user]
    /\ q.kind \in {"Refresh", "Logout", "ChangePassword"} =>
        /\ q.target \in Tokens /\ token[q.target] # NoToken
        /\ family[token[q.target].family].user = q.user
    /\ q.kind = "CompleteReset" =>
        /\ q.target \in Links /\ link[q.target] # NoLink
        /\ challenge[link[q.target].challenge].user = q.user
    /\ q.kind = "ChangeStatus" => q.to \in Statuses
    /\ q.kind = "ChangeRole" => q.to \in Roles
    /\ q.kind \in Management => q.by \in Users

\* The lock a transaction begins with, and the one its event may add.
FirstLock(q) == <<q.user, Mode(q.kind)>>
EventLock(q) == <<q.by, "FOR KEY SHARE">>

LocksOK(q) ==
    /\ q.pc # "locked" => q.held = {}
    /\ q.pc = "locked" => FirstLock(q) \in q.held
    /\ \A k \in q.held : k = FirstLock(q) \/ (q.kind \in Management /\ k = EventLock(q))

\* A transaction holds the locks its statements took, and the first of them,
\* in either mode, excludes every other transaction that begins there.
HeldOnce ==
    /\ \A r \in Requests : LocksOK(req[r])
    /\ \A r, q \in Requests :
          /\ req[r].pc = "locked" /\ req[q].pc = "locked"
          /\ req[r].user = req[q].user
          => r = q

\* The foreign keys of tokens and links.
Referential ==
    /\ \A k \in Tokens : token[k] # NoToken => family[token[k].family] # NoFamily
    /\ \A l \in Links : link[l] # NoLink => challenge[link[l].challenge] # NoChallenge

LiveRows ==
    /\ SessionTablesAccept
    /\ DisabledHoldsNothing
    /\ OpenedUnderCurrentPassword

\* The one unused token of a session, and the redeemed links of a challenge.
Unused(f) == {k \in Tokens : token[k].family = f /\ token[k].used = None}
Redeemed(c) == {l \in Links : link[l].challenge = c /\ link[l].used # None}

Chained ==
    /\ \A f \in Families : family[f] # NoFamily => \E k \in Tokens : Unused(f) = {k}
    /\ \A k \in Tokens : token[k].used = None => token[k].next = None
    /\ \A k \in Tokens : token[k].used # None =>
          /\ token[k].next \in Tokens
          /\ token[token[k].next].family = token[k].family
          /\ \A j \in Tokens \ {k} : token[j].next # token[k].next

Redemption ==
    \A c \in Challenges :
        IF challenge[c].st = "COMPLETED" THEN \E l \in Links : Redeemed(c) = {l}
        ELSE Redeemed(c) = {}

CredInv ==
    /\ LiveRows
    /\ \A r \in Requests : RequestOK(r)
    /\ HeldOnce
    /\ Referential
    /\ Chained
    /\ Redemption
    /\ EventsExplainUsers

USE DEF Hash, Time

-----------------------------------------------------------------------------
(***************************************************************************)
(* The initial state.                                                      *)
(***************************************************************************)
LEMMA CredInvInit == Init => CredInv
<1> SUFFICES ASSUME Init PROVE CredInv
  OBVIOUS
<1> USE DEF Init
<1>1. /\ setup \in [users : [Users -> UserRow], subjects : SUBSET Users,
                    kinds : SUBSET AllKinds, until : Time]
      /\ user \in [Users -> UserRow]
  BY CredentialStart DEF InitUser
<1>2. log \in [Users -> Seq(Event)]
  BY EmptySeq
<1>3. req \in [Requests -> Request]
  BY DEF Idle, Request
<1>4. CredTypeOK
  BY <1>1, <1>2, <1>3 DEF CredTypeOK, FamilyRow, TokenRow, ChallengeRow, LinkRow
<1>5. LiveRows
  BY <1>4 DEF LiveRows, SessionTablesAccept, DisabledHoldsNothing,
     OpenedUnderCurrentPassword, NoFamily, NoChallenge
<1>6. \A r \in Requests : RequestOK(r)
  BY CredentialSentinel DEF RequestOK, Idle, AllKinds, Management
<1>7. HeldOnce /\ Referential
  BY DEF HeldOnce, LocksOK, Referential, Idle
<1>8. Chained /\ Redemption
  BY CredentialIds, CredentialSentinel
     DEF Chained, Redemption, Redeemed, NoToken, NoLink, NoChallenge
<1>9. EventsExplainUsers
  <2> SUFFICES ASSUME NEW u \in Users
               PROVE  /\ Explains(log[u], "ROLE", InitUser[u].role, user[u].role)
                      /\ Explains(log[u], "STATUS", InitUser[u].status, user[u].status)
                      /\ user[u].hash = InitUser[u].hash + Cardinality(EventsOf(log[u], "PASSWORD"))
    BY DEF EventsExplainUsers
  <2>1. \A type : EventsOf(log[u], type) = {}
    BY EmptySeq DEF EventsOf
  <2>2. Cardinality(EventsOf(log[u], "PASSWORD")) = 0
    BY <2>1, FS_EmptySet
  <2>3. user[u].hash \in Nat
    BY <1>1 DEF UserRow
  <2> QED BY <2>1, <2>2, <2>3 DEF Explains
<1> QED BY <1>5, <1>6, <1>7, <1>8, <1>9 DEF CredInv

-----------------------------------------------------------------------------
(***************************************************************************)
(* Steps that leave the tables alone.                                      *)
(***************************************************************************)
\* What the tables say does not depend on the requests and the clock.
LEMMA TablesAlone ==
    ASSUME CredInv, CredTypeOK', UNCHANGED <<setup, store>>
    PROVE  LiveRows' /\ Referential' /\ Chained' /\ Redemption' /\ EventsExplainUsers'
<1> USE DEF CredInv, store
<1>1. LiveRows'
  BY DEF LiveRows, SessionTablesAccept, DisabledHoldsNothing, OpenedUnderCurrentPassword
<1>2. Referential'
  BY DEF Referential
<1>3. Chained' /\ Redemption'
  BY DEF Chained, Redemption, Unused, Redeemed
<1>4. EventsExplainUsers'
  BY DEF EventsExplainUsers, Explains, EventsOf, InitUser
<1> QED BY <1>1, <1>2, <1>3, <1>4

\* A request that enters holds nothing yet; it only has to be well formed.
LEMMA EnterStep ==
    ASSUME CredInv, UNCHANGED setup, NEW r \in Requests, NEW q, Enter(r, q),
           q \in Request, q.pc = "ready", q.kind \in AllKinds, q.user \in Users,
           q.kind \in {"Refresh", "Logout", "ChangePassword"} =>
               /\ q.target \in Tokens /\ token[q.target] # NoToken
               /\ family[token[q.target].family].user = q.user,
           q.kind = "CompleteReset" =>
               /\ q.target \in Links /\ link[q.target] # NoLink
               /\ challenge[link[q.target].challenge].user = q.user,
           q.kind = "ChangeStatus" => q.to \in Statuses,
           q.kind = "ChangeRole" => q.to \in Roles,
           q.kind \in Management => q.by \in Users, q.held = {}
    PROVE  CredInv'
<1>1. CredTypeOK
  BY DEF CredInv, LiveRows, SessionTablesAccept
<1>2. CredTypeOK' /\ UNCHANGED store
  BY <1>1 DEF CredTypeOK, Enter, store
<1>3. req' = [req EXCEPT ![r] = q] /\ req \in [Requests -> Request]
  BY <1>1 DEF CredTypeOK, Enter
<1>4. \A p \in Requests : RequestOK(p)'
  <2> TAKE p \in Requests
  <2>1. CASE p = r
    BY <1>2, <1>3, <2>1 DEF RequestOK, store
  <2>2. CASE p # r
    BY <1>2, <1>3, <2>2 DEF CredInv, RequestOK, store
  <2> QED BY <2>1, <2>2
<1>5. HeldOnce'
  BY <1>3 DEF CredInv, HeldOnce, LocksOK
<1> QED BY <1>2, <1>4, <1>5, TablesAlone DEF CredInv

\* A token's and a link's row give a user.
LEMMA PresentedUsers ==
    ASSUME CredInv
    PROVE  /\ \A k \in Tokens : token[k] # NoToken =>
                token[k].family \in Families /\ family[token[k].family].user \in Users
           /\ \A l \in Links : link[l] # NoLink =>
                link[l].challenge \in Challenges /\ challenge[link[l].challenge].user \in Users
<1>1. CredTypeOK /\ Referential
  BY DEF CredInv, LiveRows, SessionTablesAccept
<1>2. \A k \in Tokens : token[k] # NoToken => token[k].family \in Families
  BY <1>1 DEF CredTypeOK, TokenRow
<1>3. \A f \in Families : family[f] # NoFamily => family[f].user \in Users
  BY <1>1 DEF CredTypeOK, FamilyRow
<1>4. \A l \in Links : link[l] # NoLink => link[l].challenge \in Challenges
  BY <1>1 DEF CredTypeOK, LinkRow
<1>5. \A c \in Challenges : challenge[c] # NoChallenge => challenge[c].user \in Users
  BY <1>1 DEF CredTypeOK, ChallengeRow
<1> QED BY <1>1, <1>2, <1>3, <1>4, <1>5 DEF Referential

LEMMA StartStep ==
    ASSUME CredInv, UNCHANGED setup, NEW r \in Requests, Start(r)
    PROVE  CredInv'
<1>0. CredTypeOK
  BY DEF CredInv, LiveRows, SessionTablesAccept
<1>a. \A u \in Users : user[u].hash \in Hash
  BY <1>0 DEF CredTypeOK, UserRow
<1>b. Subjects \subseteq Users
  BY <1>0, CredentialStart DEF CredTypeOK, Subjects
<1>1. ASSUME NEW u \in Subjects, AcceptLogin(r, u) \/ AcceptRequestReset(r, u)
      PROVE  CredInv'
  <2> DEFINE q(kind, hash) == [Idle EXCEPT !.pc = "ready", !.kind = kind, !.user = u,
                                           !.target = None, !.hash = hash]
  <2>1. \E kind \in {"Login", "RequestReset"}, hash \in Hash \cup {None} :
            Enter(r, q(kind, hash))
    BY <1>1, <1>a, <1>b DEF AcceptLogin, AcceptRequestReset, Accept
  <2>2. PICK kind \in {"Login", "RequestReset"}, hash \in Hash \cup {None} :
            Enter(r, q(kind, hash))
    BY <2>1
  <2>3. q(kind, hash) \in Request
    BY <1>b DEF Idle, Request, AllKinds
  <2>4. /\ q(kind, hash).pc = "ready" /\ q(kind, hash).kind = kind
        /\ q(kind, hash).user = u /\ q(kind, hash).held = {}
    BY DEF Idle
  <2> HIDE DEF q
  <2> QED BY <1>b, <2>2, <2>3, <2>4, EnterStep DEF AllKinds, Management
<1>2. ASSUME NEW k \in Tokens, AcceptRefresh(r, k) \/ AcceptChangePassword(r, k)
      PROVE  CredInv'
  <2> DEFINE u == family[token[k].family].user
             q(kind, hash) == [Idle EXCEPT !.pc = "ready", !.kind = kind, !.user = u,
                                           !.target = k, !.hash = hash]
  <2>0. token[k] # NoToken
    BY <1>2 DEF AcceptRefresh, AcceptChangePassword
  <2>u. u \in Users
    BY <2>0, PresentedUsers
  <2>1. \E kind \in {"Refresh", "Logout", "ChangePassword"}, hash \in Hash \cup {None} :
            Enter(r, q(kind, hash))
    BY <1>2, <1>a, <2>u DEF AcceptRefresh, AcceptChangePassword, Accept
  <2>2. PICK kind \in {"Refresh", "Logout", "ChangePassword"}, hash \in Hash \cup {None} :
            Enter(r, q(kind, hash))
    BY <2>1
  <2>3. q(kind, hash) \in Request
    BY <2>u DEF Idle, Request, AllKinds
  <2>4. /\ q(kind, hash).pc = "ready" /\ q(kind, hash).kind = kind
        /\ q(kind, hash).user = u /\ q(kind, hash).target = k /\ q(kind, hash).held = {}
    BY DEF Idle
  <2> HIDE DEF q
  <2> QED BY <2>0, <2>u, <2>2, <2>3, <2>4, EnterStep DEF AllKinds, Management
<1>3. ASSUME NEW l \in Links, AcceptCompleteReset(r, l)
      PROVE  CredInv'
  <2> DEFINE u == challenge[link[l].challenge].user
             q(hash) == [Idle EXCEPT !.pc = "ready", !.kind = "CompleteReset", !.user = u,
                                     !.target = l, !.hash = hash]
  <2>0. link[l] # NoLink
    BY <1>3 DEF AcceptCompleteReset
  <2>u. u \in Users
    BY <2>0, PresentedUsers
  <2>1. \E hash \in Hash \cup {None} : Enter(r, q(hash))
    BY <1>3, <1>a, <2>u DEF AcceptCompleteReset, Accept
  <2>2. PICK hash \in Hash \cup {None} : Enter(r, q(hash))
    BY <2>1
  <2>3. q(hash) \in Request
    BY <2>u DEF Idle, Request, AllKinds
  <2>4. /\ q(hash).pc = "ready" /\ q(hash).kind = "CompleteReset"
        /\ q(hash).user = u /\ q(hash).target = l /\ q(hash).held = {}
    BY DEF Idle
  <2> HIDE DEF q
  <2> QED BY <2>0, <2>u, <2>2, <2>3, <2>4, EnterStep DEF AllKinds, Management
<1>4. ASSUME NEW by \in Users, NEW u \in Subjects, NEW kind \in Management,
             NEW as \in Roles, NEW to \in Roles \cup Statuses,
             kind = "ChangeStatus" => to \in Statuses,
             kind = "ChangeRole" => to \in Roles,
             AcceptFrom(r, kind, by, as, u, to)
      PROVE  CredInv'
  <2> DEFINE q == [Idle EXCEPT !.pc = "ready", !.kind = kind, !.user = u,
                               !.by = by, !.as = as, !.to = to]
  <2>1. Enter(r, q)
    BY <1>4 DEF AcceptFrom
  <2>2. q \in Request
    BY <1>4, <1>b DEF Idle, Request, AllKinds, Management
  <2>3. q.pc = "ready" /\ q.kind = kind /\ q.user = u /\ q.to = to /\ q.by = by /\ q.held = {}
    BY DEF Idle
  <2> HIDE DEF q
  <2> QED BY <1>4, <1>b, <2>1, <2>2, <2>3, EnterStep DEF AllKinds, Management
<1>5. ASSUME NEW by \in Users, NEW u \in Subjects, NEW status \in Statuses,
             AcceptChangeStatus(r, by, u, status)
      PROVE  CredInv'
  BY <1>4, <1>5 DEF AcceptChangeStatus, Management, Roles
<1>6. ASSUME NEW by \in Users, NEW u \in Subjects, NEW role \in Roles,
             AcceptChangeRole(r, by, u, role)
      PROVE  CredInv'
  BY <1>4, <1>6 DEF AcceptChangeRole, Management, Roles
<1> QED BY <1>1, <1>2, <1>3, <1>5, <1>6 DEF Start

\* Locking a user: the row read is the row there is, and nobody else has it.
LEMMA LockStep ==
    ASSUME CredInv, UNCHANGED setup, NEW r \in Requests, LockUser(r)
    PROVE  CredInv'
<1>1. CredTypeOK
  BY DEF CredInv, LiveRows, SessionTablesAccept
<1>2. req[r].user \in Users /\ RequestOK(r) /\ req[r].pc = "ready"
  BY DEF CredInv, RequestOK, LockUser
<1>a. PICK held : held = {FirstLock(req[r])}
  OBVIOUS
<1>3. /\ req' = [req EXCEPT ![r] = [req[r] EXCEPT !.pc = "locked", !.row = user[req[r].user],
                                                 !.held = held]]
      /\ UNCHANGED store
  BY <1>a DEF LockUser, FirstLock
<1>b. req \in [Requests -> Request]
  BY <1>1 DEF CredTypeOK
<1>c. /\ req'[r].kind = req[r].kind /\ req'[r].user = req[r].user
      /\ req'[r].target = req[r].target /\ req'[r].to = req[r].to /\ req'[r].by = req[r].by
      /\ req'[r].pc = "locked" /\ req'[r].row = user[req[r].user] /\ req'[r].held = held
  BY <1>3, <1>b DEF Request
<1>d. \A p \in Requests \ {r} : req'[p] = req[p]
  BY <1>3, <1>b
<1>4. CredTypeOK'
  <2>1. req[r] \in Request /\ user[req[r].user] \in UserRow
    BY <1>1, <1>2 DEF CredTypeOK
  <2>2. held \in SUBSET (Users \X Modes)
    <3>1. Mode(req[r].kind) \in Modes
      BY DEF Mode, Modes
    <3>2. FirstLock(req[r]) \in Users \X Modes
      BY <1>2, <3>1 DEF FirstLock
    <3> QED BY <1>a, <3>2
  <2>3. [req[r] EXCEPT !.pc = "locked", !.row = user[req[r].user], !.held = held] \in Request
    <3>1. ASSUME NEW q \in Request, NEW row \in UserRow
          PROVE  [q EXCEPT !.pc = "locked", !.row = row] \in Request
      BY DEF Request
    <3>2. ASSUME NEW q \in Request PROVE [q EXCEPT !.held = held] \in Request
      BY <2>2 DEF Request
    <3>3. ASSUME NEW q \in Request, NEW row \in UserRow
          PROVE  [q EXCEPT !.pc = "locked", !.row = row, !.held = held] =
                 [[q EXCEPT !.pc = "locked", !.row = row] EXCEPT !.held = held]
      BY DEF Request
    <3> QED BY <2>1, <3>1, <3>2, <3>3
  <2> QED BY <1>1, <1>3, <2>3 DEF CredTypeOK, LockUser, store
<1>5. ASSUME NEW p \in Requests PROVE RequestOK(p)'
  <2>1. CASE p = r
    BY <1>2, <1>3, <1>c, <2>1 DEF RequestOK, store
  <2>2. CASE p # r
    <3>1. req'[p] = req[p] /\ RequestOK(p)
      BY <1>d, <2>2 DEF CredInv
    <3> QED BY <1>3, <3>1 DEF RequestOK, store
  <2> QED BY <2>1, <2>2
<1>6. HeldOnce'
  <2>1. ASSUME NEW p \in Requests PROVE LocksOK(req'[p])
    <3>1. CASE p = r
      BY <1>a, <1>c, <3>1 DEF LocksOK, FirstLock
    <3>2. CASE p # r
      BY <1>d, <3>2 DEF CredInv, HeldOnce
    <3> QED BY <3>1, <3>2
  <2>2. ASSUME NEW p \in Requests \ {r}, req[p].pc = "locked", req[p].user = req[r].user
        PROVE  FALSE
    <3>1. <<req[r].user, Mode(req[p].kind)>> \in req[p].held
      BY <2>2 DEF CredInv, HeldOnce, LocksOK, FirstLock
    <3>2. Mode(req[p].kind) \in Excludes(Mode(req[r].kind))
      BY DEF Mode, Excludes, Modes
    <3>3. p \in Rivals(r, req[r].user, Mode(req[r].kind))
      BY <3>1, <3>2 DEF Rivals
    <3> QED BY <3>3 DEF LockUser, LockFree
  <2> QED BY <1>c, <1>d, <2>1, <2>2 DEF CredInv, HeldOnce
<1> QED BY <1>4, <1>5, <1>6, <1>3, TablesAlone DEF CredInv

\* The event adds the initiator's row to what the transaction holds.
LEMMA AuditStep ==
    ASSUME CredInv, UNCHANGED setup, NEW r \in Requests, Audit(r)
    PROVE  CredInv'
<1>1. CredTypeOK /\ req \in [Requests -> Request]
  BY DEF CredInv, LiveRows, SessionTablesAccept, CredTypeOK
<1>2. /\ req[r].pc = "locked" /\ req[r].kind \in Management /\ req[r].by \in Users
      /\ RequestOK(r) /\ LocksOK(req[r])
  BY DEF CredInv, RequestOK, HeldOnce, Audit, Changes, Management
<1>a. PICK held : held = req[r].held \cup {EventLock(req[r])}
  OBVIOUS
<1>3. req' = [req EXCEPT ![r] = [req[r] EXCEPT !.held = held]] /\ UNCHANGED <<store, clock>>
  BY <1>a DEF Audit, EventLock, Initiator
<1>4. held \in SUBSET (Users \X Modes)
  <2>1. req[r].held \in SUBSET (Users \X Modes)
    BY <1>1 DEF Request
  <2>2. EventLock(req[r]) \in Users \X Modes
    BY <1>2 DEF EventLock, Modes
  <2> QED BY <1>a, <2>1, <2>2
<1>5. CredTypeOK'
  <2>1. [req[r] EXCEPT !.held = held] \in Request
    BY <1>1, <1>4 DEF Request
  <2> QED BY <1>1, <1>3, <2>1 DEF CredTypeOK, store
<1>6. /\ req'[r].kind = req[r].kind /\ req'[r].user = req[r].user
      /\ req'[r].target = req[r].target /\ req'[r].to = req[r].to /\ req'[r].by = req[r].by
      /\ req'[r].pc = req[r].pc /\ req'[r].row = req[r].row /\ req'[r].held = held
  BY <1>1, <1>3 DEF Request
<1>7. \A p \in Requests \ {r} : req'[p] = req[p]
  BY <1>1, <1>3
<1>8. ASSUME NEW p \in Requests PROVE RequestOK(p)'
  <2>1. CASE p = r
    BY <1>2, <1>3, <1>6, <2>1 DEF RequestOK, store
  <2>2. CASE p # r
    <3>1. req'[p] = req[p] /\ RequestOK(p)
      BY <1>7, <2>2 DEF CredInv
    <3> QED BY <1>3, <3>1 DEF RequestOK, store
  <2> QED BY <2>1, <2>2
<1>9. HeldOnce'
  <2>1. LocksOK(req'[r])
    BY <1>2, <1>6, <1>a DEF LocksOK, FirstLock, EventLock
  <2> QED BY <1>6, <1>7, <2>1 DEF CredInv, HeldOnce
<1> QED BY <1>3, <1>5, <1>8, <1>9, TablesAlone DEF CredInv

LEMMA AbortStep ==
    ASSUME CredInv, UNCHANGED setup, NEW r \in Requests, Abort(r)
    PROVE  CredInv'
<1>1. CredTypeOK
  BY DEF CredInv, LiveRows, SessionTablesAccept
<1>2. req' = [req EXCEPT ![r] = Idle] /\ UNCHANGED <<store, clock>> /\ Idle \in Request
  BY DEF Abort, Done, Idle, Request
<1>3. CredTypeOK'
  BY <1>1, <1>2 DEF CredTypeOK, store
<1>4. \A p \in Requests : RequestOK(p)'
  BY <1>1, <1>2, CredentialSentinel DEF CredInv, RequestOK, store, CredTypeOK, Idle, AllKinds, Management
<1>5. HeldOnce'
  BY <1>1, <1>2 DEF CredInv, HeldOnce, LocksOK, CredTypeOK, Idle
<1> QED BY <1>2, <1>3, <1>4, <1>5, TablesAlone DEF CredInv

LEMMA TickStep ==
    ASSUME CredInv, UNCHANGED setup, Tick
    PROVE  CredInv'
<1>1. CredTypeOK
  BY DEF CredInv, LiveRows, SessionTablesAccept
<1>2. CredTypeOK' /\ UNCHANGED <<store, req>>
  BY <1>1 DEF CredTypeOK, Tick, store
<1>3. (\A p \in Requests : RequestOK(p)') /\ HeldOnce'
  BY <1>2 DEF CredInv, RequestOK, HeldOnce, store
<1> QED BY <1>2, <1>3, TablesAlone DEF CredInv

-----------------------------------------------------------------------------
(***************************************************************************)
(* What the commit of a transaction that holds user u may do.              *)
(***************************************************************************)
\* Rows stay, and belong to whom they belonged to.
Persist ==
    /\ \A f \in Families : family[f] # NoFamily =>
        /\ family'[f] # NoFamily
        /\ family'[f].user = family[f].user /\ family'[f].expires = family[f].expires
        /\ family[f].st = "REVOKED" => family'[f].st = "REVOKED"
    /\ \A k \in Tokens : token[k] # NoToken =>
        token'[k] # NoToken /\ token'[k].family = token[k].family
    /\ \A c \in Challenges : challenge[c] # NoChallenge =>
        /\ challenge'[c] # NoChallenge
        /\ challenge'[c].user = challenge[c].user
        /\ challenge'[c].expires = challenge[c].expires
        /\ challenge[c].st # "ACTIVE" => challenge'[c] = challenge[c]
    /\ \A l \in Links : link[l] # NoLink =>
        link'[l] # NoLink /\ link'[l].challenge = link[l].challenge

\* A live row was live before, unless the commit wrote it; the rows of u
\* survive only if neither the password nor an active status is lost.
Survives(u, row, next) ==
    /\ next = row
    /\ row.user = u => user'[u].hash = user[u].hash /\ user'[u].status = user[u].status
Opened(u, next) ==
    /\ next.user = u /\ next.under = user'[u].hash
    /\ user'[u].status = "ACTIVE"

LiveChange(u) ==
    /\ \A v \in Users \ {u} : user'[v] = user[v]
    /\ \A f \in Families : family'[f].st = "ACTIVE" =>
        \/ Survives(u, family[f], family'[f])
        \/ /\ Opened(u, family'[f])
           /\ \A g \in Families \ {f} :
                family'[g].user = u => family'[g].st # "ACTIVE"
    /\ \A c \in Challenges : challenge'[c].st = "ACTIVE" =>
        \/ Survives(u, challenge[c], challenge'[c])
        \/ /\ Opened(u, challenge'[c])
           /\ \A d \in Challenges \ {c} :
                challenge'[d].user = u => challenge'[d].st # "ACTIVE"

\* The live rows stay unique, current and of active users.
LEMMA LiveStep ==
    ASSUME CredInv, CredTypeOK', NEW u \in Users, LiveChange(u)
    PROVE  LiveRows'
<1> USE DEF LiveChange, Survives, Opened
<1>0. CredTypeOK
  BY DEF CredInv, LiveRows, SessionTablesAccept
<1>1. /\ \A f \in Families : family'[f].st = "ACTIVE" => family'[f].user \in Users
      /\ \A c \in Challenges : challenge'[c].st = "ACTIVE" => challenge'[c].user \in Users
  BY DEF CredTypeOK, FamilyRow, ChallengeRow, NoFamily, NoChallenge
<1>2. /\ \A f, g \in Families : family'[f].st = "ACTIVE" /\ family'[g].st = "ACTIVE"
              /\ family'[f].user = family'[g].user => f = g
      /\ \A c, d \in Challenges : challenge'[c].st = "ACTIVE" /\ challenge'[d].st = "ACTIVE"
              /\ challenge'[c].user = challenge'[d].user => c = d
  BY DEF CredInv, LiveRows, SessionTablesAccept
<1>3. DisabledHoldsNothing'
  BY <1>1 DEF CredInv, LiveRows, DisabledHoldsNothing
<1>4. OpenedUnderCurrentPassword'
  BY <1>1 DEF CredInv, LiveRows, OpenedUnderCurrentPassword
<1> QED BY <1>2, <1>3, <1>4 DEF LiveRows, SessionTablesAccept

\* The other requests still describe the tables: they hold other users.
LEMMA RequestStep ==
    ASSUME CredInv, CredTypeOK', NEW r \in Requests, req[r].pc = "locked", Done(r), Persist,
           \A v \in Users \ {req[r].user} : user'[v] = user[v]
    PROVE  (\A q \in Requests : RequestOK(q)') /\ HeldOnce'
<1>0. CredTypeOK
  BY DEF CredInv, LiveRows, SessionTablesAccept
<1>1. req' = [req EXCEPT ![r] = Idle] /\ req \in [Requests -> Request]
  BY <1>0 DEF Done, CredTypeOK
<1>2. HeldOnce'
  BY <1>1 DEF CredInv, HeldOnce, LocksOK, Idle
<1>3. ASSUME NEW q \in Requests PROVE RequestOK(q)'
  <2>1. CASE q = r
    BY <1>1, <2>1, CredentialSentinel DEF RequestOK, Idle, AllKinds, Management
  <2>2. CASE q # r
    <3>1. req'[q] = req[q] /\ RequestOK(q)
      BY <1>1, <2>2 DEF CredInv
    <3>2. req[q].pc = "locked" => req[q].row = user'[req[q].user]
      <4>1. req[q].pc = "locked" => req[q].user \in Users \ {req[r].user}
        BY <2>2, <3>1 DEF CredInv, HeldOnce, RequestOK
      <4> QED BY <3>1, <4>1 DEF RequestOK
    <3>3. req[q].kind \in {"Refresh", "Logout", "ChangePassword"} =>
            /\ token'[req[q].target] # NoToken
            /\ family'[token'[req[q].target].family].user = req[q].user
      BY <3>1, PresentedUsers DEF RequestOK, Persist, CredInv, Referential
    <3>4. req[q].kind = "CompleteReset" =>
            /\ link'[req[q].target] # NoLink
            /\ challenge'[link'[req[q].target].challenge].user = req[q].user
      <4> SUFFICES ASSUME req[q].kind = "CompleteReset"
                   PROVE  /\ link'[req[q].target] # NoLink
                          /\ challenge'[link'[req[q].target].challenge].user = req[q].user
        OBVIOUS
      <4>1. /\ req[q].target \in Links /\ link[req[q].target] # NoLink
            /\ challenge[link[req[q].target].challenge].user = req[q].user
        BY <3>1 DEF RequestOK
      <4>2. /\ link[req[q].target].challenge \in Challenges
            /\ challenge[link[req[q].target].challenge] # NoChallenge
        BY <4>1, PresentedUsers DEF CredInv, Referential
      <4> QED BY <4>1, <4>2 DEF Persist
    <3> QED BY <3>1, <3>2, <3>3, <3>4 DEF RequestOK
  <2> QED BY <2>1, <2>2
<1> QED BY <1>2, <1>3

\* Revoking the sessions and the challenges of a user.
LEMMA RevokedRows ==
    ASSUME CredTypeOK, NEW u \in Users
    PROVE  /\ Revoked(u) \in [Families -> FamilyRow]
           /\ RevokedChallenges(u) \in [Challenges -> ChallengeRow]
           /\ \A f \in Families :
                /\ Revoked(u)[f].st = "ACTIVE" =>
                        Revoked(u)[f] = family[f] /\ family[f].user # u
                /\ family[f].st # "ACTIVE" => Revoked(u)[f] = family[f]
                /\ family[f].st = "ACTIVE" => Revoked(u)[f].st \in {"ACTIVE", "REVOKED"}
                /\ Revoked(u)[f].user = family[f].user
                /\ Revoked(u)[f].expires = family[f].expires
                /\ Revoked(u)[f] = NoFamily <=> family[f] = NoFamily
           /\ \A c \in Challenges :
                /\ RevokedChallenges(u)[c].st = "ACTIVE" =>
                        RevokedChallenges(u)[c] = challenge[c] /\ challenge[c].user # u
                /\ challenge[c].st # "ACTIVE" => RevokedChallenges(u)[c] = challenge[c]
                /\ RevokedChallenges(u)[c].st = "COMPLETED" <=> challenge[c].st = "COMPLETED"
                /\ RevokedChallenges(u)[c].user = challenge[c].user
                /\ RevokedChallenges(u)[c].expires = challenge[c].expires
                /\ RevokedChallenges(u)[c] = NoChallenge <=> challenge[c] = NoChallenge
<1>1. ASSUME NEW f \in Families, family[f].st = "ACTIVE"
      PROVE  /\ [family[f] EXCEPT !.st = "REVOKED"] \in FamilyRow \ {NoFamily}
             /\ [family[f] EXCEPT !.st = "REVOKED"].st = "REVOKED"
             /\ [family[f] EXCEPT !.st = "REVOKED"].user = family[f].user
             /\ [family[f] EXCEPT !.st = "REVOKED"].expires = family[f].expires
             /\ family[f] # NoFamily
  <2>1. family[f] # NoFamily
    BY <1>1 DEF NoFamily
  <2>2. family[f] \in [st : {"ACTIVE", "REVOKED"},
                     user : Users, expires : Time, under : Hash]
    BY <2>1 DEF CredTypeOK, FamilyRow
  <2>3. [family[f] EXCEPT !.st = "REVOKED"] \in
            [st : {"ACTIVE", "REVOKED"},
             user : Users, expires : Time, under : Hash]
    BY <2>2
  <2>4. [family[f] EXCEPT !.st = "REVOKED"].st = "REVOKED"
    BY <2>2
  <2> QED BY <2>1, <2>2, <2>3, <2>4 DEF FamilyRow, NoFamily
<1>2. ASSUME NEW c \in Challenges, challenge[c].st = "ACTIVE"
      PROVE  /\ [challenge[c] EXCEPT !.st = "REVOKED"] \in ChallengeRow \ {NoChallenge}
             /\ [challenge[c] EXCEPT !.st = "REVOKED"].st = "REVOKED"
             /\ [challenge[c] EXCEPT !.st = "REVOKED"].user = challenge[c].user
             /\ [challenge[c] EXCEPT !.st = "REVOKED"].expires = challenge[c].expires
             /\ challenge[c] # NoChallenge
  <2>1. challenge[c] # NoChallenge
    BY <1>2 DEF NoChallenge
  <2>2. challenge[c] \in [st : {"ACTIVE", "EXPIRED", "COMPLETED", "REVOKED"},
                     user : Users, expires : Time, under : Hash]
    BY <2>1 DEF CredTypeOK, ChallengeRow
  <2>3. [challenge[c] EXCEPT !.st = "REVOKED"] \in
            [st : {"ACTIVE", "EXPIRED", "COMPLETED", "REVOKED"},
             user : Users, expires : Time, under : Hash]
    BY <2>2
  <2>4. [challenge[c] EXCEPT !.st = "REVOKED"].st = "REVOKED"
    BY <2>2
  <2> QED BY <2>1, <2>2, <2>3, <2>4 DEF ChallengeRow, NoChallenge
<1>3. (\A f \in Families : family[f] \in FamilyRow)
      /\ (\A c \in Challenges : challenge[c] \in ChallengeRow)
  BY DEF CredTypeOK
<1>4. Revoked(u) \in [Families -> FamilyRow]
  BY <1>1, <1>3 DEF Revoked
<1>5. RevokedChallenges(u) \in [Challenges -> ChallengeRow]
  BY <1>2, <1>3 DEF RevokedChallenges
<1> HIDE DEF CredTypeOK
<1>6. ASSUME NEW f \in Families
      PROVE  /\ Revoked(u)[f].st = "ACTIVE" =>
                        Revoked(u)[f] = family[f] /\ family[f].user # u
             /\ family[f].st # "ACTIVE" => Revoked(u)[f] = family[f]
             /\ family[f].st = "ACTIVE" => Revoked(u)[f].st \in {"ACTIVE", "REVOKED"}
             /\ Revoked(u)[f].user = family[f].user
             /\ Revoked(u)[f].expires = family[f].expires
             /\ Revoked(u)[f] = NoFamily <=> family[f] = NoFamily
  BY <1>1 DEF Revoked
<1>7. ASSUME NEW c \in Challenges
      PROVE  /\ RevokedChallenges(u)[c].st = "ACTIVE" =>
                        RevokedChallenges(u)[c] = challenge[c] /\ challenge[c].user # u
             /\ challenge[c].st # "ACTIVE" => RevokedChallenges(u)[c] = challenge[c]
             /\ RevokedChallenges(u)[c].st = "COMPLETED" <=> challenge[c].st = "COMPLETED"
             /\ RevokedChallenges(u)[c].user = challenge[c].user
             /\ RevokedChallenges(u)[c].expires = challenge[c].expires
             /\ RevokedChallenges(u)[c] = NoChallenge <=> challenge[c] = NoChallenge
  BY <1>2 DEF RevokedChallenges
<1> QED BY <1>4, <1>5, <1>6, <1>7

-----------------------------------------------------------------------------
(***************************************************************************)
(* The security events.                                                    *)
(***************************************************************************)
\* One more event: of another type it changes nothing, of this type it goes
\* on from the value the events gave so far.
LEMMA ExplainsAppend ==
    ASSUME NEW events \in Seq(Event), NEW e \in Event, NEW type, NEW start, NEW now, NEW next,
           Explains(events, type, start, now),
           \/ e.type # type /\ next = now
           \/ e.type = type /\ e.from = now /\ e.to = next /\ now # next
    PROVE  Explains(Append(events, e), type, start, next)
<1> DEFINE n == Len(events)
           more == Append(events, e)
           these == EventsOf(events, type)
<1>1. /\ n \in Nat /\ DOMAIN events = 1..n /\ DOMAIN more = 1..(n + 1)
      /\ more[n + 1] = e /\ \A i \in 1..n : more[i] = events[i]
  BY AppendProperties, LenProperties
<1>2. these \subseteq 1..n
  BY <1>1 DEF EventsOf
<1>3. EventsOf(more, type) = IF e.type = type THEN these \cup {n + 1} ELSE these
  BY <1>1 DEF EventsOf
<1> HIDE DEF n, more
<1>4. CASE e.type # type /\ next = now
  BY <1>1, <1>2, <1>3, <1>4 DEF Explains, more
<1>5. CASE e.type = type /\ e.from = now /\ e.to = next /\ now # next
  <2>1. EventsOf(more, type) = these \cup {n + 1}
    BY <1>3, <1>5
  <2>2. ASSUME NEW i \in these
        PROVE  /\ more[i] = events[i] /\ i \in 1..n
               /\ events[i].from # events[i].to
               /\ (\A j \in these : i <= j) => events[i].from = start
               /\ (\A j \in these : j <= i) => events[i].to = now
               /\ \A j \in these : i < j /\ (\A k \in these : k <= i \/ j <= k) =>
                        events[i].to = events[j].from
    BY <1>1, <1>2 DEF Explains
  <2>3. these = {} => now = start
    BY DEF Explains
  <2> HIDE DEF these
  <2>4. ASSUME NEW i \in these \cup {n + 1}
        PROVE  more[i].from # more[i].to
    BY <1>1, <1>5, <2>2
  <2>5. ASSUME NEW i \in these \cup {n + 1}, \A j \in these \cup {n + 1} : i <= j
        PROVE  more[i].from = start
    BY <1>1, <1>5, <2>2, <2>3, <2>5
  <2>6. ASSUME NEW i \in these \cup {n + 1}, \A j \in these \cup {n + 1} : j <= i
        PROVE  more[i].to = next
    BY <1>1, <1>5, <2>2, <2>6
  <2>7. ASSUME NEW i \in these \cup {n + 1}, NEW j \in these \cup {n + 1}, i < j,
               \A k \in these \cup {n + 1} : k <= i \/ j <= k
        PROVE  more[i].to = more[j].from
    <3>1. i \in these
      BY <1>1, <2>2, <2>7
    <3>2. CASE j \in these
      BY <2>2, <2>7, <3>1, <3>2
    <3>3. CASE j = n + 1
      BY <1>1, <1>5, <2>2, <2>7, <3>1, <3>3
    <3> QED BY <3>2, <3>3
  <2> QED BY <2>1, <2>4, <2>5, <2>6, <2>7 DEF Explains, more
<1> QED BY <1>4, <1>5

LEMMA PasswordEvents ==
    ASSUME NEW events \in Seq(Event), NEW e \in Event
    PROVE  /\ Cardinality(EventsOf(events, "PASSWORD")) \in Nat
           /\ Cardinality(EventsOf(Append(events, e), "PASSWORD")) =
                IF e.type = "PASSWORD" THEN Cardinality(EventsOf(events, "PASSWORD")) + 1
                ELSE Cardinality(EventsOf(events, "PASSWORD"))
<1> DEFINE n == Len(events)
           these == EventsOf(events, "PASSWORD")
<1>1. /\ n \in Nat /\ DOMAIN events = 1..n /\ DOMAIN Append(events, e) = 1..(n + 1)
      /\ Append(events, e)[n + 1] = e /\ \A i \in 1..n : Append(events, e)[i] = events[i]
  BY AppendProperties, LenProperties
<1>2. these \in SUBSET (1..n) /\ n + 1 \notin these
  BY <1>1 DEF EventsOf
<1>3. EventsOf(Append(events, e), "PASSWORD") =
        IF e.type = "PASSWORD" THEN these \cup {n + 1} ELSE these
  BY <1>1 DEF EventsOf
<1>4. IsFiniteSet(these) /\ Cardinality(these) \in Nat
  <2>1. IsFiniteSet(1..n)
    BY <1>1, FS_Interval
  <2>2. IsFiniteSet(these)
    BY <1>2, <2>1, FS_Subset
  <2> QED BY <2>2, FS_CardinalityType
<1>5. Cardinality(these \cup {n + 1}) = Cardinality(these) + 1
  BY <1>2, <1>4, FS_AddElement
<1> QED BY <1>3, <1>4, <1>5

\* The events go on explaining the rows when one user's row and log change
\* together, and when neither does.
LEMMA EventsStep ==
    ASSUME CredInv, CredTypeOK', UNCHANGED setup, NEW u \in Users, NEW e \in Event,
           Record(u, e), user'[u] \in UserRow,
           \A v \in Users \ {u} : user'[v] = user[v],
           \/ e.type = "ROLE" /\ e.from = user[u].role /\ e.to = user'[u].role /\ e.from # e.to
           \/ e.type # "ROLE" /\ user'[u].role = user[u].role,
           \/ e.type = "STATUS" /\ e.from = user[u].status /\ e.to = user'[u].status
              /\ e.from # e.to
           \/ e.type # "STATUS" /\ user'[u].status = user[u].status,
           user'[u].hash = IF e.type = "PASSWORD" THEN user[u].hash + 1 ELSE user[u].hash
    PROVE  EventsExplainUsers'
<1>0. CredTypeOK
  BY DEF CredInv, LiveRows, SessionTablesAccept
<1>1. log \in [Users -> Seq(Event)] /\ log' = [log EXCEPT ![u] = Append(log[u], e)]
  BY <1>0 DEF CredTypeOK, Record
<1>2. log[u] \in Seq(Event) /\ log'[u] = Append(log[u], e)
      /\ \A v \in Users \ {u} : log'[v] = log[v]
  BY <1>1
<1>3. InitUser' = InitUser /\ \A v \in Users : InitUser[v].hash \in Nat /\ user[v].hash \in Nat
  BY <1>0, CredentialStart DEF InitUser, CredTypeOK, UserRow
<1>4. /\ Explains(log[u], "ROLE", InitUser[u].role, user[u].role)
      /\ Explains(log[u], "STATUS", InitUser[u].status, user[u].status)
      /\ user[u].hash = InitUser[u].hash + Cardinality(EventsOf(log[u], "PASSWORD"))
  BY DEF CredInv, EventsExplainUsers
<1>5. Explains(log'[u], "ROLE", InitUser[u].role, user'[u].role)
  BY <1>2, <1>4, ExplainsAppend
<1>6. Explains(log'[u], "STATUS", InitUser[u].status, user'[u].status)
  BY <1>2, <1>4, ExplainsAppend
<1>7. user'[u].hash = InitUser[u].hash + Cardinality(EventsOf(log'[u], "PASSWORD"))
  <2> DEFINE before == Cardinality(EventsOf(log[u], "PASSWORD"))
             after == Cardinality(EventsOf(log'[u], "PASSWORD"))
  <2>1. before \in Nat /\ after = IF e.type = "PASSWORD" THEN before + 1 ELSE before
    BY <1>2, PasswordEvents
  <2>2. user[u].hash = InitUser[u].hash + before
    BY <1>4
  <2>3. InitUser[u].hash \in Nat
    BY <1>3
  <2> HIDE DEF before, after
  <2>4. user'[u].hash = InitUser[u].hash + after
    BY <2>1, <2>2, <2>3
  <2> QED BY <2>4 DEF after
<1>8. \A v \in Users \ {u} :
        /\ Explains(log'[v], "ROLE", InitUser[v].role, user'[v].role)
        /\ Explains(log'[v], "STATUS", InitUser[v].status, user'[v].status)
        /\ user'[v].hash = InitUser[v].hash + Cardinality(EventsOf(log'[v], "PASSWORD"))
  BY <1>2 DEF CredInv, EventsExplainUsers
<1> QED BY <1>3, <1>5, <1>6, <1>7, <1>8 DEF EventsExplainUsers

LEMMA EventsAlone ==
    ASSUME CredInv, UNCHANGED <<setup, user, log>>
    PROVE  EventsExplainUsers'
BY DEF CredInv, EventsExplainUsers, InitUser

-----------------------------------------------------------------------------
(***************************************************************************)
(* The token chains and the links.                                         *)
(***************************************************************************)
\* The tables of sessions after a new one was opened.
SessionOpened(u, under, f, k) ==
    /\ family[f] = NoFamily /\ token[k] = NoToken
    /\ family' \in [Families -> FamilyRow] /\ token' \in [Tokens -> TokenRow]
    /\ family'[f] = [st |-> "ACTIVE", user |-> u,
                     expires |-> clock + FamilyLife, under |-> under]
    /\ \A g \in Families \ {f} : family'[g] = Revoked(u)[g]
    /\ token'[k] = [family |-> f, used |-> None, next |-> None]
    /\ \A j \in Tokens \ {k} : token'[j] = token[j]

LEMMA OpenSessionStep ==
    ASSUME CredTypeOK, NEW u \in Users, NEW under \in Hash, OpenSession(u, under)
    PROVE  \E f \in Families, k \in Tokens : SessionOpened(u, under, f, k)
<1> DEFINE row == [st |-> "ACTIVE", user |-> u, expires |-> clock + FamilyLife, under |-> under]
           new(f) == [family |-> f, used |-> None, next |-> None]
<1>1. PICK f \in NewFamily, k \in NewToken :
        /\ family' = [Revoked(u) EXCEPT ![f] = row]
        /\ token' = [token EXCEPT ![k] = new(f)]
  BY DEF OpenSession
<1>2. /\ f \in Families /\ family[f] = NoFamily
      /\ k \in Tokens /\ token[k] = NoToken
  BY DEF NewFamily, NewToken
<1>3. row \in FamilyRow /\ new(f) \in TokenRow
  BY <1>2, Lifetimes DEF FamilyRow, TokenRow, CredTypeOK
<1>4. Revoked(u) \in [Families -> FamilyRow] /\ token \in [Tokens -> TokenRow]
  BY RevokedRows DEF CredTypeOK
<1> HIDE DEF row, new
<1>5. /\ family' \in [Families -> FamilyRow] /\ token' \in [Tokens -> TokenRow]
      /\ family'[f] = row /\ token'[k] = new(f)
      /\ \A g \in Families \ {f} : family'[g] = Revoked(u)[g]
      /\ \A j \in Tokens \ {k} : token'[j] = token[j]
  BY <1>1, <1>2, <1>3, <1>4
<1> QED BY <1>2, <1>5 DEF SessionOpened, row, new

LEMMA ChainOpened ==
    ASSUME CredInv, NEW u \in Users, NEW under, NEW f \in Families, NEW k \in Tokens,
           SessionOpened(u, under, f, k)
    PROVE  /\ Chained'
           /\ \A j \in Tokens : token'[j] # NoToken => family'[token'[j].family] # NoFamily
<1>0. CredTypeOK
  BY DEF CredInv, LiveRows, SessionTablesAccept
<1>1. \A g \in Families : family'[g] = NoFamily <=> g # f /\ family[g] = NoFamily
  BY <1>0, RevokedRows DEF SessionOpened, NoFamily
<1>2. \A j \in Tokens \ {k} : token[j].family # f
  BY CredentialIds, CredentialSentinel DEF CredInv, Referential, SessionOpened, NoToken
<1>3. token'[k].family = f /\ token'[k].used = None /\ token'[k].next = None
      /\ (\A j \in Tokens \ {k} : token'[j] = token[j])
      /\ token[k].family = None /\ token[k].used = None /\ token[k].next = None
  BY DEF SessionOpened, NoToken
<1>4. Unused(f)' = {k}
  BY <1>2, <1>3 DEF Unused
<1>5. \A g \in Families \ {f} : Unused(g)' = Unused(g)
  BY <1>3, CredentialIds, CredentialSentinel DEF Unused
<1>6. \A g \in Families : family'[g] # NoFamily => \E j \in Tokens : Unused(g)' = {j}
  BY <1>1, <1>4, <1>5 DEF CredInv, Chained
<1>7. \A j \in Tokens : token'[j].used = None => token'[j].next = None
  BY <1>3 DEF CredInv, Chained
<1>8. ASSUME NEW j \in Tokens, token'[j].used # None
      PROVE  /\ token'[j].next \in Tokens
             /\ token'[token'[j].next].family = token'[j].family
             /\ \A i \in Tokens \ {j} : token'[i].next # token'[j].next
  <2>1. j # k /\ token'[j] = token[j]
    BY <1>3, <1>8
  <2>2. /\ token[j].next \in Tokens /\ token[token[j].next].family = token[j].family
        /\ \A i \in Tokens \ {j} : token[i].next # token[j].next
    BY <1>8, <2>1 DEF CredInv, Chained
  <2>3. token[j].family # None
    <3>1. token[j] # NoToken
      BY <1>8, <2>1 DEF NoToken
    <3> QED BY <3>1, PresentedUsers, CredentialIds, CredentialSentinel
  <2>4. token[j].next # k
    BY <1>3, <2>2, <2>3
  <2> QED BY <1>3, <2>1, <2>2, <2>4, CredentialIds, CredentialSentinel
<1>9. \A j \in Tokens : token'[j] # NoToken => family'[token'[j].family] # NoFamily
  BY <1>1, <1>3, PresentedUsers DEF CredInv, Referential
<1> QED BY <1>6, <1>7, <1>8, <1>9 DEF Chained

\* Rotation: the presented token gets its successor.
LEMMA ChainRotated ==
    ASSUME CredInv, CredTypeOK', UNCHANGED family, NEW k \in Tokens, NEW j \in Tokens,
           token[k] # NoToken, token[k].used = None, token[j] = NoToken,
           token' = [token EXCEPT
                        ![j] = [family |-> token[k].family, used |-> None, next |-> None],
                        ![k].used = clock, ![k].next = j]
    PROVE  /\ Chained'
           /\ \A i \in Tokens : token'[i] # NoToken => family'[token'[i].family] # NoFamily
<1>0. CredTypeOK
  BY DEF CredInv, LiveRows, SessionTablesAccept
<1>f. PICK f \in Families : f = token[k].family
  BY PresentedUsers
<1>a. j # k /\ f \in Families /\ token[j].family = None /\ token[j].used = None
      /\ token[j].next = None /\ clock \in Nat /\ clock # None /\ f # None
  BY <1>0, <1>f, CredentialSentinel, CredentialIds DEF NoToken, CredTypeOK
<1>b. /\ token'[j].family = f /\ token'[j].used = None /\ token'[j].next = None
      /\ token'[k].family = f /\ token'[k].used = clock /\ token'[k].next = j
      /\ \A i \in Tokens \ {j, k} : token'[i] = token[i]
  <2>1. token \in [Tokens -> TokenRow] /\ token[k] \in
            [family : Families, used : Time \cup {None}, next : Tokens \cup {None}]
    BY <1>0 DEF CredTypeOK, TokenRow
  <2> QED BY <1>a, <1>f, <2>1
<1>1. Unused(f) = {k}
  <2>1. family[f] # NoFamily
    BY <1>f DEF CredInv, Referential
  <2>2. k \in Unused(f)
    BY <1>f DEF Unused
  <2> QED BY <1>a, <2>1, <2>2 DEF CredInv, Chained
<1>2. Unused(f)' = {j}
  <2>1. \A i \in Tokens : i # k => ~(token[i].family = f /\ token[i].used = None)
    BY <1>1 DEF Unused
  <2>2. \A i \in Tokens : (token'[i].family = f /\ token'[i].used = None) <=> i = j
    BY <1>a, <1>b, <2>1
  <2>3. Unused(f)' = {i \in Tokens : token'[i].family = f /\ token'[i].used = None}
    BY DEF Unused
  <2> QED BY <2>2, <2>3
<1>3. \A g \in Families \ {f} : Unused(g)' = Unused(g)
  <2> TAKE g \in Families \ {f}
  <2>1. \A i \in Tokens : (token'[i].family = g /\ token'[i].used = None)
                          <=> (token[i].family = g /\ token[i].used = None)
    BY <1>a, <1>b, <1>f, CredentialIds, CredentialSentinel
  <2>2. Unused(g)' = {i \in Tokens : token'[i].family = g /\ token'[i].used = None}
    BY DEF Unused
  <2> QED BY <2>1, <2>2 DEF Unused
<1>4. \A g \in Families : family'[g] # NoFamily => \E i \in Tokens : Unused(g)' = {i}
  BY <1>2, <1>3 DEF CredInv, Chained
<1>5. \A i \in Tokens : token'[i].used = None => token'[i].next = None
  BY <1>a, <1>b DEF CredInv, Chained
<1>6. \A i \in Tokens : token[i].next # j
  <2> SUFFICES ASSUME NEW i \in Tokens, token[i].next = j PROVE FALSE
    OBVIOUS
  <2>1. token[i].used # None
    BY CredentialIds, CredentialSentinel DEF CredInv, Chained
  <2>2. token[i] # NoToken /\ token[j].family = token[i].family
    BY <2>1 DEF NoToken, CredInv, Chained
  <2> QED BY <1>a, <2>2, PresentedUsers, CredentialIds, CredentialSentinel
<1>7. ASSUME NEW i \in Tokens, token'[i].used # None
      PROVE  /\ token'[i].next \in Tokens
             /\ token'[token'[i].next].family = token'[i].family
             /\ \A h \in Tokens \ {i} : token'[h].next # token'[i].next
  <2>1. CASE i = k
    BY <1>a, <1>b, <1>6, <2>1, CredentialIds, CredentialSentinel
  <2>2. CASE i # k
    <3>1. i # j /\ token'[i] = token[i]
      BY <1>7, <1>b, <2>2
    <3>2. /\ token[i].next \in Tokens /\ token[token[i].next].family = token[i].family
          /\ \A h \in Tokens \ {i} : token[h].next # token[i].next
      BY <1>7, <3>1 DEF CredInv, Chained
    <3>3. token'[token[i].next].family = token[token[i].next].family
      BY <1>b, <1>f, <1>6, <3>2
    <3> QED BY <1>b, <1>6, <3>1, <3>2, <3>3, CredentialIds, CredentialSentinel
  <2> QED BY <2>1, <2>2
<1>8. \A i \in Tokens : token'[i] # NoToken => family'[token'[i].family] # NoFamily
  BY <1>b, <1>f DEF CredInv, Referential
<1> QED BY <1>4, <1>5, <1>7, <1>8 DEF Chained

\* Sessions that end keep their tokens.
LEMMA ChainAlone ==
    ASSUME CredInv, UNCHANGED token,
           \A f \in Families : family'[f] = NoFamily <=> family[f] = NoFamily
    PROVE  /\ Chained'
           /\ \A k \in Tokens : token'[k] # NoToken => family'[token'[k].family] # NoFamily
<1>1. \A f : Unused(f)' = Unused(f)
  BY DEF Unused
<1>2. Chained'
  BY <1>1 DEF CredInv, Chained
<1>3. \A k \in Tokens : token'[k] # NoToken => family'[token'[k].family] # NoFamily
  BY PresentedUsers DEF CredInv, Referential
<1> QED BY <1>2, <1>3

\* Challenges that end unredeemed keep their links.
LEMMA RedemptionAlone ==
    ASSUME CredInv, UNCHANGED link,
           \A c \in Challenges :
              /\ challenge'[c].st = "COMPLETED" <=> challenge[c].st = "COMPLETED"
              /\ challenge'[c] = NoChallenge <=> challenge[c] = NoChallenge
    PROVE  /\ Redemption'
           /\ \A l \in Links : link'[l] # NoLink => challenge'[link'[l].challenge] # NoChallenge
<1>1. \A c : Redeemed(c)' = Redeemed(c)
  BY DEF Redeemed
<1>2. Redemption'
  BY <1>1 DEF CredInv, Redemption
<1>3. \A l \in Links : link'[l] # NoLink => challenge'[link'[l].challenge] # NoChallenge
  BY PresentedUsers DEF CredInv, Referential
<1> QED BY <1>2, <1>3

-----------------------------------------------------------------------------
(***************************************************************************)
(* The commits.                                                            *)
(***************************************************************************)
\* A token is only issued in a live session.
IssuedLive ==
    \A k \in Tokens : token[k] = NoToken /\ token'[k] # NoToken =>
        LET f == token'[k].family IN
        family'[f].st = "ACTIVE" /\ clock < family'[f].expires

Committed == CredInv' /\ Persist /\ IssuedLive

\* What a transaction that holds its user knows.
LEMMA Held ==
    ASSUME CredInv, NEW r \in Requests, req[r].pc = "locked"
    PROVE  /\ CredTypeOK /\ Idle \in Request
           /\ req[r].user \in Users /\ req[r].row = user[req[r].user]
           /\ user[req[r].user] \in UserRow /\ user[req[r].user].hash \in Nat \ {0}
<1>1. CredTypeOK /\ req[r].user \in Users /\ req[r].row = user[req[r].user]
  BY DEF CredInv, LiveRows, SessionTablesAccept, RequestOK
<1>2. user[req[r].user] \in UserRow
  BY <1>1 DEF CredTypeOK
<1> QED BY <1>1, <1>2 DEF UserRow, Idle, Request

\* The parts of the invariant, put together.
LEMMA CommitStep ==
    ASSUME CredInv, CredTypeOK', NEW r \in Requests, req[r].pc = "locked", Done(r),
           LiveChange(req[r].user), Persist, Referential', Chained', Redemption',
           EventsExplainUsers'
    PROVE  CredInv'
<1>1. req[r].user \in Users
  BY Held
<1>2. LiveRows'
  BY <1>1, LiveStep
<1>3. (\A q \in Requests : RequestOK(q)') /\ HeldOnce'
  BY RequestStep DEF LiveChange
<1> QED BY <1>2, <1>3 DEF CredInv

\* A commit that writes nothing.
LEMMA RefusedStep ==
    ASSUME CredInv, UNCHANGED setup, NEW r \in Requests, req[r].pc = "locked", Done(r),
           UNCHANGED store
    PROVE  Committed
<1>1. CredInv'
  BY AbortStep DEF Abort
<1>2. Persist /\ IssuedLive
  BY DEF Persist, IssuedLive, store
<1> QED BY <1>1, <1>2 DEF Committed

\* A new session leaves the rows that were there.
LEMMA OpenedPersists ==
    ASSUME CredTypeOK, NEW u \in Users, NEW under, NEW f \in Families, NEW k \in Tokens,
           SessionOpened(u, under, f, k)
    PROVE  /\ \A g \in Families : family[g] # NoFamily =>
                /\ family'[g] # NoFamily
                /\ family'[g].user = family[g].user /\ family'[g].expires = family[g].expires
                /\ family[g].st = "REVOKED" => family'[g].st = "REVOKED"
           /\ \A j \in Tokens : token[j] # NoToken => token'[j] = token[j]
<1>1. ASSUME NEW g \in Families, family[g] # NoFamily
      PROVE  /\ family'[g] # NoFamily
             /\ family'[g].user = family[g].user /\ family'[g].expires = family[g].expires
             /\ family[g].st = "REVOKED" => family'[g].st = "REVOKED"
  <2>1. family'[g] = Revoked(u)[g]
    BY <1>1 DEF SessionOpened
  <2> QED BY <1>1, <2>1, RevokedRows
<1>2. \A j \in Tokens : token[j] # NoToken => token'[j] = token[j]
  BY DEF SessionOpened
<1> QED BY <1>1, <1>2

LEMMA FinishLoginStep ==
    ASSUME CredInv, UNCHANGED setup, NEW r \in Requests, FinishLogin(r)
    PROVE  Committed
<1>0. req[r].pc = "locked" /\ Done(r) /\ UNCHANGED <<user, challenge, link, log>>
  BY DEF FinishLogin, Working, resets
<1>h. /\ CredTypeOK /\ Idle \in Request /\ req[r].user \in Users
      /\ req[r].row = user[req[r].user] /\ user[req[r].user].hash \in Nat \ {0}
  BY <1>0, Held
<1>1. CASE Unchanged(r) /\ OpenSession(req[r].user, req[r].hash)
  <2>0. PICK u \in Users, under \in Hash : u = req[r].user /\ under = req[r].hash
    BY <1>h, <1>1 DEF Unchanged
  <2>1. PICK f \in Families, k \in Tokens : SessionOpened(u, under, f, k)
    BY <1>h, <1>1, <2>0, OpenSessionStep
  <2>2. user[u].status = "ACTIVE" /\ user[u].hash = under
    BY <1>h, <1>1, <2>0 DEF Unchanged
  <2>3. CredTypeOK'
    BY <1>0, <1>h, <2>1 DEF CredTypeOK, Done, SessionOpened
  <2>4. LiveChange(u)
    BY <1>0, <1>h, <2>1, <2>2, RevokedRows
       DEF LiveChange, Survives, Opened, SessionOpened
  <2>5. Persist
    BY <1>0, <1>h, <2>1, OpenedPersists DEF Persist
  <2>6. /\ Chained'
        /\ \A j \in Tokens : token'[j] # NoToken => family'[token'[j].family] # NoFamily
    BY <2>1, ChainOpened
  <2>7. /\ Redemption'
        /\ \A l \in Links : link'[l] # NoLink => challenge'[link'[l].challenge] # NoChallenge
    BY <1>0, RedemptionAlone
  <2>8. EventsExplainUsers'
    BY <1>0, EventsAlone
  <2>9. IssuedLive
    BY <1>h, <2>1, Lifetimes DEF IssuedLive, SessionOpened, CredTypeOK
  <2> QED BY <1>0, <2>0, <2>3, <2>4, <2>5, <2>6, <2>7, <2>8, <2>9, CommitStep
          DEF Committed, Referential
<1>2. CASE UNCHANGED sessions
  BY <1>0, <1>2, RefusedStep DEF store, sessions
<1> QED BY <1>1, <1>2 DEF FinishLogin

\* A session ended by its token, or by a replay.
LEMMA RevokeOne ==
    ASSUME CredInv, UNCHANGED <<setup, user, token, challenge, link, log>>,
           NEW r \in Requests, req[r].pc = "locked", Done(r),
           NEW f \in Families, family[f].st = "ACTIVE",
           family' = [family EXCEPT ![f].st = "REVOKED"]
    PROVE  Committed
<1>h. CredTypeOK /\ Idle \in Request /\ req[r].user \in Users
  BY Held
<1>1. family[f] \in [st : {"ACTIVE", "REVOKED"}, user : Users, expires : Time, under : Hash]
  BY <1>h DEF CredTypeOK, FamilyRow, NoFamily
<1>2. /\ family'[f] = [family[f] EXCEPT !.st = "REVOKED"]
      /\ \A g \in Families \ {f} : family'[g] = family[g]
      /\ family' \in [Families -> FamilyRow]
  BY <1>h, <1>1 DEF CredTypeOK, FamilyRow
<1>3. /\ family'[f].st = "REVOKED" /\ family'[f].user = family[f].user
      /\ family'[f].expires = family[f].expires /\ family'[f] # NoFamily
      /\ family[f] # NoFamily
  BY <1>1, <1>2 DEF NoFamily
<1>4. CredTypeOK'
  BY <1>h, <1>2 DEF CredTypeOK, Done
<1>5. LiveChange(req[r].user)
  BY <1>2, <1>3 DEF LiveChange, Survives
<1>6. Persist
  BY <1>2, <1>3 DEF Persist
<1>7. /\ Chained'
      /\ \A k \in Tokens : token'[k] # NoToken => family'[token'[k].family] # NoFamily
  BY <1>2, <1>3, ChainAlone
<1>8. /\ Redemption'
      /\ \A l \in Links : link'[l] # NoLink => challenge'[link'[l].challenge] # NoChallenge
  BY RedemptionAlone
<1>9. EventsExplainUsers' /\ IssuedLive
  BY EventsAlone DEF IssuedLive
<1> QED BY <1>4, <1>5, <1>6, <1>7, <1>8, <1>9, CommitStep DEF Committed, Referential

LEMMA FinishRefreshStep ==
    ASSUME CredInv, UNCHANGED setup, NEW r \in Requests, FinishRefresh(r)
    PROVE  Committed
<1>0. /\ req[r].pc = "locked" /\ req[r].kind = "Refresh" /\ Done(r)
      /\ UNCHANGED <<user, challenge, link, log>>
  BY DEF FinishRefresh, Working, resets
<1>h. CredTypeOK /\ Idle \in Request /\ req[r].user \in Users
  BY <1>0, Held
<1>k. PICK k \in Tokens : k = req[r].target /\ token[k] # NoToken
  BY <1>0 DEF CredInv, RequestOK
<1>f. PICK f \in Families : f = token[k].family
  BY <1>k, PresentedUsers
<1>1. ASSUME Live(f, clock), Rotates(k, clock), UNCHANGED family,
             NEW j \in NewToken,
             token' = [token EXCEPT ![j] = [family |-> f, used |-> None, next |-> None],
                                    ![k].used = clock, ![k].next = j]
      PROVE  Committed
  <2>0. j \in Tokens /\ token[j] = NoToken /\ j # k
    BY <1>1, <1>k DEF NewToken
  <2>1. token[k] \in [family : Families, used : Time \cup {None}, next : Tokens \cup {None}]
    BY <1>h, <1>k DEF CredTypeOK, TokenRow
  <2>2. [family |-> f, used |-> None, next |-> None] \in TokenRow
    BY DEF TokenRow
  <2>3. /\ token' \in [Tokens -> TokenRow]
        /\ token'[j].family = f /\ token'[k].family = f
        /\ \A i \in Tokens \ {j, k} : token'[i] = token[i]
    <3>1. [[token[k] EXCEPT !.used = clock] EXCEPT !.next = j] \in TokenRow
      BY <1>h, <2>0, <2>1 DEF TokenRow, CredTypeOK
    <3>2. token \in [Tokens -> TokenRow]
      BY <1>h DEF CredTypeOK
    <3>3. token' = [token EXCEPT ![j] = [family |-> f, used |-> None, next |-> None],
                                 ![k] = [[token[k] EXCEPT !.used = clock] EXCEPT !.next = j]]
      BY <1>1, <2>0, <3>2
    <3> QED BY <1>f, <2>0, <2>1, <2>2, <3>1, <3>2, <3>3
  <2>4. CredTypeOK'
    BY <1>0, <1>h, <1>1, <2>3 DEF CredTypeOK, Done
  <2>5. LiveChange(req[r].user)
    BY <1>0, <1>1 DEF LiveChange, Survives
  <2>6. Persist
    BY <1>0, <1>1, <1>f, <2>0, <2>3, CredentialIds, CredentialSentinel DEF Persist, NoToken
  <2>7. /\ Chained'
        /\ \A i \in Tokens : token'[i] # NoToken => family'[token'[i].family] # NoFamily
    BY <1>1, <1>k, <1>f, <2>0, <2>4, ChainRotated DEF Rotates
  <2>8. /\ Redemption'
        /\ \A l \in Links : link'[l] # NoLink => challenge'[link'[l].challenge] # NoChallenge
    BY <1>0, RedemptionAlone
  <2>9. EventsExplainUsers'
    BY <1>0, EventsAlone
  <2>10. IssuedLive
    BY <1>1, <1>k, <2>0, <2>3 DEF IssuedLive, Live
  <2> QED BY <1>0, <2>4, <2>5, <2>6, <2>7, <2>8, <2>9, <2>10, CommitStep
          DEF Committed, Referential
<1>2. ASSUME Live(f, clock), UNCHANGED token, family' = [family EXCEPT ![f].st = "REVOKED"]
      PROVE  Committed
  BY <1>0, <1>2, RevokeOne DEF Live
<1>3. CASE UNCHANGED sessions
  BY <1>0, <1>3, RefusedStep DEF store, sessions
<1> QED BY <1>1, <1>2, <1>3, <1>k, <1>f DEF FinishRefresh

LEMMA FinishLogoutStep ==
    ASSUME CredInv, UNCHANGED setup, NEW r \in Requests, FinishLogout(r)
    PROVE  Committed
<1>0. /\ req[r].pc = "locked" /\ req[r].kind = "Logout" /\ Done(r)
      /\ UNCHANGED <<user, token, challenge, link, log>>
  BY DEF FinishLogout, Working, resets
<1>k. PICK k \in Tokens : k = req[r].target /\ token[k] # NoToken
  BY <1>0 DEF CredInv, RequestOK
<1>f. PICK f \in Families : f = token[k].family
  BY <1>k, PresentedUsers
<1>1. ASSUME Live(f, clock), family' = [family EXCEPT ![f].st = "REVOKED"]
      PROVE  Committed
  BY <1>0, <1>1, RevokeOne DEF Live
<1>2. CASE UNCHANGED family
  BY <1>0, <1>2, RefusedStep DEF store
<1> QED BY <1>1, <1>2, <1>k, <1>f DEF FinishLogout

\* One new hash for u: the row that the password events count.
LEMMA NewHash ==
    ASSUME CredTypeOK, NEW u \in Users, user' = [user EXCEPT ![u].hash = @ + 1]
    PROVE  /\ user' \in [Users -> UserRow] /\ user'[u] \in UserRow
           /\ user'[u].hash = user[u].hash + 1 /\ user'[u].hash \in Hash
           /\ user'[u].status = user[u].status /\ user'[u].role = user[u].role
           /\ \A v \in Users \ {u} : user'[v] = user[v]
<1>1. user \in [Users -> UserRow] /\ user[u] \in [status : Statuses, hash : Hash, role : Roles]
  BY DEF CredTypeOK, UserRow
<1>2. [user[u] EXCEPT !.hash = @ + 1] \in UserRow
  BY <1>1 DEF UserRow
<1>3. user' = [user EXCEPT ![u] = [user[u] EXCEPT !.hash = @ + 1]]
  OBVIOUS
<1> QED BY <1>1, <1>2, <1>3

\* The event that goes with it.
LEMMA RecordedPassword ==
    ASSUME CredTypeOK, NEW u \in Users, Record(u, PasswordEvent)
    PROVE  /\ log' \in [Users -> Seq(Event)] /\ PasswordEvent \in Event
           /\ PasswordEvent.type = "PASSWORD"
<1>1. PasswordEvent \in Event /\ PasswordEvent.type = "PASSWORD"
  BY DEF PasswordEvent, Event
<1>2. Append(log[u], PasswordEvent) \in Seq(Event)
  BY <1>1, AppendProperties DEF CredTypeOK
<1> QED BY <1>1, <1>2 DEF CredTypeOK, Record

LEMMA FinishChangePasswordStep ==
    ASSUME CredInv, UNCHANGED setup, NEW r \in Requests, FinishChangePassword(r)
    PROVE  Committed
<1>0. req[r].pc = "locked" /\ Done(r) /\ UNCHANGED link
  BY DEF FinishChangePassword, Working
<1>h. /\ CredTypeOK /\ Idle \in Request /\ req[r].user \in Users
      /\ req[r].row = user[req[r].user] /\ user[req[r].user].hash \in Nat \ {0}
  BY <1>0, Held
<1>u. PICK u \in Users : u = req[r].user
  BY <1>h
<1>1. CASE /\ Unchanged(r)
           /\ user' = [user EXCEPT ![u].hash = @ + 1]
           /\ OpenSession(u, user[u].hash + 1)
           /\ challenge' = RevokedChallenges(u)
           /\ Record(u, PasswordEvent)
  <2>0. PICK under \in Hash : under = user[u].hash + 1
    BY <1>h, <1>u
  <2>1. PICK f \in Families, k \in Tokens : SessionOpened(u, under, f, k)
    BY <1>h, <1>1, <2>0, OpenSessionStep
  <2>2. user'[u].status = "ACTIVE" /\ user'[u].hash = under
        /\ user' \in [Users -> UserRow] /\ \A v \in Users \ {u} : user'[v] = user[v]
    <3>1. /\ user' \in [Users -> UserRow] /\ user'[u].hash = user[u].hash + 1
          /\ user'[u].status = user[u].status /\ \A v \in Users \ {u} : user'[v] = user[v]
      BY <1>h, <1>1, NewHash
    <3>2. user[u].status = "ACTIVE"
      BY <1>h, <1>1, <1>u DEF Unchanged
    <3> QED BY <2>0, <3>1, <3>2
  <2>3. CredTypeOK'
    BY <1>0, <1>1, <1>h, <2>1, <2>2, RevokedRows, RecordedPassword
       DEF CredTypeOK, Done, SessionOpened
  <2>4. LiveChange(u)
    <3>1. ASSUME NEW g \in Families, family'[g].st = "ACTIVE"
          PROVE  \/ Survives(u, family[g], family'[g])
                 \/ /\ Opened(u, family'[g])
                    /\ \A e \in Families \ {g} : family'[e].user = u => family'[e].st # "ACTIVE"
      <4>1. CASE g = f
        <5>1. Opened(u, family'[f])
          BY <2>1, <2>2 DEF Opened, SessionOpened
        <5>2. \A e \in Families \ {f} : family'[e].user = u => family'[e].st # "ACTIVE"
          BY <1>h, <2>1, RevokedRows DEF SessionOpened
        <5> QED BY <4>1, <5>1, <5>2
      <4>2. CASE g # f
        <5>1. family'[g] = Revoked(u)[g]
          BY <2>1, <4>2 DEF SessionOpened
        <5> QED BY <1>h, <3>1, <5>1, RevokedRows DEF Survives
      <4> QED BY <4>1, <4>2
    <3>2. ASSUME NEW c \in Challenges, challenge'[c].st = "ACTIVE"
          PROVE  Survives(u, challenge[c], challenge'[c])
      BY <1>h, <1>1, <3>2, RevokedRows DEF Survives
    <3> QED BY <2>2, <3>1, <3>2 DEF LiveChange
  <2>5. Persist
    <3>1. \A c \in Challenges : challenge[c] # NoChallenge =>
            /\ challenge'[c] # NoChallenge
            /\ challenge'[c].user = challenge[c].user
            /\ challenge'[c].expires = challenge[c].expires
            /\ challenge[c].st # "ACTIVE" => challenge'[c] = challenge[c]
      BY <1>1, <1>h, RevokedRows
    <3> QED BY <1>0, <1>h, <2>1, <3>1, OpenedPersists DEF Persist
  <2>6. /\ Chained'
        /\ \A j \in Tokens : token'[j] # NoToken => family'[token'[j].family] # NoFamily
    BY <2>1, ChainOpened
  <2>7. /\ Redemption'
        /\ \A l \in Links : link'[l] # NoLink => challenge'[link'[l].challenge] # NoChallenge
    BY <1>0, <1>1, <1>h, RevokedRows, RedemptionAlone
  <2>8. EventsExplainUsers'
    BY <1>h, <1>1, <2>3, NewHash, RecordedPassword, EventsStep
  <2>9. IssuedLive
    BY <1>h, <2>1, Lifetimes DEF IssuedLive, SessionOpened, CredTypeOK
  <2> QED BY <1>0, <1>u, <2>3, <2>4, <2>5, <2>6, <2>7, <2>8, <2>9, CommitStep
          DEF Committed, Referential
<1>2. CASE UNCHANGED <<user, sessions, challenge, log>>
  BY <1>0, <1>2, RefusedStep DEF store, sessions
<1> QED BY <1>1, <1>2, <1>u DEF FinishChangePassword

\* The tables of links after a new one.
LEMMA NewLinkRow ==
    ASSUME CredInv, NEW c \in Challenges, NEW l \in NewLink,
           link' = [link EXCEPT ![l] = [challenge |-> c, used |-> None]]
    PROVE  /\ l \in Links /\ link[l] = NoLink
           /\ link' \in [Links -> LinkRow]
           /\ link'[l].challenge = c
           /\ \A k \in Links \ {l} : link'[k] = link[k]
           /\ \A k \in Links : link[k] # NoLink => link'[k] = link[k]
           /\ \A d \in Challenges : Redeemed(d)' = Redeemed(d)
<1>0. CredTypeOK
  BY DEF CredInv, LiveRows, SessionTablesAccept
<1>1. l \in Links /\ link[l] = NoLink
  BY DEF NewLink
<1>2. [challenge |-> c, used |-> None] \in LinkRow
  BY DEF LinkRow
<1>3. link' \in [Links -> LinkRow] /\ link'[l] = [challenge |-> c, used |-> None]
      /\ \A k \in Links \ {l} : link'[k] = link[k]
  BY <1>0, <1>1, <1>2 DEF CredTypeOK
<1>4. ASSUME NEW d \in Challenges PROVE Redeemed(d)' = Redeemed(d)
  <2>1. \A k \in Links : (link'[k].challenge = d /\ link'[k].used # None)
                          <=> (link[k].challenge = d /\ link[k].used # None)
    BY <1>1, <1>3 DEF NoLink
  <2>2. Redeemed(d)' = {k \in Links : link'[k].challenge = d /\ link'[k].used # None}
    BY DEF Redeemed
  <2> QED BY <2>1, <2>2 DEF Redeemed
<1> QED BY <1>1, <1>3, <1>4

LEMMA FinishRequestResetStep ==
    ASSUME CredInv, UNCHANGED setup, NEW r \in Requests, FinishRequestReset(r)
    PROVE  Committed
<1>0. req[r].pc = "locked" /\ Done(r) /\ UNCHANGED <<user, family, token, log>>
  BY DEF FinishRequestReset, Working, sessions
<1>h. /\ CredTypeOK /\ Idle \in Request /\ req[r].user \in Users
      /\ req[r].row = user[req[r].user] /\ user[req[r].user].hash \in Nat \ {0}
  BY <1>0, Held
<1>u. PICK u \in Users : u = req[r].user
  BY <1>h
<1>a. /\ Chained' /\ EventsExplainUsers' /\ IssuedLive
      /\ \A k \in Tokens : token'[k] # NoToken => family'[token'[k].family] # NoFamily
  BY <1>0, ChainAlone, EventsAlone DEF IssuedLive
<1>1. ASSUME NEW c \in Outstanding(u), NEW l \in NewLink, UNCHANGED challenge,
             link' = [link EXCEPT ![l] = [challenge |-> c, used |-> None]]
      PROVE  Committed
  <2>1. c \in Challenges /\ challenge[c] # NoChallenge
    BY DEF Outstanding, NoChallenge
  <2>2. /\ l \in Links /\ link[l] = NoLink /\ link' \in [Links -> LinkRow]
        /\ link'[l].challenge = c
        /\ \A k \in Links \ {l} : link'[k] = link[k]
        /\ \A k \in Links : link[k] # NoLink => link'[k] = link[k]
        /\ \A d \in Challenges : Redeemed(d)' = Redeemed(d)
    BY <1>1, <2>1, NewLinkRow
  <2>3. CredTypeOK'
    BY <1>0, <1>1, <1>h, <2>2 DEF CredTypeOK, Done
  <2>4. LiveChange(u) /\ Persist
    BY <1>0, <1>1, <2>2 DEF LiveChange, Survives, Persist
  <2>5. Redemption'
    BY <1>1, <2>2 DEF CredInv, Redemption
  <2>6. Referential'
    BY <1>1, <1>a, <2>1, <2>2 DEF CredInv, Referential
  <2> QED BY <1>0, <1>a, <1>u, <2>3, <2>4, <2>5, <2>6, CommitStep DEF Committed
<1>2. ASSUME user[u].status = "ACTIVE", NEW c \in NewChallenge, NEW l \in NewLink,
             challenge' = [b \in Challenges |->
                            IF b = c THEN [st |-> "ACTIVE", user |-> u,
                                           expires |-> clock + ResetLife,
                                           under |-> user[u].hash]
                            ELSE IF b \in Outstanding(u)
                                 THEN [challenge[b] EXCEPT !.st = "EXPIRED"]
                                 ELSE challenge[b]],
             link' = [link EXCEPT ![l] = [challenge |-> c, used |-> None]]
      PROVE  Committed
  <2>1. c \in Challenges /\ challenge[c] = NoChallenge
    BY DEF NewChallenge
  <2>2. /\ l \in Links /\ link[l] = NoLink /\ link' \in [Links -> LinkRow]
        /\ link'[l].challenge = c
        /\ \A k \in Links \ {l} : link'[k] = link[k]
        /\ \A k \in Links : link[k] # NoLink => link'[k] = link[k]
        /\ \A d \in Challenges : Redeemed(d)' = Redeemed(d)
    BY <1>2, <2>1, NewLinkRow
  <2>3. /\ challenge'[c] \in ChallengeRow /\ challenge'[c].st = "ACTIVE"
        /\ challenge'[c].user = u /\ challenge'[c].under = user[u].hash
        /\ challenge'[c] # NoChallenge
    BY <1>2, <1>h, <1>u, <2>1, Lifetimes DEF ChallengeRow, CredTypeOK, NoChallenge
  <2>4. ASSUME NEW b \in Challenges \ {c}
        PROVE  /\ challenge'[b] \in ChallengeRow
               /\ challenge'[b].st = "ACTIVE" => challenge'[b] = challenge[b] /\ challenge[b].user # u
               /\ challenge[b].st # "ACTIVE" => challenge'[b] = challenge[b]
               /\ challenge'[b].st = "COMPLETED" <=> challenge[b].st = "COMPLETED"
               /\ challenge'[b] = NoChallenge <=> challenge[b] = NoChallenge
               /\ challenge'[b].user = challenge[b].user
               /\ challenge'[b].expires = challenge[b].expires
    <3>1. CASE b \in Outstanding(u)
      <4>1. challenge[b] \in [st : {"ACTIVE", "EXPIRED", "COMPLETED", "REVOKED"},
                              user : Users, expires : Time, under : Hash]
        BY <1>h, <3>1 DEF CredTypeOK, ChallengeRow, Outstanding, NoChallenge
      <4>2. challenge'[b] = [challenge[b] EXCEPT !.st = "EXPIRED"]
        BY <1>2, <3>1
      <4>3. challenge'[b] \in [st : {"ACTIVE", "EXPIRED", "COMPLETED", "REVOKED"},
                               user : Users, expires : Time, under : Hash]
            /\ challenge'[b].st = "EXPIRED" /\ challenge[b].st = "ACTIVE"
            /\ challenge'[b].user = challenge[b].user
            /\ challenge'[b].expires = challenge[b].expires
        BY <4>1, <4>2, <3>1 DEF Outstanding
      <4> QED BY <4>1, <4>3 DEF ChallengeRow, NoChallenge
    <3>2. CASE b \notin Outstanding(u)
      <4>1. challenge'[b] = challenge[b] /\ challenge[b] \in ChallengeRow
        BY <1>2, <1>h, <3>2 DEF CredTypeOK
      <4> QED BY <3>2, <4>1 DEF Outstanding
    <3> QED BY <3>1, <3>2
  <2>5. challenge' \in [Challenges -> ChallengeRow]
    BY <1>2, <2>3, <2>4
  <2>6. CredTypeOK'
    BY <1>0, <1>h, <2>2, <2>5 DEF CredTypeOK, Done
  <2>7. LiveChange(u)
    <3>1. \A f \in Families : Survives(u, family[f], family'[f])
      BY <1>0 DEF Survives
    <3>2. ASSUME NEW b \in Challenges, challenge'[b].st = "ACTIVE"
          PROVE  \/ Survives(u, challenge[b], challenge'[b])
                 \/ /\ Opened(u, challenge'[b])
                    /\ \A d \in Challenges \ {b} :
                         challenge'[d].user = u => challenge'[d].st # "ACTIVE"
      <4>1. CASE b = c
        <5>1. Opened(u, challenge'[c])
          BY <1>0, <1>2, <2>3 DEF Opened
        <5>2. \A d \in Challenges \ {c} :
                challenge'[d].user = u => challenge'[d].st # "ACTIVE"
          BY <2>4
        <5> QED BY <4>1, <5>1, <5>2
      <4>2. CASE b # c
        BY <2>4, <3>2, <4>2 DEF Survives
      <4> QED BY <4>1, <4>2
    <3> QED BY <1>0, <3>1, <3>2 DEF LiveChange
  <2>8. Persist
    BY <1>0, <2>1, <2>2, <2>3, <2>4 DEF Persist
  <2>9. Redemption'
    BY <2>1, <2>2, <2>3, <2>4 DEF CredInv, Redemption, NoChallenge
  <2>10. Referential'
    BY <1>a, <2>1, <2>2, <2>3, <2>4, PresentedUsers DEF CredInv, Referential
  <2> QED BY <1>0, <1>a, <1>u, <2>6, <2>7, <2>8, <2>9, <2>10, CommitStep DEF Committed
<1>3. CASE UNCHANGED resets
  BY <1>0, <1>3, RefusedStep DEF store, resets
<1> QED BY <1>1, <1>2, <1>3, <1>u, <1>h DEF FinishRequestReset

\* Redeeming a link completes its challenge, which was the only live one.
LEMMA FinishCompleteResetStep ==
    ASSUME CredInv, UNCHANGED setup, NEW r \in Requests, FinishCompleteReset(r)
    PROVE  Committed
<1>0. req[r].pc = "locked" /\ req[r].kind = "CompleteReset" /\ Done(r) /\ UNCHANGED token
  BY DEF FinishCompleteReset, Working
<1>h. /\ CredTypeOK /\ Idle \in Request /\ req[r].user \in Users
      /\ req[r].row = user[req[r].user] /\ user[req[r].user].hash \in Nat \ {0}
  BY <1>0, Held
<1>u. PICK u \in Users : u = req[r].user
  BY <1>h
<1>l. PICK l \in Links : l = req[r].target /\ link[l] # NoLink
                         /\ challenge[link[l].challenge].user = u
  BY <1>0, <1>u DEF CredInv, RequestOK
<1>c. PICK c \in Challenges : c = link[l].challenge
  BY <1>l, PresentedUsers
<1>1. ASSUME challenge[c].st = "ACTIVE", link[l].used = None,
             user' = [user EXCEPT ![u].hash = @ + 1], family' = Revoked(u),
             challenge' = [challenge EXCEPT ![c].st = "COMPLETED"],
             link' = [link EXCEPT ![l].used = clock], Record(u, PasswordEvent)
      PROVE  Committed
  <2>1. challenge[c] \in [st : {"ACTIVE", "EXPIRED", "COMPLETED", "REVOKED"},
                          user : Users, expires : Time, under : Hash]
    BY <1>h, <1>1 DEF CredTypeOK, ChallengeRow, NoChallenge
  <2>2. /\ challenge' = [challenge EXCEPT ![c] = [challenge[c] EXCEPT !.st = "COMPLETED"]]
        /\ challenge \in [Challenges -> ChallengeRow]
    BY <1>h, <1>1 DEF CredTypeOK
  <2>3. /\ challenge'[c] \in ChallengeRow /\ challenge'[c].st = "COMPLETED"
        /\ challenge'[c].user = challenge[c].user
        /\ challenge'[c].expires = challenge[c].expires
        /\ challenge'[c] # NoChallenge /\ challenge[c] # NoChallenge
        /\ \A d \in Challenges \ {c} : challenge'[d] = challenge[d]
        /\ challenge' \in [Challenges -> ChallengeRow]
    <3>1. [challenge[c] EXCEPT !.st = "COMPLETED"] \in
            [st : {"ACTIVE", "EXPIRED", "COMPLETED", "REVOKED"},
             user : Users, expires : Time, under : Hash]
      BY <2>1
    <3> QED BY <2>1, <2>2, <3>1 DEF ChallengeRow, NoChallenge
  <2>4. link[l] \in [challenge : Challenges, used : Time \cup {None}]
    BY <1>h, <1>l DEF CredTypeOK, LinkRow
  <2>5. /\ link' = [link EXCEPT ![l] = [link[l] EXCEPT !.used = clock]]
        /\ link \in [Links -> LinkRow] /\ clock \in Time
    BY <1>h, <1>1 DEF CredTypeOK
  <2>6. /\ link' \in [Links -> LinkRow] /\ link'[l].challenge = c /\ link'[l].used = clock
        /\ link'[l] # NoLink
        /\ \A k \in Links \ {l} : link'[k] = link[k]
    <3>1. [link[l] EXCEPT !.used = clock] \in [challenge : Challenges, used : Time \cup {None}]
      BY <2>4, <2>5
    <3> QED BY <1>c, <2>4, <2>5, <3>1, CredentialSentinel DEF LinkRow, NoLink
  <2>7. CredTypeOK'
    BY <1>0, <1>1, <1>h, <2>3, <2>6, RevokedRows, NewHash, RecordedPassword DEF CredTypeOK, Done
  <2>8. LiveChange(u)
    <3>1. ASSUME NEW f \in Families, family'[f].st = "ACTIVE"
          PROVE  Survives(u, family[f], family'[f])
      BY <1>h, <1>1, <3>1, RevokedRows DEF Survives
    <3>2. ASSUME NEW d \in Challenges, challenge'[d].st = "ACTIVE"
          PROVE  Survives(u, challenge[d], challenge'[d])
      <4>1. d # c /\ challenge'[d] = challenge[d]
        BY <2>3, <3>2
      <4>2. challenge[d].user # u
        BY <1>1, <1>c, <1>l, <3>2, <4>1 DEF CredInv, LiveRows, SessionTablesAccept
      <4> QED BY <4>1, <4>2 DEF Survives
    <3> QED BY <1>h, <1>1, <3>1, <3>2, NewHash DEF LiveChange
  <2>9. Persist
    <3>1. \A f \in Families : family[f] # NoFamily =>
            /\ family'[f] # NoFamily
            /\ family'[f].user = family[f].user /\ family'[f].expires = family[f].expires
            /\ family[f].st = "REVOKED" => family'[f].st = "REVOKED"
      BY <1>h, <1>1, RevokedRows
    <3>2. \A d \in Challenges : challenge[d] # NoChallenge =>
            /\ challenge'[d] # NoChallenge
            /\ challenge'[d].user = challenge[d].user
            /\ challenge'[d].expires = challenge[d].expires
            /\ challenge[d].st # "ACTIVE" => challenge'[d] = challenge[d]
      BY <1>1, <2>3
    <3> QED BY <1>0, <1>c, <2>6, <3>1, <3>2 DEF Persist
  <2>10. /\ Chained' /\ IssuedLive
         /\ \A k \in Tokens : token'[k] # NoToken => family'[token'[k].family] # NoFamily
    BY <1>0, <1>h, <1>1, RevokedRows, ChainAlone DEF IssuedLive
  <2>11. Redemption'
    <3>1. Redeemed(c) = {}
      BY <1>1 DEF CredInv, Redemption
    <3>2. Redeemed(c)' = {l}
      <4>1. \A k \in Links : (link'[k].challenge = c /\ link'[k].used # None) <=> k = l
        BY <2>5, <2>6, <3>1, CredentialSentinel DEF Redeemed
      <4>2. Redeemed(c)' = {k \in Links : link'[k].challenge = c /\ link'[k].used # None}
        BY DEF Redeemed
      <4> QED BY <4>1, <4>2
    <3>3. ASSUME NEW d \in Challenges \ {c} PROVE Redeemed(d)' = Redeemed(d)
      <4>1. \A k \in Links : (link'[k].challenge = d /\ link'[k].used # None)
                              <=> (link[k].challenge = d /\ link[k].used # None)
        BY <1>c, <2>6
      <4>2. Redeemed(d)' = {k \in Links : link'[k].challenge = d /\ link'[k].used # None}
        BY DEF Redeemed
      <4> QED BY <4>1, <4>2 DEF Redeemed
    <3> QED BY <2>3, <3>2, <3>3 DEF CredInv, Redemption
  <2>12. \A k \in Links : link'[k] # NoLink => challenge'[link'[k].challenge] # NoChallenge
    BY <1>c, <2>3, <2>6, PresentedUsers DEF CredInv, Referential
  <2>13. EventsExplainUsers'
    BY <1>h, <1>1, <2>7, NewHash, RecordedPassword, EventsStep
  <2> QED BY <1>0, <1>u, <2>7, <2>8, <2>9, <2>10, <2>11, <2>12, <2>13, CommitStep
          DEF Committed, Referential
<1>2. CASE UNCHANGED <<user, family, resets, log>>
  BY <1>0, <1>2, RefusedStep DEF store, resets
<1> QED BY <1>1, <1>2, <1>u, <1>l, <1>c DEF FinishCompleteReset, Redeemable

\* A status or role change writes one column of the row and its event.
LEMMA RecordedChange ==
    ASSUME CredTypeOK, NEW u \in Users, NEW e \in Event, Record(u, e)
    PROVE  log' \in [Users -> Seq(Event)]
<1>1. Append(log[u], e) \in Seq(Event)
  BY AppendProperties DEF CredTypeOK
<1> QED BY <1>1 DEF CredTypeOK, Record

LEMMA FinishChangeStatusStep ==
    ASSUME CredInv, UNCHANGED setup, NEW r \in Requests, FinishChangeStatus(r)
    PROVE  Committed
<1>0. /\ req[r].pc = "locked" /\ req[r].kind = "ChangeStatus" /\ Done(r)
      /\ UNCHANGED <<token, link>>
  BY DEF FinishChangeStatus, Working
<1>h. /\ CredTypeOK /\ Idle \in Request /\ req[r].user \in Users
      /\ req[r].row = user[req[r].user] /\ req[r].to \in Statuses
  BY <1>0, Held DEF CredInv, RequestOK
<1>u. PICK u \in Users : u = req[r].user
  BY <1>h
<1>n. PICK new \in Statuses : new = req[r].to
  BY <1>h
<1>1. ASSUME user[u].status # new,
             family' = IF new = "DISABLED" THEN Revoked(u) ELSE family,
             challenge' = IF new = "DISABLED" THEN RevokedChallenges(u) ELSE challenge,
             user' = [user EXCEPT ![u].status = new],
             Record(u, [type |-> "STATUS", from |-> user[u].status, to |-> new])
      PROVE  Committed
  <2>1. user \in [Users -> UserRow] /\ user[u] \in [status : Statuses, hash : Hash, role : Roles]
    BY <1>h DEF CredTypeOK, UserRow
  <2>2. /\ user' \in [Users -> UserRow] /\ user'[u] \in UserRow
        /\ user'[u].status = new /\ user'[u].hash = user[u].hash
        /\ user'[u].role = user[u].role
        /\ \A v \in Users \ {u} : user'[v] = user[v]
    BY <1>1, <2>1 DEF UserRow
  <2> DEFINE e == [type |-> "STATUS", from |-> user[u].status, to |-> new]
  <2>3. e \in Event /\ e.type = "STATUS" /\ e.from = user[u].status /\ e.to = new
    BY <2>1 DEF Event
  <2>e. Record(u, e)
    BY <1>1
  <2> HIDE DEF e
  <2>4. log' \in [Users -> Seq(Event)]
    BY <1>h, <2>3, <2>e, RecordedChange
  <2>5. /\ family' \in [Families -> FamilyRow]
        /\ challenge' \in [Challenges -> ChallengeRow]
    BY <1>h, <1>1, RevokedRows DEF CredTypeOK
  <2>6. CredTypeOK'
    BY <1>0, <1>h, <2>2, <2>4, <2>5 DEF CredTypeOK, Done
  <2>7. LiveChange(u)
    <3>1. ASSUME NEW f \in Families, family'[f].st = "ACTIVE"
          PROVE  Survives(u, family[f], family'[f])
      <4>1. CASE new = "DISABLED"
        BY <1>h, <1>1, <3>1, <4>1, RevokedRows DEF Survives
      <4>2. CASE new # "DISABLED"
        <5>1. user[u].status = "DISABLED" /\ family'[f] = family[f]
          BY <1>1, <2>1, <4>2 DEF Statuses
        <5>2. family[f].user # u
          BY <3>1, <5>1 DEF CredInv, LiveRows, DisabledHoldsNothing
        <5> QED BY <5>1, <5>2 DEF Survives
      <4> QED BY <4>1, <4>2
    <3>2. ASSUME NEW c \in Challenges, challenge'[c].st = "ACTIVE"
          PROVE  Survives(u, challenge[c], challenge'[c])
      <4>1. CASE new = "DISABLED"
        BY <1>h, <1>1, <3>2, <4>1, RevokedRows DEF Survives
      <4>2. CASE new # "DISABLED"
        <5>1. user[u].status = "DISABLED" /\ challenge'[c] = challenge[c]
          BY <1>1, <2>1, <4>2 DEF Statuses
        <5>2. challenge[c].user # u
          BY <3>2, <5>1 DEF CredInv, LiveRows, DisabledHoldsNothing
        <5> QED BY <5>1, <5>2 DEF Survives
      <4> QED BY <4>1, <4>2
    <3> QED BY <2>2, <3>1, <3>2 DEF LiveChange
  <2>8. Persist
    <3>1. \A f \in Families : family[f] # NoFamily =>
            /\ family'[f] # NoFamily
            /\ family'[f].user = family[f].user /\ family'[f].expires = family[f].expires
            /\ family[f].st = "REVOKED" => family'[f].st = "REVOKED"
      BY <1>h, <1>1, RevokedRows
    <3>2. \A c \in Challenges : challenge[c] # NoChallenge =>
            /\ challenge'[c] # NoChallenge
            /\ challenge'[c].user = challenge[c].user
            /\ challenge'[c].expires = challenge[c].expires
            /\ challenge[c].st # "ACTIVE" => challenge'[c] = challenge[c]
      BY <1>h, <1>1, RevokedRows
    <3> QED BY <1>0, <3>1, <3>2 DEF Persist
  <2>9. /\ Chained' /\ IssuedLive
        /\ \A k \in Tokens : token'[k] # NoToken => family'[token'[k].family] # NoFamily
    BY <1>0, <1>h, <1>1, RevokedRows, ChainAlone DEF IssuedLive
  <2>10. /\ Redemption'
         /\ \A l \in Links : link'[l] # NoLink => challenge'[link'[l].challenge] # NoChallenge
    BY <1>0, <1>h, <1>1, RevokedRows, RedemptionAlone
  <2>11. EventsExplainUsers'
    BY <1>1, <2>2, <2>3, <2>e, <2>6, EventsStep
  <2> QED BY <1>0, <1>u, <2>6, <2>7, <2>8, <2>9, <2>10, <2>11, CommitStep
          DEF Committed, Referential
<1>2. CASE UNCHANGED <<user, family, challenge, log>>
  BY <1>0, <1>2, RefusedStep DEF store
<1> QED BY <1>1, <1>2, <1>h, <1>u, <1>n DEF FinishChangeStatus

LEMMA FinishChangeRoleStep ==
    ASSUME CredInv, UNCHANGED setup, NEW r \in Requests, FinishChangeRole(r)
    PROVE  Committed
<1>0. /\ req[r].pc = "locked" /\ req[r].kind = "ChangeRole" /\ Done(r)
      /\ UNCHANGED <<family, token, challenge, link>>
  BY DEF FinishChangeRole, Working, sessions, resets
<1>h. /\ CredTypeOK /\ Idle \in Request /\ req[r].user \in Users
      /\ req[r].row = user[req[r].user] /\ req[r].to \in Roles
  BY <1>0, Held DEF CredInv, RequestOK
<1>u. PICK u \in Users : u = req[r].user
  BY <1>h
<1>n. PICK new \in Roles : new = req[r].to
  BY <1>h
<1>1. ASSUME user[u].role # new, user' = [user EXCEPT ![u].role = new],
             Record(u, [type |-> "ROLE", from |-> user[u].role, to |-> new])
      PROVE  Committed
  <2>1. user \in [Users -> UserRow] /\ user[u] \in [status : Statuses, hash : Hash, role : Roles]
    BY <1>h DEF CredTypeOK, UserRow
  <2>2. /\ user' \in [Users -> UserRow] /\ user'[u] \in UserRow
        /\ user'[u].role = new /\ user'[u].hash = user[u].hash
        /\ user'[u].status = user[u].status
        /\ \A v \in Users \ {u} : user'[v] = user[v]
    BY <1>1, <2>1 DEF UserRow
  <2> DEFINE e == [type |-> "ROLE", from |-> user[u].role, to |-> new]
  <2>3. e \in Event /\ e.type = "ROLE" /\ e.from = user[u].role /\ e.to = new
    BY <2>1 DEF Event
  <2>e. Record(u, e)
    BY <1>1
  <2> HIDE DEF e
  <2>4. CredTypeOK'
    BY <1>0, <1>h, <2>2, <2>3, <2>e, RecordedChange DEF CredTypeOK, Done
  <2>5. LiveChange(u) /\ Persist /\ IssuedLive
    BY <1>0, <2>2 DEF LiveChange, Survives, Persist, IssuedLive
  <2>6. /\ Chained' /\ Redemption' /\ Referential'
    BY <1>0, ChainAlone, RedemptionAlone DEF Referential
  <2>7. EventsExplainUsers'
    BY <1>1, <2>2, <2>3, <2>e, <2>4, EventsStep
  <2> QED BY <1>0, <1>u, <2>4, <2>5, <2>6, <2>7, CommitStep DEF Committed
<1>2. CASE UNCHANGED <<user, log>>
  BY <1>0, <1>2, RefusedStep DEF store
<1> QED BY <1>1, <1>2, <1>h, <1>u, <1>n DEF FinishChangeRole

-----------------------------------------------------------------------------
(***************************************************************************)
(* The theorems.                                                           *)
(***************************************************************************)
\* Every step keeps the invariant and the rows.
LEMMA CredInvStep ==
    ASSUME CredInv, [Next]_vars
    PROVE  CredInv' /\ Persist /\ IssuedLive
<1>1. CASE UNCHANGED vars
  <2>1. UNCHANGED <<setup, store, req, clock>>
    BY <1>1 DEF vars, store
  <2>2. CredTypeOK'
    BY <2>1 DEF CredInv, LiveRows, SessionTablesAccept, CredTypeOK, store
  <2>3. (\A r \in Requests : RequestOK(r)') /\ HeldOnce'
    BY <2>1 DEF CredInv, RequestOK, HeldOnce, store
  <2>4. CredInv'
    BY <2>1, <2>2, <2>3, TablesAlone DEF CredInv
  <2> QED BY <2>1, <2>4 DEF Persist, IssuedLive, store
<1>2. CASE Next
  <2>0. UNCHANGED setup
    BY <1>2 DEF Next
  <2>a. ASSUME UNCHANGED store PROVE Persist /\ IssuedLive
    BY <2>a DEF Persist, IssuedLive, store
  <2>1. CASE Tick
    BY <2>0, <2>a, <2>1, TickStep DEF Tick
  <2>2. ASSUME NEW r \in Requests, Start(r) PROVE CredInv' /\ Persist /\ IssuedLive
    <3>1. UNCHANGED store
      BY <2>2 DEF Start, AcceptLogin, AcceptRequestReset, AcceptRefresh, AcceptChangePassword,
         AcceptCompleteReset, AcceptChangeStatus, AcceptChangeRole, Accept, AcceptFrom, Enter
    <3> QED BY <2>0, <2>a, <2>2, <3>1, StartStep
  <2>3. ASSUME NEW r \in Requests, LockUser(r) PROVE CredInv' /\ Persist /\ IssuedLive
    BY <2>0, <2>a, <2>3, LockStep DEF LockUser
  <2>b. ASSUME NEW r \in Requests, Audit(r) PROVE CredInv' /\ Persist /\ IssuedLive
    BY <2>0, <2>a, <2>b, AuditStep DEF Audit
  <2>4. ASSUME NEW r \in Requests, Abort(r) PROVE CredInv' /\ Persist /\ IssuedLive
    BY <2>0, <2>a, <2>4, AbortStep DEF Abort
  <2>5. ASSUME NEW r \in Requests, Finish(r) PROVE CredInv' /\ Persist /\ IssuedLive
    BY <2>0, <2>5, FinishLoginStep, FinishRefreshStep, FinishLogoutStep,
       FinishChangePasswordStep, FinishRequestResetStep, FinishCompleteResetStep,
       FinishChangeStatusStep, FinishChangeRoleStep DEF Finish, Committed
  <2> QED BY <1>2, <2>1, <2>2, <2>3, <2>b, <2>4, <2>5 DEF Next
<1> QED BY <1>1, <1>2

\* The inductive invariant.
THEOREM CredentialsAreSound == Spec => []CredInv
<1>1. CredInv /\ [Next]_vars => CredInv'
  BY CredInvStep
<1> QED BY CredInvInit, <1>1, PTL DEF Spec

\* The tables accept every row: at most one live session and one live
\* challenge per user, in every overlap of requests.
THEOREM SessionTablesAlwaysAccept == Spec => []SessionTablesAccept
<1>1. CredInv => SessionTablesAccept
  BY DEF CredInv, LiveRows
<1> QED BY <1>1, CredentialsAreSound, PTL

\* A disabled user holds no live session and no live challenge.
THEOREM DisabledNeverHolds == Spec => []DisabledHoldsNothing
<1>1. CredInv => DisabledHoldsNothing
  BY DEF CredInv, LiveRows
<1> QED BY <1>1, CredentialsAreSound, PTL

\* Whatever is live goes back to the password the user has now.
THEOREM NothingOutlivesItsPassword == Spec => []OpenedUnderCurrentPassword
<1>1. CredInv => OpenedUnderCurrentPassword
  BY DEF CredInv, LiveRows
<1> QED BY <1>1, CredentialsAreSound, PTL

\* The tokens of a session form one chain with one unused end, however often
\* and by how many tabs its tokens are presented.
THEOREM RotationStaysLinear == Spec => []RotationIsLinear
<1>1. CredInv => RotationIsLinear
  <2> SUFFICES ASSUME CredInv PROVE RotationIsLinear
    OBVIOUS
  <2>1. ASSUME NEW f \in Families, family[f] # NoFamily
        PROVE  Cardinality({k \in Tokens : token[k].family = f /\ token[k].used = None}) = 1
    <3>1. PICK k \in Tokens : Unused(f) = {k}
      BY <2>1 DEF CredInv, Chained
    <3>2. Cardinality(Unused(f)) = 1
      BY <3>1, FS_Singleton
    <3> QED BY <3>2 DEF Unused
  <2> QED BY <2>1 DEF RotationIsLinear, CredInv, Chained
<1> QED BY <1>1, CredentialsAreSound, PTL

\* Of the links of one challenge one at most is redeemed, and exactly one if
\* the challenge is completed.
THEOREM LinksAreRedeemedOnce == Spec => []LinksRedeemedOnce
<1>1. CredInv => LinksRedeemedOnce
  <2> SUFFICES ASSUME CredInv, NEW c \in Challenges
               PROVE  Cardinality({l \in Links : link[l].challenge = c /\ link[l].used # None}) =
                        IF challenge[c].st = "COMPLETED" THEN 1 ELSE 0
    BY DEF LinksRedeemedOnce
  <2> QED BY FS_Singleton, FS_EmptySet DEF CredInv, Redemption, Redeemed
<1> QED BY <1>1, CredentialsAreSound, PTL

\* The security events of a user explain the role, the status and the number
\* of passwords of its row.
THEOREM EventsAlwaysExplain == Spec => []EventsExplainUsers
<1>1. CredInv => EventsExplainUsers
  BY DEF CredInv
<1> QED BY <1>1, CredentialsAreSound, PTL

\* What ended stays ended, deadlines do not move, and no token is issued in a
\* session that is over.
THEOREM RevocationStaysFinal == Spec => RevocationIsFinal
<1>1. ASSUME CredInv, Next
      PROVE  /\ \A f \in Families : family[f] # NoFamily =>
                  /\ family[f].st = "REVOKED" => family'[f].st = "REVOKED"
                  /\ family'[f].expires = family[f].expires
             /\ \A k \in Tokens : token[k] = NoToken /\ token'[k] # NoToken =>
                  LET f == token'[k].family IN
                  family'[f].st = "ACTIVE" /\ clock < family'[f].expires
             /\ \A c \in Challenges :
                  /\ challenge[c].st \in {"EXPIRED", "COMPLETED", "REVOKED"} =>
                        challenge'[c] = challenge[c]
                  /\ challenge[c] # NoChallenge => challenge'[c].expires = challenge[c].expires
  <2>1. Persist /\ IssuedLive
    BY <1>1, CredInvStep
  <2> QED BY <2>1 DEF Persist, IssuedLive, NoChallenge
<1> QED BY <1>1, CredentialsAreSound, PTL DEF Spec, RevocationIsFinal

\* A refresh ends the session exactly when it replays a token whose conflict
\* window is over, decided on rows nobody else can change meanwhile.
THEOREM OnlyReplaysEndSessions == Spec => ReplayEndsSession
<1> DEFINE Ends(r) ==
        LET k == req[r].target
            f == token[k].family
        IN  (family'[f].st # family[f].st) <=>
                /\ user[family[f].user].status = "ACTIVE"
                /\ family[f].st = "ACTIVE" /\ clock < family[f].expires
                /\ token[k].used # None /\ clock > token[k].used + ConflictWindow
<1>1. ASSUME CredInv, NEW r \in Requests, FinishRefresh(r)
      PROVE  Ends(r)
  <2>0. req[r].pc = "locked" /\ req[r].kind = "Refresh"
    BY <1>1 DEF FinishRefresh, Working
  <2>1. PICK k \in Tokens : k = req[r].target /\ token[k] # NoToken
                            /\ family[token[k].family].user = req[r].user
    BY <1>1, <2>0 DEF CredInv, RequestOK
  <2>2. PICK f \in Families : f = token[k].family
    BY <1>1, <2>1, PresentedUsers
  <2>3. req[r].row = user[family[f].user] /\ CredTypeOK
    BY <1>1, <2>0, <2>1, <2>2, Held
  <2>4. family[f].st = "ACTIVE" /\ family' = [family EXCEPT ![f].st = "REVOKED"] =>
            family'[f].st = "REVOKED"
    BY <2>3 DEF CredTypeOK, FamilyRow, NoFamily
  <2>5. CASE /\ req[r].row.status = "ACTIVE" /\ Live(f, clock) /\ Rotates(k, clock)
             /\ UNCHANGED family
    BY <2>1, <2>2, <2>5 DEF Rotates
  <2>6. CASE /\ req[r].row.status = "ACTIVE" /\ Live(f, clock) /\ Replayed(k, clock)
             /\ family' = [family EXCEPT ![f].st = "REVOKED"]
    BY <2>1, <2>2, <2>3, <2>4, <2>6 DEF Live, Replayed
  <2>7. CASE /\ \/ ~(req[r].row.status = "ACTIVE" /\ Live(f, clock))
                \/ ~Rotates(k, clock) /\ ~Replayed(k, clock)
             /\ UNCHANGED family
    BY <2>1, <2>2, <2>3, <2>7 DEF Live, Replayed, Rotates
  <2> QED BY <1>1, <2>1, <2>2, <2>5, <2>6, <2>7 DEF FinishRefresh, sessions
<1>2. CredInv /\ [Next]_vars => [\A r \in Requests : FinishRefresh(r) => Ends(r)]_vars
  BY <1>1
<1> QED BY <1>2, CredentialsAreSound, PTL DEF Spec, ReplayEndsSession

\* Who is waited for holds a lock, and who holds one waits only if it is to
\* record an event, and only for a transaction that is not management.
LEMMA WaitingHolders ==
    ASSUME CredInv, NEW r \in Requests, NEW q \in Blockers(r)
    PROVE  /\ q \in Requests /\ req[q].pc = "locked"
           /\ req[r].pc = "locked" =>
                 req[r].kind \in Management /\ req[q].kind \notin Management
<1>1. PICK w \in Wanted(r) : q \in Rivals(r, w[1], w[2])
  BY DEF Blockers
<1>2. q \in Requests /\ \E m \in Excludes(w[2]) : <<w[1], m>> \in req[q].held
  BY <1>1 DEF Rivals
<1>3. LocksOK(req[q])
  BY <1>2 DEF CredInv, HeldOnce
<1>4. req[q].pc = "locked"
  BY <1>2, <1>3 DEF LocksOK
<1>5. ASSUME req[r].pc = "locked"
      PROVE  req[r].kind \in Management /\ req[q].kind \notin Management
  <2>1. Changes(r) /\ w = <<req[r].by, "FOR KEY SHARE">>
    BY <1>1, <1>5 DEF Wanted, Initiator
  <2>2. req[r].kind \in Management
    BY <2>1 DEF Changes, Management
  <2>3. w[1] = req[r].by /\ w[2] = "FOR KEY SHARE"
    BY <2>1
  <2>4. <<req[r].by, "FOR UPDATE">> \in req[q].held
    BY <1>2, <2>3 DEF Excludes
  <2>5. <<req[r].by, "FOR UPDATE">> # EventLock(req[q])
    BY DEF EventLock
  <2>6. <<req[r].by, "FOR UPDATE">> = FirstLock(req[q])
    BY <1>3, <2>4, <2>5 DEF LocksOK
  <2>7. Mode(req[q].kind) = "FOR UPDATE"
    BY <2>6 DEF FirstLock
  <2> QED BY <2>2, <2>7 DEF Mode
<1> QED BY <1>2, <1>4, <1>5

\* Nobody waits in a circle: a transaction of a circle is waited for, so it
\* holds a lock, and it waits, so it is management at its event and waits for
\* one that is not.  That one is of the circle too and would be management.
THEOREM AccountsNeverDeadlock == Spec => []NoLockCycle
<1>1. CredInv => NoLockCycle
  <2> SUFFICES ASSUME CredInv, NEW S \in (SUBSET Requests) \ {{}},
                      \A r \in S : Blockers(r) \cap S # {}
               PROVE  FALSE
    BY DEF NoLockCycle
  <2>1. PICK r \in S : r \in Requests
    OBVIOUS
  <2>2. PICK q \in Blockers(r) : q \in S
    BY <2>1
  <2>3. q \in Requests /\ req[q].pc = "locked"
    BY <2>1, <2>2, WaitingHolders
  <2>4. PICK p \in Blockers(q) : p \in S
    BY <2>2
  <2>5. p \in Requests /\ req[p].pc = "locked" /\ req[p].kind \notin Management
    BY <2>3, <2>4, WaitingHolders
  <2>6. PICK o \in Blockers(p) : o \in S
    BY <2>4
  <2> QED BY <2>5, <2>6, WaitingHolders
<1> QED BY <1>1, CredentialsAreSound, PTL

=============================================================================
