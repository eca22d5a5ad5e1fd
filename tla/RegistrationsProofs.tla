-------------------------- MODULE RegistrationsProofs -------------------------
(***************************************************************************)
(* Accounts come from one link or from the bootstrap command, for every    *)
(* number of addresses, challenges, links and overlapping requests.        *)
(*                                                                         *)
(* Two exclusions carry the argument, and neither alone would do.  The     *)
(* advisory lock makes what a registration transaction has read of the     *)
(* challenges of its address stay true until it commits (Locked); the      *)
(* unique index makes the address of an uncommitted users row stay free,   *)
(* also against the bootstrap command, which takes no advisory lock        *)
(* (Inserted).                                                             *)
(***************************************************************************)
EXTENDS Registrations, TLAPS

AccountRow == {NoAccount} \cup
    [origin : {"link", "bootstrap"}, role : Roles, status : Statuses,
     salt : Nat \ {0}, pw : Passwords, session : BOOLEAN]
ChallengeRow == {NoChallenge} \cup
    [st : {"ACTIVE", "EXPIRED", "COMPLETED"}, email : Emails, expires : Time]
LinkRow == {NoLink} \cup [challenge : Challenges, used : Time \cup {None}]
Request ==
    [pc : {"idle", "ready", "locked", "inserted", "verified"},
     kind : {None} \cup Kinds,
     email : Emails \cup {None}, link : Links \cup {None},
     pw : Passwords \cup {None}, salt : Nat, seen : AccountRow,
     open : SUBSET Challenges, at : Time]

RegTypeOK ==
    /\ account \in [Emails -> AccountRow]
    /\ challenge \in [Challenges -> ChallengeRow]
    /\ link \in [Links -> LinkRow]
    /\ salt \in Nat /\ clock \in Time
    /\ req \in [Requests -> Request]

\* What a request is about, by its kind and state.
Shape(r) ==
    LET q == req[r] IN
    /\ q.pc # "idle" => q.email \in Emails
    /\ q.pc = "locked" => q.kind \in {"Request", "Complete"}
    /\ q.pc = "inserted" => q.kind \in {"Complete", "Bootstrap"}
    /\ q.pc = "verified" => q.kind = "Bootstrap"
    /\ q.kind = "Complete" =>
        /\ q.link \in Links /\ link[q.link] # NoLink
        /\ challenge[link[q.link].challenge].email = q.email
    /\ q.kind \in {"Complete", "Bootstrap"} => q.pw \in Passwords
    /\ q.kind = "Complete" \/ (q.kind = "Bootstrap" /\ q.pc # "verified") => q.salt # 0

\* A transaction under the advisory lock of its address.
Registering(r) == req[r].kind \in {"Request", "Complete"} /\ req[r].pc \in {"locked", "inserted"}
Locked(r) ==
    Registering(r) =>
        /\ req[r].open = OpenChallenges(req[r].email)
        /\ \A q \in Requests : Registering(q) /\ req[q].email = req[r].email => q = r

\* A transaction with an uncommitted users row.
Inserted(r) ==
    req[r].pc = "inserted" =>
        /\ account[req[r].email] = NoAccount
        /\ req[r].kind = "Complete" => Redeemable(r)
        /\ ~EmailPending(r, req[r].email)

Referential == \A l \in Links : link[l] # NoLink => challenge[link[l].challenge] # NoChallenge

\* A salt belongs to one password.
Salted ==
    {<<account[e].salt, account[e].pw>> : e \in Emails}
    \cup {<<req[r].salt, req[r].pw>> : r \in Requests}
    \cup {<<req[r].seen.salt, req[r].seen.pw>> : r \in Requests}
OnePasswordPerSalt ==
    /\ \A a \in Salted : a[1] <= salt
    /\ \A a, b \in Salted : a[1] # 0 /\ a[1] = b[1] => a[2] = b[2]

\* AccountsComeFromOneLink, row by row.
OneLink ==
    /\ \A c \in Challenges : challenge[c].st = "COMPLETED" =>
            account[challenge[c].email].origin = "link"
    /\ \A c, d \in Challenges :
            challenge[c].st = "COMPLETED" /\ challenge[d].st = "COMPLETED"
            /\ challenge[c].email = challenge[d].email => c = d
    /\ \A l \in Links : link[l].used # None =>
            challenge[link[l].challenge].st = "COMPLETED"
    /\ \A l, k \in Links :
            link[l].used # None /\ link[k].used # None
            /\ link[l].challenge = link[k].challenge => l = k
    /\ \A e \in Emails : account[e].origin = "link" =>
            \E l \in Links : link[l].used # None
                             /\ challenge[link[l].challenge].email = e

RegInv ==
    /\ RegTypeOK
    /\ \A r \in Requests : Shape(r) /\ Locked(r) /\ Inserted(r)
    /\ Referential
    /\ OnePasswordPerSalt
    /\ OneLink
    /\ OneOpenChallenge

-----------------------------------------------------------------------------
(***************************************************************************)
(* Rows.                                                                   *)
(***************************************************************************)

\* What the types say of one row of each table.
LEMMA RowTypes ==
    ASSUME RegTypeOK
    PROVE  /\ \A e \in Emails :
                 /\ account[e] # NoAccount =>
                      account[e] \in [origin : {"link", "bootstrap"}, role : Roles,
                                      status : Statuses, salt : Nat \ {0},
                                      pw : Passwords, session : BOOLEAN]
                 /\ account[e] = NoAccount <=> account[e].origin = "absent"
           /\ \A c \in Challenges :
                 /\ challenge[c] # NoChallenge =>
                      challenge[c] \in [st : {"ACTIVE", "EXPIRED", "COMPLETED"},
                                        email : Emails, expires : Time]
                 /\ challenge[c] = NoChallenge <=> challenge[c].st = "absent"
           /\ \A l \in Links :
                 /\ link[l] # NoLink =>
                      link[l] \in [challenge : Challenges, used : Time \cup {None}]
                 /\ link[l].used # None => link[l] # NoLink
BY DEF RegTypeOK, AccountRow, ChallengeRow, LinkRow, NoAccount, NoChallenge, NoLink

LEMMA IdleIsRequest == Idle \in Request
BY DEF Idle, Request, AccountRow, NoAccount, Time

LEMMA RegInvInit == Init => RegInv
<1> SUFFICES ASSUME Init PROVE RegInv
  OBVIOUS
<1>1. RegTypeOK
  BY IdleIsRequest DEF Init, RegTypeOK, AccountRow, ChallengeRow, LinkRow, Time
<1>2. \A r \in Requests : req[r] = Idle
  BY DEF Init
<1>3. \A r \in Requests : req[r].pc = "idle" /\ req[r].kind = None
                          /\ req[r].seen = NoAccount /\ req[r].salt = 0
  BY <1>2 DEF Idle
<1>4. \A r \in Requests : Shape(r) /\ Locked(r) /\ Inserted(r)
  BY <1>3, RegistrationSentinel DEF Shape, Locked, Registering, Inserted, Kinds
<1>5. Referential
  BY DEF Init, Referential
<1>6. \A a \in Salted : a[1] = 0
  BY <1>3 DEF Init, Salted, NoAccount
<1>7. OnePasswordPerSalt
  BY <1>6 DEF OnePasswordPerSalt, Init
<1>8. OneLink
  BY DEF Init, OneLink, NoAccount, NoChallenge, NoLink
<1>9. OneOpenChallenge
  BY DEF Init, OneOpenChallenge, NoChallenge
<1> QED
  BY <1>1, <1>4, <1>5, <1>7, <1>8, <1>9 DEF RegInv

\* The sets of AccountsComeFromOneLink, from the rows.
LEMMA OneLinkSuffices ==
    ASSUME RegTypeOK, OneLink
    PROVE  AccountsComeFromOneLink
<1> SUFFICES ASSUME NEW e \in Emails
             PROVE  LET completed == {c \in Challenges : challenge[c].email = e
                                                       /\ challenge[c].st = "COMPLETED"}
                        redeemed == {l \in Links : link[l].used # None
                                               /\ challenge[link[l].challenge].email = e}
                    IN  IF account[e].origin = "link"
                        THEN \E c \in Challenges, l \in Links :
                                completed = {c} /\ redeemed = {l} /\ link[l].challenge = c
                        ELSE completed = {} /\ redeemed = {}
  BY DEF AccountsComeFromOneLink
<1>1. \A l \in Links : link[l].used # None => link[l].challenge \in Challenges
  BY RowTypes
<1>2. CASE account[e].origin = "link"
  <2>1. PICK l \in Links : link[l].used # None /\ challenge[link[l].challenge].email = e
    BY <1>2 DEF OneLink
  <2>2. PICK c \in Challenges : c = link[l].challenge
    BY <1>1, <2>1
  <2>3. challenge[c].st = "COMPLETED" /\ challenge[c].email = e
    BY <2>1, <2>2 DEF OneLink
  <2>4. \A d \in Challenges : challenge[d].email = e /\ challenge[d].st = "COMPLETED" => d = c
    BY <2>3 DEF OneLink
  <2>5. ASSUME NEW k \in Links, link[k].used # None, challenge[link[k].challenge].email = e
        PROVE  k = l
    <3>1. challenge[link[k].challenge].st = "COMPLETED"
      BY <2>5 DEF OneLink
    <3>2. link[k].challenge = c
      BY <3>1, <2>4, <2>5, <1>1
    <3> QED
      BY <3>2, <2>1, <2>2, <2>5 DEF OneLink
  <2>6. {d \in Challenges : challenge[d].email = e /\ challenge[d].st = "COMPLETED"} = {c}
    BY <2>3, <2>4
  <2>7. {k \in Links : link[k].used # None /\ challenge[link[k].challenge].email = e} = {l}
    BY <2>1, <2>5
  <2> QED
    BY <1>2, <2>2, <2>6, <2>7
<1>3. CASE account[e].origin # "link"
  <2>1. \A c \in Challenges : challenge[c].email = e => challenge[c].st # "COMPLETED"
    BY <1>3 DEF OneLink
  <2>2. \A l \in Links : link[l].used # None => challenge[link[l].challenge].email # e
    BY <1>1, <2>1 DEF OneLink
  <2> QED
    BY <1>3, <2>1, <2>2
<1> QED
  BY <1>2, <1>3

-----------------------------------------------------------------------------
(***************************************************************************)
(* Steps that leave the tables alone.                                      *)
(***************************************************************************)

\* The tables' own invariants are about the tables.
LEMMA StoreUnchanged ==
    ASSUME RegInv, UNCHANGED store
    PROVE  (Referential /\ OneLink /\ OneOpenChallenge)'
BY DEF RegInv, store, Referential, OneLink, OneOpenChallenge

\* One request moves and the tables stay: what the others rely on holds if
\* the mover takes neither an advisory lock nor an email that is in use.
LEMMA OneRequestMoves ==
    ASSUME RegInv, UNCHANGED store,
           NEW r \in Requests, NEW request \in Request,
           req' = [req EXCEPT ![r] = request],
           Shape(r)', Locked(r)', Inserted(r)'
    PROVE  \A q \in Requests : Shape(q)' /\ Locked(q)' /\ Inserted(q)'
<1> SUFFICES ASSUME NEW q \in Requests, q # r
             PROVE  Shape(q)' /\ Locked(q)' /\ Inserted(q)'
  OBVIOUS
<1>1. req \in [Requests -> Request]
  BY DEF RegInv, RegTypeOK
<1>2. req'[q] = req[q] /\ req'[r] = request
     /\ \A p \in Requests : p # r => req'[p] = req[p]
  BY <1>1
<1>3. Shape(q) /\ Locked(q) /\ Inserted(q)
  BY DEF RegInv
<1>4. Shape(q)'
  BY <1>2, <1>3 DEF Shape, store
<1>5. Locked(q)'
  <2> SUFFICES ASSUME Registering(q)'
               PROVE  /\ req'[q].open = OpenChallenges(req[q].email)'
                      /\ \A p \in Requests : Registering(p)' /\ req'[p].email = req'[q].email => p = q
    BY <1>2 DEF Locked
  <2>1. Registering(q)
    BY <1>2 DEF Registering
  <2>2. req'[q].open = OpenChallenges(req[q].email)'
    BY <1>2, <1>3, <2>1 DEF Locked, OpenChallenges, store
  <2>3. ASSUME NEW p \in Requests, Registering(p)', req'[p].email = req'[q].email
        PROVE  p = q
    <3>1. CASE p = r
      BY <3>1, <2>3 DEF Locked
    <3>2. CASE p # r
      <4>1. Registering(p) /\ req[p].email = req[q].email
        BY <1>2, <2>3, <3>2 DEF Registering
      <4> QED
        BY <4>1, <1>3, <2>1 DEF Locked
    <3> QED
      BY <3>1, <3>2
  <2> QED
    BY <2>2, <2>3
<1>6. Inserted(q)'
  <2> SUFFICES ASSUME req'[q].pc = "inserted"
               PROVE  /\ account'[req'[q].email] = NoAccount
                      /\ req'[q].kind = "Complete" => Redeemable(q)'
                      /\ \A p \in Requests \ {q} :
                            ~(req'[p].pc = "inserted" /\ req'[p].email = req'[q].email)
    BY DEF Inserted, EmailPending
  <2>1. /\ account[req[q].email] = NoAccount
        /\ req[q].kind = "Complete" => Redeemable(q)
        /\ ~EmailPending(q, req[q].email)
    BY <1>2, <1>3 DEF Inserted
  <2>2. req'[q].kind = "Complete" => Redeemable(q)'
    BY <2>1, <1>2 DEF Redeemable, store
  <2>3. ASSUME NEW p \in Requests \ {q}, req'[p].pc = "inserted", req'[p].email = req'[q].email
        PROVE  FALSE
    <3>1. CASE p = r
      BY <3>1, <2>3 DEF Inserted, EmailPending
    <3>2. CASE p # r
      BY <3>2, <2>3, <2>1, <1>2 DEF EmailPending
    <3> QED
      BY <3>1, <3>2
  <2> QED
    BY <2>1, <2>2, <2>3, <1>2 DEF store
<1> QED
  BY <1>4, <1>5, <1>6

\* A request that ends claims nothing.
LEMMA IdleClaimsNothing ==
    ASSUME RegInv, NEW r \in Requests, req' = [req EXCEPT ![r] = Idle]
    PROVE  Shape(r)' /\ Locked(r)' /\ Inserted(r)'
<1>1. req'[r].pc = "idle" /\ req'[r].kind = None
  BY DEF RegInv, RegTypeOK, Idle
<1> QED
  BY <1>1, RegistrationSentinel DEF Shape, Locked, Registering, Inserted, Kinds

\* The requests' part of the invariant, for each step that leaves the tables
\* alone.
LEMMA EnterStep ==
    ASSUME RegInv, NEW r \in Requests, NEW request \in Request, Enter(r, request),
           request.pc \in {"ready", "verified"}, request.email \in Emails,
           request.pc = "verified" => request.kind = "Bootstrap",
           request.kind = "Complete" =>
                /\ request.link \in Links /\ link[request.link] # NoLink
                /\ challenge[link[request.link].challenge].email = request.email,
           request.kind \in {"Complete", "Bootstrap"} => request.pw \in Passwords,
           request.kind = "Complete" \/ (request.kind = "Bootstrap" /\ request.pc # "verified")
                => request.salt # 0
    PROVE  \A q \in Requests : Shape(q)' /\ Locked(q)' /\ Inserted(q)'
<1>1. UNCHANGED store /\ req' = [req EXCEPT ![r] = request]
  BY DEF Enter
<1>2. req'[r] = request
  BY <1>1 DEF RegInv, RegTypeOK
<1>3. Shape(r)'
  BY <1>1, <1>2 DEF Shape, store
<1>4. Locked(r)' /\ Inserted(r)'
  BY <1>2 DEF Locked, Inserted, Registering
<1> QED
  BY <1>1, <1>3, <1>4, OneRequestMoves

LEMMA EndStep ==
    ASSUME RegInv, NEW r \in Requests, Done(r), UNCHANGED store
    PROVE  \A q \in Requests : Shape(q)' /\ Locked(q)' /\ Inserted(q)'
<1>1. req' = [req EXCEPT ![r] = Idle]
  BY DEF Done
<1> QED
  BY <1>1, IdleClaimsNothing, OneRequestMoves, IdleIsRequest

LEMMA LockEmailStep ==
    ASSUME RegInv, NEW r \in Requests, LockEmail(r)
    PROVE  \A q \in Requests : Shape(q)' /\ Locked(q)' /\ Inserted(q)'
<1>1. req \in [Requests -> Request] /\ Shape(r)
  BY DEF RegInv, RegTypeOK
<1>2. PICK request : request = [req[r] EXCEPT !.pc = "locked",
                                    !.seen = account[req[r].email],
                                    !.open = OpenChallenges(req[r].email),
                                    !.at = clock]
  OBVIOUS
<1>3. req[r].email \in Emails
  BY <1>1 DEF LockEmail, Shape
<1>4. account[req[r].email] \in AccountRow /\ clock \in Time
     /\ OpenChallenges(req[r].email) \in SUBSET Challenges
  BY <1>3 DEF RegInv, RegTypeOK, OpenChallenges
<1>5. req[r] \in Request
  BY <1>1
<1>6. request \in Request
  BY <1>2, <1>4, <1>5 DEF Request
<1>7. req' = [req EXCEPT ![r] = request] /\ UNCHANGED store
  BY <1>2, <1>1 DEF LockEmail
<1>8. req'[r] = request /\ \A q \in Requests : q # r => req'[q] = req[q]
  BY <1>7, <1>1
<1>9. /\ request.pc = "locked" /\ request.kind = req[r].kind
      /\ request.email = req[r].email /\ request.link = req[r].link
      /\ request.pw = req[r].pw /\ request.salt = req[r].salt
      /\ request.open = OpenChallenges(req[r].email)
  BY <1>2, <1>5 DEF Request
<1>10. Shape(r)'
  BY <1>1, <1>3, <1>7, <1>8, <1>9 DEF Shape, LockEmail, store
<1>11. Locked(r)'
  <2>1. ASSUME NEW q \in Requests, Registering(q)', req'[q].email = req[r].email, q # r
        PROVE  FALSE
    BY <2>1, <1>8 DEF LockEmail, EmailFree, Registering
  <2>2. request.open = OpenChallenges(request.email)'
    BY <1>7, <1>9 DEF OpenChallenges, store
  <2> QED
    BY <2>1, <2>2, <1>8, <1>9 DEF Locked
<1>12. Inserted(r)'
  BY <1>8, <1>9 DEF Inserted
<1> QED
  BY <1>6, <1>7, <1>10, <1>11, <1>12, OneRequestMoves

\* The insert of a users row, by a link or by the bootstrap command.
LEMMA InsertStep ==
    ASSUME RegInv, NEW r \in Requests, UNCHANGED store,
           req' = [req EXCEPT ![r].pc = "inserted"],
           ~EmailPending(r, req[r].email), ~EmailTaken(req[r].email),
           \/ req[r].pc = "locked" /\ req[r].kind = "Complete" /\ Redeemable(r)
           \/ req[r].pc = "ready" /\ req[r].kind = "Bootstrap"
    PROVE  \A q \in Requests : Shape(q)' /\ Locked(q)' /\ Inserted(q)'
<1>1. req \in [Requests -> Request] /\ Shape(r) /\ Locked(r)
  BY DEF RegInv, RegTypeOK
<1>2. PICK request : request = [req[r] EXCEPT !.pc = "inserted"]
  OBVIOUS
<1>3. req[r] \in Request
  BY <1>1
<1>4. request \in Request
  BY <1>2, <1>3 DEF Request
<1>5. req' = [req EXCEPT ![r] = request]
  BY <1>2, <1>1
<1>6. req'[r] = request /\ \A q \in Requests : q # r => req'[q] = req[q]
  BY <1>5, <1>1
<1>7. /\ request.pc = "inserted" /\ request.kind = req[r].kind
      /\ request.email = req[r].email /\ request.link = req[r].link
      /\ request.pw = req[r].pw /\ request.salt = req[r].salt
      /\ request.open = req[r].open /\ request.at = req[r].at
  BY <1>2, <1>3 DEF Request
<1>8. Shape(r)'
  BY <1>1, <1>6, <1>7 DEF Shape, store
<1>9. Locked(r)'
  <2> SUFFICES ASSUME Registering(r)'
               PROVE  Locked(r)'
    BY DEF Locked
  <2>1. Registering(r)
    BY <1>6, <1>7 DEF Registering
  <2>2. request.open = OpenChallenges(request.email)'
    BY <1>1, <1>7, <2>1 DEF Locked, OpenChallenges, store
  <2>3. ASSUME NEW q \in Requests, Registering(q)', req'[q].email = req[r].email
        PROVE  q = r
    <3>1. Registering(q) /\ req[q].email = req[r].email
      BY <2>1, <2>3, <1>6 DEF Registering
    <3> QED
      BY <3>1, <1>1, <2>1 DEF Locked
  <2> QED
    BY <2>2, <2>3, <1>6, <1>7 DEF Locked
<1>10. Inserted(r)'
  <2>1. account'[request.email] = NoAccount
    BY <1>7 DEF EmailTaken, store
  <2>2. request.kind = "Complete" => Redeemable(r)'
    BY <1>6, <1>7 DEF Redeemable, store
  <2>3. ~EmailPending(r, request.email)'
    BY <1>6, <1>7 DEF EmailPending
  <2> QED
    BY <2>1, <2>2, <2>3, <1>6 DEF Inserted
<1> QED
  BY <1>4, <1>5, <1>8, <1>9, <1>10, OneRequestMoves

\* The bootstrap command finds the row of a faster transaction.
LEMMA SeenStep ==
    ASSUME RegInv, NEW r \in Requests, UNCHANGED store,
           req[r].pc = "ready", req[r].kind = "Bootstrap",
           req' = [req EXCEPT ![r].pc = "verified", ![r].seen = account[req[r].email]]
    PROVE  \A q \in Requests : Shape(q)' /\ Locked(q)' /\ Inserted(q)'
<1>1. req \in [Requests -> Request] /\ Shape(r)
  BY DEF RegInv, RegTypeOK
<1>2. PICK request : request = [req[r] EXCEPT !.pc = "verified",
                                              !.seen = account[req[r].email]]
  OBVIOUS
<1>3. req[r] \in Request /\ account[req[r].email] \in AccountRow
  BY <1>1 DEF Shape, RegInv, RegTypeOK
<1>4. request \in Request
  BY <1>2, <1>3 DEF Request
<1>5. req' = [req EXCEPT ![r] = request]
  BY <1>2, <1>1
<1>6. req'[r] = request
  BY <1>5, <1>1
<1>7. /\ request.pc = "verified" /\ request.kind = "Bootstrap"
      /\ request.email = req[r].email /\ request.pw = req[r].pw
  BY <1>2, <1>3 DEF Request
<1>8. Shape(r)'
  BY <1>1, <1>6, <1>7 DEF Shape
<1>9. Locked(r)' /\ Inserted(r)'
  BY <1>6, <1>7 DEF Locked, Inserted, Registering
<1> QED
  BY <1>4, <1>5, <1>8, <1>9, OneRequestMoves

-----------------------------------------------------------------------------
(***************************************************************************)
(* Steps that write the tables.                                            *)
(***************************************************************************)

\* A registration transaction of one address ends.  It leaves the challenges
\* of other addresses, the links in use by others and the users rows of other
\* addresses as they were; so what the others rely on still holds.
LEMMA OneAddressChanges ==
    ASSUME RegInv, NEW r \in Requests, req' = [req EXCEPT ![r] = Idle],
           NEW e \in Emails, e = req[r].email,
           Registering(r) \/ UNCHANGED <<challenge, link>>,
           account' = account \/ (req[r].pc = "inserted"
              /\ \A d \in Emails : d # e => account'[d] = account[d]),
           \A c \in Challenges :
              /\ challenge[c] # NoChallenge =>
                   challenge'[c].email = challenge[c].email
              /\ challenge[c] # NoChallenge /\ challenge[c].email # e =>
                   challenge'[c] = challenge[c]
              /\ challenge[c] = NoChallenge =>
                   challenge'[c] = NoChallenge \/ challenge'[c].email = e,
           \A l \in Links : link[l] # NoLink =>
              /\ link'[l] # NoLink /\ link'[l].challenge = link[l].challenge
              /\ challenge[link[l].challenge].email # e => link'[l] = link[l]
    PROVE  \A q \in Requests : Shape(q)' /\ Locked(q)' /\ Inserted(q)'
<1> SUFFICES ASSUME NEW q \in Requests, q # r
             PROVE  Shape(q)' /\ Locked(q)' /\ Inserted(q)'
  BY IdleClaimsNothing
<1>1. /\ req \in [Requests -> Request] /\ RegTypeOK
      /\ Shape(q) /\ Locked(q) /\ Inserted(q) /\ Referential
      /\ Shape(r) /\ Locked(r) /\ Inserted(r)
  BY DEF RegInv, RegTypeOK
<1>2. /\ req'[q] = req[q] /\ req'[r].pc = "idle"
      /\ \A p \in Requests : p # r => req'[p] = req[p]
  BY <1>1 DEF Idle
<1>3. ASSUME req[q].kind = "Complete"
      PROVE  /\ req[q].link \in Links /\ link[req[q].link] # NoLink
             /\ link[req[q].link].challenge \in Challenges
             /\ challenge[link[req[q].link].challenge] # NoChallenge
             /\ challenge[link[req[q].link].challenge].email = req[q].email
             /\ link'[req[q].link].challenge = link[req[q].link].challenge
             /\ link'[req[q].link] # NoLink
  <2>1. /\ req[q].link \in Links /\ link[req[q].link] # NoLink
        /\ challenge[link[req[q].link].challenge].email = req[q].email
    BY <1>1, <1>3 DEF Shape
  <2> QED
    BY <2>1, <1>1, RowTypes DEF Referential
<1>4. Shape(q)'
  BY <1>1, <1>2, <1>3 DEF Shape
<1>5. Locked(q)'
  <2> SUFFICES ASSUME Registering(q)
               PROVE  Locked(q)'
    BY <1>2 DEF Locked, Registering
  <2>1. req[q].open = OpenChallenges(req[q].email)
    BY <1>1 DEF Locked
  <2>2. challenge' = challenge \/ req[q].email # e
    BY <1>1 DEF Locked
  <2>3. req[q].email # None
    BY <1>1, RegistrationSentinel DEF Shape, Registering
  <2>4. \A c \in Challenges : (challenge'[c].st = "ACTIVE" /\ challenge'[c].email = req[q].email)
                               <=> (challenge[c].st = "ACTIVE" /\ challenge[c].email = req[q].email)
    BY <2>2, <2>3 DEF NoChallenge
  <2>5. req'[q].open = OpenChallenges(req[q].email)'
    BY <2>1, <2>4, <1>2 DEF OpenChallenges
  <2>6. ASSUME NEW p \in Requests, Registering(p)', req'[p].email = req'[q].email
        PROVE  p = q
    <3>1. p # r
      BY <2>6, <1>2 DEF Registering
    <3>2. Registering(p) /\ req[p].email = req[q].email
      BY <3>1, <2>6, <1>2 DEF Registering
    <3> QED
      BY <3>2, <1>1 DEF Locked
  <2> QED
    BY <2>5, <2>6, <1>2 DEF Locked
<1>6. Inserted(q)'
  <2> SUFFICES ASSUME req[q].pc = "inserted"
               PROVE  /\ account'[req[q].email] = NoAccount
                      /\ req[q].kind = "Complete" => Redeemable(q)'
                      /\ ~EmailPending(q, req[q].email)'
    BY <1>2 DEF Inserted
  <2>1. /\ account[req[q].email] = NoAccount
        /\ req[q].kind = "Complete" => Redeemable(q)
        /\ ~EmailPending(q, req[q].email)
        /\ req[q].email \in Emails
    BY <1>1 DEF Inserted, Shape
  <2>2. account'[req[q].email] = NoAccount
    BY <2>1 DEF EmailPending
  <2>3. ~EmailPending(q, req[q].email)'
    BY <2>1, <1>2 DEF EmailPending
  <2>4. ASSUME req[q].kind = "Complete"
        PROVE  Redeemable(q)'
    <3>1. CASE UNCHANGED <<challenge, link>>
      BY <3>1, <2>1, <2>4, <1>2 DEF Redeemable
    <3>2. CASE Registering(r)
      <4>1. req[q].email # e
        BY <3>2, <2>4, <1>1 DEF Locked, Registering
      <4>2. link'[req[q].link] = link[req[q].link]
        BY <4>1, <1>3, <2>4
      <4>3. challenge'[link[req[q].link].challenge] = challenge[link[req[q].link].challenge]
        BY <4>1, <1>3, <2>4
      <4> QED
        BY <4>2, <4>3, <2>1, <2>4, <1>2 DEF Redeemable
    <3> QED
      BY <3>1, <3>2
  <2> QED
    BY <2>2, <2>3, <2>4
<1> QED
  BY <1>4, <1>5, <1>6

\* A link for a challenge that is open.
LEMMA NewLinkStep ==
    ASSUME RegInv, NEW r \in Requests, Done(r), UNCHANGED <<account, challenge>>,
           req[r].pc = "locked", req[r].kind = "Request",
           NEW c \in req[r].open, NEW l \in NewLink,
           link' = [link EXCEPT ![l] = [challenge |-> c, used |-> None]]
    PROVE  /\ RegTypeOK'
           /\ \A q \in Requests : Shape(q)' /\ Locked(q)' /\ Inserted(q)'
           /\ (Referential /\ OneLink /\ OneOpenChallenge)'
<1>1. /\ RegTypeOK /\ Shape(r) /\ Locked(r) /\ Referential /\ OneLink /\ OneOpenChallenge
      /\ Registering(r) /\ l \in Links /\ link[l] = NoLink
  BY DEF RegInv, NewLink, Registering
<1>2. c \in Challenges /\ challenge[c].st = "ACTIVE"
  BY <1>1 DEF Locked, OpenChallenges
<1>3. req' = [req EXCEPT ![r] = Idle] /\ salt' = salt /\ clock' = clock
  BY DEF Done
<1>4. /\ link'[l] = [challenge |-> c, used |-> None]
      /\ \A k \in Links : k # l => link'[k] = link[k]
  BY <1>1 DEF RegTypeOK
<1>5. link'[l] # NoLink /\ link'[l].challenge = c /\ link'[l].used = None
  <2>1. c # None
    BY <1>2, RegistrationSentinel, RegistrationIds
  <2> QED
    BY <1>4, <2>1 DEF NoLink
<1>6. RegTypeOK'
  BY <1>1, <1>2, <1>3, IdleIsRequest DEF RegTypeOK, LinkRow
<1>7. req[r].email \in Emails
  BY <1>1 DEF Shape
<1>8. \A q \in Requests : Shape(q)' /\ Locked(q)' /\ Inserted(q)'
  <2>1. \A k \in Links : link[k] # NoLink => link'[k] = link[k]
    BY <1>1, <1>4
  <2>2. \A d \in Challenges : challenge'[d] = challenge[d]
    OBVIOUS
  <2> QED
    BY <1>1, <1>3, <1>7, <2>1, <2>2, OneAddressChanges
<1>9. Referential'
  BY <1>1, <1>2, <1>4, <1>5 DEF Referential, NoChallenge
<1>10. OneLink'
  <2>1. \A k \in Links : link'[k].used # None => k # l /\ link'[k] = link[k]
    BY <1>4, <1>5
  <2>2. \A k \in Links : link[k].used # None => k # l /\ link'[k] = link[k]
    BY <1>1, <1>4 DEF NoLink
  <2> QED
    BY <1>1, <2>1, <2>2 DEF OneLink
<1>11. OneOpenChallenge'
  BY <1>1 DEF OneOpenChallenge
<1> QED
  BY <1>6, <1>8, <1>9, <1>10, <1>11

\* A registration request replaces the open challenge of its address by a new
\* one and a link for it, row by row.
LEMMA ReplacedChallenge ==
    ASSUME RegInv, NEW r \in Requests, Done(r), UNCHANGED account,
           req[r].pc = "locked", req[r].kind = "Request",
           NEW c \in Challenges, NEW l \in Links,
           link[l] = NoLink, challenge[c] = NoChallenge,
           link'[l] # NoLink, link'[l].challenge = c, link'[l].used = None,
           \A k \in Links : k # l => link'[k] = link[k],
           challenge'[c].st = "ACTIVE", challenge'[c].email = req[r].email,
           \A b \in Challenges : b # c =>
              /\ challenge'[b].email = challenge[b].email
              /\ challenge'[b].st = "COMPLETED" <=> challenge[b].st = "COMPLETED"
              /\ challenge'[b].st = "ACTIVE" <=>
                    (challenge[b].st = "ACTIVE" /\ challenge[b].email # req[r].email)
              /\ challenge[b].email # req[r].email => challenge'[b] = challenge[b]
              /\ challenge[b] = NoChallenge <=> challenge'[b] = NoChallenge
    PROVE  /\ \A q \in Requests : Shape(q)' /\ Locked(q)' /\ Inserted(q)'
           /\ (Referential /\ OneLink /\ OneOpenChallenge)'
<1>1. /\ RegTypeOK /\ Shape(r) /\ Locked(r) /\ Referential /\ OneLink /\ OneOpenChallenge
      /\ Registering(r)
  BY DEF RegInv, Registering
<1>2. req' = [req EXCEPT ![r] = Idle]
  BY DEF Done
<1>3. PICK e \in Emails : e = req[r].email
  BY <1>1 DEF Shape
<1>4. \A q \in Requests : Shape(q)' /\ Locked(q)' /\ Inserted(q)'
  <2>1. \A k \in Links : link[k] # NoLink =>
            /\ link'[k] # NoLink /\ link'[k].challenge = link[k].challenge
            /\ challenge[link[k].challenge].email # e => link'[k] = link[k]
    OBVIOUS
  <2>2. \A b \in Challenges :
            /\ challenge[b] # NoChallenge =>
                 challenge'[b].email = challenge[b].email
            /\ challenge[b] # NoChallenge /\ challenge[b].email # e =>
                 challenge'[b] = challenge[b]
            /\ challenge[b] = NoChallenge =>
                 challenge'[b] = NoChallenge \/ challenge'[b].email = e
    BY <1>3
  <2>3. account' = account \/ (req[r].pc = "inserted"
              /\ \A d \in Emails : d # e => account'[d] = account[d])
    OBVIOUS
  <2>4. Registering(r) \/ UNCHANGED <<challenge, link>>
    BY <1>1
  <2> QED
    BY <1>2, <1>3, <2>1, <2>2, <2>3, <2>4, OneAddressChanges
<1>5. \A k \in Links : link[k] # NoLink =>
            link[k].challenge \in Challenges /\ link[k].challenge # c
  BY <1>1, RowTypes DEF Referential
<1>6. Referential'
  <2>1. challenge'[c] # NoChallenge
    BY DEF NoChallenge
  <2> QED
    BY <1>1, <1>5, <2>1 DEF Referential
<1>7. OneLink'
  <2>1. \A k \in Links : link'[k].used # None =>
            k # l /\ link'[k] = link[k] /\ link[k] # NoLink
    BY <1>1, RowTypes
  <2>2. \A k \in Links : link[k].used # None =>
            k # l /\ link'[k] = link[k] /\ link[k] # NoLink
    BY <1>1, RowTypes DEF NoLink
  <2>3. \A b \in Challenges : challenge'[b].st = "COMPLETED" =>
            b # c /\ challenge[b].st = "COMPLETED" /\ challenge'[b].email = challenge[b].email
    OBVIOUS
  <2>4. \A b \in Challenges : challenge'[b].st = "COMPLETED" =>
            account'[challenge'[b].email].origin = "link"
    BY <1>1, <2>3 DEF OneLink
  <2>5. \A b, d \in Challenges :
            challenge'[b].st = "COMPLETED" /\ challenge'[d].st = "COMPLETED"
            /\ challenge'[b].email = challenge'[d].email => b = d
    BY <1>1, <2>3 DEF OneLink
  <2>6. \A k \in Links : link'[k].used # None =>
            challenge'[link'[k].challenge].st = "COMPLETED"
    BY <1>1, <2>1, <1>5 DEF OneLink
  <2>7. \A k, j \in Links :
            link'[k].used # None /\ link'[j].used # None
            /\ link'[k].challenge = link'[j].challenge => k = j
    BY <1>1, <2>1 DEF OneLink
  <2>8. ASSUME NEW f \in Emails, account'[f].origin = "link"
        PROVE  \E k \in Links : link'[k].used # None
                                /\ challenge'[link'[k].challenge].email = f
    <3>1. PICK k \in Links : link[k].used # None /\ challenge[link[k].challenge].email = f
      BY <1>1, <2>8 DEF OneLink
    <3> QED
      BY <3>1, <2>2, <1>5
  <2> QED
    BY <2>4, <2>5, <2>6, <2>7, <2>8 DEF OneLink
<1>8. OneOpenChallenge'
  BY <1>1 DEF OneOpenChallenge
<1> QED
  BY <1>4, <1>6, <1>7, <1>8

\* A link for a new challenge; the one it replaces is past its deadline.
LEMMA NewChallengeStep ==
    ASSUME RegInv, NEW r \in Requests, Done(r), UNCHANGED account,
           req[r].pc = "locked", req[r].kind = "Request",
           NEW c \in NewChallenge, NEW l \in NewLink,
           challenge' = [b \in Challenges |->
                            IF b = c THEN [st |-> "ACTIVE", email |-> req[r].email,
                                           expires |-> Deadline(req[r].at)]
                            ELSE IF b \in req[r].open
                                 THEN [challenge[b] EXCEPT !.st = "EXPIRED"]
                                 ELSE challenge[b]],
           link' = [link EXCEPT ![l] = [challenge |-> c, used |-> None]]
    PROVE  /\ RegTypeOK'
           /\ \A q \in Requests : Shape(q)' /\ Locked(q)' /\ Inserted(q)'
           /\ (Referential /\ OneLink /\ OneOpenChallenge)'
<1>1. /\ RegTypeOK /\ Shape(r) /\ Locked(r) /\ Referential /\ OneLink /\ OneOpenChallenge
      /\ Registering(r) /\ l \in Links /\ link[l] = NoLink
      /\ c \in Challenges /\ challenge[c] = NoChallenge
  BY DEF RegInv, NewLink, NewChallenge, Registering
<1>2. req' = [req EXCEPT ![r] = Idle] /\ salt' = salt /\ clock' = clock
  BY DEF Done
<1>3. req[r].email \in Emails /\ req[r].at \in Time
  BY <1>1 DEF Shape, RegTypeOK, Request
<1>4. Deadline(req[r].at) \in Time
  BY <1>3, RegistrationLifetime DEF Deadline, Time
<1>5. /\ link'[l] = [challenge |-> c, used |-> None]
      /\ \A k \in Links : k # l => link'[k] = link[k]
  BY <1>1 DEF RegTypeOK
<1>6. link'[l] # NoLink /\ link'[l].challenge = c /\ link'[l].used = None
  <2>1. c # None
    BY <1>1, RegistrationSentinel, RegistrationIds
  <2> QED
    BY <1>5, <2>1 DEF NoLink
<1>7. req[r].open = {b \in Challenges : challenge[b].st = "ACTIVE" /\ challenge[b].email = req[r].email}
  BY <1>1 DEF Locked, OpenChallenges
<1>8. \A b \in req[r].open : challenge[b] \in [st : {"ACTIVE", "EXPIRED", "COMPLETED"},
                                               email : Emails, expires : Time]
  BY <1>7, <1>1, RowTypes
<1>9. \A b \in req[r].open : /\ [challenge[b] EXCEPT !.st = "EXPIRED"] \in
                                  [st : {"ACTIVE", "EXPIRED", "COMPLETED"},
                                   email : Emails, expires : Time]
                             /\ [challenge[b] EXCEPT !.st = "EXPIRED"].st = "EXPIRED"
                             /\ [challenge[b] EXCEPT !.st = "EXPIRED"].email = challenge[b].email
  BY <1>8
<1>10. challenge'[c].st = "ACTIVE" /\ challenge'[c].email = req[r].email
  BY <1>1
<1>11. ASSUME NEW b \in Challenges, b # c
       PROVE  /\ challenge'[b].email = challenge[b].email
              /\ challenge'[b].st = "COMPLETED" <=> challenge[b].st = "COMPLETED"
              /\ challenge'[b].st = "ACTIVE" <=>
                    (challenge[b].st = "ACTIVE" /\ challenge[b].email # req[r].email)
              /\ b \notin req[r].open => challenge'[b] = challenge[b]
              /\ challenge[b].email # req[r].email => challenge'[b] = challenge[b]
              /\ challenge[b] = NoChallenge <=> challenge'[b] = NoChallenge
  <2>1. CASE b \in req[r].open
    <3>1. challenge'[b] = [challenge[b] EXCEPT !.st = "EXPIRED"]
      BY <2>1, <1>11
    <3>2. challenge'[b].st = "EXPIRED" /\ challenge'[b].email = challenge[b].email
      BY <3>1, <2>1, <1>9
    <3> QED
      BY <3>2, <2>1, <1>7 DEF NoChallenge
  <2>2. CASE b \notin req[r].open
    <3>1. challenge'[b] = challenge[b]
      BY <2>2, <1>11
    <3> QED
      BY <3>1, <2>2, <1>7
  <2> QED
    BY <2>1, <2>2
<1>12. RegTypeOK'
  <2>1. ASSUME NEW b \in Challenges PROVE challenge'[b] \in ChallengeRow
    <3>1. CASE b = c
      BY <3>1, <1>3, <1>4 DEF ChallengeRow
    <3>2. CASE b # c /\ b \in req[r].open
      <4>1. challenge'[b] = [challenge[b] EXCEPT !.st = "EXPIRED"]
        BY <3>2
      <4> QED
        BY <4>1, <3>2, <1>9 DEF ChallengeRow
    <3>3. CASE b # c /\ b \notin req[r].open
      BY <3>3, <1>1, <1>11 DEF RegTypeOK
    <3> QED
      BY <3>1, <3>2, <3>3
  <2>2. challenge' \in [Challenges -> ChallengeRow]
    BY <2>1
  <2>3. link' \in [Links -> LinkRow]
    BY <1>1 DEF RegTypeOK, LinkRow
  <2>4. req' \in [Requests -> Request]
    BY <1>1, <1>2, IdleIsRequest DEF RegTypeOK
  <2> QED
    BY <2>2, <2>3, <2>4, <1>1, <1>2 DEF RegTypeOK
<1>13. \A b \in Challenges : b # c =>
              /\ challenge'[b].email = challenge[b].email
              /\ challenge'[b].st = "COMPLETED" <=> challenge[b].st = "COMPLETED"
              /\ challenge'[b].st = "ACTIVE" <=>
                    (challenge[b].st = "ACTIVE" /\ challenge[b].email # req[r].email)
              /\ challenge[b].email # req[r].email => challenge'[b] = challenge[b]
              /\ challenge[b] = NoChallenge <=> challenge'[b] = NoChallenge
  BY <1>11
<1>14. /\ \A q \in Requests : Shape(q)' /\ Locked(q)' /\ Inserted(q)'
       /\ (Referential /\ OneLink /\ OneOpenChallenge)'
  BY <1>1, <1>5, <1>6, <1>10, <1>13, ReplacedChallenge
<1> QED
  BY <1>12, <1>14

\* The link is redeemed: no other link of the address was, since it had no
\* account.
LEMMA CommitRegistrationStep ==
    ASSUME RegInv, NEW r \in Requests, CommitRegistration(r)
    PROVE  /\ RegTypeOK'
           /\ \A q \in Requests : Shape(q)' /\ Locked(q)' /\ Inserted(q)'
           /\ (Referential /\ OneLink /\ OneOpenChallenge)'
<1>1. /\ RegTypeOK /\ Shape(r) /\ Locked(r) /\ Inserted(r) /\ Referential
      /\ OneLink /\ OneOpenChallenge
      /\ req[r].pc = "inserted" /\ req[r].kind = "Complete" /\ Registering(r)
  BY DEF RegInv, CommitRegistration, Registering
<1>2. req' = [req EXCEPT ![r] = Idle] /\ salt' = salt /\ clock' = clock
  BY DEF CommitRegistration, Done
<1>3. PICK e \in Emails : e = req[r].email
  BY <1>1 DEF Shape
<1>4. PICK l \in Links : l = req[r].link /\ link[l] # NoLink
  BY <1>1 DEF Shape
<1>5. PICK c \in Challenges : c = link[l].challenge /\ challenge[c].email = e
  BY <1>1, <1>3, <1>4, RowTypes DEF Shape
<1>6. /\ account[e] = NoAccount /\ challenge[c].st = "ACTIVE" /\ link[l].used = None
      /\ req[r].pw \in Passwords /\ req[r].salt \in Nat \ {0} /\ req[r].at \in Time
  BY <1>1, <1>3, <1>4, <1>5 DEF Inserted, Redeemable, Shape, RegTypeOK, Request
<1>7. challenge[c] # NoChallenge
  BY <1>6 DEF NoChallenge
<1>8. PICK row : row = [origin |-> "link", role |-> "USER", status |-> "ACTIVE",
                        salt |-> req[r].salt, pw |-> req[r].pw, session |-> TRUE]
  OBVIOUS
<1>9. row \in AccountRow /\ row.origin = "link"
  BY <1>6, <1>8 DEF AccountRow, Roles, Statuses
<1>10. account' = [account EXCEPT ![e] = row]
  BY <1>3, <1>8 DEF CommitRegistration
<1>11. /\ account'[e] = row
       /\ \A d \in Emails : d # e => account'[d] = account[d]
  BY <1>10, <1>1 DEF RegTypeOK
<1>12. PICK done : done = [challenge[c] EXCEPT !.st = "COMPLETED"]
  OBVIOUS
<1>13. challenge[c] \in [st : {"ACTIVE", "EXPIRED", "COMPLETED"}, email : Emails, expires : Time]
  BY <1>1, <1>7, RowTypes
<1>14. /\ done \in [st : {"ACTIVE", "EXPIRED", "COMPLETED"}, email : Emails, expires : Time]
       /\ done.st = "COMPLETED" /\ done.email = e
  BY <1>5, <1>12, <1>13
<1>15. challenge' = [challenge EXCEPT ![c] = done]
  BY <1>4, <1>5, <1>12, <1>1 DEF CommitRegistration, RegTypeOK
<1>16. /\ challenge'[c] = done /\ done # NoChallenge
       /\ \A b \in Challenges : b # c => challenge'[b] = challenge[b]
  BY <1>1, <1>14, <1>15 DEF RegTypeOK, NoChallenge
<1>17. PICK spent : spent = [link[l] EXCEPT !.used = req[r].at]
  OBVIOUS
<1>18. link[l] \in [challenge : Challenges, used : Time \cup {None}]
  BY <1>1, <1>4, RowTypes
<1>19. req[r].at # None /\ c # None
  BY <1>6, RegistrationSentinel, RegistrationIds DEF Time
<1>20. /\ spent \in [challenge : Challenges, used : Time \cup {None}]
       /\ spent.challenge = c /\ spent.used # None /\ spent # NoLink
  BY <1>5, <1>6, <1>17, <1>18, <1>19 DEF NoLink
<1>21. link' = [link EXCEPT ![l] = spent]
  BY <1>4, <1>17, <1>1 DEF CommitRegistration, RegTypeOK
<1>22. /\ link'[l] = spent
       /\ \A k \in Links : k # l => link'[k] = link[k]
  BY <1>1, <1>21 DEF RegTypeOK
<1>23. RegTypeOK'
  <2>1. account' \in [Emails -> AccountRow]
    BY <1>1, <1>9, <1>10 DEF RegTypeOK
  <2>2. challenge' \in [Challenges -> ChallengeRow]
    BY <1>1, <1>14, <1>15 DEF RegTypeOK, ChallengeRow
  <2>3. link' \in [Links -> LinkRow]
    BY <1>1, <1>20, <1>21 DEF RegTypeOK, LinkRow
  <2> QED
    BY <2>1, <2>2, <2>3, <1>1, <1>2, IdleIsRequest DEF RegTypeOK
<1>24. \A q \in Requests : Shape(q)' /\ Locked(q)' /\ Inserted(q)'
  <2>1. \A k \in Links : link[k] # NoLink =>
            /\ link'[k] # NoLink /\ link'[k].challenge = link[k].challenge
            /\ challenge[link[k].challenge].email # e => link'[k] = link[k]
    BY <1>5, <1>20, <1>22
  <2>2. \A b \in Challenges :
            /\ challenge[b] # NoChallenge =>
                 challenge'[b].email = challenge[b].email
            /\ challenge[b] # NoChallenge /\ challenge[b].email # e =>
                 challenge'[b] = challenge[b]
            /\ challenge[b] = NoChallenge =>
                 challenge'[b] = NoChallenge \/ challenge'[b].email = e
    BY <1>5, <1>7, <1>14, <1>16
  <2>3. account' = account \/ (req[r].pc = "inserted"
              /\ \A d \in Emails : d # e => account'[d] = account[d])
    BY <1>1, <1>11
  <2>4. Registering(r) \/ UNCHANGED <<challenge, link>>
    BY <1>1
  <2> QED
    BY <1>2, <1>3, <2>1, <2>2, <2>3, <2>4, OneAddressChanges
<1>25. Referential'
  <2>1. \A k \in Links : link[k] # NoLink => link[k].challenge \in Challenges
    BY <1>1, RowTypes
  <2> QED
    BY <2>1, <1>1, <1>16, <1>20, <1>22 DEF Referential
<1>26. \A b \in Challenges : challenge[b].email = e => challenge[b].st # "COMPLETED"
  BY <1>1, <1>6 DEF OneLink, NoAccount
<1>27. \A k \in Links : link[k].used # None =>
            /\ k # l /\ link'[k] = link[k] /\ link[k].challenge \in Challenges
            /\ link[k].challenge # c
  BY <1>1, <1>5, <1>6, <1>22, <1>26, RowTypes DEF OneLink
<1>28. OneLink'
  <2>1. \A b \in Challenges : challenge'[b].st = "COMPLETED" =>
            account'[challenge'[b].email].origin = "link"
    <3> SUFFICES ASSUME NEW b \in Challenges, challenge'[b].st = "COMPLETED"
                 PROVE  account'[challenge'[b].email].origin = "link"
      OBVIOUS
    <3>1. CASE b = c
      BY <3>1, <1>9, <1>11, <1>14, <1>16
    <3>2. CASE b # c
      <4>1. challenge'[b] = challenge[b] /\ challenge[b].st = "COMPLETED"
        BY <3>2, <1>16
      <4>2. challenge[b].email \in Emails /\ challenge[b].email # e
        BY <4>1, <1>1, <1>26, RowTypes DEF NoChallenge
      <4> QED
        BY <4>1, <4>2, <1>1, <1>11 DEF OneLink
    <3> QED
      BY <3>1, <3>2
  <2>2. \A b, d \in Challenges :
            challenge'[b].st = "COMPLETED" /\ challenge'[d].st = "COMPLETED"
            /\ challenge'[b].email = challenge'[d].email => b = d
    BY <1>1, <1>14, <1>16, <1>26 DEF OneLink
  <2>3. \A k \in Links : link'[k].used # None =>
            challenge'[link'[k].challenge].st = "COMPLETED"
    BY <1>1, <1>14, <1>16, <1>20, <1>22, <1>27 DEF OneLink
  <2>4. \A k, j \in Links :
            link'[k].used # None /\ link'[j].used # None
            /\ link'[k].challenge = link'[j].challenge => k = j
    BY <1>1, <1>20, <1>22, <1>27 DEF OneLink
  <2>5. ASSUME NEW d \in Emails, account'[d].origin = "link"
        PROVE  \E k \in Links : link'[k].used # None
                                /\ challenge'[link'[k].challenge].email = d
    <3>1. CASE d = e
      BY <3>1, <1>14, <1>16, <1>20, <1>22
    <3>2. CASE d # e
      <4>1. account[d].origin = "link"
        BY <2>5, <3>2, <1>11
      <4>2. PICK k \in Links : link[k].used # None /\ challenge[link[k].challenge].email = d
        BY <4>1, <1>1 DEF OneLink
      <4> QED
        BY <4>2, <1>16, <1>27
    <3> QED
      BY <3>1, <3>2
  <2> QED
    BY <2>1, <2>2, <2>3, <2>4, <2>5 DEF OneLink
<1>29. OneOpenChallenge'
  BY <1>1, <1>14, <1>16 DEF OneOpenChallenge
<1> QED
  BY <1>23, <1>24, <1>25, <1>28, <1>29

\* An account that no link made: there was no account, so no link of the
\* address was redeemed.
LEMMA CommitSuperAdminStep ==
    ASSUME RegInv, NEW r \in Requests, CommitSuperAdmin(r)
    PROVE  /\ RegTypeOK'
           /\ \A q \in Requests : Shape(q)' /\ Locked(q)' /\ Inserted(q)'
           /\ (Referential /\ OneLink /\ OneOpenChallenge)'
<1>1. /\ RegTypeOK /\ Shape(r) /\ Inserted(r) /\ Referential
      /\ OneLink /\ OneOpenChallenge
      /\ req[r].pc = "inserted" /\ req[r].kind = "Bootstrap"
  BY DEF RegInv, CommitSuperAdmin
<1>2. /\ req' = [req EXCEPT ![r] = Idle] /\ salt' = salt /\ clock' = clock
      /\ challenge' = challenge /\ link' = link
  BY DEF CommitSuperAdmin, Done
<1>3. PICK e \in Emails : e = req[r].email
  BY <1>1 DEF Shape
<1>4. /\ account[e] = NoAccount
      /\ req[r].pw \in Passwords /\ req[r].salt \in Nat \ {0}
  BY <1>1, <1>3 DEF Inserted, Shape, RegTypeOK, Request
<1>5. PICK row : row = [origin |-> "bootstrap", role |-> "SUPER_ADMIN", status |-> "ACTIVE",
                        salt |-> req[r].salt, pw |-> req[r].pw, session |-> FALSE]
  OBVIOUS
<1>6. row \in AccountRow /\ row.origin = "bootstrap"
  BY <1>4, <1>5 DEF AccountRow, Roles, Statuses
<1>7. account' = [account EXCEPT ![e] = row]
  BY <1>3, <1>5 DEF CommitSuperAdmin
<1>8. /\ account'[e] = row
      /\ \A d \in Emails : d # e => account'[d] = account[d]
  BY <1>7, <1>1 DEF RegTypeOK
<1>9. RegTypeOK'
  BY <1>1, <1>2, <1>6, <1>7, IdleIsRequest DEF RegTypeOK
<1>10. \A q \in Requests : Shape(q)' /\ Locked(q)' /\ Inserted(q)'
  <2>1. \A k \in Links : link[k] # NoLink =>
            /\ link'[k] # NoLink /\ link'[k].challenge = link[k].challenge
            /\ challenge[link[k].challenge].email # e => link'[k] = link[k]
    BY <1>2
  <2>2. \A b \in Challenges :
            /\ challenge[b] # NoChallenge =>
                 challenge'[b].email = challenge[b].email
            /\ challenge[b] # NoChallenge /\ challenge[b].email # e =>
                 challenge'[b] = challenge[b]
            /\ challenge[b] = NoChallenge =>
                 challenge'[b] = NoChallenge \/ challenge'[b].email = e
    BY <1>2
  <2>3. account' = account \/ (req[r].pc = "inserted"
              /\ \A d \in Emails : d # e => account'[d] = account[d])
    BY <1>1, <1>8
  <2>4. Registering(r) \/ UNCHANGED <<challenge, link>>
    BY <1>2
  <2> QED
    BY <1>2, <1>3, <2>1, <2>2, <2>3, <2>4, OneAddressChanges
<1>11. \A d \in Emails : account'[d].origin = "link" <=> account[d].origin = "link"
  BY <1>4, <1>6, <1>8 DEF NoAccount
<1>12. \A b \in Challenges : challenge[b].st = "COMPLETED" => challenge[b].email \in Emails
  BY <1>1, RowTypes DEF NoChallenge
<1>13. OneLink'
  BY <1>1, <1>2, <1>11, <1>12 DEF OneLink
<1>14. Referential' /\ OneOpenChallenge'
  BY <1>1, <1>2 DEF Referential, OneOpenChallenge
<1> QED
  BY <1>9, <1>10, <1>13, <1>14

\* Later changes keep the row and where it came from.
LEMMA ChangeAccountStep ==
    ASSUME RegInv, NEW e \in Emails, ChangeAccount(e)
    PROVE  /\ RegTypeOK'
           /\ \A q \in Requests : Shape(q)' /\ Locked(q)' /\ Inserted(q)'
           /\ (Referential /\ OneLink /\ OneOpenChallenge)'
<1>1. /\ RegTypeOK /\ Referential /\ OneLink /\ OneOpenChallenge
      /\ \A q \in Requests : Shape(q) /\ Locked(q) /\ Inserted(q)
      /\ account[e] # NoAccount /\ UNCHANGED <<challenge, link, clock, req>>
  BY DEF RegInv, ChangeAccount
<1>2. account[e] \in [origin : {"link", "bootstrap"}, role : Roles, status : Statuses,
                      salt : Nat \ {0}, pw : Passwords, session : BOOLEAN]
  BY <1>1, RowTypes
<1>3. (salt' \in Nat /\ salt' # 0) \/ salt' = salt
  BY <1>1 DEF ChangeAccount, Hashed, RegTypeOK
<1>4. PICK row \in [origin : {"link", "bootstrap"}, role : Roles, status : Statuses,
                    salt : Nat \ {0}, pw : Passwords, session : BOOLEAN] :
        account' = [account EXCEPT ![e] = row] /\ row.origin = account[e].origin
  <2>1. CASE \E role \in Roles \ {account[e].role} : account' = [account EXCEPT ![e].role = role]
    <3>1. PICK role \in Roles : account' = [account EXCEPT ![e].role = role]
      BY <2>1
    <3>2. PICK row : row = [account[e] EXCEPT !.role = role]
      OBVIOUS
    <3>3. /\ row \in [origin : {"link", "bootstrap"}, role : Roles, status : Statuses,
                      salt : Nat \ {0}, pw : Passwords, session : BOOLEAN]
          /\ row.origin = account[e].origin
      BY <3>2, <1>2
    <3>4. account' = [account EXCEPT ![e] = row]
      BY <3>1, <3>2, <1>1 DEF RegTypeOK
    <3> QED
      BY <3>3, <3>4
  <2>2. CASE \E status \in Statuses \ {account[e].status} :
                account' = [account EXCEPT ![e].status = status]
    <3>1. PICK status \in Statuses : account' = [account EXCEPT ![e].status = status]
      BY <2>2
    <3>2. PICK row : row = [account[e] EXCEPT !.status = status]
      OBVIOUS
    <3>3. /\ row \in [origin : {"link", "bootstrap"}, role : Roles, status : Statuses,
                      salt : Nat \ {0}, pw : Passwords, session : BOOLEAN]
          /\ row.origin = account[e].origin
      BY <3>2, <1>2
    <3>4. account' = [account EXCEPT ![e] = row]
      BY <3>1, <3>2, <1>1 DEF RegTypeOK
    <3> QED
      BY <3>3, <3>4
  <2>3. CASE Hashed /\ \E pw \in Passwords :
                account' = [account EXCEPT ![e].pw = pw, ![e].salt = salt']
    <3>1. PICK pw \in Passwords : account' = [account EXCEPT ![e].pw = pw, ![e].salt = salt']
      BY <2>3
    <3>2. PICK row : row = [account[e] EXCEPT !.pw = pw, !.salt = salt']
      OBVIOUS
    <3>3. salt' \in Nat \ {0}
      BY <2>3, <1>1 DEF Hashed, RegTypeOK
    <3>4. /\ row \in [origin : {"link", "bootstrap"}, role : Roles, status : Statuses,
                      salt : Nat \ {0}, pw : Passwords, session : BOOLEAN]
          /\ row.origin = account[e].origin
      BY <3>2, <3>3, <1>2
    <3>5. account' = [account EXCEPT ![e] = row]
      BY <3>1, <3>2, <1>1 DEF RegTypeOK
    <3> QED
      BY <3>4, <3>5
  <2> QED
    BY <2>1, <2>2, <2>3 DEF ChangeAccount
<1>5. RegTypeOK'
  BY <1>1, <1>3, <1>4 DEF RegTypeOK, AccountRow
<1>6. \A d \in Emails : /\ account'[d].origin = account[d].origin
                        /\ account[d] = NoAccount => account'[d] = NoAccount
  BY <1>1, <1>4 DEF RegTypeOK
<1>7. \A q \in Requests : Shape(q)' /\ Locked(q)' /\ Inserted(q)'
  <2> TAKE q \in Requests
  <2>1. Shape(q)' /\ Locked(q)'
    BY <1>1 DEF Shape, Locked, Registering, OpenChallenges
  <2>2. req[q].pc = "inserted" => req[q].email \in Emails
    BY <1>1 DEF Shape
  <2>3. Inserted(q)'
    BY <1>1, <1>6, <2>2 DEF Inserted, Redeemable, EmailPending
  <2> QED
    BY <2>1, <2>3
<1>8. \A b \in Challenges : challenge[b].st = "COMPLETED" => challenge[b].email \in Emails
  BY <1>1, RowTypes DEF NoChallenge
<1>9. OneLink'
  BY <1>1, <1>6, <1>8 DEF OneLink
<1>10. Referential' /\ OneOpenChallenge'
  BY <1>1 DEF Referential, OneOpenChallenge
<1> QED
  BY <1>5, <1>7, <1>9, <1>10

-----------------------------------------------------------------------------
(***************************************************************************)
(* Every step.                                                             *)
(***************************************************************************)

\* The invariant but for the salts: a step of one request.
LEMMA RequestStep ==
    ASSUME RegInv, NEW r \in Requests, Step(r)
    PROVE  /\ RegTypeOK'
           /\ \A q \in Requests : Shape(q)' /\ Locked(q)' /\ Inserted(q)'
           /\ (Referential /\ OneLink /\ OneOpenChallenge)'
<1>1. RegTypeOK /\ Shape(r) /\ Referential /\ req[r] \in Request
  BY DEF RegInv, RegTypeOK
<1>2. /\ Idle.seen = NoAccount /\ Idle.link = None /\ Idle.open = {} /\ Idle.at = 0
      /\ Idle.pw = None /\ Idle.salt = 0
  BY DEF Idle
<1>3. ASSUME NEW e \in Emails, AcceptRequest(r, e)
      PROVE  /\ RegTypeOK'
             /\ \A q \in Requests : Shape(q)' /\ Locked(q)' /\ Inserted(q)'
             /\ (Referential /\ OneLink /\ OneOpenChallenge)'
  <2>1. PICK request : request = [Idle EXCEPT !.pc = "ready", !.kind = "Request", !.email = e]
    OBVIOUS
  <2>2. /\ request \in Request /\ request.pc = "ready" /\ request.kind = "Request"
        /\ request.email = e
    BY <2>1, IdleIsRequest DEF Request, Kinds
  <2>3. Enter(r, request) /\ salt' = salt
    BY <1>3, <2>1 DEF AcceptRequest
  <2>4. RegTypeOK'
    BY <1>1, <2>2, <2>3 DEF RegTypeOK, Enter, store
  <2>5. \A q \in Requests : Shape(q)' /\ Locked(q)' /\ Inserted(q)'
    BY <2>2, <2>3, EnterStep
  <2> QED
    BY <2>3, <2>4, <2>5, StoreUnchanged DEF Enter
<1>4. ASSUME NEW l \in Links, NEW pw \in Passwords, AcceptComplete(r, l, pw)
      PROVE  /\ RegTypeOK'
             /\ \A q \in Requests : Shape(q)' /\ Locked(q)' /\ Inserted(q)'
             /\ (Referential /\ OneLink /\ OneOpenChallenge)'
  <2>1. PICK e \in Emails : e = challenge[link[l].challenge].email
    BY <1>4, RegistrationIds DEF AcceptComplete
  <2>2. PICK request : request = [Idle EXCEPT !.pc = "ready", !.kind = "Complete",
                                     !.email = e, !.link = l, !.pw = pw, !.salt = salt + 1]
    OBVIOUS
  <2>3. salt + 1 \in Nat \ {0} /\ salt' = salt + 1
    BY <1>1, <1>4 DEF RegTypeOK, AcceptComplete, Hashed
  <2>4. /\ request \in Request /\ request.pc = "ready" /\ request.kind = "Complete"
        /\ request.email = e /\ request.link = l /\ request.pw = pw
        /\ request.salt = salt + 1
    BY <2>2, <2>3, IdleIsRequest DEF Request, Kinds
  <2>5. Enter(r, request) /\ link[l] # NoLink
    BY <1>4, <2>1, <2>2 DEF AcceptComplete
  <2>6. RegTypeOK'
    BY <1>1, <2>3, <2>4, <2>5 DEF RegTypeOK, Enter, store
  <2>7. \A q \in Requests : Shape(q)' /\ Locked(q)' /\ Inserted(q)'
    BY <2>1, <2>3, <2>4, <2>5, EnterStep
  <2> QED
    BY <2>5, <2>6, <2>7, StoreUnchanged DEF Enter
<1>5. ASSUME NEW e \in Emails, NEW pw \in Passwords, StartBootstrap(r, e, pw)
      PROVE  /\ RegTypeOK'
             /\ \A q \in Requests : Shape(q)' /\ Locked(q)' /\ Inserted(q)'
             /\ (Referential /\ OneLink /\ OneOpenChallenge)'
  <2>1. CASE account[e] = NoAccount
    <3>1. PICK request : request = [Idle EXCEPT !.pc = "ready", !.kind = "Bootstrap",
                                       !.email = e, !.pw = pw, !.salt = salt + 1]
      OBVIOUS
    <3>2. Enter(r, request) /\ Hashed
      BY <1>5, <2>1, <3>1 DEF StartBootstrap
    <3>3. salt + 1 \in Nat \ {0} /\ salt' = salt + 1
      BY <1>1, <3>2 DEF RegTypeOK, Hashed
    <3>4. /\ request \in Request /\ request.pc = "ready" /\ request.kind = "Bootstrap"
          /\ request.email = e /\ request.pw = pw /\ request.salt = salt + 1
      BY <3>1, <3>3, IdleIsRequest DEF Request, Kinds
    <3>5. RegTypeOK'
      BY <1>1, <3>2, <3>3, <3>4 DEF RegTypeOK, Enter, store
    <3>6. \A q \in Requests : Shape(q)' /\ Locked(q)' /\ Inserted(q)'
      BY <3>2, <3>3, <3>4, EnterStep
    <3> QED
      BY <3>2, <3>5, <3>6, StoreUnchanged DEF Enter
  <2>2. CASE account[e] # NoAccount
    <3>1. PICK request : request = [Idle EXCEPT !.pc = "verified", !.kind = "Bootstrap",
                                       !.email = e, !.pw = pw, !.seen = account[e]]
      OBVIOUS
    <3>2. Enter(r, request) /\ salt' = salt
      BY <1>5, <2>2, <3>1 DEF StartBootstrap
    <3>3. account[e] \in AccountRow
      BY <1>1 DEF RegTypeOK
    <3>4. /\ request \in Request /\ request.pc = "verified" /\ request.kind = "Bootstrap"
          /\ request.email = e /\ request.pw = pw
      BY <3>1, <3>3, IdleIsRequest DEF Request, Kinds
    <3>5. RegTypeOK'
      BY <1>1, <3>2, <3>4 DEF RegTypeOK, Enter, store
    <3>6. \A q \in Requests : Shape(q)' /\ Locked(q)' /\ Inserted(q)'
      BY <3>2, <3>4, EnterStep
    <3> QED
      BY <3>2, <3>5, <3>6, StoreUnchanged DEF Enter
  <2> QED
    BY <2>1, <2>2
<1>6. ASSUME Done(r), UNCHANGED store
      PROVE  /\ RegTypeOK'
             /\ \A q \in Requests : Shape(q)' /\ Locked(q)' /\ Inserted(q)'
             /\ (Referential /\ OneLink /\ OneOpenChallenge)'
  <2>1. RegTypeOK'
    BY <1>1, <1>6, IdleIsRequest DEF RegTypeOK, Done, store
  <2> QED
    BY <2>1, <1>6, EndStep, StoreUnchanged
<1>7. CASE LockEmail(r)
  <2>1. req[r].email \in Emails
    BY <1>1, <1>7 DEF LockEmail, Shape
  <2>2. account[req[r].email] \in AccountRow /\ clock \in Time
        /\ OpenChallenges(req[r].email) \in SUBSET Challenges
    BY <1>1, <2>1 DEF RegTypeOK, OpenChallenges
  <2>3. [req[r] EXCEPT !.pc = "locked", !.seen = account[req[r].email],
            !.open = OpenChallenges(req[r].email), !.at = clock] \in Request
    BY <1>1, <2>2 DEF Request
  <2>4. RegTypeOK' /\ UNCHANGED store
    BY <1>1, <1>7, <2>3 DEF RegTypeOK, LockEmail, store
  <2> QED
    BY <2>4, <1>7, LockEmailStep, StoreUnchanged
<1>8. CASE FinishRequest(r)
  <2>1. /\ Done(r) /\ UNCHANGED account
        /\ req[r].pc = "locked" /\ req[r].kind = "Request"
    BY <1>8 DEF FinishRequest
  <2>2. CASE \E c \in {b \in req[r].open : req[r].at < challenge[b].expires}, l \in NewLink :
                /\ link' = [link EXCEPT ![l] = [challenge |-> c, used |-> None]]
                /\ UNCHANGED challenge
    <3>1. PICK c \in req[r].open, l \in NewLink :
                /\ link' = [link EXCEPT ![l] = [challenge |-> c, used |-> None]]
                /\ UNCHANGED challenge
      BY <2>2
    <3> QED
      BY <2>1, <3>1, NewLinkStep
  <2>3. CASE \E c \in NewChallenge, l \in NewLink :
                /\ challenge' =
                     [b \in Challenges |->
                        IF b = c THEN [st |-> "ACTIVE", email |-> req[r].email,
                                       expires |-> Deadline(req[r].at)]
                        ELSE IF b \in req[r].open
                             THEN [challenge[b] EXCEPT !.st = "EXPIRED"]
                             ELSE challenge[b]]
                /\ link' = [link EXCEPT ![l] = [challenge |-> c, used |-> None]]
    <3>1. PICK c \in NewChallenge, l \in NewLink :
                /\ challenge' =
                     [b \in Challenges |->
                        IF b = c THEN [st |-> "ACTIVE", email |-> req[r].email,
                                       expires |-> Deadline(req[r].at)]
                        ELSE IF b \in req[r].open
                             THEN [challenge[b] EXCEPT !.st = "EXPIRED"]
                             ELSE challenge[b]]
                /\ link' = [link EXCEPT ![l] = [challenge |-> c, used |-> None]]
      BY <2>3
    <3> QED
      BY <2>1, <3>1, NewChallengeStep, Zenon
  <2>4. CASE UNCHANGED <<challenge, link>>
    BY <2>1, <2>4, <1>6 DEF store
  <2> QED
    BY <1>8, <2>2, <2>3, <2>4 DEF FinishRequest
<1>9. CASE InsertUser(r)
  <2>1. CASE Done(r)
    BY <1>6, <1>9, <2>1 DEF InsertUser
  <2>2. CASE /\ Redeemable(r) /\ ~EmailTaken(req[r].email) /\ ~EmailPending(r, req[r].email)
             /\ req' = [req EXCEPT ![r].pc = "inserted"]
             /\ UNCHANGED <<salt, clock>>
    <3>1. [req[r] EXCEPT !.pc = "inserted"] \in Request
      BY <1>1 DEF Request
    <3>2. UNCHANGED store /\ req[r].pc = "locked" /\ req[r].kind = "Complete"
      BY <1>9 DEF InsertUser
    <3>3. RegTypeOK'
      BY <1>1, <2>2, <3>1, <3>2 DEF RegTypeOK, store
    <3> QED
      BY <2>2, <3>2, <3>3, InsertStep, StoreUnchanged
  <2> QED
    BY <1>9, <2>1, <2>2 DEF InsertUser
<1>10. CASE InsertSuperAdmin(r)
  <2>1. /\ UNCHANGED store /\ UNCHANGED <<salt, clock>>
        /\ req[r].pc = "ready" /\ req[r].kind = "Bootstrap"
        /\ ~EmailPending(r, req[r].email) /\ req[r].email \in Emails
    BY <1>1, <1>10 DEF InsertSuperAdmin, Shape
  <2>2. CASE ~EmailTaken(req[r].email) /\ req' = [req EXCEPT ![r].pc = "inserted"]
    <3>1. [req[r] EXCEPT !.pc = "inserted"] \in Request
      BY <1>1 DEF Request
    <3>2. RegTypeOK'
      BY <1>1, <2>1, <2>2, <3>1 DEF RegTypeOK, store
    <3> QED
      BY <2>1, <2>2, <3>2, InsertStep, StoreUnchanged
  <2>3. CASE req' = [req EXCEPT ![r].pc = "verified", ![r].seen = account[req[r].email]]
    <3>1. account[req[r].email] \in AccountRow
      BY <1>1, <2>1 DEF RegTypeOK
    <3>2. [req[r] EXCEPT !.pc = "verified", !.seen = account[req[r].email]] \in Request
      BY <1>1, <3>1 DEF Request
    <3>3. RegTypeOK'
      BY <1>1, <2>1, <2>3, <3>2 DEF RegTypeOK, store
    <3> QED
      BY <2>1, <2>3, <3>3, SeenStep, StoreUnchanged
  <2> QED
    BY <1>10, <2>2, <2>3 DEF InsertSuperAdmin
<1>11. CASE BootstrapNoOp(r) \/ BootstrapConflict(r) \/ Abort(r)
  BY <1>6, <1>11 DEF BootstrapNoOp, BootstrapConflict, Abort
<1> QED
  BY <1>3, <1>4, <1>5, <1>7, <1>8, <1>9, <1>10, <1>11,
     CommitRegistrationStep, CommitSuperAdminStep DEF Step

-----------------------------------------------------------------------------
(***************************************************************************)
(* Salts.                                                                  *)
(***************************************************************************)

\* Where the pairs are kept.
LEMMA SaltedPairs ==
    ASSUME RegTypeOK
    PROVE  /\ \A e \in Emails : <<account[e].salt, account[e].pw>> \in Salted
           /\ \A r \in Requests : /\ <<req[r].salt, req[r].pw>> \in Salted
                                  /\ <<req[r].seen.salt, req[r].seen.pw>> \in Salted
           /\ \A a \in Salted : a[1] \in Nat
<1>1. \A e \in Emails : account[e].salt \in Nat
  BY DEF RegTypeOK, AccountRow, NoAccount
<1>2. \A r \in Requests : req[r].salt \in Nat /\ req[r].seen \in AccountRow
  BY DEF RegTypeOK, Request
<1>3. \A r \in Requests : req[r].seen.salt \in Nat
  BY <1>2 DEF AccountRow, NoAccount
<1> QED
  BY <1>1, <1>2, <1>3 DEF Salted

\* Pairs are passed on, or made with a salt that was not used before.
LEMMA SaltsGrow ==
    ASSUME RegInv, RegTypeOK', NEW pw, salt' = salt \/ salt' = salt + 1,
           \A a \in Salted' : \/ a \in Salted
                              \/ a[1] = 0
                              \/ salt' = salt + 1 /\ a[1] = salt' /\ a[2] = pw
    PROVE  OnePasswordPerSalt'
<1>1. salt \in Nat /\ \A a \in Salted : a[1] \in Nat /\ a[1] <= salt
  BY SaltedPairs DEF RegInv, RegTypeOK, OnePasswordPerSalt
<1>2. \A a \in Salted' : a[1] <= salt'
  BY <1>1
<1>3. \A a, b \in Salted' : a[1] # 0 /\ a[1] = b[1] => a[2] = b[2]
  <2> SUFFICES ASSUME NEW a \in Salted', NEW b \in Salted', a[1] # 0, a[1] = b[1]
               PROVE  a[2] = b[2]
    OBVIOUS
  <2>1. CASE a \in Salted /\ b \in Salted
    BY <2>1 DEF RegInv, OnePasswordPerSalt
  <2>2. CASE a \notin Salted \/ b \notin Salted
    BY <2>2, <1>1
  <2> QED
    BY <2>1, <2>2
<1> QED
  BY <1>2, <1>3 DEF OnePasswordPerSalt

\* The same for a step of one request.
LEMMA RequestSalts ==
    ASSUME RegInv, RegTypeOK', NEW r \in Requests, NEW request,
           req' = [req EXCEPT ![r] = request],
           NEW pw, salt' = salt \/ salt' = salt + 1,
           \A e \in Emails : <<account'[e].salt, account'[e].pw>> \in Salted,
           \/ request.salt = 0 \/ <<request.salt, request.pw>> \in Salted
           \/ salt' = salt + 1 /\ request.salt = salt' /\ request.pw = pw,
           request.seen.salt = 0 \/ <<request.seen.salt, request.seen.pw>> \in Salted
    PROVE  OnePasswordPerSalt'
<1>1. RegTypeOK /\ req \in [Requests -> Request]
  BY DEF RegInv, RegTypeOK
<1>2. ASSUME NEW a \in Salted'
      PROVE  \/ a \in Salted
             \/ a[1] = 0
             \/ salt' = salt + 1 /\ a[1] = salt' /\ a[2] = pw
  <2>1. \/ \E e \in Emails : a = <<account'[e].salt, account'[e].pw>>
        \/ \E q \in Requests : a = <<req'[q].salt, req'[q].pw>>
        \/ \E q \in Requests : a = <<req'[q].seen.salt, req'[q].seen.pw>>
    BY <1>2 DEF Salted
  <2>2. ASSUME NEW q \in Requests, a = <<req'[q].salt, req'[q].pw>>
        PROVE  \/ a \in Salted \/ a[1] = 0
               \/ salt' = salt + 1 /\ a[1] = salt' /\ a[2] = pw
    <3>1. CASE q = r
      BY <3>1, <2>2, <1>1
    <3>2. CASE q # r
      BY <3>2, <2>2, <1>1, SaltedPairs
    <3> QED
      BY <3>1, <3>2
  <2>3. ASSUME NEW q \in Requests, a = <<req'[q].seen.salt, req'[q].seen.pw>>
        PROVE  a \in Salted \/ a[1] = 0
    <3>1. CASE q = r
      BY <3>1, <2>3, <1>1
    <3>2. CASE q # r
      BY <3>2, <2>3, <1>1, SaltedPairs
    <3> QED
      BY <3>1, <3>2
  <2> QED
    BY <2>1, <2>2, <2>3
<1> QED
  BY <1>2, SaltsGrow

LEMMA RequestSaltStep ==
    ASSUME RegInv, RegTypeOK', NEW r \in Requests, Step(r)
    PROVE  OnePasswordPerSalt'
<1>1. RegTypeOK /\ req[r] \in Request /\ req \in [Requests -> Request] /\ Shape(r)
  BY DEF RegInv, RegTypeOK
<1>2. \A e \in Emails : <<account[e].salt, account[e].pw>> \in Salted
  BY <1>1, SaltedPairs
<1>3. <<req[r].salt, req[r].pw>> \in Salted /\ <<req[r].seen.salt, req[r].seen.pw>> \in Salted
  BY <1>1, SaltedPairs
<1>4. Idle.salt = 0 /\ Idle.seen.salt = 0 /\ Idle.seen = NoAccount
  BY DEF Idle, NoAccount
<1>5. ASSUME Done(r), \A e \in Emails : <<account'[e].salt, account'[e].pw>> \in Salted
      PROVE  OnePasswordPerSalt'
  <2>1. req' = [req EXCEPT ![r] = Idle] /\ salt' = salt
    BY <1>5 DEF Done
  <2> QED
    BY <2>1, <1>4, <1>5, RequestSalts
<1>6. ASSUME NEW e \in Emails, AcceptRequest(r, e)
      PROVE  OnePasswordPerSalt'
  <2>1. PICK request : request = [Idle EXCEPT !.pc = "ready", !.kind = "Request", !.email = e]
    OBVIOUS
  <2>2. request.salt = 0 /\ request.seen = NoAccount /\ request.seen.salt = 0
    BY <2>1 DEF Idle, NoAccount
  <2>3. req' = [req EXCEPT ![r] = request] /\ salt' = salt /\ account' = account
    BY <1>6, <2>1 DEF AcceptRequest, Enter, store
  <2> QED
    BY <2>2, <2>3, <1>2, RequestSalts
<1>7. ASSUME NEW l \in Links, NEW pw \in Passwords, AcceptComplete(r, l, pw)
      PROVE  OnePasswordPerSalt'
  <2>1. PICK request : request = [Idle EXCEPT !.pc = "ready", !.kind = "Complete",
                                     !.email = challenge[link[l].challenge].email,
                                     !.link = l, !.pw = pw, !.salt = salt + 1]
    OBVIOUS
  <2>2. request.salt = salt + 1 /\ request.pw = pw /\ request.seen.salt = 0
    BY <2>1 DEF Idle, NoAccount
  <2>3. req' = [req EXCEPT ![r] = request] /\ salt' = salt + 1 /\ account' = account
    BY <1>7, <2>1 DEF AcceptComplete, Enter, store, Hashed
  <2> QED
    BY <2>2, <2>3, <1>2, RequestSalts
<1>8. ASSUME NEW e \in Emails, NEW pw \in Passwords, StartBootstrap(r, e, pw)
      PROVE  OnePasswordPerSalt'
  <2>1. CASE account[e] = NoAccount
    <3>1. PICK request : request = [Idle EXCEPT !.pc = "ready", !.kind = "Bootstrap",
                                       !.email = e, !.pw = pw, !.salt = salt + 1]
      OBVIOUS
    <3>2. request.salt = salt + 1 /\ request.pw = pw /\ request.seen.salt = 0
      BY <3>1 DEF Idle, NoAccount
    <3>3. req' = [req EXCEPT ![r] = request] /\ salt' = salt + 1 /\ account' = account
      BY <1>8, <2>1, <3>1 DEF StartBootstrap, Enter, store, Hashed
    <3> QED
      BY <3>2, <3>3, <1>2, RequestSalts
  <2>2. CASE account[e] # NoAccount
    <3>1. PICK request : request = [Idle EXCEPT !.pc = "verified", !.kind = "Bootstrap",
                                       !.email = e, !.pw = pw, !.seen = account[e]]
      OBVIOUS
    <3>2. request.salt = 0 /\ request.seen = account[e]
      BY <3>1 DEF Idle
    <3>3. req' = [req EXCEPT ![r] = request] /\ salt' = salt /\ account' = account
      BY <1>8, <2>2, <3>1 DEF StartBootstrap, Enter, store
    <3> QED
      BY <3>2, <3>3, <1>2, RequestSalts
  <2> QED
    BY <2>1, <2>2
<1>9. CASE LockEmail(r)
  <2>1. PICK request : request = [req[r] EXCEPT !.pc = "locked",
                                      !.seen = account[req[r].email],
                                      !.open = OpenChallenges(req[r].email),
                                      !.at = clock]
    OBVIOUS
  <2>2. request.salt = req[r].salt /\ request.pw = req[r].pw
        /\ request.seen = account[req[r].email]
    BY <2>1, <1>1 DEF Request
  <2>3. req' = [req EXCEPT ![r] = request] /\ salt' = salt /\ account' = account
    BY <1>1, <1>9, <2>1 DEF LockEmail, store
  <2>4. req[r].email \in Emails
    BY <1>1, <1>9 DEF LockEmail, Shape
  <2> QED
    BY <2>2, <2>3, <2>4, <1>2, <1>3, RequestSalts
<1>10. ASSUME req' = [req EXCEPT ![r].pc = "inserted"], salt' = salt, account' = account
       PROVE  OnePasswordPerSalt'
  <2>1. PICK request : request = [req[r] EXCEPT !.pc = "inserted"]
    OBVIOUS
  <2>2. request.salt = req[r].salt /\ request.pw = req[r].pw /\ request.seen = req[r].seen
    BY <2>1, <1>1 DEF Request
  <2>3. req' = [req EXCEPT ![r] = request]
    BY <1>1, <1>10, <2>1
  <2> QED
    BY <2>2, <2>3, <1>2, <1>3, <1>10, RequestSalts
<1>11. CASE InsertUser(r)
  BY <1>2, <1>5, <1>10, <1>11 DEF InsertUser, store
<1>12. CASE InsertSuperAdmin(r)
  <2>1. CASE req' = [req EXCEPT ![r].pc = "inserted"]
    BY <1>10, <1>12, <2>1 DEF InsertSuperAdmin, store
  <2>2. CASE req' = [req EXCEPT ![r].pc = "verified", ![r].seen = account[req[r].email]]
    <3>1. PICK request : request = [req[r] EXCEPT !.pc = "verified",
                                                  !.seen = account[req[r].email]]
      OBVIOUS
    <3>2. request.salt = req[r].salt /\ request.pw = req[r].pw
          /\ request.seen = account[req[r].email]
      BY <3>1, <1>1 DEF Request
    <3>3. req' = [req EXCEPT ![r] = request] /\ salt' = salt /\ account' = account
      BY <1>1, <1>12, <2>2, <3>1 DEF InsertSuperAdmin, store
    <3>4. req[r].email \in Emails
      BY <1>1, <1>12 DEF InsertSuperAdmin, Shape
    <3> QED
      BY <3>2, <3>3, <3>4, <1>2, <1>3, RequestSalts
  <2> QED
    BY <1>12, <2>1, <2>2 DEF InsertSuperAdmin
<1>13. ASSUME CommitRegistration(r) \/ CommitSuperAdmin(r)
       PROVE  OnePasswordPerSalt'
  <2>1. PICK row : /\ row.salt = req[r].salt /\ row.pw = req[r].pw
                   /\ account' = [account EXCEPT ![req[r].email] = row]
    BY <1>13 DEF CommitRegistration, CommitSuperAdmin
  <2>2. \A e \in Emails : account'[e] = account[e] \/ account'[e] = row
    BY <2>1, <1>1 DEF RegTypeOK
  <2>3. \A e \in Emails : <<account'[e].salt, account'[e].pw>> \in Salted
    BY <2>1, <2>2, <1>2, <1>3
  <2> QED
    BY <2>3, <1>5, <1>13 DEF CommitRegistration, CommitSuperAdmin
<1>14. CASE FinishRequest(r)
  BY <1>2, <1>5, <1>14 DEF FinishRequest
<1>15. CASE BootstrapNoOp(r) \/ BootstrapConflict(r) \/ Abort(r)
  BY <1>2, <1>5, <1>15 DEF BootstrapNoOp, BootstrapConflict, Abort, store
<1> QED
  BY <1>6, <1>7, <1>8, <1>9, <1>11, <1>12, <1>13, <1>14, <1>15 DEF Step

LEMMA ChangeAccountSalts ==
    ASSUME RegInv, RegTypeOK', NEW e \in Emails, ChangeAccount(e)
    PROVE  OnePasswordPerSalt'
<1>1. RegTypeOK /\ req' = req /\ account[e] # NoAccount
  BY DEF RegInv, ChangeAccount
<1>2. account[e] \in [origin : {"link", "bootstrap"}, role : Roles, status : Statuses,
                      salt : Nat \ {0}, pw : Passwords, session : BOOLEAN]
  BY <1>1, RowTypes
<1>3. PICK pw :
        /\ salt' = salt \/ salt' = salt + 1
        /\ \/ account'[e].salt = account[e].salt /\ account'[e].pw = account[e].pw
           \/ salt' = salt + 1 /\ account'[e].salt = salt' /\ account'[e].pw = pw
        /\ \A d \in Emails : d # e => account'[d] = account[d]
  <2>1. CASE \E role \in Roles \ {account[e].role} :
                account' = [account EXCEPT ![e].role = role] /\ UNCHANGED salt
    BY <2>1, <1>1, <1>2 DEF RegTypeOK
  <2>2. CASE \E status \in Statuses \ {account[e].status} :
                account' = [account EXCEPT ![e].status = status] /\ UNCHANGED salt
    BY <2>2, <1>1, <1>2 DEF RegTypeOK
  <2>3. CASE Hashed /\ \E pw \in Passwords :
                account' = [account EXCEPT ![e].pw = pw, ![e].salt = salt']
    <3>1. PICK pw \in Passwords : account' = [account EXCEPT ![e].pw = pw, ![e].salt = salt']
      BY <2>3
    <3>2. account'[e].salt = salt' /\ account'[e].pw = pw
      BY <3>1, <1>1, <1>2 DEF RegTypeOK
    <3>3. \A d \in Emails : d # e => account'[d] = account[d]
      BY <3>1, <1>1 DEF RegTypeOK
    <3> QED
      BY <2>3, <3>2, <3>3 DEF Hashed
  <2> QED
    BY <2>1, <2>2, <2>3 DEF ChangeAccount
<1>4. ASSUME NEW a \in Salted'
      PROVE  a \in Salted \/ (salt' = salt + 1 /\ a[1] = salt' /\ a[2] = pw)
  <2>1. \/ \E d \in Emails : a = <<account'[d].salt, account'[d].pw>>
        \/ \E q \in Requests : a = <<req[q].salt, req[q].pw>>
        \/ \E q \in Requests : a = <<req[q].seen.salt, req[q].seen.pw>>
    BY <1>1, <1>4 DEF Salted
  <2>2. ASSUME NEW d \in Emails, a = <<account'[d].salt, account'[d].pw>>
        PROVE  a \in Salted \/ (salt' = salt + 1 /\ a[1] = salt' /\ a[2] = pw)
    BY <2>2, <1>1, <1>3, SaltedPairs
  <2> QED
    BY <2>1, <2>2, <1>1, SaltedPairs
<1> QED
  BY <1>3, <1>4, SaltsGrow

-----------------------------------------------------------------------------
(***************************************************************************)
(* The results.                                                            *)
(***************************************************************************)

LEMMA RegInvStep == RegInv /\ [Next]_vars => RegInv'
<1> SUFFICES ASSUME RegInv, [Next]_vars PROVE RegInv'
  OBVIOUS
<1>1. ASSUME NEW r \in Requests, Step(r) PROVE RegInv'
  BY <1>1, RequestStep, RequestSaltStep DEF RegInv
<1>2. ASSUME NEW e \in Emails, ChangeAccount(e) PROVE RegInv'
  BY <1>2, ChangeAccountStep, ChangeAccountSalts DEF RegInv
<1>3. CASE Tick \/ UNCHANGED vars
  <2>1. UNCHANGED <<account, challenge, link, salt, req>> /\ clock' \in Time
    BY <1>3 DEF Tick, store, vars, Time, RegInv, RegTypeOK
  <2>2. RegTypeOK'
    BY <2>1 DEF RegInv, RegTypeOK
  <2>3. \A r \in Requests : Shape(r)' /\ Locked(r)' /\ Inserted(r)'
    BY <2>1 DEF RegInv, Shape, Locked, Registering, OpenChallenges, Inserted,
                Redeemable, EmailPending
  <2>4. OnePasswordPerSalt'
    BY <2>1 DEF RegInv, OnePasswordPerSalt, Salted
  <2>5. (Referential /\ OneLink /\ OneOpenChallenge)'
    BY <2>1, StoreUnchanged DEF store
  <2> QED
    BY <2>2, <2>3, <2>4, <2>5 DEF RegInv
<1> QED
  BY <1>1, <1>2, <1>3 DEF Next

\* The lock, the unique index, the deadlines and the salts keep the tables of
\* the registration and bootstrap transactions consistent.
THEOREM RegistrationsAreSound == Spec => []RegInv
BY RegInvInit, RegInvStep, PTL DEF Spec

\* CompleteRegistration.execute: an account made by registration came from
\* exactly one link, and other accounts from none, however completions,
\* requests and bootstrap commands for an address overlap.
THEOREM AccountsAlwaysComeFromOneLink == Spec => []AccountsComeFromOneLink
<1>1. RegInv => AccountsComeFromOneLink
  BY OneLinkSuffices DEF RegInv
<1> QED
  BY <1>1, RegistrationsAreSound, PTL

\* RequestRegistration.execute: the partial unique index on open challenges
\* never refuses a row.
THEOREM OneChallengeStaysOpen == Spec => []OneOpenChallenge
<1>1. RegInv => OneOpenChallenge
  BY DEF RegInv
<1> QED
  BY <1>1, RegistrationsAreSound, PTL

\* BootstrapSuperAdmin.execute: NO_OP is only reported when the account is an
\* active SUPER_ADMIN with the given password, although the password was
\* compared with an earlier read of the row: the hash is still the same, and
\* a salt belongs to one password.
THEOREM NoOpAlwaysMeansSuperAdmin == Spec => NoOpMeansSuperAdmin
<1>1. ASSUME RegInv, NEW r \in Requests, BootstrapNoOp(r)
      PROVE  LET row == account[req[r].email] IN
             row.role = "SUPER_ADMIN" /\ row.status = "ACTIVE" /\ row.pw = req[r].pw
  <2>1. RegTypeOK /\ Shape(r) /\ req[r].pc = "verified" /\ Confirmed(r)
    BY <1>1 DEF RegInv, BootstrapNoOp
  <2>2. PICK e \in Emails : e = req[r].email
    BY <2>1 DEF Shape
  <2>3. /\ account[e].role = "SUPER_ADMIN" /\ account[e].status = "ACTIVE"
        /\ account[e].salt = req[r].seen.salt /\ req[r].seen.pw = req[r].pw
    BY <2>1, <2>2 DEF Confirmed
  <2>4. account[e] # NoAccount
    BY <2>3, RegistrationSentinel DEF NoAccount, Roles
  <2>5. account[e].salt # 0
    BY <2>1, <2>4, RowTypes
  <2>6. <<account[e].salt, account[e].pw>> \in Salted
        /\ <<req[r].seen.salt, req[r].seen.pw>> \in Salted
    BY <2>1, SaltedPairs
  <2>7. \A a, b \in Salted : a[1] # 0 /\ a[1] = b[1] => a[2] = b[2]
    BY <1>1 DEF RegInv, OnePasswordPerSalt
  <2>8. account[e].pw = req[r].seen.pw
    BY <2>3, <2>5, <2>6, <2>7
  <2> QED
    BY <2>2, <2>3, <2>8
<1>2. RegInv /\ [Next]_vars =>
        [\A r \in Requests : BootstrapNoOp(r) =>
            LET row == account[req[r].email] IN
            row.role = "SUPER_ADMIN" /\ row.status = "ACTIVE" /\ row.pw = req[r].pw]_vars
  BY <1>1
<1> QED
  BY <1>2, RegistrationsAreSound, PTL DEF Spec, NoOpMeansSuperAdmin
=============================================================================
