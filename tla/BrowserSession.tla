--------------------------- MODULE BrowserSession ----------------------------
(***************************************************************************)
(* The session controller of the web pages, one per tab.  All tabs share   *)
(* the session cookies, one Web Lock, and a marker in localStorage that is *)
(* replaced whenever the login state changes.  A request that may change   *)
(* the cookies is sent under the lock; the tab compares the marker with    *)
(* the one it has seen before it starts, and again once it has the lock.   *)
(*                                                                         *)
(* JavaScript runs from one await to the next, so a step of a tab goes     *)
(* from one answer of the server to the next request.  Answers get lost,   *)
(* arrive without a usable body after their cookies were stored, or find   *)
(* their tab closed.                                                       *)
(*                                                                         *)
(* The id of a marker is random and is only compared with the one that is  *)
(* stored, so a remembered id is "current" or, since the marker was        *)
(* replaced, "older".                                                      *)
(***************************************************************************)
EXTENDS SequencesExt

CONSTANTS
    Tabs,       \* tabs of one browser
    Accounts,   \* accounts that are logged in to
    None, Torn

ASSUME BrowserSentinel == {None, Torn} \cap Accounts = {} /\ None # Torn

VARIABLES
    cookie,   \* refresh and CSRF cookie: its account, and whether the token is
              \* "good", was "used" a moment ago, or is "dead" (used long ago,
              \* or its session is over)
    marker,   \* the kind of the session change in localStorage
    tab,      \* the controllers: status, profile, access token, marker seen
    job,      \* what each tab is doing: a request of its user, and a
              \* synchronization
    lock,     \* the Web Lock: the holder and those who wait, in order
    owner     \* history: the account the marker's publisher signed in; Torn
              \* once the cookies of a login were stored without a marker

vars == <<cookie, marker, tab, job, lock, owner>>

Slots == {"main", "sync"}
SignIns == {"login", "registration"}
Kept == {"profile", "logout", "password"}   \* for the account that is shown
Ops == SignIns \cup Kept \cup {"reset"}

Closed == [status |-> "closed", profile |-> None, credential |-> None,
           seen |-> "none", restore |-> FALSE]
Opened == [Closed EXCEPT !.status = "loading"]
NoJob == [op |-> "none", pc |-> "none", then |-> "none", account |-> None,
          expected |-> "none", shown |-> None]

Init ==
    /\ cookie = None
    /\ marker = "none"
    /\ tab = [t \in Tabs |-> Closed]
    /\ job = [t \in Tabs |-> [s \in Slots |-> NoJob]]
    /\ lock = <<>>
    /\ owner = None

IsOpen(t) == tab[t].status # "closed"

-----------------------------------------------------------------------------
(***************************************************************************)
(* The parts of the controller, as functions of a tab's state.             *)
(***************************************************************************)
Clear(w) == [w EXCEPT !.status = "anonymous", !.profile = None, !.credential = None]

Changed(w) == w.seen = "older"

\* observe: a marker the tab has not seen ends what it shows.
Observe(w) ==
    IF Changed(w)
    THEN [Clear(w) EXCEPT
            !.seen = "current", !.restore = (marker = "signed-in"),
            !.status = IF marker = "signed-in" THEN "loading" ELSE "anonymous"]
    ELSE [w EXCEPT !.seen = "current"]

\* Faulty: an error leaves the status alone.
FailedSilently(w, error) ==
    CASE error = "blocked" ->
            [w EXCEPT !.status = "blocked", !.profile = None, !.credential = None]
      [] error = "invalid" -> Clear(w)
      [] error = "other" -> w

\* failed: no storage or no lock, a session or token that is not valid, and
\* everything else.
Failed(w, error) ==
    CASE error = "blocked" ->
            [w EXCEPT !.status = "blocked", !.profile = None, !.credential = None]
      [] error = "invalid" -> Clear(w)
      [] error = "other" ->
            [w EXCEPT !.status = IF @ = "loading" THEN "anonymous" ELSE @]

\* An id that was remembered, once the marker is replaced.
Older(id) == IF id = "current" THEN "older" ELSE id

\* publish: a new marker, and the publisher starts afresh.
Publish(t, kind, account, credential) ==
    /\ marker' = kind
    /\ owner' = account
    /\ tab' = [u \in Tabs |->
                 IF u # t THEN [tab[u] EXCEPT !.seen = Older(@)]
                 ELSE [Clear(tab[t]) EXCEPT
                    !.seen = "current", !.restore = FALSE, !.credential = credential,
                    !.status = IF kind = "signed-in" THEN "loading" ELSE "anonymous"]]
NoPublish == UNCHANGED <<marker, owner>>

-----------------------------------------------------------------------------
(***************************************************************************)
(* Entering: what a tab does before it waits for the lock.                 *)
(***************************************************************************)
Enqueue(t, s, j) ==
    /\ job' = [job EXCEPT ![t][s] = j]
    /\ lock' = Append(lock, <<t, s>>)

\* A page is loaded and the controller initializes; the recovery page asks
\* for that again.
Initialize(t) ==
    /\ job[t]["main"] = NoJob
    /\ tab[t].status \in {"closed", "anonymous", "authenticated"}
    /\ tab' = [tab EXCEPT ![t] = IF IsOpen(t) THEN @ ELSE Opened]
    /\ Enqueue(t, "main", [NoJob EXCEPT !.op = "initialize", !.pc = "waiting"])
    /\ UNCHANGED cookie /\ NoPublish

\* What the pages offer.
Offered(w) ==
    CASE w.status = "authenticated" -> Kept \cup {"registration", "reset"}
      [] w.status = "anonymous" -> SignIns \cup {"reset"}
      [] OTHER -> {}

\* locked, up to the wait.
Submit(t, op) ==
    /\ job[t]["main"] = NoJob
    /\ op \in Offered(tab[t])
    /\ UNCHANGED cookie /\ NoPublish
    /\ IF Changed(tab[t])
       THEN /\ tab' = [tab EXCEPT ![t] = Failed(Observe(@), "other")]
            /\ UNCHANGED <<job, lock>>
       ELSE /\ tab' = [tab EXCEPT ![t] = Observe(@)]
            /\ Enqueue(t, "main",
                  [NoJob EXCEPT !.op = op, !.pc = "waiting", !.expected = "current",
                                !.shown = IF op \in Kept THEN tab[t].profile ELSE None])

\* synchronize, on a storage event, focus, pageshow or visibility.
Synchronize(t) ==
    /\ IsOpen(t)
    /\ tab' = [tab EXCEPT ![t] = Observe(@)]
    /\ UNCHANGED cookie /\ NoPublish
    /\ IF /\ job[t]["sync"] = NoJob
          /\ tab'[t].restore /\ marker = "signed-in"
       THEN Enqueue(t, "sync", [NoJob EXCEPT !.op = "synchronize", !.pc = "waiting"])
       ELSE UNCHANGED <<job, lock>>

\* available fails: the storage or the lock cannot be used.
Unavailable(t) ==
    /\ IsOpen(t)
    /\ tab' = [tab EXCEPT ![t] = Failed(@, "blocked")]
    /\ UNCHANGED <<cookie, job, lock>> /\ NoPublish

-----------------------------------------------------------------------------
(***************************************************************************)
(* Under the lock.                                                         *)
(***************************************************************************)
Holds(t, s) == lock # <<>> /\ Head(lock) = <<t, s>>
Leave(t, s) == job' = [job EXCEPT ![t][s] = NoJob] /\ lock' = Tail(lock)
Go(t, s, j) == job' = [job EXCEPT ![t][s] = j] /\ UNCHANGED lock
\* The same for one that has published.
Outdated ==
    [u \in Tabs |-> [r \in Slots |-> [job[u][r] EXCEPT !.expected = Older(@)]]]
GoOn(t, s, j) ==
    job' = [Outdated EXCEPT ![t][s] = [j EXCEPT !.expected = "none"]] /\ UNCHANGED lock
End(t, s) == job' = [Outdated EXCEPT ![t][s] = NoJob] /\ lock' = Tail(lock)
Fail(t, s, error) ==
    tab' = [tab EXCEPT ![t] = Failed(@, error)] /\ Leave(t, s)

ToRefresh(j, then) == [j EXCEPT !.pc = "refresh", !.then = then]
\* With the access token of the tab.
Bearing(j, pc, w) == [j EXCEPT !.pc = pc, !.account = w.credential]

\* The first request of an operation.  The tab's access token may have expired;
\* a form, or its link, names the account.
FirstRequests(j, w) ==
    CASE j.op \in {"initialize", "synchronize"} -> {ToRefresh(j, "me")}
      [] j.op \in {"profile", "password"} ->
            LET then == IF j.op = "profile" THEN "me" ELSE "send"
            IN  {ToRefresh(j, then)}
                  \cup (IF w.credential = None THEN {} ELSE {Bearing(j, then, w)})
      [] j.op = "logout" -> {[j EXCEPT !.pc = "send"]}
      [] OTHER -> {[j EXCEPT !.pc = "send", !.account = a] : a \in Accounts}

\* Faulty: only a change since the last look is noticed.
CancelledIfChanged(j, w) == j.op \notin {"initialize", "synchronize"} /\ Changed(w)

\* The marker is not the one the operation was started under.
Cancelled(j, w) ==
    j.op \notin {"initialize", "synchronize"} /\ j.expected = "older"

\* Nothing to restore.
Nothing(j) ==
    \/ j.op = "initialize" /\ cookie = None
    \/ j.op = "synchronize" /\ marker # "signed-in"

Start(t, s) ==
    LET j == job[t][s]
        w == Observe(tab[t])
    IN  /\ Holds(t, s) /\ j.pc = "waiting"
        /\ UNCHANGED cookie /\ NoPublish
        /\ \/ Fail(t, s, "blocked")
           \/ /\ Cancelled(j, tab[t])
              /\ tab' = [tab EXCEPT ![t] = Failed(w, "other")]
              /\ Leave(t, s)
           \/ /\ Nothing(j)
              /\ tab' = [tab EXCEPT ![t] = IF j.op = "initialize" THEN Clear(w) ELSE w]
              /\ Leave(t, s)
           \/ /\ ~Cancelled(j, tab[t]) /\ ~Nothing(j)
              /\ tab' = [tab EXCEPT ![t] = w]
              /\ \E r \in FirstRequests(j, w) : Go(t, s, r)

\* The server's part.  A session is live until a login of its account, a
\* logout, a reset or a password change; a token is used once.
Session(account) == [account |-> account, token |-> "good"]
Token(value) == cookie # None /\ cookie.token = value
Usable == Token("good")
Conflict == Token("used")
Ended(c) == IF c = None THEN None ELSE [c EXCEPT !.token = "dead"]
EndedFor(account) ==
    IF cookie # None /\ cookie.account = account THEN Ended(cookie) ELSE cookie
MayChange(j) == Usable /\ cookie.account = j.account

\* The cookies once the server has answered and the answer was stored.
Stored(j) ==
    CASE j.pc \in {"refresh", "retry"} ->
            IF Usable \/ Conflict THEN cookie ELSE None
      [] j.pc = "send" /\ j.op \in SignIns -> Session(j.account)
      [] j.pc = "send" /\ j.op \in {"logout", "reset"} -> None
      [] j.pc = "send" /\ j.op = "password" ->
            IF MayChange(j) THEN Session(j.account) ELSE None
      [] OTHER -> cookie

\* The cookies if the server has done its part and nothing came back.
Processed(j) ==
    CASE j.pc \in {"refresh", "retry"} ->
            IF Usable THEN [cookie EXCEPT !.token = "used"]
            ELSE IF Conflict THEN cookie ELSE Ended(cookie)
      [] j.pc = "send" /\ j.op \in SignIns \cup {"reset"} -> EndedFor(j.account)
      [] j.pc = "send" /\ j.op = "logout" -> IF Usable THEN Ended(cookie) ELSE cookie
      [] j.pc = "send" /\ j.op = "password" ->
            IF MayChange(j) THEN Ended(cookie) ELSE cookie
      [] OTHER -> cookie

Sent(t, s) == Holds(t, s) /\ job[t][s].pc \in {"send", "refresh", "retry", "me"}
Sends(t, s, op) == Holds(t, s) /\ job[t][s].pc = "send" /\ job[t][s].op \in op
Refreshes(t, s) == Holds(t, s) /\ job[t][s].pc \in {"refresh", "retry"}

\* login and completeRegistration, then profileLocked.
SignedIn(t, s) ==
    LET j == job[t][s] IN
    /\ Sends(t, s, SignIns)
    /\ cookie' = Stored(j)
    /\ Publish(t, "signed-in", j.account, j.account)
    /\ GoOn(t, s, [j EXCEPT !.pc = "me"])

\* logout and completePasswordReset; without its cookie, logout is a 403.
SignedOut(t, s) ==
    /\ Sends(t, s, {"logout", "reset"})
    /\ job[t][s].op = "logout" => cookie # None
    /\ cookie' = Stored(job[t][s])
    /\ Publish(t, "signed-out", None, None)
    /\ End(t, s)

\* changePassword: a new session, which is then refreshed.
PasswordChanged(t, s) ==
    LET j == job[t][s] IN
    /\ Sends(t, s, {"password"})
    /\ MayChange(j)
    /\ cookie' = Stored(j)
    /\ Publish(t, "signed-in", j.account, None)
    /\ GoOn(t, s, ToRefresh(j, "me"))

\* refreshLocked: the token is rotated,
Refreshed(t, s) ==
    LET j == job[t][s]
        w == [tab[t] EXCEPT !.credential = cookie.account]
    IN  /\ Refreshes(t, s)
        /\ Usable
        /\ tab' = [tab EXCEPT ![t] = w]
        /\ Go(t, s, Bearing(j, j.then, w))
        /\ UNCHANGED cookie /\ NoPublish

\* or was used a moment ago, in which case it is tried once more.
RefreshConflict(t, s) ==
    /\ Refreshes(t, s)
    /\ Conflict
    /\ IF job[t][s].pc = "refresh"
       THEN Go(t, s, [job[t][s] EXCEPT !.pc = "retry"]) /\ UNCHANGED tab
       ELSE Fail(t, s, "other")
    /\ UNCHANGED cookie /\ NoPublish

\* sessionRequest: INVALID_SESSION has cleared the cookies of all tabs.
SessionInvalid(t, s) ==
    /\ \/ Refreshes(t, s) /\ ~Usable /\ ~Conflict
       \/ Sends(t, s, {"password"}) /\ ~MayChange(job[t][s])
    /\ cookie # None
    /\ cookie' = Stored(job[t][s])
    /\ Publish(t, "signed-out", None, None)
    /\ End(t, s)

\* profileLocked: me answers, or the access token is not accepted.
Profile(t, s) ==
    /\ Holds(t, s) /\ job[t][s].pc = "me"
    /\ tab' = [tab EXCEPT ![t].status = "authenticated", ![t].restore = FALSE,
                          ![t].profile = job[t][s].account]
    /\ Leave(t, s)
    /\ UNCHANGED cookie /\ NoPublish

TokenInvalid(t, s) ==
    /\ Sent(t, s)
    /\ job[t][s].pc = "me" \/ Sends(t, s, {"password"})
    /\ Fail(t, s, "invalid")
    /\ UNCHANGED cookie /\ NoPublish

\* Refused, never sent, or the answer is lost.  What a login fails with is
\* for its form only.
Lost(t, s) ==
    LET j == job[t][s] IN
    /\ Sent(t, s)
    /\ cookie' \in {cookie, Processed(j)}
    /\ IF Sends(t, s, {"login"}) THEN Leave(t, s) /\ UNCHANGED tab
       ELSE Fail(t, s, "other")
    /\ NoPublish

Unpublished(j) == IF j.pc = "send" /\ j.op \in SignIns THEN Torn ELSE owner

\* The cookies are stored, but the body cannot be read, or the marker cannot
\* be written.
TornAnswer(t, s) ==
    LET j == job[t][s] IN
    /\ Sent(t, s) /\ j.pc # "me"
    /\ cookie # None \/ j.op \in SignIns \cup {"reset"}
    /\ cookie' = Stored(j)
    /\ owner' = Unpublished(j)
    /\ UNCHANGED marker
    /\ \/ Stored(j) # cookie /\ Fail(t, s, "blocked")
       \/ /\ j.op \in SignIns \/ j.pc # "send" \/ (j.op = "password" /\ ~MayChange(j))
          /\ IF Sends(t, s, {"login"}) THEN Leave(t, s) /\ UNCHANGED tab
             ELSE Fail(t, s, "other")

\* The queue without the requests of a tab.
Withdrawn(t) == RemoveFirst(RemoveFirst(lock, <<t, "main">>), <<t, "sync">>)

\* The page is closed or loaded again; a request it had sent may still be
\* carried out.
Close(t) ==
    LET mine(s) == job[t][s]
    IN  /\ IsOpen(t)
        /\ tab' = [tab EXCEPT ![t] = Closed]
        /\ job' = [job EXCEPT ![t] = [s \in Slots |-> NoJob]]
        /\ lock' = Withdrawn(t)
        /\ UNCHANGED marker
        /\ \/ UNCHANGED <<cookie, owner>>
           \/ \E s \in Slots : /\ Sent(t, s)
                               /\ cookie' = Processed(mine(s)) /\ UNCHANGED owner
           \/ \E s \in Slots : /\ Sent(t, s)
                               /\ cookie' = Stored(mine(s))
                               /\ owner' = Unpublished(mine(s))

-----------------------------------------------------------------------------
\* Time and the rest of the world: the session is ended elsewhere or expires,
\* a used token leaves its conflict window.
Elsewhere ==
    /\ cookie # None
    /\ cookie' \in {Ended(cookie), None}
    /\ UNCHANGED <<tab, job, lock>> /\ NoPublish

Answer(t, s) ==
    \/ SignedIn(t, s) \/ SignedOut(t, s) \/ PasswordChanged(t, s)
    \/ Refreshed(t, s) \/ RefreshConflict(t, s) \/ SessionInvalid(t, s)
    \/ Profile(t, s) \/ TokenInvalid(t, s)
    \/ Lost(t, s) \/ TornAnswer(t, s)

UnderLock == \E t \in Tabs, s \in Slots : Start(t, s) \/ Answer(t, s)

Next ==
    \/ UnderLock
    \/ Elsewhere
    \/ \E t \in Tabs :
        \/ Initialize(t) \/ Synchronize(t) \/ Unavailable(t) \/ Close(t)
        \/ \E op \in Ops : Submit(t, op)

Spec == Init /\ [][Next]_vars

-----------------------------------------------------------------------------
Running == {h \in Tabs \X Slots : Sent(h[1], h[2])}

\* Unless the answer to a login got lost between its cookies and its marker:
\* the cookies belong to the account the marker stands for, a tab that has
\* seen the marker shows that account or none, and a request that a user made
\* for the account on the screen is never carried out with the cookies of
\* another, however long it waited for the lock.
TabsStayWithAccount ==
    owner # Torn =>
        /\ cookie # None => cookie.account = owner
        /\ \A t \in Tabs :
              tab[t].status = "authenticated" /\ tab[t].seen = "current" =>
                  tab[t].profile = owner
        /\ \A t \in Tabs :
              LET j == job[t]["main"] IN
              /\ <<t, "main">> \in Running /\ j.expected # "none"
              /\ j.shown # None /\ cookie # None
              => cookie.account = j.shown

\* A tab that says it is checking the login state is: a request of its own
\* holds the lock or is queued for it, and every way that can end leaves a
\* page to work with.  No combination of failures, of changes made by other
\* tabs and of events that arrive while a request waits leaves a tab loading
\* with nothing to end it.
NoTabLeftLoading ==
    \A t \in Tabs : tab[t].status = "loading" =>
        \E s \in Slots, i \in DOMAIN lock : lock[i] = <<t, s>> /\ job[t][s] # NoJob

=============================================================================
