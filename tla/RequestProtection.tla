-------------------------- MODULE RequestProtection --------------------------
(***************************************************************************)
(* What a request to an authentication route meets before its handler:     *)
(* the Origin check, the CSRF check and the quota of its client address,   *)
(* in this order (application/request_protection.py), and the in-memory    *)
(* store of fixed quota windows (infrastructure/rate_limits.py).           *)
(*                                                                         *)
(* consume() never awaits inside its lock, so that a request is one step.  *)
(* The clock is monotonic and finer than the seconds of Retry-After: time  *)
(* is counted in ticks.  The table is an OrderedDict: a sequence.          *)
(***************************************************************************)
EXTENDS Naturals, SequencesExt

CONSTANTS
    Ips,             \* resolved client addresses (their HMAC digests)
    Actions,         \* the actions requested
    Limit,           \* requests a window admits: 30 in the code
    WindowSeconds,   \* length of a window: 60 in the code
    TicksPerSecond,  \* resolution of the clock
    Capacity,        \* windows the table may hold
    CleanupBatch,    \* expired windows one request removes at most: 256
    MaxTime          \* bound on the clock

AuthActions ==
    {"login", "registration_request", "registration_complete", "refresh", "logout",
     "password_change", "password_reset_request", "password_reset_complete", "me"}

ASSUME ProtectionAssumption ==
    /\ IsFiniteSet(Ips)
    /\ Actions \subseteq AuthActions
    /\ \A n \in {Limit, WindowSeconds, TicksPerSecond, Capacity, CleanupBatch} :
           n \in Nat \ {0}
    /\ MaxTime \in Nat

VARIABLES
    now,      \* the store's clock
    windows,  \* the table, oldest entry first
    answer,   \* the decision on the last request
    opened,   \* history: when the address last got a window, or Never
    since     \* history: requests of the address admitted since then

vars == <<now, windows, answer, opened, since>>

Window == WindowSeconds * TicksPerSecond

\* What the matrix of the code demands of a request for an action.
policy_for(action) ==
    [origin     |-> action \in {"login", "registration_complete", "refresh",
                                "password_change", "logout"},
     csrf       |-> action \in {"refresh", "password_change", "logout"},
     rate_limit |-> action \notin {"logout", "me"}]

Never == MaxTime + 1

NoAnswer == [outcome |-> "none"]

Init ==
    /\ now = 0
    /\ windows = <<>>
    /\ answer = NoAnswer
    /\ opened = [ip \in Ips |-> Never]
    /\ since = [ip \in Ips |-> 0]

Tick ==
    /\ now < MaxTime
    /\ now' = now + 1
    /\ answer' = NoAnswer
    /\ UNCHANGED <<windows, opened, since>>

-----------------------------------------------------------------------------
(* The store.                                                              *)

Expired(w) == w.expires_at <= now

\* Faulty: expired entries are left in the table.
NeverCleaned(ws) == ws

\* The oldest entries, up to a batch of them and as far as all have expired,
\* are removed.
Cleaned(ws) ==
    LET gone == {n \in 0..Len(ws) : /\ n <= CleanupBatch
                                    /\ \A i \in 1..n : Expired(ws[i])}
    IN  SubSeq(ws, Max(gone) + 1, Len(ws))

\* An expired window of the address itself is removed wherever it stands.
Current(ip) ==
    LET ws == Cleaned(windows)
        stale == {i \in DOMAIN ws : ws[i].key = ip /\ Expired(ws[i])}
    IN  IF stale = {} THEN ws ELSE RemoveAt(ws, CHOOSE i \in stale : TRUE)

Tracked(ip) == \E i \in DOMAIN Current(ip) : Current(ip)[i].key = ip

OwnWindow(ip) == CHOOSE w \in {Current(ip)[i] : i \in DOMAIN Current(ip)} : w.key = ip

\* Faulty: one request too many.
ExhaustedLate(ip) == OwnWindow(ip).count > Limit

Exhausted(ip) == OwnWindow(ip).count >= Limit

\* Faulty: the remaining time is rounded down.
RetryAfterFloor(w) == Max({1, (w.expires_at - now) \div TicksPerSecond})

\* max(1, ceil(expires_at - now))
RetryAfter(w) ==
    Max({1, (w.expires_at - now + TicksPerSecond - 1) \div TicksPerSecond})

Refuse(ip) ==
    /\ Tracked(ip)
    /\ Exhausted(ip)
    /\ windows' = Current(ip)
    /\ answer' = [outcome     |-> "limited",
                  ip          |-> ip,
                  retry_after |-> RetryAfter(OwnWindow(ip)),
                  until       |-> OwnWindow(ip).expires_at]
    /\ UNCHANGED <<now, opened, since>>

CountUp(ip) ==
    /\ Tracked(ip)
    /\ ~Exhausted(ip)
    /\ windows' = [i \in DOMAIN Current(ip) |->
                      IF Current(ip)[i].key = ip
                      THEN [Current(ip)[i] EXCEPT !.count = @ + 1]
                      ELSE Current(ip)[i]]
    /\ answer' = [outcome |-> "admitted", ip |-> ip]
    /\ since' = [since EXCEPT ![ip] = @ + 1]
    /\ UNCHANGED <<now, opened>>

Full(ip) == Len(Current(ip)) >= Capacity

\* History: the window the address was last given has not ended yet.
Running(ip) == opened[ip] # Never /\ now < opened[ip] + Window

\* A full table admits what it cannot track.
AdmitUntracked(ip) ==
    /\ ~Tracked(ip)
    /\ Full(ip)
    /\ windows' = Current(ip)
    /\ answer' = [outcome |-> "untracked", ip |-> ip]
    /\ since' = [since EXCEPT ![ip] = IF Running(ip) THEN @ + 1 ELSE 0]
    /\ UNCHANGED <<now, opened>>

NewWindow(ip) == [key |-> ip, expires_at |-> now + Window, count |-> 1]

Entered(ip) == Append(Current(ip), NewWindow(ip))

OpenWindow(ip) ==
    /\ ~Tracked(ip)
    /\ ~Full(ip)
    /\ windows' = Entered(ip)
    /\ answer' = [outcome |-> "admitted", ip |-> ip]
    /\ opened' = [opened EXCEPT ![ip] = IF Running(ip) THEN @ ELSE now]
    /\ since' = [since EXCEPT ![ip] = IF Running(ip) THEN @ + 1 ELSE 1]
    /\ UNCHANGED now

consume(ip) == Refuse(ip) \/ CountUp(ip) \/ AdmitUntracked(ip) \/ OpenWindow(ip)

-----------------------------------------------------------------------------
(* The request: what it is for, whether its Origin is allowed, whether its *)
(* CSRF cookie and header match, and the address, if it can be resolved.   *)

Answered(outcome) ==
    /\ answer' = [outcome |-> outcome]
    /\ UNCHANGED <<now, windows, opened, since>>

OriginOK(action, originOK) == policy_for(action).origin => originOK

CsrfOK(action, csrfOK) == policy_for(action).csrf => csrfOK

OriginNotAllowed(action, originOK) ==
    /\ ~OriginOK(action, originOK)
    /\ Answered("origin")

CsrfValidationFailed(action, originOK, csrfOK) ==
    /\ OriginOK(action, originOK)
    /\ ~CsrfOK(action, csrfOK)
    /\ Answered("csrf")

Verified(action, originOK, csrfOK) ==
    OriginOK(action, originOK) /\ CsrfOK(action, csrfOK)

Unlimited(action, originOK, csrfOK) ==
    /\ Verified(action, originOK, csrfOK)
    /\ ~policy_for(action).rate_limit
    /\ Answered("unlimited")

\* An address the resolver does not vouch for has no quota.
ClientIpUnresolved(action, originOK, csrfOK) ==
    /\ Verified(action, originOK, csrfOK)
    /\ policy_for(action).rate_limit
    /\ Answered("unresolved")

Consume(action, originOK, csrfOK, ip) ==
    /\ Verified(action, originOK, csrfOK)
    /\ policy_for(action).rate_limit
    /\ consume(ip)

check ==
    \E action \in Actions, originOK, csrfOK \in BOOLEAN :
        \/ OriginNotAllowed(action, originOK)
        \/ CsrfValidationFailed(action, originOK, csrfOK)
        \/ Unlimited(action, originOK, csrfOK)
        \/ ClientIpUnresolved(action, originOK, csrfOK)
        \/ \E ip \in Ips : Consume(action, originOK, csrfOK, ip)

Next == check \/ Tick

Spec == Init /\ [][Next]_vars

-----------------------------------------------------------------------------
(* Properties.                                                             *)

\* An address that was given a window has at most Limit requests admitted
\* until that window ends: no clean-up, no capacity exhaustion and no traffic
\* of other addresses makes the store forget a window that is still running.
\* A running window counts the requests admitted since it was opened and no
\* other: one refused by the Origin check, by the CSRF check or by the quota
\* itself spends nothing.
QuotaHolds ==
    /\ \A ip \in Ips : Running(ip) => since[ip] <= Limit
    /\ \A i \in DOMAIN windows : ~Expired(windows[i]) =>
          /\ windows[i].expires_at = opened[windows[i].key] + Window
          /\ windows[i].count = since[windows[i].key]

\* The table never exceeds its capacity, and requests go untracked only while
\* it is full of windows that all still run: a clean-up bounded to a batch
\* never leaves the table full of expired entries.
UntrackedOnlyWhenFull ==
    /\ Len(windows) <= Capacity
    /\ answer.outcome = "untracked" =>
        /\ Len(windows) = Capacity
        /\ \A i \in DOMAIN windows : ~Expired(windows[i]) /\ windows[i].key # answer.ip

\* Retry-After is not early (a client that waits it out finds its window
\* ended), and less than a second late.
RetryAfterIsTight ==
    answer.outcome = "limited" =>
        /\ now + answer.retry_after * TicksPerSecond >= answer.until
        /\ now + (answer.retry_after - 1) * TicksPerSecond < answer.until

=============================================================================
