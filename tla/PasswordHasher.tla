---------------------------- MODULE PasswordHasher ----------------------------
(***************************************************************************)
(* The bounded password hasher (infrastructure/passwords.py): Argon2 runs  *)
(* in worker threads behind an asyncio semaphore with a timed acquire.  A  *)
(* caller may be cancelled (its client goes away) at every await; a worker *)
(* thread cannot.  The semaphore is asyncio's: a permit is handed to the   *)
(* first waiter by completing its future, and the waiter takes it when the *)
(* event loop resumes it, so that a timeout or a cancellation can arrive   *)
(* in between.                                                             *)
(***************************************************************************)
EXTENDS Naturals, FiniteSets, SequencesExt

CONSTANTS Callers, MaxConcurrency

ASSUME HasherAssumption ==
    /\ IsFiniteSet(Callers)
    /\ MaxConcurrency \in 1..8

VARIABLES
    pc,       \* where the caller is
    why,      \* what interrupted it: "timeout" or "cancel", else "none"
    work,     \* its worker thread
    permits,  \* the semaphore's value
    waiters   \* the futures in the semaphore's queue, oldest first

hasherVars == <<pc, why, work, permits, waiters>>

Ended == {"idle", "answered", "failed", "unavailable", "cancelled"}

HasherInit ==
    /\ pc = [c \in Callers |-> "idle"]
    /\ why = [c \in Callers |-> "none"]
    /\ work = [c \in Callers |-> "none"]
    /\ permits = MaxConcurrency
    /\ waiters = <<>>

-----------------------------------------------------------------------------
(* asyncio.Semaphore.                                                      *)

\* A waiter whose future was cancelled has "lapsed"; one whose future was
\* completed is "granted" or, when interrupted after that, "revoked".
locked ==
    permits = 0 \/ \E i \in DOMAIN waiters : pc[waiters[i]] # "lapsed"

\* The first n waiters with a pending future.
Woken(n, ws) ==
    LET pending == {i \in DOMAIN ws : pc[ws[i]] = "queued"}
        first == {k \in pending : Cardinality({j \in pending : j < k}) < n}
    IN  {ws[i] : i \in first}

Without(c) ==
    LET k == CHOOSE i \in DOMAIN waiters : waiters[i] = c
    IN  RemoveAt(waiters, k)

\* Caller c goes on at "to"; the waiters in set g are handed a permit each.
Granting(c, to, g) ==
    pc' = [d \in Callers |-> IF d = c THEN to ELSE IF d \in g THEN "granted" ELSE pc[d]]

\* release: one more permit, and at most one waiter woken.
Release(c, to) ==
    LET g == Woken(1, waiters)
    IN  /\ Granting(c, to, g)
        /\ permits' = permits + 1 - Cardinality(g)
        /\ UNCHANGED waiters

\* Faulty: a resumed waiter wakes nobody.
LeaveQueueAlone(c, to, back) ==
    /\ pc' = [pc EXCEPT ![c] = to]
    /\ permits' = permits + back
    /\ waiters' = Without(c)

\* What acquire does when it is resumed: c's future leaves the queue, "back"
\* permits return, and as many waiters are woken as there are permits.
LeaveQueue(c, to, back) ==
    LET g == Woken(permits + back, Without(c))
    IN  /\ Granting(c, to, g)
        /\ permits' = permits + back - Cardinality(g)
        /\ waiters' = Without(c)

-----------------------------------------------------------------------------
(* _run.                                                                   *)

Outcome(c) == IF why[c] = "timeout" THEN "unavailable" ELSE "cancelled"

\* A caller asks and there is a permit: its worker starts.
AcquireAtOnce(c) ==
    /\ pc[c] \in Ended
    /\ ~locked
    /\ pc' = [pc EXCEPT ![c] = "working"]
    /\ why' = [why EXCEPT ![c] = "none"]
    /\ work' = [work EXCEPT ![c] = "running"]
    /\ permits' = permits - 1
    /\ UNCHANGED waiters

Queue(c) ==
    /\ pc[c] \in Ended
    /\ locked
    /\ pc' = [pc EXCEPT ![c] = "queued"]
    /\ why' = [why EXCEPT ![c] = "none"]
    /\ waiters' = Append(waiters, c)
    /\ UNCHANGED <<work, permits>>

\* A waiter with a permit goes on and starts its worker.
Resume(c) ==
    /\ pc[c] = "granted"
    /\ LeaveQueue(c, "working", 0)
    /\ work' = [work EXCEPT ![c] = "running"]
    /\ UNCHANGED why

\* The acquire times out, or the caller is cancelled, before or after the
\* permit was handed over.
Interrupt(c, reason) ==
    /\ \/ pc[c] \in {"queued", "granted"}
       \/ pc[c] \in {"lapsed", "revoked"} /\ why[c] = "timeout" /\ reason = "cancel"
    /\ pc' = [pc EXCEPT ![c] = IF @ \in {"queued", "lapsed"} THEN "lapsed" ELSE "revoked"]
    /\ why' = [why EXCEPT ![c] = reason]
    /\ UNCHANGED <<work, permits, waiters>>

\* An interrupted waiter without a permit ends.
GiveUp(c) ==
    /\ pc[c] = "lapsed"
    /\ LeaveQueue(c, Outcome(c), 0)
    /\ UNCHANGED <<why, work>>

\* Faulty: the permit handed over is forgotten.
HandBackNothing(c) ==
    /\ pc[c] = "revoked"
    /\ LeaveQueue(c, Outcome(c), 0)
    /\ UNCHANGED <<why, work>>

\* An interrupted waiter gives the permit it was handed back.
HandBack(c) ==
    /\ pc[c] = "revoked"
    /\ LeaveQueue(c, Outcome(c), 1)
    /\ UNCHANGED <<why, work>>

\* The worker ends with a result or an exception.
WorkerEnds(c) ==
    /\ work[c] = "running"
    /\ \E r \in {"done", "error"} : work' = [work EXCEPT ![c] = r]
    /\ UNCHANGED <<pc, why, permits, waiters>>

\* The caller takes the worker's result or exception; "finally" releases.
Return(c) ==
    /\ pc[c] = "working"
    /\ work[c] \in {"done", "error"}
    /\ Release(c, IF work[c] = "done" THEN "answered" ELSE "failed")
    /\ work' = [work EXCEPT ![c] = "none"]
    /\ UNCHANGED why

\* A cancelled caller waits for its worker, however often it is cancelled.
CancelWorking(c) ==
    /\ pc[c] = "working"
    /\ pc' = [pc EXCEPT ![c] = "draining"]
    /\ UNCHANGED <<why, work, permits, waiters>>

Drained(c) ==
    /\ pc[c] = "draining"
    /\ work[c] \in {"done", "error"}
    /\ Release(c, IF work[c] = "done" THEN "cancelled" ELSE "failed")
    /\ work' = [work EXCEPT ![c] = "none"]
    /\ UNCHANGED why

\* What the event loop and the threads do by themselves.
Progress(c) ==
    Resume(c) \/ GiveUp(c) \/ HandBack(c) \/ WorkerEnds(c) \/ Return(c) \/ Drained(c)

HasherNext ==
    \E c \in Callers :
        \/ AcquireAtOnce(c)
        \/ Queue(c)
        \/ Interrupt(c, "timeout")
        \/ Interrupt(c, "cancel")
        \/ CancelWorking(c)
        \/ Progress(c)

HasherSpec == HasherInit /\ [][HasherNext]_hasherVars

\* Ready callbacks run and workers end.  Nothing is assumed of timeouts.
FairHasherSpec == HasherSpec /\ \A c \in Callers : WF_hasherVars(Progress(c))

-----------------------------------------------------------------------------
(* Properties.                                                             *)

Count(S) == Cardinality({c \in Callers : pc[c] \in S})

\* Every permit is free, on its way to a waiter, or held by a caller whose
\* worker is not yet accounted for: no timeout, cancellation or failure loses
\* one or returns it twice.  Every thread that hashes is behind a permit, also
\* when its request is long gone, so that there are never more of them than
\* the semaphore was made for.
PermitsConserved ==
    /\ permits + Count({"granted", "revoked", "working", "draining"}) = MaxConcurrency
    /\ \A c \in Callers : work[c] = "running" => pc[c] \in {"working", "draining"}
    /\ Cardinality({c \in Callers : work[c] = "running"}) <= MaxConcurrency

\* A waiter is handed a permit or gives up, without the help of the timeout:
\* a permit given back by an interrupted waiter reaches the next in the queue.
NobodyStarves ==
    \A c \in Callers : pc[c] = "queued" ~> pc[c] # "queued"
=============================================================================
