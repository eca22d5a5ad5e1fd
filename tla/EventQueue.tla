------------------------------ MODULE EventQueue ------------------------------
(***************************************************************************)
(* The queue between the event loop and the thread that writes operational *)
(* events (infrastructure/operational_events.py), over the life of one     *)
(* application (AuthProtectionComponents.lifespan): start, events, close.  *)
(* start, emit and aclose run on the event loop; aclose gives it up while  *)
(* it waits for the writer.  The writer thread may be stuck in a write for *)
(* ever.  The queue itself is queue.Queue with its shutdown.               *)
(***************************************************************************)
EXTENDS Naturals, Sequences

CONSTANTS
    QueueCapacity,  \* the queue's maximal size
    MaxEvents  \* bound on the number of events emitted

ASSUME QueueAssumption == QueueCapacity \in Nat \ {0} /\ MaxEvents \in Nat

VARIABLES
    accepting, closed,  \* the sink's flags
    queue,              \* the events in the queue
    shut,               \* the queue is shut down
    writer,             \* "new", "waiting", "writing" or "gone"
    current,            \* what the writer writes: no event or one
    closing,            \* "no", "joining" or "returned"
    emitted,            \* events emitted so far, which number them
    accepted,           \* history: the events put into the queue
    handled,            \* history: the events given to the stream
    discarded           \* history: the events the shutdown threw away

flags == <<accepting, closed, shut, closing>>
queueVars == <<flags, queue, writer, current, emitted, accepted, handled, discarded>>

QueueInit ==
    /\ accepting = FALSE
    /\ closed = FALSE
    /\ queue = <<>>
    /\ shut = FALSE
    /\ writer = "new"
    /\ current = <<>>
    /\ closing = "no"
    /\ emitted = 0
    /\ accepted = <<>>
    /\ handled = <<>>
    /\ discarded = <<>>

\* A closed sink is not started again, and a thread starts once.
start ==
    /\ ~closed
    /\ writer = "new"
    /\ writer' = "waiting"
    /\ accepting' = TRUE
    /\ UNCHANGED <<closed, shut, closing, queue, current, emitted, accepted, handled, discarded>>

QueueFull == Len(queue) >= QueueCapacity

\* An event is put into the queue, or dropped: the caller never waits.
emit ==
    /\ emitted < MaxEvents
    /\ emitted' = emitted + 1
    /\ IF accepting /\ ~shut /\ ~QueueFull
       THEN /\ queue' = Append(queue, emitted')
            /\ accepted' = Append(accepted, emitted')
       ELSE UNCHANGED <<queue, accepted>>
    /\ UNCHANGED <<flags, writer, current, handled, discarded>>

-----------------------------------------------------------------------------
(* _write_events.                                                          *)

get ==
    /\ writer = "waiting"
    /\ queue # <<>>
    /\ writer' = "writing"
    /\ current' = <<Head(queue)>>
    /\ queue' = Tail(queue)
    /\ UNCHANGED <<flags, emitted, accepted, handled, discarded>>

\* Faulty: an event whose write failed is put back.
WrittenOrPutBack ==
    /\ writer = "writing"
    /\ writer' = "waiting"
    /\ current' = <<>>
    /\ \/ handled' = handled \o current /\ UNCHANGED queue
       \/ queue' = queue \o current /\ UNCHANGED handled
    /\ UNCHANGED <<flags, emitted, accepted, discarded>>

\* The write returns or fails: the thread goes on.
Written ==
    /\ writer = "writing"
    /\ writer' = "waiting"
    /\ current' = <<>>
    /\ handled' = handled \o current
    /\ UNCHANGED <<flags, queue, emitted, accepted, discarded>>

\* get() raises ShutDown once the queue is shut and empty.
Leave ==
    /\ writer = "waiting"
    /\ shut
    /\ queue = <<>>
    /\ writer' = "gone"
    /\ UNCHANGED <<flags, queue, current, emitted, accepted, handled, discarded>>

-----------------------------------------------------------------------------
(* aclose.                                                                 *)

\* Admission stops.  A writer that runs is waited for, unless no grace was
\* given; otherwise what is queued is discarded at once.
BeginClose(grace) ==
    /\ closing = "no"
    /\ accepting' = FALSE
    /\ closed' = TRUE
    /\ shut' = TRUE
    /\ IF writer # "new" /\ grace
       THEN /\ closing' = "joining"
            /\ UNCHANGED <<queue, discarded>>
       ELSE /\ closing' = "returned"
            /\ queue' = <<>>
            /\ discarded' = queue
    /\ UNCHANGED <<writer, current, emitted, accepted, handled>>

\* The immediate shutdown.
Discard ==
    /\ closing' = "returned"
    /\ shut' = TRUE
    /\ queue' = <<>>
    /\ discarded' = queue
    /\ UNCHANGED <<accepting, closed, writer, current, emitted, accepted, handled>>

\* The writer has gone in time.
Joined ==
    /\ closing = "joining"
    /\ writer = "gone"
    /\ Discard

\* Faulty: the wait is not bounded.
WaitOn ==
    /\ closing = "joining"
    /\ writer = "gone"
    /\ Discard

\* The grace ran out (also while the join waits for a free executor thread),
\* or aclose was cancelled.
GaveUp ==
    /\ closing = "joining"
    /\ Discard

QueueNext ==
    \/ start \/ emit
    \/ get \/ Written \/ Leave
    \/ \E grace \in BOOLEAN : BeginClose(grace)
    \/ Joined \/ GaveUp

QueueSpec == QueueInit /\ [][QueueNext]_queueVars

\* The timer fires and the thread runs; a write need not return.
FairQueueSpec == QueueSpec /\ WF_queueVars(GaveUp) /\ WF_queueVars(get) /\ WF_queueVars(Leave)

-----------------------------------------------------------------------------
(* Properties.                                                             *)

\* Every event the queue accepted is written, being written, queued or thrown
\* away by the shutdown, once and in the order of acceptance.  Once aclose has
\* returned nothing is queued: only a write under way may still end.  A writer
\* that ends before the shutdown gives up on it has written all of them.
EventsKeepOrder ==
    /\ accepted = handled \o current \o queue \o discarded
    /\ closing = "returned" => queue = <<>>
    /\ writer = "gone" /\ closing = "joining" => handled = accepted

\* aclose returns, even when the stream blocks for ever.
CloseReturns == closing = "joining" ~> closing = "returned"
=============================================================================
