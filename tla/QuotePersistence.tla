-------------------------- MODULE QuotePersistence --------------------------
(***************************************************************************)
(* RealtimeQuotePersistenceBuffer (backend/realtime_quote_persistence.py)  *)
(* and the upsert it writes through: quotes are merged per ticker in       *)
(* memory and a worker task writes them to market_quotes_latest.           *)
(*                                                                         *)
(* The buffer is asyncio code whose locked sections never await, so the    *)
(* lock is never contended and an action is the code between two awaits of *)
(* the worker (the event, the sleep, _persist_quote), a whole enqueue, or  *)
(* a step of shutdown.                                                     *)
(* A quote keeps what tells versions apart: ts, the event time that orders *)
(* them; last, the fields that follow the newest quote; high, a session    *)
(* extremum (low behaves like it).  Every quote has an event time.         *)
(***************************************************************************)
EXTENDS Integers, Sequences

CONSTANTS
    Tickers,        \* normalized tickers
    Times,          \* event times
    Prices,         \* what last and high may be
    Arrivals,       \* the quotes the ticks bring
    Capacity,       \* capacity
    NoQuote,        \* a ticker without a quote
    Faults          \* what the database may do: "error", "unknown", "hang"

Quote == [ts : Times, last : Prices, high : Prices]

ASSUME BufferAssumption ==
    /\ Times \subseteq Int /\ Prices \subseteq Int
    /\ Capacity \in Nat \ {0}
    /\ NoQuote \notin Quote /\ Arrivals \subseteq Quote
    /\ Faults \subseteq {"error", "unknown", "hang"}

VARIABLES
    order,      \* the keys of _pending, least recently updated first
    pending,    \* _pending: the merged quote of each ticker
    worker,     \* the await _run is suspended in, "none" when there is no worker
    batch,      \* the tickers flush_once still has to write, in order
    failed,     \* the tickers whose write failed, in order
    taken,      \* the payloads flush_once took that are in batch or failed
    event,      \* _event
    closing,    \* _closing
    shut,       \* progress of shutdown()
    db,         \* market_quotes_latest
    truth,      \* the merge of all quotes accepted so far
    lost        \* tickers a quote of which was dropped or abandoned

bufVars == <<order, pending>>
flushVars == <<batch, failed, taken>>
vars == <<order, pending, worker, batch, failed, taken, event, closing, shut,
          db, truth, lost>>

-----------------------------------------------------------------------------
(* Merging                                                                 *)

\* mutant: the incoming quote replaces the current one
MergeIncoming(cur, inc) == IF inc = NoQuote THEN cur ELSE inc

\* merge_quote_updates
Merge(cur, inc) ==
    IF cur = NoQuote THEN inc
    ELSE IF inc = NoQuote THEN cur
    ELSE [ts   |-> IF inc.ts >= cur.ts THEN inc.ts ELSE cur.ts,
          last |-> IF inc.ts >= cur.ts THEN inc.last ELSE cur.last,
          high |-> IF inc.high >= cur.high THEN inc.high ELSE cur.high]

\* mutant: the upsert does not compare event times
UpsertAny(t) == [db EXCEPT ![t] = MergeIncoming(@, taken[t])]

\* upsert_market_quote: the same rule once more, in SQL
Upsert(t) == [db EXCEPT ![t] = Merge(@, taken[t])]

Elements(s) == {s[i] : i \in DOMAIN s}

\* The elements of S in the order they have in s
Ordered(s, S) ==
    {g \in UNION {[1..n -> S] : n \in 0..Len(s)} :
        /\ Elements(g) = S
        /\ \A i, j \in DOMAIN g : i < j =>
              \E a, b \in DOMAIN s : a < b /\ s[a] = g[i] /\ s[b] = g[j]}

-----------------------------------------------------------------------------
Init ==
    /\ order = <<>> /\ pending = [t \in Tickers |-> NoQuote]
    /\ worker = "none"
    /\ batch = <<>> /\ failed = <<>> /\ taken = [t \in Tickers |-> NoQuote]
    /\ event = FALSE /\ closing = FALSE /\ shut = "no"
    /\ db = [t \in Tickers |-> NoQuote]
    /\ truth = [t \in Tickers |-> NoQuote]
    /\ lost = {}

\* enqueue and _ensure_worker.  A known ticker is merged and moved to the end; for
\* a new one the least recently updated ticker is dropped when the buffer is full.
Enqueue(t, q) ==
    /\ ~closing
    /\ truth' = [truth EXCEPT ![t] = Merge(@, q)]
    /\ \/ /\ pending[t] # NoQuote
          /\ \E others \in Ordered(order, Elements(order) \ {t}) :
                order' = Append(others, t)
          /\ pending' = [pending EXCEPT ![t] = Merge(@, q)]
          /\ UNCHANGED lost
       \/ /\ pending[t] = NoQuote /\ Len(order) < Capacity
          /\ order' = Append(order, t)
          /\ pending' = [pending EXCEPT ![t] = q]
          /\ UNCHANGED lost
       \/ /\ pending[t] = NoQuote /\ Len(order) >= Capacity
          /\ order' = Append(Tail(order), t)
          /\ pending' = [pending EXCEPT ![Head(order)] = NoQuote, ![t] = q]
          /\ lost' = lost \cup {Head(order)}
    /\ event' = TRUE
    /\ worker' = IF worker = "none" THEN "event" ELSE worker
    /\ UNCHANGED <<batch, failed, taken, closing, shut, db>>

-----------------------------------------------------------------------------
(* The worker                                                              *)

\* The head of _run's loop: an event that is set is not waited for, and unless the
\* buffer is closing the worker then sleeps
NextAwait(set) == IF set THEN "sleep" ELSE "event"

\* flush_once up to its first write: take everything that is pending
TakePending ==
    /\ pending' = [t \in Tickers |-> NoQuote]
    /\ order' = <<>>
    /\ event' = FALSE
    /\ IF order = <<>>
       THEN /\ worker' = IF closing THEN "none" ELSE "event"
            /\ UNCHANGED flushVars
       ELSE /\ worker' = "persist"
            /\ batch' = order /\ failed' = <<>> /\ taken' = pending

\* _run resumes from the event: sleep, or flush at once when the buffer is closing
WakeUp ==
    /\ worker = "event" /\ event
    /\ IF closing
       THEN TakePending
       ELSE /\ worker' = "sleep"
            /\ UNCHANGED <<order, pending, event, batch, failed, taken>>
    /\ UNCHANGED <<closing, shut, db, truth, lost>>

\* The flush interval is over
SleepOver ==
    /\ worker = "sleep"
    /\ TakePending
    /\ UNCHANGED <<closing, shut, db, truth, lost>>

\* mutant: what was taken is put back over what came since
RequeueOver(f) == [t \in Tickers |-> IF t \in Elements(f) THEN taken[t] ELSE pending[t]]

\* The requeue at the end of flush_once: a failed payload is merged with what came
\* since, which is newer; a ticker not yet pending again goes to the end.  No
\* capacity is checked.
Requeue(f) == [t \in Tickers |-> IF t \in Elements(f) THEN Merge(taken[t], pending[t])
                                                      ELSE pending[t]]

\* mutant: the keys of what failed are not put back
NoKeys(f) == {}
NewKeys(f) == {t \in Elements(f) : pending[t] = NoQuote}

\* mutant: the worker is not woken for what failed
EventAsBefore(f) == event
EventAfter(f) == event \/ f # <<>>

\* The write of the first ticker of the batch is over, and f has failed so far
WriteOver(f) ==
    IF Tail(batch) # <<>>
    THEN /\ batch' = Tail(batch) /\ failed' = f
         /\ taken' = [t \in Tickers |->
                        IF t = Head(batch) /\ t \notin Elements(f) THEN NoQuote ELSE taken[t]]
         /\ UNCHANGED <<order, pending, event, worker>>
    ELSE /\ batch' = <<>> /\ failed' = <<>> /\ taken' = [t \in Tickers |-> NoQuote]
         /\ pending' = Requeue(f)
         /\ \E new \in Ordered(f, NewKeys(f)) : order' = order \o new
         /\ event' = EventAfter(f)
         /\ worker' = IF closing THEN "none" ELSE NextAwait(EventAfter(f))

PersistOk(t) ==
    /\ worker = "persist" /\ t = Head(batch)
    /\ db' = Upsert(t)
    /\ WriteOver(failed)
    /\ UNCHANGED <<closing, shut, truth, lost>>

\* The write raises, without effect or after the server has done it
PersistFails(t) ==
    /\ worker = "persist" /\ t = Head(batch)
    /\ \/ "error" \in Faults /\ UNCHANGED db
       \/ "unknown" \in Faults /\ db' = Upsert(t)
    /\ WriteOver(Append(failed, t))
    /\ UNCHANGED <<closing, shut, truth, lost>>

-----------------------------------------------------------------------------
(* shutdown()                                                              *)

Shutdown ==
    /\ shut = "no"
    /\ closing' = TRUE /\ event' = TRUE
    /\ shut' = IF worker = "none" THEN "returned" ELSE "waiting"
    /\ UNCHANGED <<order, pending, worker, batch, failed, taken, db, truth, lost>>

ShutdownReturns ==
    /\ shut = "waiting" /\ worker = "none"
    /\ shut' = "returned"
    /\ UNCHANGED <<order, pending, worker, batch, failed, taken, event, closing,
                   db, truth, lost>>

\* wait_for gives up on a write that hangs and cancels the worker: what flush_once
\* holds goes with it.  The write itself may have been done.
ShutdownTimesOut ==
    /\ "hang" \in Faults
    /\ shut = "waiting" /\ worker = "persist"
    /\ \/ UNCHANGED db
       \/ db' = Upsert(Head(batch))
    /\ worker' = "none" /\ shut' = "timed_out"
    /\ batch' = <<>> /\ failed' = <<>> /\ taken' = [t \in Tickers |-> NoQuote]
    /\ lost' = lost \cup {t \in Tickers : taken[t] # NoQuote}
    /\ UNCHANGED <<order, pending, event, closing, truth>>

-----------------------------------------------------------------------------
Worker == \/ WakeUp \/ SleepOver
          \/ \E t \in Tickers : PersistOk(t) \/ PersistFails(t)

Next ==
    \/ \E t \in Tickers, q \in Arrivals : Enqueue(t, q)
    \/ Worker
    \/ Shutdown \/ ShutdownReturns \/ ShutdownTimesOut

Spec == Init /\ [][Next]_vars

\* The event loop runs a task that is ready, and a database that is asked again and
\* again answers at last.
LiveSpec ==
    /\ Spec
    /\ WF_vars(Worker)
    /\ \A t \in Tickers : SF_vars(PersistOk(t))

-----------------------------------------------------------------------------
(* Properties                                                              *)

QuoteOrNone == Quote \cup {NoQuote}

BufferOK ==
    /\ order \in Seq(Tickers)
    /\ pending \in [Tickers -> QuoteOrNone]
    /\ \A t \in Tickers : pending[t] # NoQuote => t \in Elements(order)

FlushOK ==
    /\ batch \in Seq(Tickers) /\ failed \in Seq(Tickers)
    /\ taken \in [Tickers -> QuoteOrNone]
    /\ worker \in {"none", "event", "sleep", "persist"}
    /\ worker = "persist" <=> batch # <<>>
    /\ batch = <<>> => failed = <<>>
    /\ \A t \in Tickers : taken[t] # NoQuote => t \in Elements(batch) \cup Elements(failed)

\* The tables are quotes per ticker, the key lists name all they hold, and only a
\* worker in the middle of a flush holds anything.
TypeOK ==
    /\ BufferOK /\ FlushOK
    /\ db \in [Tickers -> QuoteOrNone] /\ truth \in [Tickers -> QuoteOrNone]
    /\ event \in BOOLEAN /\ closing \in BOOLEAN /\ lost \subseteq Tickers
    /\ shut \in {"no", "waiting", "returned", "timed_out"}

\* Nothing accepted is lost on the way: the stored quote, what a flush holds and
\* what is pending merge to the merge of all quotes accepted, whatever failed, was
\* written twice or arrived out of order.
NothingLost ==
    \A t \in Tickers \ lost : Merge(Merge(db[t], taken[t]), pending[t]) = truth[t]

\* What holds of the buffer and the table at any time
BufferSound == TypeOK /\ NothingLost

\* A stored quote never goes back in event time or in its extremum.
NoRegression ==
    [][\A t \in Tickers :
         db[t] # NoQuote =>
            db'[t] # NoQuote /\ db'[t].ts >= db[t].ts /\ db'[t].high >= db[t].high]_vars

\* shutdown() leaves no accepted quote unwritten.
DrainedAtShutdown == shut = "returned" => order = <<>>

\* Until the buffer closes, an accepted quote is stored, or superseded by a newer
\* one that is, or its ticker dropped.
EventuallyPersisted ==
    \A t \in Tickers, n \in Times :
        (truth[t] # NoQuote /\ truth[t].ts = n)
            ~> (closing \/ t \in lost \/ (db[t] # NoQuote /\ db[t].ts >= n))

=============================================================================
