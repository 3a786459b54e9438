---------------------------- MODULE QuoteRefresh ----------------------------
(***************************************************************************)
(* Refreshing the quotes of overseas tickers                               *)
(* (backend/quote_refresh_service.py).                                     *)
(*                                                                         *)
(* Requests and the background scan call refresh, which joins the flight   *)
(* of the ticker or starts one: a task that waits for a slot, asks the     *)
(* provider, records the outcome and broadcasts.  Whoever awaits a flight  *)
(* and is cancelled cancels it.  The flight lock is never held across an   *)
(* await, so it never makes a caller wait.  Time is a clock; a failure     *)
(* makes a ticker, a rate limit the whole provider, wait longer each time. *)
(***************************************************************************)
EXTENDS Naturals, FiniteSets, Common

CONSTANTS
    Overseas,       \* the tickers
    Requests,       \* API requests, each at most once
    MaxConcurrency, Interval, ManualInterval, ErrorWait, RateWait, LongestWait,
    MaxFlights, MaxScans, MaxCancels, MaxClock      \* bounds

ASSUME RefreshAssumption ==
    /\ MaxConcurrency \in Nat \ {0} /\ MaxFlights \in Nat
    /\ {Interval, ManualInterval, ErrorWait, RateWait, LongestWait} \subseteq Nat
    /\ 1 <= ErrorWait /\ ErrorWait <= RateWait
    /\ Overseas # {} /\ Requests \cap Overseas = {}

VARIABLES
    now,
    quote,      \* the refresh state of each ticker
    provider,   \* the backoff of the whole provider
    flight,     \* the tasks, by number
    flights,    \* the task each ticker has in flight, or 0
    call,       \* the calls of refresh: the requests and the children of the scan
    scan,       \* the background scan
    cancels,
    warned      \* the tickers whose flight was under way when a rate limit was answered

qrVars == <<now, quote, provider, flight, flights, call, scan, cancels, warned>>

Flights == 1..MaxFlights
Calls == Requests \cup Overseas         \* the scan has one child for each ticker
RunningPcs == {"created", "waiting", "fetching", "broadcasting"}
UnderWay(t) == {f \in Flights : flight[f].ticker = t /\ flight[f].pc \in RunningPcs}
Fetching == {f \in Flights : flight[f].pc = "fetching"}

QrInit ==
    /\ now = 1
    /\ quote = [t \in Overseas |-> [attempt |-> 0, next |-> 0, backoff |-> 0, failures |-> 0, status |-> "pending"]]
    /\ provider = [until |-> 0, failures |-> 0]
    /\ flight = [f \in Flights |-> [pc |-> "none", ticker |-> CHOOSE t \in Overseas : TRUE, cancel |-> FALSE]]
    /\ flights = [t \in Overseas |-> 0]
    /\ call = [c \in Calls |-> [pc |-> "idle", flight |-> 0]]
    /\ scan = [pc |-> "sleeping", rounds |-> 0]
    /\ cancels = 0 /\ warned = {}

-----------------------------------------------------------------------------
(* refresh: from the call to the await                                     *)

NextFlight == Cardinality({f \in Flights : flight[f].pc # "none"}) + 1

\* mutant: only the provider's backoff counts
ProviderOnly(t) == provider.until
BackoffUntil(t) == Greatest({quote[t].backoff, provider.until})

JoinedFlight(t) == flights[t]

Throttled(t, manual) == manual /\ quote[t].attempt # 0 /\ now < quote[t].attempt + ManualInterval
BacksOff(t) == now < BackoffUntil(t)

\* A throttled call or one in backoff answers from the database
AnswersCached(t, status, next) ==
    quote' = [quote EXCEPT ![t].status = status, ![t].next = next]

Refresh(c, t, manual) ==
    \/ /\ Throttled(t, manual)
       /\ AnswersCached(t, "throttled", quote[t].attempt + ManualInterval)
       /\ call' = [call EXCEPT ![c].pc = "done"]
       /\ UNCHANGED <<flight, flights>>
    \/ /\ ~Throttled(t, manual) /\ BacksOff(t)
       /\ AnswersCached(t, "backoff", BackoffUntil(t))
       /\ call' = [call EXCEPT ![c].pc = "done"]
       /\ UNCHANGED <<flight, flights>>
    \/ /\ ~Throttled(t, manual) /\ ~BacksOff(t)
       /\ IF JoinedFlight(t) # 0
          THEN /\ call' = [call EXCEPT ![c] = [pc |-> "awaiting", flight |-> JoinedFlight(t)]]
               /\ UNCHANGED <<flight, flights>>
          ELSE /\ NextFlight <= MaxFlights
               /\ flight' = [flight EXCEPT ![NextFlight] = [pc |-> "created", ticker |-> t, cancel |-> FALSE]]
               /\ flights' = [flights EXCEPT ![t] = NextFlight]
               /\ call' = [call EXCEPT ![c] = [pc |-> "awaiting", flight |-> NextFlight]]
       /\ UNCHANGED quote

\* get_for_api: it asks when forced, or when the quote is due
Request(r, t, manual) ==
    /\ call[r].pc = "idle"
    /\ manual \/ quote[t].next <= now
    /\ Refresh(r, t, manual)
    /\ UNCHANGED <<now, provider, scan, cancels, warned>>

\* refresh_due: the due tickers, one child each
Scan ==
    /\ scan.pc = "sleeping" /\ scan.rounds < MaxScans
    /\ LET due == {t \in Overseas : quote[t].next <= now} IN
       /\ call' = [c \in Calls |-> IF c \in due THEN [pc |-> "called", flight |-> 0] ELSE call[c]]
       /\ scan' = [pc |-> "gathering", rounds |-> scan.rounds + 1]
    /\ UNCHANGED <<now, quote, provider, flight, flights, cancels, warned>>

ScanChild(t) ==
    /\ call[t].pc = "called"
    /\ Refresh(t, t, FALSE)
    /\ UNCHANGED <<now, provider, scan, cancels, warned>>

\* gather: every child has answered, was refused or was cancelled with its flight
ScanEnds ==
    /\ scan.pc = "gathering" /\ \A t \in Overseas : call[t].pc \in {"idle", "done"}
    /\ scan' = [scan EXCEPT !.pc = "sleeping"]
    /\ call' = [c \in Calls |-> IF c \in Overseas THEN [pc |-> "idle", flight |-> 0] ELSE call[c]]
    /\ UNCHANGED <<now, quote, provider, flight, flights, cancels, warned>>

-----------------------------------------------------------------------------
(* _perform_refresh                                                        *)

SlotFree == Cardinality(Fetching) < MaxConcurrency

\* The task begins to run; it asks the provider at once when a slot is free
FlightBegins(f) ==
    /\ flight[f].pc = "created" /\ ~flight[f].cancel
    /\ flight' = [flight EXCEPT ![f].pc = IF SlotFree THEN "fetching" ELSE "waiting"]
    /\ quote' = [quote EXCEPT ![flight[f].ticker].attempt = now, ![flight[f].ticker].status = "refreshing"]
    /\ UNCHANGED <<now, provider, flights, call, scan, cancels, warned>>

GetsSlot(f) ==
    /\ flight[f].pc = "waiting" /\ ~flight[f].cancel /\ SlotFree
    /\ flight' = [flight EXCEPT ![f].pc = "fetching"]
    /\ UNCHANGED <<now, quote, provider, flights, call, scan, cancels, warned>>

\* The quote is stored; the success ends every backoff, the provider's too
Succeeds(f) ==
    /\ flight[f].pc = "fetching" /\ ~flight[f].cancel
    /\ flight' = [flight EXCEPT ![f].pc = "broadcasting"]
    /\ quote' = [quote EXCEPT ![flight[f].ticker] =
                    [@ EXCEPT !.next = now + Interval, !.backoff = 0, !.failures = 0, !.status = "refreshed"]]
    /\ provider' = [until |-> 0, failures |-> 0] /\ warned' = {}
    /\ UNCHANGED <<now, flights, call, scan, cancels>>

Doubled(base, n) == Least({base * 2 ^ Least({n - 1, 5}), LongestWait})

\* No quote, an error or a timeout
Fails(f, rated) ==
    LET t == flight[f].ticker
        n == quote[t].failures + 1
        until == now + Doubled(IF rated THEN RateWait ELSE ErrorWait, n)
    IN
    /\ flight[f].pc = "fetching" /\ ~flight[f].cancel
    /\ flight' = [flight EXCEPT ![f].pc = "done"]
    /\ quote' = [quote EXCEPT ![t] = [@ EXCEPT !.failures = n, !.backoff = until, !.next = until, !.status = "backoff"]]
    /\ provider' = [until |-> IF rated THEN now + Doubled(RateWait, provider.failures + 1) ELSE provider.until,
                    failures |-> provider.failures + 1]
    /\ warned' = IF rated THEN {x \in Overseas : UnderWay(x) # {}} ELSE warned
    /\ UNCHANGED <<now, flights, call, scan, cancels>>

Broadcasts(f) ==
    /\ flight[f].pc = "broadcasting" /\ ~flight[f].cancel
    /\ flight' = [flight EXCEPT ![f].pc = "done"]
    /\ UNCHANGED <<now, quote, provider, flights, call, scan, cancels, warned>>

SaysCancelled(status) == "cancelled"

\* CancelledError, wherever the task is; a task that has not begun to run says nothing
EndsCancelled(f) ==
    /\ flight[f].pc \in RunningPcs /\ flight[f].cancel
    /\ flight' = [flight EXCEPT ![f].pc = "done"]
    /\ quote' = IF flight[f].pc = "created" THEN quote
                ELSE [quote EXCEPT ![flight[f].ticker].status = SaysCancelled(@)]
    /\ UNCHANGED <<now, provider, flights, call, scan, cancels, warned>>

-----------------------------------------------------------------------------
(* refresh: after the await                                                *)

Landed(t, f) == IF flights[t] = f THEN [flights EXCEPT ![t] = 0] ELSE flights

\* The flight is over: the first of those awaiting it takes it off the list
Returns(c) ==
    /\ call[c].pc = "awaiting" /\ flight[call[c].flight].pc = "done"
    /\ flights' = Landed(flight[call[c].flight].ticker, call[c].flight)
    /\ call' = [call EXCEPT ![c] = [pc |-> "done", flight |-> 0]]
    /\ UNCHANGED <<now, quote, provider, flight, scan, cancels, warned>>

\* A request or a scan is cancelled while it awaits: the flight is, and all who share it
Cancel(c) ==
    /\ call[c].pc = "awaiting" /\ cancels < MaxCancels
    /\ flight[call[c].flight].pc \in RunningPcs /\ ~flight[call[c].flight].cancel
    /\ flight' = [flight EXCEPT ![call[c].flight].cancel = TRUE]
    /\ cancels' = cancels + 1
    /\ UNCHANGED <<now, quote, provider, flights, call, scan, warned>>

QrTick == now < MaxClock /\ now' = now + 1 /\ UNCHANGED <<quote, provider, flight, flights, call, scan, cancels, warned>>

-----------------------------------------------------------------------------
FlightStep(f) ==
    FlightBegins(f) \/ GetsSlot(f) \/ Succeeds(f) \/ Broadcasts(f) \/ EndsCancelled(f) \/ \E rated \in BOOLEAN : Fails(f, rated)

QrNext ==
    \/ \E r \in Requests, t \in Overseas, manual \in BOOLEAN : Request(r, t, manual)
    \/ \E t \in Overseas : ScanChild(t)
    \/ \E f \in Flights : FlightStep(f)
    \/ \E c \in Calls : Returns(c) \/ Cancel(c)
    \/ Scan \/ ScanEnds \/ QrTick

QrSpec == QrInit /\ [][QrNext]_qrVars

-----------------------------------------------------------------------------
(* What the service promises                                               *)

\* Types, and the status says refreshing only while a task is
QrTypeOK ==
    /\ flights \in [Overseas -> 0..MaxFlights]
    /\ \A t \in Overseas : quote[t].failures <= MaxFlights /\ provider.failures <= MaxFlights
    /\ \A t \in Overseas : quote[t].status = "refreshing" => UnderWay(t) # {}

\* However callers join, fail and are cancelled, a ticker has one flight under way, and the
\* provider no more requests than it has slots
OneFlight == \A t \in Overseas : Cardinality(UnderWay(t)) <= 1
SlotsKept == Cardinality(Fetching) <= MaxConcurrency

\* A flight that is over is on the list only while one of its callers has yet to resume:
\* no later call is answered by it for ever
FlightsLand ==
    \A t \in Overseas : flights[t] # 0 => \E c \in Calls : call[c].pc = "awaiting" /\ call[c].flight = flights[t]

\* A ticker that failed is not asked for again before its backoff ends, although its
\* backoff is read before the task waits for a slot
TickerRests == \A f \in Fetching : quote[flight[f].ticker].backoff <= now

\* After a rate limit only the flights already under way reach the provider
ProviderRests == now < provider.until => \A f \in Fetching : flight[f].ticker \in warned

\* What the service promises of its flights, and of the pace of its requests
QuotesOrderly == QrTypeOK /\ OneFlight /\ SlotsKept /\ FlightsLand /\ TickerRests /\ ProviderRests

=============================================================================
