-------------------------- MODULE SubscriptionPool --------------------------
(***************************************************************************)
(* The assignment half of FubonRealtimeSubscriptionPool                    *)
(* (backend/fubon_realtime_pool.py): which requested ticker is served by   *)
(* which account, the reference counts of the physical subscriptions, and  *)
(* the subscription tables of the FubonSDKManager sessions underneath.     *)
(*                                                                         *)
(* The pool is asyncio code: a coroutine runs alone between two awaits, so *)
(* one action is the code between two awaits.  Coroutines are processes:   *)
(*   - a ticker t stands for the task _pending_tasks[t],                   *)
(*   - Callers are coroutines that await the same helpers directly         *)
(*     (ensure_source_tickers, the session watchdog),                      *)
(*   - Rebuilder is the holder of _reload_lock (reconnect_account and      *)
(*     reload_from_db, which that lock serialises).                        *)
(* A contract is a pair (symbol, after_hours); an account's session serves *)
(* one market.                                                             *)
(***************************************************************************)
EXTENDS Naturals, Sequences, FiniteSets

CONSTANTS
    Tickers,          \* requested (user-facing) tickers
    Contracts,        \* physical contracts a ticker may resolve to
    FirstTarget,      \* the contract each ticker resolves to at first
    Accounts,         \* enabled Fubon account ids, a set of numbers
    Primary,          \* the account driven by _primary_manager
    Mode,             \* configured ws_mode of each account
    Sources,          \* consumers that register tickers
    Watchlist,        \* the passive source, WATCHLIST_SOURCE
    Consumers,        \* coroutines of ensure_source_tickers
    Watchdogs,        \* coroutines of refresh_session_assignments
    Rebuilder,        \* the coroutine holding _reload_lock
    ChannelsFor,      \* _channels_for: the channels of each mode, in order
    NoContract,       \* a contract lookup that found nothing
    NoAssignment,     \* a ticker absent from _assignments
    Nobody,           \* the holder of a free lock
    Faults            \* the environment's faults that may happen

Modes == {"Normal", "Speed"}
Callers == Consumers \cup Watchdogs
Procs == Tickers \cup Callers \cup {Rebuilder}
Keys == [acct : Accounts, contract : Contracts, mode : Modes]
Subs == Contracts \X UNION {{ChannelsFor[m][i] : i \in DOMAIN ChannelsFor[m]} : m \in Modes}

ASSUME PoolAssumption ==
    /\ IsFiniteSet(Tickers) /\ IsFiniteSet(Consumers) /\ IsFiniteSet(Watchdogs)
    /\ Accounts \subseteq Nat /\ IsFiniteSet(Accounts) /\ Primary \in Accounts
    /\ Mode \in [Accounts -> Modes]
    /\ FirstTarget \in [Tickers -> Contracts]
    /\ Watchlist \in Sources
    /\ DOMAIN ChannelsFor = Modes
    /\ \A m \in Modes : /\ Len(ChannelsFor[m]) > 0
                        /\ DOMAIN ChannelsFor[m] = 1..Len(ChannelsFor[m])
    /\ NoContract \notin Contracts
    /\ NoAssignment \notin Keys /\ Nobody \notin Procs
    /\ Callers \cap Tickers = {} /\ Consumers \cap Watchdogs = {}
    /\ Rebuilder \notin Tickers \cup Callers
    /\ Faults \subseteq {"roll", "disconnect", "invalidate", "rest",
                         "refuse", "timeout", "reload"}

VARIABLES
    source,    \* _source_tickers
    resolve,   \* what _resolve_target would answer now
    assign,    \* _assignments
    phys,      \* _physical_subscriptions
    aliases,   \* _resolved_to_requested
    holder,    \* who holds _assignment_lock
    waiting,   \* the place of each waiter in its queue, 0 for the others
    proc,      \* the coroutines
    session,   \* runtime state of the account's FubonSDKManager
    sdk,       \* FubonSDKManager._subscriptions of the current session
    late,      \* subscribe requests given up on that the server may still ack
    rebuild    \* progress of reconnect_account / reload_from_db

poolVars == <<source, assign, phys, aliases>>
lock == <<holder, waiting>>
vars == <<source, resolve, assign, phys, aliases, lock, proc, session, sdk,
          late, rebuild>>

\* pc: the await the coroutine is suspended in.  ticker, target, cands, mode, ch:
\* the locals of _ensure_assignment and _subscribe_target_on_manager.  live: the
\* awaited ack future is still registered with the manager.  todo: the helper
\* calls <<helper, ticker>> the loop of a Caller or of the Rebuilder still makes.
Idle == [pc |-> "idle", ticker |-> NoContract, target |-> NoContract,
         cands |-> <<>>, mode |-> "Speed", ch |-> 0, live |-> FALSE, todo |-> {}]

-----------------------------------------------------------------------------
(* Reading the state                                                       *)

\* _has_any_source
HasAnySource(t) == \E s \in Sources : t \in source[s]

Desired == {t \in Tickers : HasAnySource(t)}
Assigned(t) == assign[t] # NoAssignment
AssignedTo(k) == {t \in Tickers : assign[t] = k}
Connected(a) == session[a].phase = "up"

\* The first n of a contract's subscriptions in a mode, and all of them
FirstChannels(c, m, n) == {<<c, ChannelsFor[m][i]>> : i \in 1..n}
Channels(c, m) == {<<c, ChannelsFor[m][i]>> : i \in DOMAIN ChannelsFor[m]}

\* _preferred_ws_modes_for_ticker: any source beyond the watchlist wants Normal
PreferredMode(t) ==
    IF \E s \in Sources \ {Watchlist} : t \in source[s] THEN "Normal" ELSE "Speed"

\* _mode_priority
ModePriority(a, t) == IF session[a].mode = PreferredMode(t) THEN 0 ELSE 1

Load(counts, a) == Cardinality({k \in Keys : k.acct = a /\ counts[k] > 0})

KeyOf(a, c) == [acct |-> a, contract |-> c, mode |-> session[a].mode]

\* The sort key of _candidate_managers, for the reference counts it sees
CandidateRank(counts, a, t, c) ==
    << IF session[a].healthy THEN 0 ELSE 1,
       ModePriority(a, t),
       IF counts[KeyOf(a, c)] > 0 THEN 0 ELSE 1,
       Load(counts, a),
       IF a = Primary THEN 0 ELSE 1,
       a >>

RankBefore(u, v) ==
    \E i \in DOMAIN u : u[i] < v[i] /\ \A j \in 1..(i - 1) : u[j] = v[j]

\* _candidate_managers: the connected accounts in rank order
CandidateManagers(counts, t, c) ==
    LET up == {a \in Accounts : Connected(a)}
        n == Cardinality(up)
    IN {q \in [1..n -> up] :
            \A i, j \in 1..n :
                i < j => RankBefore(CandidateRank(counts, q[i], t, c),
                                    CandidateRank(counts, q[j], t, c))}

KeepsAnyContract(t, c) ==                 \* mutant: the target is not compared
    Assigned(t) /\ Connected(assign[t].acct) /\ session[assign[t].acct].healthy

\* _assignment_matches_target and _assignment_satisfies_preference
KeepsAssignment(t, c) ==
    /\ Assigned(t)
    /\ LET a == assign[t].acct
       IN /\ Connected(a)
          /\ assign[t].contract = c
          /\ session[a].healthy
          /\ \A b \in Accounts :
                Connected(b) => ModePriority(a, t) <= ModePriority(b, t)

-----------------------------------------------------------------------------
(* Pieces of the handlers                                                  *)

\* asyncio.Lock: the lock is handed to the waiters in the order they came
HoldsAlways(p) == TRUE                    \* mutant: no "async with"
Holds(p) == holder = p

Queue(p) ==
    IF holder = Nobody
    THEN holder' = p /\ UNCHANGED waiting
    ELSE /\ waiting' = [waiting EXCEPT ![p] =
                            1 + Cardinality({q \in Procs : waiting[q] > 0})]
         /\ UNCHANGED holder

LeaveHeld(T) ==                           \* mutant: a cancelled holder keeps the lock
    IF holder \in T THEN UNCHANGED lock
    ELSE /\ UNCHANGED holder
         /\ waiting' = [q \in Procs |-> IF q \in T THEN 0 ELSE waiting[q]]

\* The coroutines of T release the lock or stop waiting for it
Leave(T) ==
    LET stay == {q \in Procs \ T : waiting[q] > 0}
        places(W) == [q \in Procs |->
                        IF q \in W THEN Cardinality({r \in W : waiting[r] <= waiting[q]})
                        ELSE 0]
    IN \/ /\ holder \notin T
          /\ waiting' = places(stay)
          /\ UNCHANGED holder
       \/ /\ holder \in T /\ stay = {}
          /\ holder' = Nobody
          /\ waiting' = places({})
       \/ /\ holder \in T
          /\ \E first \in stay :
                /\ \A r \in stay : waiting[first] <= waiting[r]
                /\ holder' = first
                /\ waiting' = places(stay \ {first})

Release(p) == Leave({p})

\* What a coroutine does when its helper returns: a task ends, a caller or the
\* rebuilder goes on with the helper calls it still has to make.
Returned(p) == [Idle EXCEPT !.pc = IF p \in Tickers THEN "idle" ELSE "loop",
                            !.todo = proc[p].todo]
Return(p) == proc' = [proc EXCEPT ![p] = Returned(p)]

\* _remove_assignment_locked: the reference counts it leaves ...
PopsCount(t) ==                           \* mutant: the last alias takes all
    IF Assigned(t) THEN [phys EXCEPT ![assign[t]] = 0] ELSE phys
CountsWithout(t) ==
    IF Assigned(t)
    THEN [phys EXCEPT ![assign[t]] = IF @ > 1 THEN @ - 1 ELSE 0]
    ELSE phys

\* ... the alias index it leaves ...
KeepsAlias(t) == aliases                  \* mutant: the alias is not discarded
AliasesWithout(t) ==
    IF Assigned(t) THEN [aliases EXCEPT ![assign[t].contract] = @ \ {t}] ELSE aliases

\* ... and whether it goes on to the unsubscribe calls
EveryReference(k) == TRUE                 \* mutant: unsubscribes for each alias
LastReference(k) == phys[k] <= 1

RemoveAssignmentLocked(t) ==
    /\ phys' = CountsWithout(t)
    /\ aliases' = AliasesWithout(t)
    /\ assign' = [assign EXCEPT ![t] = NoAssignment]
    /\ sdk' = IF Assigned(t) /\ LastReference(assign[t])
              THEN [sdk EXCEPT ![assign[t].acct] =
                        @ \ Channels(assign[t].contract, assign[t].mode)]
              ELSE sdk

\* Recording the assignment at the end of _ensure_assignment
RecordAssignment(t, k) ==
    /\ assign' = [assign EXCEPT ![t] = k]
    /\ phys' = [phys EXCEPT ![k] = @ + 1]
    /\ aliases' = [aliases EXCEPT ![k.contract] = @ \cup {t}]

\* The except branch of the candidate loop: the next account, or give up
NextCandidate(p) ==
    IF Len(proc[p].cands) > 1
    THEN /\ proc' = [proc EXCEPT ![p].pc = "starting", ![p].cands = Tail(@)]
         /\ UNCHANGED lock
    ELSE Return(p) /\ Release(p)

\* The channel loop of _subscribe_target_on_manager from channel i on.  A channel
\* the session already has is not requested again; without a websocket target
\* _subscribe_async returns at once; otherwise the request is recorded and sent.
SubscribeFrom(p, i, mode) ==
    LET a == Head(proc[p].cands)
        c == proc[p].target
        missing == {n \in DOMAIN ChannelsFor[mode] :
                        n >= i /\ <<c, ChannelsFor[mode][n]>> \notin sdk[a]}
    IN IF session[a].phase \in {"down", "init"} \/ missing = {}
       THEN /\ RecordAssignment(proc[p].ticker,
                                [acct |-> a, contract |-> c, mode |-> mode])
            /\ Return(p) /\ Release(p)
            /\ UNCHANGED sdk
       ELSE \E j \in missing :
            /\ \A n \in missing : j <= n
            /\ sdk' = [sdk EXCEPT ![a] = @ \cup {<<c, ChannelsFor[mode][j]>>}]
            /\ proc' = [proc EXCEPT ![p].pc = "subscribing", ![p].mode = mode,
                                    ![p].ch = j, ![p].live = TRUE]
            /\ UNCHANGED <<assign, phys, aliases, lock>>

\* _reset_runtime_state: a new generation with empty tables; the futures of
\* requests sent to the old session are forgotten.
ResetSession(a, phase) ==
    /\ session' = [session EXCEPT ![a].phase = phase, ![a].mode = "Speed",
                                  ![a].started = FALSE]
    /\ sdk' = [sdk EXCEPT ![a] = {}]
    /\ late' = {r \in late : r.acct # a}
    /\ proc' = [p \in Procs |->
                    IF proc[p].pc = "subscribing" /\ Head(proc[p].cands) = a
                    THEN [proc[p] EXCEPT !.live = FALSE]
                    ELSE proc[p]]

\* The end of _init_with_account, and whether it is followed by start_ws_*
SessionUp(a, start) ==
    session' = [session EXCEPT ![a].phase = "up", ![a].mode = Mode[a],
                               ![a].started = start, ![a].healthy = @ \/ start]

\* _schedule_task for every ticker of T: an unfinished task of the ticker is
\* cancelled wherever it is suspended, and the new one queued.
ScheduleTasks(T, helper) ==
    /\ proc' = [p \in Procs |->
                    IF p \in T THEN [Idle EXCEPT !.pc = helper[p], !.ticker = p]
                    ELSE proc[p]]
    /\ Leave(T)

-----------------------------------------------------------------------------
Init ==
    /\ source = [s \in Sources |-> {}]
    /\ resolve = FirstTarget
    /\ assign = [t \in Tickers |-> NoAssignment]
    /\ phys = [k \in Keys |-> 0]
    /\ aliases = [c \in Contracts |-> {}]
    /\ holder = Nobody
    /\ waiting = [p \in Procs |-> 0]
    /\ proc = [p \in Procs |-> Idle]
    /\ session = [a \in Accounts |-> [phase |-> "up", mode |-> Mode[a],
                                      started |-> FALSE, healthy |-> TRUE]]
    /\ sdk = [a \in Accounts |-> {}]
    /\ late = {}
    /\ rebuild = [pc |-> "idle", acct |-> Primary, left |-> {}]

-----------------------------------------------------------------------------
(* Callers of the pool                                                     *)

\* track_ticker
TrackTicker(s, t) ==
    /\ t \notin source[s]
    /\ source' = [source EXCEPT ![s] = @ \cup {t}]
    /\ ScheduleTasks({t}, [u \in {t} |-> "ensure"])
    /\ UNCHANGED <<resolve, assign, phys, aliases, session, sdk, late, rebuild>>

\* untrack_ticker: schedules the refresh whether or not the source had the ticker
UntrackTicker(s, t) ==
    /\ source' = [source EXCEPT ![s] = @ \ {t}]
    /\ ScheduleTasks({t}, [u \in {t} |-> "refresh"])
    /\ UNCHANGED <<resolve, assign, phys, aliases, session, sdk, late, rebuild>>

\* set_source_tickers with wait_for_assignments=False (sync_watchlist_from_db)
SetSourceTickers(s, T) ==
    LET changed == (source[s] \ T) \cup (T \ source[s])
    IN /\ changed # {}
       /\ source' = [source EXCEPT ![s] = T]
       /\ ScheduleTasks(changed,
                        [t \in changed |-> IF t \in T THEN "ensure" ELSE "refresh"])
       /\ UNCHANGED <<resolve, assign, phys, aliases, session, sdk, late, rebuild>>

\* ensure_source_tickers: the same, awaited, and then once more for the tickers
\* that still have no assignment
EnsureSourceTickers(p, s, T) ==
    /\ proc[p].pc = "idle"
    /\ source' = [source EXCEPT ![s] = T]
    /\ proc' = [proc EXCEPT ![p].pc = "loop",
                            ![p].todo = {<<"refresh", t>> : t \in source[s] \ T}
                                  \cup {<<"ensure", t>> : t \in T \ source[s]}
                                  \cup {<<"missing", t>> : t \in T}]
    /\ UNCHANGED <<resolve, assign, phys, aliases, lock, session, sdk, late, rebuild>>

\* The ensure loop of refresh_session_assignments and the missing-ticker loop of
\* _recover_missing_assignments (its accounts are reconnected by StartRebuild)
RefreshSessionAssignments(p) ==
    /\ proc[p].pc = "idle"
    /\ Desired # {}
    /\ proc' = [proc EXCEPT ![p].pc = "loop",
                            ![p].todo = {<<"ensure", t>> : t \in {u \in Desired : Assigned(u)}}
                                  \cup {<<"missing", t>> : t \in Desired}]
    /\ UNCHANGED <<source, resolve, assign, phys, aliases, lock, session, sdk,
                   late, rebuild>>

\* One turn of such a loop over the calls in todo: removals and refreshes first,
\* then the first ensure of each ticker, then the retry of those left without an
\* assignment.
Turn(p, todo) ==
    LET of(h) == {x \in todo : x[1] \in h}
        first == IF of({"remove", "refresh"}) # {} THEN of({"remove", "refresh"})
                 ELSE IF of({"ensure"}) # {} THEN of({"ensure"})
                 ELSE todo
        call(x) == CASE x[1] = "remove" -> "removing"
                     [] x[1] = "refresh" -> "refresh"
                     [] x[1] = "missing" /\ Assigned(x[2]) -> "loop"
                     [] OTHER -> "ensure"
    IN \/ /\ todo = {}
          /\ proc' = [proc EXCEPT ![p] = Idle]
          /\ UNCHANGED lock
       \/ \E x \in first :
          /\ proc' = [proc EXCEPT ![p] = [Idle EXCEPT !.pc = call(x), !.ticker = x[2],
                                                     !.todo = todo \ {x}]]
          /\ IF x[1] = "remove" THEN Queue(p) ELSE UNCHANGED lock

LoopTurn(p) ==
    /\ proc[p].pc = "loop"
    /\ Turn(p, proc[p].todo)
    /\ rebuild' = IF p = Rebuilder /\ proc[p].todo = {}
                  THEN [rebuild EXCEPT !.pc = "idle"] ELSE rebuild
    /\ UNCHANGED <<source, resolve, assign, phys, aliases, session, sdk, late>>

-----------------------------------------------------------------------------
(* The helper coroutines                                                   *)

\* mutant: nothing is queued for a ticker that has no assignment yet
RefreshAssigned(p) ==
    /\ proc[p].pc = "refresh"
    /\ CASE HasAnySource(proc[p].ticker) -> proc' = [proc EXCEPT ![p].pc = "ensure"] /\ UNCHANGED lock
         [] Assigned(proc[p].ticker) -> proc' = [proc EXCEPT ![p].pc = "removing"] /\ Queue(p)
         [] OTHER -> Return(p) /\ UNCHANGED lock
    /\ UNCHANGED <<source, resolve, assign, phys, aliases, session, sdk, late, rebuild>>

\* _refresh_ticker_assignment
RefreshTickerAssignment(p) ==
    /\ proc[p].pc = "refresh"
    /\ IF HasAnySource(proc[p].ticker)
       THEN /\ proc' = [proc EXCEPT ![p].pc = "ensure"]
            /\ UNCHANGED lock
       ELSE /\ proc' = [proc EXCEPT ![p].pc = "removing"]
            /\ Queue(p)
    /\ UNCHANGED <<source, resolve, assign, phys, aliases, session, sdk, late, rebuild>>

\* _remove_assignment, once it has the lock
RemoveAssignment(p) ==
    /\ proc[p].pc = "removing" /\ Holds(p)
    /\ RemoveAssignmentLocked(proc[p].ticker)
    /\ Return(p) /\ Release(p)
    /\ UNCHANGED <<source, resolve, session, late, rebuild>>

\* "if not target: return"
Resolved(t) == resolve[t] # NoContract

\* _ensure_assignment up to the lock: the source check and the contract lookup
ResolveTarget(p) ==
    /\ proc[p].pc = "ensure"
    /\ LET t == proc[p].ticker
       IN IF HasAnySource(t) /\ Resolved(t)
          THEN /\ proc' = [proc EXCEPT ![p].pc = "locking", ![p].target = resolve[t]]
               /\ Queue(p)
          ELSE /\ Return(p)
               /\ UNCHANGED lock
    /\ UNCHANGED <<source, resolve, assign, phys, aliases, session, sdk, late, rebuild>>

\* The early returns of _ensure_assignment once it has the lock
NothingToDo(t, c) == ~HasAnySource(t) \/ KeepsAssignment(t, c)

\* _ensure_assignment with the lock: keep what is good, else drop it and rank
\* the accounts.  With none connected only the shortage notice is left.
ChooseManagers(p) ==
    /\ proc[p].pc = "locking" /\ Holds(p)
    /\ LET t == proc[p].ticker
           c == proc[p].target
       IN IF NothingToDo(t, c)
          THEN /\ Return(p) /\ Release(p)
               /\ UNCHANGED <<assign, phys, aliases, sdk>>
          ELSE /\ RemoveAssignmentLocked(t)
               /\ \E q \in CandidateManagers(CountsWithout(t), t, c) :
                    IF q = <<>>
                    THEN Return(p) /\ Release(p)
                    ELSE /\ proc' = [proc EXCEPT ![p].pc = "starting", ![p].cands = q]
                         /\ UNCHANGED lock
    /\ UNCHANGED <<source, resolve, session, late, rebuild>>

\* start_ws_*_async in its thread: already started, connects, or fails
StartWs(p) ==
    /\ proc[p].pc = "starting"
    /\ LET a == Head(proc[p].cands)
       IN \/ /\ session[a].phase = "up"
             /\ session' = [session EXCEPT ![a].started = TRUE,
                                ![a].healthy = @ \/ ~session[a].started]
             /\ proc' = [proc EXCEPT ![p].pc = "started"]
             /\ UNCHANGED lock
          \/ /\ \/ session[a].phase # "up"
                \/ ~session[a].started /\ "refuse" \in Faults
             /\ NextCandidate(p)
             /\ UNCHANGED session
    /\ UNCHANGED <<source, resolve, assign, phys, aliases, sdk, late, rebuild>>

\* _subscribe_target_on_manager after the start: join the physical subscription
\* if the count says there is one, else request its channels
SubscribeTarget(p) ==
    /\ proc[p].pc = "started"
    /\ LET a == Head(proc[p].cands)
           k == KeyOf(a, proc[p].target)
       IN IF phys[k] > 0
          THEN /\ RecordAssignment(proc[p].ticker, k)
               /\ Return(p) /\ Release(p)
               /\ UNCHANGED sdk
          ELSE SubscribeFrom(p, 1, k.mode)
    /\ UNCHANGED <<source, resolve, session, late, rebuild>>

\* The loop resumes after the ack of a channel
NextChannel(p) ==
    /\ proc[p].pc = "acked"
    /\ SubscribeFrom(p, proc[p].ch + 1, proc[p].mode)
    /\ UNCHANGED <<source, resolve, session, late, rebuild>>

\* An error event or the timeout fails the request: the channels of this attempt
\* are unsubscribed.  A request that timed out never got an id, so no unsubscribe
\* reaches the server, which may still confirm it.
FailSubscribe(p) ==
    /\ proc[p].pc = "subscribing"
    /\ LET a == Head(proc[p].cands)
           c == proc[p].target
           dead == ~proc[p].live \/ session[a].phase # "up" \/ ~session[a].started
       IN /\ sdk' = [sdk EXCEPT ![a] = @ \ FirstChannels(c, proc[p].mode, proc[p].ch)]
          /\ \/ dead /\ UNCHANGED late
             \/ ~dead /\ "refuse" \in Faults /\ UNCHANGED late
             \/ /\ ~dead /\ "timeout" \in Faults
                /\ late' = late \cup
                        {[acct |-> a, sub |-> <<c, ChannelsFor[proc[p].mode][proc[p].ch]>>]}
    /\ NextCandidate(p)
    /\ UNCHANGED <<source, resolve, assign, phys, aliases, session, rebuild>>

-----------------------------------------------------------------------------
(* The SDK's threads and the rest of the world                             *)

\* A subscribed event resolves the awaited future
AckSubscribe(p) ==
    /\ proc[p].pc = "subscribing" /\ proc[p].live
    /\ LET a == Head(proc[p].cands)
       IN /\ session[a].phase = "up" /\ session[a].started
          /\ session' = [session EXCEPT ![a].healthy = TRUE]
    /\ proc' = [proc EXCEPT ![p].pc = "acked"]
    /\ UNCHANGED <<source, resolve, assign, phys, aliases, lock, sdk, late, rebuild>>

\* A subscribed event that comes after the timeout is recorded all the same
LateAck(r) ==
    /\ session[r.acct].phase = "up" /\ session[r.acct].started
    /\ sdk' = [sdk EXCEPT ![r.acct] = @ \cup {r.sub}]
    /\ session' = [session EXCEPT ![r.acct].healthy = TRUE]
    /\ late' = late \ {r}
    /\ UNCHANGED <<source, resolve, assign, phys, aliases, lock, proc, rebuild>>

\* _handle_ws_disconnect
Disconnect(a) ==
    /\ "disconnect" \in Faults
    /\ session[a].phase = "up" /\ session[a].started
    /\ session' = [session EXCEPT ![a].started = FALSE, ![a].healthy = FALSE]
    /\ UNCHANGED <<source, resolve, assign, phys, aliases, lock, proc, sdk, late, rebuild>>

\* _handle_ws_error with an authentication error: _invalidate_marketdata_session
InvalidateSession(a) ==
    /\ "invalidate" \in Faults
    /\ session[a].phase = "up"
    /\ session' = [session EXCEPT ![a].phase = "invalid", ![a].started = FALSE,
                                  ![a].healthy = FALSE]
    /\ UNCHANGED <<source, resolve, assign, phys, aliases, lock, proc, sdk, late, rebuild>>

\* ensure_marketdata_ready of a REST request while the session is not connected:
\* the manager logs in again by itself, without the pool
RestReinitialize ==
    /\ "rest" \in Faults
    /\ session[Primary].phase \in {"down", "invalid"}
    /\ ResetSession(Primary, "init")
    /\ UNCHANGED <<source, resolve, assign, phys, aliases, lock, rebuild>>

RestLogin ==
    /\ session[Primary].phase = "init"
    /\ ~(rebuild.pc = "login" /\ rebuild.acct = Primary)
    /\ \/ SessionUp(Primary, TRUE)
       \/ /\ "refuse" \in Faults
          /\ session' = [session EXCEPT ![Primary].phase = "down"]
    /\ UNCHANGED <<source, resolve, assign, phys, aliases, lock, proc, sdk, late, rebuild>>

\* A contract lookup changes its answer: rollover, or an outage of the lookup
Roll(t) ==
    /\ "roll" \in Faults
    /\ \E c \in Contracts \cup {NoContract} :
          c # resolve[t] /\ resolve' = [resolve EXCEPT ![t] = c]
    /\ UNCHANGED <<source, assign, phys, aliases, lock, proc, session, sdk, late, rebuild>>

-----------------------------------------------------------------------------
(* reconnect_account and reload_from_db under _reload_lock                 *)

NeedsRebuild(a) == ~Connected(a) \/ ~session[a].healthy

StartRebuild(A) ==
    /\ rebuild.pc = "idle"
    /\ \/ \E a \in Accounts : NeedsRebuild(a) /\ A = {a}
       \/ "reload" \in Faults /\ A = Accounts
    /\ rebuild' = [rebuild EXCEPT !.pc = "next", !.left = A]
    /\ UNCHANGED <<source, resolve, assign, phys, aliases, lock, proc, session, sdk, late>>

\* manager.shutdown() and the reset at the start of _init_with_account
BeginLogin(a) ==
    /\ rebuild.pc = "next" /\ a \in rebuild.left
    /\ session[a].phase # "init"
    /\ ResetSession(a, "init")
    /\ rebuild' = [rebuild EXCEPT !.pc = "login", !.acct = a, !.left = @ \ {a}]
    /\ UNCHANGED <<source, resolve, assign, phys, aliases, lock>>

\* The login runs in a thread with database writes awaited around it: coroutines
\* that were ready to resume when it began have resumed when it ends.
EndLogin ==
    /\ rebuild.pc = "login"
    /\ \A p \in Procs : proc[p].pc \in {"started", "acked"}
                         => Head(proc[p].cands) # rebuild.acct
    /\ \/ SessionUp(rebuild.acct, FALSE)
       \/ /\ "refuse" \in Faults
          /\ session' = [session EXCEPT ![rebuild.acct].phase = "down"]
    /\ rebuild' = [rebuild EXCEPT !.pc = "next"]
    /\ UNCHANGED <<source, resolve, assign, phys, aliases, lock, proc, sdk, late>>

\* The two loops of _rebalance_assignments
OnlyEnsure == {<<"ensure", t>> : t \in Desired}   \* mutant: nothing is removed first
RebalanceCalls == {<<"remove", t>> : t \in {u \in Tickers : Assigned(u)}}
                  \cup {<<"ensure", t>> : t \in Desired}

\* _rebalance_assignments: the assignments and the desired tickers are listed when
\* it starts, and its first call is made at once
RebalanceAssignments ==
    /\ rebuild.pc = "next" /\ rebuild.left = {}
    /\ Turn(Rebuilder, RebalanceCalls)
    /\ rebuild' = [rebuild EXCEPT !.pc = IF RebalanceCalls = {} THEN "idle" ELSE "rebalance"]
    /\ UNCHANGED <<source, resolve, assign, phys, aliases, session, sdk, late>>

-----------------------------------------------------------------------------
Helper(p) ==
    \/ RefreshTickerAssignment(p)
    \/ RemoveAssignment(p)
    \/ ResolveTarget(p)
    \/ ChooseManagers(p)
    \/ StartWs(p)
    \/ SubscribeTarget(p)
    \/ NextChannel(p)
    \/ FailSubscribe(p)
    \/ AckSubscribe(p)

User ==
    \/ \E s \in Sources, t \in Tickers : TrackTicker(s, t) \/ UntrackTicker(s, t)
    \/ \E s \in Sources, T \in SUBSET Tickers : SetSourceTickers(s, T)
    \/ \E p \in Consumers, s \in Sources, T \in SUBSET Tickers :
          EnsureSourceTickers(p, s, T)

World ==
    \/ \E r \in late : LateAck(r)
    \/ \E a \in Accounts : Disconnect(a) \/ InvalidateSession(a)
    \/ RestReinitialize
    \/ \E t \in Tickers : Roll(t)

Rebuilding ==
    \/ \E a \in Accounts : BeginLogin(a)
    \/ EndLogin
    \/ RebalanceAssignments

Next ==
    \/ \E p \in Procs : Helper(p)
    \/ \E p \in Callers \cup {Rebuilder} : LoopTurn(p)
    \/ \E p \in Watchdogs : RefreshSessionAssignments(p)
    \/ \E A \in SUBSET Accounts : StartRebuild(A)
    \/ Rebuilding
    \/ RestLogin
    \/ User
    \/ World

Spec == Init /\ [][Next]_vars

-----------------------------------------------------------------------------
(* Properties                                                              *)

\* Awaits inside the locked part of _ensure_assignment, and from its lookup on
InLock == {"starting", "started", "subscribing", "acked"}
InEnsure == InLock \cup {"locking"}

Tasks == [pc : {"idle", "loop", "ensure", "refresh", "removing", "locking",
                "starting", "started", "subscribing", "acked"},
          ticker : Tickers \cup {NoContract},
          target : Contracts \cup {NoContract},
          cands : Seq(Accounts),
          mode : Modes,
          ch : Nat,
          live : BOOLEAN,
          todo : SUBSET ({"remove", "refresh", "ensure", "missing"} \X Tickers)]

\* A coroutine's locals fit the await it is suspended in
ProcOK ==
    /\ proc \in [Procs -> Tasks]
    /\ \A p \in Procs : proc[p].pc \notin {"idle", "loop"} => proc[p].ticker \in Tickers
    /\ \A p \in Procs : proc[p].pc \in InEnsure => proc[p].target \in Contracts
    /\ \A p \in Procs : proc[p].pc \in InLock => proc[p].cands # <<>>
    /\ \A p \in Procs : proc[p].pc \in {"subscribing", "acked"} =>
            proc[p].ch \in DOMAIN ChannelsFor[proc[p].mode]

LockOK == holder \in Procs \cup {Nobody} /\ waiting \in [Procs -> Nat]

PoolOK ==
    /\ assign \in [Tickers -> Keys \cup {NoAssignment}]
    /\ phys \in [Keys -> Nat]
    /\ aliases \in [Contracts -> SUBSET Tickers]

SessionOK ==
    session \in [Accounts -> [phase : {"up", "init", "down", "invalid"},
                              mode : Modes, started : BOOLEAN, healthy : BOOLEAN]]

\* Every variable keeps to the values the code gives it.
TypeOK ==
    /\ source \in [Sources -> SUBSET Tickers]
    /\ resolve \in [Tickers -> Contracts \cup {NoContract}]
    /\ PoolOK /\ LockOK /\ ProcOK /\ SessionOK
    /\ sdk \in [Accounts -> SUBSET Subs]
    /\ late \subseteq [acct : Accounts, sub : Subs]
    /\ rebuild \in [pc : {"idle", "next", "login", "rebalance"},
                    acct : Accounts, left : SUBSET Accounts]

\* Reference counting is exact: a physical subscription is counted once for each
\* assignment that holds its key, whatever was cancelled, retried or rebuilt.
RefCountExact == \A k \in Keys : phys[k] = Cardinality(AssignedTo(k))

\* The alias index broadcasts a contract's ticks to exactly the tickers assigned
\* to it: no stale alias after a rollover, none forgotten.
AliasIndexExact ==
    \A c \in Contracts :
        aliases[c] = {t \in Tickers : Assigned(t) /\ assign[t].contract = c}

\* Whoever is past "locking" in _ensure_assignment owns _assignment_lock, and its
\* ticker stays unassigned while it awaits: nobody else places it meanwhile.
LockDiscipline ==
    \A p \in Procs : proc[p].pc \in InLock => holder = p /\ ~Assigned(proc[p].ticker)

\* Whatever is interleaved, cancelled or rebuilt, nothing is malformed and tickers are placed by
\* the owner of the lock
PlacingSound == TypeOK /\ LockDiscipline

Quiet ==
    /\ holder = Nobody /\ rebuild.pc = "idle"
    /\ \A p \in Procs : proc[p].pc = "idle"

\* Once the pool has come to rest, a ticker nobody wants holds no assignment.
NoOrphanAssignment == Quiet => \A t \in Tickers : Assigned(t) => HasAnySource(t)

\* Once the pool has come to rest, an assignment on a connected, healthy session
\* has all of its channels subscribed there.
NoPhantomSubscription ==
    Quiet => \A t \in Tickers :
        Assigned(t) =>
            LET k == assign[t]
            IN Connected(k.acct) /\ session[k.acct].healthy
                 => Channels(k.contract, k.mode) \subseteq sdk[k.acct]

\* Once the pool has come to rest, every subscription of a session is counted.
NoLeakedSubscription ==
    Quiet => \A a \in Accounts : Connected(a) =>
        \A x \in sdk[a] : \E k \in Keys :
            k.acct = a /\ phys[k] > 0 /\ x \in Channels(k.contract, k.mode)

\* Only a new session takes a channel away from an assignment that stays: neither
\* the removal of another alias nor another attempt's cleanup silences it.
NoSilencedAlias ==
    [][\A t \in Tickers :
         Assigned(t) /\ assign'[t] = assign[t] =>
            LET k == assign[t]
            IN Connected(k.acct) /\ session[k.acct].healthy =>
                 \/ Channels(k.contract, k.mode) \cap sdk[k.acct] \subseteq sdk'[k.acct]
                 \/ session'[k.acct].phase = "init"]_vars

\* The event loop runs every ready coroutine, the SDK answers or the timeout fires,
\* a recovery that is due is started and makes progress, and the watchdog ticks.
Fairness ==
    /\ \A p \in Procs : WF_vars(Helper(p))
    /\ \A p \in Callers \cup {Rebuilder} : WF_vars(LoopTurn(p))
    /\ \A p \in Watchdogs : WF_vars(RefreshSessionAssignments(p))
    /\ \A a \in Accounts : WF_vars(StartRebuild({a}))
    /\ WF_vars(Rebuilding) /\ WF_vars(RestLogin)

LiveSpec == Spec /\ Fairness

\* The callers stop calling and the world stops failing
Settled == <>[][~(User \/ World)]_vars

\* Then the assignments converge: a wanted ticker whose contract is known stays
\* assigned to that contract, also after a rollover.
Converges ==
    Settled => \A t \in Tickers :
        <>[](HasAnySource(t) /\ resolve[t] # NoContract
             => Assigned(t) /\ assign[t].contract = resolve[t])

\* A ticker nobody wants loses its assignment for good, watchdog or not.
EventuallyReleased ==
    Settled => \A t \in Tickers : <>[](Assigned(t) => HasAnySource(t))

=============================================================================
