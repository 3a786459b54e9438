-------------------------- MODULE AccountRecovery --------------------------
(***************************************************************************)
(* The recovery half of FubonRealtimeSubscriptionPool                      *)
(* (backend/fubon_realtime_pool.py) and of the FubonSDKManager sessions it *)
(* owns: who asks for an account to be rebuilt, which requests are joined  *)
(* or deferred, and how the rebuild, the configuration reload, the SDK's   *)
(* callbacks and the watchdog interleave.                                  *)
(*                                                                         *)
(* Requests into reconnect_account come from three kinds of coroutine: a   *)
(* notification posted by an SDK callback (Notes), the watchdog (Dog), an  *)
(* operator's HTTP request (User).  A channel carries one desired ticker;  *)
(* how a ticker is assigned in detail is module SubscriptionPool.          *)
(***************************************************************************)
EXTENDS Naturals, Sequences, FiniteSets

CONSTANTS
    Accounts,     \* enabled account ids, a set of numbers
    Channels,     \* the market types of a session: stock, futopt
    Rolling,      \* the channels refresh_session_assignments re-resolves
    Notes,        \* slots for _recover_manager_notification tasks (a bound)
    Dog, User,    \* the watchdog's coroutine and an HTTP request's
    Reload,       \* reload_from_db as a holder of _reload_lock
    NoAccount,    \* a channel without an assignment
    Placement,    \* where the warm-up assigned the tickers
    Faults,       \* what may happen from outside
    MaxFaults     \* and how often in all (a bound)

ASSUME RecoveryAssumption ==
    /\ Accounts \subseteq Nat /\ IsFiniteSet(Accounts) /\ Accounts # {}
    /\ IsFiniteSet(Channels)
    /\ NoAccount \notin Accounts /\ Reload \notin Accounts
    /\ Placement \in [Channels -> Accounts]
    /\ Rolling \subseteq Channels /\ MaxFaults \in Nat
    /\ Dog # User /\ {Dog, User} \cap Notes = {}

Procs == Notes \cup {Dog, User}

VARIABLES
    up,        \* FubonSDKManager.connected
    ws,        \* the websockets of the current SDK session
    chan,      \* _ws_state: what the manager believes of each channel
    handler,   \* accounts whose _ws_recovery_handler is set
    pending,   \* _ws_recovery_pending
    serve,     \* _assignments: the account each channel's ticker is assigned to
    rec,       \* _account_recovery: may an automatic attempt start
    task,      \* _reconnect_tasks and the progress of each rebuild
    lockq,     \* _reload_lock: its holder, then its waiters
    reload,    \* progress of _reload_from_db_locked
    proc,      \* the coroutines inside reconnect_account
    dog,       \* the watchdog's loop
    cooling,   \* _orphan_recovery_last_attempt within its cooldown
    left       \* how many more things may happen from outside

sessions == <<up, ws, chan, handler, pending>>
calls == <<task, lockq, proc>>
vars == <<sessions, serve, rec, task, lockq, reload, proc, dog, cooling, left>>

Idle == [pc |-> "idle", acct |-> NoAccount, ch |-> NoAccount, result |-> "none"]
NoTask == [phase |-> "none", outcome |-> "none", affected |-> {}]
Sleeping == [at |-> "sleep", todo |-> <<>>]

-----------------------------------------------------------------------------
(* Reading the state                                                       *)

\* The pairs of S in the order of their accounts; the order of two channels of one
\* account is left open
InOrder(S) ==
    {q \in [1..Cardinality(S) -> S] :
        \A i, j \in DOMAIN q : i < j => q[i] # q[j] /\ q[i][1] <= q[j][1]}

Running(a) == task[a].phase # "none"
Serves(a, ch) == serve[ch] = a
Believed(a, ch) == chan[a][ch] = "connected"

\* What reconnect_account answers without an attempt: configuration errors wait
\* for an operator, the others for next_retry_monotonic
Deferred(a) == rec[a] # "ready"

StalledIfBackedOff ==                     \* mutant: only what a notification gave up
    {x \in Accounts \X Channels :
        up[x[1]] /\ Serves(x[1], x[2]) /\ ~Believed(x[1], x[2]) /\ rec[x[1]] # "ready"}

\* get_unhealthy_subscription_channels, without those whose snapshot was pending;
\* the session desires a channel once the ticker was subscribed on it
Unhealthy(a, ch) ==
    up[a] /\ Serves(a, ch) /\ ws[a][ch] # "none" /\ ~Believed(a, ch) /\ ch \notin pending[a]
Stalled == {x \in Accounts \X Channels : Unhealthy(x[1], x[2])}

\* _select_orphan_recovery_manager: the accounts it may choose from
OrphanCandidates(ch) == {a \in Accounts : /\ up[a] /\ ch \notin pending[a]
                                          /\ rec[a] # "backoff"
                                          /\ <<a, ch>> \notin cooling
                                          /\ ~Believed(a, ch)}

-----------------------------------------------------------------------------
(* Pieces of the handlers                                                  *)

SessionGone(a) ==
    /\ up' = [up EXCEPT ![a] = FALSE]
    /\ ws' = [ws EXCEPT ![a] = [ch \in Channels |-> "none"]]

\* _reset_runtime_state: what the manager believes of its channels survives it
ResetSession(a) ==
    /\ SessionGone(a)
    /\ pending' = [pending EXCEPT ![a] = {}]
    /\ UNCHANGED chan

Happens(f) == f \in Faults /\ left > 0 /\ left' = left - 1

\* _ensure_assignment for the tickers of C, over the sessions that are up.  A
\* websocket that was closed is not connected again.  The connect callback, or
\* the subscription's acknowledgement, marks the channel connected.
Assign(C) ==
    LET open(ch) == {a \in Accounts : up[a] /\ ws[a][ch] # "closed"}
    IN \E pick \in [C -> Accounts \cup {NoAccount}] :
        LET on(a) == {ch \in C : pick[ch] = a}
            refused == {ch \in on(NoAccount) : open(ch) # {}}
        IN /\ \A ch \in C : pick[ch] \in open(ch) \cup {NoAccount}
           /\ IF refused = {} THEN UNCHANGED left ELSE Happens("refuse")
           /\ serve' = [ch \in Channels |-> IF ch \in C THEN pick[ch] ELSE serve[ch]]
           /\ ws' = [a \in Accounts |-> [ch \in Channels |->
                        IF ch \in on(a) THEN "open" ELSE ws[a][ch]]]
           /\ chan' = [a \in Accounts |-> [ch \in Channels |->
                        IF ch \in on(a) THEN "connected" ELSE chan[a][ch]]]
           /\ pending' = [a \in Accounts |->
                            pending[a] \ {ch \in on(a) : ws[a][ch] = "none"}]

\* The single-flight half of reconnect_account: p joins the running rebuild, or
\* creates the task that queues for _reload_lock and becomes its owner.
JoinsNothing(p, a, ch) ==                 \* mutant: no single flight
    /\ task' = [task EXCEPT ![a] = [NoTask EXCEPT !.phase = "queued"]]
    /\ lockq' = Append(lockq, a)
    /\ proc' = [proc EXCEPT ![p] = [pc |-> "owner", acct |-> a, ch |-> ch, result |-> "none"]]

Joins(p, a, ch) ==
    LET waits(pc) == proc' = [proc EXCEPT ![p] =
                        [pc |-> pc, acct |-> a, ch |-> ch, result |-> "none"]]
    IN IF Running(a)
       THEN waits("joiner") /\ UNCHANGED <<task, lockq>>
       ELSE /\ task' = [task EXCEPT ![a] = [NoTask EXCEPT !.phase = "queued"]]
            /\ lockq' = Append(lockq, a)
            /\ waits("owner")

\* complete_ws_recovery_request by _recover_manager_notification
LeavesMarker(a, ch, ok) ==                \* mutant: only a success releases it
    IF ok THEN pending' = [pending EXCEPT ![a] = @ \ {ch}] /\ UNCHANGED chan
    ELSE UNCHANGED <<pending, chan>>

CompleteRequest(a, ch, ok) ==
    /\ pending' = [pending EXCEPT ![a] = @ \ {ch}]
    /\ chan' = IF ok THEN chan ELSE [chan EXCEPT ![a][ch] = "down"]

\* The rebuild of a is over: its outcome goes to everyone who awaits it
TaskEnds(a, outcome) ==
    /\ task' = [task EXCEPT ![a] = NoTask]
    /\ lockq' = Tail(lockq)
    /\ proc' = [p \in Procs |->
                  IF proc[p].acct = a /\ proc[p].result = "none" /\ proc[p].pc # "posted"
                  THEN [proc[p] EXCEPT !.result = outcome] ELSE proc[p]]

\* _record_recovery_success and _record_recovery_failure
Recorded == [ok |-> "ready", failed |-> "backoff", config |-> "blocked"]
StoresOutcome(a, outcome) == rec' = [rec EXCEPT ![a] = outcome]      \* mutant
Record(a, outcome) == rec' = [rec EXCEPT ![a] = Recorded[outcome]]

-----------------------------------------------------------------------------
(* The SDK's callback threads                                              *)

\* _request_ws_recovery: at most one marker per channel, none without an owner
Request(a, ch) ==
    IF a \notin handler \/ ch \in pending[a]
    THEN UNCHANGED <<pending, proc>>
    ELSE LET free == {n \in Notes : proc[n].pc = "idle"}
             note == CHOOSE n \in free : TRUE
         IN /\ free # {}
            /\ pending' = [pending EXCEPT ![a] = @ \cup {ch}]
            /\ proc' = [proc EXCEPT ![note] =
                        [pc |-> "posted", acct |-> a, ch |-> ch, result |-> "none"]]

\* _handle_ws_disconnect, or _handle_ws_error with the socket still open
ChannelFails(a, ch) ==
    /\ up[a] /\ ws[a][ch] = "open"
    /\ Happens("channel")
    /\ \E socket \in {"open", "closed"} : ws' = [ws EXCEPT ![a][ch] = socket]
    /\ chan' = [chan EXCEPT ![a][ch] = "down"]
    /\ Request(a, ch)
    /\ UNCHANGED <<up, handler, serve, rec, task, lockq, reload, dog, cooling>>

\* _invalidate_marketdata_session: the session is given up, nobody is notified
InvalidateSession(a) ==
    /\ up[a] /\ Happens("invalidate")
    /\ up' = [up EXCEPT ![a] = FALSE]
    /\ ws' = [ws EXCEPT ![a] = [ch \in Channels |->
                                  IF @[ch] = "none" THEN "none" ELSE "closed"]]
    /\ chan' = [chan EXCEPT ![a] = [ch \in Channels |-> "down"]]
    /\ UNCHANGED <<handler, pending, serve, rec, calls, reload, dog, cooling>>

\* _dispatch_ws_message: data proves the channel is alive
Message(a, ch) ==
    /\ up[a] /\ ws[a][ch] = "open" /\ ~Believed(a, ch)
    /\ chan' = [chan EXCEPT ![a][ch] = "connected"]
    /\ UNCHANGED <<up, ws, handler, pending, serve, rec, calls, reload, dog, cooling, left>>

-----------------------------------------------------------------------------
(* Requests                                                                *)

\* _schedule_manager_recovery and _recover_manager_notification up to its await
RecoverNotification(n) ==
    LET a == proc[n].acct
        ch == proc[n].ch
    IN /\ n \in Notes /\ proc[n].pc = "posted"
       /\ \/ /\ Deferred(a)
             /\ CompleteRequest(a, ch, FALSE)
             /\ proc' = [proc EXCEPT ![n] = Idle]
             /\ UNCHANGED <<task, lockq>>
          \/ /\ ~Deferred(a)
             /\ Joins(n, a, ch)
             /\ UNCHANGED <<pending, chan>>
       /\ UNCHANGED <<up, ws, handler, serve, rec, reload, dog, cooling, left>>

\* POST .../reconnect: an operator's attempt forgets the failures so far
ManualReconnect(a) ==
    /\ proc[User].pc = "idle" /\ Happens("manual")
    /\ rec' = [rec EXCEPT ![a] = "ready"]
    /\ Joins(User, a, NoAccount)
    /\ UNCHANGED <<sessions, serve, reload, dog, cooling>>

\* reconnect_account after its await.  The owner's callback was registered first,
\* so it records the outcome before any joiner of the same task goes on.
Returns(p) ==
    LET a == proc[p].acct
        owned == {q \in Procs : /\ proc[q].pc = "owner" /\ proc[q].acct = a
                                /\ proc[q].result # "none"}
    IN /\ proc[p].result # "none"
       /\ owned \subseteq {p}
       /\ IF p \in owned THEN Record(a, proc[p].result) ELSE UNCHANGED rec

NotificationReturns(n) ==
    /\ n \in Notes /\ Returns(n)
    /\ CompleteRequest(proc[n].acct, proc[n].ch, proc[n].result = "ok")
    /\ proc' = [proc EXCEPT ![n] = Idle]
    /\ UNCHANGED <<up, ws, handler, serve, task, lockq, reload, dog, cooling, left>>

ManualReturns ==
    /\ Returns(User)
    /\ proc' = [proc EXCEPT ![User] = Idle]
    /\ UNCHANGED <<sessions, serve, task, lockq, reload, dog, cooling, left>>

-----------------------------------------------------------------------------
(* The rebuild of one account                                              *)

\* A query or a login takes long: the coroutines that were ready have run by then
Ready(p) == proc[p].pc = "posted" \/ proc[p].result # "none"
InputOutputOver == \A p \in Procs : ~Ready(p)

\* _reconnect_account_once up to the login: the old session is shut down and its
\* owner callback detached.  A database error ends the attempt before that.
BeginRebuild(a) ==
    /\ InputOutputOver
    /\ lockq # <<>> /\ Head(lockq) = a /\ task[a].phase = "queued"
    /\ \/ /\ ResetSession(a)
          /\ handler' = handler \ {a}
          /\ task' = [task EXCEPT ![a].phase = "login",
                                  ![a].affected = {ch \in Channels : Serves(a, ch)}]
          /\ UNCHANGED <<lockq, proc, left>>
       \/ /\ Happens("database")
          /\ TaskEnds(a, "failed")
          /\ UNCHANGED sessions
    /\ UNCHANGED <<serve, rec, reload, dog, cooling>>

\* How the login thread of _init_with_account may end
LoginEnds(outcome) ==
    /\ InputOutputOver
    /\ IF outcome = "ok" THEN UNCHANGED left ELSE Happens("login")

\* The owner callback is attached again whatever the login's outcome
EndLogin(a) ==
    /\ task[a].phase = "login"
    /\ \E outcome \in DOMAIN Recorded :
          /\ LoginEnds(outcome)
          /\ up' = [up EXCEPT ![a] = (outcome = "ok")]
          /\ task' = [task EXCEPT ![a].phase = "rebalance", ![a].outcome = outcome]
    /\ handler' = handler \cup {a}
    /\ UNCHANGED <<ws, chan, pending, serve, rec, lockq, reload, proc, dog, cooling>>

\* The connection status cannot be stored: the exception leaves the account
\* without its callback, without a rebalance, and logged in if that came first.
StatusNotStored(a) ==
    /\ InputOutputOver
    /\ task[a].phase = "login" /\ Happens("database")
    /\ \E loggedIn \in BOOLEAN : up' = [up EXCEPT ![a] = loggedIn]
    /\ TaskEnds(a, "failed")
    /\ UNCHANGED <<ws, chan, handler, pending, serve, rec, reload, dog, cooling>>

RebalancesMissing(a) ==                   \* mutant: keeps the assignments there are
    /\ task[a].phase = "rebalance"
    /\ Assign({ch \in Channels : serve[ch] = NoAccount})
    /\ TaskEnds(a, task[a].outcome)
    /\ UNCHANGED <<up, handler, rec, reload, dog, cooling>>

\* _rebalance_assignments and the check of what was assigned to the account
RebalanceAfterLogin(a) ==
    /\ task[a].phase = "rebalance"
    /\ Assign(Channels)
    /\ LET lost == {ch \in task[a].affected : serve'[ch] = NoAccount}
       IN TaskEnds(a, IF task[a].outcome = "ok" /\ lost # {} THEN "failed"
                      ELSE task[a].outcome)
    /\ UNCHANGED <<up, handler, rec, reload, dog, cooling>>

-----------------------------------------------------------------------------
(* reload_from_db                                                          *)

RequestReload ==
    /\ reload.at = "none" /\ Happens("reload")
    /\ \E L \in InOrder(Accounts \X {Reload}) : reload' = [at |-> "queued", todo |-> L]
    /\ lockq' = Append(lockq, Reload)
    /\ UNCHANGED <<sessions, serve, rec, task, proc, dog, cooling>>

BeginReload ==
    /\ InputOutputOver
    /\ reload.at = "queued" /\ Head(lockq) = Reload
    /\ ResetSession(Head(reload.todo)[1])
    /\ reload' = [reload EXCEPT !.at = "login"]
    /\ UNCHANGED <<handler, serve, rec, calls, dog, cooling, left>>

\* One account is logged in and its outcome recorded; the next session is reset
ReloadLogin ==
    LET a == Head(reload.todo)[1]
        rest == Tail(reload.todo)
        next == IF rest = <<>> THEN {} ELSE {rest[1][1]}
    IN /\ reload.at = "login"
       /\ \E outcome \in DOMAIN Recorded :
            /\ LoginEnds(outcome)
            /\ Record(a, outcome)
            /\ up' = [b \in Accounts |-> IF b = a THEN outcome = "ok"
                                         ELSE b \notin next /\ up[b]]
       /\ ws' = [b \in Accounts |-> IF b \in next THEN [ch \in Channels |-> "none"] ELSE ws[b]]
       /\ pending' = [b \in Accounts |-> IF b \in next THEN {} ELSE pending[b]]
       /\ reload' = [at |-> IF rest = <<>> THEN "rebalance" ELSE "login", todo |-> rest]
       /\ UNCHANGED <<chan, handler, serve, calls, dog, cooling>>

RebalanceAfterReload ==
    /\ reload.at = "rebalance"
    /\ Assign(Channels)
    /\ reload' = [at |-> "none", todo |-> <<>>]
    /\ lockq' = Tail(lockq)
    /\ UNCHANGED <<up, handler, rec, task, proc, dog, cooling>>

-----------------------------------------------------------------------------
(* The watchdog: refresh_session_assignments                               *)

\* The loops over the disconnected accounts and over the stalled channels: the
\* list L was taken once; entries that are deferred by now are passed over, the
\* first other one is awaited.
ReconnectEach(at, L) ==
    LET due == {i \in DOMAIN L : rec'[L[i][1]] = "ready"}
    IN IF due = {}
       THEN /\ dog' = [at |-> at, todo |-> <<>>]
            /\ proc' = [proc EXCEPT ![Dog] = Idle]
            /\ UNCHANGED <<task, lockq>>
       ELSE \E i \in due :
                /\ \A j \in due : i <= j
                /\ dog' = [at |-> at, todo |-> SubSeq(L, i + 1, Len(L))]
                /\ Joins(Dog, L[i][1], L[i][2])

DogRuns(at) == dog.at = at /\ proc[Dog].pc = "idle"

RefreshSessions ==
    /\ DogRuns("sleep")
    /\ UNCHANGED <<sessions, serve, rec, reload, cooling, left>>
    /\ \E L \in InOrder({a \in Accounts : ~up[a]} \X {NoAccount}) : ReconnectEach("down", L)

\* The rolling tickers are assigned again, unless their channel is healthy or their
\* contract cannot be resolved now; then the stalled channels are listed
RefreshRolling ==
    /\ DogRuns("down")
    /\ \E moved \in SUBSET {ch \in Rolling : \E a \in Accounts :
            Serves(a, ch) /\ ~(up[a] /\ Believed(a, ch) /\ ch \notin pending[a])} :
          Assign(moved)
    /\ UNCHANGED <<up, handler, rec, reload, cooling>>
    /\ \E L \in InOrder(Stalled') : ReconnectEach("stalled", L)

\* _recover_missing_assignments: a plain assignment is tried first
AssignMissing ==
    /\ DogRuns("stalled")
    /\ Assign({ch \in Channels : serve[ch] = NoAccount})
    /\ LET missing == {ch \in Channels : serve'[ch] = NoAccount}
       IN \E L \in InOrder({0} \X missing) :
             dog' = IF missing = {} THEN Sleeping ELSE [at |-> "missing", todo |-> L]
    /\ UNCHANGED <<up, handler, rec, calls, reload, cooling>>

\* ... then the first account whose channel is not connected is rebuilt
RecoverMissing ==
    /\ DogRuns("missing") /\ dog.todo # <<>>
    /\ LET ch == Head(dog.todo)[2]
           may == OrphanCandidates(ch)
       IN \/ may = {} /\ UNCHANGED <<calls, cooling>>
          \/ \E a \in may :
                /\ \A b \in may : a <= b
                /\ cooling' = cooling \cup {<<a, ch>>}
                /\ IF Deferred(a) THEN UNCHANGED calls ELSE Joins(Dog, a, ch)
    /\ dog' = [dog EXCEPT !.todo = Tail(@)]
    /\ UNCHANGED <<sessions, serve, rec, reload, left>>

RefreshOver ==
    /\ DogRuns("missing") /\ dog.todo = <<>>
    /\ dog' = Sleeping
    /\ UNCHANGED <<sessions, serve, rec, calls, reload, cooling, left>>

\* The attempt the watchdog awaited is over: on with the loop it was made in
WatchdogReturns ==
    /\ Returns(Dog)
    /\ \/ /\ dog.at # "missing"
          /\ UNCHANGED <<sessions, serve, left>>
          /\ ReconnectEach(dog.at, dog.todo)
       \/ /\ dog.at = "missing"
          /\ Assign({ch \in Channels : ch = proc[Dog].ch /\ serve[ch] = NoAccount})
          /\ proc' = [proc EXCEPT ![Dog] = Idle]
          /\ UNCHANGED <<up, handler, task, lockq, dog>>
    /\ UNCHANGED <<reload, cooling>>

-----------------------------------------------------------------------------
(* Time                                                                    *)

BackoffOver(a) ==
    /\ rec[a] = "backoff"
    /\ rec' = [rec EXCEPT ![a] = "ready"]
    /\ UNCHANGED <<sessions, serve, calls, reload, dog, cooling, left>>

CooldownOver(a, ch) ==
    /\ <<a, ch>> \in cooling
    /\ cooling' = cooling \ {<<a, ch>>}
    /\ UNCHANGED <<sessions, serve, rec, calls, reload, dog, left>>

-----------------------------------------------------------------------------
\* After the warm-up: every account is logged in and every channel assigned
Init ==
    /\ up = [a \in Accounts |-> TRUE]
    /\ serve = Placement
    /\ ws = [a \in Accounts |-> [ch \in Channels |-> IF Serves(a, ch) THEN "open" ELSE "none"]]
    /\ chan = [a \in Accounts |-> [ch \in Channels |-> IF Serves(a, ch) THEN "connected" ELSE "down"]]
    /\ handler = Accounts
    /\ pending = [a \in Accounts |-> {}]
    /\ rec = [a \in Accounts |-> "ready"]
    /\ task = [a \in Accounts |-> NoTask]
    /\ lockq = <<>>
    /\ reload = [at |-> "none", todo |-> <<>>]
    /\ proc = [p \in Procs |-> Idle]
    /\ dog = Sleeping
    /\ cooling = {}
    /\ left = MaxFaults

Rebuild(a) == BeginRebuild(a) \/ EndLogin(a) \/ RebalanceAfterLogin(a)
ReloadStep == BeginReload \/ ReloadLogin \/ RebalanceAfterReload
Watchdog == \/ RefreshSessions \/ RefreshRolling \/ AssignMissing
            \/ RecoverMissing \/ RefreshOver \/ WatchdogReturns
Notification(n) == RecoverNotification(n) \/ NotificationReturns(n)
World == \/ \E a \in Accounts : \/ InvalidateSession(a) \/ ManualReconnect(a)
                                \/ StatusNotStored(a)
                                \/ \E ch \in Channels : ChannelFails(a, ch) \/ Message(a, ch)
         \/ RequestReload

Next ==
    \/ World \/ ReloadStep \/ Watchdog \/ ManualReturns
    \/ \E a \in Accounts : Rebuild(a) \/ BackoffOver(a)
    \/ \E a \in Accounts, ch \in Channels : CooldownOver(a, ch)
    \/ \E n \in Notes : Notification(n)

Spec == Init /\ [][Next]_vars

\* The event loop runs every ready coroutine, a login call returns, time passes
\* and the listener loop calls the watchdog every 30 seconds; nothing that comes
\* from outside is owed, messages included.
LiveSpec ==
    /\ Spec
    /\ WF_vars(ReloadStep) /\ WF_vars(Watchdog) /\ WF_vars(ManualReturns)
    /\ \A a \in Accounts : WF_vars(Rebuild(a)) /\ WF_vars(BackoffOver(a))
    /\ \A a \in Accounts, ch \in Channels : WF_vars(CooldownOver(a, ch))
    /\ \A n \in Notes : WF_vars(Notification(n))

-----------------------------------------------------------------------------
(* Properties                                                              *)

SessionOK ==
    /\ up \in [Accounts -> BOOLEAN]
    /\ ws \in [Accounts -> [Channels -> {"none", "open", "closed"}]]
    /\ chan \in [Accounts -> [Channels -> {"down", "connected"}]]
    /\ handler \subseteq Accounts
    /\ pending \in [Accounts -> SUBSET Channels]

\* A rebuild that rebalances knows its outcome; an idle coroutine awaits nothing
FlightOK ==
    /\ task \in [Accounts -> [phase : {"none", "queued", "login", "rebalance"},
                              outcome : {"none"} \cup DOMAIN Recorded,
                              affected : SUBSET Channels]]
    /\ \A a \in Accounts : task[a].phase = "rebalance" => task[a].outcome # "none"
    /\ lockq \in Seq(Accounts \cup {Reload})
    /\ proc \in [Procs -> [pc : {"idle", "posted", "owner", "joiner"},
                           acct : Accounts \cup {NoAccount},
                           ch : Channels \cup {NoAccount},
                           result : {"none"} \cup DOMAIN Recorded]]
    /\ \A p \in Procs : /\ proc[p].pc = "idle" => proc[p] = Idle
                        /\ proc[p].pc # "idle" => proc[p].acct \in Accounts

\* The lists of the loops: accounts to log in, channels to repair
LoopsOK ==
    /\ reload \in [at : {"none", "queued", "login", "rebalance"}, todo : Seq(Accounts \X {Reload})]
    /\ reload.at \in {"queued", "login"} => reload.todo # <<>>
    /\ dog \in [at : {"sleep", "down", "stalled"}, todo : Seq(Accounts \X (Channels \cup {NoAccount}))]
               \cup [at : {"missing"}, todo : Seq({0} \X Channels)]

\* Every variable keeps the shape of the Python object it stands for.
TypeOK ==
    /\ SessionOK /\ FlightOK /\ LoopsOK
    /\ serve \in [Channels -> Accounts \cup {NoAccount}]
    /\ rec \in [Accounts -> {"ready", "backoff", "blocked"}]
    /\ cooling \subseteq Accounts \X Channels
    /\ left \in 0..MaxFaults

\* A recovery marker hides a channel from the watchdog, so there is always a
\* notification under way that will release it: a marker nobody completes would
\* keep a dead channel out of every recovery (_request_ws_recovery).
MarkerBacked ==
    \A a \in Accounts : \A ch \in pending[a] :
        \E n \in Notes : proc[n].acct = a /\ proc[n].ch = ch

\* Single flight: a rebuild that runs is awaited by exactly one owner, which will
\* record its outcome, nobody awaits a rebuild that does not run, and no account
\* queues twice for _reload_lock (reconnect_account).
SingleFlight ==
    \A a \in Accounts :
        LET awaiting(pc) == {p \in Procs : /\ proc[p].pc = pc /\ proc[p].acct = a
                                           /\ proc[p].result = "none"}
            once == IF Running(a) THEN 1 ELSE 0
        IN /\ Cardinality(awaiting("owner")) = once
           /\ ~Running(a) => awaiting("joiner") = {}
           /\ Cardinality({i \in DOMAIN lockq : lockq[i] = a}) = once

\* What a rebuild leaves and who awaits it, at any time
RebuildsSound == TypeOK /\ SingleFlight

\* An exception on storing the connection status can leave a session logged in
\* but without its owner callback and without the subscriptions of its tickers.
Deaf(a) == up[a] /\ a \notin handler

\* A settled session that is up has a websocket for every ticker assigned to it:
\* otherwise the ticker would be served by nobody, and neither the watchdog nor a
\* notification could tell (_assignments against the manager's session).
Settled(a) == task[a].phase # "rebalance" /\ reload.at \notin {"login", "rebalance"}
ServedBySession ==
    \A ch \in Channels, a \in Accounts :
        Serves(a, ch) /\ up[a] /\ ~Deaf(a) /\ Settled(a) => ws[a][ch] # "none"

\* Once nothing happens from outside any more, every desired channel is assigned
\* to a connected session again, unless a configuration error keeps every account
\* out or a session is deaf (watchdog, notifications and orphan recovery together).
Restored ==
    \A ch \in Channels : \E a \in Accounts :
        Serves(a, ch) /\ up[a] /\ ws[a][ch] = "open" /\ Believed(a, ch)
Recovers == <>[](\/ Restored
                 \/ \A a \in Accounts : rec[a] = "blocked"
                 \/ \E a \in Accounts : Deaf(a))

\* "When stock and futopt of one account fail together, it is rebuilt only once"
\* (docs/fubon-reconnect-storm-remediation-plan.md:154): the watchdog requests no
\* rebuild of a session in which every channel is believed to be connected.
Broken(a) == ~up[a] \/ \E ch \in Channels : ~Believed(a, ch)
WatchdogRequests(a) == /\ ~Running(a) /\ Running(a)'
                       /\ proc'[Dog].pc = "owner" /\ proc'[Dog].acct = a
                       /\ proc'[Dog].result = "none"
RebuiltOnce == [][\A a \in Accounts : WatchdogRequests(a) => Broken(a)]_vars
=============================================================================
