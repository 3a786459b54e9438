----------------------------- MODULE LiveQuotes -----------------------------
(***************************************************************************)
(* Quotes on their way to the browsers: the websocket tables               *)
(* (backend/ws_manager.py, the endpoint in routers/system.py), the Fubon   *)
(* listener and the polling loop (scheduler.py) that broadcast, and the    *)
(* hooks (providers.py) that track in the subscription pool what the       *)
(* browsers watch.                                                         *)
(*                                                                         *)
(* A websocket is one of Sockets, which are numbered in the order in which *)
(* they connect, and connects once.  Every send and every database call is *)
(* an await: the tables may change between two of them.                    *)
(***************************************************************************)
EXTENDS Naturals, FiniteSets, Sequences

CONSTANTS
    Sockets, Watchable,     \* browsers' websockets; the tickers they may watch
    Physical, Alias(_),     \* contracts the provider names, and the requested tickers each stands for
    MaxMessages, MaxCommands, MaxPolls, MaxLosses       \* bounds

ASSUME LiveAssumption == Physical \subseteq Watchable /\ \A p \in Physical : Alias(p) \subseteq Watchable

VARIABLES
    endpoint,   \* the coroutine that reads each socket
    watches,    \* _clients: the connected sockets and the tickers of each
    watchers,   \* _ticker_subs
    tracked,    \* the tickers the hooks keep in the pool under the source "ws"
    broken,     \* sockets whose browser is gone
    inbox,      \* messages the listener has not taken yet
    caster,     \* what the listener and the poller are sending
    handling,   \* the listener is registered with the pool
    sent,       \* the messages of the provider so far
    commands, polls,
    asked,      \* what each browser has asked for and not withdrawn
    seen        \* the newest message each browser got, by ticker

lqTables == <<watches, watchers, tracked>>
lqFeed == <<inbox, handling, sent>>
lqVars == <<endpoint, watches, watchers, tracked, broken, inbox, caster, handling, sent, commands, polls, asked, seen>>

Casters == {"listener", "poller"}
AtRestCaster == [pc |-> "idle", message |-> 0, targets |-> {}, todo |-> {}, dead |-> {}]
Joined == DOMAIN watches

LqInit ==
    /\ endpoint = [s \in Sockets |-> "new"]
    /\ watches = <<>> /\ watchers = [t \in Watchable |-> {}] /\ tracked = {}
    /\ broken = {}
    /\ inbox = <<>> /\ handling = TRUE /\ sent = 0
    /\ caster = [k \in Casters |-> AtRestCaster]
    /\ commands = 0 /\ polls = 0
    /\ asked = [s \in Sockets |-> {}]
    /\ seen = [s \in Sockets |-> [t \in Watchable |-> 0]]

-----------------------------------------------------------------------------
(* The tables                                                              *)

Dropped(table, S) == [t \in Watchable |-> table[t] \ S]

\* mutant: nobody tells the pool
TellsNobody(before, after) == {}
\* the last-unsubscribe hook fires for every ticker that loses its last socket
LosesLast(before, after) == {t \in Watchable : before[t] # {} /\ after[t] = {}}

\* disconnect, of one socket or of all those a broadcast found dead
BrowserLeaves(S) ==
    LET after == Dropped(watchers, S) IN
    /\ watches' = [s \in Joined \ S |-> watches[s]]
    /\ watchers' = after
    /\ tracked' = tracked \ LosesLast(watchers, after)

\* connect, once the handshake is over
Connect(s) ==
    /\ endpoint[s] = "new" /\ \A x \in Sockets : x < s => endpoint[x] # "new"
    /\ endpoint' = [endpoint EXCEPT ![s] = "reading"]
    /\ watches' = [x \in Joined \cup {s} |-> IF x = s THEN {} ELSE watches[x]]
    /\ UNCHANGED <<watchers, tracked, broken, inbox, caster, handling, sent, commands, polls, asked, seen>>

\* What a browser sent before it went away is still read
Command(s) == endpoint[s] = "reading" /\ commands < MaxCommands /\ commands' = commands + 1

\* subscribe: a socket a broadcast has disconnected is ignored
Subscribe(s, t) ==
    /\ Command(s)
    /\ asked' = [asked EXCEPT ![s] = @ \cup {t}]
    /\ IF s \in Joined
       THEN /\ watches' = [watches EXCEPT ![s] = @ \cup {t}]
            /\ watchers' = [watchers EXCEPT ![t] = @ \cup {s}]
            /\ tracked' = IF watchers[t] = {} THEN tracked \cup {t} ELSE tracked
       ELSE UNCHANGED lqTables
    /\ UNCHANGED <<endpoint, broken, inbox, caster, handling, sent, polls, seen>>

\* unsubscribe: the hook fires whenever nobody is left, even for a ticker nobody watched
Unsubscribe(s, t) ==
    /\ Command(s)
    /\ asked' = [asked EXCEPT ![s] = @ \ {t}]
    /\ IF s \in Joined
       THEN /\ watches' = [watches EXCEPT ![s] = @ \ {t}]
            /\ watchers' = [watchers EXCEPT ![t] = @ \ {s}]
            /\ tracked' = IF watchers[t] \subseteq {s} THEN tracked \ {t} ELSE tracked
       ELSE UNCHANGED lqTables
    /\ UNCHANGED <<endpoint, broken, inbox, caster, handling, sent, polls, seen>>

\* The browser goes away; the endpoint and the senders find out later
Breaks(s) ==
    /\ endpoint[s] = "reading" /\ Cardinality(broken) < MaxLosses
    /\ s \notin broken /\ broken' = broken \cup {s}
    /\ UNCHANGED <<endpoint, watches, watchers, tracked, inbox, caster, handling, sent, commands, polls, asked, seen>>

\* The endpoint's receive raises
Notices(s) ==
    /\ endpoint[s] = "reading" /\ s \in broken
    /\ endpoint' = [endpoint EXCEPT ![s] = "closed"]
    /\ IF s \in Joined THEN BrowserLeaves({s}) ELSE UNCHANGED lqTables
    /\ UNCHANGED <<broken, inbox, caster, handling, sent, commands, polls, asked, seen>>

\* A message that is not JSON: the endpoint logs the error and disconnects
Garbled(s) ==
    /\ Command(s)
    /\ endpoint' = [endpoint EXCEPT ![s] = "closed"]
    /\ asked' = [asked EXCEPT ![s] = {}]
    /\ IF s \in Joined THEN BrowserLeaves({s}) ELSE UNCHANGED lqTables
    /\ UNCHANGED <<broken, inbox, caster, handling, sent, polls, seen>>

-----------------------------------------------------------------------------
(* broadcast_to_ticker                                                     *)

\* A caster turns to its next target: it sends to the sockets watching it now
Cast(k, m, t, rest) ==
    caster' = [caster EXCEPT ![k] = [pc |-> "sending", message |-> m, targets |-> {t} \cup rest, todo |-> watchers[t], dead |-> {}]]

\* The target being sent is kept first
TargetOf(k) == CHOOSE t \in caster[k].targets : TRUE

\* One send: it fails when the browser is gone or the endpoint has closed the socket
Send(k, s) ==
    /\ caster[k].pc = "sending" /\ s \in caster[k].todo
    /\ IF s \in broken \/ endpoint[s] = "closed"
       THEN /\ caster' = [caster EXCEPT ![k].todo = @ \ {s}, ![k].dead = @ \cup {s}]
            /\ UNCHANGED seen
       ELSE /\ caster' = [caster EXCEPT ![k].todo = @ \ {s}]
            /\ seen' = IF k = "listener" THEN [seen EXCEPT ![s][TargetOf(k)] = caster[k].message] ELSE seen
    /\ UNCHANGED <<endpoint, watches, watchers, tracked, broken, inbox, handling, sent, commands, polls, asked>>

Buried(S) == S

\* All are served: the dead are disconnected and the caster goes on to store the quote
Sent(k) ==
    /\ caster[k].pc = "sending" /\ caster[k].todo = {}
    /\ BrowserLeaves(Buried(caster[k].dead))
    /\ caster' = [caster EXCEPT ![k].pc = "sent"]
    /\ UNCHANGED <<endpoint, broken, inbox, handling, sent, commands, polls, asked, seen>>

-----------------------------------------------------------------------------
(* fubon_ws_listener_loop                                                  *)

\* _on_fubon_message, called on the thread of the SDK; a loop that ended has unregistered it
Ingress ==
    /\ handling /\ sent < MaxMessages
    /\ \E p \in Physical : inbox' = Append(inbox, [contract |-> p, number |-> sent + 1])
    /\ sent' = sent + 1
    /\ UNCHANGED <<endpoint, watches, watchers, tracked, broken, caster, handling, commands, polls, asked, seen>>

\* resolve_broadcast_tickers: the contract itself and what was requested for it
Targets(p) == {p} \cup Alias(p)

\* mutant: the newest message first
FromTheEnd(q) == [head |-> q[Len(q)], tail |-> SubSeq(q, 1, Len(q) - 1)]
InTurn(q) == [head |-> Head(q), tail |-> Tail(q)]

Take ==
    /\ handling /\ caster["listener"].pc = "idle" /\ inbox # <<>>
    /\ LET q == InTurn(inbox)
           T == Targets(q.head.contract)
           t == CHOOSE t \in T : TRUE
       IN /\ Cast("listener", q.head.number, t, T)
          /\ inbox' = q.tail
    /\ UNCHANGED <<endpoint, watches, watchers, tracked, broken, handling, sent, commands, polls, asked, seen>>

\* The quote is stored, then the next target has its turn; a failed store drops the others
Stores(ok) ==
    /\ caster["listener"].pc = "sent"
    /\ LET rest == caster["listener"].targets \ {TargetOf("listener")} IN
       IF ok /\ rest # {}
       THEN LET t == CHOOSE t \in rest : TRUE IN Cast("listener", caster["listener"].message, t, rest)
       ELSE caster' = [caster EXCEPT !["listener"] = AtRestCaster]
    /\ UNCHANGED <<endpoint, watches, watchers, tracked, broken, inbox, handling, sent, commands, polls, asked, seen>>

\* The task is cancelled: what it was sending stops where it is, and finally unregisters
StopListening ==
    /\ handling /\ handling' = FALSE
    /\ caster' = [caster EXCEPT !["listener"] = AtRestCaster]
    /\ UNCHANGED <<endpoint, watches, watchers, tracked, broken, inbox, sent, commands, polls, asked, seen>>

-----------------------------------------------------------------------------
(* realtime_polling_loop                                                   *)

\* A round works on the tickers watched when it begins, without those the pool serves
PollRound ==
    /\ caster["poller"].pc = "idle" /\ polls < MaxPolls /\ polls' = polls + 1
    /\ \E served \in SUBSET Physical :
         LET T == {t \in Watchable : watchers[t] # {}} \ served IN
         /\ T # {}
         /\ caster' = [caster EXCEPT !["poller"] = [AtRestCaster EXCEPT !.pc = "fetching", !.targets = T]]
    /\ UNCHANGED <<endpoint, watches, watchers, tracked, broken, inbox, handling, sent, commands, asked, seen>>

Polled(rest) == [AtRestCaster EXCEPT !.pc = IF rest = {} THEN "idle" ELSE "fetching", !.targets = rest]

\* fetch_and_store_quote_snapshot answers, or there is no quote
Fetched(ok) ==
    /\ caster["poller"].pc = "fetching"
    /\ LET t == TargetOf("poller")
           T == caster["poller"].targets
       IN IF ok THEN Cast("poller", 0, t, T)
          ELSE caster' = [caster EXCEPT !["poller"] = Polled(T \ {t})]
    /\ UNCHANGED <<endpoint, watches, watchers, tracked, broken, inbox, handling, sent, commands, polls, asked, seen>>

NextTicker ==
    /\ caster["poller"].pc = "sent"
    /\ caster' = [caster EXCEPT !["poller"] = Polled(caster["poller"].targets \ {TargetOf("poller")})]
    /\ UNCHANGED <<endpoint, watches, watchers, tracked, broken, inbox, handling, sent, commands, polls, asked, seen>>

-----------------------------------------------------------------------------
LqNext ==
    \/ \E s \in Sockets : Connect(s) \/ Breaks(s) \/ Notices(s) \/ Garbled(s)
    \/ \E s \in Sockets, t \in Watchable : Subscribe(s, t) \/ Unsubscribe(s, t)
    \/ \E k \in Casters : Sent(k) \/ \E s \in Sockets : Send(k, s)
    \/ Ingress \/ Take \/ StopListening \/ PollRound \/ NextTicker
    \/ \E ok \in BOOLEAN : Stores(ok) \/ Fetched(ok)

LqSpec == LqInit /\ [][LqNext]_lqVars

-----------------------------------------------------------------------------
(* What the browsers may rely on                                           *)

\* Types, and a caster at rest has nothing left to send
LqTypeOK ==
    /\ endpoint \in [Sockets -> {"new", "reading", "closed"}]
    /\ Joined \subseteq Sockets /\ \A s \in Joined : watches[s] \subseteq Watchable
    /\ watchers \in [Watchable -> SUBSET Sockets] /\ tracked \subseteq Watchable
    /\ \A k \in Casters : caster[k].todo \cup caster[k].dead \subseteq Sockets /\ caster[k].targets \subseteq Watchable
    /\ \A k \in Casters : caster[k].pc = "idle" => caster[k] = AtRestCaster

\* The two tables agree although broadcasts, endpoints and commands all change them, and
\* nobody is left in them once its endpoint is done
TablesMatch ==
    /\ \A t \in Watchable : watchers[t] = {s \in Joined : t \in watches[s]}
    /\ \A s \in Joined : endpoint[s] = "reading"

\* The pool tracks for the browsers exactly what a connected one watches, however the
\* last watcher left
TrackedWhileWatched == tracked = {t \in Watchable : watchers[t] # {}}

\* A browser that is still there watches what it asked for: no broadcast drops it
AskedIsWatched ==
    \A s \in Sockets : endpoint[s] = "reading" /\ s \notin broken => s \in Joined /\ watches[s] = asked[s]

\* Once a broadcast is over, no socket it could not reach is in the tables
DeadLeave == \A k \in Casters : caster[k].pc = "sent" => caster[k].dead \cap Joined = {}

\* Browsers, tables and pool agree about who watches what, whatever a broadcast, an endpoint or a
\* command does while another one waits
WatchersServed == LqTypeOK /\ TablesMatch /\ TrackedWhileWatched /\ AskedIsWatched /\ DeadLeave

\* A browser sees the listener's messages for a ticker in the order of the provider
SeenInOrder == [][\A s \in Sockets, t \in Watchable : seen'[s][t] >= seen[s][t]]_seen

=============================================================================
