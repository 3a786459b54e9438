-------------------------- MODULE MarketData_proofs --------------------------
(* The live quotes: browsers, tables and pool agree about who watches what,   *)
(* and each browser sees the messages for a ticker in the provider's order.   *)
(* The candle recorder: every candle is stored in order or accounted for.     *)
EXTENDS LiveQuotes, FutoptRecorder, TLAPS

-----------------------------------------------------------------------------
(* The inductive invariant                                                 *)

Message == [contract : Physical, number : Nat]
CasterState == [pc : {"idle", "fetching", "sending", "sent"}, message : Nat,
                targets : SUBSET Watchable, todo : SUBSET Sockets, dead : SUBSET Sockets]

TableTypes ==
    /\ endpoint \in [Sockets -> {"new", "reading", "closed"}]
    /\ Joined \subseteq Sockets /\ \A s \in Joined : watches[s] \subseteq Watchable
    /\ watchers \in [Watchable -> SUBSET Sockets] /\ tracked \subseteq Watchable
    /\ asked \in [Sockets -> SUBSET Watchable]
    /\ \A s \in Sockets : endpoint[s] = "new" => asked[s] = {}
    /\ broken \subseteq Sockets /\ \A s \in broken : endpoint[s] # "new"

TablesOK == TableTypes /\ TablesMatch /\ TrackedWhileWatched /\ AskedIsWatched

\* A caster at work has a target, and the sockets it could not reach are gone for good
Unreachable(s) == s \in broken \/ endpoint[s] = "closed"
CastersOK ==
    /\ caster \in [Casters -> CasterState]
    /\ \A k \in Casters : caster[k].pc = "idle" => caster[k] = AtRestCaster
    /\ \A k \in Casters : caster[k].pc # "idle" => caster[k].targets # {}
    /\ \A k \in Casters : \A s \in caster[k].dead : Unreachable(s)
    /\ DeadLeave

\* The numbers rise from what is seen over what is being sent to what waits in the inbox
NumbersOK ==
    /\ seen \in [Sockets -> [Watchable -> Nat]] /\ inbox \in Seq(Message) /\ sent \in Nat
    /\ \A i, j \in DOMAIN inbox : i <= j => inbox[i].number <= inbox[j].number
    /\ \A i \in DOMAIN inbox : inbox[i].number <= sent /\ caster["listener"].message <= inbox[i].number
    /\ \A i \in DOMAIN inbox, s \in Sockets, t \in Watchable : seen[s][t] <= inbox[i].number
    /\ caster["listener"].message <= sent
    /\ \A s \in Sockets, t \in Watchable :
          seen[s][t] <= sent /\ (caster["listener"].pc # "idle" => seen[s][t] <= caster["listener"].message)

BrowsersOK == TablesOK /\ CastersOK /\ NumbersOK

LEMMA AtRestTyped == AtRestCaster \in CasterState /\ AtRestCaster.pc = "idle" /\ AtRestCaster.dead = {}
                     /\ AtRestCaster.message = 0
  BY DEF AtRestCaster, CasterState

LEMMA BrowsersStart == LqInit => BrowsersOK
<1> SUFFICES ASSUME LqInit PROVE BrowsersOK
  OBVIOUS
<1> USE DEF LqInit
<1>1. DOMAIN watches = {}
  OBVIOUS
<1>2. TablesOK
  BY <1>1 DEF TablesOK, TableTypes, TablesMatch, TrackedWhileWatched, AskedIsWatched, Joined
<1>3. CastersOK
  BY AtRestTyped DEF CastersOK, DeadLeave
<1>4. NumbersOK
  BY AtRestTyped DEF NumbersOK, Casters
<1> QED
  BY <1>2, <1>3, <1>4 DEF BrowsersOK

-----------------------------------------------------------------------------
(* The tables                                                              *)

\* Sockets that leave are in neither table, and the pool forgets what only they watched
LEMMA LeavesTables ==
    ASSUME TablesOK, NEW S \in SUBSET Sockets, BrowserLeaves(S),
           endpoint' \in [Sockets -> {"new", "reading", "closed"}],
           \A s \in Sockets : \/ endpoint'[s] = endpoint[s]
                              \/ endpoint'[s] = "closed" /\ s \notin Joined \ S,
           \A s \in S : s \in broken \/ endpoint'[s] = "closed",
           broken' = broken,
           asked' \in [Sockets -> SUBSET Watchable],
           \A s \in Sockets : endpoint'[s] # "closed" => asked'[s] = asked[s]
    PROVE  TablesOK' /\ Joined' = Joined \ S
<1>1. /\ Joined' = Joined \ S
      /\ \A s \in Joined' : watches'[s] = watches[s]
  BY DEF BrowserLeaves, Joined
<1>2. /\ watchers' = [t \in Watchable |-> watchers[t] \ S]
      /\ tracked' = tracked \ {t \in Watchable : watchers[t] # {} /\ watchers'[t] = {}}
  BY DEF BrowserLeaves, Dropped, LosesLast
<1>3. TableTypes'
  BY <1>1, <1>2 DEF TablesOK, TableTypes
<1>4. TablesMatch'
  BY <1>1, <1>2 DEF TablesOK, TableTypes, TablesMatch
<1>5. TrackedWhileWatched'
  BY <1>2 DEF TablesOK, TableTypes, TrackedWhileWatched
<1>6. AskedIsWatched'
  BY <1>1 DEF TablesOK, TableTypes, AskedIsWatched
<1> QED
  BY <1>1, <1>3, <1>4, <1>5, <1>6 DEF TablesOK

\* What the endpoints do to the tables
EndpointStep(s) ==
    \/ Connect(s) \/ Breaks(s) \/ Notices(s) \/ Garbled(s)
    \/ \E t \in Watchable : Subscribe(s, t) \/ Unsubscribe(s, t)

LEMMA ConnectTables ==
    ASSUME TablesOK, NEW s \in Sockets, Connect(s)
    PROVE  TablesOK'
<1>1. /\ endpoint[s] = "new"
      /\ endpoint' = [endpoint EXCEPT ![s] = "reading"]
      /\ Joined' = Joined \cup {s}
      /\ \A x \in Joined' : watches'[x] = IF x = s THEN {} ELSE watches[x]
      /\ UNCHANGED <<watchers, tracked, broken, asked>>
  BY DEF Connect, Joined
<1>2. s \notin Joined
  BY <1>1 DEF TablesOK, TablesMatch
<1>3. TableTypes'
  BY <1>1 DEF TablesOK, TableTypes
<1>4. TablesMatch'
  BY <1>1, <1>2 DEF TablesOK, TableTypes, TablesMatch
<1>5. TrackedWhileWatched'
  BY <1>1 DEF TablesOK, TrackedWhileWatched
<1>6. AskedIsWatched'
  BY <1>1, <1>2 DEF TablesOK, TableTypes, AskedIsWatched
<1> QED
  BY <1>3, <1>4, <1>5, <1>6 DEF TablesOK

LEMMA BreaksTables ==
    ASSUME TablesOK, NEW s \in Sockets, Breaks(s)
    PROVE  TablesOK'
<1>1. /\ broken' = broken \cup {s} /\ endpoint[s] = "reading"
      /\ UNCHANGED <<endpoint, watches, watchers, tracked, asked>>
  BY DEF Breaks
<1> QED
  BY <1>1 DEF TablesOK, TableTypes, TablesMatch, TrackedWhileWatched, AskedIsWatched, Joined

\* An endpoint that notices, or that was sent no JSON, closes and its socket leaves
LEMMA ClosesTables ==
    ASSUME TablesOK, NEW s \in Sockets, Notices(s) \/ Garbled(s)
    PROVE  TablesOK' /\ Joined' \subseteq Joined
<1>1. /\ endpoint' = [endpoint EXCEPT ![s] = "closed"] /\ broken' = broken
      /\ asked' = asked \/ asked' = [asked EXCEPT ![s] = {}]
      /\ IF s \in Joined THEN BrowserLeaves({s}) ELSE UNCHANGED lqTables
  BY DEF Notices, Garbled
<1>2. /\ endpoint' \in [Sockets -> {"new", "reading", "closed"}] /\ endpoint'[s] = "closed"
      /\ asked' \in [Sockets -> SUBSET Watchable]
      /\ \A x \in Sockets \ {s} : endpoint'[x] = endpoint[x] /\ asked'[x] = asked[x]
  BY <1>1 DEF TablesOK, TableTypes
<1>3. CASE s \in Joined
  BY <1>1, <1>2, <1>3, LeavesTables
<1>4. CASE s \notin Joined
  <2>1. UNCHANGED <<watches, watchers, tracked>> /\ Joined' = Joined
    BY <1>1, <1>4 DEF lqTables, Joined
  <2>2. TableTypes' /\ TablesMatch' /\ TrackedWhileWatched'
    BY <2>1, <1>1, <1>2, <1>4 DEF TablesOK, TableTypes, TablesMatch, TrackedWhileWatched
  <2>3. AskedIsWatched'
    BY <2>1, <1>1, <1>2 DEF TablesOK, AskedIsWatched
  <2> QED
    BY <2>1, <2>2, <2>3 DEF TablesOK
<1> QED
  BY <1>3, <1>4

LEMMA SubscribeTables ==
    ASSUME TablesOK, NEW s \in Sockets, NEW t \in Watchable, Subscribe(s, t)
    PROVE  TablesOK' /\ Joined' = Joined
<1>1. /\ endpoint[s] = "reading" /\ UNCHANGED <<endpoint, broken>>
      /\ asked' = [asked EXCEPT ![s] = @ \cup {t}]
  BY DEF Subscribe, Command
<1>2. CASE s \in Joined
  <2>1. /\ watches' = [watches EXCEPT ![s] = @ \cup {t}]
        /\ watchers' = [watchers EXCEPT ![t] = @ \cup {s}]
        /\ tracked' = IF watchers[t] = {} THEN tracked \cup {t} ELSE tracked
    BY <1>2 DEF Subscribe
  <2>2. Joined' = Joined /\ \A x \in Joined : watches'[x] = IF x = s THEN watches[x] \cup {t} ELSE watches[x]
    BY <2>1, <1>2 DEF Joined
  <2>3. TableTypes'
    BY <2>1, <2>2, <1>1 DEF TablesOK, TableTypes
  <2>4. TablesMatch'
    <3>1. ASSUME NEW u \in Watchable, NEW x \in Sockets
          PROVE  x \in watchers'[u] <=> x \in Joined' /\ u \in watches'[x]
      <4>1. x \in watchers[u] <=> x \in Joined /\ u \in watches[x]
        BY DEF TablesOK, TablesMatch
      <4>2. watchers'[u] = IF u = t THEN watchers[t] \cup {s} ELSE watchers[u]
        BY <2>1 DEF TablesOK, TableTypes
      <4> QED
        BY <4>1, <4>2, <2>2, <1>2
    <3>2. \A u \in Watchable : watchers'[u] \subseteq Sockets
      BY <2>3 DEF TableTypes
    <3>3. \A u \in Watchable : watchers'[u] = {x \in Joined' : u \in watches'[x]}
      BY <3>1, <3>2, <2>3 DEF TableTypes
    <3> QED
      BY <3>3, <2>2, <1>1 DEF TablesOK, TablesMatch
  <2>5. TrackedWhileWatched'
    BY <2>1 DEF TablesOK, TableTypes, TrackedWhileWatched
  <2>6. AskedIsWatched'
    BY <2>2, <1>1 DEF TablesOK, TableTypes, AskedIsWatched
  <2> QED
    BY <2>2, <2>3, <2>4, <2>5, <2>6 DEF TablesOK
<1>3. CASE s \notin Joined
  <2>1. UNCHANGED <<watches, watchers, tracked>> /\ Joined' = Joined
    BY <1>3 DEF Subscribe, lqTables, Joined
  <2>2. s \in broken
    BY <1>1, <1>3 DEF TablesOK, AskedIsWatched
  <2>3. TableTypes' /\ TablesMatch' /\ TrackedWhileWatched'
    BY <2>1, <1>1 DEF TablesOK, TableTypes, TablesMatch, TrackedWhileWatched
  <2>4. AskedIsWatched'
    BY <2>1, <2>2, <1>1 DEF TablesOK, TableTypes, AskedIsWatched
  <2> QED
    BY <2>1, <2>3, <2>4 DEF TablesOK
<1> QED
  BY <1>2, <1>3

LEMMA UnsubscribeTables ==
    ASSUME TablesOK, NEW s \in Sockets, NEW t \in Watchable, Unsubscribe(s, t)
    PROVE  TablesOK' /\ Joined' = Joined
<1>1. /\ endpoint[s] = "reading" /\ UNCHANGED <<endpoint, broken>>
      /\ asked' = [asked EXCEPT ![s] = @ \ {t}]
  BY DEF Unsubscribe, Command
<1>2. CASE s \in Joined
  <2>1. /\ watches' = [watches EXCEPT ![s] = @ \ {t}]
        /\ watchers' = [watchers EXCEPT ![t] = @ \ {s}]
        /\ tracked' = IF watchers[t] \subseteq {s} THEN tracked \ {t} ELSE tracked
    BY <1>2 DEF Unsubscribe
  <2>2. Joined' = Joined /\ \A x \in Joined : watches'[x] = IF x = s THEN watches[x] \ {t} ELSE watches[x]
    BY <2>1, <1>2 DEF Joined
  <2>3. TableTypes'
    BY <2>1, <2>2, <1>1 DEF TablesOK, TableTypes
  <2>4. TablesMatch'
    <3>1. ASSUME NEW u \in Watchable, NEW x \in Sockets
          PROVE  x \in watchers'[u] <=> x \in Joined' /\ u \in watches'[x]
      <4>1. x \in watchers[u] <=> x \in Joined /\ u \in watches[x]
        BY DEF TablesOK, TablesMatch
      <4>2. watchers'[u] = IF u = t THEN watchers[t] \ {s} ELSE watchers[u]
        BY <2>1 DEF TablesOK, TableTypes
      <4> QED
        BY <4>1, <4>2, <2>2, <1>2
    <3>2. \A u \in Watchable : watchers'[u] \subseteq Sockets
      BY <2>3 DEF TableTypes
    <3>3. \A u \in Watchable : watchers'[u] = {x \in Joined' : u \in watches'[x]}
      BY <3>1, <3>2, <2>3 DEF TableTypes
    <3> QED
      BY <3>3, <2>2, <1>1 DEF TablesOK, TablesMatch
  <2>5. TrackedWhileWatched'
    BY <2>1 DEF TablesOK, TableTypes, TrackedWhileWatched
  <2>6. AskedIsWatched'
    BY <2>2, <1>1 DEF TablesOK, TableTypes, AskedIsWatched
  <2> QED
    BY <2>2, <2>3, <2>4, <2>5, <2>6 DEF TablesOK
<1>3. CASE s \notin Joined
  <2>1. UNCHANGED <<watches, watchers, tracked>> /\ Joined' = Joined
    BY <1>3 DEF Unsubscribe, lqTables, Joined
  <2>2. s \in broken
    BY <1>1, <1>3 DEF TablesOK, AskedIsWatched
  <2>3. TableTypes' /\ TablesMatch' /\ TrackedWhileWatched'
    BY <2>1, <1>1 DEF TablesOK, TableTypes, TablesMatch, TrackedWhileWatched
  <2>4. AskedIsWatched'
    BY <2>1, <2>2, <1>1 DEF TablesOK, TableTypes, AskedIsWatched
  <2> QED
    BY <2>1, <2>3, <2>4 DEF TablesOK
<1> QED
  BY <1>2, <1>3

\* No endpoint brings back a socket that a caster could not reach
LEMMA EndpointSafe ==
    ASSUME BrowsersOK, NEW s \in Sockets, EndpointStep(s)
    PROVE  BrowsersOK'
<1>1. TablesOK /\ CastersOK /\ NumbersOK
  BY DEF BrowsersOK
<1>2. TablesOK' /\ \A x \in Joined' : x \in Joined \/ endpoint[x] = "new"
  <2>1. CASE Connect(s)
    <3>1. \A x \in Joined' : x \in Joined \/ endpoint[x] = "new"
      BY <2>1 DEF Connect, Joined
    <3> QED
      BY <3>1, <2>1, <1>1, ConnectTables
  <2>2. CASE Breaks(s)
    <3>1. Joined' = Joined
      BY <2>2 DEF Breaks, Joined
    <3> QED
      BY <3>1, <2>2, <1>1, BreaksTables
  <2>3. CASE Notices(s) \/ Garbled(s)
    BY <2>3, <1>1, ClosesTables
  <2>4. ASSUME NEW t \in Watchable, Subscribe(s, t) \/ Unsubscribe(s, t)
        PROVE  TablesOK' /\ Joined' = Joined
    BY <2>4, <1>1, SubscribeTables, UnsubscribeTables
  <2> QED
    BY <2>1, <2>2, <2>3, <2>4 DEF EndpointStep
<1>3. /\ UNCHANGED <<caster, inbox, sent, seen>>
      /\ broken \subseteq broken' /\ \A x \in Sockets : endpoint[x] = "closed" => endpoint'[x] = "closed"
  BY <1>1 DEF EndpointStep, Connect, Breaks, Notices, Garbled, Subscribe, Unsubscribe, TablesOK, TableTypes
<1>4. NumbersOK'
  BY <1>1, <1>3 DEF NumbersOK
<1>5. \A k \in Casters : caster[k].dead \subseteq Sockets
  BY <1>1 DEF CastersOK, CasterState
<1>6. \A k \in Casters : \A x \in caster[k].dead : Unreachable(x) /\ Unreachable(x)' /\ endpoint[x] # "new"
  BY <1>1, <1>3, <1>5 DEF CastersOK, Unreachable, TablesOK, TableTypes
<1>7. DeadLeave'
  BY <1>1, <1>2, <1>3, <1>6 DEF CastersOK, DeadLeave
<1>8. CastersOK'
  BY <1>1, <1>3, <1>6, <1>7 DEF CastersOK
<1> QED
  BY <1>2, <1>4, <1>8 DEF BrowsersOK

-----------------------------------------------------------------------------
(* The listener and the poller                                             *)

\* A caster that turns to another state leaves the tables alone
LEMMA CasterTurns ==
    ASSUME BrowsersOK, NEW k \in Casters, NEW c \in CasterState,
           caster' = [caster EXCEPT ![k] = c],
           c.pc = "idle" => c = AtRestCaster,
           c.pc # "idle" => c.targets # {},
           c.pc # "sent", c.dead = {},
           UNCHANGED <<endpoint, watches, watchers, tracked, broken, asked>>
    PROVE  TablesOK' /\ CastersOK'
<1>1. TablesOK /\ CastersOK
  BY DEF BrowsersOK
<1>2. TablesOK'
  BY <1>1 DEF TablesOK, TableTypes, TablesMatch, TrackedWhileWatched, AskedIsWatched, Joined
<1>3. /\ caster' \in [Casters -> CasterState] /\ caster'[k] = c
      /\ \A x \in Casters \ {k} : caster'[x] = caster[x]
  BY <1>1 DEF CastersOK
<1>4. CastersOK'
  BY <1>1, <1>3 DEF CastersOK, DeadLeave, Unreachable, Joined
<1> QED
  BY <1>2, <1>4

\* What a caster sends next
LEMMA CastTyped ==
    ASSUME TablesOK, NEW m \in Nat, NEW t \in Watchable, NEW T \in SUBSET Watchable
    PROVE  [pc |-> "sending", message |-> m, targets |-> {t} \cup T, todo |-> watchers[t], dead |-> {}] \in CasterState
  BY DEF TablesOK, TableTypes, CasterState

LEMMA InboxTyped ==
    ASSUME NumbersOK, NEW i \in DOMAIN inbox
    PROVE  inbox[i].contract \in Physical /\ inbox[i].number \in Nat
<1>1. inbox[i] \in Message
  BY DEF NumbersOK
<1> QED
  BY <1>1 DEF Message

\* The numbers only depend on the listener, the inbox and what was seen
LEMMA NumbersKept ==
    ASSUME NumbersOK, UNCHANGED <<seen, inbox, sent>>,
           \/ caster'["listener"] = caster["listener"]
           \/ /\ caster'["listener"].message = caster["listener"].message
              /\ caster["listener"].pc # "idle"
           \/ caster'["listener"] = AtRestCaster
    PROVE  NumbersOK'
<1>1. CASE caster'["listener"] = AtRestCaster
  <2>1. caster'["listener"].message = 0 /\ caster'["listener"].pc = "idle"
    BY <1>1, AtRestTyped
  <2>2. \A i \in DOMAIN inbox : inbox[i].number \in Nat
    BY InboxTyped
  <2> QED
    BY <2>1, <2>2 DEF NumbersOK
<1>2. CASE caster'["listener"].message = caster["listener"].message
           /\ (caster["listener"].pc # "idle" \/ caster'["listener"].pc = caster["listener"].pc)
  BY <1>2 DEF NumbersOK
<1> QED
  BY <1>1, <1>2

\* A caster at work sends for one of the tickers
LEMMA TargetTyped ==
    ASSUME BrowsersOK, NEW k \in Casters, caster[k].pc # "idle"
    PROVE  TargetOf(k) \in caster[k].targets /\ TargetOf(k) \in Watchable
<1>1. caster[k] \in CasterState /\ caster[k].targets # {}
  BY DEF BrowsersOK, CastersOK
<1>2. TargetOf(k) \in caster[k].targets
  BY <1>1 DEF TargetOf
<1> QED
  BY <1>1, <1>2 DEF CasterState

LEMMA SendSafe ==
    ASSUME BrowsersOK, NEW k \in Casters, NEW s \in Sockets, Send(k, s)
    PROVE  BrowsersOK'
<1>1. TablesOK /\ CastersOK /\ NumbersOK
  BY DEF BrowsersOK
<1>2. PICK c : c = caster[k]
  OBVIOUS
<1>3. /\ c \in CasterState /\ c.pc = "sending" /\ s \in c.todo
      /\ UNCHANGED <<endpoint, watches, watchers, tracked, broken, inbox, sent, asked>>
  BY <1>1, <1>2 DEF Send, CastersOK
<1>4. PICK D \in SUBSET Sockets :
        /\ caster' = [caster EXCEPT ![k].todo = @ \ {s}, ![k].dead = D]
        /\ \A x \in D : Unreachable(x)
  <2>1. CASE s \in broken \/ endpoint[s] = "closed"
    <3>1. caster' = [caster EXCEPT ![k].todo = @ \ {s}, ![k].dead = c.dead \cup {s}]
      BY <2>1, <1>2 DEF Send
    <3>2. c.dead \cup {s} \in SUBSET Sockets /\ \A x \in c.dead \cup {s} : Unreachable(x)
      BY <2>1, <1>1, <1>2, <1>3 DEF CastersOK, CasterState, Unreachable
    <3> QED
      BY <3>1, <3>2
  <2>2. CASE ~(s \in broken \/ endpoint[s] = "closed")
    <3>1. caster' = [caster EXCEPT ![k].todo = @ \ {s}, ![k].dead = c.dead]
      <4>1. caster' = [caster EXCEPT ![k].todo = @ \ {s}]
        BY <2>2 DEF Send
      <4> QED
        BY <4>1, <1>1, <1>2, <1>3 DEF CastersOK, CasterState
    <3>2. c.dead \in SUBSET Sockets /\ \A x \in c.dead : Unreachable(x)
      BY <1>1, <1>2, <1>3 DEF CastersOK, CasterState
    <3> QED
      BY <3>1, <3>2
  <2> QED
    BY <2>1, <2>2
<1>5. PICK d \in CasterState :
        /\ caster' = [caster EXCEPT ![k] = d]
        /\ d.pc = "sending" /\ d.message = c.message /\ d.targets = c.targets /\ d.dead = D
  <2>1. [c EXCEPT !.todo = @ \ {s}, !.dead = D] \in CasterState
    BY <1>3 DEF CasterState
  <2>2. caster' = [caster EXCEPT ![k] = [c EXCEPT !.todo = @ \ {s}, !.dead = D]]
    BY <1>1, <1>2, <1>3, <1>4 DEF CastersOK
  <2> QED
    BY <2>1, <2>2, <1>3 DEF CasterState
<1>6. TablesOK'
  BY <1>1, <1>3 DEF TablesOK, TableTypes, TablesMatch, TrackedWhileWatched, AskedIsWatched, Joined
<1>7. CastersOK'
  <2>1. /\ caster' \in [Casters -> CasterState] /\ caster'[k] = d
        /\ \A x \in Casters \ {k} : caster'[x] = caster[x]
    BY <1>1, <1>5 DEF CastersOK
  <2> QED
    BY <2>1, <1>1, <1>2, <1>3, <1>4, <1>5 DEF CastersOK, DeadLeave, Unreachable, Joined
<1>8. NumbersOK'
  <2>1. CASE k # "listener" \/ seen' = seen
    <3>1. seen' = seen
      BY <2>1 DEF Send
    <3>2. \/ caster'["listener"] = caster["listener"]
          \/ /\ caster'["listener"].message = caster["listener"].message
             /\ caster["listener"].pc # "idle"
      BY <1>1, <1>2, <1>3, <1>5 DEF CastersOK, Casters
    <3> QED
      BY <3>1, <3>2, <1>1, <1>3, NumbersKept
  <2>2. CASE k = "listener" /\ seen' # seen
    <3>1. PICK t \in Watchable : t = TargetOf("listener")
      BY <2>2, <1>2, <1>3, TargetTyped
    <3>2. seen' = [seen EXCEPT ![s][t] = c.message]
      BY <2>2, <3>1, <1>2 DEF Send
    <3>3. caster'["listener"].message = c.message /\ c.message \in Nat /\ c = caster["listener"]
      BY <2>2, <1>1, <1>2, <1>3, <1>5 DEF CastersOK, CasterState
    <3>4. seen' \in [Sockets -> [Watchable -> Nat]]
      BY <3>2, <3>3, <1>1 DEF NumbersOK
    <3>5. \A x \in Sockets, u \in Watchable :
             seen'[x][u] = c.message \/ seen'[x][u] = seen[x][u]
      BY <3>2, <1>1 DEF NumbersOK
    <3>6. \A i \in DOMAIN inbox, x \in Sockets, u \in Watchable : seen'[x][u] <= inbox[i].number
      BY <3>3, <3>5, <1>1 DEF NumbersOK
    <3>7. \A x \in Sockets, u \in Watchable : seen[x][u] \in Nat /\ seen[x][u] <= c.message
      BY <3>3, <1>1, <1>2, <1>3, <2>2 DEF NumbersOK
    <3>8. c.message <= sent /\ sent \in Nat
      BY <3>3, <1>1 DEF NumbersOK
    <3>9. \A x \in Sockets, u \in Watchable : seen'[x][u] <= c.message /\ seen'[x][u] <= sent
      BY <3>3, <3>5, <3>7, <3>8
    <3> QED
      BY <3>3, <3>4, <3>6, <3>9, <1>1, <1>3 DEF NumbersOK
  <2> QED
    BY <2>1, <2>2
<1> QED
  BY <1>6, <1>7, <1>8 DEF BrowsersOK

\* The sockets a broadcast could not reach leave the tables
LEMMA SentSafe ==
    ASSUME BrowsersOK, NEW k \in Casters, Sent(k)
    PROVE  BrowsersOK'
<1>1. TablesOK /\ CastersOK /\ NumbersOK
  BY DEF BrowsersOK
<1>2. PICK D \in SUBSET Sockets : D = caster[k].dead
  BY <1>1 DEF CastersOK, CasterState
<1>3. /\ caster[k].pc = "sending" /\ BrowserLeaves(D)
      /\ caster' = [caster EXCEPT ![k].pc = "sent"]
      /\ UNCHANGED <<endpoint, broken, inbox, sent, asked, seen>>
  BY <1>2 DEF Sent, Buried
<1>4. TablesOK' /\ Joined' = Joined \ D
  BY <1>1, <1>2, <1>3, LeavesTables DEF TablesOK, TableTypes, CastersOK, Unreachable
<1>5. /\ caster' \in [Casters -> CasterState]
      /\ caster'[k].pc = "sent" /\ caster'[k].dead = D /\ caster'[k].targets = caster[k].targets
      /\ caster'[k].message = caster[k].message
      /\ \A x \in Casters \ {k} : caster'[x] = caster[x]
  BY <1>1, <1>2, <1>3 DEF CastersOK, CasterState
<1>6. CastersOK'
  BY <1>1, <1>2, <1>3, <1>4, <1>5 DEF CastersOK, DeadLeave, Unreachable
<1>7. NumbersOK'
  BY <1>1, <1>3, <1>5, NumbersKept DEF Casters
<1> QED
  BY <1>4, <1>6, <1>7 DEF BrowsersOK

\* A message of the SDK is the newest in the inbox
LEMMA IngressSafe ==
    ASSUME BrowsersOK, Ingress
    PROVE  BrowsersOK'
<1>1. TablesOK /\ CastersOK /\ NumbersOK
  BY DEF BrowsersOK
<1>2. PICK p \in Physical :
        /\ inbox' = Append(inbox, [contract |-> p, number |-> sent + 1])
        /\ sent' = sent + 1
        /\ UNCHANGED <<endpoint, watches, watchers, tracked, broken, caster, asked, seen>>
  BY DEF Ingress
<1>3. TablesOK' /\ CastersOK'
  BY <1>1, <1>2 DEF TablesOK, TableTypes, TablesMatch, TrackedWhileWatched, AskedIsWatched, Joined,
                    CastersOK, DeadLeave, Unreachable
<1>4. /\ [contract |-> p, number |-> sent + 1] \in Message
      /\ inbox \in Seq(Message) /\ sent \in Nat /\ sent' \in Nat /\ sent <= sent'
  BY <1>1, <1>2 DEF NumbersOK, Message
<1>5. /\ inbox' \in Seq(Message)
      /\ \A i \in DOMAIN inbox' : (i \in DOMAIN inbox /\ inbox'[i] = inbox[i])
                                  \/ (i = Len(inbox) + 1 /\ inbox'[i].number = sent')
      /\ Len(inbox) \in Nat /\ DOMAIN inbox = 1..Len(inbox)
  BY <1>2, <1>4
<1>6. \A i \in DOMAIN inbox : inbox[i].number \in Nat /\ inbox[i].number <= sent
  BY <1>1, InboxTyped DEF NumbersOK
<1>7. \A i, j \in DOMAIN inbox' : i <= j => inbox'[i].number <= inbox'[j].number
  <2> SUFFICES ASSUME NEW i \in DOMAIN inbox', NEW j \in DOMAIN inbox', i <= j
               PROVE  inbox'[i].number <= inbox'[j].number
    OBVIOUS
  <2>1. CASE j \in DOMAIN inbox /\ inbox'[j] = inbox[j]
    <3>1. i \in DOMAIN inbox /\ inbox'[i] = inbox[i]
      BY <2>1, <1>5
    <3> QED
      BY <2>1, <3>1, <1>1 DEF NumbersOK
  <2>2. CASE inbox'[j].number = sent'
    BY <2>2, <1>4, <1>5, <1>6
  <2> QED
    BY <2>1, <2>2, <1>5
<1>8. /\ caster["listener"].message \in Nat /\ caster["listener"].message <= sent
      /\ \A s \in Sockets, t \in Watchable : seen[s][t] \in Nat /\ seen[s][t] <= sent
  BY <1>1 DEF NumbersOK, CastersOK, CasterState, Casters
<1>9. \A i \in DOMAIN inbox' : /\ inbox'[i].number <= sent' /\ caster["listener"].message <= inbox'[i].number
                               /\ \A s \in Sockets, t \in Watchable : seen[s][t] <= inbox'[i].number
  <2> SUFFICES ASSUME NEW i \in DOMAIN inbox'
               PROVE  /\ inbox'[i].number <= sent' /\ caster["listener"].message <= inbox'[i].number
                      /\ \A s \in Sockets, t \in Watchable : seen[s][t] <= inbox'[i].number
    OBVIOUS
  <2>1. CASE i \in DOMAIN inbox /\ inbox'[i] = inbox[i]
    <3>1. inbox[i].number \in Nat /\ inbox[i].number <= sent
      BY <2>1, <1>6
    <3>2. caster["listener"].message <= inbox[i].number
          /\ \A s \in Sockets, t \in Watchable : seen[s][t] <= inbox[i].number
      BY <2>1, <1>1 DEF NumbersOK
    <3> QED
      BY <2>1, <3>1, <3>2, <1>4
  <2>2. CASE inbox'[i].number = sent'
    BY <2>2, <1>4, <1>8
  <2> QED
    BY <2>1, <2>2, <1>5
<1>10. caster["listener"].message <= sent' /\ \A s \in Sockets, t \in Watchable : seen[s][t] <= sent'
  BY <1>4, <1>8
<1>11. NumbersOK'
  BY <1>1, <1>2, <1>4, <1>5, <1>7, <1>9, <1>10 DEF NumbersOK
<1> QED
  BY <1>3, <1>11 DEF BrowsersOK

\* The listener takes the oldest message
LEMMA TakeSafe ==
    ASSUME BrowsersOK, Take
    PROVE  BrowsersOK'
<1>1. TablesOK /\ CastersOK /\ NumbersOK
  BY DEF BrowsersOK
<1>2. PICK m \in Message : m = Head(inbox)
  BY <1>1 DEF Take, NumbersOK
<1>3. /\ inbox \in Seq(Message) /\ inbox # <<>> /\ 1 \in DOMAIN inbox /\ inbox[1] = m
      /\ inbox' = Tail(inbox) /\ inbox' \in Seq(Message)
      /\ \A i \in DOMAIN inbox' : i + 1 \in DOMAIN inbox /\ inbox'[i] = inbox[i + 1]
      /\ \A i \in DOMAIN inbox' : i \in Nat /\ 1 <= i + 1
  BY <1>1, <1>2 DEF Take, InTurn, NumbersOK
<1>4. m.contract \in Physical /\ m.number \in Nat
  BY DEF Message
<1>5. Targets(m.contract) \subseteq Watchable /\ Targets(m.contract) # {}
  BY <1>4, LiveAssumption DEF LiveAssumption, Targets
<1>6. PICK t \in Targets(m.contract) : Cast("listener", m.number, t, Targets(m.contract))
  <2>1. \E t : /\ t = CHOOSE x \in Targets(m.contract) : TRUE
               /\ Cast("listener", m.number, t, Targets(m.contract))
    BY <1>2 DEF Take, InTurn
  <2> QED
    BY <2>1, <1>5
<1>7. PICK c \in CasterState :
        /\ caster' = [caster EXCEPT !["listener"] = c]
        /\ c.pc = "sending" /\ c.message = m.number /\ c.targets # {} /\ c.dead = {}
  <2> DEFINE d == [pc |-> "sending", message |-> m.number, targets |-> {t} \cup Targets(m.contract),
                   todo |-> watchers[t], dead |-> {}]
  <2>1. d \in CasterState
    BY <1>1, <1>4, <1>5, CastTyped
  <2>2. caster' = [caster EXCEPT !["listener"] = d]
    BY <1>6 DEF Cast
  <2>3. d.pc = "sending" /\ d.message = m.number /\ d.targets # {} /\ d.dead = {}
    OBVIOUS
  <2> HIDE DEF d
  <2> QED
    BY <2>1, <2>2, <2>3
<1>8. UNCHANGED <<endpoint, watches, watchers, tracked, broken, sent, asked, seen>>
  BY DEF Take
<1>9. TablesOK' /\ CastersOK'
  BY <1>7, <1>8, CasterTurns DEF Casters
<1>10. caster'["listener"] = c
  BY <1>1, <1>7 DEF CastersOK, Casters
<1>11. \A i \in DOMAIN inbox' : m.number <= inbox'[i].number /\ inbox'[i].number <= sent
  BY <1>1, <1>3 DEF NumbersOK
<1>12. m.number <= sent /\ \A s \in Sockets, u \in Watchable : seen[s][u] <= m.number /\ seen[s][u] <= sent
  BY <1>1, <1>3 DEF NumbersOK
<1>13. \A i, j \in DOMAIN inbox' : i <= j => inbox'[i].number <= inbox'[j].number
  BY <1>1, <1>3 DEF NumbersOK
<1>14. \A i \in DOMAIN inbox', s \in Sockets, u \in Watchable : seen[s][u] <= inbox'[i].number
  BY <1>1, <1>3 DEF NumbersOK
<1>15. NumbersOK'
  BY <1>1, <1>3, <1>7, <1>8, <1>10, <1>11, <1>12, <1>13, <1>14 DEF NumbersOK
<1> QED
  BY <1>9, <1>15 DEF BrowsersOK

\* The state a caster that casts for a target turns to
LEMMA CastSafe ==
    ASSUME BrowsersOK, NEW k \in Casters, NEW m \in Nat, NEW t \in Watchable, NEW T \in SUBSET Watchable,
           Cast(k, m, t, T),
           k = "listener" => m = caster[k].message /\ caster[k].pc # "idle",
           UNCHANGED <<endpoint, watches, watchers, tracked, broken, inbox, sent, asked, seen>>
    PROVE  BrowsersOK'
<1> DEFINE d == [pc |-> "sending", message |-> m, targets |-> {t} \cup T, todo |-> watchers[t], dead |-> {}]
<1>1. TablesOK /\ CastersOK /\ NumbersOK
  BY DEF BrowsersOK
<1>2. d \in CasterState
  BY <1>1, CastTyped
<1>3. caster' = [caster EXCEPT ![k] = d]
  BY DEF Cast
<1>4. d.pc = "sending" /\ d.message = m /\ d.targets # {} /\ d.dead = {}
  OBVIOUS
<1> HIDE DEF d
<1>5. TablesOK' /\ CastersOK'
  BY <1>2, <1>3, <1>4, CasterTurns
<1>6. caster'["listener"] = IF k = "listener" THEN d ELSE caster["listener"]
  BY <1>1, <1>3 DEF CastersOK, Casters
<1>7. NumbersOK'
  BY <1>1, <1>4, <1>6, NumbersKept
<1> QED
  BY <1>5, <1>7 DEF BrowsersOK

\* A caster that rests, or a poller that goes on to fetch
LEMMA RestSafe ==
    ASSUME BrowsersOK, NEW k \in Casters, NEW c \in CasterState,
           caster' = [caster EXCEPT ![k] = c],
           \/ c = AtRestCaster
           \/ k = "poller" /\ c.pc = "fetching" /\ c.targets # {} /\ c.dead = {},
           UNCHANGED <<endpoint, watches, watchers, tracked, broken, inbox, sent, asked, seen>>
    PROVE  BrowsersOK'
<1>1. TablesOK /\ CastersOK /\ NumbersOK
  BY DEF BrowsersOK
<1>2. TablesOK' /\ CastersOK'
  <2>1. c.pc # "sent" /\ c.dead = {} /\ (c.pc = "idle" => c = AtRestCaster) /\ (c.pc # "idle" => c.targets # {})
    BY AtRestTyped
  <2> QED
    BY <2>1, CasterTurns
<1>3. caster'["listener"] = caster["listener"] \/ caster'["listener"] = AtRestCaster
  BY <1>1 DEF CastersOK, Casters
<1>4. NumbersOK'
  BY <1>1, <1>3, NumbersKept
<1> QED
  BY <1>2, <1>4 DEF BrowsersOK

LEMMA FetchingTyped ==
    ASSUME NEW T \in SUBSET Watchable
    PROVE  /\ Polled(T) \in CasterState
           /\ Polled(T) = AtRestCaster \/ (Polled(T).pc = "fetching" /\ Polled(T).targets # {} /\ Polled(T).dead = {})
<1>1. PICK r \in CasterState : r = AtRestCaster
  BY AtRestTyped
<1>2. CASE T = {}
  <2>1. Polled(T) = [r EXCEPT !.pc = "idle", !.targets = {}]
    BY <1>1, <1>2 DEF Polled
  <2>2. r.pc = "idle" /\ r.targets = {}
    BY <1>1 DEF AtRestCaster
  <2>3. PICK q : q = Polled(T)
    OBVIOUS
  <2>4. q \in CasterState /\ q.pc = "idle" /\ q.targets = {}
        /\ q.message = r.message /\ q.todo = r.todo /\ q.dead = r.dead
    BY <2>1, <2>3 DEF CasterState
  <2>5. q = r
    BY <2>2, <2>4 DEF CasterState
  <2> QED
    BY <2>3, <2>5, <1>1
<1>3. CASE T # {}
  <2>1. Polled(T) = [r EXCEPT !.pc = "fetching", !.targets = T]
    BY <1>1, <1>3 DEF Polled
  <2>2. r.dead = {}
    BY <1>1 DEF AtRestCaster
  <2>3. Polled(T).pc = "fetching" /\ Polled(T).targets = T /\ Polled(T).dead = {} /\ Polled(T) \in CasterState
    BY <2>1, <2>2 DEF CasterState
  <2> QED
    BY <2>3, <1>3
<1> QED
  BY <1>2, <1>3

LEMMA ListenerSafe ==
    ASSUME BrowsersOK, StopListening \/ \E ok \in BOOLEAN : Stores(ok)
    PROVE  BrowsersOK'
<1>1. UNCHANGED <<endpoint, watches, watchers, tracked, broken, inbox, sent, asked, seen>>
  BY DEF StopListening, Stores
<1>2. CASE caster' = [caster EXCEPT !["listener"] = AtRestCaster]
  BY <1>1, <1>2, AtRestTyped, RestSafe DEF Casters
<1>3. CASE caster' # [caster EXCEPT !["listener"] = AtRestCaster]
  <2>1. caster["listener"].pc = "sent" /\ caster["listener"] \in CasterState
    BY <1>3 DEF StopListening, Stores, BrowsersOK, CastersOK, Casters
  <2>2. PICK rest : rest = caster["listener"].targets \ {TargetOf("listener")}
    OBVIOUS
  <2>3. rest \subseteq Watchable
    BY <2>1, <2>2 DEF CasterState
  <2>4. PICK t : /\ rest # {} /\ t = CHOOSE x \in rest : TRUE
                 /\ Cast("listener", caster["listener"].message, t, rest)
    BY <2>2, <1>3 DEF StopListening, Stores
  <2>5. t \in Watchable /\ caster["listener"].message \in Nat
    BY <2>1, <2>3, <2>4 DEF CasterState
  <2> QED
    BY <1>1, <2>1, <2>3, <2>4, <2>5, CastSafe DEF Casters
<1> QED
  BY <1>2, <1>3

LEMMA PollerSafe ==
    ASSUME BrowsersOK, PollRound \/ NextTicker \/ \E ok \in BOOLEAN : Fetched(ok)
    PROVE  BrowsersOK'
<1>1. UNCHANGED <<endpoint, watches, watchers, tracked, broken, inbox, sent, asked, seen>>
  BY DEF PollRound, NextTicker, Fetched
<1>2. PICK c : c = caster["poller"]
  OBVIOUS
<1>3. c \in CasterState /\ c.targets \subseteq Watchable /\ "poller" \in Casters
  BY <1>2 DEF BrowsersOK, CastersOK, Casters, CasterState
<1>4. CASE PollRound
  <2>1. PICK served \in SUBSET Physical :
          LET T == {t \in Watchable : watchers[t] # {}} \ served IN
          /\ T # {}
          /\ caster' = [caster EXCEPT !["poller"] = [AtRestCaster EXCEPT !.pc = "fetching", !.targets = T]]
    BY <1>4 DEF PollRound
  <2>2. PICK T \in SUBSET Watchable :
          T # {} /\ caster' = [caster EXCEPT !["poller"] = [AtRestCaster EXCEPT !.pc = "fetching", !.targets = T]]
    BY <2>1
  <2>3. Polled(T) = [AtRestCaster EXCEPT !.pc = "fetching", !.targets = T]
    BY <2>2 DEF Polled
  <2> QED
    BY <2>2, <2>3, <1>1, <1>3, FetchingTyped, RestSafe
<1>5. CASE \E T \in SUBSET Watchable : caster' = [caster EXCEPT !["poller"] = Polled(T)]
  BY <1>5, <1>1, <1>3, FetchingTyped, RestSafe
<1>6. CASE NextTicker
  BY <1>6, <1>5, <1>2, <1>3 DEF NextTicker
<1>7. ASSUME NEW ok \in BOOLEAN, Fetched(ok) PROVE BrowsersOK'
  <2>1. CASE ok
    <3>1. TargetOf("poller") \in Watchable
      BY <1>7, <1>3, TargetTyped DEF Fetched
    <3>2. Cast("poller", 0, TargetOf("poller"), c.targets)
      BY <2>1, <1>7, <1>2 DEF Fetched
    <3> QED
      BY <3>1, <3>2, <1>1, <1>3, CastSafe
  <2>2. CASE ~ok
    <3>1. caster' = [caster EXCEPT !["poller"] = Polled(c.targets \ {TargetOf("poller")})]
      BY <2>2, <1>7, <1>2 DEF Fetched
    <3> QED
      BY <3>1, <1>3, <1>5
  <2> QED
    BY <2>1, <2>2
<1> QED
  BY <1>4, <1>6, <1>7

-----------------------------------------------------------------------------
(* The theorems                                                            *)

LEMMA BrowsersStay == BrowsersOK /\ [LqNext]_lqVars => BrowsersOK'
<1> SUFFICES ASSUME BrowsersOK, [LqNext]_lqVars PROVE BrowsersOK'
  OBVIOUS
<1>1. ASSUME NEW s \in Sockets, EndpointStep(s) PROVE BrowsersOK'
  BY <1>1, EndpointSafe
<1>2. ASSUME NEW k \in Casters, Sent(k) \/ \E s \in Sockets : Send(k, s) PROVE BrowsersOK'
  BY <1>2, SentSafe, SendSafe
<1>3. CASE Ingress \/ Take
  BY <1>3, IngressSafe, TakeSafe
<1>4. CASE StopListening \/ \E ok \in BOOLEAN : Stores(ok)
  BY <1>4, ListenerSafe
<1>5. CASE PollRound \/ NextTicker \/ \E ok \in BOOLEAN : Fetched(ok)
  BY <1>5, PollerSafe
<1>6. CASE UNCHANGED lqVars
  BY <1>6 DEF lqVars, BrowsersOK, TablesOK, TableTypes, TablesMatch, TrackedWhileWatched, AskedIsWatched,
              Joined, CastersOK, DeadLeave, Unreachable, NumbersOK
<1> QED
  BY <1>1, <1>2, <1>3, <1>4, <1>5, <1>6 DEF LqNext, EndpointStep

LEMMA BrowsersAlways == LqSpec => []BrowsersOK
  BY BrowsersStart, BrowsersStay, PTL DEF LqSpec

\* However connects, commands, lost browsers and two broadcasts interleave, both tables and
\* the pool's set agree, a browser that is there watches what it asked for, and nobody a
\* broadcast could not reach stays in the tables: ws_manager.py and the loops that broadcast.
THEOREM WatchersCorrect == LqSpec => []WatchersServed
<1>1. BrowsersOK => WatchersServed
  <2> SUFFICES ASSUME BrowsersOK PROVE WatchersServed
    OBVIOUS
  <2>1. LqTypeOK
    BY DEF BrowsersOK, TablesOK, TableTypes, CastersOK, CasterState, LqTypeOK
  <2> QED
    BY <2>1 DEF BrowsersOK, TablesOK, CastersOK, WatchersServed
<1> QED
  BY <1>1, BrowsersAlways, PTL

\* What the listener shows a browser for a ticker never goes back to an older message,
\* whatever broadcasts, endpoints and the poller do in between: fubon_ws_listener_loop.
THEOREM OrderCorrect == LqSpec => SeenInOrder
<1>1. BrowsersOK /\ [LqNext]_lqVars => [\A s \in Sockets, t \in Watchable : seen'[s][t] >= seen[s][t]]_seen
  <2> SUFFICES ASSUME BrowsersOK, [LqNext]_lqVars, seen' # seen,
                      NEW s \in Sockets, NEW t \in Watchable
               PROVE  seen'[s][t] >= seen[s][t]
    OBVIOUS
  <2>1. PICK r \in Sockets : Send("listener", r)
    BY DEF LqNext, lqVars, Connect, Breaks, Notices, Garbled, Subscribe, Unsubscribe, Sent, Send, Casters,
           Ingress, Take, StopListening, PollRound, NextTicker, Stores, Fetched
  <2>2. PICK u \in Watchable : seen' = [seen EXCEPT ![r][u] = caster["listener"].message]
    <3>1. TargetOf("listener") \in Watchable
      BY <2>1, TargetTyped DEF Send, Casters
    <3> QED
      BY <2>1, <3>1 DEF Send
  <2>3. /\ seen[s][t] \in Nat /\ seen[s][t] <= caster["listener"].message
        /\ seen \in [Sockets -> [Watchable -> Nat]]
    BY <2>1 DEF Send, BrowsersOK, NumbersOK
  <2> QED
    BY <2>2, <2>3
<1> QED
  BY <1>1, BrowsersAlways, PTL DEF LqSpec, SeenInOrder

-----------------------------------------------------------------------------
(* The candle recorder: the inductive invariant                            *)

Elems(s) == {s[i] : i \in DOMAIN s}
Rising(s) == \A i, j \in DOMAIN s : i < j => s[i] < s[j]

Flags == [active : BOOLEAN, handler : BOOLEAN, source : BOOLEAN, subscribed : BOOLEAN, queue : BOOLEAN]
LoopStates ==
    [pc : {"asleep", "starting", "checking", "renewing", "finally", "stopping", "draining", "cancelling", "ended"},
     saw : BOOLEAN, final : BOOLEAN, timedOut : BOOLEAN, raised : Nat]
ConsumerStates == [pc : {"none", "waiting", "storing"}, candle : Nat]
Fates == {"unseen", "scheduled", "ignored", "queued", "dropped", "held", "stored", "failed", "deferred", "lost"}

\* Where the task is tells which of the recorder's fields are set
FieldsSuit(r, l, c, h) ==
    /\ r \in Flags /\ l \in LoopStates /\ c \in ConsumerStates /\ h \in BOOLEAN
    /\ r.active => r.queue
    /\ c.pc # "none" => r.active
    /\ l.pc \in {"asleep", "checking", "renewing"} => r.handler = r.active /\ r.queue = r.active
    /\ l.pc = "starting" => r.handler /\ r.queue /\ ~r.active
    /\ h => r.handler \/ r.source
    /\ l.pc \in {"draining", "cancelling"} => ~h /\ ~r.handler /\ ~r.source
    /\ l.pc = "ended" => ~h /\ ~r.handler

FieldsFollow ==
    /\ session \in BOOLEAN /\ ready \in BOOLEAN
    /\ FieldsSuit(recorder, loop, consumer, held)
    /\ handlers = IF recorder.handler THEN 1 ELSE 0

\* The fate of a candle tells where it is, and the count of the queue what join waits for
FatesFollow ==
    /\ queue \in Seq(Candles) /\ callbacks \in Seq(Candles)
    /\ fate \in [Candles -> Fates] /\ late \subseteq Candles
    /\ Len(queue) <= QueueMax /\ unfinished = Len(queue) + (IF consumer.pc = "storing" THEN 1 ELSE 0)
    /\ ~QueueOpen => queue = <<>>
    /\ consumer.pc = "storing" => consumer.candle \in Candles
    /\ \A c \in Candles : /\ fate[c] = "queued" <=> c \in Elems(queue)
                          /\ fate[c] = "scheduled" <=> c \in Elems(callbacks)
                          /\ fate[c] = "held" <=> consumer.pc = "storing" /\ consumer.candle = c

\* What is past the queue came before what is in it, that before what is scheduled, and that
\* before what is to come
Past(c) == fate[c] \in {"held", "stored", "failed"}
OrderKept ==
    /\ Rising(queue) /\ Rising(callbacks)
    /\ \A c \in Elems(queue), d \in Elems(callbacks) : c < d
    /\ \A c \in Candles : Past(c) => \A d \in Elems(queue) \cup Elems(callbacks) : c < d
    /\ NoneOvertakes
    /\ \A c, d \in Candles : fate[c] = "unseen" /\ c < d => fate[d] = "unseen"

\* Once the queue was drained, only candles without a handler come to it
LossesLate ==
    /\ StopStoresAll
    /\ loop.pc = "cancelling" /\ ~loop.timedOut => \A c \in Candles : fate[c] \in {"queued", "held"} => c \in late

RecorderOK == FieldsFollow /\ FatesFollow /\ OrderKept /\ LossesLate

\* The first candle of a sequence that rises precedes the others
LEMMA TailRises ==
    ASSUME NEW s \in Seq(Candles), s # <<>>, Rising(s)
    PROVE  /\ Head(s) \in Candles /\ Tail(s) \in Seq(Candles) /\ Len(Tail(s)) = Len(s) - 1 /\ Len(s) \in Nat
           /\ Rising(Tail(s))
           /\ Elems(s) = {Head(s)} \cup Elems(Tail(s))
           /\ \A c \in Elems(Tail(s)) : Head(s) < c
<1>1. /\ Len(s) \in Nat \ {0} /\ DOMAIN s = 1..Len(s) /\ \A i \in 1..Len(s) : s[i] \in Candles
      /\ Head(s) = s[1] /\ Tail(s) \in Seq(Candles) /\ Len(Tail(s)) = Len(s) - 1
      /\ DOMAIN Tail(s) = 1..(Len(s) - 1) /\ \A i \in 1..(Len(s) - 1) : Tail(s)[i] = s[i + 1]
  OBVIOUS
<1>2. PICK t : t = Tail(s)
  OBVIOUS
<1>3. /\ DOMAIN t = 1..(Len(s) - 1) /\ \A i \in DOMAIN t : t[i] = s[i + 1] /\ i + 1 \in DOMAIN s
  BY <1>1, <1>2
<1>4. Rising(t)
  BY <1>1, <1>3 DEF Rising
<1>5. \A c \in Elems(t) : s[1] < c /\ c \in Elems(s)
  BY <1>1, <1>3 DEF Rising, Elems
<1>6. \A i \in DOMAIN s : i = 1 \/ (i - 1 \in DOMAIN t /\ t[i - 1] = s[i])
  BY <1>1, <1>3
<1>7. Elems(s) = {s[1]} \cup Elems(t)
  <2>1. ASSUME NEW c \in Elems(s) PROVE c \in {s[1]} \cup Elems(t)
    <3>1. PICK i \in DOMAIN s : c = s[i]
      BY <2>1 DEF Elems
    <3>2. CASE i = 1
      BY <3>1, <3>2
    <3>3. CASE i - 1 \in DOMAIN t /\ t[i - 1] = s[i]
      BY <3>1, <3>3 DEF Elems
    <3> QED
      BY <3>2, <3>3, <1>6
  <2>2. s[1] \in Elems(s)
    BY <1>1 DEF Elems
  <2> QED
    BY <2>1, <2>2, <1>5
<1> QED
  BY <1>1, <1>2, <1>4, <1>5, <1>7

\* A candle after all the others may be appended
LEMMA AppendRises ==
    ASSUME NEW s \in Seq(Candles), Rising(s), NEW c \in Candles, \A d \in Elems(s) : d < c
    PROVE  /\ Append(s, c) \in Seq(Candles) /\ Len(Append(s, c)) = Len(s) + 1 /\ Len(s) \in Nat
           /\ Rising(Append(s, c))
           /\ Elems(Append(s, c)) = Elems(s) \cup {c}
<1>1. PICK t : t = Append(s, c)
  OBVIOUS
<1>2. /\ Len(s) \in Nat /\ DOMAIN s = 1..Len(s) /\ t \in Seq(Candles) /\ Len(t) = Len(s) + 1
      /\ DOMAIN t = 1..(Len(s) + 1) /\ t[Len(s) + 1] = c /\ \A i \in 1..Len(s) : t[i] = s[i]
  BY <1>1
<1>3. \A i \in DOMAIN t : (i = Len(s) + 1 /\ t[i] = c) \/ (i \in DOMAIN s /\ t[i] = s[i] /\ s[i] \in Elems(s))
  BY <1>2 DEF Elems
<1>4. Rising(t)
  BY <1>2, <1>3 DEF Rising
<1>5. Elems(t) = Elems(s) \cup {c}
  BY <1>2, <1>3 DEF Elems
<1> QED
  BY <1>1, <1>2, <1>4, <1>5

LEMMA ElemsTyped ==
    ASSUME NEW s \in Seq(Candles), NEW c \in Elems(s)
    PROVE  c \in Candles /\ c \in Nat
<1>1. PICK i \in DOMAIN s : c = s[i]
  BY DEF Elems
<1>2. c \in Candles
  BY <1>1
<1> QED
  BY <1>2 DEF Candles

LEMMA NoElems == Elems(<<>>) = {} /\ Rising(<<>>) /\ <<>> \in Seq(Candles) /\ Len(<<>>) = 0
  BY DEF Elems, Rising

LEMMA RecorderStarts == FrInit => RecorderOK
<1> SUFFICES ASSUME FrInit PROVE RecorderOK
  OBVIOUS
<1> USE DEF FrInit
<1>1. FieldsFollow
  BY DEF FieldsFollow, FieldsSuit, Flags, LoopStates, ConsumerStates
<1>2. FatesFollow
  BY NoElems, RecorderAssumption DEF FatesFollow, Fates, QueueOpen, RecorderAssumption
<1>3. OrderKept /\ LossesLate
  BY NoElems DEF OrderKept, Past, NoneOvertakes, LossesLate, StopStoresAll
<1> QED
  BY <1>1, <1>2, <1>3 DEF RecorderOK

-----------------------------------------------------------------------------
(* The recorder's steps                                                    *)

\* No step loses track of the handler, the queue or the consumer
LEMMA FieldsStay ==
    ASSUME RecorderOK, FrNext
    PROVE  FieldsFollow'
<1>1. FieldsFollow
  BY DEF RecorderOK
<1>2. /\ session \in BOOLEAN /\ ready \in BOOLEAN /\ FieldsSuit(recorder, loop, consumer, held)
      /\ handlers = IF recorder.handler THEN 1 ELSE 0
  BY <1>1 DEF FieldsFollow
<1>3. session' \in BOOLEAN
  BY <1>2 DEF FrNext, LoopStep, Opens, Closes, Shift, PutCandle, Candle, Consume, Stored, Raises, CancelRun, Poll,
              StartBegins, StartEnds, Check, Renew, Finally, Released, Drained, Stops, frPool
<1>4. ready' \in BOOLEAN
  <2>1. CASE ready' = ~ready
    BY <2>1
  <2>2. CASE ready' = ready
    BY <2>2, <1>2
  <2> QED
    BY <2>1, <2>2
    DEF FrNext, LoopStep, Opens, Closes, Shift, PutCandle, Candle, Consume, Stored, Raises, CancelRun, Poll,
        StartBegins, StartEnds, Check, Renew, Finally, Released, Drained, Stops, frPool
<1>5. PICK r \in Flags, l \in LoopStates, c \in ConsumerStates, h \in BOOLEAN :
        r = recorder /\ l = loop /\ c = consumer /\ h = held
  BY <1>2 DEF FieldsSuit
<1>6. FieldsSuit(r, l, c, h) /\ handlers = IF r.handler THEN 1 ELSE 0
  BY <1>2, <1>5
<1>7. SUFFICES /\ FieldsSuit(recorder', loop', consumer', held')
               /\ handlers' = IF recorder'.handler THEN 1 ELSE 0
  BY <1>3, <1>4 DEF FieldsFollow
<1> DEFINE Goal == FieldsSuit(recorder', loop', consumer', held')
                   /\ handlers' = IF recorder'.handler THEN 1 ELSE 0
<1>8. CASE UNCHANGED <<recorder, loop, consumer, held, handlers>>
  BY <1>2, <1>8
<1>9. ASSUME NEW k \in LoopStates, loop' = k, UNCHANGED <<recorder, consumer, held, handlers>>,
             FieldsSuit(r, k, c, h)
      PROVE  Goal
  BY <1>5, <1>6, <1>9
<1>10. CASE Opens \/ Closes \/ Shift \/ PutCandle \/ \E x \in Candles : Candle(x)
  BY <1>8, <1>10 DEF Opens, Closes, Shift, PutCandle, Candle, frPool
<1>11. CASE Consume
  <2>1. Head(queue) \in Nat
    <3>1. queue \in Seq(Candles) /\ queue # <<>> /\ Rising(queue)
      BY <1>11 DEF Consume, RecorderOK, FatesFollow, OrderKept
    <3> QED
      BY <3>1, TailRises DEF Candles
  <2>2. /\ c.pc = "waiting" /\ consumer' = [pc |-> "storing", candle |-> Head(queue)]
        /\ UNCHANGED <<held, handlers, recorder, loop>>
    BY <1>5, <1>11 DEF Consume, FirstIn, frPool
  <2>3. FieldsSuit(r, l, [pc |-> "storing", candle |-> Head(queue)], h)
    BY <2>1, <2>2, <1>6 DEF FieldsSuit, ConsumerStates
  <2> QED
    BY <2>2, <2>3, <1>5, <1>6
<1>12. ASSUME NEW ok \in BOOLEAN, Stored(ok) PROVE Goal
  <2>1. /\ c.pc = "storing" /\ consumer' = [pc |-> "waiting", candle |-> 0]
        /\ UNCHANGED <<held, handlers, recorder, loop>>
    BY <1>5, <1>12 DEF Stored, frPool
  <2>2. FieldsSuit(r, l, [pc |-> "waiting", candle |-> 0], h)
    BY <2>1, <1>6 DEF FieldsSuit, ConsumerStates
  <2> QED
    BY <2>1, <2>2, <1>5, <1>6
<1>13. CASE Raises \/ CancelRun
  <2>1. PICK k \in LoopStates : loop' = k /\ k.pc = "finally"
    <3>1. CASE Raises
      <4>1. PICK n \in Nat : loop' = [l EXCEPT !.pc = "finally", !.final = TRUE, !.raised = n]
        <5>1. l.raised + 1 \in Nat /\ loop' = [l EXCEPT !.pc = "finally", !.final = TRUE, !.raised = l.raised + 1]
          BY <3>1, <1>5 DEF Raises, LoopStates
        <5> QED
          BY <5>1
      <4> QED
        <5>1. loop' \in LoopStates
          BY <4>1 DEF LoopStates
        <5>2. loop'.pc = "finally"
          BY <4>1 DEF LoopStates
        <5> QED
          BY <5>1, <5>2
    <3>2. CASE CancelRun
      <4>1. loop' = [l EXCEPT !.pc = "finally", !.final = TRUE]
        BY <3>2, <1>5 DEF CancelRun
      <4> QED
        <5>1. loop' \in LoopStates
          BY <4>1 DEF LoopStates
        <5>2. loop'.pc = "finally"
          BY <4>1 DEF LoopStates
        <5> QED
          BY <5>1, <5>2
    <3> QED
      BY <3>1, <3>2, <1>13
  <2>2. UNCHANGED <<recorder, consumer, held, handlers>>
    BY <1>13 DEF Raises, CancelRun, frPool
  <2>3. FieldsSuit(r, k, c, h)
    BY <2>1, <1>6 DEF FieldsSuit
  <2> QED
    BY <2>1, <2>2, <2>3, <1>9
<1>14. CASE Poll
  <2>1. l.pc = "asleep"
    BY <1>5, <1>14 DEF Poll
  <2>2. CASE session /\ ~r.active
    <3>1. /\ loop' = [l EXCEPT !.pc = "starting", !.saw = TRUE]
          /\ recorder' = [r EXCEPT !.handler = TRUE, !.queue = TRUE]
          /\ handlers' = handlers + 1 /\ held' = TRUE /\ consumer' = c
      BY <2>2, <1>5, <1>14 DEF Poll, StartBegins
    <3>2. PICK k \in LoopStates : loop' = k /\ k.pc = "starting"
      <4>1. loop' \in LoopStates
        BY <3>1 DEF LoopStates
      <4>2. loop'.pc = "starting"
        BY <3>1 DEF LoopStates
      <4> QED
        BY <4>1, <4>2
    <3>3. PICK q \in Flags : recorder' = q /\ q.handler /\ q.queue /\ q.active = r.active
      <4>1. recorder' \in Flags
        BY <3>1 DEF Flags
      <4>2. recorder'.handler /\ recorder'.queue
        BY <3>1 DEF Flags
      <4>3. recorder'.active = r.active
        BY <3>1 DEF Flags
      <4> QED
        BY <4>1, <4>2, <4>3
    <3>4. FieldsSuit(q, k, c, TRUE)
      BY <2>1, <2>2, <3>2, <3>3, <1>6 DEF FieldsSuit
    <3>5. handlers' = 1
      BY <2>1, <2>2, <3>1, <1>6 DEF FieldsSuit
    <3> QED
      BY <3>1, <3>2, <3>3, <3>4, <3>5
  <2>3. CASE ~(session /\ ~r.active)
    <3>1. /\ loop' = [l EXCEPT !.saw = session, !.pc = IF MustStop THEN "stopping" ELSE "checking"]
          /\ UNCHANGED <<recorder, consumer, held, handlers>>
      BY <2>3, <1>5, <1>14 DEF Poll, frPool
    <3>2. PICK k \in LoopStates : loop' = k /\ k.pc \in {"stopping", "checking"}
      <4>1. loop' \in LoopStates
        BY <3>1, <1>2 DEF LoopStates
      <4>2. loop'.pc \in {"stopping", "checking"}
        BY <3>1, <1>2 DEF LoopStates
      <4> QED
        BY <4>1, <4>2
    <3>3. FieldsSuit(r, k, c, h)
      BY <2>1, <3>2, <1>6 DEF FieldsSuit
    <3> QED
      BY <3>1, <3>2, <3>3, <1>9
  <2> QED
    BY <2>2, <2>3
<1>15. CASE StartEnds
  <2>1. l.pc = "starting" /\ loop' = [l EXCEPT !.pc = IF ready THEN "checking" ELSE "asleep"] /\ held' = h
    BY <1>5, <1>15 DEF StartEnds
  <2>2. PICK k \in LoopStates : loop' = k /\ k.pc \in {"checking", "asleep"}
    BY <2>1 DEF LoopStates
  <2>3. CASE ready
    <3>1. /\ recorder' = [active |-> TRUE, handler |-> TRUE, source |-> TRUE, subscribed |-> TRUE, queue |-> TRUE]
          /\ consumer' = [pc |-> "waiting", candle |-> 0] /\ handlers' = handlers
      BY <2>3, <1>15 DEF StartEnds
    <3>2. FieldsSuit([active |-> TRUE, handler |-> TRUE, source |-> TRUE, subscribed |-> TRUE, queue |-> TRUE],
                     k, [pc |-> "waiting", candle |-> 0], h)
      BY <2>2 DEF FieldsSuit, Flags, ConsumerStates
    <3>3. handlers = 1
      BY <2>1, <1>6 DEF FieldsSuit
    <3> QED
      BY <2>1, <2>2, <3>1, <3>2, <3>3
  <2>4. CASE ~ready
    <3>1. /\ recorder' = [r EXCEPT !.handler = FALSE, !.source = TRUE, !.subscribed = FALSE, !.queue = FALSE]
          /\ consumer' = c /\ handlers' = handlers - 1
      BY <2>4, <1>5, <1>15 DEF StartEnds
    <3>2. PICK q \in Flags : recorder' = q /\ ~q.handler /\ ~q.queue /\ q.source /\ q.active = r.active
      <4>1. recorder' \in Flags
        BY <3>1 DEF Flags
      <4>2. ~recorder'.handler /\ ~recorder'.queue /\ recorder'.source
        BY <3>1 DEF Flags
      <4>3. recorder'.active = r.active
        BY <3>1 DEF Flags
      <4> QED
        BY <4>1, <4>2, <4>3
    <3>3. FieldsSuit(q, k, c, h)
      <4>1. ~r.active /\ c.pc = "none" /\ c \in ConsumerStates /\ h \in BOOLEAN
        BY <2>1, <1>6 DEF FieldsSuit
      <4>2. q.active = FALSE /\ q.handler = FALSE /\ q.queue = FALSE /\ q.source = TRUE
        BY <4>1, <3>2 DEF Flags
      <4> QED
        BY <4>1, <4>2, <2>2 DEF FieldsSuit
    <3>4. handlers' = 0
      BY <2>1, <3>1, <1>6 DEF FieldsSuit
    <3> QED
      BY <2>1, <2>2, <3>1, <3>2, <3>3, <3>4
  <2> QED
    BY <2>3, <2>4
<1>16. CASE Check \/ Renew
  <2>1. /\ l.pc \in {"checking", "renewing"} /\ UNCHANGED <<consumer, held, handlers>>
        /\ \E pc \in {"renewing", "asleep"} : loop' = [l EXCEPT !.pc = pc]
        /\ \E b \in BOOLEAN : recorder' = [r EXCEPT !.subscribed = b]
    <3>1. CASE Check
      <4>1. recorder' = [r EXCEPT !.subscribed = IF loop.saw /\ recorder.active THEN ready ELSE r.subscribed]
        BY <3>1, <1>5 DEF Check
      <4>2. (IF loop.saw /\ recorder.active THEN ready ELSE r.subscribed) \in BOOLEAN
        BY <1>2 DEF Flags
      <4>3. \E b \in BOOLEAN : recorder' = [r EXCEPT !.subscribed = b]
        BY <4>1, <4>2
      <4> QED
        BY <4>3, <3>1, <1>5 DEF Check, frPool
    <3>2. CASE Renew
      BY <3>2, <1>2, <1>5 DEF Renew, frPool
    <3> QED
      BY <3>1, <3>2, <1>16
  <2>2. PICK k \in LoopStates : loop' = k /\ k.pc \in {"renewing", "asleep"}
    BY <2>1 DEF LoopStates
  <2>3. PICK q \in Flags : recorder' = q /\ q.handler = r.handler /\ q.queue = r.queue /\ q.active = r.active
                           /\ q.source = r.source
    BY <2>1 DEF Flags
  <2>4. FieldsSuit(q, k, c, h)
    BY <2>1, <2>2, <2>3, <1>6 DEF FieldsSuit
  <2>5. handlers = IF q.handler THEN 1 ELSE 0
    BY <2>3, <1>6
  <2> QED
    BY <2>1, <2>2, <2>3, <2>4, <2>5, <1>5
<1>17. CASE Finally
  <2>1. /\ loop' = [l EXCEPT !.pc = IF NothingToStop THEN "ended" ELSE "stopping"]
        /\ UNCHANGED <<recorder, consumer, held, handlers>>
    BY <1>5, <1>17 DEF Finally, frPool
  <2>2. PICK k \in LoopStates : loop' = k /\ (k.pc = "stopping" \/ (k.pc = "ended" /\ NothingToStop))
    BY <2>1 DEF LoopStates
  <2>3. FieldsSuit(r, k, c, h)
    BY <2>2, <1>5, <1>6 DEF FieldsSuit, NothingToStop
  <2> QED
    BY <2>1, <2>2, <2>3, <1>9
<1>18. CASE Released
  <2>1. /\ loop' = [l EXCEPT !.pc = "draining"] /\ held' = FALSE /\ consumer' = c
        /\ recorder' = [r EXCEPT !.source = FALSE, !.handler = FALSE]
        /\ handlers' = IF r.handler THEN handlers - 1 ELSE handlers
    BY <1>5, <1>18 DEF Released
  <2>2. PICK k \in LoopStates : loop' = k /\ k.pc = "draining"
    BY <2>1 DEF LoopStates
  <2>3. PICK q \in Flags : recorder' = q /\ ~q.handler /\ ~q.source /\ q.queue = r.queue /\ q.active = r.active
    <3>1. recorder' \in Flags
      BY <2>1 DEF Flags
    <3>2. ~recorder'.handler /\ ~recorder'.source
      BY <2>1 DEF Flags
    <3>3. recorder'.queue = r.queue /\ recorder'.active = r.active
      BY <2>1 DEF Flags
    <3> QED
      BY <3>1, <3>2, <3>3
  <2>4. FieldsSuit(q, k, c, FALSE)
    BY <2>2, <2>3, <1>6 DEF FieldsSuit
  <2>5. handlers' = 0
    BY <2>1, <1>6
  <2> QED
    BY <2>1, <2>2, <2>3, <2>4, <2>5
<1>19. ASSUME NEW b \in BOOLEAN, Drained(b) PROVE Goal
  <2>1. /\ l.pc = "draining" /\ UNCHANGED <<recorder, consumer, held, handlers>>
        /\ \E x \in BOOLEAN : loop' = [l EXCEPT !.pc = "cancelling", !.timedOut = x]
    <3>1. (l.timedOut \/ b) \in BOOLEAN /\ loop' = [l EXCEPT !.pc = "cancelling", !.timedOut = l.timedOut \/ b]
      BY <1>5, <1>19 DEF Drained
    <3> QED
      BY <3>1, <1>5, <1>19 DEF Drained, frPool
  <2>2. PICK k \in LoopStates : loop' = k /\ k.pc = "cancelling"
    BY <2>1 DEF LoopStates
  <2>3. FieldsSuit(r, k, c, h)
    BY <2>1, <2>2, <1>6 DEF FieldsSuit
  <2> QED
    BY <2>1, <2>2, <2>3, <1>9
<1>20. CASE Stops
  <2>1. /\ l.pc = "cancelling" /\ loop' = [l EXCEPT !.pc = IF loop.final THEN "ended" ELSE "checking"]
        /\ recorder' = [r EXCEPT !.active = FALSE, !.subscribed = FALSE, !.queue = FALSE]
        /\ consumer' = [pc |-> "none", candle |-> 0] /\ held' = h /\ handlers' = handlers
    BY <1>5, <1>20 DEF Stops, frPool
  <2>2. PICK k \in LoopStates : loop' = k /\ k.pc \in {"ended", "checking"}
    BY <2>1 DEF LoopStates
  <2>3. PICK q \in Flags : /\ recorder' = q /\ ~q.active /\ ~q.queue /\ q.handler = r.handler
                           /\ q.source = r.source
    <3>1. recorder' \in Flags
      BY <2>1 DEF Flags
    <3>2. ~recorder'.active /\ ~recorder'.queue
      BY <2>1 DEF Flags
    <3>3. recorder'.handler = r.handler /\ recorder'.source = r.source
      BY <2>1 DEF Flags
    <3> QED
      BY <3>1, <3>2, <3>3
  <2>4. FieldsSuit(q, k, [pc |-> "none", candle |-> 0], h)
    BY <2>1, <2>2, <2>3, <1>6 DEF FieldsSuit, ConsumerStates, Flags
  <2>5. handlers = IF q.handler THEN 1 ELSE 0
    BY <2>3, <1>6
  <2> QED
    BY <2>1, <2>2, <2>3, <2>4, <2>5
<1> QED
  BY <1>10, <1>11, <1>12, <1>13, <1>14, <1>15, <1>16, <1>17, <1>18, <1>19, <1>20 DEF FrNext, LoopStep

\* What a step must show that moves no candle
LEMMA CandlesRest ==
    ASSUME RecorderOK, UNCHANGED <<callbacks, queue, unfinished, fate, late, consumer>>,
           recorder'.queue = recorder.queue,
           ~loop'.timedOut => ~loop.timedOut,
           loop'.pc = "cancelling" /\ ~loop'.timedOut => loop.pc = "cancelling" \/ QueueJoined
    PROVE  FatesFollow' /\ OrderKept' /\ LossesLate'
<1>1. FatesFollow'
  BY DEF RecorderOK, FatesFollow, QueueOpen
<1>2. OrderKept'
  BY DEF RecorderOK, OrderKept, Past, NoneOvertakes
<1>3. LossesLate'
  <2>1. StopStoresAll'
    BY DEF RecorderOK, LossesLate, StopStoresAll
  <2>2. CASE QueueJoined
    <3>1. Len(queue) \in Nat /\ (queue # <<>> => Len(queue) > 0)
      BY DEF RecorderOK, FatesFollow
    <3>2. queue = <<>> /\ consumer.pc # "storing"
      <4>1. CASE QueueOpen
        BY <4>1, <2>2, <3>1 DEF QueueJoined, RecorderOK, FatesFollow
      <4>2. CASE ~QueueOpen
        BY <4>2 DEF RecorderOK, FatesFollow, FieldsFollow, FieldsSuit, QueueOpen
      <4> QED
        BY <4>1, <4>2
    <3>3. \A c \in Candles : fate[c] \notin {"queued", "held"}
      BY <3>2, NoElems DEF RecorderOK, FatesFollow
    <3> QED
      BY <2>1, <3>3 DEF LossesLate
  <2>3. CASE ~QueueJoined
    BY <2>1, <2>3 DEF RecorderOK, LossesLate
  <2> QED
    BY <2>2, <2>3
<1> QED
  BY <1>1, <1>2, <1>3

\* The steps of the task that move no candle, and those of the world
LEMMA TaskTurns ==
    ASSUME RecorderOK,
           \/ Opens \/ Closes \/ Shift \/ Raises \/ CancelRun \/ Check \/ Renew \/ Finally \/ Released
           \/ Poll /\ ~(session /\ ~recorder.active)
           \/ \E b \in BOOLEAN : Drained(b)
    PROVE  FatesFollow' /\ OrderKept' /\ LossesLate'
<1>1. UNCHANGED <<callbacks, queue, unfinished, fate, late, consumer>>
  BY DEF Opens, Closes, Shift, Raises, CancelRun, Check, Renew, Finally, Released, Poll, Drained, frQueue, StartBegins
<1>2. PICK r \in Flags, l \in LoopStates : r = recorder /\ l = loop
  BY DEF RecorderOK, FieldsFollow, FieldsSuit
<1>3. recorder'.queue = recorder.queue
  <2>1. CASE recorder' = recorder
    BY <2>1
  <2>2. CASE Check
    BY <2>2, <1>2 DEF Check, Flags
  <2>3. CASE Renew
    BY <2>3, <1>2 DEF Renew, Flags
  <2>4. CASE Released
    BY <2>4, <1>2 DEF Released, Flags
  <2> QED
    BY <2>1, <2>2, <2>3, <2>4 DEF Opens, Closes, Shift, Raises, CancelRun, Finally, Poll, Drained
<1>4. CASE \E b \in BOOLEAN : Drained(b)
  <2>1. PICK b \in BOOLEAN : b = ~QueueJoined /\ loop' = [l EXCEPT !.pc = "cancelling", !.timedOut = l.timedOut \/ b]
    BY <1>2, <1>4 DEF Drained
  <2>2. loop'.timedOut = (l.timedOut \/ b)
    BY <2>1 DEF LoopStates
  <2>3. ~loop'.timedOut => ~loop.timedOut /\ QueueJoined
    BY <2>1, <2>2, <1>2
  <2> QED
    BY <1>1, <1>3, <2>3, CandlesRest
<1>5. CASE ~\E b \in BOOLEAN : Drained(b)
  <2>1. loop'.timedOut = loop.timedOut /\ (loop'.pc = "cancelling" => loop.pc = "cancelling")
    <3>1. CASE loop' = loop
      BY <3>1
    <3>2. CASE Raises \/ CancelRun
      BY <3>2, <1>2 DEF Raises, CancelRun, LoopStates
    <3>3. CASE Check \/ Renew
      BY <3>3, <1>2 DEF Check, Renew, LoopStates
    <3>4. CASE Finally \/ Released
      BY <3>4, <1>2 DEF Finally, Released, LoopStates
    <3>5. CASE Poll /\ ~(session /\ ~recorder.active)
      BY <3>5, <1>2 DEF Poll, LoopStates
    <3> QED
      BY <3>1, <3>2, <3>3, <3>4, <3>5, <1>5 DEF Opens, Closes, Shift
  <2> QED
    BY <1>1, <1>3, <2>1, CandlesRest
<1> QED
  BY <1>4, <1>5

CandlesOK == FatesFollow /\ OrderKept /\ LossesLate

\* What is to come comes after what has come
LEMMA UnseenLast ==
    ASSUME OrderKept, NEW c \in Candles, fate[c] = "unseen", NEW d \in Candles, fate[d] # "unseen"
    PROVE  d < c
<1>1. c \in Nat /\ d \in Nat
  BY DEF Candles
<1>2. c # d /\ ~(c < d)
  BY DEF OrderKept
<1> QED
  BY <1>1, <1>2

\* A candle is scheduled after all the others
LEMMA CandleKept ==
    ASSUME RecorderOK, NEW c \in Candles, Candle(c)
    PROVE  CandlesOK'
<1>1. FatesFollow /\ OrderKept /\ LossesLate
  BY DEF RecorderOK
<1>2. /\ fate[c] = "unseen" /\ \A d \in 1..(c - 1) : fate[d] # "unseen"
      /\ fate' = [fate EXCEPT ![c] = "scheduled"] /\ callbacks' = Append(callbacks, c)
      /\ UNCHANGED <<recorder, loop, consumer, queue, unfinished, late>>
  BY DEF Candle
<1>3. \A d \in Elems(callbacks) \cup Elems(queue) : d < c
  <2> SUFFICES ASSUME NEW d \in Elems(callbacks) \cup Elems(queue) PROVE d < c
    OBVIOUS
  <2>1. d \in Candles
    BY <1>1 DEF FatesFollow, Elems
  <2>2. fate[d] # "unseen"
    BY <2>1, <1>1 DEF FatesFollow
  <2> QED
    BY <2>1, <2>2, <1>1, <1>2, UnseenLast
<1>4. /\ callbacks' \in Seq(Candles) /\ Rising(callbacks') /\ Elems(callbacks') = Elems(callbacks) \cup {c}
  BY <1>1, <1>2, <1>3, AppendRises DEF FatesFollow, OrderKept
<1>5. fate' \in [Candles -> Fates] /\ \A d \in Candles : fate'[d] = IF d = c THEN "scheduled" ELSE fate[d]
  BY <1>1, <1>2 DEF FatesFollow, Fates
<1>6. FatesFollow'
  <2>1. \A d \in Candles : /\ fate'[d] = "queued" <=> d \in Elems(queue)
                           /\ fate'[d] = "scheduled" <=> d \in Elems(callbacks')
                           /\ fate'[d] = "held" <=> consumer.pc = "storing" /\ consumer.candle = d
    BY <1>1, <1>2, <1>4, <1>5 DEF FatesFollow
  <2> QED
    BY <2>1, <1>1, <1>2, <1>4, <1>5 DEF FatesFollow, QueueOpen
<1>7. OrderKept'
  <2>1. \A d \in Candles : Past(d)' => Past(d) /\ d < c
    BY <1>1, <1>2, <1>5, UnseenLast DEF Past
  <2>2. \A d \in Candles : Past(d)' => \A e \in Elems(queue) \cup Elems(callbacks') : d < e
    BY <2>1, <1>1, <1>4 DEF OrderKept
  <2>3. \A d \in Elems(queue), e \in Elems(callbacks') : d < e
    BY <1>1, <1>3, <1>4 DEF OrderKept
  <2>4. \A d, e \in Candles : fate'[d] = "unseen" /\ d < e => fate'[e] = "unseen"
    <3> SUFFICES ASSUME NEW d \in Candles, NEW e \in Candles, fate'[d] = "unseen", d < e
                 PROVE  fate'[e] = "unseen"
      OBVIOUS
    <3>1. d # c /\ fate[d] = "unseen"
      BY <1>5
    <3>2. d \in 1..(c - 1) \/ c < d
      BY <3>1 DEF Candles
    <3>3. c < d
      BY <3>1, <3>2, <1>2
    <3>4. e # c /\ fate[e] = "unseen"
      BY <3>1, <3>3, <1>1 DEF OrderKept, Candles
    <3> QED
      BY <3>4, <1>5
  <2>5. NoneOvertakes'
    BY <1>1, <1>2, <1>5 DEF OrderKept, NoneOvertakes
  <2> QED
    BY <2>2, <2>3, <2>4, <2>5, <1>1, <1>2, <1>4 DEF OrderKept
<1>8. LossesLate'
  BY <1>1, <1>2, <1>5 DEF LossesLate, StopStoresAll
<1> QED
  BY <1>6, <1>7, <1>8 DEF CandlesOK

\* A scheduled candle goes to the queue, or is ignored
LEMMA PutKept ==
    ASSUME RecorderOK, PutCandle
    PROVE  CandlesOK'
<1>1. FieldsFollow /\ FatesFollow /\ OrderKept /\ LossesLate
  BY DEF RecorderOK
<1>2. /\ callbacks # <<>> /\ callbacks' = Tail(callbacks)
      /\ UNCHANGED <<recorder, loop, consumer>>
  BY DEF PutCandle
<1>3. PICK c \in Candles : c = Head(callbacks)
  BY <1>1, <1>2, TailRises DEF FatesFollow, OrderKept
<1>4. /\ callbacks' \in Seq(Candles) /\ Rising(callbacks') /\ Elems(callbacks) = {c} \cup Elems(callbacks')
      /\ \A d \in Elems(callbacks') : c < d /\ d # c
  <2>1. /\ callbacks' \in Seq(Candles) /\ Rising(callbacks') /\ Elems(callbacks) = {c} \cup Elems(callbacks')
        /\ \A d \in Elems(callbacks') : c < d
    BY <1>1, <1>2, <1>3, TailRises DEF FatesFollow, OrderKept
  <2>2. \A d \in Elems(callbacks') : d \in Nat
    BY <2>1, ElemsTyped
  <2> QED
    BY <2>1, <2>2 DEF Candles
<1>5. \A d \in Elems(queue) : d < c /\ d \in Candles
  BY <1>1, <1>4, ElemsTyped DEF OrderKept, FatesFollow
<1>6. fate[c] = "scheduled"
  BY <1>1, <1>4 DEF FatesFollow
<1>7. \A d \in Candles : Past(d) => d < c
  BY <1>1, <1>4 DEF OrderKept
<1>8. ASSUME NEW f \in [Candles -> Fates], fate' = f, f[c] \in {"ignored", "queued"},
             \A d \in Candles : d # c => f[d] = fate[d] \/ (fate[d] = "queued" /\ f[d] = "dropped"),
             \A d \in Candles : f[d] = "queued" <=> d \in Elems(queue'),
             queue' \in Seq(Candles), Rising(queue'), Elems(queue') \subseteq Elems(queue) \cup {c},
             Len(queue') <= QueueMax, unfinished' = Len(queue') + (IF consumer.pc = "storing" THEN 1 ELSE 0),
             ~QueueOpen => queue' = <<>>,
             late \subseteq late', late' \subseteq Candles,
             loop.pc = "cancelling" /\ f[c] = "queued" => c \in late'
      PROVE  CandlesOK'
  <2>1. \A d \in Candles : /\ f[d] = "scheduled" <=> d \in Elems(callbacks')
                           /\ f[d] = "held" <=> consumer.pc = "storing" /\ consumer.candle = d
    BY <1>1, <1>4, <1>6, <1>8 DEF FatesFollow
  <2>2. FatesFollow'
    BY <2>1, <1>1, <1>2, <1>4, <1>8 DEF FatesFollow, QueueOpen
  <2>3. \A d \in Candles : f[d] \in {"held", "stored", "failed"} => Past(d)
    BY <1>8 DEF Past
  <2>4. \A d \in Candles : Past(d)' => \A e \in Elems(queue') \cup Elems(callbacks') : d < e
    BY <2>3, <1>1, <1>4, <1>7, <1>8 DEF OrderKept, Past
  <2>5. \A d \in Elems(queue'), e \in Elems(callbacks') : d < e
    BY <1>1, <1>4, <1>8 DEF OrderKept
  <2>6. NoneOvertakes'
    BY <2>3, <1>1, <1>2, <1>8 DEF OrderKept, NoneOvertakes, Past
  <2>7. \A d, e \in Candles : f[d] = "unseen" /\ d < e => f[e] = "unseen"
    <3> SUFFICES ASSUME NEW d \in Candles, NEW e \in Candles, f[d] = "unseen", d < e PROVE f[e] = "unseen"
      OBVIOUS
    <3>1. fate[d] = "unseen"
      BY <1>8
    <3>2. fate[e] = "unseen"
      BY <3>1, <1>1 DEF OrderKept
    <3>3. e # c
      BY <3>2, <1>6
    <3> QED
      BY <3>2, <3>3, <1>8
  <2>8. OrderKept'
    BY <2>4, <2>5, <2>6, <2>7, <1>4, <1>8 DEF OrderKept
  <2>9. LossesLate'
    <3>1. StopStoresAll'
      BY <1>1, <1>2, <1>8 DEF LossesLate, StopStoresAll
    <3>2. loop.pc = "cancelling" /\ ~loop.timedOut => \A d \in Candles : f[d] \in {"queued", "held"} => d \in late'
      BY <1>1, <1>8 DEF LossesLate
    <3> QED
      BY <3>1, <3>2, <1>2, <1>8 DEF LossesLate
  <2> QED
    BY <2>2, <2>8, <2>9 DEF CandlesOK
<1>9. CASE ~QueueOpen
  <2>1. fate' = [fate EXCEPT ![c] = "ignored"] /\ UNCHANGED <<queue, unfinished, late>>
    BY <1>3, <1>9 DEF PutCandle
  <2>2. /\ fate' \in [Candles -> Fates] /\ fate'[c] = "ignored"
        /\ \A d \in Candles : d # c => fate'[d] = fate[d]
    BY <2>1, <1>1 DEF FatesFollow, Fates
  <2>3. \A d \in Candles : fate'[d] = "queued" <=> d \in Elems(queue')
    BY <2>1, <2>2, <1>1, <1>6 DEF FatesFollow
  <2> QED
    BY <2>1, <2>2, <2>3, <1>1, <1>8 DEF FatesFollow, OrderKept
<1>10. CASE QueueOpen
  <2>1. late' = IF recorder.handler THEN late ELSE late \cup {c}
    BY <1>3, <1>10 DEF PutCandle
  <2>2. late \subseteq late' /\ late' \subseteq Candles /\ (loop.pc = "cancelling" => c \in late')
    BY <2>1, <1>1 DEF FieldsFollow, FieldsSuit, FatesFollow
  <2>3. CASE Full
    <3>1. PICK b \in Candles : b = Head(queue)
      <4>1. queue # <<>>
        BY <2>3, RecorderAssumption DEF Full, RecorderAssumption
      <4> QED
        BY <4>1, <1>1, TailRises DEF FatesFollow, OrderKept
    <3>2. /\ queue # <<>> /\ queue' = Append(Tail(queue), c) /\ unfinished' = unfinished - 1 + 1
          /\ fate' = [fate EXCEPT ![c] = "queued", ![b] = "dropped"]
      BY <2>3, <3>1, <1>3, <1>10, RecorderAssumption DEF PutCandle, Full, RecorderAssumption, DropCounted
    <3>3. PICK t \in Seq(Candles) : t = Tail(queue)
      BY <3>2, <1>1, TailRises DEF FatesFollow, OrderKept
    <3>4. /\ Rising(t) /\ Elems(queue) = {b} \cup Elems(t) /\ Len(t) = Len(queue) - 1 /\ Len(queue) \in Nat
          /\ \A d \in Elems(t) : b < d
      BY <3>1, <3>2, <3>3, <1>1, TailRises DEF FatesFollow, OrderKept
    <3>5. /\ queue' \in Seq(Candles) /\ Rising(queue') /\ Elems(queue') = Elems(t) \cup {c}
          /\ Len(queue') = Len(queue)
      <4>1. \A d \in Elems(t) : d < c
        BY <3>4, <1>5
      <4>2. /\ queue' \in Seq(Candles) /\ Rising(queue') /\ Elems(queue') = Elems(t) \cup {c}
            /\ Len(queue') = Len(t) + 1
        BY <4>1, <3>2, <3>3, <3>4, AppendRises
      <4> QED
        BY <4>2, <3>4
    <3>6. b # c /\ b \notin Elems(t) /\ fate[b] = "queued"
      BY <3>4, <1>1, <1>5, <1>6 DEF FatesFollow, Candles
    <3>7. /\ fate' \in [Candles -> Fates] /\ fate'[c] = "queued" /\ fate'[b] = "dropped"
          /\ \A d \in Candles : d # c /\ d # b => fate'[d] = fate[d]
      BY <3>2, <3>6, <1>1 DEF FatesFollow, Fates
    <3>8. \A d \in Candles : fate'[d] = "queued" <=> d \in Elems(queue')
      BY <3>4, <3>5, <3>6, <3>7, <1>1 DEF FatesFollow
    <3>9. unfinished' = Len(queue') + (IF consumer.pc = "storing" THEN 1 ELSE 0) /\ Len(queue') <= QueueMax
      BY <3>2, <3>4, <3>5, <1>1 DEF FatesFollow
    <3> QED
      BY <3>4, <3>5, <3>6, <3>7, <3>8, <3>9, <2>2, <1>8, <1>10
  <2>4. CASE ~Full
    <3>1. /\ queue' = Append(queue, c) /\ unfinished' = unfinished + 1
          /\ fate' = [fate EXCEPT ![c] = "queued"]
      BY <2>4, <1>3, <1>10 DEF PutCandle
    <3>2. /\ queue' \in Seq(Candles) /\ Rising(queue') /\ Elems(queue') = Elems(queue) \cup {c}
          /\ Len(queue') = Len(queue) + 1 /\ Len(queue) \in Nat
      BY <3>1, <1>1, <1>5, AppendRises DEF FatesFollow, OrderKept
    <3>3. /\ fate' \in [Candles -> Fates] /\ fate'[c] = "queued"
          /\ \A d \in Candles : d # c => fate'[d] = fate[d]
      BY <3>1, <1>1 DEF FatesFollow, Fates
    <3>4. \A d \in Candles : fate'[d] = "queued" <=> d \in Elems(queue')
      BY <3>2, <3>3, <1>1 DEF FatesFollow
    <3>5. unfinished' = Len(queue') + (IF consumer.pc = "storing" THEN 1 ELSE 0) /\ Len(queue') <= QueueMax
      BY <2>4, <3>1, <3>2, <1>1, RecorderAssumption DEF FatesFollow, Full, RecorderAssumption
    <3> QED
      BY <3>2, <3>3, <3>4, <3>5, <2>2, <1>8, <1>10
  <2> QED
    BY <2>3, <2>4
<1> QED
  BY <1>9, <1>10

\* The consumer takes the first candle of the queue
LEMMA ConsumeKept ==
    ASSUME RecorderOK, Consume
    PROVE  CandlesOK'
<1>1. FieldsFollow /\ FatesFollow /\ OrderKept /\ LossesLate
  BY DEF RecorderOK
<1>2. PICK c \in Candles : c = Head(queue)
  BY <1>1, TailRises DEF Consume, FatesFollow, OrderKept
<1>3. /\ consumer.pc = "waiting" /\ queue # <<>> /\ consumer' = [pc |-> "storing", candle |-> c]
      /\ queue' = Tail(queue) /\ fate' = [fate EXCEPT ![c] = "held"]
      /\ UNCHANGED <<recorder, loop, callbacks, unfinished, late>>
  BY <1>2 DEF Consume, FirstIn
<1>4. /\ queue' \in Seq(Candles) /\ Rising(queue') /\ Elems(queue) = {c} \cup Elems(queue')
      /\ Len(queue') = Len(queue) - 1 /\ Len(queue) \in Nat
      /\ \A d \in Elems(queue') : c < d
  BY <1>1, <1>2, <1>3, TailRises DEF FatesFollow, OrderKept
<1>5. fate[c] = "queued" /\ QueueOpen
  BY <1>1, <1>3, <1>4 DEF FatesFollow
<1>6. /\ fate' \in [Candles -> Fates] /\ fate'[c] = "held"
      /\ \A d \in Candles : d # c => fate'[d] = fate[d]
  BY <1>1, <1>3 DEF FatesFollow, Fates
<1>7. c \notin Elems(queue') /\ \A d \in Candles : fate[d] # "held"
  BY <1>1, <1>3, <1>4 DEF FatesFollow, Candles
<1>8. FatesFollow'
  <2>1. \A d \in Candles : /\ fate'[d] = "queued" <=> d \in Elems(queue')
                           /\ fate'[d] = "scheduled" <=> d \in Elems(callbacks)
                           /\ fate'[d] = "held" <=> d = c
    BY <1>1, <1>4, <1>5, <1>6, <1>7 DEF FatesFollow
  <2>2. unfinished = Len(queue') + 1 /\ Len(queue') <= QueueMax
    BY <1>1, <1>3, <1>4, RecorderAssumption DEF FatesFollow, RecorderAssumption
  <2> QED
    BY <2>1, <2>2, <1>1, <1>3, <1>4, <1>5, <1>6 DEF FatesFollow, QueueOpen
<1>9. OrderKept'
  <2>1. \A d \in Candles : Past(d)' => d = c \/ Past(d)
    BY <1>6 DEF Past
  <2>2. \A d \in Elems(callbacks) : c < d
    BY <1>1, <1>4 DEF OrderKept
  <2>3. \A d \in Candles : Past(d)' => \A e \in Elems(queue') \cup Elems(callbacks) : d < e
    BY <2>1, <2>2, <1>1, <1>4 DEF OrderKept
  <2>4. NoneOvertakes'
    <3> SUFFICES ASSUME NEW d \in Candles, d > c PROVE fate'[d] \notin {"stored", "failed", "held"}
      BY <1>3 DEF NoneOvertakes
    <3>1. d # c /\ ~(d < c)
      BY DEF Candles
    <3>2. ~Past(d)
      BY <3>1, <1>1, <1>4 DEF OrderKept
    <3> QED
      BY <3>1, <3>2, <1>6 DEF Past
  <2>5. \A d, e \in Candles : fate'[d] = "unseen" /\ d < e => fate'[e] = "unseen"
    BY <1>1, <1>5, <1>6 DEF OrderKept
  <2> QED
    BY <2>3, <2>4, <2>5, <1>1, <1>3, <1>4 DEF OrderKept
<1>10. LossesLate'
  BY <1>1, <1>3, <1>5, <1>6 DEF LossesLate, StopStoresAll
<1> QED
  BY <1>8, <1>9, <1>10 DEF CandlesOK

\* The candle it has is stored, or is not
LEMMA StoredKept ==
    ASSUME RecorderOK, NEW ok \in BOOLEAN, Stored(ok)
    PROVE  CandlesOK'
<1>1. FieldsFollow /\ FatesFollow /\ OrderKept /\ LossesLate
  BY DEF RecorderOK
<1>2. PICK c \in Candles : c = consumer.candle
  BY <1>1 DEF Stored, FatesFollow
<1>3. PICK f \in {"stored", "failed"} :
        /\ consumer.pc = "storing" /\ consumer' = [pc |-> "waiting", candle |-> 0]
        /\ unfinished' = unfinished - 1 /\ fate' = [fate EXCEPT ![c] = f]
        /\ UNCHANGED <<recorder, loop, callbacks, queue, late>>
  BY <1>2 DEF Stored
<1>4. fate[c] = "held"
  BY <1>1, <1>2, <1>3 DEF FatesFollow
<1>5. /\ fate' \in [Candles -> Fates] /\ fate'[c] = f
      /\ \A d \in Candles : d # c => fate'[d] = fate[d]
  BY <1>1, <1>3 DEF FatesFollow, Fates
<1>6. FatesFollow'
  <2>1. \A d \in Candles : /\ fate'[d] = "queued" <=> d \in Elems(queue)
                           /\ fate'[d] = "scheduled" <=> d \in Elems(callbacks)
                           /\ fate'[d] # "held"
    BY <1>1, <1>2, <1>3, <1>4, <1>5 DEF FatesFollow
  <2>2. unfinished' = Len(queue)
    <3>1. Len(queue) \in Nat
      BY <1>1 DEF FatesFollow
    <3> QED
      BY <3>1, <1>1, <1>3 DEF FatesFollow
  <2>3. unfinished' = Len(queue') + (IF consumer'.pc = "storing" THEN 1 ELSE 0)
    <3>1. Len(queue) \in Nat /\ queue' = queue /\ consumer'.pc # "storing"
      BY <1>1, <1>3 DEF FatesFollow
    <3>2. Len(queue) = Len(queue) + 0
      BY <3>1
    <3> QED
      BY <3>1, <3>2, <2>2
  <2> QED
    BY <2>1, <2>3, <1>1, <1>3, <1>5 DEF FatesFollow, QueueOpen
<1>7. OrderKept'
  <2>1. \A d \in Candles : Past(d)' => Past(d)
    BY <1>4, <1>5 DEF Past
  <2>2. NoneOvertakes'
    BY <1>3 DEF NoneOvertakes
  <2>3. \A d, e \in Candles : fate'[d] = "unseen" /\ d < e => fate'[e] = "unseen"
    BY <1>1, <1>3, <1>4, <1>5 DEF OrderKept
  <2> QED
    BY <2>1, <2>2, <2>3, <1>1, <1>3 DEF OrderKept
<1>8. LossesLate'
  BY <1>1, <1>3, <1>4, <1>5 DEF LossesLate, StopStoresAll
<1> QED
  BY <1>6, <1>7, <1>8 DEF CandlesOK

\* What the queue and the consumer give up
LEMMA GivesUp ==
    ASSUME RecorderOK, NEW f \in [Candles -> Fates], fate' = f,
           queue' = <<>>, unfinished' = 0, consumer'.pc # "storing",
           UNCHANGED <<callbacks, late>>,
           \A c \in Candles : \/ f[c] = fate[c] /\ fate[c] \notin {"queued", "held"}
                              \/ f[c] \in {"deferred", "lost"} /\ fate[c] \in {"queued", "held"},
           StopStoresAll'
    PROVE  CandlesOK'
<1>1. FieldsFollow /\ FatesFollow /\ OrderKept /\ LossesLate
  BY DEF RecorderOK
<1>2. Elems(queue') = {} /\ Rising(queue') /\ queue' \in Seq(Candles) /\ Len(queue') = 0
  BY NoElems
<1>3. \A c \in Candles : /\ f[c] = "queued" <=> c \in Elems(queue')
                         /\ f[c] = "scheduled" <=> c \in Elems(callbacks)
                         /\ f[c] # "held"
                         /\ f[c] \in {"stored", "failed"} => Past(c)
  BY <1>1, <1>2 DEF FatesFollow, Past
<1>4. FatesFollow'
  BY <1>1, <1>2, <1>3, RecorderAssumption DEF FatesFollow, RecorderAssumption
<1>5. OrderKept'
  <2>1. \A d \in Candles : Past(d)' => Past(d)
    BY <1>3 DEF Past
  <2>2. \A d, e \in Candles : f[d] = "unseen" /\ d < e => f[e] = "unseen"
    <3> SUFFICES ASSUME NEW d \in Candles, NEW e \in Candles, f[d] = "unseen", d < e PROVE f[e] = "unseen"
      OBVIOUS
    <3>1. fate[d] = "unseen"
      OBVIOUS
    <3> QED
      BY <3>1, <1>1 DEF OrderKept
  <2>3. NoneOvertakes'
    BY DEF NoneOvertakes
  <2>4. \A d \in Candles : Past(d)' => \A e \in Elems(queue') \cup Elems(callbacks') : d < e
    BY <2>1, <1>1, <1>2 DEF OrderKept
  <2> QED
    BY <2>2, <2>3, <2>4, <1>1, <1>2 DEF OrderKept
<1>6. LossesLate'
  BY <1>2, <1>3 DEF LossesLate
<1> QED
  BY <1>4, <1>5, <1>6 DEF CandlesOK

\* A recorder that is not active has neither a consumer nor, at rest, a queue
LEMMA StartKept ==
    ASSUME RecorderOK, (Poll /\ session /\ ~recorder.active) \/ StartEnds
    PROVE  CandlesOK'
<1>1. FieldsFollow /\ FatesFollow /\ OrderKept /\ LossesLate
  BY DEF RecorderOK
<1>2. PICK l \in LoopStates : l = loop
  BY <1>1 DEF FieldsFollow, FieldsSuit
<1>3. consumer.pc = "none"
  BY <1>1 DEF FieldsFollow, FieldsSuit, StartEnds, Poll
<1>4. \A c \in Candles : fate[c] # "held"
  BY <1>1, <1>3 DEF FatesFollow
<1>5. loop'.timedOut = loop.timedOut /\ loop'.pc # "cancelling"
  <2>1. CASE StartEnds
    <3>1. loop' = [l EXCEPT !.pc = IF ready THEN "checking" ELSE "asleep"]
      BY <2>1, <1>2 DEF StartEnds
    <3> QED
      BY <3>1, <1>2 DEF LoopStates
  <2>2. CASE Poll /\ session /\ ~recorder.active
    <3>1. loop' = [l EXCEPT !.pc = "starting", !.saw = TRUE]
      BY <2>2, <1>2 DEF Poll, StartBegins
    <3> QED
      BY <3>1, <1>2 DEF LoopStates
  <2> QED
    BY <2>1, <2>2
<1>6. CASE Poll /\ session /\ ~recorder.active
  <2>1. queue' = <<>> /\ unfinished' = 0 /\ UNCHANGED <<consumer, callbacks, fate, late>>
    BY <1>6 DEF Poll, StartBegins
  <2>2. queue = <<>>
    BY <1>1, <1>6 DEF Poll, FieldsFollow, FieldsSuit, Flags, FatesFollow, QueueOpen
  <2>3. \A c \in Candles : fate[c] \notin {"queued", "held"}
    BY <2>2, <1>1, <1>4, NoElems DEF FatesFollow
  <2>4. StopStoresAll'
    BY <2>1, <1>1, <1>5 DEF LossesLate, StopStoresAll
  <2>5. fate \in [Candles -> Fates]
    BY <1>1 DEF FatesFollow
  <2> QED
    BY <2>1, <2>3, <2>4, <2>5, <1>3, GivesUp
<1>7. CASE StartEnds /\ ~ready
  <2> DEFINE f == [c \in Candles |-> IF fate[c] = "queued" THEN "deferred" ELSE fate[c]]
  <2>1. queue' = <<>> /\ unfinished' = 0 /\ fate' = f /\ UNCHANGED <<consumer, callbacks, late>>
    BY <1>7 DEF StartEnds
  <2>2. f \in [Candles -> Fates]
    BY <1>1 DEF FatesFollow, Fates
  <2>3. \A c \in Candles : \/ f[c] = fate[c] /\ fate[c] \notin {"queued", "held"}
                           \/ f[c] \in {"deferred", "lost"} /\ fate[c] \in {"queued", "held"}
    BY <1>4
  <2>4. StopStoresAll'
    BY <2>1, <1>1, <1>5 DEF LossesLate, StopStoresAll
  <2> HIDE DEF f
  <2> QED
    BY <2>1, <2>2, <2>3, <2>4, <1>3, GivesUp
<1>8. CASE StartEnds /\ ready
  <2>1. /\ consumer' = [pc |-> "waiting", candle |-> 0] /\ recorder'.queue
        /\ UNCHANGED <<queue, unfinished, callbacks, fate, late>>
    BY <1>8 DEF StartEnds
  <2>2. FatesFollow'
    <3>1. consumer'.pc # "storing" /\ QueueOpen'
      BY <2>1 DEF QueueOpen
    <3> QED
      BY <2>1, <3>1, <1>1, <1>3 DEF FatesFollow
  <2>3. OrderKept'
    BY <2>1, <1>1 DEF OrderKept, Past, NoneOvertakes
  <2>4. LossesLate'
    BY <2>1, <1>1, <1>5 DEF LossesLate, StopStoresAll
  <2> QED
    BY <2>2, <2>3, <2>4 DEF CandlesOK
<1> QED
  BY <1>6, <1>7, <1>8

\* The queue was drained, or the time for it was over
LEMMA StopsKept ==
    ASSUME RecorderOK, Stops
    PROVE  CandlesOK'
<1>1. FieldsFollow /\ FatesFollow /\ OrderKept /\ LossesLate
  BY DEF RecorderOK
<1>2. PICK l \in LoopStates : l = loop
  BY <1>1 DEF FieldsFollow, FieldsSuit
<1>3. PICK f \in [Candles -> Fates] : f = Abandoned
  BY <1>1 DEF FatesFollow, Abandoned, Fates
<1>4. /\ queue' = <<>> /\ unfinished' = 0 /\ fate' = f /\ UNCHANGED <<callbacks, late>>
      /\ consumer'.pc # "storing" /\ l.pc = "cancelling"
      /\ loop' = [l EXCEPT !.pc = IF loop.final THEN "ended" ELSE "checking"]
  BY <1>2, <1>3 DEF Stops
<1>5. \A c \in Candles : \/ f[c] = fate[c] /\ fate[c] \notin {"queued", "held"}
                         \/ f[c] = "lost" /\ fate[c] \in {"queued", "held"}
  BY <1>3 DEF Abandoned
<1>6. loop'.timedOut = loop.timedOut
  BY <1>2, <1>4 DEF LoopStates
<1>7. StopStoresAll'
  BY <1>1, <1>2, <1>4, <1>5, <1>6 DEF LossesLate, StopStoresAll
<1> QED
  BY <1>4, <1>5, <1>7, GivesUp

-----------------------------------------------------------------------------
(* The theorem                                                             *)

LEMMA RecorderStays == RecorderOK /\ [FrNext]_frVars => RecorderOK'
<1> SUFFICES ASSUME RecorderOK, [FrNext]_frVars PROVE RecorderOK'
  OBVIOUS
<1>1. CASE FrNext
  <2>1. CandlesOK'
    <3>1. CASE PutCandle \/ Consume \/ Stops
      BY <3>1, PutKept, ConsumeKept, StopsKept
    <3>2. CASE (Poll /\ session /\ ~recorder.active) \/ StartEnds
      BY <3>2, StartKept
    <3>3. ASSUME NEW c \in Candles, Candle(c) PROVE CandlesOK'
      BY <3>3, CandleKept
    <3>4. ASSUME NEW ok \in BOOLEAN, Stored(ok) PROVE CandlesOK'
      BY <3>4, StoredKept
    <3>5. CASE \/ Opens \/ Closes \/ Shift \/ Raises \/ CancelRun \/ Check \/ Renew \/ Finally \/ Released
               \/ Poll /\ ~(session /\ ~recorder.active)
               \/ \E b \in BOOLEAN : Drained(b)
      BY <3>5, TaskTurns DEF CandlesOK
    <3> QED
      BY <3>1, <3>2, <3>3, <3>4, <3>5, <1>1 DEF FrNext, LoopStep
  <2> QED
    BY <2>1, <1>1, FieldsStay DEF CandlesOK, RecorderOK
<1>2. CASE UNCHANGED frVars
  BY <1>2 DEF frVars, RecorderOK, FieldsFollow, FieldsSuit, FatesFollow, QueueOpen, OrderKept, Past, NoneOvertakes,
              LossesLate, StopStoresAll
<1> QED
  BY <1>1, <1>2

\* A candle the recorder took is queued, stored in its turn, or counted as given up, the queue's
\* count is what is queued and held, and the pool never has but the recorder's own handler, whatever
\* the pool raises and whenever the task is cancelled: FutoptCandleRecorder.
THEOREM CandlesCorrect == FrSpec => []CandlesAccounted
<1>1. RecorderOK => CandlesAccounted
  <2> SUFFICES ASSUME RecorderOK PROVE CandlesAccounted
    OBVIOUS
  <2>1. FieldsFollow /\ FatesFollow /\ OrderKept /\ LossesLate
    BY DEF RecorderOK
  <2>2. FrTypeOK
    <3>1. Len(queue) \in Nat /\ QueueMax \in Nat /\ MaxSessions \in Nat
      BY <2>1, RecorderAssumption DEF FatesFollow, RecorderAssumption
    <3>2. handlers \in 0..MaxSessions + 1
      BY <2>1, <3>1 DEF FieldsFollow
    <3>3. unfinished \in 0..QueueMax + 1
      BY <2>1, <3>1 DEF FatesFollow
    <3>4. QueueOpen => Len(queue) <= QueueMax /\ (recorder.active \/ loop.pc # "asleep")
      BY <2>1 DEF FieldsFollow, FieldsSuit, Flags, FatesFollow, QueueOpen
    <3>5. ~QueueOpen => consumer.pc = "none"
      BY <2>1 DEF FieldsFollow, FieldsSuit, QueueOpen
    <3> QED
      BY <3>2, <3>3, <3>4, <3>5 DEF FrTypeOK
  <2>3. HandlerOwned
    BY <2>1 DEF FieldsFollow, FieldsSuit, HandlerOwned
  <2> QED
    BY <2>1, <2>2, <2>3 DEF FatesFollow, OrderKept, LossesLate, QueueCounted, CandlesAccounted
<1> QED
  BY <1>1, RecorderStarts, RecorderStays, PTL DEF FrSpec

=============================================================================
