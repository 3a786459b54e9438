----------------------- MODULE QuotePersistence_proofs -----------------------
(* Machine-checked proofs about QuotePersistence: for any number of tickers, *)
(* any capacity, any range of times and prices and any database faults.      *)
EXTENDS QuotePersistence, SequenceTheorems, TLAPS

-----------------------------------------------------------------------------
(* Merging is a join: it forgets nothing and may be repeated               *)

LEMMA MergeType ==
    ASSUME NEW a \in QuoteOrNone, NEW b \in QuoteOrNone
    PROVE  /\ Merge(a, b) \in QuoteOrNone
           /\ Merge(a, b) = NoQuote <=> a = NoQuote /\ b = NoQuote
           /\ Merge(a, NoQuote) = a /\ Merge(NoQuote, b) = b
  BY BufferAssumption DEF BufferAssumption, Merge, Quote, QuoteOrNone

\* Quotes may be merged in any grouping, as long as their order is kept
LEMMA MergeAssoc ==
    ASSUME NEW a \in QuoteOrNone, NEW b \in QuoteOrNone, NEW c \in QuoteOrNone
    PROVE  Merge(Merge(a, b), c) = Merge(a, Merge(b, c))
<1>1. CASE a = NoQuote \/ b = NoQuote \/ c = NoQuote
  BY <1>1, MergeType
<1>2. CASE a \in Quote /\ b \in Quote /\ c \in Quote
  <2>1. /\ a.ts \in Int /\ b.ts \in Int /\ c.ts \in Int
        /\ a.high \in Int /\ b.high \in Int /\ c.high \in Int
        /\ a # NoQuote /\ b # NoQuote /\ c # NoQuote
    BY <1>2, BufferAssumption DEF BufferAssumption, Quote
  <2>2. Merge(a, b) # NoQuote /\ Merge(b, c) # NoQuote
    BY <2>1, MergeType
  <2> QED
    BY <2>1, <2>2 DEF Merge
<1> QED
  BY <1>1, <1>2 DEF QuoteOrNone

\* Writing a quote twice is writing it once
LEMMA MergeTwice ==
    ASSUME NEW a \in QuoteOrNone, NEW b \in QuoteOrNone
    PROVE  Merge(Merge(a, b), b) = Merge(a, b)
<1>1. CASE a = NoQuote \/ b = NoQuote
  <2>1. Merge(b, b) = b
    BY BufferAssumption DEF BufferAssumption, Merge, Quote, QuoteOrNone
  <2> QED
    BY <1>1, <2>1, MergeType
<1>2. CASE a \in Quote /\ b \in Quote
  <2>1. /\ a.ts \in Int /\ b.ts \in Int /\ a.high \in Int /\ b.high \in Int
        /\ a # NoQuote /\ b # NoQuote /\ Merge(a, b) # NoQuote
    BY <1>2, BufferAssumption, MergeType DEF BufferAssumption, Quote
  <2> QED
    BY <2>1 DEF Merge
<1> QED
  BY <1>1, <1>2 DEF QuoteOrNone

-----------------------------------------------------------------------------
(* The lists of keys                                                       *)

LEMMA ElementsOf ==
    ASSUME NEW s \in Seq(Tickers)
    PROVE  /\ Elements(s) \subseteq Tickers
           /\ \A t \in Tickers : /\ Append(s, t) \in Seq(Tickers)
                                 /\ Elements(Append(s, t)) = Elements(s) \cup {t}
           /\ \A r \in Seq(Tickers) : /\ s \o r \in Seq(Tickers)
                                      /\ Elements(s \o r) = Elements(s) \cup Elements(r)
           /\ s # <<>> => /\ Head(s) \in Tickers /\ Tail(s) \in Seq(Tickers)
                          /\ Elements(s) = {Head(s)} \cup Elements(Tail(s))
<1>1. Elements(s) \subseteq Tickers
  BY DEF Elements
<1>2. ASSUME NEW t \in Tickers
      PROVE  Append(s, t) \in Seq(Tickers) /\ Elements(Append(s, t)) = Elements(s) \cup {t}
  <2>1. /\ Append(s, t) \in Seq(Tickers)
        /\ Len(Append(s, t)) = Len(s) + 1
        /\ \A i \in 1..Len(s) : Append(s, t)[i] = s[i]
        /\ Append(s, t)[Len(s) + 1] = t
    BY AppendProperties
  <2>2. DOMAIN s = 1..Len(s) /\ DOMAIN Append(s, t) = 1..(Len(s) + 1) /\ Len(s) \in Nat
    BY <2>1
  <2> QED
    BY <2>1, <2>2 DEF Elements
<1>3. ASSUME NEW r \in Seq(Tickers)
      PROVE  s \o r \in Seq(Tickers) /\ Elements(s \o r) = Elements(s) \cup Elements(r)
  <2>1. /\ s \o r \in Seq(Tickers)
        /\ Len(s \o r) = Len(s) + Len(r)
        /\ \A i \in 1..(Len(s) + Len(r)) :
              (s \o r)[i] = IF i <= Len(s) THEN s[i] ELSE r[i - Len(s)]
    BY ConcatProperties
  <2>2. Elements(s \o r) \subseteq Elements(s) \cup Elements(r)
    BY <2>1 DEF Elements
  <2>3. Elements(s) \subseteq Elements(s \o r)
    BY <2>1 DEF Elements
  <2>4. Elements(r) \subseteq Elements(s \o r)
    <3> SUFFICES ASSUME NEW j \in 1..Len(r) PROVE r[j] \in Elements(s \o r)
      BY DEF Elements
    <3>1. /\ Len(s) + j \in 1..(Len(s) + Len(r)) /\ ~(Len(s) + j <= Len(s))
          /\ (Len(s) + j) - Len(s) = j
      BY LenProperties
    <3>2. (s \o r)[Len(s) + j] = r[j]
      BY <2>1, <3>1
    <3> QED
      BY <2>1, <3>1, <3>2 DEF Elements
  <2> QED
    BY <2>1, <2>2, <2>3, <2>4
<1>4. ASSUME s # <<>>
      PROVE  /\ Head(s) \in Tickers /\ Tail(s) \in Seq(Tickers)
             /\ Elements(s) = {Head(s)} \cup Elements(Tail(s))
  <2>1. /\ Head(s) \in Tickers /\ Tail(s) \in Seq(Tickers) /\ Len(s) >= 1
        /\ Len(Tail(s)) = Len(s) - 1 /\ Head(s) = s[1]
        /\ \A i \in 1..Len(Tail(s)) : Tail(s)[i] = s[i + 1]
    BY <1>4, HeadTailProperties, LenProperties
  <2>2. Elements(Tail(s)) \subseteq Elements(s) /\ Head(s) \in Elements(s)
    BY <2>1 DEF Elements
  <2>3. ASSUME NEW i \in 1..Len(s), i # 1 PROVE s[i] \in Elements(Tail(s))
    <3>1. i - 1 \in 1..Len(Tail(s)) /\ (i - 1) + 1 = i
      BY <2>1, <2>3
    <3>2. Tail(s)[i - 1] = s[i]
      BY <2>1, <3>1
    <3>3. DOMAIN Tail(s) = 1..Len(Tail(s))
      BY <2>1
    <3> QED
      BY <3>1, <3>2, <3>3 DEF Elements
  <2> QED
    BY <2>1, <2>2, <2>3 DEF Elements
<1> QED
  BY <1>1, <1>2, <1>3, <1>4

LEMMA OrderedType ==
    ASSUME NEW s, NEW S \in SUBSET Tickers, NEW g \in Ordered(s, S)
    PROVE  g \in Seq(Tickers) /\ Elements(g) = S
  BY DEF Ordered

LEMMA NoElements == Elements(<<>>) = {}
  BY DEF Elements

-----------------------------------------------------------------------------
(* The steps                                                               *)

IInv == TypeOK /\ NothingLost

\* What a ticker's quote is, wherever it is on its way
LEMMA QuoteTypes ==
    ASSUME TypeOK, NEW t \in Tickers
    PROVE  /\ db[t] \in QuoteOrNone /\ taken[t] \in QuoteOrNone
           /\ pending[t] \in QuoteOrNone /\ truth[t] \in QuoteOrNone
           /\ Merge(db[t], taken[t]) \in QuoteOrNone
           /\ Merge(Merge(db[t], taken[t]), taken[t]) = Merge(db[t], taken[t])
  BY MergeType, MergeTwice DEF TypeOK, BufferOK, FlushOK

LEMMA InitInv == Init => IInv
<1> SUFFICES ASSUME Init PROVE IInv
  OBVIOUS
<1>1. Elements(<<>>) = {} /\ <<>> \in Seq(Tickers)
  BY NoElements
<1>2. TypeOK
  BY <1>1 DEF Init, TypeOK, BufferOK, FlushOK, QuoteOrNone
<1>3. NothingLost
  BY DEF Init, NothingLost, Merge
<1> QED
  BY <1>2, <1>3 DEF IInv

\* An accepted quote joins what is pending of its ticker; only the ticker dropped
\* for it, if any, loses something
LEMMA EnqueueInv ==
    ASSUME IInv, NEW t \in Tickers, NEW q \in Quote, Enqueue(t, q)
    PROVE  IInv'
<1>1. /\ TypeOK /\ NothingLost /\ q \in QuoteOrNone /\ q # NoQuote
      /\ order \in Seq(Tickers) /\ Elements(order) \subseteq Tickers
      /\ pending \in [Tickers -> QuoteOrNone]
      /\ \A u \in Tickers : pending[u] # NoQuote => u \in Elements(order)
  BY ElementsOf, BufferAssumption DEF IInv, TypeOK, BufferOK, QuoteOrNone, BufferAssumption
<1>2. truth' = [truth EXCEPT ![t] = Merge(@, q)] /\ truth' \in [Tickers -> QuoteOrNone]
  BY <1>1, MergeType DEF Enqueue, TypeOK
<1>3. FlushOK' /\ UNCHANGED <<taken, db>>
  BY <1>1 DEF Enqueue, TypeOK, FlushOK
<1>4. BufferOK' /\ lost' \subseteq Tickers /\ lost \subseteq lost'
      /\ \A u \in Tickers \ lost' :
            pending'[u] = IF u = t THEN Merge(pending[t], q) ELSE pending[u]
  <2>1. CASE /\ pending[t] # NoQuote
             /\ \E others \in Ordered(order, Elements(order) \ {t}) :
                   order' = Append(others, t)
             /\ pending' = [pending EXCEPT ![t] = Merge(@, q)]
             /\ UNCHANGED lost
    <3> DEFINE S == Elements(order) \ {t}
    <3>a. PICK others \in Ordered(order, S) : order' = Append(others, t)
      BY <2>1
    <3>b. others \in Seq(Tickers) /\ Elements(others) = S
      BY <1>1, <3>a, OrderedType
    <3>1. order' \in Seq(Tickers) /\ Elements(order') = Elements(order) \cup {t}
      BY <3>a, <3>b, ElementsOf
    <3> QED
      BY <1>1, <2>1, <3>1, MergeType DEF TypeOK, BufferOK
  <2>2. CASE /\ pending[t] = NoQuote
             /\ order' = Append(order, t)
             /\ pending' = [pending EXCEPT ![t] = q]
             /\ UNCHANGED lost
    <3>1. order' \in Seq(Tickers) /\ Elements(order') = Elements(order) \cup {t}
      BY <1>1, <2>2, ElementsOf
    <3> QED
      BY <1>1, <2>2, <3>1, MergeType DEF TypeOK, BufferOK
  <2>3. CASE /\ pending[t] = NoQuote /\ Len(order) >= Capacity
             /\ order' = Append(Tail(order), t)
             /\ pending' = [pending EXCEPT ![Head(order)] = NoQuote, ![t] = q]
             /\ lost' = lost \cup {Head(order)}
    <3>1. order # <<>>
      BY <2>3, BufferAssumption DEF BufferAssumption
    <3>2. Head(order) \in Tickers /\ Tail(order) \in Seq(Tickers)
          /\ Elements(order) = {Head(order)} \cup Elements(Tail(order))
      BY <1>1, <3>1, ElementsOf
    <3>3. order' \in Seq(Tickers) /\ Elements(order') = Elements(Tail(order)) \cup {t}
      BY <2>3, <3>2, ElementsOf
    <3> DEFINE first == Head(order)
    <3>4. /\ pending' \in [Tickers -> QuoteOrNone]
          /\ \A u \in Tickers : pending'[u] = IF u = t THEN q
                                            ELSE IF u = first THEN NoQuote ELSE pending[u]
      BY <1>1, <2>3, <3>2 DEF QuoteOrNone
    <3>5. \A u \in Tickers : pending'[u] # NoQuote => u \in Elements(order')
      BY <1>1, <3>2, <3>3, <3>4
    <3> HIDE DEF first
    <3> QED
      BY <1>1, <2>3, <3>2, <3>3, <3>4, <3>5, MergeType DEF TypeOK, BufferOK, first
  <2> QED
    BY <2>1, <2>2, <2>3 DEF Enqueue
<1>5. NothingLost'
  <2> SUFFICES ASSUME NEW u \in Tickers \ lost'
               PROVE  Merge(Merge(db[u], taken[u]), pending'[u]) = truth'[u]
    BY <1>3 DEF NothingLost
  <2>1. Merge(Merge(db[u], taken[u]), pending[u]) = truth[u]
    BY <1>1, <1>4 DEF NothingLost
  <2>2. CASE u = t
    BY <1>1, <1>2, <1>4, <2>1, <2>2, QuoteTypes, MergeAssoc DEF TypeOK
  <2>3. CASE u # t
    BY <1>1, <1>2, <1>4, <2>1, <2>3 DEF TypeOK
  <2> QED
    BY <2>2, <2>3
<1> QED
  BY <1>1, <1>2, <1>3, <1>4, <1>5 DEF IInv, TypeOK, Enqueue

\* A flush takes what is pending when it holds nothing else
LEMMA TakeInv ==
    ASSUME IInv, worker # "persist", TakePending, UNCHANGED <<closing, shut, db, truth, lost>>
    PROVE  IInv'
<1>1. TypeOK /\ NothingLost /\ Elements(<<>>) = {} /\ <<>> \in Seq(Tickers)
  BY NoElements DEF IInv
<1>2. \A t \in Tickers : taken[t] = NoQuote
  BY <1>1 DEF TypeOK, FlushOK
<1>3. BufferOK'
  BY <1>1 DEF TakePending, BufferOK, QuoteOrNone
<1>4. CASE order = <<>>
  <2>1. \A t \in Tickers : pending[t] = NoQuote
    BY <1>1, <1>4 DEF TypeOK, BufferOK
  <2>2. FlushOK'
    BY <1>1, <1>4 DEF TypeOK, FlushOK, TakePending, flushVars
  <2>3. NothingLost'
    BY <1>1, <1>4, <2>1 DEF NothingLost, TakePending, flushVars
  <2> QED
    BY <1>1, <1>3, <2>2, <2>3 DEF IInv, TypeOK, TakePending
<1>5. CASE order # <<>>
  <2>1. FlushOK'
    BY <1>1, <1>5 DEF TypeOK, BufferOK, FlushOK, TakePending
  <2>2. NothingLost'
    BY <1>1, <1>2, <1>5, QuoteTypes, MergeType DEF NothingLost, TakePending
  <2> QED
    BY <1>1, <1>3, <2>1, <2>2 DEF IInv, TypeOK, TakePending
<1> QED
  BY <1>4, <1>5

\* The end of a write: what failed is still held or back in the buffer, and what
\* was written is stored
LEMMA WriteInv ==
    ASSUME IInv, worker = "persist", NEW f, WriteOver(f),
           \/ f = failed /\ db' = Upsert(Head(batch))
           \/ f = Append(failed, Head(batch)) /\ db' \in {db, Upsert(Head(batch))},
           UNCHANGED <<closing, shut, truth, lost>>
    PROVE  IInv'
<1> DEFINE t == Head(batch)
           rest == Tail(batch)
<1>1. TypeOK /\ NothingLost /\ batch # <<>> /\ Elements(<<>>) = {} /\ <<>> \in Seq(Tickers)
  BY NoElements DEF IInv, TypeOK, FlushOK
<1>2. /\ t \in Tickers /\ rest \in Seq(Tickers) /\ Elements(batch) = {t} \cup Elements(rest)
      /\ failed \in Seq(Tickers) /\ Elements(failed) \subseteq Tickers
  BY <1>1, ElementsOf DEF TypeOK, FlushOK
<1>3. /\ f \in Seq(Tickers) /\ Elements(f) \subseteq Tickers
      /\ Elements(failed) \subseteq Elements(f) /\ Elements(f) \subseteq Elements(failed) \cup {t}
      /\ t \notin Elements(f) => f = failed
  <2>1. /\ Append(failed, t) \in Seq(Tickers)
        /\ Elements(Append(failed, t)) = Elements(failed) \cup {t}
    BY <1>2, ElementsOf
  <2>2. f = failed \/ f = Append(failed, t)
    OBVIOUS
  <2> HIDE DEF t
  <2> QED
    BY <1>2, <2>1, <2>2
<1> HIDE DEF t, rest
<1>4. /\ db' \in [Tickers -> QuoteOrNone]
      /\ \A u \in Tickers \ {t} : db'[u] = db[u]
      /\ db'[t] \in {db[t], Merge(db[t], taken[t])}
      /\ t \notin Elements(f) => db'[t] = Merge(db[t], taken[t])
  <2>1. \/ db' = db
        \/ db' = [db EXCEPT ![t] = Merge(@, taken[t])]
    BY DEF Upsert, t
  <2>2. t \notin Elements(f) => db' = [db EXCEPT ![t] = Merge(@, taken[t])]
    <3>1. Elements(Append(failed, t)) = Elements(failed) \cup {t}
      BY <1>2, ElementsOf
    <3> QED
      BY <3>1 DEF Upsert, t
  <2> QED
    BY <1>1, <1>2, <2>1, <2>2, QuoteTypes DEF TypeOK
<1>5. \A u \in Tickers : Merge(db'[u], taken[u]) = Merge(db[u], taken[u])
  BY <1>1, <1>4, QuoteTypes
<1>6. CASE rest # <<>>
  <2>1. /\ batch' = rest /\ failed' = f /\ UNCHANGED <<order, pending, event, worker>>
        /\ taken' = [u \in Tickers |->
                       IF u = t /\ t \notin Elements(f) THEN NoQuote ELSE taken[u]]
    BY <1>6 DEF WriteOver, t, rest
  <2>2. taken' \in [Tickers -> QuoteOrNone]
    BY <1>1, <2>1 DEF TypeOK, FlushOK, QuoteOrNone
  <2>3. \A u \in Tickers : taken'[u] # NoQuote => u \in Elements(rest) \cup Elements(f)
    BY <1>1, <1>2, <1>3, <2>1 DEF TypeOK, FlushOK
  <2>4. FlushOK' /\ BufferOK'
    BY <1>1, <1>2, <1>3, <1>6, <2>1, <2>2, <2>3 DEF TypeOK, FlushOK, BufferOK
  <2>5. NothingLost'
    <3> SUFFICES ASSUME NEW u \in Tickers \ lost
                 PROVE  Merge(db'[u], taken'[u]) = Merge(db[u], taken[u])
      BY <1>1, <2>1 DEF NothingLost
    <3>1. CASE u = t /\ t \notin Elements(f)
      BY <1>1, <1>4, <2>1, <3>1, QuoteTypes, MergeType
    <3>2. CASE ~(u = t /\ t \notin Elements(f))
      BY <1>5, <2>1, <3>2
    <3> QED
      BY <3>1, <3>2
  <2> QED
    BY <1>1, <1>4, <2>1, <2>4, <2>5 DEF IInv, TypeOK
<1>7. CASE rest = <<>>
  <2>1. /\ batch' = <<>> /\ failed' = <<>> /\ taken' = [u \in Tickers |-> NoQuote]
        /\ pending' = Requeue(f) /\ event' \in BOOLEAN
        /\ \E new \in Ordered(f, NewKeys(f)) : order' = order \o new
        /\ worker' \in {"none", "event", "sleep"}
    BY <1>1, <1>7 DEF WriteOver, t, rest, EventAfter, NextAwait, TypeOK
  <2>2. FlushOK'
    BY <1>1, <2>1 DEF FlushOK, QuoteOrNone
  <2>3. \A u \in Tickers : pending'[u] = IF u \in Elements(f) THEN Merge(taken[u], pending[u])
                                                            ELSE pending[u]
    BY <2>1 DEF Requeue
  <2>4. pending' \in [Tickers -> QuoteOrNone]
    BY <1>1, <2>1, MergeType DEF Requeue, TypeOK, FlushOK, BufferOK
  <2>5. order' \in Seq(Tickers) /\ Elements(order') = Elements(order) \cup NewKeys(f)
    <3>1. NewKeys(f) \in SUBSET Tickers
      BY <1>3 DEF NewKeys
    <3>2. PICK new \in Ordered(f, NewKeys(f)) : order' = order \o new
      BY <2>1
    <3>3. new \in Seq(Tickers) /\ Elements(new) = NewKeys(f)
      BY <3>1, <3>2, OrderedType
    <3> QED
      BY <1>1, <3>2, <3>3, ElementsOf DEF TypeOK, BufferOK
  <2>6. BufferOK'
    BY <1>1, <2>3, <2>4, <2>5 DEF BufferOK, TypeOK, NewKeys
  <2>7. NothingLost'
    <3> SUFFICES ASSUME NEW u \in Tickers \ lost
                 PROVE  Merge(Merge(db'[u], NoQuote), pending'[u]) = truth[u]
      BY <2>1 DEF NothingLost
    <3>1. Merge(Merge(db[u], taken[u]), pending[u]) = truth[u] /\ db'[u] \in QuoteOrNone
      BY <1>1, <1>4 DEF NothingLost
    <3>2. Merge(db'[u], NoQuote) = db'[u]
      BY <1>1, <3>1, QuoteTypes, MergeType
    <3>3. CASE u \in Elements(f)
      BY <1>1, <1>5, <2>3, <3>1, <3>2, <3>3, QuoteTypes, MergeAssoc
    <3>4. CASE u \notin Elements(f) /\ u = t
      BY <1>4, <2>3, <3>1, <3>2, <3>4
    <3>5. CASE u \notin Elements(f) /\ u # t
      <4>1. taken[u] = NoQuote
        BY <1>1, <1>2, <1>3, <1>7, <3>5 DEF TypeOK, FlushOK
      <4>2. Merge(db[u], taken[u]) = db[u]
        BY <1>1, <4>1, QuoteTypes, MergeType
      <4> QED
        BY <1>4, <2>3, <3>1, <3>2, <3>5, <4>2
    <3> QED
      BY <3>3, <3>4, <3>5
  <2> QED
    BY <1>1, <1>4, <2>1, <2>2, <2>6, <2>7 DEF IInv, TypeOK
<1> QED
  BY <1>6, <1>7

\* What the shutdown abandons it accounts for
LEMMA ShutdownInv ==
    ASSUME IInv, Shutdown \/ ShutdownReturns \/ ShutdownTimesOut
    PROVE  IInv'
<1>1. TypeOK /\ NothingLost /\ Elements(<<>>) = {} /\ <<>> \in Seq(Tickers)
  BY NoElements DEF IInv
<1>2. CASE Shutdown \/ ShutdownReturns
  BY <1>1, <1>2 DEF Shutdown, ShutdownReturns, IInv, TypeOK, BufferOK, FlushOK, NothingLost
<1>3. CASE ShutdownTimesOut
  <2> DEFINE t == Head(batch)
  <2>1. t \in Tickers
    BY <1>1, <1>3, ElementsOf DEF ShutdownTimesOut, TypeOK, FlushOK
  <2>2. /\ db' \in [Tickers -> QuoteOrNone]
        /\ \A u \in Tickers : db'[u] = db[u] \/ taken[u] # NoQuote
    <3>1. db' = db \/ db' = [db EXCEPT ![t] = Merge(@, taken[t])]
      BY <1>3 DEF ShutdownTimesOut, Upsert
    <3>2. taken[t] = NoQuote => Merge(db[t], taken[t]) = db[t]
      BY <1>1, <2>1, QuoteTypes, MergeType
    <3> HIDE DEF t
    <3> QED
      BY <1>1, <2>1, <3>1, <3>2, QuoteTypes DEF TypeOK
  <2>3. NothingLost'
    <3> SUFFICES ASSUME NEW u \in Tickers \ lost'
                 PROVE  Merge(Merge(db'[u], taken'[u]), pending[u]) = truth[u]
      BY <1>3 DEF ShutdownTimesOut, NothingLost
    <3>1. u \notin lost /\ taken[u] = NoQuote /\ taken'[u] = NoQuote /\ db'[u] = db[u]
      BY <1>3, <2>2 DEF ShutdownTimesOut
    <3> QED
      BY <1>1, <3>1 DEF NothingLost
  <2>4. FlushOK' /\ BufferOK'
    BY <1>1, <1>3 DEF ShutdownTimesOut, TypeOK, FlushOK, BufferOK, QuoteOrNone
  <2> QED
    BY <1>1, <1>3, <2>2, <2>3, <2>4 DEF ShutdownTimesOut, IInv, TypeOK
<1> QED
  BY <1>2, <1>3

LEMMA StepInv == IInv /\ [Next]_vars => IInv'
<1> SUFFICES ASSUME IInv, [Next]_vars PROVE IInv'
  OBVIOUS
<1>1. CASE \E t \in Tickers, q \in Arrivals : Enqueue(t, q)
  BY <1>1, EnqueueInv, BufferAssumption DEF BufferAssumption
<1>2. CASE WakeUp
  <2>1. CASE closing
    BY <1>2, <2>1, TakeInv DEF WakeUp
  <2>2. CASE ~closing
    BY <1>2, <2>2 DEF WakeUp, IInv, TypeOK, BufferOK, FlushOK, NothingLost
  <2> QED
    BY <2>1, <2>2
<1>3. CASE SleepOver
  BY <1>3, TakeInv DEF SleepOver
<1>4. ASSUME NEW t \in Tickers, PersistOk(t) \/ PersistFails(t)
      PROVE  IInv'
  BY <1>4, WriteInv DEF PersistOk, PersistFails
<1>5. CASE Shutdown \/ ShutdownReturns \/ ShutdownTimesOut
  BY <1>5, ShutdownInv
<1>6. CASE UNCHANGED vars
  BY <1>6 DEF vars, IInv, TypeOK, BufferOK, FlushOK, NothingLost
<1> QED
  BY <1>1, <1>2, <1>3, <1>4, <1>5, <1>6 DEF Next, Worker

-----------------------------------------------------------------------------
(* The theorems                                                            *)

\* Every reachable state of the buffer satisfies the inductive invariant.
THEOREM InductiveInvariant == Spec => []IInv
  BY InitInv, StepInv, PTL DEF Spec

\* The buffer's tables and key lists fit together, and no accepted quote is lost between
\* enqueue and market_quotes_latest, except those of a ticker dropped from a full buffer or
\* abandoned by a timed-out shutdown.
THEOREM BufferCorrect == Spec => []BufferSound
  BY InductiveInvariant, PTL DEF IInv, BufferSound

\* What is stored for a ticker never goes back in event time or in its extremum.
THEOREM NoRegressionCorrect == Spec => NoRegression
<1>1. IInv /\ [Next]_vars =>
        [\A t \in Tickers :
           db[t] # NoQuote =>
             db'[t] # NoQuote /\ db'[t].ts >= db[t].ts /\ db'[t].high >= db[t].high]_vars
  <2> SUFFICES ASSUME IInv, Next, NEW t \in Tickers, db[t] # NoQuote
               PROVE  db'[t] # NoQuote /\ db'[t].ts >= db[t].ts /\ db'[t].high >= db[t].high
    OBVIOUS
  <2>1. db' = db \/ \E u : db' = Upsert(u)
    BY DEF Next, Enqueue, Worker, WakeUp, SleepOver, PersistOk, PersistFails,
           Shutdown, ShutdownReturns, ShutdownTimesOut
  <2>2. /\ db \in [Tickers -> QuoteOrNone] /\ db[t] \in Quote /\ taken[t] \in QuoteOrNone
        /\ db[t].ts \in Int /\ db[t].high \in Int
    BY BufferAssumption DEF BufferAssumption, IInv, TypeOK, FlushOK, QuoteOrNone, Quote
  <2>3. db'[t] = db[t] \/ db'[t] = Merge(db[t], taken[t])
    BY <2>1, <2>2 DEF Upsert
  <2>4. CASE taken[t] = NoQuote
    BY <2>2, <2>3, <2>4, MergeType DEF QuoteOrNone
  <2>5. CASE taken[t] \in Quote
    <3>1. taken[t].ts \in Int /\ taken[t].high \in Int /\ taken[t] # NoQuote
      BY <2>5, BufferAssumption DEF BufferAssumption, Quote
    <3>2. Merge(db[t], taken[t]) # NoQuote
      BY <2>2, <3>1, MergeType DEF QuoteOrNone
    <3> QED
      BY <2>2, <2>3, <3>1, <3>2 DEF Merge
  <2> QED
    BY <2>2, <2>4, <2>5 DEF QuoteOrNone
<1> QED
  BY <1>1, InductiveInvariant, PTL DEF Spec, NoRegression

=============================================================================
