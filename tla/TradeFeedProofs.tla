---------------------------- MODULE TradeFeedProofs ----------------------------
(* Proofs about TradeFeed, for any sets of mints and readers and any bounds. *)
EXTENDS TradeFeed, TLAPS

(* What a reconnection preserves: the mints without a subscription are those *)
(* still to be done, and a reader task that backs off has no connection.     *)
SubsInv ==
  /\ live \in [Mints -> Queues \cup {None}] /\ made \in Nat
  /\ task = "backoff" => conn # "up"
  /\ running /\ task = "reading" /\ conn = "up" => Subscribed \subseteq remote
  /\ running /\ task = "resub" /\ conn = "up" => Subscribed \subseteq remote \cup todo

LEMMA SubsInit == Init => SubsInv
  BY DEF Init, SubsInv, Subscribed, None

(* Calls of clients keep it: a subscription on a working connection reaches  *)
(* the server in the step that makes the queue.                              *)
LEMMA SubsClient == SubsInv /\ Client => SubsInv'
<1> SUFFICES ASSUME SubsInv, Client PROVE SubsInv'
  OBVIOUS
<1> USE DEF SubsInv
<1>1. ASSUME NEW m \in Mints, Subscribe(m) PROVE SubsInv'
  <2>1. UNCHANGED <<running, conn, task, todo>>
    BY <1>1 DEF Subscribe
  <2>2. /\ live' \in [Mints -> Queues \cup {None}] /\ made' \in Nat
        /\ Subscribed' = Subscribed \cup {m}
    <3>1. CASE live[m] # None /\ UNCHANGED <<live, made>>
      BY <3>1 DEF Subscribed
    <3>2. CASE /\ made < MaxQueues
               /\ made' = made + 1
               /\ live' = [live EXCEPT ![m] = made + 1]
      <4>1. made + 1 \in Queues /\ made + 1 # None
        BY <3>2, TradeFeedAssumption DEF Queues, None
      <4> QED
        BY <3>2, <4>1 DEF Subscribed
    <3> QED
      BY <1>1, <3>1, <3>2 DEF Subscribe
  <2>3. conn = "up" => remote' = remote \cup {m}
    BY <1>1 DEF Subscribe
  <2> QED
    BY <2>1, <2>2, <2>3
<1>2. ASSUME NEW m \in Mints, Unsubscribe(m) PROVE SubsInv'
  <2>1. live' = [live EXCEPT ![m] = None] /\ UNCHANGED <<running, conn, task, todo, made>>
    BY <1>2 DEF Unsubscribe
  <2>2. live' \in [Mints -> Queues \cup {None}] /\ Subscribed' = Subscribed \ {m}
    BY <2>1 DEF Subscribed
  <2>3. conn = "up" => remote' = remote \ {m}
    BY <1>2 DEF Unsubscribe
  <2> QED
    BY <2>1, <2>2, <2>3
<1>3. ASSUME NEW r \in Readers,
             (\E m \in Mints : StartStream(r, m)) \/ TakeTrade(r) \/ EndStream(r)
      PROVE SubsInv'
  BY <1>3 DEF StartStream, TakeTrade, EndStream, connVars, queueVars, Subscribed
<1> QED
  BY <1>1, <1>2, <1>3 DEF Client

(* The reader task keeps it: a reconnection starts from every mint that has  *)
(* a queue at that moment, and each is struck off as it is subscribed.       *)
LEMMA SubsReader == SubsInv /\ Reader => SubsInv'
<1> SUFFICES ASSUME SubsInv, Reader PROVE SubsInv'
  OBVIOUS
<1> USE DEF SubsInv, queueVars, Subscribed
<1>1. CASE SeeClosed
  BY <1>1 DEF SeeClosed
<1>2. CASE Reconnect
  BY <1>2 DEF Reconnect
<1>3. CASE Reconnected
  BY <1>3 DEF Reconnected
<1>4. CASE ReconnectFails
  BY <1>4 DEF ReconnectFails
<1>5. ASSUME NEW m \in Mints, Resubscribe(m) PROVE SubsInv'
  BY <1>5 DEF Resubscribe
<1> QED
  BY <1>1, <1>2, <1>3, <1>4, <1>5 DEF Reader

LEMMA SubsRest ==
  SubsInv /\ (Server \/ WatchdogCloses \/ EndTokens \/ Disconnect) => SubsInv'
<1> SUFFICES ASSUME SubsInv, Server \/ WatchdogCloses \/ EndTokens \/ Disconnect
             PROVE SubsInv'
  OBVIOUS
<1> USE DEF SubsInv, queueVars, connVars, Subscribed
<1>1. ASSUME NEW m \in Mints, Message(m) PROVE SubsInv'
  BY <1>1 DEF Message
<1>2. CASE Lose
  BY <1>2 DEF Lose, ClosedAs
<1>3. CASE Unfunded
  BY <1>3 DEF Unfunded
<1>4. CASE WatchdogCloses
  BY <1>4 DEF WatchdogCloses, ClosedAs
<1>5. CASE EndTokens
  BY <1>5 DEF EndTokens
<1>6. CASE Disconnect
  BY <1>6 DEF Disconnect, None
<1> QED
  BY <1>1, <1>2, <1>3, <1>4, <1>5, <1>6 DEF Server

(* Resubscribed: however subscriptions, losses and reconnections interleave, *)
(* the reader never reads a working connection on which a mint with a queue  *)
(* is not streamed.                                                          *)
THEOREM SubscriptionsSurvive == Spec => []Resubscribed
<1>1. Init => SubsInv
  BY SubsInit
<1>2. SubsInv /\ [Next]_vars => SubsInv'
  <2>1. SubsInv /\ UNCHANGED vars => SubsInv'
    BY DEF SubsInv, vars, connVars, queueVars, Subscribed
  <2> QED
    BY <2>1, SubsClient, SubsReader, SubsRest DEF Next
<1>3. SubsInv => Resubscribed
  BY DEF SubsInv, Resubscribed
<1> QED
  BY <1>1, <1>2, <1>3, PTL DEF Spec

-----------------------------------------------------------------------------
(* The way of a trade: sent, put on a queue, given to a reader.             *)
Ordered(s) == \A i, j \in 1..Len(s) : i < j => s[i] < s[j]

(* What is later than the rest may be put at the end.                       *)
LEMMA OrderedAppend ==
  ASSUME NEW s \in Seq(Nat), NEW n \in Nat,
         Ordered(s), \A m \in ToSet(s) : m < n
  PROVE  /\ Append(s, n) \in Seq(Nat) /\ Ordered(Append(s, n))
         /\ ToSet(Append(s, n)) = ToSet(s) \cup {n}
<1>1. /\ Append(s, n) \in Seq(Nat) /\ Len(Append(s, n)) = Len(s) + 1
      /\ \A i \in 1..Len(s) : Append(s, n)[i] = s[i]
      /\ Append(s, n)[Len(s) + 1] = n
  OBVIOUS
<1>2. \A i \in 1..Len(s) : s[i] < n
  BY DEF ToSet
<1>3. Ordered(Append(s, n))
  BY <1>1, <1>2 DEF Ordered
<1>4. ToSet(Append(s, n)) = ToSet(s) \cup {n}
  BY <1>1 DEF ToSet
<1> QED BY <1>1, <1>3, <1>4

LEMMA Listed == \A s \in Seq(Nat) : \A i \in 1..Len(s) : s[i] \in ToSet(s)
BY DEF ToSet

(* What is taken from the front is earlier than the rest.                    *)
LEMMA OrderedTail ==
  ASSUME NEW s \in Seq(Nat), s # <<>>, Ordered(s)
  PROVE  /\ Tail(s) \in Seq(Nat) /\ Ordered(Tail(s)) /\ Head(s) \in Nat
         /\ ToSet(s) = {Head(s)} \cup ToSet(Tail(s))
         /\ \A m \in ToSet(Tail(s)) : Head(s) < m
<1>1. /\ Tail(s) \in Seq(Nat) /\ Len(Tail(s)) = Len(s) - 1 /\ Len(s) \in Nat \ {0}
      /\ \A i \in 1..Len(s) - 1 : Tail(s)[i] = s[i + 1]
      /\ Head(s) = s[1] /\ Head(s) \in Nat
  OBVIOUS
<1>2. Ordered(Tail(s))
  BY <1>1 DEF Ordered
<1>3. ToSet(s) = {Head(s)} \cup ToSet(Tail(s))
  <2>1. ToSet(s) \subseteq {Head(s)} \cup ToSet(Tail(s))
    <3> SUFFICES ASSUME NEW i \in 1..Len(s), i # 1 PROVE s[i] \in ToSet(Tail(s))
      BY <1>1 DEF ToSet
    <3>1. i - 1 \in 1..Len(s) - 1 /\ Tail(s)[i - 1] = s[i]
      BY <1>1
    <3>2. Tail(s)[i - 1] \in ToSet(Tail(s))
      BY <1>1, <3>1, Listed
    <3> QED BY <3>1, <3>2
  <2>2. Head(s) \in ToSet(s)
    BY <1>1 DEF ToSet
  <2>3. ToSet(Tail(s)) \subseteq ToSet(s)
    BY <1>1 DEF ToSet
  <2> QED BY <2>1, <2>2, <2>3
<1>4. \A m \in ToSet(Tail(s)) : Head(s) < m
  BY <1>1 DEF Ordered, ToSet
<1> QED BY <1>1, <1>2, <1>3, <1>4

Waiting(q) == ToSet(items[q])
Given(r) == ToSet(seen[r])

FlowTypes ==
  /\ sent \in Nat /\ made \in Nat
  /\ live \in [Mints -> Queues \cup {None}]
  /\ items \in [Queues -> Seq(Nat)]
  /\ routed \in [Queues -> Seq(Nat)]
  /\ reads \in [Readers -> Queues \cup {None, Ended}]
  /\ seen \in [Readers -> Seq(Nat)]

(* Queues and readers share no trade; both have them in the order sent, and  *)
(* a reader was given what came before all that waits on its queue.         *)
FlowOrder ==
  /\ \A q \in Queues : Ordered(items[q]) /\ \A n \in Waiting(q) : n <= sent
  /\ \A r \in Readers : Ordered(seen[r]) /\ \A n \in Given(r) : n <= sent
  /\ \A r \in Readers : reads[r] = None => seen[r] = <<>>
  /\ \A r \in Readers : reads[r] \in Queues =>
       \A n \in Given(r), m \in Waiting(reads[r]) : n < m

FlowApart ==
  /\ \A p, q \in Queues : p # q => Waiting(p) \cap Waiting(q) = {}
  /\ \A q \in Queues, r \in Readers : Waiting(q) \cap Given(r) = {}
  /\ \A r, s \in Readers : r # s => Given(r) \cap Given(s) = {}

FlowKept ==
  \A q \in Queues : \A n \in ToSet(routed[q]) :
    n \in Waiting(q) \/ \E r \in Readers : n \in Given(r)

FlowInv == FlowTypes /\ FlowOrder /\ FlowApart /\ FlowKept

LEMMA FlowInit == Init => FlowInv
<1> SUFFICES ASSUME Init PROVE FlowInv
  OBVIOUS
<1>1. Len(<<>>) = 0 /\ <<>> \in Seq(Nat) /\ ToSet(<<>>) = {} /\ Ordered(<<>>)
  BY DEF ToSet, Ordered
<1>2. FlowTypes
  BY <1>1 DEF Init, FlowTypes
<1>3. /\ \A q \in Queues : items[q] = <<>> /\ routed[q] = <<>>
      /\ \A r \in Readers : seen[r] = <<>>
  BY DEF Init
<1> QED
  BY <1>1, <1>2, <1>3 DEF FlowInv, FlowOrder, FlowApart, FlowKept, Waiting, Given

(* A trade sent is later than all before it, and goes to one queue at most.  *)
LEMMA FlowMessage == ASSUME FlowInv, NEW m \in Mints, Message(m) PROVE FlowInv'
<1> USE DEF FlowInv
<1>1. /\ sent' = sent + 1 /\ UNCHANGED <<live, made, reads, seen>>
      /\ \A n \in Nat : n <= sent => n <= sent + 1 /\ n # sent + 1 /\ n < sent + 1
  BY DEF Message, FlowTypes, readerVars
<1>2. \A r \in Readers : Given(r)' = Given(r)
  BY <1>1 DEF Given
<1>3. \A q \in Queues : Waiting(q) \subseteq Nat
  BY DEF FlowTypes, Waiting, ToSet
<1>4. \A r \in Readers : Given(r) \subseteq Nat
  BY DEF FlowTypes, Given, ToSet
<1>5. CASE UNCHANGED <<items, routed>>
  <2>1. \A q \in Queues : Waiting(q)' = Waiting(q)
    BY <1>5 DEF Waiting
  <2>2. FlowTypes' /\ FlowApart' /\ FlowKept'
    BY <1>1, <1>2, <1>5, <2>1 DEF FlowTypes, FlowApart, FlowKept
  <2>3. FlowOrder'
    BY <1>1, <1>2, <1>3, <1>4, <1>5, <2>1 DEF FlowTypes, FlowOrder
  <2> QED BY <2>2, <2>3
<1>6. CASE /\ live[m] # None
           /\ items' = [items EXCEPT ![live[m]] = Append(@, sent + 1)]
           /\ routed' = [routed EXCEPT ![live[m]] = Append(@, sent + 1)]
  <2> DEFINE q == live[m]
             n == sent + 1
  <2>1. q \in Queues /\ n \in Nat
    BY <1>6 DEF FlowTypes
  <2>2. /\ Append(items[q], n) \in Seq(Nat) /\ Ordered(Append(items[q], n))
        /\ ToSet(Append(items[q], n)) = Waiting(q) \cup {n}
    <3>1. items[q] \in Seq(Nat) /\ Ordered(items[q])
      BY <2>1 DEF FlowTypes, FlowOrder
    <3>2. \A k \in ToSet(items[q]) : k < n
      BY <1>1, <1>3, <2>1 DEF FlowOrder, Waiting
    <3> HIDE DEF q, n
    <3> QED BY <2>1, <3>1, <3>2, OrderedAppend DEF Waiting
  <2>3. /\ Append(routed[q], n) \in Seq(Nat)
        /\ ToSet(Append(routed[q], n)) = ToSet(routed[q]) \cup {n}
    <3> DEFINE s == routed[q]
    <3>1. s \in Seq(Nat)
      BY <2>1 DEF FlowTypes
    <3> HIDE DEF s, n
    <3>2. /\ Append(s, n) \in Seq(Nat) /\ Len(Append(s, n)) = Len(s) + 1
          /\ \A i \in 1..Len(s) : Append(s, n)[i] = s[i]
          /\ Append(s, n)[Len(s) + 1] = n
      BY <2>1, <3>1
    <3>3. ToSet(Append(s, n)) = ToSet(s) \cup {n}
      BY <3>1, <3>2 DEF ToSet
    <3> QED BY <3>2, <3>3 DEF s
  <2>4. \A p \in Queues :
          /\ items'[p] = IF p = q THEN Append(items[q], n) ELSE items[p]
          /\ routed'[p] = IF p = q THEN Append(routed[q], n) ELSE routed[p]
    BY <1>6 DEF FlowTypes
  <2>5. FlowTypes'
    BY <1>1, <1>6, <2>1, <2>2, <2>3 DEF FlowTypes
  <2> HIDE DEF q, n
  <2>6. \A p \in Queues : Waiting(p)' = IF p = q THEN Waiting(q) \cup {n} ELSE Waiting(p)
    BY <2>2, <2>4 DEF Waiting
  <2>7. /\ \A p \in Queues : \A k \in Waiting(p) : k \in Nat /\ k < n /\ k <= n /\ k # n
        /\ \A r \in Readers : \A k \in Given(r) : k \in Nat /\ k < n /\ k <= n /\ k # n
    BY <1>1, <1>3, <1>4 DEF FlowOrder, n
  <2>8. n <= n
    BY <2>1
  <2>9. FlowOrder'
    <3>1. \A p \in Queues : Ordered(items'[p]) /\ \A k \in Waiting(p)' : k <= sent'
      BY <1>1, <2>2, <2>4, <2>6, <2>7, <2>8 DEF FlowOrder, n
    <3>2. \A r \in Readers : Ordered(seen'[r]) /\ \A k \in Given(r)' : k <= sent'
      BY <1>1, <1>2, <2>7 DEF FlowOrder, n
    <3>3. \A r \in Readers : reads'[r] \in Queues =>
            \A k \in Given(r)', j \in Waiting(reads[r])' : k < j
      BY <1>1, <1>2, <2>6, <2>7 DEF FlowOrder
    <3> QED BY <1>1, <3>1, <3>2, <3>3 DEF FlowOrder
  <2>10. FlowApart'
    BY <1>2, <2>6, <2>7 DEF FlowApart
  <2>11. FlowKept'
    BY <1>2, <2>3, <2>4, <2>6 DEF FlowKept
  <2> QED BY <2>5, <2>9, <2>10, <2>11
<1> QED BY <1>5, <1>6 DEF Message

(* A reader that takes a trade takes the first, and nobody else has it.      *)
LEMMA FlowTake == ASSUME FlowInv, NEW r \in Readers, TakeTrade(r) PROVE FlowInv'
<1> USE DEF FlowInv
<1> DEFINE q == reads[r]
           n == Head(items[q])
<1>1. /\ q \in Queues /\ items[q] # <<>>
      /\ items' = [items EXCEPT ![q] = Tail(@)]
      /\ seen' = [seen EXCEPT ![r] = Append(@, n)]
      /\ UNCHANGED <<sent, made, live, reads, routed>>
  BY DEF TakeTrade, Reading
<1>2. /\ Tail(items[q]) \in Seq(Nat) /\ Ordered(Tail(items[q])) /\ n \in Nat
      /\ Waiting(q) = {n} \cup ToSet(Tail(items[q]))
      /\ \A m \in ToSet(Tail(items[q])) : n < m
  <2>1. items[q] \in Seq(Nat) /\ Ordered(items[q])
    BY <1>1 DEF FlowTypes, FlowOrder
  <2> HIDE DEF q
  <2> QED BY <1>1, <2>1, OrderedTail DEF Waiting
<1>3. /\ Append(seen[r], n) \in Seq(Nat) /\ Ordered(Append(seen[r], n))
      /\ ToSet(Append(seen[r], n)) = Given(r) \cup {n}
  <2>1. seen[r] \in Seq(Nat) /\ Ordered(seen[r])
    BY DEF FlowTypes, FlowOrder
  <2>2. \A m \in ToSet(seen[r]) : m < n
    BY <1>1, <1>2 DEF FlowOrder, Given
  <2> HIDE DEF n
  <2> QED BY <1>2, <2>1, <2>2, OrderedAppend DEF Given
<1>4. /\ \A p \in Queues : items'[p] = IF p = q THEN Tail(items[q]) ELSE items[p]
      /\ \A s \in Readers : seen'[s] = IF s = r THEN Append(seen[r], n) ELSE seen[s]
  BY <1>1 DEF FlowTypes
<1>5. FlowTypes'
  BY <1>1, <1>2, <1>3 DEF FlowTypes
<1>6. \A p \in Queues : Waiting(p)' = IF p = q THEN ToSet(Tail(items[q])) ELSE Waiting(p)
  BY <1>4 DEF Waiting
<1>7. \A s \in Readers : Given(s)' = IF s = r THEN Given(r) \cup {n} ELSE Given(s)
  BY <1>3, <1>4 DEF Given
<1>8. q' = q
  BY <1>1
<1>9. /\ n \in Waiting(q) /\ n \notin ToSet(Tail(items[q]))
      /\ ToSet(Tail(items[q])) \subseteq Waiting(q)
  BY <1>2
<1> DEFINE rest == ToSet(Tail(items[q]))
<1> HIDE DEF rest, n, q
<1>10. FlowOrder'
  <2>1. \A p \in Queues : Ordered(items'[p]) /\ \A k \in Waiting(p)' : k <= sent'
    BY <1>1, <1>2, <1>4, <1>6, <1>9 DEF FlowOrder
  <2>2. \A s \in Readers : Ordered(seen'[s]) /\ \A k \in Given(s)' : k <= sent'
    BY <1>1, <1>3, <1>4, <1>7, <1>9 DEF FlowOrder
  <2>3. \A s \in Readers : reads'[s] = None => seen'[s] = <<>>
    <3>1. reads[r] # None
      BY <1>1 DEF q, Queues, None
    <3> QED BY <1>1, <1>4, <3>1 DEF FlowOrder
  <2>4. \A s \in Readers : reads'[s] \in Queues =>
          \A k \in Given(s)', m \in Waiting(reads[s])' : k < m
    <3> SUFFICES ASSUME NEW s \in Readers, reads[s] \in Queues,
                        NEW k \in Given(s)', NEW m \in Waiting(reads[s])'
                 PROVE  k < m
      BY <1>1
    <3>1. m \in Waiting(reads[s]) /\ (reads[s] = q => m \in ToSet(Tail(items[q])))
      <4>1. Waiting(reads[s])' = ToSet(items'[reads[s]])
        BY <1>1 DEF Waiting
      <4>2. items'[reads[s]] = IF reads[s] = q THEN Tail(items[q]) ELSE items[reads[s]]
        BY <1>4
      <4> QED BY <1>9, <4>1, <4>2 DEF Waiting
    <3>2. CASE k \in Given(s)
      BY <3>1, <3>2 DEF FlowOrder
    <3>3. CASE s = r /\ k = n
      BY <1>2, <3>1, <3>3 DEF q
    <3> QED BY <1>7, <3>2, <3>3
  <2> QED BY <1>1, <2>1, <2>2, <2>3, <2>4 DEF FlowOrder
<1>11. FlowApart'
  <2>1. \A p \in Queues : p # q => n \notin Waiting(p)
    BY <1>1, <1>9 DEF FlowApart
  <2>2. \A s \in Readers : n \notin Given(s)
    BY <1>1, <1>9 DEF FlowApart
  <2>3. \A p \in Queues : Waiting(p)' \subseteq Waiting(p) /\ n \notin Waiting(p)'
    BY <1>6, <1>9, <2>1
  <2> QED BY <1>7, <2>2, <2>3 DEF FlowApart
<1>12. FlowKept'
  <2> SUFFICES ASSUME NEW p \in Queues, NEW k \in ToSet(routed[p])
               PROVE  k \in Waiting(p)' \/ \E s \in Readers : k \in Given(s)'
    BY <1>1 DEF FlowKept
  <2>1. CASE k \in Waiting(p)
    BY <1>2, <1>6, <1>7, <2>1
  <2>2. CASE \E s \in Readers : k \in Given(s)
    BY <1>7, <2>2
  <2> QED BY <2>1, <2>2 DEF FlowKept
<1> QED BY <1>5, <1>10, <1>11, <1>12

(* A reader starts with nothing, on a queue or at its end.                   *)
LEMMA FlowReads ==
  ASSUME FlowInv, NEW r \in Readers,
         (\E m \in Mints : StartStream(r, m)) \/ EndStream(r)
  PROVE  FlowInv'
<1> USE DEF FlowInv
<1>1. /\ UNCHANGED <<items, routed, sent, seen, live, made>>
      /\ \E q \in Queues \cup {Ended} :
           /\ reads' = [reads EXCEPT ![r] = q]
           /\ q = Ended \/ seen[r] = <<>>
  BY DEF StartStream, EndStream, queueVars, FlowTypes, FlowOrder
<1>2. PICK q \in Queues \cup {Ended} :
             /\ reads' = [reads EXCEPT ![r] = q]
             /\ q = Ended \/ seen[r] = <<>>
  BY <1>1
<1>3. q # None /\ Ended \notin Queues
  BY TradeFeedAssumption DEF Queues, None, Ended
<1>4. \A p \in Queues : Waiting(p)' = Waiting(p)
  BY <1>1 DEF Waiting
<1>5. \A s \in Readers : Given(s)' = Given(s)
  BY <1>1 DEF Given
<1>6. FlowTypes'
  BY <1>1, <1>2 DEF FlowTypes
<1>7. FlowApart' /\ FlowKept'
  BY <1>1, <1>4, <1>5 DEF FlowApart, FlowKept
<1>8. seen[r] = <<>> => Given(r) = {}
  BY DEF Given, ToSet
<1>9. \A s \in Readers : reads'[s] = IF s = r THEN q ELSE reads[s]
  BY <1>2 DEF FlowTypes
<1>10. FlowOrder'
  <2>1. \A s \in Readers : reads'[s] \in Queues =>
          \A n \in Given(s)', m \in Waiting(reads'[s]) : n < m
    BY <1>2, <1>3, <1>5, <1>8, <1>9 DEF FlowOrder
  <2>2. \A s \in Readers : reads'[s] \in Queues => Waiting(reads[s])' = Waiting(reads'[s])
    BY <1>1 DEF Waiting
  <2>3. \A s \in Readers : reads'[s] = None => seen'[s] = <<>>
    BY <1>1, <1>3, <1>9 DEF FlowOrder
  <2> QED BY <1>1, <1>4, <1>5, <2>1, <2>2, <2>3 DEF FlowOrder
<1> QED BY <1>6, <1>7, <1>10

(* The rest leaves queues and readers alone, but for which queue is fed.     *)
LEMMA FlowRest ==
  ASSUME FlowInv, UNCHANGED <<items, routed, sent, readerVars>>, made' \in Nat,
         live' \in [Mints -> Queues \cup {None}]
  PROVE  FlowInv'
BY DEF FlowInv, FlowTypes, FlowOrder, FlowApart, FlowKept, Waiting, Given, readerVars

LEMMA FlowStep == FlowInv /\ [Next]_vars => FlowInv'
<1> SUFFICES ASSUME FlowInv, [Next]_vars PROVE FlowInv'
  OBVIOUS
<1>1. made \in Nat /\ live \in [Mints -> Queues \cup {None}]
  BY DEF FlowInv, FlowTypes
<1>2. ASSUME NEW m \in Mints, Subscribe(m) PROVE FlowInv'
  <2>1. made < MaxQueues => made + 1 \in Queues
    BY <1>1, TradeFeedAssumption DEF Queues
  <2> QED BY <1>1, <1>2, <2>1, FlowRest DEF Subscribe
<1>3. ASSUME NEW m \in Mints, Unsubscribe(m) PROVE FlowInv'
  BY <1>1, <1>3, FlowRest DEF Unsubscribe
<1>4. CASE Disconnect
  BY <1>1, <1>4, FlowRest DEF Disconnect
<1>5. CASE Reader \/ Lose \/ Unfunded \/ WatchdogCloses \/ EndTokens \/ UNCHANGED vars
  <2>1. UNCHANGED <<items, routed, sent, readerVars, live, made>>
    BY <1>5 DEF Reader, SeeClosed, Reconnect, Reconnected, ReconnectFails, Resubscribe,
                Lose, Unfunded, WatchdogCloses, EndTokens, vars, queueVars
  <2> QED BY <1>1, <2>1, FlowRest
<1> QED
  BY <1>2, <1>3, <1>4, <1>5, FlowMessage, FlowTake, FlowReads DEF Next, Client, Server

(* EachTradeOnce: a trade put on a queue waits there or was given to exactly *)
(* one reader, and readers are given trades in the order they were sent, for *)
(* any number of queues, readers and reconnections.                          *)
THEOREM TradesOnce == Spec => []EachTradeOnce
<1>1. FlowInv => EachTradeOnce
  <2> SUFFICES ASSUME FlowInv PROVE EachTradeOnce
    OBVIOUS
  <2>1. ASSUME NEW q \in Queues, NEW i \in 1..Len(routed[q])
        PROVE  LET n == routed[q][i]
                   takers == {r \in Readers : n \in ToSet(seen[r])}
               IN IF n \in ToSet(items[q]) THEN takers = {}
                  ELSE \E r \in Readers : takers = {r}
    <3> DEFINE n == routed[q][i]
               takers == {r \in Readers : n \in Given(r)}
    <3>1. n \in ToSet(routed[q])
      BY DEF FlowInv, FlowTypes, ToSet
    <3>2. CASE n \in Waiting(q)
      <4>1. takers = {}
        BY <3>2 DEF FlowInv, FlowApart
      <4> QED BY <3>2, <4>1 DEF Waiting, Given
    <3>3. CASE n \notin Waiting(q)
      <4>1. PICK r \in Readers : n \in Given(r)
        BY <3>1, <3>3 DEF FlowInv, FlowKept
      <4>2. takers = {r}
        BY <4>1 DEF FlowInv, FlowApart
      <4> QED BY <3>3, <4>2 DEF Waiting, Given
    <3> QED BY <3>2, <3>3
  <2>2. \A r \in Readers : \A i, j \in 1..Len(seen[r]) : i < j => seen[r][i] < seen[r][j]
    BY DEF FlowInv, FlowOrder, Ordered
  <2> QED BY <2>1, <2>2 DEF EachTradeOnce
<1> QED BY <1>1, FlowInit, FlowStep, PTL DEF Spec
=============================================================================
