------------------------- MODULE MultiplexerProofs -------------------------
(***************************************************************************)
(* Proofs about Multiplexer for any number of trades and callers, any       *)
(* synthetic keys and any capacity of the queue.                            *)
(***************************************************************************)
EXTENDS Multiplexer, Integers, TLAPS

Key == {"syn", "sig"} \X Nat

(* Handed on, or in the hands of a pump that runs.                           *)
Out(n) == n \in ToSet(emitted) \/ \E p \in pumps : holding[p] = n

(* As long as no caller has left, a known key is that of a trade that is out.*)
KeysTraced ==
  ~SomeoneLeft => \A k \in ToSet(lru) :
    \E m \in Trade, s \in Sources : k \in Keys(s, m) /\ Out(m)

Typed == TypeOK /\ lru \in Seq(Key)
TracedInv == Typed /\ KeysTraced /\ NothingSwallowed

(* The copies of n cannot be told apart by their second.                     *)
Same(n) == Syn["primary"][n] = Syn["fallback"][n]

(* The keys in the LRU are those of copies that were taken or dropped.       *)
Passed(s) == at[s] - Len(child[s])
Uncut ==
  /\ \A s \in Sources : Len(child[s]) <= at[s]
  /\ Len(lru) <= 2 * Passed("primary") + Passed("fallback")

Marked ==
  \A n \in Trade : Same(n) /\ (n \in ToSet(emitted) \/ \E p \in Pump : holding[p] = n)
    => <<"syn", Syn["primary"][n]>> \in ToSet(lru)

Apart ==
  /\ \A p, q \in Pump : p # q /\ holding[p] = holding[q] /\ holding[p] # 0
       => ~Same(holding[p])
  /\ \A p \in Pump : holding[p] # 0 /\ Same(holding[p])
       => holding[p] \notin ToSet(emitted)

OnceInv == Typed /\ Uncut /\ Marked /\ Apart /\ EmittedOnce

-----------------------------------------------------------------------------
(* The elements of the sequences the actions build.                          *)
LEMMA Joined ==
  ASSUME NEW S, NEW s \in Seq(S), NEW t \in Seq(S)
  PROVE  /\ s \o t \in Seq(S) /\ Len(s \o t) = Len(s) + Len(t)
         /\ ToSet(s \o t) = ToSet(s) \cup ToSet(t)
<1>1. ToSet(s \o t) \subseteq ToSet(s) \cup ToSet(t)
  BY DEF ToSet
<1>2. ToSet(s) \subseteq ToSet(s \o t)
  <2> SUFFICES ASSUME NEW i \in DOMAIN s PROVE s[i] \in ToSet(s \o t)
    BY DEF ToSet
  <2>1. i \in DOMAIN (s \o t) /\ (s \o t)[i] = s[i]
    OBVIOUS
  <2> QED BY <2>1 DEF ToSet
<1>3. ToSet(t) \subseteq ToSet(s \o t)
  <2> SUFFICES ASSUME NEW i \in DOMAIN t PROVE t[i] \in ToSet(s \o t)
    BY DEF ToSet
  <2>1. Len(s) + i \in DOMAIN (s \o t) /\ (s \o t)[Len(s) + i] = t[i]
    OBVIOUS
  <2> QED BY <2>1 DEF ToSet
<1> QED BY <1>1, <1>2, <1>3

LEMMA Appended ==
  ASSUME NEW S, NEW s \in Seq(S), NEW e \in S
  PROVE  ToSet(Append(s, e)) = ToSet(s) \cup {e}
<1>1. ToSet(Append(s, e)) \subseteq ToSet(s) \cup {e}
  BY DEF ToSet
<1>2. ToSet(s) \subseteq ToSet(Append(s, e))
  <2> SUFFICES ASSUME NEW i \in DOMAIN s PROVE s[i] \in ToSet(Append(s, e))
    BY DEF ToSet
  <2>1. i \in DOMAIN Append(s, e) /\ Append(s, e)[i] = s[i]
    OBVIOUS
  <2> QED BY <2>1 DEF ToSet
<1>3. e \in ToSet(Append(s, e))
  <2>1. Len(s) + 1 \in DOMAIN Append(s, e) /\ Append(s, e)[Len(s) + 1] = e
    OBVIOUS
  <2> QED BY <2>1 DEF ToSet
<1> QED BY <1>1, <1>2, <1>3

LEMMA EmptyFits ==
  /\ << >> \in Seq(Trade) /\ << >> \in Seq(Key)
  /\ Len(<< >>) <= QueueCap /\ Len(<< >>) <= LruCap
  /\ ToSet(<< >>) = {}
<1>1. Len(<< >>) = 0
  OBVIOUS
<1> QED BY <1>1, MultiplexerAssumption DEF ToSet

LEMMA KeysAdded ==
  ASSUME lru \in Seq(Key), NEW s \in Sources, NEW n \in Trade
  PROVE  /\ AddKeys(s, n) \in Seq(Key) /\ Len(AddKeys(s, n)) <= LruCap
         /\ ToSet(AddKeys(s, n)) \subseteq ToSet(lru) \cup Keys(s, n)
         /\ Len(lru) + (IF s = "primary" THEN 2 ELSE 1) <= LruCap =>
              /\ Len(AddKeys(s, n)) = Len(lru) + (IF s = "primary" THEN 2 ELSE 1)
              /\ ToSet(AddKeys(s, n)) = ToSet(lru) \cup Keys(s, n)
<1> DEFINE syn == <<"syn", Syn[s][n]>>
           sig == <<"sig", n>>
           more == IF s = "primary" THEN <<sig>> ELSE << >>
           all == lru \o <<syn>> \o more
<1>1. syn \in Key /\ sig \in Key
  BY MultiplexerAssumption DEF Key, Trade
<1> HIDE DEF syn, sig
<1>2. /\ <<syn>> \in Seq(Key) /\ more \in Seq(Key) /\ Len(<<syn>>) = 1
      /\ Len(more) = IF s = "primary" THEN 1 ELSE 0
  BY <1>1
<1>3. ToSet(<<syn>>) = {syn} /\ ToSet(more) = IF s = "primary" THEN {sig} ELSE {}
  BY <1>1 DEF ToSet
<1> HIDE DEF more
<1>4. /\ lru \o <<syn>> \in Seq(Key) /\ Len(lru \o <<syn>>) = Len(lru) + 1
      /\ ToSet(lru \o <<syn>>) = ToSet(lru) \cup {syn}
  <2>1. ToSet(lru \o <<syn>>) = ToSet(lru) \cup ToSet(<<syn>>)
    BY <1>2, Joined
  <2> QED BY <1>1, <1>3, <2>1
<1>5. /\ all \in Seq(Key)
      /\ Len(all) = Len(lru) + (IF s = "primary" THEN 2 ELSE 1)
      /\ ToSet(all) = ToSet(lru) \cup {syn} \cup ToSet(more)
  <2> DEFINE first == lru \o <<syn>>
  <2>1. first \in Seq(Key) /\ Len(first) = Len(lru) + 1 /\ all = first \o more
    BY <1>4
  <2> HIDE DEF first, all
  <2>2. /\ first \o more \in Seq(Key) /\ Len(first \o more) = Len(first) + Len(more)
        /\ ToSet(first \o more) = ToSet(first) \cup ToSet(more)
    BY <1>2, <2>1, Joined
  <2> QED BY <1>2, <1>4, <2>1, <2>2 DEF first
<1>6. ToSet(all) = ToSet(lru) \cup Keys(s, n)
  BY <1>3, <1>5 DEF Keys, syn, sig
<1>7. AddKeys(s, n) = IF Len(all) <= LruCap THEN all
                      ELSE SubSeq(all, Len(all) - LruCap + 1, Len(all))
  BY DEF AddKeys, syn, sig, more
<1> HIDE DEF all
<1>8. CASE Len(all) <= LruCap
  BY <1>5, <1>6, <1>7, <1>8
<1>9. CASE ~(Len(all) <= LruCap)
  <2> DEFINE cut == SubSeq(all, Len(all) - LruCap + 1, Len(all))
  <2>1. Len(all) \in Nat /\ LruCap \in Nat /\ LruCap < Len(all)
    BY <1>5, <1>9, MultiplexerAssumption
  <2>2. cut \in Seq(Key) /\ Len(cut) = LruCap
        /\ \A i \in 1..LruCap : cut[i] = all[Len(all) - LruCap + i]
    BY <1>5, <2>1
  <2>3. ToSet(cut) \subseteq ToSet(all)
    <3> SUFFICES ASSUME NEW i \in 1..LruCap PROVE cut[i] \in ToSet(all)
      BY <2>2 DEF ToSet
    <3>1. Len(all) - LruCap + i \in DOMAIN all
      BY <1>5, <2>1
    <3> QED BY <2>2, <3>1 DEF ToSet
  <2> HIDE DEF cut
  <2> QED BY <1>5, <1>6, <1>7, <1>9, <2>2, <2>3 DEF cut
<1> QED BY <1>8, <1>9

-----------------------------------------------------------------------------
(* What taking a trade may come to: nothing new, a wait, or a put.           *)
Takes(c, s, n) ==
  /\ n \in Trade /\ <<c, s>> \in pumps /\ holding[<<c, s>>] = 0
  /\ child' \in [Sources -> Seq(Trade)] /\ Len(child'[s]) = Len(child[s]) - 1
  /\ \A r \in Sources \ {s} : child'[r] = child[r]
  /\ UNCHANGED <<at, queued, table, caller>>
  /\ taken' = IF queued THEN taken \cup {n} ELSE taken
  /\ pumps' = IF queued THEN pumps ELSE pumps \ {<<c, s>>}

Skipped(s, n) ==
  /\ queued => Keys(s, n) \cap ToSet(lru) # {}
  /\ UNCHANGED <<lru, holding, queue, emitted>>

Waits(c, s, n) ==
  /\ queued /\ Keys(s, n) \cap ToSet(lru) = {} /\ lru' = AddKeys(s, n)
  /\ holding' = [holding EXCEPT ![<<c, s>>] = n]
  /\ UNCHANGED <<queue, emitted>>

HandsOn(s, n) ==
  /\ queued /\ Keys(s, n) \cap ToSet(lru) = {} /\ lru' = AddKeys(s, n)
  /\ Len(queue) < QueueCap
  /\ queue' = Append(queue, n) /\ emitted' = Append(emitted, n)
  /\ UNCHANGED holding

LEMMA Taking ==
  ASSUME Typed, NEW c \in Clients, NEW s \in Sources, PumpTrade(c, s)
  PROVE  \E n \in Trade :
           Takes(c, s, n) /\ (Skipped(s, n) \/ Waits(c, s, n) \/ HandsOn(s, n))
<1> DEFINE n == Head(child[s])
           new == queued /\ Keys(s, n) \cap ToSet(lru) = {}
           full == Len(queue) >= QueueCap
<1>1. /\ child \in [Sources -> Seq(Trade)] /\ child[s] # << >>
      /\ holding \in [Pump -> 0..NumTrades]
  BY DEF Typed, TypeOK, PumpTrade
<1>2. n \in Trade /\ Tail(child[s]) \in Seq(Trade) /\ Len(Tail(child[s])) = Len(child[s]) - 1
  BY <1>1
<1>3. /\ child' = [child EXCEPT ![s] = Tail(child[s])]
      /\ taken' = IF queued THEN taken \cup {n} ELSE taken
      /\ pumps' = IF queued THEN pumps ELSE pumps \ {<<c, s>>}
      /\ lru' = IF new THEN AddKeys(s, n) ELSE lru
      /\ holding' = [holding EXCEPT ![<<c, s>>] = IF new /\ full THEN n ELSE 0]
      /\ queue' = IF new /\ ~full THEN Append(queue, n) ELSE queue
      /\ emitted' = IF new /\ ~full THEN Append(emitted, n) ELSE emitted
      /\ UNCHANGED <<at, queued, table, caller>>
      /\ <<c, s>> \in pumps /\ holding[<<c, s>>] = 0
  BY DEF PumpTrade
<1> HIDE DEF n
<1>4. Takes(c, s, n)
  BY <1>1, <1>2, <1>3 DEF Takes
<1>5. ~(new /\ full) => UNCHANGED holding
  BY <1>1, <1>3
<1>6. Len(queue) \in Nat /\ QueueCap \in Nat
  BY MultiplexerAssumption DEF Typed, TypeOK
<1>7. CASE ~new
  BY <1>2, <1>3, <1>4, <1>5, <1>7 DEF Skipped
<1>8. CASE new /\ full
  BY <1>2, <1>3, <1>4, <1>8 DEF Waits
<1>9. CASE new /\ ~full
  BY <1>2, <1>3, <1>4, <1>5, <1>6, <1>9 DEF HandsOn
<1> QED BY <1>7, <1>8, <1>9

(* The type invariant, by what belongs together.                             *)
Arrivals == at \in [Sources -> 0..NumTrades] /\ child \in [Sources -> Seq(Trade)]
Known == lru \in Seq(Key) /\ Len(lru) <= LruCap
Waiting == queued \in BOOLEAN /\ queue \in Seq(Trade) /\ Len(queue) <= QueueCap
Pumping == pumps \subseteq Pump /\ holding \in [Pump -> 0..NumTrades]
Called == /\ table \subseteq Clients
          /\ caller \in [Clients -> {"idle", "subscribing", "on", "leaving", "off"}]
Past == emitted \in Seq(Trade) /\ taken \subseteq Trade

LEMMA TypedParts ==
  Typed <=> Arrivals /\ Known /\ Waiting /\ Pumping /\ Called /\ Past
BY DEF Typed, TypeOK, Arrivals, Known, Waiting, Pumping, Called, Past

LEMMA TypedPartsNext ==
  Typed' <=> Arrivals' /\ Known' /\ Waiting' /\ Pumping' /\ Called' /\ Past'
BY TypedParts, PTL

LEMMA TypedInit == Init => Typed
<1> SUFFICES ASSUME Init PROVE Typed
  OBVIOUS
<1>1. Arrivals /\ Pumping
  BY MultiplexerAssumption DEF Init, Arrivals, Pumping
<1>2. Known /\ Waiting
  BY EmptyFits DEF Init, Known, Waiting
<1>3. Called /\ Past
  BY DEF Init, Called, Past
<1> QED BY <1>1, <1>2, <1>3, TypedParts

LEMMA TypedStep == Typed /\ [Next]_vars => Typed'
<1> SUFFICES ASSUME Typed, [Next]_vars PROVE Typed'
  OBVIOUS
<1>0. Arrivals /\ Known /\ Waiting /\ Pumping /\ Called /\ Past
  BY TypedParts
<1>1. ASSUME NEW c \in Clients, Subscribe(c) PROVE Typed'
  <2>1. Arrivals' /\ Known' /\ Past'
    BY <1>0, <1>1 DEF Subscribe, sourceVars, pumpVars, Arrivals, Known, Past
  <2>2. Waiting'
    BY <1>0, <1>1, EmptyFits DEF Subscribe, Waiting
  <2>3. Pumping' /\ Called'
    BY <1>0, <1>1 DEF Subscribe, pumpVars, Pumping, Called
  <2> QED BY <2>1, <2>2, <2>3, TypedPartsNext
<1>2. ASSUME NEW c \in Clients, SpawnPumps(c) PROVE Typed'
  <2>1. Arrivals' /\ Known' /\ Past' /\ Waiting'
    BY <1>0, <1>2 DEF SpawnPumps, sourceVars, pumpVars, Arrivals, Known, Past, Waiting
  <2>2. Pumping' /\ Called'
    BY <1>0, <1>2 DEF SpawnPumps, pumpVars, Pumping, Called, Pump, Pair
  <2> QED BY <2>1, <2>2, TypedPartsNext
<1>3. ASSUME NEW c \in Clients, Unsubscribe(c) PROVE Typed'
  <2>1. Arrivals' /\ Known' /\ Past' /\ Waiting'
    BY <1>0, <1>3 DEF Unsubscribe, sourceVars, Arrivals, Known, Past, Waiting
  <2>2. Pumping'
    BY <1>0, <1>3, MultiplexerAssumption DEF Unsubscribe, Pumping
  <2>3. Called'
    BY <1>0, <1>3 DEF Unsubscribe, Called
  <2> QED BY <2>1, <2>2, <2>3, TypedPartsNext
<1>4. ASSUME NEW c \in Clients, DropQueue(c) PROVE Typed'
  <2>1. Known' /\ Past' /\ Pumping'
    BY <1>0, <1>4 DEF DropQueue, pumpVars, Known, Past, Pumping
  <2>2. Waiting'
    BY <1>4, EmptyFits DEF DropQueue, Waiting
  <2>3. Arrivals' /\ Called'
    BY <1>0, <1>4 DEF DropQueue, Arrivals, Called
  <2> QED BY <2>1, <2>2, <2>3, TypedPartsNext
<1>5. ASSUME NEW s \in Sources, Deliver(s) PROVE Typed'
  <2>1. /\ Known /\ UNCHANGED <<lru, emitted, taken, queued, queue, pumps, holding>>
        /\ UNCHANGED <<table, caller>>
    BY <1>0, <1>5 DEF Deliver, pumpVars, subVars
  <2>2. Known' /\ Past' /\ Waiting' /\ Pumping' /\ Called'
    BY <1>0, <2>1 DEF Known, Past, Waiting, Pumping, Called
  <2>3. at[s] + 1 \in 0..NumTrades /\ at[s] + 1 \in Trade
    BY <1>0, <1>5, MultiplexerAssumption DEF Deliver, Arrivals, Trade
  <2>4. at' \in [Sources -> 0..NumTrades]
    BY <1>0, <1>5, <2>3 DEF Deliver, Arrivals
  <2>5. Append(child[s], at[s] + 1) \in Seq(Trade)
    BY <1>0, <2>3 DEF Arrivals
  <2>6. child' \in [Sources -> Seq(Trade)]
    BY <1>0, <1>5, <2>5 DEF Deliver, Arrivals
  <2> QED BY <2>2, <2>4, <2>6, TypedPartsNext DEF Arrivals
<1>6. ASSUME NEW c \in Clients, NEW s \in Sources, PumpTrade(c, s) PROVE Typed'
  <2>1. PICK n \in Trade :
          Takes(c, s, n) /\ (Skipped(s, n) \/ Waits(c, s, n) \/ HandsOn(s, n))
    BY <1>6, Taking
  <2>2. AddKeys(s, n) \in Seq(Key) /\ Len(AddKeys(s, n)) <= LruCap
    BY <1>0, KeysAdded DEF Known
  <2>3. Arrivals' /\ Called'
    BY <1>0, <2>1 DEF Takes, Arrivals, Called
  <2>4. Known'
    BY <1>0, <2>1, <2>2 DEF Known, Skipped, Waits, HandsOn
  <2>5. Waiting'
    <3>1. /\ queue \in Seq(Trade) /\ Len(queue) \in Nat /\ Len(queue) <= QueueCap
          /\ queued \in BOOLEAN /\ QueueCap \in Nat
      BY <1>0, MultiplexerAssumption DEF Waiting
    <3>2. /\ Append(queue, n) \in Seq(Trade) /\ Len(Append(queue, n)) = Len(queue) + 1
      BY <3>1
    <3>3. queued' = queued /\ (queue' = queue \/ (Len(queue) < QueueCap
                                                /\ queue' = Append(queue, n)))
      BY <2>1 DEF Takes, Skipped, Waits, HandsOn
    <3> QED BY <3>1, <3>2, <3>3 DEF Waiting
  <2>6. pumps' \subseteq Pump
    BY <1>0, <2>1 DEF Takes, Pumping
  <2>7. holding' \in [Pump -> 0..NumTrades]
    <3>1. n \in 0..NumTrades /\ holding \in [Pump -> 0..NumTrades]
      BY <1>0, MultiplexerAssumption DEF Trade, Pumping
    <3> QED BY <2>1, <3>1 DEF Skipped, Waits, HandsOn
  <2>8. Past'
    <3>1. emitted \in Seq(Trade) /\ Append(emitted, n) \in Seq(Trade) /\ taken \subseteq Trade
      BY <1>0 DEF Past
    <3>2. /\ emitted' = emitted \/ emitted' = Append(emitted, n)
          /\ taken' \subseteq taken \cup {n}
      BY <2>1 DEF Takes, Skipped, Waits, HandsOn
    <3> QED BY <3>1, <3>2 DEF Past
  <2> QED BY <2>3, <2>4, <2>5, <2>6, <2>7, <2>8, TypedPartsNext DEF Pumping
<1>7. ASSUME NEW c \in Clients, NEW s \in Sources, PumpPut(c, s) PROVE Typed'
  <2>1. holding[<<c, s>>] \in Trade
    BY <1>0, <1>7, MultiplexerAssumption DEF PumpPut, Trade, Pumping
  <2>2. Arrivals' /\ Known' /\ Called'
    BY <1>0, <1>7 DEF PumpPut, sourceVars, subVars, Arrivals, Known, Called
  <2>3. Waiting'
    BY <1>0, <1>7, <2>1, MultiplexerAssumption DEF PumpPut, subVars, Waiting
  <2>4. Pumping'
    BY <1>0, <1>7, MultiplexerAssumption DEF PumpPut, subVars, Pumping
  <2>5. Past'
    BY <1>0, <1>7, <2>1 DEF PumpPut, Past
  <2> QED BY <2>2, <2>3, <2>4, <2>5, TypedPartsNext
<1>8. CASE Consume
  <2>1. Arrivals' /\ Known' /\ Pumping' /\ Called' /\ Past'
    BY <1>0, <1>8 DEF Consume, sourceVars, pumpVars, subVars, Arrivals, Known, Pumping,
       Called, Past
  <2>2. Waiting'
    <3>1. queue \in Seq(Trade) /\ queue # << >> /\ queue' = Tail(queue)
          /\ queued' = queued
      BY <1>0, <1>8 DEF Consume, subVars, Waiting
    <3>2. Len(queue') = Len(queue) - 1 /\ queue' \in Seq(Trade) /\ Len(queue) \in Nat
      BY <3>1
    <3> QED BY <1>0, <3>1, <3>2, MultiplexerAssumption DEF Waiting
  <2> QED BY <2>1, <2>2, TypedPartsNext
<1>9. CASE UNCHANGED vars
  <2>1. Arrivals' /\ Known' /\ Pumping' /\ Called' /\ Past' /\ Waiting'
    BY <1>0, <1>9 DEF vars, sourceVars, pumpVars, subVars, Arrivals, Known, Pumping,
       Called, Past, Waiting
  <2> QED BY <2>1, TypedPartsNext
<1> QED BY <1>1, <1>2, <1>3, <1>4, <1>5, <1>6, <1>7, <1>8, <1>9 DEF Next, PumpStep

-----------------------------------------------------------------------------
(* Whoever has left has left, and what is out stays out until then.          *)
LEMMA LeftStays == Typed /\ [Next]_vars /\ SomeoneLeft => SomeoneLeft'
<1> SUFFICES ASSUME Typed, [Next]_vars, SomeoneLeft PROVE SomeoneLeft'
  OBVIOUS
<1>1. PICK c \in Clients : caller[c] \in {"leaving", "off"}
  BY DEF SomeoneLeft
<1>2. caller \in [Clients -> {"idle", "subscribing", "on", "leaving", "off"}]
  BY DEF Typed, TypeOK
<1>3. ASSUME NEW d \in Clients,
             Subscribe(d) \/ SpawnPumps(d) \/ Unsubscribe(d) \/ DropQueue(d)
      PROVE  caller'[c] \in {"leaving", "off"}
  BY <1>1, <1>2, <1>3 DEF Subscribe, SpawnPumps, Unsubscribe, DropQueue
<1>4. ASSUME NEW s \in Sources, NEW d \in Clients,
             Deliver(s) \/ PumpTrade(d, s) \/ PumpPut(d, s) \/ Consume \/ UNCHANGED vars
      PROVE  UNCHANGED caller
  BY <1>4 DEF Deliver, PumpTrade, PumpPut, Consume, subVars, vars
<1>5. caller'[c] \in {"leaving", "off"}
  BY <1>1, <1>3, <1>4 DEF Next, PumpStep, Sources
<1> QED BY <1>5 DEF SomeoneLeft

LEMMA SomeoneLeaves ==
  ASSUME Typed, NEW c \in Clients, Unsubscribe(c) \/ DropQueue(c)
  PROVE  SomeoneLeft'
<1>1. caller'[c] \in {"leaving", "off"}
  BY DEF Typed, TypeOK, Unsubscribe, DropQueue
<1> QED BY <1>1 DEF SomeoneLeft

(* A step that neither takes, puts nor leaves.                               *)
Quiet == UNCHANGED <<lru, emitted, taken, holding>> /\ pumps \subseteq pumps'

LEMMA QuietSteps ==
  ASSUME Typed, NEW c \in Clients, NEW s \in Sources,
         Subscribe(c) \/ SpawnPumps(c) \/ Deliver(s) \/ Consume \/ UNCHANGED vars
  PROVE  Quiet
BY DEF Quiet, Subscribe, SpawnPumps, Deliver, Consume, vars, pumpVars, subVars

LEMMA OutAfterTaking ==
  ASSUME Typed, NEW c \in Clients, NEW s \in Sources, NEW n \in Trade, Takes(c, s, n),
         Skipped(s, n) \/ Waits(c, s, n) \/ HandsOn(s, n)
  PROVE  /\ \A m \in Trade : Out(m) => Out(m)'
         /\ ~Skipped(s, n) => Out(n)'
<1> DEFINE p == <<c, s>>
<1>1. /\ emitted \in Seq(Trade) /\ holding \in [Pump -> 0..NumTrades] /\ pumps \subseteq Pump
      /\ p \in pumps /\ holding[p] = 0
  BY DEF Typed, TypeOK, Takes
<1>2. \A m \in Trade : m # 0
  BY DEF Trade
<1>3. pumps' = pumps \/ pumps' = pumps \ {p}
  BY DEF Takes
<1>4. queued => pumps' = pumps
  BY DEF Takes
<1> HIDE DEF p
<1>5. CASE Skipped(s, n)
  BY <1>1, <1>2, <1>3, <1>5 DEF Skipped, Out
<1>6. CASE Waits(c, s, n)
  <2>1. /\ holding' = [holding EXCEPT ![p] = n] /\ pumps' = pumps
        /\ ToSet(emitted') = ToSet(emitted)
    BY <1>4, <1>6 DEF Waits, p
  <2> QED BY <1>1, <1>2, <2>1 DEF Out
<1>7. CASE HandsOn(s, n)
  <2>1. ToSet(emitted') = ToSet(emitted) \cup {n} /\ holding' = holding /\ pumps' = pumps
    BY <1>1, <1>4, <1>7, Appended DEF HandsOn
  <2> QED BY <2>1 DEF Out
<1> QED BY <1>5, <1>6, <1>7

LEMMA OutAfterPut ==
  ASSUME Typed, NEW c \in Clients, NEW s \in Sources, PumpPut(c, s)
  PROVE  /\ \A m \in Trade : Out(m) => Out(m)'
         /\ UNCHANGED <<lru, taken>>
<1> DEFINE p == <<c, s>>
<1>1. /\ emitted \in Seq(Trade) /\ holding \in [Pump -> 0..NumTrades] /\ pumps' = pumps
      /\ p \in Pump /\ holding[p] \in Trade
      /\ emitted' = Append(emitted, holding[p]) /\ holding' = [holding EXCEPT ![p] = 0]
      /\ UNCHANGED <<lru, taken>>
  BY MultiplexerAssumption DEF Typed, TypeOK, PumpPut, subVars, Trade, Pump
<1> HIDE DEF p
<1>2. ToSet(emitted') = ToSet(emitted) \cup {holding[p]}
  BY <1>1, Appended
<1> QED BY <1>1, <1>2 DEF Out

LEMMA TracedStep == TracedInv /\ [Next]_vars => TracedInv'
<1> SUFFICES ASSUME TracedInv, [Next]_vars PROVE TracedInv'
  OBVIOUS
<1>1. Typed /\ Typed'
  BY TypedStep DEF TracedInv
<1>2. SUFFICES ASSUME ~SomeoneLeft' PROVE KeysTraced' /\ NothingSwallowed'
  BY <1>1 DEF TracedInv, KeysTraced, NothingSwallowed
<1>3. /\ ~SomeoneLeft
      /\ \A k \in ToSet(lru) : \E m \in Trade, s \in Sources : k \in Keys(s, m) /\ Out(m)
      /\ \A n \in taken : \E m \in Alike(n) : Out(m)
  BY <1>1, <1>2, LeftStays DEF TracedInv, KeysTraced, NothingSwallowed, Out
<1>4. /\ \A n \in Trade : Alike(n) \subseteq Trade /\ n \in Alike(n)
      /\ taken \subseteq Trade /\ lru \in Seq(Key)
  BY <1>1 DEF Alike, Typed, TypeOK, Sources
<1>5. CASE Quiet
  <2>1. \A m \in Trade : Out(m) => Out(m)'
    BY <1>5 DEF Quiet, Out
  <2>2. KeysTraced'
    BY <1>3, <1>5, <2>1 DEF KeysTraced, Quiet
  <2>3. NothingSwallowed'
    BY <1>3, <1>4, <1>5, <2>1 DEF NothingSwallowed, Quiet, Out
  <2> QED BY <2>2, <2>3
<1>6. ASSUME NEW c \in Clients, NEW s \in Sources, PumpTrade(c, s)
      PROVE  KeysTraced' /\ NothingSwallowed'
  <2>1. PICK n \in Trade :
          Takes(c, s, n) /\ (Skipped(s, n) \/ Waits(c, s, n) \/ HandsOn(s, n))
    BY <1>1, <1>6, Taking
  <2>2. /\ \A m \in Trade : Out(m) => Out(m)'
        /\ ~Skipped(s, n) => Out(n)'
    BY <1>1, <2>1, OutAfterTaking
  <2>3. /\ Skipped(s, n) => ToSet(lru') = ToSet(lru)
        /\ ~Skipped(s, n) => ToSet(lru') \subseteq ToSet(lru) \cup Keys(s, n)
    BY <1>4, <2>1, KeysAdded DEF Skipped, Waits, HandsOn
  <2>4. KeysTraced'
    BY <1>3, <2>2, <2>3 DEF KeysTraced
  <2>5. ASSUME Skipped(s, n), queued PROVE \E m \in Alike(n) : Out(m)
    <3>1. PICK k \in ToSet(lru) : k \in Keys(s, n)
      BY <2>5 DEF Skipped
    <3>2. PICK m \in Trade, r \in Sources : k \in Keys(r, m) /\ Out(m)
      BY <1>3
    <3>3. m = n \/ Syn[r][m] = Syn[s][n]
      BY <3>1, <3>2 DEF Keys
    <3>4. m \in Alike(n)
      BY <1>4, <3>3 DEF Alike
    <3> QED BY <3>2, <3>4
  <2>6. taken' = (IF queued THEN taken \cup {n} ELSE taken)
    BY <2>1 DEF Takes
  <2>7. \A x \in taken' : \E m \in Alike(x) : Out(m)'
    <3>1. \A x \in taken : \E m \in Alike(x) : Out(m)'
      BY <1>3, <1>4, <2>2
    <3>2. CASE ~queued
      BY <2>6, <3>1, <3>2
    <3>3. CASE queued
      <4>1. \E m \in Alike(n) : Out(m)'
        BY <1>4, <2>2, <2>5, <3>3
      <4> QED BY <2>6, <3>1, <4>1
    <3> QED BY <3>2, <3>3
  <2> QED BY <2>4, <2>7 DEF NothingSwallowed, Out
<1>7. ASSUME NEW c \in Clients, NEW s \in Sources, PumpPut(c, s)
      PROVE  KeysTraced' /\ NothingSwallowed'
  <2>1. (\A m \in Trade : Out(m) => Out(m)') /\ UNCHANGED <<lru, taken>>
    BY <1>1, <1>7, OutAfterPut
  <2>2. KeysTraced'
    BY <1>3, <2>1 DEF KeysTraced
  <2>3. NothingSwallowed'
    BY <1>3, <1>4, <2>1 DEF NothingSwallowed, Out
  <2> QED BY <2>2, <2>3
<1>8. ASSUME NEW c \in Clients PROVE ~Unsubscribe(c) /\ ~DropQueue(c)
  BY <1>1, <1>2, SomeoneLeaves
<1>9. ASSUME NEW c \in Clients, NEW s \in Sources,
             Subscribe(c) \/ SpawnPumps(c) \/ Deliver(s)
      PROVE  Quiet
  BY <1>1, <1>9, QuietSteps
<1>10. CASE Consume \/ UNCHANGED vars
  <2>1. Quiet
    BY <1>10 DEF Quiet, Consume, vars, pumpVars, subVars
  <2> QED BY <1>5, <2>1
<1>11. CASE Clients = {}
  <2>1. Quiet
    BY <1>10, <1>11 DEF Quiet, Next, PumpStep, Deliver, Consume, vars, pumpVars, subVars
  <2> QED BY <1>5, <2>1
<1>12. CASE Clients # {}
  BY <1>5, <1>6, <1>7, <1>8, <1>9, <1>10, <1>12 DEF Next, PumpStep, Sources
<1> QED BY <1>11, <1>12

(* As long as no caller has left, a trade that a pump took was handed on, or *)
(* is in a pump's hands, or one alike is (NothingSwallowed), for any         *)
(* capacity of the queue and of the LRU, and any keys.                       *)
THEOREM TradesNotSwallowed == Spec => []NothingSwallowed
<1>1. Init => TracedInv
  <2> SUFFICES ASSUME Init PROVE TracedInv
    OBVIOUS
  <2>1. ToSet(lru) = {} /\ taken = {}
    BY EmptyFits DEF Init
  <2> QED BY <2>1, TypedInit DEF TracedInv, KeysTraced, NothingSwallowed
<1>2. TracedInv => NothingSwallowed
  BY DEF TracedInv
<1> QED BY <1>1, <1>2, TracedStep, PTL DEF Spec

-----------------------------------------------------------------------------
LEMMA OnceAppended ==
  ASSUME Typed, EmittedOnce, NEW n \in Trade, Same(n) => n \notin ToSet(emitted),
         emitted' = Append(emitted, n)
  PROVE  EmittedOnce'
<1>1. emitted \in Seq(Trade) /\ Len(emitted) \in Nat
  BY DEF Typed, TypeOK
<1>2. /\ Len(emitted') = Len(emitted) + 1 /\ emitted'[Len(emitted) + 1] = n
      /\ \A i \in 1..Len(emitted) : emitted'[i] = emitted[i]
  BY <1>1
<1>3. ASSUME NEW i \in 1..Len(emitted), emitted[i] = n PROVE ~Same(n)
  BY <1>1, <1>3 DEF ToSet
<1>4. ASSUME NEW i \in 1..Len(emitted'), NEW j \in 1..Len(emitted'), i # j,
             emitted'[i] = emitted'[j]
      PROVE  Syn["primary"][emitted'[i]] # Syn["fallback"][emitted'[i]]
  <2>1. CASE i <= Len(emitted) /\ j <= Len(emitted)
    BY <1>1, <1>2, <1>4, <2>1 DEF EmittedOnce
  <2>2. CASE i = Len(emitted) + 1
    <3>1. j \in 1..Len(emitted) /\ emitted[j] = n /\ emitted'[i] = n
      BY <1>1, <1>2, <1>4, <2>2
    <3> QED BY <1>3, <3>1 DEF Same
  <2>3. CASE j = Len(emitted) + 1
    <3>1. i \in 1..Len(emitted) /\ emitted[i] = n /\ emitted'[i] = n
      BY <1>1, <1>2, <1>4, <2>3
    <3> QED BY <1>3, <3>1 DEF Same
  <2> QED BY <1>1, <1>2, <2>1, <2>2, <2>3
<1> QED BY <1>4 DEF EmittedOnce

(* A step that puts nothing into anyone's hands or on the queue.             *)
LEMMA LessHeld ==
  ASSUME OnceInv, Typed', UNCHANGED <<lru, emitted>>,
         \A p \in Pump : holding'[p] \in {0, holding[p]}
  PROVE  Marked' /\ Apart' /\ EmittedOnce'
<1>1. \A n \in Trade : n # 0
  BY DEF Trade
<1>2. Marked'
  BY <1>1 DEF OnceInv, Marked, Same
<1>3. Apart'
  BY DEF OnceInv, Apart, Same
<1>4. EmittedOnce'
  BY DEF OnceInv, EmittedOnce
<1> QED BY <1>2, <1>3, <1>4

(* Uncut with its two sources written out.                                   *)
PlainUncut ==
  /\ Len(child["primary"]) <= at["primary"]
  /\ Len(child["fallback"]) <= at["fallback"]
  /\ Len(lru) <= 2 * (at["primary"] - Len(child["primary"]))
                 + (at["fallback"] - Len(child["fallback"]))

LEMMA UncutPlain == Uncut <=> PlainUncut
BY DEF Uncut, PlainUncut, Passed, Sources

LEMMA UncutPlainNext == Uncut' <=> PlainUncut'
BY UncutPlain, PTL

LEMMA PlainSources ==
  ASSUME Typed
  PROVE  /\ at["primary"] \in 0..NumTrades /\ at["fallback"] \in 0..NumTrades
         /\ Len(child["primary"]) \in Nat /\ Len(child["fallback"]) \in Nat
         /\ Len(lru) \in Nat /\ NumTrades \in Nat
BY MultiplexerAssumption DEF Typed, TypeOK, Sources

LEMMA UncutKept ==
  ASSUME OnceInv, UNCHANGED <<at, child, lru>> PROVE Uncut'
BY DEF OnceInv, Uncut, Passed

LEMMA UncutMore ==
  ASSUME OnceInv, Typed', NEW s \in Sources, UNCHANGED at,
         Len(child'[s]) = Len(child[s]) - 1,
         \A r \in Sources \ {s} : child'[r] = child[r],
         Len(lru') <= Len(lru) + (IF s = "primary" THEN 2 ELSE 1)
  PROVE  Uncut'
<1> DEFINE ap == at["primary"]
           af == at["fallback"]
           cp == Len(child["primary"])
           cf == Len(child["fallback"])
           l == Len(lru)
           dp == Len(child'["primary"])
           df == Len(child'["fallback"])
           k == Len(lru')
<1>1. ap \in Nat /\ af \in Nat /\ cp \in Nat /\ cf \in Nat /\ l \in Nat
  BY PlainSources DEF OnceInv
<1>2. dp \in Nat /\ df \in Nat /\ k \in Nat
  BY DEF Typed, TypeOK, Sources
<1>3. \/ dp = cp - 1 /\ df = cf /\ k <= l + 2
      \/ dp = cp /\ df = cf - 1 /\ k <= l + 1
  <2>1. CASE s = "primary"
    BY <2>1 DEF Sources
  <2>2. CASE s = "fallback"
    BY <2>2 DEF Sources
  <2> QED BY <2>1, <2>2 DEF Sources
<1>4. cp <= ap /\ cf <= af /\ l <= 2 * (ap - cp) + (af - cf)
  BY UncutPlain DEF OnceInv, PlainUncut
<1> HIDE DEF ap, af, cp, cf, l, dp, df, k
<1>5. dp <= ap /\ df <= af /\ k <= 2 * (ap - dp) + (af - df)
  BY <1>1, <1>2, <1>3, <1>4
<1> QED BY <1>5, UncutPlainNext DEF PlainUncut, ap, af, dp, df, k

(* The LRU has room for the keys of the next copy.                           *)
LEMMA RoomForKeys ==
  ASSUME LruCap >= 3 * NumTrades, OnceInv, NEW s \in Sources, child[s] # << >>
  PROVE  Len(lru) + (IF s = "primary" THEN 2 ELSE 1) <= LruCap
<1> DEFINE ap == at["primary"]
           af == at["fallback"]
           cp == Len(child["primary"])
           cf == Len(child["fallback"])
           l == Len(lru)
<1>1. /\ ap \in Nat /\ af \in Nat /\ cp \in Nat /\ cf \in Nat /\ l \in Nat
      /\ NumTrades \in Nat /\ LruCap \in Nat /\ ap <= NumTrades /\ af <= NumTrades
  BY PlainSources, MultiplexerAssumption DEF OnceInv
<1>2. Len(child[s]) >= 1
  BY DEF OnceInv, Typed, TypeOK
<1>3. l <= 2 * (ap - cp) + (af - cf)
  BY UncutPlain DEF OnceInv, PlainUncut
<1> HIDE DEF ap, af, cp, cf, l
<1>4. (cp >= 1 => l + 2 <= LruCap) /\ (cf >= 1 => l + 1 <= LruCap)
  BY <1>1, <1>3
<1> QED BY <1>2, <1>4 DEF Sources, cp, cf, l

LEMMA TakingOnce ==
  ASSUME LruCap >= 3 * NumTrades, OnceInv, Typed', NEW c \in Clients, NEW s \in Sources,
         PumpTrade(c, s)
  PROVE  OnceInv'
<1>0. Typed /\ child[s] # << >>
  BY DEF OnceInv, PumpTrade
<1>1. PICK n \in Trade :
        Takes(c, s, n) /\ (Skipped(s, n) \/ Waits(c, s, n) \/ HandsOn(s, n))
  BY <1>0, Taking
<1>2. /\ UNCHANGED at /\ Len(child'[s]) = Len(child[s]) - 1
      /\ \A r \in Sources \ {s} : child'[r] = child[r]
  BY <1>1 DEF Takes
<1>3. CASE Skipped(s, n)
  <2>1. UNCHANGED <<lru, emitted, holding>>
    BY <1>3 DEF Skipped
  <2>2. Marked' /\ Apart' /\ EmittedOnce'
    BY <2>1, LessHeld
  <2>3. Len(lru') <= Len(lru) + (IF s = "primary" THEN 2 ELSE 1)
    BY <1>0, <2>1 DEF Typed
  <2>4. Uncut'
    BY <1>2, <2>3, UncutMore
  <2> QED BY <2>2, <2>4 DEF OnceInv
<1>4. CASE Waits(c, s, n) \/ HandsOn(s, n)
  <2>1. /\ Keys(s, n) \cap ToSet(lru) = {} /\ lru' = AddKeys(s, n)
    BY <1>4 DEF Waits, HandsOn
  <2>2. /\ Len(lru') = Len(lru) + (IF s = "primary" THEN 2 ELSE 1)
        /\ ToSet(lru') = ToSet(lru) \cup Keys(s, n)
    BY <1>0, <2>1, RoomForKeys, KeysAdded DEF Typed
  <2>3. Uncut'
    <3>1. Len(lru') <= Len(lru) + (IF s = "primary" THEN 2 ELSE 1)
      BY <1>0, <2>2 DEF Typed
    <3> QED BY <1>2, <3>1, UncutMore
  <2>4. <<"syn", Syn[s][n]>> \in Keys(s, n) /\ (Same(n) => Syn[s][n] = Syn["primary"][n])
    BY DEF Keys, Same, Sources
  <2>5. Same(n) => n \notin ToSet(emitted) /\ \A p \in Pump : holding[p] # n
    BY <2>1, <2>4 DEF OnceInv, Marked
  <2>6. /\ emitted \in Seq(Trade) /\ holding \in [Pump -> 0..NumTrades]
        /\ <<c, s>> \in Pump /\ holding[<<c, s>>] = 0
    BY <1>0, <1>1 DEF Typed, TypeOK, Takes
  <2>7. \A x \in Trade : x # 0
    BY DEF Trade
  <2>8. CASE Waits(c, s, n)
    <3>1. /\ holding' = [holding EXCEPT ![<<c, s>>] = n] /\ UNCHANGED emitted
      BY <2>8 DEF Waits
    <3>2. Marked'
      BY <2>2, <2>4, <2>6, <2>7, <3>1 DEF OnceInv, Marked, Same
    <3>3. Apart'
      BY <2>5, <2>6, <2>7, <3>1 DEF OnceInv, Apart, Same
    <3>4. EmittedOnce'
      BY <3>1 DEF OnceInv, EmittedOnce
    <3> QED BY <2>3, <3>2, <3>3, <3>4 DEF OnceInv
  <2>9. CASE HandsOn(s, n)
    <3>1. emitted' = Append(emitted, n) /\ UNCHANGED holding
      BY <2>9 DEF HandsOn
    <3>2. ToSet(emitted') = ToSet(emitted) \cup {n}
      BY <2>6, <3>1, Appended
    <3>3. Marked'
      BY <2>2, <2>4, <3>1, <3>2 DEF OnceInv, Marked, Same
    <3>4. Apart'
      BY <2>5, <3>1, <3>2 DEF OnceInv, Apart, Same
    <3>5. EmittedOnce'
      BY <1>0, <2>5, <3>1, OnceAppended DEF OnceInv
    <3> QED BY <2>3, <3>3, <3>4, <3>5 DEF OnceInv
  <2> QED BY <1>4, <2>8, <2>9
<1> QED BY <1>1, <1>3, <1>4

LEMMA PuttingOnce ==
  ASSUME OnceInv, Typed', NEW c \in Clients, NEW s \in Sources, PumpPut(c, s)
  PROVE  OnceInv'
<1> DEFINE p == <<c, s>>
           h == holding[p]
<1>1. /\ emitted \in Seq(Trade) /\ holding \in [Pump -> 0..NumTrades] /\ p \in Pump
      /\ h \in Trade /\ h # 0 /\ emitted' = Append(emitted, h)
      /\ holding' = [holding EXCEPT ![p] = 0] /\ UNCHANGED <<at, child, lru>>
  BY MultiplexerAssumption DEF OnceInv, Typed, TypeOK, PumpPut, sourceVars, Trade, Pump
<1>2. /\ Same(h) => h \notin ToSet(emitted)
      /\ \A q \in Pump \ {p} : Same(h) => holding[q] # h
  BY <1>1 DEF OnceInv, Apart
<1>3. \A x \in Trade : x # 0
  BY DEF Trade
<1> HIDE DEF p
<1>4. ToSet(emitted') = ToSet(emitted) \cup {h}
  BY <1>1, Appended
<1>5. Marked'
  BY <1>1, <1>3, <1>4 DEF OnceInv, Marked, Same
<1>6. Apart'
  BY <1>1, <1>2, <1>4 DEF OnceInv, Apart, Same
<1>7. EmittedOnce'
  BY <1>1, <1>2, OnceAppended DEF OnceInv
<1>8. Uncut'
  BY <1>1, UncutKept
<1> QED BY <1>5, <1>6, <1>7, <1>8 DEF OnceInv

LEMMA OnceStep ==
  ASSUME LruCap >= 3 * NumTrades, OnceInv, [Next]_vars
  PROVE  OnceInv'
<1>1. Typed /\ Typed'
  BY TypedStep DEF OnceInv
<1>2. ASSUME NEW c \in Clients, Subscribe(c) \/ SpawnPumps(c) PROVE OnceInv'
  <2>1. UNCHANGED <<at, child, lru, emitted, holding>>
    BY <1>2 DEF Subscribe, SpawnPumps, sourceVars, pumpVars
  <2> QED BY <1>1, <2>1, LessHeld, UncutKept DEF OnceInv
<1>3. ASSUME NEW c \in Clients, Unsubscribe(c) PROVE OnceInv'
  <2>1. UNCHANGED <<at, child, lru, emitted>> /\ \A p \in Pump : holding'[p] \in {0, holding[p]}
    BY <1>3 DEF Unsubscribe, sourceVars
  <2> QED BY <1>1, <2>1, LessHeld, UncutKept DEF OnceInv
<1>4. ASSUME NEW c \in Clients, DropQueue(c) PROVE OnceInv'
  <2>1. UNCHANGED <<at, lru, emitted, holding>> /\ \A s \in Sources : child'[s] = << >>
    BY <1>4 DEF DropQueue, pumpVars
  <2>2. Marked' /\ Apart' /\ EmittedOnce'
    BY <1>1, <2>1, LessHeld
  <2>3. /\ \A s \in Sources : Len(child[s]) \in Nat /\ at[s] \in Nat /\ Len(child'[s]) = 0
        /\ Len(lru) \in Nat
    BY <1>1, <2>1 DEF Typed, TypeOK
  <2> DEFINE ap == at["primary"]
             af == at["fallback"]
             cp == Len(child["primary"])
             cf == Len(child["fallback"])
             l == Len(lru)
  <2>4. ap \in Nat /\ af \in Nat /\ cp \in Nat /\ cf \in Nat /\ l \in Nat
    BY <1>1, PlainSources
  <2>5. l <= 2 * (ap - cp) + (af - cf)
    BY UncutPlain DEF OnceInv, PlainUncut
  <2>6. Len(child'["primary"]) = 0 /\ Len(child'["fallback"]) = 0
    BY <2>3 DEF Sources
  <2> HIDE DEF ap, af, cp, cf, l
  <2>7. 0 <= ap /\ 0 <= af /\ l <= 2 * (ap - 0) + (af - 0)
    BY <2>4, <2>5
  <2>8. Uncut'
    BY <2>1, <2>6, <2>7, UncutPlainNext DEF PlainUncut, ap, af, l
  <2> QED BY <1>1, <2>2, <2>8 DEF OnceInv
<1>5. ASSUME NEW s \in Sources, Deliver(s) PROVE OnceInv'
  <2>1. /\ UNCHANGED <<lru, emitted, holding>> /\ at' = [at EXCEPT ![s] = at[s] + 1]
        /\ child' = child \/ child' = [child EXCEPT ![s] = Append(child[s], at[s] + 1)]
    BY <1>5 DEF Deliver, pumpVars
  <2>2. Marked' /\ Apart' /\ EmittedOnce'
    BY <1>1, <2>1, LessHeld
  <2>3. /\ \A r \in Sources : Len(child[r]) \in Nat /\ at[r] \in Nat /\ child[r] \in Seq(Trade)
        /\ Len(lru) \in Nat /\ at \in [Sources -> 0..NumTrades]
        /\ child \in [Sources -> Seq(Trade)]
    BY <1>1 DEF Typed, TypeOK
  <2>4. Len(Append(child[s], at[s] + 1)) = Len(child[s]) + 1
    BY <2>3
  <2>5. /\ at'[s] = at[s] + 1 /\ \A r \in Sources \ {s} : at'[r] = at[r] /\ child'[r] = child[r]
        /\ Len(child'[s]) \in {Len(child[s]), Len(child[s]) + 1}
    BY <2>1, <2>3, <2>4
  <2>6. Uncut'
    <3> DEFINE ap == at["primary"]
               af == at["fallback"]
               cp == Len(child["primary"])
               cf == Len(child["fallback"])
               l == Len(lru)
               bp == at'["primary"]
               bf == at'["fallback"]
               dp == Len(child'["primary"])
               df == Len(child'["fallback"])
    <3>1. ap \in Nat /\ af \in Nat /\ cp \in Nat /\ cf \in Nat /\ l \in Nat
      BY <1>1, PlainSources
    <3>2. \/ bp = ap + 1 /\ bf = af /\ dp \in {cp, cp + 1} /\ df = cf
          \/ bp = ap /\ bf = af + 1 /\ dp = cp /\ df \in {cf, cf + 1}
      <4>1. CASE s = "primary"
        BY <2>5, <4>1 DEF Sources
      <4>2. CASE s = "fallback"
        BY <2>5, <4>2 DEF Sources
      <4> QED BY <4>1, <4>2 DEF Sources
    <3>3. cp <= ap /\ cf <= af /\ l <= 2 * (ap - cp) + (af - cf)
      BY UncutPlain DEF OnceInv, PlainUncut
    <3> HIDE DEF ap, af, cp, cf, l, bp, bf, dp, df
    <3>4. dp <= bp /\ df <= bf /\ l <= 2 * (bp - dp) + (bf - df)
      BY <3>1, <3>2, <3>3
    <3> QED BY <2>1, <3>4, UncutPlainNext DEF PlainUncut, l, bp, bf, dp, df
  <2> QED BY <1>1, <2>2, <2>6 DEF OnceInv
<1>6. CASE Consume \/ UNCHANGED vars
  <2>1. UNCHANGED <<at, child, lru, emitted, holding>>
    BY <1>6 DEF Consume, vars, sourceVars, pumpVars
  <2> QED BY <1>1, <2>1, LessHeld, UncutKept DEF OnceInv
<1> QED BY <1>1, <1>2, <1>3, <1>4, <1>5, <1>6, TakingOnce, PuttingOnce DEF Next, PumpStep

(* A trade is handed on once, whatever pumps race for its copies, unless the *)
(* sources stamp it in different seconds (EmittedOnce), as long as the LRU   *)
(* can hold the keys of the trades under way.                                *)
THEOREM HandedOnOnce ==
  ASSUME LruCap >= 3 * NumTrades
  PROVE  Spec => []EmittedOnce
<1>1. Init => OnceInv
  <2> SUFFICES ASSUME Init PROVE OnceInv
    OBVIOUS
  <2>1. /\ ToSet(lru) = {} /\ ToSet(emitted) = {} /\ Len(lru) = 0 /\ Len(emitted) = 0
        /\ \A s \in Sources : at[s] = 0 /\ Len(child[s]) = 0
        /\ \A p \in Pump : holding[p] = 0
    BY EmptyFits DEF Init
  <2>2. Uncut
    BY <2>1 DEF Uncut, Passed, Sources
  <2>3. Marked /\ Apart
    BY <2>1 DEF Marked, Apart, Trade
  <2>4. EmittedOnce
    BY <2>1 DEF EmittedOnce
  <2> QED BY <2>2, <2>3, <2>4, TypedInit DEF OnceInv
<1>2. OnceInv /\ [Next]_vars => OnceInv'
  BY OnceStep
<1>3. OnceInv => EmittedOnce
  BY DEF OnceInv
<1> QED BY <1>1, <1>2, <1>3, PTL DEF Spec
=============================================================================
