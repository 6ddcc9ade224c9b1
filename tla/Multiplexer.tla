----------------------------- MODULE Multiplexer -----------------------------
(***************************************************************************)
(* MultiplexerLaunchpad for one mint: two sources deliver copies of the     *)
(* mint's trades, one pump task per source deduplicates them against a      *)
(* shared LRU of keys and puts what is new on a bounded queue.              *)
(*                                                                          *)
(* The trades of the market are numbered in order.  What the copy of trade  *)
(* n looks like when it comes from source s is its synthetic key Syn[s][n]  *)
(* (wallet, second, size, side) and, from the primary, its signature.       *)
(***************************************************************************)
EXTENDS Naturals, Sequences, SequencesExt

CONSTANTS
  NumTrades,  (* bound: trades of the mint                                 *)
  Syn,        (* source -> trade -> synthetic key                          *)
  QueueCap,   (* PULSE_MUX_TRADE_QUEUE_MAX                                 *)
  LruCap,     (* maxsize of _sigs_seen                                     *)
  Clients     (* callers that subscribe, stream and unsubscribe            *)

Sources == {"primary", "fallback"}
Trade == 1..NumTrades

ASSUME MultiplexerAssumption ==
  /\ NumTrades \in Nat
  /\ Syn \in [Sources -> [Trade -> Nat]]
  /\ QueueCap \in Nat \ {0}
  /\ LruCap \in Nat

VARIABLES
  at,        (* source -> the last trade of the market it has passed       *)
  child,     (* source -> its own queue of the mint's trades               *)
  lru,       (* _sigs_seen, oldest key first                               *)
  queued,    (* the mint has an entry in _trade_queues                     *)
  queue,     (* that queue                                                 *)
  pumps,     (* pump tasks that run: the client that spawned it, source    *)
  holding,   (* pump -> the trade it waits to put on a full queue, or 0    *)
  table,     (* _trade_pumps[mint]: the client whose pair it is, or none   *)
  caller,    (* client -> where it is                                      *)
  emitted,   (* trades put on the queue, in order (history)                *)
  taken      (* trades a pump took from its source (history)               *)

sourceVars == <<at, child>>
pumpVars   == <<lru, holding, emitted, taken>>
subVars    == <<queued, pumps, table, caller>>
vars == <<sourceVars, pumpVars, subVars, queue>>

Pump == Clients \X Sources
Pair(cs) == cs \X Sources

Init ==
  /\ at = [s \in Sources |-> 0]
  /\ child = [s \in Sources |-> <<>>]
  /\ lru = <<>>
  /\ queued = FALSE
  /\ queue = <<>>
  /\ pumps = {}
  /\ holding = [p \in Pump |-> 0]
  /\ table = {}
  /\ caller = [c \in Clients |-> "idle"]
  /\ emitted = <<>>
  /\ taken = {}

-----------------------------------------------------------------------------
(* subscribe_trades up to its gather: a registered mint needs nothing, any  *)
(* other gets a new queue, whoever else is subscribing it.                  *)
Subscribe(c) ==
  /\ caller[c] = "idle"
  /\ \/ /\ table # {}
        /\ caller' = [caller EXCEPT ![c] = "on"]
        /\ UNCHANGED <<queued, queue>>
     \/ /\ table = {}
        /\ caller' = [caller EXCEPT ![c] = "subscribing"]
        /\ queued' = TRUE
        /\ queue' = <<>>
  /\ UNCHANGED <<sourceVars, pumpVars, pumps, table>>

(* After the gather: spawn a pair of pumps and register it.                 *)
SpawnPumps(c) ==
  /\ caller[c] = "subscribing"
  /\ caller' = [caller EXCEPT ![c] = "on"]
  /\ pumps' = pumps \cup Pair({c})
  /\ table' = {c}
  /\ UNCHANGED <<sourceVars, pumpVars, queued, queue>>

(* unsubscribe_trades up to its gather: cancel the registered pair.         *)
Unsubscribe(c) ==
  /\ caller[c] = "on"
  /\ caller' = [caller EXCEPT ![c] = "leaving"]
  /\ pumps' = pumps \ Pair(table)
  /\ holding' = [p \in Pump |-> IF p \in Pair(table) THEN 0 ELSE holding[p]]
  /\ table' = {}
  /\ UNCHANGED <<sourceVars, lru, emitted, taken, queued, queue>>

(* After the gather: the sources' queues and the mint's are gone.           *)
DropQueue(c) ==
  /\ caller[c] = "leaving"
  /\ caller' = [caller EXCEPT ![c] = "off"]
  /\ queued' = FALSE
  /\ queue' = <<>>
  /\ child' = [s \in Sources |-> <<>>]
  /\ UNCHANGED <<at, pumpVars, pumps, table>>

-----------------------------------------------------------------------------
(* A source delivers the next trade of the market, or never sees it.        *)
Deliver(s) ==
  /\ at[s] < NumTrades
  /\ at' = [at EXCEPT ![s] = @ + 1]
  /\ \/ queued /\ child' = [child EXCEPT ![s] = Append(@, at[s] + 1)]
     \/ UNCHANGED child
  /\ UNCHANGED <<pumpVars, subVars, queue>>

(* _trade_dedup_keys.                                                       *)
Keys(s, n) == {<<"syn", Syn[s][n]>>} \cup (IF s = "primary" THEN {<<"sig", n>>} ELSE {})

(* _LRUSet.add_if_new of the synthetic key, then of the signature.          *)
AddKeys(s, n) ==
  LET all == lru \o <<<<"syn", Syn[s][n]>>>>
                 \o (IF s = "primary" THEN <<<<"sig", n>>>> ELSE <<>>)
  IN IF Len(all) <= LruCap THEN all
     ELSE SubSeq(all, Len(all) - LruCap + 1, Len(all))

(* Fault: a trade that finds the queue full is dropped, like put_nowait     *)
(* inside a try block.                                                      *)
PumpTradeNoWait(c, s) ==
  /\ <<c, s>> \in pumps /\ holding[<<c, s>>] = 0 /\ child[s] # <<>>
  /\ LET n == Head(child[s])
         dup == Keys(s, n) \cap ToSet(lru) # {}
         full == Len(queue) >= QueueCap
     IN
     /\ child' = [child EXCEPT ![s] = Tail(@)]
     /\ taken' = IF queued THEN taken \cup {n} ELSE taken
     /\ pumps' = IF queued THEN pumps ELSE pumps \ {<<c, s>>}
     /\ lru' = IF queued /\ ~dup THEN AddKeys(s, n) ELSE lru
     /\ queue' = IF queued /\ ~dup /\ ~full THEN Append(queue, n) ELSE queue
     /\ emitted' = IF queued /\ ~dup /\ ~full THEN Append(emitted, n) ELSE emitted
  /\ UNCHANGED <<at, queued, table, caller, holding>>

(* Fault: the keys of a new trade are added after the put, which may wait.  *)
PumpTradeMarksLate(c, s) ==
  /\ <<c, s>> \in pumps /\ holding[<<c, s>>] = 0 /\ child[s] # <<>>
  /\ LET n == Head(child[s])
         dup == Keys(s, n) \cap ToSet(lru) # {}
         full == Len(queue) >= QueueCap
     IN
     /\ child' = [child EXCEPT ![s] = Tail(@)]
     /\ taken' = IF queued THEN taken \cup {n} ELSE taken
     /\ pumps' = IF queued THEN pumps ELSE pumps \ {<<c, s>>}
     /\ lru' = IF queued /\ ~dup /\ ~full THEN AddKeys(s, n) ELSE lru
     /\ holding' = [holding EXCEPT ![<<c, s>>] = IF queued /\ ~dup /\ full THEN n ELSE 0]
     /\ queue' = IF queued /\ ~dup /\ ~full THEN Append(queue, n) ELSE queue
     /\ emitted' = IF queued /\ ~dup /\ ~full THEN Append(emitted, n) ELSE emitted
  /\ UNCHANGED <<at, queued, table, caller>>

(* _pump_trades takes the next trade of its source.  Without a queue the    *)
(* task ends; a trade with a known key is skipped; a new one is marked as   *)
(* seen and put, which waits while the queue is full.                       *)
PumpTrade(c, s) ==
  /\ <<c, s>> \in pumps /\ holding[<<c, s>>] = 0 /\ child[s] # <<>>
  /\ LET n == Head(child[s])
         new == queued /\ Keys(s, n) \cap ToSet(lru) = {}
         full == Len(queue) >= QueueCap
     IN
     /\ child' = [child EXCEPT ![s] = Tail(@)]
     /\ taken' = IF queued THEN taken \cup {n} ELSE taken
     /\ pumps' = IF queued THEN pumps ELSE pumps \ {<<c, s>>}
     /\ lru' = IF new THEN AddKeys(s, n) ELSE lru
     /\ holding' = [holding EXCEPT ![<<c, s>>] = IF new /\ full THEN n ELSE 0]
     /\ queue' = IF new /\ ~full THEN Append(queue, n) ELSE queue
     /\ emitted' = IF new /\ ~full THEN Append(emitted, n) ELSE emitted
  /\ UNCHANGED <<at, queued, table, caller>>

(* The put of a pump that waited: the queue has room again.                 *)
PumpPut(c, s) ==
  /\ <<c, s>> \in pumps /\ holding[<<c, s>>] # 0
  /\ Len(queue) < QueueCap
  /\ queue' = Append(queue, holding[<<c, s>>])
  /\ emitted' = Append(emitted, holding[<<c, s>>])
  /\ holding' = [holding EXCEPT ![<<c, s>>] = 0]
  /\ UNCHANGED <<sourceVars, subVars, lru, taken>>

(* stream_trades hands the next trade to its caller.                        *)
Consume ==
  /\ queued /\ queue # <<>>
  /\ queue' = Tail(queue)
  /\ UNCHANGED <<sourceVars, pumpVars, subVars>>

-----------------------------------------------------------------------------
PumpStep == \E c \in Clients, s \in Sources : PumpTrade(c, s) \/ PumpPut(c, s)

Next ==
  \/ \E c \in Clients : Subscribe(c) \/ SpawnPumps(c) \/ Unsubscribe(c) \/ DropQueue(c)
  \/ \E s \in Sources : Deliver(s)
  \/ PumpStep
  \/ Consume

Spec == Init /\ [][Next]_vars

(* The event loop runs every pump that has a trade, and a subscription's    *)
(* gather returns; the caller keeps reading what it subscribed to.          *)
FairSpec ==
  /\ Spec
  /\ \A c \in Clients : /\ WF_vars(SpawnPumps(c))
                        /\ \A s \in Sources : /\ WF_vars(PumpTrade(c, s))
                                              /\ SF_vars(PumpPut(c, s))
  /\ WF_vars(Consume)

-----------------------------------------------------------------------------
TypeOK ==
  /\ at \in [Sources -> 0..NumTrades]
  /\ child \in [Sources -> Seq(Trade)]
  /\ Len(lru) <= LruCap
  /\ queued \in BOOLEAN
  /\ queue \in Seq(Trade) /\ Len(queue) <= QueueCap
  /\ pumps \subseteq Pump
  /\ holding \in [Pump -> 0..NumTrades]
  /\ table \subseteq Clients
  /\ caller \in [Clients -> {"idle", "subscribing", "on", "leaving", "off"}]
  /\ emitted \in Seq(Trade)
  /\ taken \subseteq Trade

(* Trades whose copies may carry the same synthetic key, n among them: the  *)
(* same order twice within a second.                                        *)
Alike(n) == {m \in Trade : \E r, s \in Sources : Syn[r][m] = Syn[s][n]}

(* "Deduplicates": a trade of the market is handed on once, whatever pumps  *)
(* race for its copies, unless the sources stamp it in different seconds.   *)
EmittedOnce ==
  \A i, j \in 1..Len(emitted) :
    i # j /\ emitted[i] = emitted[j]
      => Syn["primary"][emitted[i]] # Syn["fallback"][emitted[i]]

SomeoneLeft == \E c \in Clients : caller[c] \in {"leaving", "off"}

(* As long as no caller has left, a trade a pump took was handed on or is   *)
(* in the hands of a pump, or one alike is.                                 *)
NothingSwallowed ==
  ~SomeoneLeft => \A n \in taken :
    \E m \in Alike(n) : m \in ToSet(emitted) \/ \E p \in pumps : holding[p] = m

(* Whichever source stays silent, what the other delivers comes out, as     *)
(* long as no caller has left.                                              *)
EitherSourceSuffices ==
  \A n \in Trade : (\E s \in Sources : n \in ToSet(child[s]))
                     ~> (Alike(n) \cap ToSet(emitted) # {} \/ SomeoneLeft)
=============================================================================
