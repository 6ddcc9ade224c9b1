------------------------------ MODULE TradeFeed ------------------------------
(***************************************************************************)
(* PumpFunLaunchpad: one websocket, a reader task that routes trades to a   *)
(* queue per mint and reconnects, a watchdog that closes a silent socket,   *)
(* and the consumers of stream_trades and stream_new_tokens.                *)
(*                                                                          *)
(* A queue is an object: unsubscribe_trades drops the launchpad's reference *)
(* while a consumer goes on reading the one it looked up, so queues are     *)
(* numbered and `live` says which of them the reader task feeds.  Frames    *)
(* are written when send is called, so a (un)subscription is one step.      *)
(***************************************************************************)
EXTENDS Naturals, Sequences, SequencesExt

CONSTANTS
  Mints,
  Readers,      (* calls of stream_trades, one each                        *)
  MaxAttempts,  (* _MAX_RECONNECT_ATTEMPTS                                 *)
  MaxQueues,    (* bound: queues created                                   *)
  MaxTrades,    (* bound: trades the server sends                          *)
  MaxLosses     (* bound: connections lost or closed                       *)

ASSUME TradeFeedAssumption ==
  /\ MaxAttempts \in Nat \ {0}
  /\ {MaxQueues, MaxTrades, MaxLosses} \subseteq Nat

Queues == 1..MaxQueues
None == 0
Ended == MaxQueues + 1

VARIABLES
  running,   (* _running                                                   *)
  conn,      (* "up"; closed with an error "err" or cleanly "ok"; "none"   *)
  task,      (* where _ws_reader_loop is                                   *)
  attempts,  (* reconnect_count                                            *)
  todo,      (* mints _ws_reader_loop has yet to subscribe again           *)
  armed,     (* _last_msg_ts # 0: the watchdog may fire                    *)
  losses,    (* connections lost so far                                    *)
  remote,    (* mints the server streams on the current connection         *)
  live,      (* mint -> its queue in _trade_queues, or None                *)
  made,      (* queues created so far                                      *)
  items,     (* queue -> its trades                                        *)
  routed,    (* queue -> every trade ever put on it (history)              *)
  sent,      (* trades the server has sent                                 *)
  reads,     (* reader -> the queue it reads, None before, Ended after  *)
  seen,      (* reader -> the trades it was given (history)                *)
  pipe       (* the consumer of stream_new_tokens: "on" or "ended"         *)

connVars   == <<conn, task, attempts, todo, armed, losses, remote>>
queueVars  == <<live, made, items, routed, sent>>
readerVars == <<reads, seen>>
vars == <<running, connVars, queueVars, readerVars, pipe>>

Subscribed == {m \in Mints : live[m] # None}

(* connect() succeeded: its own retries end the process when it does not.   *)
Init ==
  /\ running = TRUE
  /\ conn = "up"
  /\ task = "reading"
  /\ attempts = 0
  /\ todo = {}
  /\ armed = TRUE
  /\ losses = 0
  /\ remote = {}
  /\ live = [m \in Mints |-> None]
  /\ made = 0
  /\ items = [q \in Queues |-> <<>>]
  /\ routed = [q \in Queues |-> <<>>]
  /\ sent = 0
  /\ reads = [r \in Readers |-> None]
  /\ seen = [r \in Readers |-> <<>>]
  /\ pipe = "on"

-----------------------------------------------------------------------------
(* subscribe_trades: keep the mint's queue or make one; a send on a closed  *)
(* connection is logged and forgotten.                                      *)
Subscribe(m) ==
  /\ \/ live[m] # None /\ UNCHANGED <<live, made>>
     \/ /\ live[m] = None /\ made < MaxQueues
        /\ made' = made + 1
        /\ live' = [live EXCEPT ![m] = made + 1]
  /\ remote' = IF conn = "up" THEN remote \cup {m} ELSE remote
  /\ UNCHANGED <<running, conn, task, attempts, todo, armed, losses,
                 items, routed, sent, readerVars, pipe>>

Unsubscribe(m) ==
  /\ live[m] # None
  /\ remote' = IF conn = "up" THEN remote \ {m} ELSE remote
  /\ live' = [live EXCEPT ![m] = None]
  /\ UNCHANGED <<running, conn, task, attempts, todo, armed, losses,
                 made, items, routed, sent, readerVars, pipe>>

(* stream_trades looks the queue up once; without one it ends at once.      *)
StartStream(r, m) ==
  /\ reads[r] = None
  /\ reads' = [reads EXCEPT ![r] = IF live[m] = None THEN Ended ELSE live[m]]
  /\ UNCHANGED <<running, connVars, queueVars, seen, pipe>>

Reading(r) == reads[r] \in Queues

(* Fault: the trade is looked at and left on the queue.                     *)
PeekTrade(r) ==
  /\ Reading(r) /\ items[reads[r]] # <<>>
  /\ seen' = [seen EXCEPT ![r] = Append(@, Head(items[reads[r]]))]
  /\ UNCHANGED <<running, connVars, queueVars, reads, pipe>>

TakeTrade(r) ==
  /\ Reading(r) /\ items[reads[r]] # <<>>
  /\ seen' = [seen EXCEPT ![r] = Append(@, Head(items[reads[r]]))]
  /\ items' = [items EXCEPT ![reads[r]] = Tail(@)]
  /\ UNCHANGED <<running, connVars, live, made, routed, sent, reads, pipe>>

(* The deadline or the inactivity timeout.                                  *)
EndStream(r) ==
  /\ Reading(r)
  /\ reads' = [reads EXCEPT ![r] = Ended]
  /\ UNCHANGED <<running, connVars, queueVars, seen, pipe>>

-----------------------------------------------------------------------------
(* The server sends a trade of a mint it streams and _read_messages routes  *)
(* it, or drops it when the mint has no queue any more.                     *)
Message(m) ==
  /\ running /\ task = "reading" /\ conn = "up"
  /\ m \in remote /\ sent < MaxTrades
  /\ sent' = sent + 1
  /\ armed' = TRUE
  /\ \/ live[m] = None /\ UNCHANGED <<items, routed>>
     \/ /\ live[m] # None
        /\ items' = [items EXCEPT ![live[m]] = Append(@, sent + 1)]
        /\ routed' = [routed EXCEPT ![live[m]] = Append(@, sent + 1)]
  /\ UNCHANGED <<running, conn, task, attempts, todo, losses, remote,
                 live, made, readerVars, pipe>>

(* How a connection ends: close() and a server that goes away end cleanly   *)
(* when both sides complete the closing handshake.                          *)
ClosedAs == {"ok", "err"}

(* The connection breaks: a reset, or the server goes away.                 *)
Lose ==
  /\ conn = "up" /\ losses < MaxLosses
  /\ conn' \in ClosedAs
  /\ losses' = losses + 1
  /\ remote' = {}
  /\ UNCHANGED <<running, task, attempts, todo, armed, queueVars, readerVars, pipe>>

(* _watchdog_loop closes a silent connection.                               *)
WatchdogCloses ==
  /\ running /\ armed
  /\ conn = "up" /\ losses < MaxLosses
  /\ armed' = FALSE
  /\ losses' = losses + 1
  /\ conn' \in ClosedAs
  /\ remote' = {}
  /\ UNCHANGED <<running, task, attempts, todo, queueVars, readerVars, pipe>>

(* PumpPortal's "0.02 SOL" answer: os._exit(1).                             *)
Unfunded ==
  /\ running /\ task = "reading" /\ conn = "up" /\ remote # {}
  /\ running' = FALSE
  /\ task' = "stopped"
  /\ conn' = "none"
  /\ remote' = {}
  /\ pipe' = "ended"
  /\ UNCHANGED <<attempts, todo, armed, losses, queueVars, readerVars>>

-----------------------------------------------------------------------------
(* `async for` over the socket raises ConnectionClosed only when it closed  *)
(* with an error; after a clean close it ends and _ws_reader_loop goes      *)
(* round again on the same closed socket, which changes nothing.            *)
SeeClosed ==
  /\ running /\ task = "reading" /\ conn = "err"
  /\ attempts' = attempts + 1
  /\ task' = "backoff"
  /\ UNCHANGED <<running, conn, todo, armed, losses, remote,
                 queueVars, readerVars, pipe>>

(* Fault: the trade subscriptions are not restored.                         *)
ReconnectForgets ==
  /\ running /\ task = "backoff"
  /\ conn' = "up"
  /\ remote' = {}
  /\ todo' = {}
  /\ task' = "resub"
  /\ UNCHANGED <<running, attempts, armed, losses, queueVars, readerVars, pipe>>

(* _establish_connection succeeds after the backoff: the mints that have a  *)
(* queue now are subscribed again one by one.                               *)
Reconnect ==
  /\ running /\ task = "backoff"
  /\ conn' = "up"
  /\ remote' = {}
  /\ todo' = Subscribed
  /\ task' = "resub"
  /\ UNCHANGED <<running, attempts, armed, losses, queueVars, readerVars, pipe>>

Resubscribe(m) ==
  /\ running /\ task = "resub" /\ conn = "up" /\ m \in todo
  /\ todo' = todo \ {m}
  /\ remote' = remote \cup {m}
  /\ UNCHANGED <<running, conn, task, attempts, armed, losses,
                 queueVars, readerVars, pipe>>

Reconnected ==
  /\ running /\ task = "resub" /\ todo = {}
  /\ task' = "reading"
  /\ attempts' = 0
  /\ armed' = TRUE
  /\ UNCHANGED <<running, conn, todo, losses, remote, queueVars, readerVars, pipe>>

(* Fault: the loop is left without clearing _running.                       *)
ReconnectFailsQuietly ==
  /\ running
  /\ \/ task = "backoff"
     \/ task = "resub" /\ conn # "up" /\ todo # {}
  /\ todo' = {}
  /\ task' = IF attempts >= MaxAttempts THEN "stopped" ELSE "reading"
  /\ UNCHANGED <<running, conn, attempts, armed, losses, remote, queueVars, readerVars, pipe>>

(* The handshake or a subscription fails: try again from reading the closed *)
(* socket, or give up.                                                      *)
ReconnectFails ==
  /\ running
  /\ \/ task = "backoff"
     \/ task = "resub" /\ conn # "up" /\ todo # {}
  /\ todo' = {}
  /\ task' = IF attempts >= MaxAttempts THEN "stopped" ELSE "reading"
  /\ running' = (attempts < MaxAttempts)
  /\ UNCHANGED <<conn, attempts, armed, losses, remote, queueVars, readerVars, pipe>>

(* stream_new_tokens sees _running cleared within its 5 s poll, and ends.   *)
EndTokens ==
  /\ ~running /\ pipe = "on"
  /\ pipe' = "ended"
  /\ UNCHANGED <<running, connVars, queueVars, readerVars>>

(* disconnect(), called by Pipeline.run when its token loop has ended or    *)
(* was cancelled.                                                           *)
Disconnect ==
  /\ conn # "none"
  /\ pipe' = "ended"
  /\ running' = FALSE
  /\ task' = "stopped"
  /\ conn' = "none"
  /\ remote' = {}
  /\ live' = [m \in Mints |-> None]
  /\ UNCHANGED <<attempts, todo, armed, losses, made, items, routed, sent, readerVars>>

-----------------------------------------------------------------------------
Client == \/ \E m \in Mints : Subscribe(m) \/ Unsubscribe(m)
          \/ \E r \in Readers, m \in Mints : StartStream(r, m)
          \/ \E r \in Readers : TakeTrade(r) \/ EndStream(r)
Server == (\E m \in Mints : Message(m)) \/ Lose \/ Unfunded
Reader == \/ SeeClosed \/ Reconnect \/ Reconnected \/ ReconnectFails
          \/ \E m \in Mints : Resubscribe(m)

Next == Client \/ Server \/ Reader \/ WatchdogCloses \/ EndTokens \/ Disconnect

Spec == Init /\ [][Next]_vars

(* The event loop runs the reader task and the token stream.                *)
FairSpec == Spec /\ WF_vars(Reader) /\ WF_vars(EndTokens)

-----------------------------------------------------------------------------
TypeOK ==
  /\ running \in BOOLEAN
  /\ conn \in {"up", "err", "ok", "none"}
  /\ task \in {"reading", "backoff", "resub", "stopped"}
  /\ attempts \in 0..MaxAttempts
  /\ todo \subseteq Mints
  /\ armed \in BOOLEAN
  /\ losses \in 0..MaxLosses
  /\ remote \subseteq Mints
  /\ live \in [Mints -> Queues \cup {None}]
  /\ made \in 0..MaxQueues
  /\ items \in [Queues -> Seq(1..MaxTrades)]
  /\ routed \in [Queues -> Seq(1..MaxTrades)]
  /\ sent \in 0..MaxTrades
  /\ reads \in [Readers -> Queues \cup {None, Ended}]
  /\ seen \in [Readers -> Seq(1..MaxTrades)]
  /\ pipe \in {"on", "ended"}

(* Whatever subscriptions, losses and reconnections interleave: while the   *)
(* reader reads a working connection, the server streams every mint that    *)
(* has a queue.                                                             *)
Resubscribed ==
  running /\ task = "reading" /\ conn = "up" => Subscribed \subseteq remote

(* Each trade put on a queue is waiting there or was given to exactly one   *)
(* reader, and each reader is given trades in the order they were routed.   *)
EachTradeOnce ==
  /\ \A q \in Queues : \A i \in 1..Len(routed[q]) :
       LET n == routed[q][i]
           takers == {r \in Readers : n \in ToSet(seen[r])}
       IN IF n \in ToSet(items[q]) THEN takers = {} ELSE \E r \in Readers : takers = {r}
  /\ \A r \in Readers : \A i, j \in 1..Len(seen[r]) : i < j => seen[r][i] < seen[r][j]

(* A connection that broke is replaced, or the bot's token stream ends so   *)
(* that the process can be restarted: no failed attempt leaves the bot deaf.*)
ErrorIsReplaced == conn = "err" ~> (conn = "up" \/ pipe = "ended")

(* "Force reconnect": so is a connection that was closed in order, by the   *)
(* watchdog for instance.                                                   *)
ClosedIsReplaced ==
  conn \in {"ok", "err"} ~> (conn = "up" \/ pipe = "ended")
=============================================================================
