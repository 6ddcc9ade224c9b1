------------------------------ MODULE PaperTrade ------------------------------
(***************************************************************************)
(* The life of a paper trade: slot reservation in Pipeline._handle_token,   *)
(* PaperTradeSupervisor.run with its two concurrent loops, the row in the   *)
(* paper_trades table, and resumption after a restart.                      *)
(*                                                                          *)
(* The program is one asyncio event loop, so code between two awaits is one *)
(* step here.  A trade is identified by the configuration that opened it    *)
(* and the mint it was opened on: a create event of a mint is handled once. *)
(***************************************************************************)
EXTENDS Naturals, FiniteSets

CONSTANTS
  Configs,      (* entry configurations, each a paper portfolio of its own *)
  Mints,        (* tokens                                                  *)
  Cap,          (* portfolio_max_positions                                 *)
  TickEnabled,  (* tick_seconds > 0 and the launchpad is not the replay    *)
  DbMayFail,    (* statements (and pool checkouts) may raise               *)
  MaxRestarts   (* bound: restarts of the process                          *)

ASSUME PaperTradeAssumption ==
  /\ IsFiniteSet(Configs)
  /\ IsFiniteSet(Mints)
  /\ Cap \in Nat
  /\ TickEnabled \in BOOLEAN
  /\ DbMayFail \in BOOLEAN
  /\ MaxRestarts \in Nat

Trades == Configs \X Mints
Cfg(t) == t[1]
Mint(t) == t[2]

VARIABLES
  up,        (* the process runs                                           *)
  restarts,  (* restarts so far                                            *)
  handled,   (* mints whose create event has been handled                  *)
  slots,     (* _open_slots_by_config                                      *)
  seeded,    (* the value _resume_open_trades gave each slot counter       *)
  queue,     (* mints with a trade queue in the launchpad                  *)
  row,       (* row of paper_trades: "none", "open", or its exit_reason    *)
  sup,       (* where the supervisor coroutine is                          *)
  closed,    (* the supervisor's `closed` flag                             *)
  stream,    (* where _trade_stream_loop is                                *)
  tick,      (* where _tick_loop is                                        *)
  held       (* the stream loop reads the queue the launchpad still feeds  *)

vars == <<up, restarts, handled, slots, seeded, queue,
          row, sup, closed, stream, tick, held>>

(* The loops of one trade, and everything one trade owns in memory.         *)
loopVars == <<stream, tick, held>>
envVars  == <<up, restarts, handled, seeded>>

ExitReasons == {"rule", "expired", "error"}
RowStates   == {"none", "open"} \cup ExitReasons
LoopStates  == {"off", "wait", "handle", "closing", "returned", "raised", "cancelled"}
SupStates   == {"idle", "spawned", "resuming", "monitor", "expire",
                "errclose", "release", "unsub", "done", "dead"}

(* A supervisor that owns a slot: from the increment in _handle_token (or   *)
(* the seeding at resume) to the decrement in the finally block.  "dead" is *)
(* a coroutine that raised before it entered its try block.                 *)
Holding == {"spawned", "resuming", "monitor", "expire", "errclose", "release", "dead"}
(* A supervisor that will still act on its row.                             *)
Managing == {"spawned", "resuming", "monitor", "expire", "errclose"}
Finished(loop) == loop \in {"returned", "raised"}

Holders(c) == {t \in Trades : Cfg(t) = c /\ sup[t] \in Holding}

Init ==
  /\ up = TRUE
  /\ restarts = 0
  /\ handled = {}
  /\ slots = [c \in Configs |-> 0]
  /\ seeded = [c \in Configs |-> 0]
  /\ queue = {}
  /\ row = [t \in Trades |-> "none"]
  /\ sup = [t \in Trades |-> "idle"]
  /\ closed = [t \in Trades |-> FALSE]
  /\ stream = [t \in Trades |-> "off"]
  /\ tick = [t \in Trades |-> "off"]
  /\ held = [t \in Trades |-> FALSE]

-----------------------------------------------------------------------------
(* Fault: the cap is compared with > instead of >=.                         *)
HandleTokenOffByOne(m, wants) ==
  LET reserved == {c \in wants : slots[c] <= Cap} IN
  /\ up
  /\ m \notin handled
  /\ handled' = handled \cup {m}
  /\ slots' = [c \in Configs |-> IF c \in reserved THEN slots[c] + 1 ELSE slots[c]]
  /\ sup' = [t \in Trades |-> IF Mint(t) = m /\ Cfg(t) \in reserved
                                THEN "spawned" ELSE sup[t]]
  /\ queue' = queue \cup {m}
  /\ UNCHANGED <<up, restarts, seeded, row, closed, loopVars>>

(* Pipeline._handle_token, from the mint's create event to its spawn loop:  *)
(* `wants` are the configurations whose decision is should_enter after the  *)
(* shared gates.  The loop over configurations has no await, so check and   *)
(* increment of every counter are one step.  With no reservation the mint   *)
(* is unsubscribed again.                                                   *)
HandleToken(m, wants) ==
  LET reserved == {c \in wants : slots[c] < Cap} IN
  /\ up
  /\ m \notin handled
  /\ handled' = handled \cup {m}
  /\ slots' = [c \in Configs |-> IF c \in reserved THEN slots[c] + 1 ELSE slots[c]]
  /\ sup' = [t \in Trades |-> IF Mint(t) = m /\ Cfg(t) \in reserved
                                THEN "spawned" ELSE sup[t]]
  /\ queue' = IF reserved = {} THEN queue ELSE queue \cup {m}
  /\ UNCHANGED <<up, restarts, seeded, row, closed, loopVars>>

(* Entering the try block: both loops become tasks.  stream_trades looks    *)
(* the queue up once; without one it ends at once.  A disabled tick loop    *)
(* returns on its first line.                                               *)
StartLoops(t, fed) ==
  /\ sup' = [sup EXCEPT ![t] = "monitor"]
  /\ stream' = [stream EXCEPT ![t] = IF fed THEN "wait" ELSE "returned"]
  /\ held' = [held EXCEPT ![t] = fed]
  /\ tick' = [tick EXCEPT ![t] = IF TickEnabled THEN "wait" ELSE "returned"]

(* run(), new trade: size it, INSERT the row, start monitoring.             *)
OpenTrade(t) ==
  /\ up
  /\ sup[t] = "spawned"
  /\ row' = [row EXCEPT ![t] = "open"]
  /\ StartLoops(t, Mint(t) \in queue)
  /\ UNCHANGED <<envVars, slots, queue, closed>>

(* run(), resumed trade: read the size, subscribe, start monitoring.        *)
ResumeTrade(t) ==
  /\ up
  /\ sup[t] = "resuming"
  /\ queue' = queue \cup {Mint(t)}
  /\ StartLoops(t, TRUE)
  /\ UNCHANGED <<envVars, slots, row, closed>>

(* The INSERT, the size query or the subscription raises: this happens      *)
(* before the try block, so the finally block never runs.                   *)
RaiseBeforeTry(t) ==
  /\ DbMayFail
  /\ up
  /\ sup[t] \in {"spawned", "resuming"}
  /\ sup' = [sup EXCEPT ![t] = "dead"]
  /\ UNCHANGED <<envVars, slots, queue, row, closed, loopVars>>

-----------------------------------------------------------------------------
(* _trade_stream_loop: the next trade of the mint arrives.                  *)
StreamTake(t) ==
  /\ up /\ sup[t] = "monitor" /\ stream[t] = "wait" /\ held[t]
  /\ stream' = [stream EXCEPT ![t] = IF closed[t] THEN "returned" ELSE "handle"]
  /\ UNCHANGED <<envVars, slots, queue, row, sup, closed, tick, held>>

(* The trade is stored, the row's mark updated, and the exit rules hold.    *)
StreamKeep(t) ==
  /\ up /\ sup[t] = "monitor" /\ stream[t] = "handle"
  /\ stream' = [stream EXCEPT ![t] = "wait"]
  /\ UNCHANGED <<envVars, slots, queue, row, sup, closed, tick, held>>

(* The exit rules fire: _close_via_runner_result claims the close under     *)
(* close_lock, or finds it claimed.                                         *)
StreamExit(t) ==
  /\ up /\ sup[t] = "monitor" /\ stream[t] = "handle"
  /\ stream' = [stream EXCEPT ![t] = IF closed[t] THEN "returned" ELSE "closing"]
  /\ closed' = [closed EXCEPT ![t] = TRUE]
  /\ UNCHANGED <<envVars, slots, queue, row, sup, tick, held>>

(* A statement of the loop, or close_paper_trade, raises.                   *)
StreamRaise(t) ==
  /\ DbMayFail
  /\ up /\ sup[t] = "monitor" /\ stream[t] \in {"handle", "closing"}
  /\ stream' = [stream EXCEPT ![t] = "raised"]
  /\ UNCHANGED <<envVars, slots, queue, row, sup, closed, tick, held>>

(* close_paper_trade awaited by the stream loop takes effect.               *)
StreamClose(t) ==
  /\ up /\ sup[t] = "monitor" /\ stream[t] = "closing"
  /\ row' = [row EXCEPT ![t] = "rule"]
  /\ stream' = [stream EXCEPT ![t] = "returned"]
  /\ UNCHANGED <<envVars, slots, queue, sup, closed, tick, held>>

(* stream_trades ends: exit_max_hold_seconds or exit_inactivity_seconds.    *)
StreamEnd(t) ==
  /\ up /\ sup[t] = "monitor" /\ stream[t] = "wait"
  /\ stream' = [stream EXCEPT ![t] = "returned"]
  /\ UNCHANGED <<envVars, slots, queue, row, sup, closed, tick, held>>

-----------------------------------------------------------------------------
(* Fault: the tick loop gives up although nobody claimed the close.         *)
TickGivesUp(t) ==
  /\ up /\ sup[t] = "monitor" /\ tick[t] = "wait"
  /\ tick' = [tick EXCEPT ![t] = "returned"]
  /\ UNCHANGED <<envVars, slots, queue, row, sup, closed, stream, held>>

(* _tick_loop wakes to find the trade claimed by the stream loop.           *)
TickFindsClosed(t) ==
  /\ up /\ sup[t] = "monitor" /\ tick[t] = "wait" /\ closed[t]
  /\ tick' = [tick EXCEPT ![t] = "returned"]
  /\ UNCHANGED <<envVars, slots, queue, row, sup, closed, stream, held>>

(* Fault: the tick loop does not look at `closed` before it closes.         *)
TickExitUnlocked(t) ==
  /\ up /\ sup[t] = "monitor" /\ tick[t] = "wait"
  /\ closed' = [closed EXCEPT ![t] = TRUE]
  /\ tick' = [tick EXCEPT ![t] = "closing"]
  /\ UNCHANGED <<envVars, slots, queue, row, sup, stream, held>>

(* runner.tick or the survival model (which awaits nothing) asks to exit.   *)
TickExit(t) ==
  /\ up /\ sup[t] = "monitor" /\ tick[t] = "wait" /\ ~closed[t]
  /\ closed' = [closed EXCEPT ![t] = TRUE]
  /\ tick' = [tick EXCEPT ![t] = "closing"]
  /\ UNCHANGED <<envVars, slots, queue, row, sup, stream, held>>

TickClose(t) ==
  /\ up /\ sup[t] = "monitor" /\ tick[t] = "closing"
  /\ row' = [row EXCEPT ![t] = "rule"]
  /\ tick' = [tick EXCEPT ![t] = "returned"]
  /\ UNCHANGED <<envVars, slots, queue, sup, closed, stream, held>>

TickRaise(t) ==
  /\ DbMayFail
  /\ up /\ sup[t] = "monitor" /\ tick[t] = "closing"
  /\ tick' = [tick EXCEPT ![t] = "raised"]
  /\ UNCHANGED <<envVars, slots, queue, row, sup, closed, stream, held>>

-----------------------------------------------------------------------------
(* The statements in flight for a trade that would set its row to closed.   *)
InFlight(t) ==
  {w \in {"stream", "tick", "run"} :
     \/ w = "stream" /\ stream[t] = "closing"
     \/ w = "tick"   /\ tick[t] = "closing"
     \/ w = "run"    /\ sup[t] \in {"expire", "errclose"}}

Cancel(loop) == IF Finished(loop) THEN loop ELSE "cancelled"

(* Fault: the mint is unsubscribed as soon as the loops stop.               *)
ReapUnsubscribes(t) ==
  /\ up /\ sup[t] = "monitor"
  /\ Finished(stream[t]) \/ Finished(tick[t])
  /\ stream' = [stream EXCEPT ![t] = Cancel(stream[t])]
  /\ tick' = [tick EXCEPT ![t] = Cancel(tick[t])]
  /\ queue' = queue \ {Mint(t)}
  /\ held' = [u \in Trades |-> held[u] /\ Mint(u) # Mint(t)]
  /\ sup' = [sup EXCEPT ![t] = IF closed[t] THEN "release" ELSE "expire"]
  /\ closed' = [closed EXCEPT ![t] = TRUE]
  /\ UNCHANGED <<envVars, slots, row>>

(* asyncio.wait(FIRST_COMPLETED) returns: pending loops are cancelled, a    *)
(* finished loop's exception is re-raised.  Cancelling a loop that awaits   *)
(* close_paper_trade leaves the statement applied or not.                   *)
Reap(t) ==
  /\ up /\ sup[t] = "monitor"
  /\ Finished(stream[t]) \/ Finished(tick[t])
  /\ stream' = [stream EXCEPT ![t] = Cancel(stream[t])]
  /\ tick' = [tick EXCEPT ![t] = Cancel(tick[t])]
  /\ \/ UNCHANGED row
     \/ /\ InFlight(t) # {}
        /\ row' = [row EXCEPT ![t] = "rule"]
  /\ LET raised == stream[t] = "raised" \/ tick[t] = "raised" IN
     /\ sup' = [sup EXCEPT ![t] = IF closed[t] THEN "release"
                                  ELSE IF raised THEN "errclose" ELSE "expire"]
     /\ closed' = [closed EXCEPT ![t] = closed[t] \/ ~raised]
  /\ UNCHANGED <<envVars, slots, queue, held>>

(* The close after the wait: no loop closed the trade, so it is recorded as *)
(* dead_token (or timeout when there is no inactivity limit).               *)
Expire(t) ==
  /\ up /\ sup[t] = "expire"
  /\ row' = [row EXCEPT ![t] = "expired"]
  /\ sup' = [sup EXCEPT ![t] = "release"]
  /\ UNCHANGED <<envVars, slots, queue, closed, loopVars>>

(* The except branch: close as "error" when no loop had claimed the close.  *)
ErrorClose(t) ==
  /\ up /\ sup[t] = "errclose"
  /\ row' = [row EXCEPT ![t] = "error"]
  /\ sup' = [sup EXCEPT ![t] = "release"]
  /\ UNCHANGED <<envVars, slots, queue, closed, loopVars>>

(* Either of these closes raises; the finally block runs all the same.      *)
FinalCloseFails(t) ==
  /\ DbMayFail
  /\ up /\ sup[t] \in {"expire", "errclose"}
  /\ sup' = [sup EXCEPT ![t] = "release"]
  /\ UNCHANGED <<envVars, slots, queue, row, closed, loopVars>>

(* Fault: the slot is given back only by a supervisor that closed its row.  *)
ReleaseIfClosed(t) ==
  /\ up /\ sup[t] = "release"
  /\ slots' = [slots EXCEPT ![Cfg(t)] = IF @ > 0 /\ row[t] # "open" THEN @ - 1 ELSE @]
  /\ sup' = [sup EXCEPT ![t] = "unsub"]
  /\ UNCHANGED <<envVars, queue, row, closed, loopVars>>

(* Fault: an early return skips the finally block while the row is open.    *)
ReleaseSkipped(t) ==
  /\ up /\ sup[t] = "release" /\ row[t] # "open"
  /\ slots' = [slots EXCEPT ![Cfg(t)] = IF @ > 0 THEN @ - 1 ELSE @]
  /\ sup' = [sup EXCEPT ![t] = "unsub"]
  /\ UNCHANGED <<envVars, queue, row, closed, loopVars>>

(* finally: give the slot back (after the exit estimate, if there is one).  *)
Release(t) ==
  /\ up /\ sup[t] = "release"
  /\ slots' = [slots EXCEPT ![Cfg(t)] = IF @ > 0 THEN @ - 1 ELSE @]
  /\ sup' = [sup EXCEPT ![t] = "unsub"]
  /\ UNCHANGED <<envVars, queue, row, closed, loopVars>>

(* finally: unsubscribe_trades pops the mint's queue, whoever reads it.     *)
Unsubscribe(t) ==
  /\ up /\ sup[t] = "unsub"
  /\ queue' = queue \ {Mint(t)}
  /\ held' = [u \in Trades |-> held[u] /\ Mint(u) # Mint(t)]
  /\ sup' = [sup EXCEPT ![t] = "done"]
  /\ UNCHANGED <<envVars, slots, row, closed, stream, tick>>

-----------------------------------------------------------------------------
(* The process dies, or stops without awaiting its supervisor tasks: only   *)
(* the rows survive.                                                        *)
Crash ==
  /\ up /\ restarts < MaxRestarts
  /\ up' = FALSE
  /\ slots' = [c \in Configs |-> 0]
  /\ queue' = {}
  /\ sup' = [t \in Trades |-> "idle"]
  /\ closed' = [t \in Trades |-> FALSE]
  /\ stream' = [t \in Trades |-> "off"]
  /\ tick' = [t \in Trades |-> "off"]
  /\ held' = [t \in Trades |-> FALSE]
  /\ UNCHANGED <<restarts, handled, seeded, row>>

(* Pipeline._resume_open_trades: every open row gets a slot, whatever the   *)
(* cap, and a supervisor of its own.                                        *)
OpenRows(c) == {t \in Trades : Cfg(t) = c /\ row[t] = "open"}

(* Fault: the query forgets status='open'.                                  *)
ResumeAllRows ==
  /\ ~up
  /\ up' = TRUE
  /\ restarts' = restarts + 1
  /\ slots' = [c \in Configs |-> Cardinality({t \in Trades : Cfg(t) = c /\ row[t] # "none"})]
  /\ seeded' = slots'
  /\ sup' = [t \in Trades |-> IF row[t] # "none" THEN "resuming" ELSE "idle"]
  /\ UNCHANGED <<handled, queue, row, closed, loopVars>>

(* Fault: one supervisor per mint, as before there were configurations.     *)
ResumeOnePerMint ==
  /\ ~up
  /\ up' = TRUE
  /\ restarts' = restarts + 1
  /\ slots' = [c \in Configs |-> Cardinality(OpenRows(c))]
  /\ seeded' = slots'
  /\ sup' = [t \in Trades |->
       IF row[t] = "open" /\ t = CHOOSE u \in Trades : Mint(u) = Mint(t) /\ row[u] = "open"
         THEN "resuming" ELSE "idle"]
  /\ UNCHANGED <<handled, queue, row, closed, loopVars>>

Resume ==
  /\ ~up
  /\ up' = TRUE
  /\ restarts' = restarts + 1
  /\ slots' = [c \in Configs |-> Cardinality(OpenRows(c))]
  /\ seeded' = slots'
  /\ sup' = [t \in Trades |-> IF row[t] = "open" THEN "resuming" ELSE "idle"]
  /\ UNCHANGED <<handled, queue, row, closed, loopVars>>

-----------------------------------------------------------------------------
StreamStep(t) == \/ StreamTake(t) \/ StreamKeep(t) \/ StreamExit(t)
                 \/ StreamRaise(t) \/ StreamClose(t) \/ StreamEnd(t)
TickStep(t)   == TickFindsClosed(t) \/ TickExit(t) \/ TickClose(t) \/ TickRaise(t)
RunStep(t)    == \/ OpenTrade(t) \/ ResumeTrade(t) \/ RaiseBeforeTry(t)
                 \/ Reap(t) \/ Expire(t) \/ ErrorClose(t) \/ FinalCloseFails(t)
                 \/ Release(t) \/ Unsubscribe(t)

Handle == \E m \in Mints, wants \in SUBSET Configs : HandleToken(m, wants)

Next == \/ Handle
        \/ \E t \in Trades : StreamStep(t) \/ TickStep(t) \/ RunStep(t)
        \/ Crash
        \/ Resume

Spec == Init /\ [][Next]_vars

(* The event loop runs every ready task and every awaited statement         *)
(* answers; stream_trades has a wall-clock deadline.  Nothing obliges the   *)
(* rules to fire or the market to trade.                                    *)
Fairness ==
  /\ \A t \in Trades :
       /\ WF_vars(RunStep(t))
       /\ SF_vars(StreamEnd(t))
       /\ WF_vars(StreamKeep(t) \/ StreamExit(t) \/ StreamRaise(t) \/ StreamClose(t))
       /\ WF_vars(TickClose(t) \/ TickRaise(t))
  /\ WF_vars(Resume)

FairSpec == Spec /\ Fairness

-----------------------------------------------------------------------------
(* Every variable stays in its type.                                        *)
TypeOK ==
  /\ up \in BOOLEAN
  /\ restarts \in Nat
  /\ handled \in SUBSET Mints
  /\ slots \in [Configs -> Nat]
  /\ seeded \in [Configs -> Nat]
  /\ queue \in SUBSET Mints
  /\ row \in [Trades -> RowStates]
  /\ sup \in [Trades -> SupStates]
  /\ closed \in [Trades -> BOOLEAN]
  /\ stream \in [Trades -> LoopStates]
  /\ tick \in [Trades -> LoopStates]
  /\ held \in [Trades -> BOOLEAN]

(* A configuration's counter is the number of supervisors between their     *)
(* reservation and their finally block, coroutines that died before it      *)
(* included: no slot is given back twice, and none is minted by a restart.  *)
SlotAccounting == \A c \in Configs : slots[c] = Cardinality(Holders(c))

(* portfolio_max_positions bounds each portfolio, except for the positions  *)
(* a restart found open.                                                    *)
SlotBound == \A c \in Configs : slots[c] <= Cap \/ slots[c] <= seeded[c]

(* close_lock and the `closed` flag: of the stream loop, the tick loop and  *)
(* run itself at most one closes a trade, and only a row still open.        *)
CloseOnce ==
  \A t \in Trades :
    /\ \A v, w \in InFlight(t) : v = w
    /\ InFlight(t) # {} => row[t] = "open"

(* A trade is expired (dead_token, timeout) only once its trade stream ran  *)
(* out, never because the other loop stopped first.                         *)
HonestExpiry == \A t \in Trades : sup[t] = "expire" => stream[t] = "returned"

(* While the bot runs and its statements succeed, an open row is managed by *)
(* a supervisor, unless one of its loops claimed the close.                 *)
OpenRowHasOwner ==
  \A t \in Trades : up /\ row[t] = "open" => sup[t] \in Managing \/ closed[t]

(* Every reserved slot is given back.                                       *)
SlotEventuallyFreed ==
  \A t \in Trades : sup[t] \in Holding ~> sup[t] \notin Holding

(* A supervisor that has ended left its row closed.                         *)
FinishedMeansClosed == \A t \in Trades : sup[t] = "done" => row[t] \in ExitReasons

(* A trade waits on a queue nobody feeds any more only when the supervisor  *)
(* of another configuration's trade of the same mint has ended.             *)
StarvedBySibling ==
  \A t \in Trades : sup[t] = "monitor" /\ stream[t] = "wait" /\ ~held[t]
    => \E u \in Trades \ {t} : Mint(u) = Mint(t) /\ sup[u] = "done"

(* The detailed system implements the abstract book of positions.           *)
HeldTrades == {t \in Trades : sup[t] \in Holding}
Recorded == [t \in Trades |-> IF row[t] \in ExitReasons THEN "closed" ELSE row[t]]

Book == INSTANCE PositionBook WITH holders <- HeldTrades, book <- Recorded

ImplementsBook == Book!Spec
=============================================================================
