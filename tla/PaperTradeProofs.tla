--------------------------- MODULE PaperTradeProofs ---------------------------
(***************************************************************************)
(* Proofs about PaperTrade for every set of configurations and mints, every *)
(* cap and any number of restarts.                                          *)
(***************************************************************************)
EXTENDS PaperTrade, FiniteSetTheorems, TLAPS

(* What the invariants of PaperTrade rest on.  A mint whose create event is *)
(* still to come has no supervisor and no row; a stopped process has no     *)
(* supervisors; and each supervisor agrees with its loops and its row.      *)
Untouched ==
  \A t \in Trades : Mint(t) \notin handled => sup[t] = "idle" /\ row[t] = "none"

Stopped == ~up => \A t \in Trades : sup[t] = "idle"

Before == {"idle", "spawned", "resuming"}

Agrees(t) ==
  /\ sup[t] \in Before => ~closed[t]
  /\ sup[t] # "monitor" => /\ stream[t] \notin {"wait", "handle", "closing"}
                           /\ tick[t] \notin {"wait", "closing"}
  /\ sup[t] = "spawned" => row[t] = "none"
  /\ sup[t] \in {"resuming", "expire", "errclose"} => row[t] = "open"
  /\ sup[t] \in {"monitor", "release"} => row[t] # "none"
  /\ sup[t] = "monitor" /\ ~closed[t] => row[t] = "open"
  /\ stream[t] = "closing" => closed[t] /\ row[t] = "open" /\ tick[t] # "closing"
  /\ tick[t] = "closing" => closed[t] /\ row[t] = "open"

Agreement == \A t \in Trades : Agrees(t)

IInv == TypeOK /\ Untouched /\ Stopped /\ Agreement

-----------------------------------------------------------------------------
(* A trade belongs to one configuration and one mint.                       *)
LEMMA TradeParts ==
  /\ \A t \in Trades : Cfg(t) \in Configs /\ Mint(t) \in Mints
  /\ \A c \in Configs, m \in Mints : /\ <<c, m>> \in Trades
                                     /\ Cfg(<<c, m>>) = c
                                     /\ Mint(<<c, m>>) = m
  /\ \A t \in Trades : t = <<Cfg(t), Mint(t)>>
BY DEF Trades, Cfg, Mint

LEMMA FiniteTrades == IsFiniteSet(Trades)
BY PaperTradeAssumption, FS_Product DEF Trades

(* The inductive invariant, one step per action.                            *)
LEMMA InductiveInit == Init => IInv
BY PaperTradeAssumption, TradeParts
   DEF Init, IInv, TypeOK, Untouched, Stopped, Agreement, Agrees,
       RowStates, SupStates, LoopStates

LEMMA InductiveStep == IInv /\ [Next]_vars => IInv'
<1> SUFFICES ASSUME IInv, [Next]_vars PROVE IInv'
  OBVIOUS
<1> USE PaperTradeAssumption, TradeParts
    DEF IInv, TypeOK, RowStates, ExitReasons, SupStates, LoopStates,
        envVars, loopVars
<1>1. ASSUME NEW m \in Mints, NEW wants \in SUBSET Configs, HandleToken(m, wants)
      PROVE  IInv'
  <2>1. TypeOK'
    BY <1>1 DEF HandleToken
  <2>2. Untouched'
    BY <1>1 DEF HandleToken, Untouched
  <2>3. Stopped' /\ Agreement'
    BY <1>1 DEF HandleToken, Untouched, Stopped, Agreement, Agrees, Before
  <2> QED BY <2>1, <2>2, <2>3
<1>2. ASSUME NEW t \in Trades, OpenTrade(t)
      PROVE  IInv'
  <2>1. TypeOK'
    BY <1>2 DEF OpenTrade, StartLoops
  <2>2. Untouched' /\ Stopped'
    BY <1>2 DEF OpenTrade, StartLoops, Untouched, Stopped
  <2>3. Agreement'
    BY <1>2 DEF OpenTrade, StartLoops, Agreement, Agrees, Before
  <2> QED BY <2>1, <2>2, <2>3
<1>3. ASSUME NEW t \in Trades, ResumeTrade(t)
      PROVE  IInv'
  <2>1. TypeOK'
    BY <1>3 DEF ResumeTrade, StartLoops
  <2>2. Untouched' /\ Stopped'
    BY <1>3 DEF ResumeTrade, StartLoops, Untouched, Stopped
  <2>3. Agreement'
    BY <1>3 DEF ResumeTrade, StartLoops, Agreement, Agrees, Before
  <2> QED BY <2>1, <2>2, <2>3
<1>4. ASSUME NEW t \in Trades, RaiseBeforeTry(t)
      PROVE  IInv'
  <2>1. TypeOK'
    BY <1>4 DEF RaiseBeforeTry
  <2>2. Untouched' /\ Stopped'
    BY <1>4 DEF RaiseBeforeTry, Untouched, Stopped
  <2>3. Agreement'
    BY <1>4 DEF RaiseBeforeTry, Agreement, Agrees, Before
  <2> QED BY <2>1, <2>2, <2>3
<1>5. ASSUME NEW t \in Trades, StreamTake(t)
      PROVE  IInv'
  <2>1. TypeOK'
    BY <1>5 DEF StreamTake
  <2>2. Untouched' /\ Stopped'
    BY <1>5 DEF StreamTake, Untouched, Stopped
  <2>3. Agreement'
    BY <1>5 DEF StreamTake, Agreement, Agrees, Before
  <2> QED BY <2>1, <2>2, <2>3
<1>6. ASSUME NEW t \in Trades, StreamKeep(t)
      PROVE  IInv'
  <2>1. TypeOK'
    BY <1>6 DEF StreamKeep
  <2>2. Untouched' /\ Stopped'
    BY <1>6 DEF StreamKeep, Untouched, Stopped
  <2>3. Agreement'
    BY <1>6 DEF StreamKeep, Agreement, Agrees, Before
  <2> QED BY <2>1, <2>2, <2>3
<1>7. ASSUME NEW t \in Trades, StreamExit(t)
      PROVE  IInv'
  <2>1. TypeOK'
    BY <1>7 DEF StreamExit
  <2>2. Untouched' /\ Stopped'
    BY <1>7 DEF StreamExit, Untouched, Stopped
  <2>3. Agreement'
    BY <1>7 DEF StreamExit, Agreement, Agrees, Before
  <2> QED BY <2>1, <2>2, <2>3
<1>8. ASSUME NEW t \in Trades, StreamRaise(t)
      PROVE  IInv'
  <2>1. TypeOK'
    BY <1>8 DEF StreamRaise
  <2>2. Untouched' /\ Stopped'
    BY <1>8 DEF StreamRaise, Untouched, Stopped
  <2>3. Agreement'
    BY <1>8 DEF StreamRaise, Agreement, Agrees, Before
  <2> QED BY <2>1, <2>2, <2>3
<1>9. ASSUME NEW t \in Trades, StreamClose(t)
      PROVE  IInv'
  <2>1. TypeOK'
    BY <1>9 DEF StreamClose
  <2>2. Untouched' /\ Stopped'
    BY <1>9 DEF StreamClose, Untouched, Stopped
  <2>3. Agreement'
    BY <1>9 DEF StreamClose, Agreement, Agrees, Before
  <2> QED BY <2>1, <2>2, <2>3
<1>10. ASSUME NEW t \in Trades, StreamEnd(t)
      PROVE  IInv'
  <2>1. TypeOK'
    BY <1>10 DEF StreamEnd
  <2>2. Untouched' /\ Stopped'
    BY <1>10 DEF StreamEnd, Untouched, Stopped
  <2>3. Agreement'
    BY <1>10 DEF StreamEnd, Agreement, Agrees, Before
  <2> QED BY <2>1, <2>2, <2>3
<1>11. ASSUME NEW t \in Trades, TickFindsClosed(t)
      PROVE  IInv'
  <2>1. TypeOK'
    BY <1>11 DEF TickFindsClosed
  <2>2. Untouched' /\ Stopped'
    BY <1>11 DEF TickFindsClosed, Untouched, Stopped
  <2>3. Agreement'
    BY <1>11 DEF TickFindsClosed, Agreement, Agrees, Before
  <2> QED BY <2>1, <2>2, <2>3
<1>12. ASSUME NEW t \in Trades, TickExit(t)
      PROVE  IInv'
  <2>1. TypeOK'
    BY <1>12 DEF TickExit
  <2>2. Untouched' /\ Stopped'
    BY <1>12 DEF TickExit, Untouched, Stopped
  <2>3. Agreement'
    BY <1>12 DEF TickExit, Agreement, Agrees, Before
  <2> QED BY <2>1, <2>2, <2>3
<1>13. ASSUME NEW t \in Trades, TickClose(t)
      PROVE  IInv'
  <2>1. TypeOK'
    BY <1>13 DEF TickClose
  <2>2. Untouched' /\ Stopped'
    BY <1>13 DEF TickClose, Untouched, Stopped
  <2>3. Agreement'
    BY <1>13 DEF TickClose, Agreement, Agrees, Before
  <2> QED BY <2>1, <2>2, <2>3
<1>14. ASSUME NEW t \in Trades, TickRaise(t)
      PROVE  IInv'
  <2>1. TypeOK'
    BY <1>14 DEF TickRaise
  <2>2. Untouched' /\ Stopped'
    BY <1>14 DEF TickRaise, Untouched, Stopped
  <2>3. Agreement'
    BY <1>14 DEF TickRaise, Agreement, Agrees, Before
  <2> QED BY <2>1, <2>2, <2>3
<1>15. ASSUME NEW t \in Trades, Reap(t)
      PROVE  IInv'
  <2>1. TypeOK'
    BY <1>15 DEF Reap, Cancel, Finished, InFlight
  <2>2. Untouched' /\ Stopped'
    BY <1>15 DEF Reap, Cancel, Finished, InFlight, Untouched, Stopped
  <2>3. Agreement'
    BY <1>15 DEF Reap, Cancel, Finished, InFlight, Agreement, Agrees, Before
  <2> QED BY <2>1, <2>2, <2>3
<1>16. ASSUME NEW t \in Trades, Expire(t)
      PROVE  IInv'
  <2>1. TypeOK'
    BY <1>16 DEF Expire
  <2>2. Untouched' /\ Stopped'
    BY <1>16 DEF Expire, Untouched, Stopped
  <2>3. Agreement'
    BY <1>16 DEF Expire, Agreement, Agrees, Before
  <2> QED BY <2>1, <2>2, <2>3
<1>17. ASSUME NEW t \in Trades, ErrorClose(t)
      PROVE  IInv'
  <2>1. TypeOK'
    BY <1>17 DEF ErrorClose
  <2>2. Untouched' /\ Stopped'
    BY <1>17 DEF ErrorClose, Untouched, Stopped
  <2>3. Agreement'
    BY <1>17 DEF ErrorClose, Agreement, Agrees, Before
  <2> QED BY <2>1, <2>2, <2>3
<1>18. ASSUME NEW t \in Trades, FinalCloseFails(t)
      PROVE  IInv'
  <2>1. TypeOK'
    BY <1>18 DEF FinalCloseFails
  <2>2. Untouched' /\ Stopped'
    BY <1>18 DEF FinalCloseFails, Untouched, Stopped
  <2>3. Agreement'
    BY <1>18 DEF FinalCloseFails, Agreement, Agrees, Before
  <2> QED BY <2>1, <2>2, <2>3
<1>19. ASSUME NEW t \in Trades, Release(t)
      PROVE  IInv'
  <2>1. TypeOK'
    BY <1>19 DEF Release
  <2>2. Untouched' /\ Stopped'
    BY <1>19 DEF Release, Untouched, Stopped
  <2>3. Agreement'
    BY <1>19 DEF Release, Agreement, Agrees, Before
  <2> QED BY <2>1, <2>2, <2>3
<1>20. ASSUME NEW t \in Trades, Unsubscribe(t)
      PROVE  IInv'
  <2>1. TypeOK'
    BY <1>20 DEF Unsubscribe
  <2>2. Untouched' /\ Stopped'
    BY <1>20 DEF Unsubscribe, Untouched, Stopped
  <2>3. Agreement'
    BY <1>20 DEF Unsubscribe, Agreement, Agrees, Before
  <2> QED BY <2>1, <2>2, <2>3
<1>21. CASE Crash
  <2>1. TypeOK'
    BY <1>21 DEF Crash
  <2>2. Untouched' /\ Stopped'
    BY <1>21 DEF Crash, Untouched, Stopped
  <2>3. Agreement'
    BY <1>21 DEF Crash, Agreement, Agrees, Before
  <2> QED BY <2>1, <2>2, <2>3
<1>22. CASE Resume
  <2>1. \A c \in Configs : OpenRows(c) \in SUBSET Trades
    BY DEF OpenRows
  <2>2. \A c \in Configs : Cardinality(OpenRows(c)) \in Nat
    BY <2>1, FiniteTrades, FS_Subset, FS_CardinalityType
  <2>3. TypeOK'
    BY <1>22, <2>2 DEF Resume
  <2>4. Untouched' /\ Stopped'
    BY <1>22 DEF Resume, Untouched, Stopped
  <2>5. Agreement'
    BY <1>22 DEF Resume, Agreement, Agrees, Before, Stopped
  <2> QED BY <2>3, <2>4, <2>5
<1>23. CASE UNCHANGED vars
  BY <1>23 DEF vars, Untouched, Stopped, Agreement, Agrees
<1> QED
  BY <1>1, <1>2, <1>3, <1>4, <1>5, <1>6, <1>7, <1>8, <1>9, <1>10, <1>11, <1>12, <1>13, <1>14, <1>15, <1>16, <1>17, <1>18, <1>19, <1>20, <1>21, <1>22, <1>23
     DEF Next, Handle, StreamStep, TickStep, RunStep

LEMMA Inductive == Spec => []IInv
BY InductiveInit, InductiveStep, PTL DEF Spec

(* The variables of PaperTrade keep their types.                            *)
THEOREM TypeCorrect == Spec => []TypeOK
<1>1. IInv => TypeOK
  BY DEF IInv
<1> QED BY <1>1, Inductive, PTL

(* A trade is closed by one party at a time and only while its row is open, *)
(* whatever the interleaving of the loops, failures and restarts.           *)
THEOREM ClosedOnce == Spec => []CloseOnce
<1>1. IInv => CloseOnce
  BY DEF IInv, Agreement, Agrees, CloseOnce, InFlight
<1> QED BY <1>1, Inductive, PTL

-----------------------------------------------------------------------------
(* Slot accounting.  A step that moves no supervisor across the reservation *)
(* or the finally block changes neither side of the equation.               *)
LEMMA HoldersFinite == ASSUME NEW c \in Configs
                       PROVE  IsFiniteSet(Holders(c)) /\ Cardinality(Holders(c)) \in Nat
BY FiniteTrades, FS_Subset, FS_CardinalityType DEF Holders

SameHolders == /\ slots' = slots
               /\ \A t \in Trades : (sup'[t] \in Holding) = (sup[t] \in Holding)

LEMMA QuietStep == ASSUME SlotAccounting, SameHolders PROVE SlotAccounting'
<1>1. \A c \in Configs : Holders(c)' = Holders(c)
  BY DEF Holders, SameHolders
<1> QED BY <1>1 DEF SlotAccounting, SameHolders

LEMMA QuietActions ==
  ASSUME IInv, NEW t \in Trades,
         StreamStep(t) \/ TickStep(t) \/ (RunStep(t) /\ ~Release(t))
  PROVE  SameHolders
<1> USE DEF IInv, TypeOK, SameHolders, Holding, envVars, loopVars
<1>1. CASE OpenTrade(t)
  BY <1>1 DEF OpenTrade, StartLoops
<1>2. CASE ResumeTrade(t)
  BY <1>2 DEF ResumeTrade, StartLoops
<1>3. CASE RaiseBeforeTry(t)
  BY <1>3 DEF RaiseBeforeTry
<1>4. CASE StreamTake(t)
  BY <1>4 DEF StreamTake
<1>5. CASE StreamKeep(t)
  BY <1>5 DEF StreamKeep
<1>6. CASE StreamExit(t)
  BY <1>6 DEF StreamExit
<1>7. CASE StreamRaise(t)
  BY <1>7 DEF StreamRaise
<1>8. CASE StreamClose(t)
  BY <1>8 DEF StreamClose
<1>9. CASE StreamEnd(t)
  BY <1>9 DEF StreamEnd
<1>10. CASE TickFindsClosed(t)
  BY <1>10 DEF TickFindsClosed
<1>11. CASE TickExit(t)
  BY <1>11 DEF TickExit
<1>12. CASE TickClose(t)
  BY <1>12 DEF TickClose
<1>13. CASE TickRaise(t)
  BY <1>13 DEF TickRaise
<1>14. CASE Reap(t)
  BY <1>14 DEF Reap, Cancel, Finished, InFlight
<1>15. CASE Expire(t)
  BY <1>15 DEF Expire
<1>16. CASE ErrorClose(t)
  BY <1>16 DEF ErrorClose
<1>17. CASE FinalCloseFails(t)
  BY <1>17 DEF FinalCloseFails
<1>18. CASE Unsubscribe(t)
  BY <1>18 DEF Unsubscribe
<1> QED BY <1>1, <1>2, <1>3, <1>4, <1>5, <1>6, <1>7, <1>8, <1>9, <1>10, <1>11, <1>12, <1>13, <1>14, <1>15, <1>16, <1>17, <1>18 DEF StreamStep, TickStep, RunStep

LEMMA AccountingInit == Init => SlotAccounting
<1> SUFFICES ASSUME Init PROVE SlotAccounting
  OBVIOUS
<1>1. \A c \in Configs : Holders(c) = {}
  BY DEF Init, Holders, Holding
<1> QED BY <1>1, FS_EmptySet DEF Init, SlotAccounting

LEMMA AccountingStep == IInv /\ SlotAccounting /\ [Next]_vars => SlotAccounting'
<1> SUFFICES ASSUME IInv, SlotAccounting, [Next]_vars PROVE SlotAccounting'
  OBVIOUS
<1> USE TradeParts DEF IInv, TypeOK
<1>1. ASSUME NEW m \in Mints, NEW wants \in SUBSET Configs, HandleToken(m, wants)
      PROVE  SlotAccounting'
  <2> SUFFICES ASSUME NEW c \in Configs
               PROVE  slots'[c] = Cardinality(Holders(c)')
    BY DEF SlotAccounting
  <2> DEFINE reserved == {d \in wants : slots[d] < Cap}
  <2>1. slots'[c] = IF c \in reserved THEN slots[c] + 1 ELSE slots[c]
    BY <1>1 DEF HandleToken
  <2>2. \A t \in Trades : sup'[t] = IF Mint(t) = m /\ Cfg(t) \in reserved
                                     THEN "spawned" ELSE sup[t]
    BY <1>1 DEF HandleToken
  <2>3. \A t \in Trades : Mint(t) = m => sup[t] = "idle"
    BY <1>1 DEF HandleToken, Untouched
  <2>4. CASE c \in reserved
    <3>1. <<c, m>> \notin Holders(c)
      BY <2>3 DEF Holders, Holding
    <3>2. Holders(c)' = Holders(c) \cup {<<c, m>>}
      BY <2>2, <2>3, <2>4 DEF Holders, Holding
    <3>3. IsFiniteSet(Holders(c))
      BY HoldersFinite
    <3>4. Cardinality(Holders(c) \cup {<<c, m>>}) = Cardinality(Holders(c)) + 1
      BY <3>1, <3>3, FS_AddElement
    <3> HIDE DEF reserved
    <3> QED BY <2>1, <2>4, <3>2, <3>4 DEF SlotAccounting
  <2>5. CASE c \notin reserved
    <3>1. Holders(c)' = Holders(c)
      BY <2>2, <2>5 DEF Holders
    <3> QED BY <2>1, <2>5, <3>1 DEF SlotAccounting
  <2> QED BY <2>4, <2>5
<1>2. ASSUME NEW t \in Trades, Release(t)
      PROVE  SlotAccounting'
  <2>1. t \in Holders(Cfg(t))
    BY <1>2 DEF Release, Holders, Holding
  <2>2. slots[Cfg(t)] = Cardinality(Holders(Cfg(t))) /\ slots[Cfg(t)] > 0
    <3>1. Cardinality(Holders(Cfg(t))) # 0
      BY <2>1, HoldersFinite, FS_EmptySet
    <3> QED BY <3>1, HoldersFinite DEF SlotAccounting
  <2>3. Holders(Cfg(t))' = Holders(Cfg(t)) \ {t}
    BY <1>2 DEF Release, Holders, Holding
  <2>4. Cardinality(Holders(Cfg(t))') = Cardinality(Holders(Cfg(t))) - 1
    <3> DEFINE H == Holders(Cfg(t))
    <3>1. IsFiniteSet(H) /\ t \in H
      BY <2>1, HoldersFinite
    <3> HIDE DEF H
    <3>2. Cardinality(H \ {t}) = Cardinality(H) - 1
      BY <3>1, FS_RemoveElement
    <3> QED BY <2>3, <3>2 DEF H
  <2>5. slots'[Cfg(t)] = slots[Cfg(t)] - 1
    BY <1>2, <2>2 DEF Release
  <2>6. ASSUME NEW c \in Configs, c # Cfg(t)
        PROVE  slots'[c] = slots[c] /\ Holders(c)' = Holders(c)
    BY <1>2, <2>6 DEF Release, Holders
  <2> QED BY <2>2, <2>4, <2>5, <2>6 DEF SlotAccounting
<1>3. ASSUME NEW t \in Trades,
             StreamStep(t) \/ TickStep(t) \/ (RunStep(t) /\ ~Release(t))
      PROVE  SlotAccounting'
  BY <1>3, QuietActions, QuietStep
<1>4. CASE Crash
  <2>1. \A c \in Configs : Holders(c)' = {}
    BY <1>4 DEF Crash, Holders, Holding
  <2> QED BY <1>4, <2>1, FS_EmptySet DEF Crash, SlotAccounting
<1>5. CASE Resume
  <2>1. \A c \in Configs : Holders(c)' = OpenRows(c)
    BY <1>5 DEF Resume, Holders, OpenRows, Holding
  <2> QED BY <1>5, <2>1 DEF Resume, SlotAccounting
<1>6. CASE UNCHANGED vars
  <2>1. SameHolders
    BY <1>6 DEF vars, SameHolders
  <2> QED BY <2>1, QuietStep
<1> QED BY <1>1, <1>2, <1>3, <1>4, <1>5, <1>6 DEF Next, Handle

(* The slot counters never drift from the supervisors that hold them.       *)
THEOREM SlotsAccounted == Spec => []SlotAccounting
BY AccountingInit, AccountingStep, Inductive, PTL DEF Spec

(* No portfolio grows beyond its cap, or beyond what a restart found open.  *)
THEOREM SlotsBounded == Spec => []SlotBound
<1>1. Init => SlotBound
  BY PaperTradeAssumption DEF Init, SlotBound
<1>2. IInv /\ SlotBound /\ [Next]_vars => SlotBound'
  <2> SUFFICES ASSUME IInv, SlotBound, [Next]_vars PROVE SlotBound'
    OBVIOUS
  <2> USE PaperTradeAssumption, TradeParts DEF IInv, TypeOK, SlotBound
  <2>1. ASSUME NEW m \in Mints, NEW wants \in SUBSET Configs, HandleToken(m, wants)
        PROVE  SlotBound'
    BY <2>1 DEF HandleToken
  <2>2. ASSUME NEW t \in Trades, Release(t) PROVE SlotBound'
    BY <2>2 DEF Release, envVars
  <2>3. ASSUME NEW t \in Trades,
               StreamStep(t) \/ TickStep(t) \/ (RunStep(t) /\ ~Release(t))
        PROVE  SlotBound'
    <3>1. slots' = slots
      BY <2>3, QuietActions DEF SameHolders
    <3>2. seeded' = seeded
      BY <2>3 DEF StreamStep, TickStep, RunStep, OpenTrade, ResumeTrade, RaiseBeforeTry, StreamTake, StreamKeep, StreamExit, StreamRaise, StreamClose, StreamEnd, TickFindsClosed, TickExit, TickClose, TickRaise, Reap, Expire, ErrorClose, FinalCloseFails, Unsubscribe, envVars
    <3> QED BY <3>1, <3>2
  <2>4. CASE Crash
    BY <2>4 DEF Crash
  <2>5. CASE Resume
    <3>1. \A c \in Configs : OpenRows(c) \in SUBSET Trades
      BY DEF OpenRows
    <3>2. \A c \in Configs : Cardinality(OpenRows(c)) \in Nat
      BY <3>1, FiniteTrades, FS_Subset, FS_CardinalityType
    <3> QED BY <2>5, <3>2 DEF Resume
  <2>6. CASE UNCHANGED vars
    BY <2>6 DEF vars
  <2> QED BY <2>1, <2>2, <2>3, <2>4, <2>5, <2>6 DEF Next, Handle
<1> QED BY <1>1, <1>2, Inductive, PTL DEF Spec

-----------------------------------------------------------------------------
(* With a tick loop, a trade expires only after its stream ran out: the     *)
(* tick loop never returns, or raises, before a close is claimed.           *)
TickStops == \A t \in Trades :
  sup[t] = "monitor" /\ tick[t] \in {"returned", "raised"} => closed[t]

(* No trade expires before its stream ran out (HonestExpiry), if the tick     *)
(* loop of the supervisor runs.                                              *)
THEOREM ExpiryIsHonest == ASSUME TickEnabled = TRUE PROVE Spec => []HonestExpiry
<1> DEFINE J == TickStops /\ HonestExpiry
<1>1. Init => J
  BY DEF Init, TickStops, HonestExpiry
<1>2. IInv /\ J /\ [Next]_vars => J'
  <2> SUFFICES ASSUME IInv, TickStops, HonestExpiry, [Next]_vars
               PROVE  TickStops' /\ HonestExpiry'
    OBVIOUS
  <2> USE DEF IInv, TypeOK, TickStops, HonestExpiry, envVars, loopVars
  <2>1. ASSUME NEW m \in Mints, NEW wants \in SUBSET Configs, HandleToken(m, wants)
        PROVE  TickStops' /\ HonestExpiry'
    BY <2>1 DEF HandleToken
  <2>2. ASSUME NEW t \in Trades, OpenTrade(t)
        PROVE  TickStops' /\ HonestExpiry'
    BY <2>2 DEF OpenTrade, StartLoops
  <2>3. ASSUME NEW t \in Trades, ResumeTrade(t)
        PROVE  TickStops' /\ HonestExpiry'
    BY <2>3 DEF ResumeTrade, StartLoops
  <2>4. ASSUME NEW t \in Trades, RaiseBeforeTry(t)
        PROVE  TickStops' /\ HonestExpiry'
    BY <2>4 DEF RaiseBeforeTry
  <2>5. ASSUME NEW t \in Trades, StreamTake(t)
        PROVE  TickStops' /\ HonestExpiry'
    BY <2>5 DEF StreamTake
  <2>6. ASSUME NEW t \in Trades, StreamKeep(t)
        PROVE  TickStops' /\ HonestExpiry'
    BY <2>6 DEF StreamKeep
  <2>7. ASSUME NEW t \in Trades, StreamExit(t)
        PROVE  TickStops' /\ HonestExpiry'
    BY <2>7 DEF StreamExit
  <2>8. ASSUME NEW t \in Trades, StreamRaise(t)
        PROVE  TickStops' /\ HonestExpiry'
    BY <2>8 DEF StreamRaise
  <2>9. ASSUME NEW t \in Trades, StreamClose(t)
        PROVE  TickStops' /\ HonestExpiry'
    BY <2>9 DEF StreamClose
  <2>10. ASSUME NEW t \in Trades, StreamEnd(t)
        PROVE  TickStops' /\ HonestExpiry'
    BY <2>10 DEF StreamEnd
  <2>11. ASSUME NEW t \in Trades, TickFindsClosed(t)
        PROVE  TickStops' /\ HonestExpiry'
    BY <2>11 DEF TickFindsClosed
  <2>12. ASSUME NEW t \in Trades, TickExit(t)
        PROVE  TickStops' /\ HonestExpiry'
    BY <2>12 DEF TickExit
  <2>13. ASSUME NEW t \in Trades, TickClose(t)
        PROVE  TickStops' /\ HonestExpiry'
    BY <2>13 DEF TickClose, Agreement, Agrees
  <2>14. ASSUME NEW t \in Trades, TickRaise(t)
        PROVE  TickStops' /\ HonestExpiry'
    BY <2>14 DEF TickRaise, Agreement, Agrees
  <2>15. ASSUME NEW t \in Trades, Reap(t)
        PROVE  TickStops' /\ HonestExpiry'
    BY <2>15 DEF Reap, Cancel, Finished, InFlight
  <2>16. ASSUME NEW t \in Trades, Expire(t)
        PROVE  TickStops' /\ HonestExpiry'
    BY <2>16 DEF Expire
  <2>17. ASSUME NEW t \in Trades, ErrorClose(t)
        PROVE  TickStops' /\ HonestExpiry'
    BY <2>17 DEF ErrorClose
  <2>18. ASSUME NEW t \in Trades, FinalCloseFails(t)
        PROVE  TickStops' /\ HonestExpiry'
    BY <2>18 DEF FinalCloseFails
  <2>19. ASSUME NEW t \in Trades, Release(t)
        PROVE  TickStops' /\ HonestExpiry'
    BY <2>19 DEF Release
  <2>20. ASSUME NEW t \in Trades, Unsubscribe(t)
        PROVE  TickStops' /\ HonestExpiry'
    BY <2>20 DEF Unsubscribe
  <2>21. CASE Crash
    BY <2>21 DEF Crash
  <2>22. CASE Resume
    BY <2>22 DEF Resume
  <2>23. CASE UNCHANGED vars
    BY <2>23 DEF vars
  <2> QED
    BY <2>1, <2>2, <2>3, <2>4, <2>5, <2>6, <2>7, <2>8, <2>9, <2>10, <2>11, <2>12, <2>13, <2>14, <2>15, <2>16, <2>17, <2>18, <2>19, <2>20, <2>21, <2>22, <2>23
       DEF Next, Handle, StreamStep, TickStep, RunStep
<1>3. J => HonestExpiry
  OBVIOUS
<1> HIDE DEF J
<1> QED BY <1>1, <1>2, <1>3, Inductive, PTL DEF Spec

-----------------------------------------------------------------------------
(* While statements succeed an open row is in somebody's hands: whoever     *)
(* leaves it has closed it, or found that a loop claimed the close.         *)
THEOREM OwnersStay == ASSUME DbMayFail = FALSE PROVE Spec => []OpenRowHasOwner
<1>1. Init => OpenRowHasOwner
  BY DEF Init, OpenRowHasOwner
<1>2. IInv /\ OpenRowHasOwner /\ [Next]_vars => OpenRowHasOwner'
  <2> SUFFICES ASSUME IInv, OpenRowHasOwner, [Next]_vars PROVE OpenRowHasOwner'
    OBVIOUS
  <2> USE DEF IInv, TypeOK, OpenRowHasOwner, Managing, envVars, loopVars
  <2>1. ASSUME NEW m \in Mints, NEW wants \in SUBSET Configs, HandleToken(m, wants)
        PROVE  OpenRowHasOwner'
    BY <2>1 DEF HandleToken, Untouched
  <2>2. ASSUME NEW t \in Trades, OpenTrade(t)
        PROVE  OpenRowHasOwner'
    BY <2>2 DEF OpenTrade, StartLoops
  <2>3. ASSUME NEW t \in Trades, ResumeTrade(t)
        PROVE  OpenRowHasOwner'
    BY <2>3 DEF ResumeTrade, StartLoops
  <2>4. ASSUME NEW t \in Trades, RaiseBeforeTry(t)
        PROVE  OpenRowHasOwner'
    BY <2>4 DEF RaiseBeforeTry
  <2>5. ASSUME NEW t \in Trades, StreamTake(t)
        PROVE  OpenRowHasOwner'
    BY <2>5 DEF StreamTake
  <2>6. ASSUME NEW t \in Trades, StreamKeep(t)
        PROVE  OpenRowHasOwner'
    BY <2>6 DEF StreamKeep
  <2>7. ASSUME NEW t \in Trades, StreamExit(t)
        PROVE  OpenRowHasOwner'
    BY <2>7 DEF StreamExit
  <2>8. ASSUME NEW t \in Trades, StreamRaise(t)
        PROVE  OpenRowHasOwner'
    BY <2>8 DEF StreamRaise
  <2>9. ASSUME NEW t \in Trades, StreamClose(t)
        PROVE  OpenRowHasOwner'
    BY <2>9 DEF StreamClose
  <2>10. ASSUME NEW t \in Trades, StreamEnd(t)
        PROVE  OpenRowHasOwner'
    BY <2>10 DEF StreamEnd
  <2>11. ASSUME NEW t \in Trades, TickFindsClosed(t)
        PROVE  OpenRowHasOwner'
    BY <2>11 DEF TickFindsClosed
  <2>12. ASSUME NEW t \in Trades, TickExit(t)
        PROVE  OpenRowHasOwner'
    BY <2>12 DEF TickExit
  <2>13. ASSUME NEW t \in Trades, TickClose(t)
        PROVE  OpenRowHasOwner'
    BY <2>13 DEF TickClose
  <2>14. ASSUME NEW t \in Trades, TickRaise(t)
        PROVE  OpenRowHasOwner'
    BY <2>14 DEF TickRaise
  <2>15. ASSUME NEW t \in Trades, Reap(t)
        PROVE  OpenRowHasOwner'
    BY <2>15 DEF Reap, Cancel, Finished, InFlight
  <2>16. ASSUME NEW t \in Trades, Expire(t)
        PROVE  OpenRowHasOwner'
    BY <2>16 DEF Expire
  <2>17. ASSUME NEW t \in Trades, ErrorClose(t)
        PROVE  OpenRowHasOwner'
    BY <2>17 DEF ErrorClose
  <2>18. ASSUME NEW t \in Trades, FinalCloseFails(t)
        PROVE  OpenRowHasOwner'
    BY <2>18 DEF FinalCloseFails
  <2>19. ASSUME NEW t \in Trades, Release(t)
        PROVE  OpenRowHasOwner'
    BY <2>19 DEF Release
  <2>20. ASSUME NEW t \in Trades, Unsubscribe(t)
        PROVE  OpenRowHasOwner'
    BY <2>20 DEF Unsubscribe
  <2>21. CASE Crash
    BY <2>21 DEF Crash
  <2>22. CASE Resume
    BY <2>22 DEF Resume
  <2>23. CASE UNCHANGED vars
    BY <2>23 DEF vars
  <2> QED
    BY <2>1, <2>2, <2>3, <2>4, <2>5, <2>6, <2>7, <2>8, <2>9, <2>10, <2>11, <2>12, <2>13, <2>14, <2>15, <2>16, <2>17, <2>18, <2>19, <2>20, <2>21, <2>22, <2>23
       DEF Next, Handle, StreamStep, TickStep, RunStep
<1> QED BY <1>1, <1>2, Inductive, PTL DEF Spec

(* The same of a trade that is being judged: it may be kept, and waits on.   *)
Starved ==
  \A t \in Trades : sup[t] = "monitor" /\ stream[t] \in {"wait", "handle"} /\ ~held[t]
    => \E u \in Trades \ {t} : Mint(u) = Mint(t) /\ sup[u] = "done"

(* A trade waits in vain only where a sibling has unsubscribed the mint:    *)
(* its own supervisor found the queue, or put it there.                     *)
THEOREM OnlySiblingsStarve == Spec => []StarvedBySibling
<1>1. Init => Starved
  BY DEF Init, Starved
<1>2. IInv /\ Starved /\ [Next]_vars => Starved'
  <2> SUFFICES ASSUME IInv, Starved, [Next]_vars PROVE Starved'
    OBVIOUS
  <2> USE DEF IInv, TypeOK, Starved, envVars, loopVars
  <2>1. ASSUME NEW m \in Mints, NEW wants \in SUBSET Configs, HandleToken(m, wants)
        PROVE  Starved'
    BY <2>1 DEF HandleToken, Untouched
  <2>2. ASSUME NEW t \in Trades, OpenTrade(t)
        PROVE  Starved'
    BY <2>2 DEF OpenTrade, StartLoops
  <2>3. ASSUME NEW t \in Trades, ResumeTrade(t)
        PROVE  Starved'
    BY <2>3 DEF ResumeTrade, StartLoops
  <2>4. ASSUME NEW t \in Trades, RaiseBeforeTry(t)
        PROVE  Starved'
    BY <2>4 DEF RaiseBeforeTry
  <2>5. ASSUME NEW t \in Trades, StreamTake(t)
        PROVE  Starved'
    BY <2>5 DEF StreamTake
  <2>6. ASSUME NEW t \in Trades, StreamKeep(t)
        PROVE  Starved'
    BY <2>6 DEF StreamKeep
  <2>7. ASSUME NEW t \in Trades, StreamExit(t)
        PROVE  Starved'
    BY <2>7 DEF StreamExit
  <2>8. ASSUME NEW t \in Trades, StreamRaise(t)
        PROVE  Starved'
    BY <2>8 DEF StreamRaise
  <2>9. ASSUME NEW t \in Trades, StreamClose(t)
        PROVE  Starved'
    BY <2>9 DEF StreamClose
  <2>10. ASSUME NEW t \in Trades, StreamEnd(t)
        PROVE  Starved'
    BY <2>10 DEF StreamEnd
  <2>11. ASSUME NEW t \in Trades, TickFindsClosed(t)
        PROVE  Starved'
    BY <2>11 DEF TickFindsClosed
  <2>12. ASSUME NEW t \in Trades, TickExit(t)
        PROVE  Starved'
    BY <2>12 DEF TickExit
  <2>13. ASSUME NEW t \in Trades, TickClose(t)
        PROVE  Starved'
    BY <2>13 DEF TickClose
  <2>14. ASSUME NEW t \in Trades, TickRaise(t)
        PROVE  Starved'
    BY <2>14 DEF TickRaise
  <2>15. ASSUME NEW t \in Trades, Reap(t)
        PROVE  Starved'
    BY <2>15 DEF Reap, Cancel, Finished, InFlight
  <2>16. ASSUME NEW t \in Trades, Expire(t)
        PROVE  Starved'
    BY <2>16 DEF Expire
  <2>17. ASSUME NEW t \in Trades, ErrorClose(t)
        PROVE  Starved'
    BY <2>17 DEF ErrorClose
  <2>18. ASSUME NEW t \in Trades, FinalCloseFails(t)
        PROVE  Starved'
    BY <2>18 DEF FinalCloseFails
  <2>19. ASSUME NEW t \in Trades, Release(t)
        PROVE  Starved'
    BY <2>19 DEF Release
  <2>20. ASSUME NEW t \in Trades, Unsubscribe(t)
        PROVE  Starved'
    BY <2>20 DEF Unsubscribe
  <2>21. CASE Crash
    BY <2>21 DEF Crash
  <2>22. CASE Resume
    BY <2>22 DEF Resume, Stopped
  <2>23. CASE UNCHANGED vars
    BY <2>23 DEF vars
  <2> QED
    BY <2>1, <2>2, <2>3, <2>4, <2>5, <2>6, <2>7, <2>8, <2>9, <2>10, <2>11, <2>12, <2>13, <2>14, <2>15, <2>16, <2>17, <2>18, <2>19, <2>20, <2>21, <2>22, <2>23
       DEF Next, Handle, StreamStep, TickStep, RunStep
<1>3. Starved => StarvedBySibling
  BY DEF Starved, StarvedBySibling
<1> QED BY <1>1, <1>2, <1>3, Inductive, PTL DEF Spec

-----------------------------------------------------------------------------
(* Refinement.  Every step of the detailed system is a step of the book, or *)
(* leaves the book unchanged.                                               *)
BookStutters == HeldTrades' = HeldTrades /\ Recorded' = Recorded

(* The book counts with the same Cardinality.                               *)
LEMMA SameCount == \A S : Book!Cardinality(S) = Cardinality(S)
BY DEF Book!Cardinality, Cardinality

LEMMA BookInit == Init => Book!Init
BY DEF Init, Book!Init, Book!Positions, HeldTrades, Holding, Recorded, ExitReasons, Trades

(* Closing the row of a supervisor that holds a slot.                       *)
LEMMA BookClose ==
  ASSUME IInv, NEW t \in Trades, NEW r \in ExitReasons,
         row[t] = "open", row' = [row EXCEPT ![t] = r],
         sup[t] \in Holding, \A u \in Trades : (sup'[u] \in Holding) = (sup[u] \in Holding)
  PROVE  Book!Close(t)
<1>1. HeldTrades' = HeldTrades /\ t \in HeldTrades
  BY DEF HeldTrades
<1>2. Recorded[t] = "open"
  BY DEF Recorded, ExitReasons
<1>3. Recorded' = [Recorded EXCEPT ![t] = "closed"]
  BY DEF Recorded, IInv, TypeOK
<1> QED BY <1>1, <1>2, <1>3 DEF Book!Close

LEMMA BookStutter ==
  ASSUME IInv, row' = row,
         \A u \in Trades : (sup'[u] \in Holding) = (sup[u] \in Holding)
  PROVE  BookStutters
BY DEF BookStutters, HeldTrades, Recorded

LEMMA BookStep ==
  IInv /\ SlotAccounting /\ [Next]_vars => [Book!Next]_<<HeldTrades, Recorded>>
<1> SUFFICES ASSUME IInv, SlotAccounting, [Next]_vars
             PROVE  Book!Next \/ BookStutters
  BY DEF BookStutters
<1> USE DEF envVars, loopVars
<1> TypeOK
  BY DEF IInv
<1>1. ASSUME NEW m \in Mints, NEW wants \in SUBSET Configs, HandleToken(m, wants)
      PROVE  Book!Next \/ BookStutters
  <2> DEFINE reserved == {c \in wants : slots[c] < Cap}
  <2>1. reserved \in SUBSET Configs /\ row' = row
    BY <1>1 DEF HandleToken
  <2>2. \A t \in Trades : sup'[t] = IF Mint(t) = m /\ Cfg(t) \in reserved
                                     THEN "spawned" ELSE sup[t]
    BY <1>1 DEF HandleToken
  <2>3. \A t \in Trades : Mint(t) = m => sup[t] = "idle" /\ row[t] = "none"
    BY <1>1 DEF HandleToken, IInv, Untouched
  <2>4. \A c \in reserved : slots[c] < Cap
    OBVIOUS
  <2> HIDE DEF reserved
  <2>5. CASE reserved = {}
    <3>1. \A u \in Trades : (sup'[u] \in Holding) = (sup[u] \in Holding)
      BY <2>2, <2>5
    <3> QED BY <2>1, <3>1, BookStutter
  <2>6. CASE reserved # {}
    <3>1. \A c \in Configs : Book!HeldBy(c) = Holders(c)
      BY DEF Book!HeldBy, HeldTrades, Holders, Cfg
    <3>2. \A c \in reserved : Book!Cardinality(Book!HeldBy(c)) < Cap
      BY <2>1, <2>4, <3>1, SameCount DEF SlotAccounting
    <3>3. \A c \in reserved : <<c, m>> \notin HeldTrades /\ Recorded[<<c, m>>] = "none"
      BY <2>1, <2>3, TradeParts DEF HeldTrades, Holding, Recorded, ExitReasons
    <3>4. HeldTrades' = HeldTrades \cup (reserved \X {m})
      <4>1. \A t \in Trades : t \in reserved \X {m} <=> Mint(t) = m /\ Cfg(t) \in reserved
        BY TradeParts DEF Mint, Cfg
      <4>2. reserved \X {m} \in SUBSET Trades
        BY <2>1 DEF Trades
      <4>3. "spawned" \in Holding
        BY DEF Holding
      <4> QED BY <2>2, <4>1, <4>2, <4>3 DEF HeldTrades
    <3>5. Recorded' = Recorded
      BY <2>1 DEF Recorded
    <3>6. Book!Acquire(m, reserved)
      <4> DEFINE added == reserved \X {m}
      <4>1. HeldTrades' = HeldTrades \cup added
        BY <3>4
      <4> HIDE DEF added
      <4> SUFFICES HeldTrades' = HeldTrades \cup (reserved \X {m})
        BY <2>6, <3>2, <3>3, <3>5, Zenon DEF Book!Acquire
      <4> QED BY <4>1 DEF added
    <3> QED BY <2>1, <3>6 DEF Book!Next
  <2> QED BY <2>5, <2>6
<1>2. ASSUME NEW t \in Trades, ResumeTrade(t)
      PROVE  Book!Next \/ BookStutters
  <2>1. row' = row
    BY <1>2 DEF ResumeTrade, StartLoops
  <2>2. \A u \in Trades : (sup'[u] \in Holding) = (sup[u] \in Holding)
    BY <1>2 DEF ResumeTrade, StartLoops, TypeOK, Holding
  <2> QED BY <2>1, <2>2, BookStutter
<1>3. ASSUME NEW t \in Trades, RaiseBeforeTry(t)
      PROVE  Book!Next \/ BookStutters
  <2>1. row' = row
    BY <1>3 DEF RaiseBeforeTry
  <2>2. \A u \in Trades : (sup'[u] \in Holding) = (sup[u] \in Holding)
    BY <1>3 DEF RaiseBeforeTry, TypeOK, Holding
  <2> QED BY <2>1, <2>2, BookStutter
<1>4. ASSUME NEW t \in Trades, StreamTake(t)
      PROVE  Book!Next \/ BookStutters
  <2>1. row' = row
    BY <1>4 DEF StreamTake
  <2>2. \A u \in Trades : (sup'[u] \in Holding) = (sup[u] \in Holding)
    BY <1>4 DEF StreamTake, TypeOK, Holding
  <2> QED BY <2>1, <2>2, BookStutter
<1>5. ASSUME NEW t \in Trades, StreamKeep(t)
      PROVE  Book!Next \/ BookStutters
  <2>1. row' = row
    BY <1>5 DEF StreamKeep
  <2>2. \A u \in Trades : (sup'[u] \in Holding) = (sup[u] \in Holding)
    BY <1>5 DEF StreamKeep, TypeOK, Holding
  <2> QED BY <2>1, <2>2, BookStutter
<1>6. ASSUME NEW t \in Trades, StreamExit(t)
      PROVE  Book!Next \/ BookStutters
  <2>1. row' = row
    BY <1>6 DEF StreamExit
  <2>2. \A u \in Trades : (sup'[u] \in Holding) = (sup[u] \in Holding)
    BY <1>6 DEF StreamExit, TypeOK, Holding
  <2> QED BY <2>1, <2>2, BookStutter
<1>7. ASSUME NEW t \in Trades, StreamRaise(t)
      PROVE  Book!Next \/ BookStutters
  <2>1. row' = row
    BY <1>7 DEF StreamRaise
  <2>2. \A u \in Trades : (sup'[u] \in Holding) = (sup[u] \in Holding)
    BY <1>7 DEF StreamRaise, TypeOK, Holding
  <2> QED BY <2>1, <2>2, BookStutter
<1>8. ASSUME NEW t \in Trades, StreamEnd(t)
      PROVE  Book!Next \/ BookStutters
  <2>1. row' = row
    BY <1>8 DEF StreamEnd
  <2>2. \A u \in Trades : (sup'[u] \in Holding) = (sup[u] \in Holding)
    BY <1>8 DEF StreamEnd, TypeOK, Holding
  <2> QED BY <2>1, <2>2, BookStutter
<1>9. ASSUME NEW t \in Trades, TickFindsClosed(t)
      PROVE  Book!Next \/ BookStutters
  <2>1. row' = row
    BY <1>9 DEF TickFindsClosed
  <2>2. \A u \in Trades : (sup'[u] \in Holding) = (sup[u] \in Holding)
    BY <1>9 DEF TickFindsClosed, TypeOK, Holding
  <2> QED BY <2>1, <2>2, BookStutter
<1>10. ASSUME NEW t \in Trades, TickExit(t)
      PROVE  Book!Next \/ BookStutters
  <2>1. row' = row
    BY <1>10 DEF TickExit
  <2>2. \A u \in Trades : (sup'[u] \in Holding) = (sup[u] \in Holding)
    BY <1>10 DEF TickExit, TypeOK, Holding
  <2> QED BY <2>1, <2>2, BookStutter
<1>11. ASSUME NEW t \in Trades, TickRaise(t)
      PROVE  Book!Next \/ BookStutters
  <2>1. row' = row
    BY <1>11 DEF TickRaise
  <2>2. \A u \in Trades : (sup'[u] \in Holding) = (sup[u] \in Holding)
    BY <1>11 DEF TickRaise, TypeOK, Holding
  <2> QED BY <2>1, <2>2, BookStutter
<1>12. ASSUME NEW t \in Trades, FinalCloseFails(t)
      PROVE  Book!Next \/ BookStutters
  <2>1. row' = row
    BY <1>12 DEF FinalCloseFails
  <2>2. \A u \in Trades : (sup'[u] \in Holding) = (sup[u] \in Holding)
    BY <1>12 DEF FinalCloseFails, TypeOK, Holding
  <2> QED BY <2>1, <2>2, BookStutter
<1>13. ASSUME NEW t \in Trades, Unsubscribe(t)
      PROVE  Book!Next \/ BookStutters
  <2>1. row' = row
    BY <1>13 DEF Unsubscribe
  <2>2. \A u \in Trades : (sup'[u] \in Holding) = (sup[u] \in Holding)
    BY <1>13 DEF Unsubscribe, TypeOK, Holding
  <2> QED BY <2>1, <2>2, BookStutter
<1>14. ASSUME NEW t \in Trades, StreamClose(t)
      PROVE  Book!Next \/ BookStutters
  <2>1. row[t] = "open" /\ row' = [row EXCEPT ![t] = "rule"]
    BY <1>14 DEF StreamClose, IInv, Agreement, Agrees
  <2>2. sup[t] \in Holding /\ \A u \in Trades : (sup'[u] \in Holding) = (sup[u] \in Holding)
    BY <1>14 DEF StreamClose, TypeOK, Holding
  <2>3. Book!Close(t)
    BY <2>1, <2>2, BookClose DEF ExitReasons
  <2> QED BY <2>3 DEF Book!Next, Book!Positions, Trades
<1>15. ASSUME NEW t \in Trades, TickClose(t)
      PROVE  Book!Next \/ BookStutters
  <2>1. row[t] = "open" /\ row' = [row EXCEPT ![t] = "rule"]
    BY <1>15 DEF TickClose, IInv, Agreement, Agrees
  <2>2. sup[t] \in Holding /\ \A u \in Trades : (sup'[u] \in Holding) = (sup[u] \in Holding)
    BY <1>15 DEF TickClose, TypeOK, Holding
  <2>3. Book!Close(t)
    BY <2>1, <2>2, BookClose DEF ExitReasons
  <2> QED BY <2>3 DEF Book!Next, Book!Positions, Trades
<1>16. ASSUME NEW t \in Trades, Expire(t)
      PROVE  Book!Next \/ BookStutters
  <2>1. row[t] = "open" /\ row' = [row EXCEPT ![t] = "expired"]
    BY <1>16 DEF Expire, IInv, Agreement, Agrees
  <2>2. sup[t] \in Holding /\ \A u \in Trades : (sup'[u] \in Holding) = (sup[u] \in Holding)
    BY <1>16 DEF Expire, TypeOK, Holding
  <2>3. Book!Close(t)
    BY <2>1, <2>2, BookClose DEF ExitReasons
  <2> QED BY <2>3 DEF Book!Next, Book!Positions, Trades
<1>17. ASSUME NEW t \in Trades, ErrorClose(t)
      PROVE  Book!Next \/ BookStutters
  <2>1. row[t] = "open" /\ row' = [row EXCEPT ![t] = "error"]
    BY <1>17 DEF ErrorClose, IInv, Agreement, Agrees
  <2>2. sup[t] \in Holding /\ \A u \in Trades : (sup'[u] \in Holding) = (sup[u] \in Holding)
    BY <1>17 DEF ErrorClose, TypeOK, Holding
  <2>3. Book!Close(t)
    BY <2>1, <2>2, BookClose DEF ExitReasons
  <2> QED BY <2>3 DEF Book!Next, Book!Positions, Trades
<1>18. ASSUME NEW t \in Trades, Reap(t)
      PROVE  Book!Next \/ BookStutters
  <2>1. sup[t] \in Holding /\ \A u \in Trades : (sup'[u] \in Holding) = (sup[u] \in Holding)
    BY <1>18 DEF Reap, TypeOK, Holding
  <2>2. CASE row' = row
    BY <2>1, <2>2, BookStutter
  <2>3. CASE InFlight(t) # {} /\ row' = [row EXCEPT ![t] = "rule"]
    <3>1. row[t] = "open"
      BY <1>18, <2>3 DEF InFlight, IInv, Agreement, Agrees
    <3>2. Book!Close(t)
      BY <2>1, <2>3, <3>1, BookClose DEF ExitReasons
    <3> QED BY <3>2 DEF Book!Next, Book!Positions, Trades
  <2> QED BY <1>18, <2>2, <2>3 DEF Reap
<1>19. ASSUME NEW t \in Trades, OpenTrade(t)
      PROVE  Book!Next \/ BookStutters
  <2>1. row[t] = "none" /\ row' = [row EXCEPT ![t] = "open"]
    BY <1>19 DEF OpenTrade, IInv, Agreement, Agrees
  <2>2. HeldTrades' = HeldTrades /\ t \in HeldTrades
    BY <1>19 DEF OpenTrade, StartLoops, TypeOK, HeldTrades, Holding
  <2>3. Recorded[t] = "none" /\ Recorded' = [Recorded EXCEPT ![t] = "open"]
    BY <2>1 DEF TypeOK, Recorded, ExitReasons
  <2>4. Book!Open(t)
    BY <2>2, <2>3 DEF Book!Open
  <2> QED BY <2>4 DEF Book!Next, Book!Positions, Trades
<1>20. ASSUME NEW t \in Trades, Release(t)
      PROVE  Book!Next \/ BookStutters
  <2>1. t \in HeldTrades /\ HeldTrades' = HeldTrades \ {t}
    BY <1>20 DEF Release, TypeOK, HeldTrades, Holding
  <2>2. Recorded' = Recorded /\ Recorded[t] # "none"
    BY <1>20 DEF Release, IInv, Agreement, Agrees, Recorded, ExitReasons
  <2>3. Book!Free(t)
    BY <2>1, <2>2 DEF Book!Free
  <2> QED BY <2>3 DEF Book!Next, Book!Positions, Trades
<1>21. CASE Crash
  <2>1. HeldTrades' = {} /\ Recorded' = Recorded
    BY <1>21 DEF Crash, HeldTrades, Holding, Recorded
  <2> QED BY <2>1 DEF Book!Stop, Book!Next
<1>22. CASE Resume
  <2>1. HeldTrades = {}
    BY <1>22 DEF Resume, IInv, Stopped, HeldTrades, Holding
  <2>2. HeldTrades' = {t \in Trades : Recorded[t] = "open"} /\ Recorded' = Recorded
    BY <1>22 DEF Resume, HeldTrades, Holding, Recorded, ExitReasons, TypeOK
  <2>3. Book!Restart
    BY <2>1, <2>2 DEF Book!Restart, Book!Positions, Trades
  <2> QED BY <2>3 DEF Book!Next
<1>23. CASE UNCHANGED vars
  BY <1>23 DEF vars, BookStutters, HeldTrades, Recorded
<1> QED
  BY <1>1, <1>2, <1>3, <1>4, <1>5, <1>6, <1>7, <1>8, <1>9, <1>10, <1>11, <1>12, <1>13, <1>14, <1>15, <1>16, <1>17, <1>18, <1>19, <1>20, <1>21, <1>22, <1>23
     DEF Next, Handle, StreamStep, TickStep, RunStep

(* The paper-trading system implements the book of positions: counters in   *)
(* place of sets, two loops and a flag in place of one close.               *)
THEOREM Implements == Spec => ImplementsBook
BY BookInit, BookStep, Inductive, SlotsAccounted, PTL DEF Spec, ImplementsBook, Book!Spec
=============================================================================
