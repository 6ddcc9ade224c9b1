----------------------------- MODULE ReplayFeed -----------------------------
(***************************************************************************)
(* ReplayLaunchpad for one token: its trades are loaded into one queue, the *)
(* observation window takes those up to its end, and the supervisors of all *)
(* configs that entered draw on what is left of the same queue.  Between    *)
(* two trades of one supervisor another may run.                            *)
(***************************************************************************)
EXTENDS Integers, Sequences, SequencesExt

CONSTANTS
  Histories,    (* the trades the table may hold: sequences of timestamps  *)
  Readers,      (* the configs whose supervisors may draw                  *)
  WindowSec,    (* observe_seconds; the token was created at 0             *)
  GapSec        (* inactivity timeout of the monitor phase                 *)

ASSUME ReplayFeedAssumption ==
  /\ WindowSec \in Nat /\ GapSec \in Nat \ {0}
  /\ \A h \in Histories :
       h \in Seq(Nat) /\ \A i, j \in DOMAIN h : i < j => h[i] <= h[j]

VARIABLES
  history,    (* the rows of the trades table                              *)
  feed,       (* the subscription: its queue and its cursor                *)
  seen,       (* what the observation window was given                     *)
  drawn,      (* what the supervisors were given, in the order they were   *)
  reader      (* config -> its draw on the queue                           *)

replayVars == <<history, feed, seen, drawn, reader>>

Unread == [pc |-> "idle", last |-> <<>>]

ReplayInit ==
  /\ history \in Histories
  /\ feed = [pc |-> "none", queue |-> <<>>, cursor |-> 0]
  /\ seen = <<>> /\ drawn = <<>>
  /\ reader = [r \in Readers |-> Unread]

ReplayOff ==
  /\ history = <<>>
  /\ feed = [pc |-> "off", queue |-> <<>>, cursor |-> 0]
  /\ seen = <<>> /\ drawn = <<>> /\ reader = << >>

(* subscribe_trades loads all trades of the token.                          *)
SubscribeReplay ==
  /\ feed.pc = "none"
  /\ feed' = [pc |-> "window", queue |-> history, cursor |-> 0]
  /\ UNCHANGED <<history, seen, drawn, reader>>

(* _drain_until: the trade that lies past the window has been taken out of   *)
(* the queue by then, and goes to its back.                                  *)
DrainUntil ==
  /\ feed.pc = "window"
  /\ LET q == feed.queue
     IN IF q # <<>> /\ Head(q) <= feed.cursor + WindowSec
        THEN /\ feed' = [feed EXCEPT !.queue = Tail(@)]
             /\ seen' = Append(seen, Head(q))
        ELSE /\ feed' = [pc |-> "rest", cursor |-> feed.cursor + WindowSec,
                         queue |-> IF q = <<>> THEN q ELSE Append(Tail(q), Head(q))]
             /\ UNCHANGED seen
  /\ UNCHANGED <<history, drawn, reader>>

(* A supervisor opens its stream: the same queue, unless the first one to   *)
(* end has dropped it.                                                      *)
StartDrain ==
  /\ feed.pc \in {"rest", "dropped"}
  /\ \E r \in Readers :
       /\ reader[r].pc = "idle"
       /\ reader' = [reader EXCEPT ![r].pc =
                       IF feed.pc = "rest" THEN "drains" ELSE "ended"]
  /\ UNCHANGED <<history, feed, seen, drawn>>

Gap(r) == /\ reader[r].last # <<>>
          /\ Head(feed.queue) - Last(reader[r].last) > GapSec

(* Fault: only the trade that was peeked at goes back.                       *)
PutBackPeeked(buffer) == IF buffer = <<>> THEN buffer ELSE <<Head(buffer)>>

PutBack(buffer) == buffer

(* _drain_all: the next trade, unless it comes after a silence; then all     *)
(* that is left is taken out of the queue and put back in the same order.    *)
DrainAll ==
  /\ \E r \in DOMAIN reader :
       /\ reader[r].pc = "drains"
       /\ LET q == feed.queue
          IN IF q = <<>> \/ Gap(r)
             THEN /\ feed' = [feed EXCEPT !.queue = PutBack(q)]
                  /\ reader' = [reader EXCEPT ![r].pc = "ended"]
                  /\ UNCHANGED drawn
             ELSE /\ feed' = [feed EXCEPT !.queue = Tail(q)]
                  /\ drawn' = Append(drawn, Head(q))
                  /\ reader' = [reader EXCEPT ![r].last = <<Head(q)>>]
  /\ UNCHANGED <<history, seen>>

(* A supervisor's position is closed: it leaves its stream.                  *)
LeaveDrain ==
  /\ \E r \in DOMAIN reader :
       /\ reader[r].pc = "drains"
       /\ reader' = [reader EXCEPT ![r].pc = "ended"]
  /\ UNCHANGED <<history, feed, seen, drawn>>

(* A supervisor that ends drops the queue for those that come later; those   *)
(* that draw go on with the queue they have.                                 *)
UnsubscribeReplay ==
  /\ \E r \in DOMAIN reader :
       /\ reader[r].pc = "ended"
       /\ reader' = [reader EXCEPT ![r].pc = "gone"]
  /\ feed' = [feed EXCEPT !.pc = "dropped"]
  /\ UNCHANGED <<history, seen, drawn>>

(* Nobody enters the token: the handler drops the queue.                     *)
SkipToken ==
  /\ feed.pc = "rest" /\ \A r \in Readers : reader[r] = Unread
  /\ reader' = [r \in Readers |-> [Unread EXCEPT !.pc = "gone"]]
  /\ feed' = [feed EXCEPT !.pc = "dropped"]
  /\ UNCHANGED <<history, seen, drawn>>

ReplayNext == \/ SubscribeReplay \/ UnsubscribeReplay \/ SkipToken
              \/ DrainUntil
              \/ StartDrain \/ DrainAll \/ LeaveDrain

ReplayTypeOK ==
  /\ feed.pc \in {"off", "none", "window", "rest", "dropped"}
  /\ \A r \in DOMAIN reader :
       reader[r].pc \in {"idle", "drains", "ended", "gone"}

(* From the subscription on every trade of the history is in one place,      *)
(* whichever supervisors draw, stop at a silence, leave or drop the queue    *)
(* under the others; the supervisors together get what follows the window in *)
(* the order of time, but for its first trade, which they get last           *)
(* (sources/replay.py, _drain_until and _drain_all).                         *)
ReplayRotates ==
  feed.pc \notin {"off", "none"} =>
    IF feed.pc = "window" THEN seen \o feed.queue = history
    ELSE \E n \in 0..Len(history) :
           LET after == SubSeq(history, n + 1, Len(history))
           IN /\ \A i \in DOMAIN history : history[i] <= WindowSec <=> i <= n
              /\ seen = SubSeq(history, 1, n)
              /\ drawn \o feed.queue = IF after = <<>> THEN after
                                       ELSE Append(Tail(after), Head(after))
=============================================================================
